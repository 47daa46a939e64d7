------------------------- MODULE SendManagerProofs -------------------------
(***************************************************************************)
(* Proofs about SendManager, for any number of messages, any readings of   *)
(* the clock and any sequence of failures, deaths and restarts.  They use  *)
(* Spec: no fairness is assumed.                                           *)
(***************************************************************************)
EXTENDS SendManager, SequenceTheorems, FiniteSetTheorems, TLAPS

-----------------------------------------------------------------------------
(* The inductive invariant. *)
Distinct(q) == \A i, j \in 1..Len(q) : q[i] = q[j] => i = j

(* Those of q that are not in X come in the order of their numbers. *)
Rising(q, X) ==
    \A i, j \in 1..Len(q) : i < j /\ q[i] \notin X /\ q[j] \notin X => q[i] < q[j]

(* Nothing waits in a process that has died. *)
ProcOK == proc # "runs" => queue = <<>>

(* A message waits in the queue, once, or on disk under its time, once. *)
PlaceOK ==
    /\ Distinct(queue)
    /\ Queued \cap OnDisk = {}
    /\ \A t \in Files : files[t] \in Msgs => dt[files[t]] = t
    /\ Queued \subseteq 1..handed /\ OnDisk \subseteq necessary

(* The time of a message is that of its birth, until it comes back from disk. *)
TimeOK ==
    \A m \in 1..handed : born[m] # 0 /\ dt[m] = IF m \in restored THEN 0 ELSE born[m]

(* The queue begins with what came back from disk; the others follow in order. *)
OrderOK ==
    /\ Rising(queue, restored)
    /\ \A n \in Queued \ restored, m \in restored : m < n

SendInv ==
    /\ SendTypeOK /\ ProcOK /\ PlaceOK /\ TimeOK
    /\ AnsweredIsOver /\ OrderOK /\ InOrder /\ LossNeedsTwin

-----------------------------------------------------------------------------
(* Queues: what is added at the end, and what is taken from either end. *)
LEMMA Members ==
    ASSUME NEW S, NEW q \in Seq(S)
    PROVE  /\ Len(q) \in Nat
           /\ ToSet(q) = {q[i] : i \in 1..Len(q)} /\ ToSet(q) \subseteq S
           /\ q = <<>> <=> Len(q) = 0
           /\ ToSet(<<>>) = {} /\ <<>> \in Seq(S)
  BY DEF ToSet

LEMMA AppendQueue ==
    ASSUME NEW S, NEW q \in Seq(S), NEW m \in S
    PROVE  /\ Append(q, m) \in Seq(S)
           /\ ToSet(Append(q, m)) = ToSet(q) \cup {m}
           /\ Distinct(q) /\ m \notin ToSet(q) => Distinct(Append(q, m))
           /\ \A X : Rising(q, X) /\ (m \notin X => \A n \in ToSet(q) \ X : n < m)
                       => Rising(Append(q, m), X)
<1> DEFINE r == Append(q, m)
<1>1. /\ r \in Seq(S) /\ Len(r) = Len(q) + 1 /\ r[Len(q) + 1] = m /\ Len(q) \in Nat
      /\ \A i \in 1..Len(q) : r[i] = q[i]
  BY AppendProperties, LenProperties
<1>2. /\ ToSet(q) = {q[i] : i \in 1..Len(q)}
      /\ ToSet(r) = {r[i] : i \in 1..Len(r)}
  <2> HIDE DEF r
  <2>1. QED
    BY <1>1, Members
<1> HIDE DEF r
<1>3. \A i \in 1..Len(r) : i \in 1..Len(q) \/ i = Len(q) + 1
  BY <1>1
<1>4. ToSet(r) = ToSet(q) \cup {m}
  BY <1>1, <1>2, <1>3
<1>5. ASSUME Distinct(q), m \notin ToSet(q)
      PROVE  Distinct(r)
  BY <1>1, <1>2, <1>3, <1>5 DEF Distinct
<1>6. ASSUME NEW X, Rising(q, X), m \notin X => \A n \in ToSet(q) \ X : n < m
      PROVE  Rising(r, X)
  <2> SUFFICES ASSUME NEW i \in 1..Len(r), NEW j \in 1..Len(r),
                      i < j, r[i] \notin X, r[j] \notin X
               PROVE  r[i] < r[j]
    BY DEF Rising
  <2>1. i \in 1..Len(q)
    BY <1>1
  <2>2. CASE j \in 1..Len(q)
    BY <1>1, <1>6, <2>1, <2>2 DEF Rising
  <2>3. CASE j = Len(q) + 1
    BY <1>1, <1>2, <1>6, <2>1, <2>3
  <2>4. QED
    BY <1>3, <2>2, <2>3
<1>7. QED
  BY <1>1, <1>4, <1>5, <1>6 DEF r

LEMMA TailQueue ==
    ASSUME NEW S \in SUBSET Nat, NEW q \in Seq(S), q # <<>>
    PROVE  /\ Tail(q) \in Seq(S) /\ Head(q) \in ToSet(q)
           /\ ToSet(q) = ToSet(Tail(q)) \cup {Head(q)}
           /\ Distinct(q) => Distinct(Tail(q)) /\ Head(q) \notin ToSet(Tail(q))
           /\ \A X : Rising(q, X) =>
                 /\ Rising(Tail(q), X)
                 /\ Head(q) \notin X => \A n \in ToSet(q) \ X : Head(q) <= n
<1> DEFINE r == Tail(q)
<1>1. /\ r \in Seq(S) /\ Len(r) = Len(q) - 1 /\ Len(q) \in Nat \ {0} /\ Head(q) = q[1]
      /\ \A i \in 1..Len(r) : r[i] = q[i + 1]
  BY HeadTailProperties, EmptySeq
<1>2. /\ ToSet(q) = {q[i] : i \in 1..Len(q)} /\ ToSet(q) \subseteq S
      /\ ToSet(r) = {r[i] : i \in 1..Len(r)}
  <2> HIDE DEF r
  <2>1. QED
    BY <1>1, Members
<1> HIDE DEF r
<1>3. \A i \in 1..Len(q) : i = 1 \/ (i - 1 \in 1..Len(r) /\ r[i - 1] = q[i])
  BY <1>1
<1>4. \A i \in 1..Len(r) : i + 1 \in 1..Len(q) /\ i + 1 # 1
  BY <1>1
<1>5. ToSet(q) = ToSet(r) \cup {Head(q)} /\ Head(q) \in ToSet(q)
  BY <1>1, <1>2, <1>3, <1>4
<1>6. ASSUME Distinct(q)
      PROVE  Distinct(r) /\ Head(q) \notin ToSet(r)
  BY <1>1, <1>2, <1>4, <1>6 DEF Distinct
<1>7. ASSUME NEW X, Rising(q, X)
      PROVE  Rising(r, X)
  <2> SUFFICES ASSUME NEW i \in 1..Len(r), NEW j \in 1..Len(r),
                      i < j, r[i] \notin X, r[j] \notin X
               PROVE  r[i] < r[j]
    BY DEF Rising
  <2>1. i + 1 \in 1..Len(q) /\ j + 1 \in 1..Len(q) /\ i + 1 < j + 1
    BY <1>4
  <2>2. q[i + 1] \notin X /\ q[j + 1] \notin X
    BY <1>1
  <2>3. QED
    BY <1>1, <1>7, <2>1, <2>2 DEF Rising
<1>8. ASSUME NEW X, Rising(q, X), Head(q) \notin X, NEW n \in ToSet(q) \ X
      PROVE  Head(q) <= n
  <2>0. Head(q) \in Nat /\ n \in Nat
    BY <1>2, <1>5, <1>8
  <2>1. PICK i \in 1..Len(q) : n = q[i]
    BY <1>2, <1>8
  <2>2. CASE i = 1
    BY <1>1, <2>0, <2>1, <2>2
  <2>3. CASE i # 1
    <3>1. 1 \in 1..Len(q) /\ 1 < i
      BY <1>1, <2>3
    <3>2. QED
      BY <1>1, <1>8, <2>0, <2>1, <3>1 DEF Rising
  <2>4. QED
    BY <2>2, <2>3
<1>9. QED
  BY <1>1, <1>5, <1>6, <1>7, <1>8 DEF r

LEMMA FrontQueue ==
    ASSUME NEW S, NEW q \in Seq(S), q # <<>>
    PROVE  /\ Front(q) \in Seq(S) /\ Last(q) \in ToSet(q)
           /\ ToSet(q) = ToSet(Front(q)) \cup {Last(q)}
           /\ Distinct(q) => Distinct(Front(q)) /\ Last(q) \notin ToSet(Front(q))
           /\ \A X : Rising(q, X) => Rising(Front(q), X)
<1> DEFINE r == Front(q)
<1>1. Len(q) \in Nat \ {0} /\ Last(q) = q[Len(q)]
  BY EmptySeq DEF Last
<1>2. /\ r \in Seq(S) /\ Len(r) = Len(q) - 1
      /\ \A i \in 1..Len(r) : r[i] = q[i]
  <2>1. \A i \in 1..(Len(q) - 1) : q[i] \in S
    BY <1>1, ElementOfSeq
  <2>2. r = SubSeq(q, 1, Len(q) - 1)
    BY DEF Front
  <2>3. \A n \in Int : (\A i \in 1..n : q[i] \in S) =>
           /\ SubSeq(q, 1, n) \in Seq(S)
           /\ Len(SubSeq(q, 1, n)) = IF 1 <= n THEN n - 1 + 1 ELSE 0
           /\ \A i \in 1..(n - 1 + 1) : SubSeq(q, 1, n)[i] = q[1 + i - 1]
    BY SubSeqProperties
  <2>4. \A n \in Nat : (\A i \in 1..n : q[i] \in S) =>
           /\ SubSeq(q, 1, n) \in Seq(S) /\ Len(SubSeq(q, 1, n)) = n
           /\ \A i \in 1..n : SubSeq(q, 1, n)[i] = q[i]
    BY <2>3
  <2>5. Len(q) - 1 \in Nat
    BY <1>1
  <2> HIDE DEF r
  <2>6. QED
    BY <2>1, <2>2, <2>4, <2>5
<1>3. /\ ToSet(q) = {q[i] : i \in 1..Len(q)}
      /\ ToSet(r) = {r[i] : i \in 1..Len(r)}
  <2> HIDE DEF r
  <2>1. QED
    BY <1>2, Members
<1> HIDE DEF r
<1>4. \A i \in 1..Len(r) : i \in 1..Len(q) /\ i # Len(q)
  BY <1>1, <1>2
<1>5. \A i \in 1..Len(q) : i \in 1..Len(r) \/ i = Len(q)
  BY <1>1, <1>2
<1>6. ToSet(q) = ToSet(r) \cup {Last(q)}
  <2>1. Last(q) = q[Len(q)] /\ Len(q) \in 1..Len(q)
    BY <1>1
  <2>2. QED
    BY <1>2, <1>3, <1>4, <1>5, <2>1
<1>7. ASSUME Distinct(q)
      PROVE  Distinct(r) /\ Last(q) \notin ToSet(r)
  BY <1>1, <1>2, <1>3, <1>4, <1>7 DEF Distinct
<1>8. ASSUME NEW X, Rising(q, X)
      PROVE  Rising(r, X)
  BY <1>2, <1>4, <1>8 DEF Rising
<1>9. QED
  BY <1>2, <1>6, <1>7, <1>8 DEF r

LEMMA DistinctCount ==
    ASSUME NEW S, NEW q \in Seq(S), Distinct(q)
    PROVE  Cardinality(ToSet(q)) = Len(q)
<1>1. /\ Len(q) \in Nat /\ q \in [1..Len(q) -> S]
      /\ ToSet(q) = {q[i] : i \in 1..Len(q)}
  BY Members, LenProperties
<1>2. q \in Bijection(1..Len(q), ToSet(q))
  BY <1>1 DEF Bijection, Injection, Surjection, IsInjective, Distinct
<1>3. QED
  BY <1>1, <1>2, FS_CountingElements DEF ExistsBijection

-----------------------------------------------------------------------------
(* What is on disk, file by file. *)
DiskIs == \A m : m \in OnDisk <=> m \in Msgs /\ \E t \in Times : files[t] = m

LEMMA OnDiskIs == SendTypeOK => DiskIs
  BY SendAssumption DEF OnDisk, Files, SendTypeOK, DiskIs

LEMMA OnDiskIsNext == SendTypeOK' => DiskIs'
  BY OnDiskIs, PTL

LEMMA MessageFacts ==
    /\ Msgs \subseteq Nat /\ Msgs \in SUBSET Nat /\ 1 \in Msgs
    /\ \A m \in Msgs : Clock[m] \subseteq Times /\ 0 \notin Clock[m]
    /\ 0 \in Times /\ Torn \notin Msgs /\ NoFile \notin Msgs /\ Torn # NoFile
    /\ \A n \in Msgs : n < MaxMessages => n + 1 \in Msgs
    /\ \A n \in Msgs : 1..n \subseteq Msgs
  BY SendAssumption DEF Msgs, Times

LEMMA InitOK == Init => SendInv
<1> SUFFICES ASSUME Init
             PROVE  SendInv
  OBVIOUS
<1> USE MessageFacts DEF Init
<1>1. SendTypeOK
  <2>1. dt \in [Msgs -> Times]
    BY DEF Times
  <2>2. queue \in Seq(Msgs)
    OBVIOUS
  <2>3. files \in [Times -> Msgs \cup {Torn, NoFile}]
    OBVIOUS
  <2>4. handed \in Msgs /\ necessary \subseteq 1..handed
    OBVIOUS
  <2> HIDE MessageFacts
  <2>5. QED
    BY <2>1, <2>2, <2>3, <2>4 DEF SendTypeOK
<1>2. Queued = {1} /\ OnDisk = {}
  BY <1>1, OnDiskIs DEF Queued, ToSet, DiskIs
<1>3. PICK t \in Clock[1] : dt = [m \in Msgs |-> IF m = 1 THEN t ELSE 0]
  OBVIOUS
<1>4. PlaceOK /\ TimeOK /\ OrderOK
  BY <1>2, <1>3 DEF PlaceOK, TimeOK, OrderOK, Distinct, Rising, Files
<1>5. AnsweredIsOver /\ InOrder /\ LossNeedsTwin
  BY <1>2 DEF AnsweredIsOver, InOrder, LossNeedsTwin, Missing
<1>6. QED
  BY <1>1, <1>4, <1>5 DEF SendInv, ProcOK

-----------------------------------------------------------------------------
(* The two actions with which a message comes, and the steps that do no more than
   to let time or the tick go on. *)
LEMMA PushEffect ==
    ASSUME SendTypeOK, ProcOK, Hand \/ Restart
    PROVE  /\ handed + 1 \in Msgs /\ handed' = handed + 1
           /\ queue' = Append(queue, handed + 1)
           /\ \E t \in Clock[handed + 1] : /\ dt' = [dt EXCEPT ![handed + 1] = t]
                                          /\ born' = [born EXCEPT ![handed + 1] = t]
           /\ necessary \subseteq necessary' /\ necessary' \subseteq necessary \cup {handed + 1}
           /\ UNCHANGED <<diskVars, serverVars, restored, crashed>>
           /\ proc' = "runs"
<1>1. handed + 1 \in Msgs
  BY MessageFacts DEF SendTypeOK, Hand, Restart
<1>2. CASE Hand
  BY <1>1, <1>2 DEF Hand, Push, processVars
<1>3. CASE Restart
  BY <1>1, <1>3 DEF Restart, Push, ProcOK, Started
<1>4. QED
  BY <1>2, <1>3

SpillsOne ==
    /\ terminate /\ queue # <<>> /\ Spill
    /\ UNCHANGED <<proc, messageVars, serverVars, restored, crashed>>

RestoresOne ==
    /\ proc = "runs" /\ queue = <<>> /\ \E t \in Files : Restore(t)
    /\ UNCHANGED <<proc, dir, necessary, handed, born, serverVars, crashed>>

Quiet ==
    /\ UNCHANGED <<queue, messageVars, diskVars, serverVars, restored, crashed>>
    /\ proc' # "runs" => queue = <<>>

LEMMA StepKinds ==
    ASSUME ProcOK, Next \/ UNCHANGED vars
    PROVE  \/ Hand \/ Restart \/ sys_send_manager \/ SpillsOne \/ RestoresOne
           \/ Crash \/ CrashInPush \/ Quiet
<1>1. CASE sys_disk_manager
  BY <1>1 DEF sys_disk_manager, SpillsOne, RestoresOne, Quiet, messageVars, Turn, MayRun, Dies
<1>2. CASE sys_reset \/ EndTick \/ TryPeriodOver \/ DiskPeriodOver \/ UNCHANGED vars
  BY <1>2 DEF sys_reset, EndTick, TryPeriodOver, DiskPeriodOver, Quiet, processVars, ProcOK, vars
<1>3. QED
  BY <1>1, <1>2 DEF Next, Tick

LEMMA QueueFacts ==
    /\ <<>> \in Seq(Msgs) /\ ToSet(<<>>) = {}
    /\ \A q \in Seq(Msgs), m \in Msgs : Append(q, m) \in Seq(Msgs)
  BY AppendProperties DEF ToSet

LEMMA TypeStep ==
    ASSUME SendTypeOK, ProcOK, PlaceOK, Next \/ UNCHANGED vars
    PROVE  SendTypeOK'
<1>1. /\ proc' \in {"runs", "died", "panicked"} /\ todo' \subseteq Systems
      /\ terminate' \in BOOLEAN /\ tryDue' \in BOOLEAN /\ diskDue' \in BOOLEAN /\ dir' \in BOOLEAN
  BY DEF Next, Tick, Hand, sys_send_manager, SendFirst, sys_disk_manager, sys_reset, EndTick,
         TryPeriodOver, DiskPeriodOver, Crash, CrashInPush, Restart, Turn, Started, Dies, Spill,
         Write, processVars, diskVars, vars, SendTypeOK
<1> DEFINE Rest ==
        /\ queue' \in Seq(Msgs) /\ handed' \in Msgs /\ necessary' \subseteq 1..handed'
        /\ dt' \in [Msgs -> Times] /\ born' \in [Msgs -> Times]
        /\ files' \in [Times -> Msgs \cup {Torn, NoFile}]
        /\ got' \subseteq 1..handed' /\ answered' \subseteq got'
        /\ restored' \subseteq necessary' /\ crashed' \subseteq 1..handed'
<1>2. CASE Hand \/ Restart
  <2>1. queue' \in Seq(Msgs)
    <3>1. queue \in Seq(Msgs) /\ handed + 1 \in Msgs /\ queue' = Append(queue, handed + 1)
      BY <1>2, PushEffect DEF SendTypeOK
    <3>2. QED
      BY <3>1, QueueFacts, Zenon
  <2>2. dt' \in [Msgs -> Times] /\ born' \in [Msgs -> Times]
    BY <1>2, PushEffect, MessageFacts DEF SendTypeOK
  <2>3. 1..handed \subseteq 1..handed' /\ handed + 1 \in 1..handed'
    BY <1>2, PushEffect, MessageFacts DEF SendTypeOK
  <2>4. Rest
    BY <1>2, <2>1, <2>2, <2>3, PushEffect DEF SendTypeOK, diskVars, serverVars
  <2>5. QED
    BY <1>1, <2>4 DEF SendTypeOK
<1>3. CASE sys_send_manager
  <2>1. UNCHANGED <<handed, necessary, dt, born, files, restored, crashed>>
    BY <1>3 DEF sys_send_manager, messageVars, diskVars
  <2>2. CASE UNCHANGED <<queue, got, answered>>
    BY <1>1, <2>1, <2>2 DEF SendTypeOK
  <2>3. ASSUME queue # <<>>, NEW a \in BOOLEAN, NEW b \in BOOLEAN, b => a, SendFirst(a, b)
        PROVE  SendTypeOK'
    <3>1. Head(queue) \in 1..handed
      BY <2>3, TailQueue, MessageFacts DEF SendTypeOK, PlaceOK, Queued
    <3>2. queue' \in Seq(Msgs)
      BY <2>3, TailQueue, MessageFacts DEF SendFirst, Keep, SendTypeOK
    <3>3. got' \subseteq 1..handed /\ answered' \subseteq got'
      BY <2>3, <3>1 DEF SendFirst, SendTypeOK
    <3>4. QED
      BY <1>1, <2>1, <3>2, <3>3 DEF SendTypeOK
  <2>4. QED
    BY <1>3, <2>2, <2>3 DEF sys_send_manager, serverVars
<1>4. ASSUME queue # <<>>, NEW c \in Msgs \cup {Torn}, Write(Last(queue), c)
      PROVE  files' \in [Times -> Msgs \cup {Torn, NoFile}]
  BY <1>4 DEF Write, SendTypeOK
<1>5. CASE SpillsOne
  <2>1. Front(queue) \in Seq(Msgs) /\ Last(queue) \in Msgs
    BY <1>5, FrontQueue, Members DEF SpillsOne, SendTypeOK
  <2>2. files' \in [Times -> Msgs \cup {Torn, NoFile}]
    BY <1>4, <1>5, <2>1 DEF SpillsOne, Spill, diskVars, SendTypeOK
  <2>3. QED
    BY <1>1, <1>5, <2>1, <2>2 DEF SpillsOne, Spill, messageVars, serverVars, SendTypeOK
<1>6. CASE RestoresOne
  <2>1. PICK t \in Files : Restore(t)
    BY <1>6 DEF RestoresOne
  <2>2. files' \in [Times -> Msgs \cup {Torn, NoFile}]
    BY <2>1 DEF Restore, RemoveFile, SendTypeOK
  <2>3. files[t] \in Msgs \/ files[t] = Torn
    BY DEF Files, SendTypeOK
  <2>4. files[t] \in Msgs => files[t] \in necessary
    BY <2>3, OnDiskIs DEF PlaceOK, Files, DiskIs
  <2>5. CASE files[t] = Torn
    BY <1>1, <1>6, <2>1, <2>2, <2>5 DEF RestoresOne, Restore, serverVars, SendTypeOK
  <2>6. CASE files[t] \in Msgs
    <3>1. files[t] # Torn
      BY <2>6, MessageFacts
    <3>2. queue' = Append(queue, files[t]) /\ queue \in Seq(Msgs)
      BY <2>1, <3>1 DEF Restore, SendTypeOK
    <3>3. queue' \in Seq(Msgs)
      BY <2>6, <3>2, QueueFacts, Zenon
    <3>4. dt' \in [Msgs -> Times] /\ restored' \subseteq necessary
      BY <2>1, <2>4, <2>6, <3>1, MessageFacts DEF Restore, SendTypeOK
    <3>5. QED
      BY <1>1, <1>6, <2>2, <3>3, <3>4 DEF RestoresOne, serverVars, SendTypeOK
  <2>7. QED
    BY <2>3, <2>5, <2>6
<1>7. CASE Crash \/ CrashInPush
  <2>1. crashed' \subseteq 1..handed
    BY <1>7 DEF Crash, CrashInPush, PlaceOK, SendTypeOK
  <2>2. files' \in [Times -> Msgs \cup {Torn, NoFile}]
    BY <1>4, <1>7 DEF Crash, CrashInPush, diskVars, SendTypeOK
  <2>3. queue' \in Seq(Msgs)
    BY <1>7, QueueFacts DEF Crash, CrashInPush, Dies
  <2>4. QED
    BY <1>1, <1>7, <2>1, <2>2, <2>3
    DEF Crash, CrashInPush, messageVars, serverVars, SendTypeOK
<1>8. CASE Quiet
  BY <1>1, <1>8 DEF Quiet, messageVars, diskVars, serverVars, SendTypeOK
<1>9. QED
  BY <1>2, <1>3, <1>5, <1>6, <1>7, <1>8, StepKinds

-----------------------------------------------------------------------------
LEMMA PlaceStep ==
    ASSUME SendTypeOK, SendTypeOK', ProcOK, PlaceOK, AnsweredIsOver, Next \/ UNCHANGED vars
    PROVE  ProcOK' /\ PlaceOK' /\ AnsweredIsOver'
<1> USE MessageFacts, OnDiskIs, OnDiskIsNext
    DEF ProcOK, PlaceOK, AnsweredIsOver, DiskIs, Files
<1>0. /\ queue \in Seq(Msgs) /\ Msgs \in SUBSET Nat
      /\ files \in [Times -> Msgs \cup {Torn, NoFile}]
      /\ dt \in [Msgs -> Times] /\ handed \in Msgs /\ necessary \subseteq 1..handed
      /\ answered \subseteq 1..handed /\ Queued = ToSet(queue) /\ Queued' = ToSet(queue')
  BY DEF SendTypeOK, Queued
<1>1. CASE Hand \/ Restart
  <2>1. /\ handed + 1 \in Msgs /\ handed' = handed + 1 /\ UNCHANGED <<files, answered>>
        /\ proc' = "runs" /\ necessary \subseteq necessary'
        /\ \A m \in 1..handed : m \in Msgs /\ dt'[m] = dt[m]
    <3> HIDE DEF ProcOK, PlaceOK, AnsweredIsOver, DiskIs, Files
    <3>1. /\ UNCHANGED <<diskVars, serverVars>> /\ handed + 1 \in Msgs
          /\ handed' = handed + 1 /\ proc' = "runs" /\ necessary \subseteq necessary'
          /\ \E t : dt' = [dt EXCEPT ![handed + 1] = t]
      BY <1>1, PushEffect
    <3>2. handed + 1 \notin 1..handed /\ 1..handed \subseteq Msgs
      BY MessageFacts DEF SendTypeOK
    <3>3. \A m \in 1..handed : m \in Msgs /\ dt'[m] = dt[m]
      BY <1>0, <3>1, <3>2
    <3>4. QED
      BY <3>1, <3>3 DEF diskVars, serverVars
  <2>2. handed + 1 \notin 1..handed /\ 1..handed' = (1..handed) \cup {handed + 1}
    BY <1>0, <2>1
  <2>3. OnDisk' = OnDisk
    BY <2>1 DEF OnDisk
  <2>4. Distinct(queue') /\ ToSet(queue') = Queued \cup {handed + 1}
    <3>1. queue' = Append(queue, handed + 1) /\ handed + 1 \notin ToSet(queue) /\ Distinct(queue)
      BY <1>0, <1>1, <2>2, PushEffect
    <3> HIDE DEF ProcOK, PlaceOK, AnsweredIsOver, DiskIs, Files
    <3>2. QED
      BY <1>0, <2>1, <3>1, AppendQueue, Zenon
  <2>5. \A t \in Files : files[t] \in Msgs => files[t] \in 1..handed
    BY <1>0
  <2>6. QED
    BY <1>0, <2>1, <2>2, <2>3, <2>4, <2>5
<1>2. CASE sys_send_manager
  <2>1. UNCHANGED <<proc, handed, necessary, dt, files>>
    BY <1>2 DEF sys_send_manager, messageVars, diskVars
  <2>2. OnDisk' = OnDisk /\ proc = "runs"
    BY <1>2, <2>1 DEF OnDisk, sys_send_manager, Turn, MayRun
  <2>3. CASE UNCHANGED <<queue, answered>>
    BY <1>0, <2>1, <2>2, <2>3
  <2>4. ASSUME queue # <<>>, NEW a \in BOOLEAN, NEW b \in BOOLEAN, SendFirst(a, b)
        PROVE  ProcOK' /\ PlaceOK' /\ AnsweredIsOver'
    <3>1. /\ Queued = ToSet(Tail(queue)) \cup {Head(queue)} /\ Distinct(Tail(queue))
          /\ Head(queue) \notin ToSet(Tail(queue)) /\ Head(queue) \in Queued
      BY <1>0, <2>4, TailQueue
    <3>2. CASE queue' = queue /\ answered' = answered
      BY <1>0, <2>1, <2>2, <3>2
    <3>3. CASE queue' = Tail(queue)
      <4>1. answered' \subseteq answered \cup {Head(queue)}
        BY <2>4 DEF SendFirst
      <4>2. Queued' = Queued \ {Head(queue)} /\ Head(queue) \notin OnDisk /\ Distinct(queue')
        BY <1>0, <3>1, <3>3
      <4>3. \A t \in Files' : files'[t] \in Msgs => dt'[files'[t]] = t
        BY <2>1
      <4>4. /\ Queued' \cap OnDisk' = {}
            /\ Queued' \subseteq 1..handed' /\ OnDisk' \subseteq necessary'
        BY <2>1, <2>2, <4>2
      <4>5. answered' \cap (Queued' \cup OnDisk') = {}
        BY <2>2, <4>1, <4>2
      <4>6. QED
        BY <2>1, <2>2, <4>2, <4>3, <4>4, <4>5
    <3>4. QED
      BY <2>4, <3>2, <3>3 DEF SendFirst, Keep
  <2>5. QED
    BY <1>2, <2>3, <2>4 DEF sys_send_manager, serverVars
<1>3. CASE SpillsOne
  <2> DEFINE m == Last(queue)
  <2>1. /\ UNCHANGED <<proc, handed, necessary, dt, answered>>
        /\ queue' = Front(queue) /\ queue # <<>>
        /\ \/ UNCHANGED files
           \/ m \in necessary /\ files' = [files EXCEPT ![dt[m]] = m]
    BY <1>3 DEF SpillsOne, Spill, Write, messageVars, diskVars, serverVars
  <2>2. /\ m \in Queued /\ Queued = ToSet(Front(queue)) \cup {m}
        /\ Distinct(Front(queue)) /\ m \notin ToSet(Front(queue))
    BY <1>0, <2>1, FrontQueue
  <2>3. m \in Msgs /\ dt[m] \in Times
    BY <1>0, <2>2
  <2> HIDE DEF m
  <2>4. \A t \in Times : files'[t] = files[t] \/ (t = dt[m] /\ files'[t] = m /\ m \in necessary)
    BY <1>0, <2>1, <2>3
  <2>5. OnDisk' \subseteq OnDisk \cup ({m} \cap necessary)
    BY <2>4
  <2>6. \A t \in Files' : files'[t] \in Msgs => dt'[files'[t]] = t
    BY <2>1, <2>4
  <2>7. QED
    BY <1>0, <2>1, <2>2, <2>5, <2>6
<1>4. CASE RestoresOne
  <2>1. PICK t \in Files : Restore(t)
    BY <1>4 DEF RestoresOne
  <2>2. /\ UNCHANGED <<proc, handed, necessary, answered>> /\ queue = <<>> /\ proc = "runs"
        /\ files' = [files EXCEPT ![t] = NoFile] /\ t \in Times
    BY <1>4, <2>1 DEF RestoresOne, Restore, RemoveFile, serverVars
  <2>3. \A u \in Times : u # t => files'[u] = files[u]
    BY <1>0, <2>2
  <2>4. files'[t] = NoFile
    BY <1>0, <2>2
  <2>5. CASE files[t] = Torn
    <3>1. UNCHANGED <<queue, dt>>
      BY <2>1, <2>5 DEF Restore
    <3>2. OnDisk' \subseteq OnDisk
      BY <2>3, <2>4
    <3>3. QED
      BY <1>0, <2>2, <2>3, <2>4, <3>1, <3>2
  <2>6. CASE files[t] \in Msgs
    <3>1. /\ queue' = Append(queue, files[t])
          /\ dt' = [dt EXCEPT ![files[t]] = 0] /\ files[t] \in OnDisk
      BY <2>1, <2>2, <2>6 DEF Restore
    <3>2. Queued = {} /\ Queued' = {files[t]} /\ Distinct(queue')
      <4>1. Queued = {} /\ files[t] \notin ToSet(queue) /\ Distinct(queue)
        BY <1>0, <2>2, QueueFacts
      <4>2. ToSet(queue') = ToSet(queue) \cup {files[t]} /\ Distinct(queue')
        <5> HIDE DEF ProcOK, PlaceOK, AnsweredIsOver, DiskIs, Files
        <5>1. queue \in Seq(Msgs) /\ queue' = Append(queue, files[t])
          BY <1>0, <3>1
        <5>2. QED
          BY <2>6, <4>1, <5>1, AppendQueue, Zenon
      <4>3. QED
        BY <1>0, <4>1, <4>2
    <3>3. \A u \in Times : files[u] = files[t] => u = t
      BY <2>6
    <3>4. OnDisk' = OnDisk \ {files[t]}
      BY <2>3, <2>4, <2>6, <3>3
    <3>5. \A u \in Files' : files'[u] \in Msgs => dt'[files'[u]] = u
      BY <1>0, <2>3, <2>4, <3>1, <3>3
    <3>6. /\ Queued' \cap OnDisk' = {}
          /\ Queued' \subseteq 1..handed' /\ OnDisk' \subseteq necessary'
      BY <1>0, <2>2, <3>1, <3>2, <3>4
    <3>7. answered' \cap (Queued' \cup OnDisk') = {}
      BY <2>2, <3>1, <3>2, <3>4
    <3>8. QED
      BY <2>2, <3>2, <3>5, <3>6, <3>7
  <2>7. QED
    BY <1>0, <2>5, <2>6
<1>5. CASE Crash \/ CrashInPush
  <2>1. /\ UNCHANGED <<handed, necessary, dt, answered>> /\ queue' = <<>>
        /\ UNCHANGED files \/ files' = [files EXCEPT ![dt[Last(queue)]] = Torn]
    BY <1>5 DEF Crash, CrashInPush, Dies, Write, messageVars, diskVars, serverVars
  <2>2. \A t \in Times : files'[t] = files[t] \/ files'[t] = Torn
    BY <1>0, <2>1
  <2>3. Queued' = {} /\ OnDisk' \subseteq OnDisk
    BY <1>0, <2>1, <2>2, QueueFacts
  <2>4. \A t \in Files' : files'[t] \in Msgs => dt'[files'[t]] = t
    BY <2>1, <2>2
  <2>5. Distinct(queue')
    BY <2>1 DEF Distinct
  <2>6. QED
    BY <1>0, <2>1, <2>3, <2>4, <2>5
<1>6. CASE Quiet
  <2>1. UNCHANGED <<queue, handed, necessary, dt, files, answered>>
    BY <1>6 DEF Quiet, messageVars, diskVars, serverVars
  <2>2. OnDisk' = OnDisk
    BY <2>1 DEF OnDisk
  <2>3. QED
    BY <1>0, <1>6, <2>1, <2>2 DEF Quiet
<1>7. QED
  BY <1>1, <1>2, <1>3, <1>4, <1>5, <1>6, StepKinds

LEMMA TimeStep ==
    ASSUME SendTypeOK, ProcOK, TimeOK, Next \/ UNCHANGED vars
    PROVE  TimeOK'
<1> USE MessageFacts DEF TimeOK
<1>0. /\ dt \in [Msgs -> Times] /\ born \in [Msgs -> Times] /\ handed \in Msgs
      /\ restored \subseteq 1..handed
  BY DEF SendTypeOK
<1>1. CASE Hand \/ Restart
  <2>1. PICK t \in Clock[handed + 1] :
          /\ dt' = [dt EXCEPT ![handed + 1] = t] /\ born' = [born EXCEPT ![handed + 1] = t]
    BY <1>1, PushEffect
  <2>2. handed' = handed + 1 /\ handed + 1 \in Msgs /\ restored' = restored
    BY <1>1, PushEffect
  <2>3. t # 0
    BY <2>2
  <2>4. dt'[handed + 1] = t /\ born'[handed + 1] = t /\ handed + 1 \notin restored
    BY <1>0, <2>1, <2>2
  <2>5. \A m \in 1..handed : m \in Msgs /\ dt'[m] = dt[m] /\ born'[m] = born[m]
    BY <1>0, <2>1
  <2>6. \A m \in 1..handed' : m \in 1..handed \/ m = handed + 1
    BY <1>0, <2>2
  <2>7. QED
    BY <2>2, <2>3, <2>4, <2>5, <2>6
<1>2. CASE RestoresOne
  <2>1. PICK t \in Files : Restore(t)
    BY <1>2 DEF RestoresOne
  <2>2. UNCHANGED <<handed, born>>
    BY <1>2 DEF RestoresOne
  <2>3. CASE files[t] = Torn
    BY <2>1, <2>2, <2>3 DEF Restore
  <2>4. CASE files[t] # Torn
    BY <1>0, <2>1, <2>2, <2>4 DEF Restore, Files, SendTypeOK
  <2>5. QED
    BY <2>3, <2>4
<1>3. CASE sys_send_manager \/ SpillsOne \/ Crash \/ CrashInPush \/ Quiet
  BY <1>3 DEF sys_send_manager, SpillsOne, Crash, CrashInPush, Quiet, messageVars
<1>4. QED
  BY <1>1, <1>2, <1>3, StepKinds

LEMMA OrderStep ==
    ASSUME SendTypeOK, ProcOK, PlaceOK, OrderOK, InOrder, Next \/ UNCHANGED vars
    PROVE  OrderOK' /\ InOrder'
<1>0. /\ queue \in Seq(Msgs) /\ Msgs \in SUBSET Nat /\ handed \in Msgs /\ handed \in Nat
      /\ got \subseteq 1..handed /\ restored \subseteq 1..handed
      /\ Queued \subseteq 1..handed /\ Queued = ToSet(queue) /\ Queued' = ToSet(queue')
  BY MessageFacts DEF SendTypeOK, PlaceOK, Queued
<1>1. Queued \subseteq Nat /\ got \subseteq Nat /\ restored \subseteq Nat
  BY <1>0
<1>2. CASE Hand \/ Restart
  <2>1. /\ handed + 1 \in Msgs /\ queue' = Append(queue, handed + 1)
        /\ UNCHANGED <<got, restored>>
    BY <1>2, PushEffect DEF serverVars
  <2>2. \A n \in ToSet(queue) \ restored : n < handed + 1
    BY <1>0
  <2>3. Queued' = Queued \cup {handed + 1} /\ Rising(queue', restored)
    BY <1>0, <2>1, <2>2, AppendQueue, Zenon DEF OrderOK
  <2>4. \A m \in 1..handed : m < handed + 1 /\ ~(handed + 1 < m)
    BY <1>0
  <2>5. QED
    BY <1>0, <2>1, <2>3, <2>4 DEF OrderOK, InOrder
<1>3. CASE sys_send_manager
  <2>1. restored' = restored
    BY <1>3 DEF sys_send_manager
  <2>2. CASE UNCHANGED <<queue, got>>
    BY <2>1, <2>2 DEF OrderOK, InOrder, Queued
  <2>3. ASSUME queue # <<>>, NEW a \in BOOLEAN, NEW b \in BOOLEAN, SendFirst(a, b)
        PROVE  OrderOK' /\ InOrder'
    <3> DEFINE h == Head(queue)
    <3>1. /\ h \in Queued /\ Queued = ToSet(Tail(queue)) \cup {h} /\ Rising(Tail(queue), restored)
          /\ h \notin restored => \A n \in Queued \ restored : h <= n
      BY <1>0, <2>3, TailQueue DEF OrderOK
    <3>2. queue' \in {queue, Tail(queue)} /\ got \subseteq got' /\ got' \subseteq got \cup {h}
      BY <2>3 DEF SendFirst, Keep
    <3> HIDE DEF h
    <3>3. Queued' \subseteq Queued /\ Rising(queue', restored')
      BY <1>0, <2>1, <3>1, <3>2 DEF OrderOK
    <3>4. ~(\E n \in Queued \ restored : n < h)
      BY <1>1, <3>1 DEF OrderOK
    <3>5. QED
      BY <2>1, <3>2, <3>3, <3>4 DEF OrderOK, InOrder
  <2>4. QED
    BY <1>3, <2>2, <2>3 DEF sys_send_manager, serverVars
<1>4. CASE SpillsOne
  <2>1. queue # <<>> /\ queue' = Front(queue) /\ UNCHANGED <<got, restored>>
    BY <1>4 DEF SpillsOne, Spill, serverVars
  <2>2. Queued' \subseteq Queued /\ Rising(queue', restored)
    BY <1>0, <2>1, FrontQueue DEF OrderOK
  <2>3. QED
    BY <2>1, <2>2 DEF OrderOK, InOrder
<1>5. CASE RestoresOne
  <2>1. PICK t \in Files : Restore(t)
    BY <1>5 DEF RestoresOne
  <2>2. queue = <<>> /\ Queued = {} /\ got' = got
    BY <1>0, <1>5, QueueFacts DEF RestoresOne, serverVars
  <2>3. CASE files[t] = Torn
    BY <2>1, <2>2, <2>3 DEF Restore, OrderOK, InOrder, Queued
  <2>4. CASE files[t] # Torn
    <3>1. /\ queue' = Append(queue, files[t]) /\ restored' = restored \cup {files[t]}
          /\ files[t] \in Msgs
      BY <2>1, <2>4 DEF Restore, Files, SendTypeOK
    <3>2. Rising(queue, restored') /\ \A n \in ToSet(queue) \ restored' : n < files[t]
      BY <1>0, <2>2 DEF Rising
    <3>3. Queued' = {files[t]} /\ Rising(queue', restored')
      <4>1. Rising(queue', restored') /\ ToSet(queue') = ToSet(queue) \cup {files[t]}
        BY <1>0, <3>1, <3>2, AppendQueue, Zenon
      <4>2. QED
        BY <1>0, <2>2, <4>1
    <3>4. QED
      BY <2>2, <3>1, <3>3 DEF OrderOK, InOrder
  <2>5. QED
    BY <2>3, <2>4
<1>6. CASE Crash \/ CrashInPush
  <2>1. queue' = <<>> /\ Queued' = {}
    BY <1>0, <1>6, QueueFacts DEF Crash, CrashInPush, Dies
  <2>2. QED
    BY <2>1 DEF OrderOK, InOrder, Rising
<1>7. CASE Quiet
  BY <1>7 DEF Quiet, OrderOK, InOrder, Queued, serverVars
<1>8. QED
  BY <1>2, <1>3, <1>4, <1>5, <1>6, <1>7, StepKinds

(* What is missing after a step was missing before, or has just been overwritten by
   another message of the same time. *)
Twins(m, n) == born[n] = born[m] \/ {m, n} \subseteq restored

LEMMA OverwriteIsTwin ==
    ASSUME SendTypeOK, PlaceOK, TimeOK, NEW m \in Queued \cap necessary,
           NEW n \in OnDisk, files[dt[m]] = n
    PROVE  m # n /\ Twins(n, m)
<1>1. n # m /\ n \in necessary /\ n \in Msgs
  BY OnDiskIs DEF PlaceOK, DiskIs
<1>2. dt[n] = dt[m]
  <2>1. m \in Msgs /\ dt[m] \in Times
    BY MessageFacts DEF SendTypeOK, Queued, PlaceOK
  <2>2. dt[m] \in Files
    BY <1>1, <2>1, MessageFacts DEF Files
  <2>3. QED
    BY <1>1, <2>2 DEF PlaceOK
<1>3. m \in 1..handed /\ n \in 1..handed
  BY <1>1 DEF SendTypeOK
<1>4. QED
  BY <1>1, <1>2, <1>3 DEF TimeOK, Twins

LEMMA MissingStep ==
    ASSUME SendTypeOK, SendTypeOK', ProcOK, PlaceOK, TimeOK, Next \/ UNCHANGED vars,
           NEW m \in Missing', m \notin Missing
    PROVE  \E n \in necessary : n # m /\ m \in necessary /\ Twins(m, n)
<1> USE OnDiskIs, OnDiskIsNext, MessageFacts DEF Missing, DiskIs
<1>0. /\ queue \in Seq(Msgs) /\ Msgs \in SUBSET Nat /\ Queued = ToSet(queue)
      /\ Queued' = ToSet(queue') /\ files \in [Times -> Msgs \cup {Torn, NoFile}]
      /\ dt \in [Msgs -> Times] /\ Queued \subseteq Msgs
  BY Members DEF SendTypeOK, Queued
<1>1. CASE Hand \/ Restart
  <2>1. /\ handed + 1 \in Msgs /\ queue' = Append(queue, handed + 1)
        /\ necessary' \subseteq necessary \cup {handed + 1}
        /\ UNCHANGED <<files, answered, crashed>>
    BY <1>1, PushEffect DEF diskVars, serverVars
  <2>2. Queued' = Queued \cup {handed + 1}
    <3> HIDE DEF DiskIs
    <3>1. QED
      BY <1>0, <2>1, AppendQueue, Zenon
  <2>3. OnDisk' = OnDisk
    BY <2>1 DEF OnDisk, Files
  <2>4. QED
    BY <2>1, <2>2, <2>3
<1>2. CASE sys_send_manager
  <2>1. UNCHANGED <<necessary, files, crashed>>
    BY <1>2 DEF sys_send_manager, messageVars, diskVars
  <2>2. OnDisk' = OnDisk
    BY <2>1 DEF OnDisk, Files
  <2>3. CASE UNCHANGED <<queue, answered>>
    BY <2>1, <2>2, <2>3 DEF Queued
  <2>4. ASSUME queue # <<>>, NEW a \in BOOLEAN, NEW b \in BOOLEAN, SendFirst(a, b)
        PROVE  FALSE
    <3>1. ToSet(queue) = ToSet(Tail(queue)) \cup {Head(queue)}
      BY <1>0, <2>4, TailQueue
    <3>2. /\ queue' = IF b \/ Head(queue) \notin necessary THEN Tail(queue) ELSE queue
          /\ answered' = IF b THEN answered \cup {Head(queue)} ELSE answered
      BY <2>4 DEF SendFirst, Keep
    <3>3. QED
      BY <1>0, <2>1, <2>2, <3>1, <3>2
  <2>5. QED
    BY <1>2, <2>3, <2>4 DEF sys_send_manager, serverVars
<1>3. ASSUME queue # <<>>, NEW c \in Msgs \cup {Torn}, Last(queue) \in necessary,
             files' = [files EXCEPT ![dt[Last(queue)]] = c], m \in OnDisk, m \notin OnDisk'
      PROVE  \E n \in necessary : n # m /\ m \in necessary /\ Twins(m, n)
  <2> DEFINE n == Last(queue)
  <2>1. n \in Queued \cap necessary
    BY <1>0, <1>3, FrontQueue
  <2>2. n \in Msgs /\ dt[n] \in Times /\ m \in Msgs
    BY <1>0, <1>3, <2>1
  <2> HIDE DEF n
  <2>3. PICK u \in Times : files[u] = m
    BY <1>3
  <2>4. u = dt[n]
    BY <1>0, <1>3, <2>2, <2>3 DEF n
  <2>5. n # m /\ Twins(m, n)
    BY <1>3, <2>1, <2>3, <2>4, OverwriteIsTwin
  <2>6. QED
    BY <1>3, <2>1, <2>5 DEF PlaceOK
<1>4. CASE SpillsOne
  <2>1. /\ UNCHANGED <<necessary, answered, crashed>> /\ queue' = Front(queue) /\ queue # <<>>
        /\ IF Last(queue) \in necessary
           THEN files' = [files EXCEPT ![dt[Last(queue)]] = Last(queue)]
           ELSE UNCHANGED files
    BY <1>4 DEF SpillsOne, Spill, Write, messageVars, diskVars, serverVars
  <2>2. Queued = ToSet(Front(queue)) \cup {Last(queue)}
    BY <1>0, <2>1, FrontQueue
  <2>3. Last(queue) \in Msgs /\ dt[Last(queue)] \in Times
    BY <1>0, <2>2
  <2>4. m \in Queued => m \in OnDisk'
    <3>1. m \in Queued => m = Last(queue) /\ m \in necessary
      BY <1>0, <2>1, <2>2
    <3>2. QED
      BY <1>0, <2>1, <2>3, <3>1
  <2>5. m \in OnDisk /\ m \notin OnDisk'
    BY <2>1, <2>4
  <2>6. Last(queue) \notin necessary => OnDisk' = OnDisk
    BY <2>1 DEF OnDisk, Files
  <2>7. QED
    BY <1>3, <2>1, <2>3, <2>5, <2>6
<1>5. CASE RestoresOne
  <2>1. PICK t \in Files : Restore(t)
    BY <1>5 DEF RestoresOne
  <2>2. /\ UNCHANGED <<necessary, answered, crashed>> /\ queue = <<>> /\ Queued = {}
        /\ t \in Times /\ files' = [files EXCEPT ![t] = NoFile]
    BY <1>0, <1>5, <2>1, QueueFacts DEF RestoresOne, serverVars, Restore, RemoveFile, Files
  <2>3. m \in OnDisk /\ m \notin OnDisk'
    BY <2>2
  <2>4. files[t] = m
    BY <1>0, <2>2, <2>3
  <2>5. queue' = Append(queue, m) /\ m \in Msgs
    BY <2>1, <2>3, <2>4 DEF Restore
  <2>6. m \in Queued'
    <3>1. queue \in Seq(Msgs)
      BY <1>0
    <3>2. ToSet(queue') = ToSet(queue) \cup {m}
      <4> HIDE DEF DiskIs
      <4>1. QED
        BY <2>5, <3>1, AppendQueue, Zenon
    <3>3. QED
      BY <1>0, <3>2
  <2>7. QED
    BY <2>6
<1>6. CASE Crash \/ CrashInPush
  <2>1. /\ UNCHANGED <<necessary, answered>> /\ crashed' = crashed \cup Queued
        /\ \/ UNCHANGED files
           \/ /\ queue # <<>> /\ Last(queue) \in necessary
              /\ files' = [files EXCEPT ![dt[Last(queue)]] = Torn]
    BY <1>6 DEF Crash, CrashInPush, Write, messageVars, diskVars, serverVars
  <2>2. m \in OnDisk /\ m \notin OnDisk'
    BY <2>1
  <2>3. files' = files => OnDisk' = OnDisk
    BY DEF OnDisk, Files
  <2>4. QED
    BY <1>3, <2>1, <2>2, <2>3
<1>7. CASE Quiet
  BY <1>7 DEF Quiet, messageVars, diskVars, serverVars, OnDisk, Files, Queued
<1>8. QED
  BY <1>1, <1>2, <1>4, <1>5, <1>6, <1>7, StepKinds

LEMMA LossStep ==
    ASSUME SendTypeOK, SendTypeOK', ProcOK, PlaceOK, TimeOK, LossNeedsTwin,
           Next \/ UNCHANGED vars
    PROVE  LossNeedsTwin'
<1> SUFFICES ASSUME NEW m \in Missing'
             PROVE  \E n \in necessary' \ {m} :
                      born'[n] = born'[m] \/ {m, n} \subseteq restored'
  BY DEF LossNeedsTwin
<1>1. PICK n \in necessary : n # m /\ m \in necessary /\ Twins(m, n)
  BY MissingStep DEF LossNeedsTwin, Missing, Twins
<1>2. /\ necessary \subseteq necessary' /\ restored \subseteq restored'
      /\ \A k \in necessary : born'[k] = born[k]
  <2>1. CASE Hand \/ Restart
    <3>1. /\ necessary \subseteq necessary' /\ restored' = restored
          /\ \E t : born' = [born EXCEPT ![handed + 1] = t]
      BY <2>1, PushEffect
    <3>2. necessary \subseteq 1..handed /\ handed \in Nat /\ born \in [Msgs -> Times]
          /\ 1..handed \subseteq Msgs
      BY MessageFacts DEF SendTypeOK
    <3>3. \A k \in necessary : k \in Msgs /\ k # handed + 1
      BY <3>2
    <3>4. QED
      BY <3>1, <3>2, <3>3
  <2>2. CASE RestoresOne
    BY <2>2 DEF RestoresOne, Restore
  <2>3. CASE sys_send_manager \/ SpillsOne \/ Crash \/ CrashInPush \/ Quiet
    BY <2>3 DEF sys_send_manager, SpillsOne, Crash, CrashInPush, Quiet, messageVars
  <2>4. QED
    BY <2>1, <2>2, <2>3, StepKinds
<1>3. QED
  BY <1>1, <1>2 DEF Twins

-----------------------------------------------------------------------------
LEMMA SendInvariant == Spec => []SendInv
<1>1. SendInv /\ [Next]_vars => SendInv'
  <2> SUFFICES ASSUME SendInv, Next \/ UNCHANGED vars
               PROVE  SendInv'
    OBVIOUS
  <2> USE DEF SendInv
  <2>1. SendTypeOK'
    BY TypeStep
  <2>2. ProcOK' /\ PlaceOK' /\ AnsweredIsOver'
    BY <2>1, PlaceStep
  <2>3. TimeOK' /\ OrderOK' /\ InOrder'
    BY TimeStep, OrderStep
  <2>4. LossNeedsTwin'
    BY <2>1, LossStep
  <2>5. QED
    BY <2>1, <2>2, <2>3, <2>4
<1>2. QED
  BY <1>1, InitOK, PTL DEF Spec

(* The queue, the files and what the history knows of each message stay in their
   types through every death and restart (sendm.rs:40-140). *)
THEOREM SendTypes == Spec => []SendTypeOK
<1>1. SendInv => SendTypeOK
  BY DEF SendInv
<1>2. QED
  BY <1>1, SendInvariant, PTL

(* What the server has answered is in no queue and in no file of this process or of
   a later one, so it is not sent again (sendm.rs:80-141, mos.rs:370-418). *)
THEOREM AnsweredStaysOver == Spec => []AnsweredIsOver
<1>1. SendInv => AnsweredIsOver
  BY DEF SendInv
<1>2. QED
  BY <1>1, SendInvariant, PTL

(* A message waits at one place, once: retries, spills and returns make no copies,
   whatever the clock says (sendm.rs:83-135). *)
THEOREM MessagesWaitOnce == Spec => []OnePlace
<1>1. SendInv => OnePlace
  <2> SUFFICES ASSUME SendInv
               PROVE  OnePlace
    OBVIOUS
  <2>1. Cardinality(Queued) = Len(queue)
    BY DistinctCount DEF SendInv, SendTypeOK, PlaceOK, Queued
  <2>2. \A t, u \in Files : files[t] = files[u] /\ files[t] # Torn => t = u
    BY DEF SendInv, SendTypeOK, PlaceOK, Files
  <2>3. QED
    BY <2>1, <2>2 DEF OnePlace, SendInv, PlaceOK
<1>2. QED
  BY <1>1, SendInvariant, PTL

(* Messages that wait in memory since they were handed over reach the server in that
   order (sendm.rs:83-110). *)
THEOREM ArrivalInOrder == Spec => []InOrder
<1>1. SendInv => InOrder
  BY DEF SendInv
<1>2. QED
  BY <1>1, SendInvariant, PTL

(* A report or a statistic is lost without the death of the process that had it only
   if there is another one that had its time: of the same millisecond, or the time 0
   because both came back from disk (mos.rs:355-418, sendm.rs:111-141). *)
THEOREM LossOnlyByTwin == Spec => []LossNeedsTwin
<1>1. SendInv => LossNeedsTwin
  BY DEF SendInv
<1>2. QED
  BY <1>1, SendInvariant, PTL
=============================================================================
