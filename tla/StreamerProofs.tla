--------------------------- MODULE StreamerProofs ---------------------------
(***************************************************************************)
(* Proofs about Streamer, for any programs and pids, any order of the      *)
(* systems and any failures.  They use StreamSafety: no fairness is        *)
(* assumed.  The manager's part of the invariant is that of ExecmProofs.   *)
(***************************************************************************)
EXTENDS Streamer, ExecmProofs, FiniteSetTheorems

-----------------------------------------------------------------------------
(* The inductive invariant. *)

(* What a stage has decided (nxt), against what it began with (st). *)
StagesOK ==
    /\ stage = "poll" => ran = {} /\ nxt = st
    /\ stage # "main" =>
         requested = {} /\ \A p \in Programs : st[p] # "none" => nxt[p] = st[p]
    /\ requested \cap run = {}
    /\ \A p \in InState("run") \ run : nxt[p] = "run"
    /\ "stream_terminator" \in ran =>
         \A p \in InState("transfer") \ run : nxt[p] = "none"

(* One event at most, of this tick, which the adder reads. *)
AskedOK ==
    /\ Len(sq.old) + Len(sq.new) <= 1
    /\ stage # "handle" \/ "adder" \in ran => sq.old = <<>> /\ sq.new = <<>>
    /\ "sq_update" \notin ran => sq.old = <<>>

(* Who may have sent the requests to run that are unread. *)
Updated == "rrq_update" \in ran

SendersOK ==
    /\ rrq.new \in Seq(IF Updated THEN requested ELSE InState("run"))
    /\ rrq.old \in Seq(IF Updated THEN InState("run") ELSE waited)

StreamInv == StreamTypeOK /\ CommandsOK /\ ProcessesOK /\ StagesOK /\ AskedOK /\ SendersOK

(* How many of them there are: each stream sends one in a stage, and an update
   drops what it has kept before. *)
FewRequests ==
    LET N == Cardinality(Programs)
        R == Cardinality(requested)
    IN  IF Updated
        THEN Len(rrq.new) <= R /\ Len(rrq.old) + Len(rrq.new) <= N + R
        ELSE Len(rrq.new) <= N + R /\ Len(rrq.old) + Len(rrq.new) <= 2 * N + R

-----------------------------------------------------------------------------
(* The two buffers of a queue, each with events of its own kind. *)
LEMMA SubSeqFacts ==
    ASSUME NEW E, NEW s \in Seq(E), NEW m \in Nat
    PROVE  /\ SubSeq(s, m + 1, Len(s)) \in Seq(E)
           /\ Len(s) \in Nat
           /\ Len(SubSeq(s, m + 1, Len(s))) = IF m <= Len(s) THEN Len(s) - m ELSE 0
<1>1. Len(s) \in Nat /\ \A i \in m + 1 .. Len(s) : s[i] \in E
  BY LenProperties, ElementOfSeq
<1>2. QED
  BY <1>1, SubSeqProperties

LEMMA DropFirstFacts ==
    ASSUME NEW E, NEW F, NEW o \in Seq(E), NEW w \in Seq(F), NEW n \in Nat
    PROVE  \E o2 \in Seq(E), w2 \in Seq(F) :
             /\ DropFirst([old |-> o, new |-> w], n) = [old |-> o2, new |-> w2]
             /\ Len(o2) \in Nat /\ Len(o2) <= Len(o)
             /\ Len(w2) \in Nat /\ Len(w2) <= Len(w)
             /\ n >= Len(o) + Len(w) => o2 = <<>> /\ w2 = <<>>
<1>1. Len(o) \in Nat /\ Len(w) \in Nat
  BY LenProperties
<1> DEFINE o2 == SubSeq(o, n + 1, Len(o))
           w3 == SubSeq(w, n - Len(o) + 1, Len(w))
           w2 == IF n <= Len(o) THEN w ELSE w3
<1>2. DropFirst([old |-> o, new |-> w], n) = [old |-> o2, new |-> w2]
  BY DEF DropFirst
<1>3. o2 \in Seq(E) /\ Len(o2) = IF n <= Len(o) THEN Len(o) - n ELSE 0
  BY <1>1, SubSeqFacts, Zenon
<1>4. ASSUME ~(n <= Len(o))
      PROVE  /\ w3 \in Seq(F)
             /\ Len(w3) = IF n - Len(o) <= Len(w) THEN Len(w) - (n - Len(o)) ELSE 0
  <2>1. n - Len(o) \in Nat
    BY <1>1, <1>4
  <2>2. QED
    BY <1>1, <2>1, SubSeqFacts, Zenon
<1> HIDE DEF o2, w3
<1>5. Len(o2) \in Nat /\ Len(o2) <= Len(o) /\ (n >= Len(o) => Len(o2) = 0)
  BY <1>1, <1>3
<1>6. /\ w2 \in Seq(F) /\ Len(w2) \in Nat /\ Len(w2) <= Len(w)
      /\ n >= Len(o) + Len(w) => Len(w2) = 0
  <2>1. CASE n <= Len(o)
    BY <1>1, <2>1
  <2>2. CASE ~(n <= Len(o))
    BY <1>1, <1>4, <2>2
  <2>3. QED
    BY <2>1, <2>2
<1> HIDE DEF w2
<1>7. n >= Len(o) + Len(w) => o2 = <<>> /\ w2 = <<>>
  BY <1>1, <1>3, <1>5, <1>6, EmptySeq
<1>8. QED
  BY <1>2, <1>3, <1>5, <1>6, <1>7

LEMMA UnreadFacts ==
    ASSUME NEW E, NEW F, NEW o \in Seq(E), NEW w \in Seq(F)
    PROVE  LET u == UnreadInOrder([old |-> o, new |-> w])
           IN  /\ Len(u) = Len(o) + Len(w)
               /\ u = <<>> <=> o = <<>> /\ w = <<>>
               /\ \A i \in 1..Len(u) : u[i] \in E \cup F
<1> DEFINE u == o \o w
<1>1. o \in Seq(E \cup F) /\ w \in Seq(E \cup F)
  BY SeqMonotonic
<1>2. Len(o) \in Nat /\ Len(w) \in Nat
  BY <1>1, LenProperties
<1>3. u \in Seq(E \cup F) /\ Len(u) = Len(o) + Len(w)
  BY <1>1, ConcatProperties
<1>4. UnreadInOrder([old |-> o, new |-> w]) = u
  BY DEF UnreadInOrder
<1> HIDE DEF u
<1>5. u = <<>> <=> o = <<>> /\ w = <<>>
  BY <1>1, <1>2, <1>3, EmptySeq
<1>6. \A i \in 1..Len(u) : u[i] \in E \cup F
  BY <1>3, ElementOfSeq
<1>7. QED
  BY <1>3, <1>4, <1>5, <1>6

(* A queue taken apart. *)
LEMMA Buffers ==
    ASSUME NEW E, NEW F, NEW q \in [old : Seq(E), new : Seq(F)]
    PROVE  /\ q.old \in Seq(E) /\ q.new \in Seq(F)
           /\ q = [old |-> q.old, new |-> q.new]
  OBVIOUS

-----------------------------------------------------------------------------
(* What steps leave alone. *)
LEMMA ManagerUntouched ==
    ASSUME CommandsOK, ProcessesOK, UNCHANGED <<cmds, run, held, procs, balance>>,
           ran \cap {"runner", "run_checker"} \subseteq ran'
    PROVE  CommandsOK' /\ ProcessesOK'
  BY DEF CommandsOK, ProcessesOK, Known

LEMMA QueueUntouched ==
    ASSUME SendersOK, UNCHANGED <<st, requested, waited, rrq>>, Updated' = Updated
    PROVE  SendersOK'
  BY DEF SendersOK, InState

LEMMA StagesUntouched ==
    ASSUME StagesOK, UNCHANGED <<stage, nxt, st, requested, run>>,
           stage # "poll", "stream_terminator" \in ran' => "stream_terminator" \in ran
    PROVE  StagesOK'
  BY DEF StagesOK, InState

-----------------------------------------------------------------------------
(* The stages PollServer and HandlePollEvents. *)
LEMMA PollKeeps == StreamInv /\ sys_poll => StreamInv'
<1> SUFFICES ASSUME StreamInv, sys_poll
             PROVE  StreamInv'
  OBVIOUS
<1>0. /\ StreamTypeOK /\ CommandsOK /\ ProcessesOK /\ StagesOK /\ AskedOK /\ SendersOK
      /\ stage = "poll" /\ stage' = "handle" /\ ran = {} /\ ran' = {}
      /\ UNCHANGED <<cmds, run, held, cnt, asked, trq, rrq, procs, told, balance>>
      /\ UNCHANGED <<st, nxt, requested, open, writing, waited>>
  BY DEF StreamInv, sys_poll, StagesOK, execVars
<1>1. /\ sq \in OrderedQueue(Asked) /\ sq.old = <<>> /\ sq.new = <<>>
      /\ sq.new \in Seq(Asked)
  BY <1>0 DEF StreamTypeOK, AskedOK, OrderedQueue
<1>2. sq' \in OrderedQueue(Asked) /\ sq'.old = <<>> /\ Len(sq'.old) + Len(sq'.new) <= 1
  <2>1. CASE sq' = sq
    BY <1>0, <1>1, <2>1 DEF AskedOK
  <2>2. ASSUME NEW p \in Asked, sq' = SendLast(sq, p)
        PROVE  sq' \in OrderedQueue(Asked) /\ sq'.old = <<>> /\ Len(sq'.old) + Len(sq'.new) <= 1
    <3>1. sq' \in OrderedQueue(Asked)
      BY <1>1, <2>2, OrderedQueueType
    <3>2. sq'.old = <<>> /\ sq'.new = Append(<<>>, p)
      BY <1>1, <2>2 DEF SendLast, OrderedQueue
    <3>3. Len(Append(<<>>, p)) = 1
      BY EmptySeq, AppendProperties
    <3>4. QED
      BY <3>1, <3>2, <3>3, EmptySeq
  <2>3. QED
    BY <2>1, <2>2 DEF sys_poll
<1>3. StreamTypeOK'
  BY <1>0, <1>2 DEF StreamTypeOK, ExecStateOK, InState
<1>4. StagesOK' /\ AskedOK' /\ SendersOK' /\ CommandsOK' /\ ProcessesOK'
  BY <1>0, <1>2, QueueUntouched, ManagerUntouched DEF StagesOK, AskedOK, InState, Updated
<1>5. QED
  BY <1>3, <1>4 DEF StreamInv

LEMMA HandleKeeps == StreamInv /\ (sq_update \/ adder) => StreamInv'
<1> SUFFICES ASSUME StreamInv, sq_update \/ adder
             PROVE  StreamInv'
  OBVIOUS
<1>0. /\ StreamTypeOK /\ CommandsOK /\ ProcessesOK /\ StagesOK /\ AskedOK /\ SendersOK
      /\ stage = "handle" /\ stage' = "handle" /\ ran \subseteq HandleSystems
      /\ UNCHANGED <<cmds, run, held, cnt, asked, trq, rrq, procs, told, balance>>
      /\ UNCHANGED <<st, requested, writing, waited>>
  BY DEF StreamInv, sq_update, adder, InHandle, StreamTypeOK, StageSystems
<1>1. PICK o \in Seq(Asked), w \in Seq(Asked) : sq = [old |-> o, new |-> w]
  BY <1>0 DEF StreamTypeOK, OrderedQueue
<1>2. /\ Len(o) \in Nat /\ Len(w) \in Nat /\ Len(o) + Len(w) <= 1
      /\ "adder" \in ran => o = <<>> /\ w = <<>>
      /\ Len(<<>>) = 0 /\ <<>> \in Seq(Asked)
  BY <1>0, <1>1, LenProperties, EmptySeq DEF AskedOK
<1>3. CASE sq_update
  <2>1. /\ "sq_update" \notin ran /\ ran' = ran \cup {"sq_update"}
        /\ sq' = [old |-> w, new |-> <<>>] /\ UNCHANGED <<nxt, open>>
    BY <1>1, <1>3 DEF sq_update, InHandle, Turn, SwapOrdered
  <2>2. sq' \in OrderedQueue(Asked)
    BY <1>2, <2>1 DEF OrderedQueue
  <2>3. AskedOK'
    BY <1>0, <1>2, <2>1 DEF AskedOK
  <2>4. QED
    BY <1>0, <2>1, <2>2, <2>3, QueueUntouched, ManagerUntouched, StagesUntouched
    DEF StreamInv, StreamTypeOK, StageSystems, HandleSystems, ExecStateOK, InState, Updated
<1>4. CASE adder
  <2> DEFINE reqs == UnreadInOrder(sq)
  <2>1. "adder" \notin ran /\ ran' = ran \cup {"adder"}
    BY <1>4 DEF adder, InHandle, Turn
  <2>2. sq' = [old |-> <<>>, new |-> <<>>]
    <3>1. CASE reqs = <<>>
      BY <1>1, <1>4, <3>1, UnreadFacts DEF adder
    <3>2. CASE reqs # <<>>
      <4>1. sq' = DropFirst([old |-> o, new |-> w], 1)
        BY <1>1, <1>4, <3>2 DEF adder
      <4>2. 1 \in Nat /\ 1 >= Len(o) + Len(w)
        BY <1>2
      <4>3. \E o2 \in Seq(Asked), w2 \in Seq(Asked) :
               /\ DropFirst([old |-> o, new |-> w], 1) = [old |-> o2, new |-> w2]
               /\ Len(o2) \in Nat /\ Len(o2) <= Len(o)
               /\ Len(w2) \in Nat /\ Len(w2) <= Len(w)
               /\ 1 >= Len(o) + Len(w) => o2 = <<>> /\ w2 = <<>>
        <5>1. 1 \in Nat
          OBVIOUS
        <5>2. QED
          BY <5>1, DropFirstFacts, Zenon
      <4>4. QED
        BY <4>1, <4>2, <4>3
    <3>3. QED
      BY <3>1, <3>2
  <2>3. \/ UNCHANGED <<nxt, open>>
        \/ \E p \in InState("none") : /\ nxt' = [nxt EXCEPT ![p] = "run"]
                                      /\ open' = open \cup {p}
    BY <1>4 DEF adder
  <2>4. /\ nxt' \in [Programs -> StreamStates]
        /\ open' \subseteq {p \in Programs : nxt'[p] # "none"}
        /\ \A p \in Programs : st[p] # "none" => nxt'[p] = nxt[p]
    <3> USE <1>0 DEF StreamTypeOK
    <3>1. CASE UNCHANGED <<nxt, open>>
      BY <3>1
    <3>2. ASSUME NEW p \in InState("none"), nxt' = [nxt EXCEPT ![p] = "run"],
                 open' = open \cup {p}
          PROVE  <2>4!:
      BY <3>2 DEF InState, StreamStates
    <3>3. QED
      BY <2>3, <3>1, <3>2
  <2>5. StreamTypeOK'
    BY <1>0, <1>2, <2>1, <2>2, <2>4
    DEF StreamTypeOK, StageSystems, HandleSystems, ExecStateOK, InState, OrderedQueue
  <2>6. StagesOK'
    BY <1>0, <2>1, <2>4 DEF StagesOK, HandleSystems, InState
  <2>7. AskedOK'
    BY <1>2, <2>2 DEF AskedOK
  <2>8. QED
    BY <1>0, <2>1, <2>5, <2>6, <2>7, QueueUntouched, ManagerUntouched DEF StreamInv, Updated
<1>5. QED
  BY <1>3, <1>4

LEMMA EndHandleKeeps == StreamInv /\ EndHandle => StreamInv'
<1> SUFFICES ASSUME StreamInv, EndHandle
             PROVE  StreamInv'
  OBVIOUS
<1>0. /\ StreamTypeOK /\ CommandsOK /\ ProcessesOK /\ StagesOK /\ AskedOK /\ SendersOK
      /\ stage = "handle" /\ stage' = "main" /\ ran = HandleSystems /\ ran' = {}
      /\ requested = {} /\ st' = nxt
      /\ \A p \in Programs : st[p] # "none" => nxt[p] = st[p]
      /\ UNCHANGED <<cmds, run, held, cnt, asked, trq, rrq, procs, told, balance>>
      /\ UNCHANGED <<sq, nxt, requested, open, writing, waited>>
  BY DEF StreamInv, EndHandle, StagesOK
<1>1. StreamTypeOK'
  BY <1>0 DEF StreamTypeOK, ExecStateOK, InState
<1>2. StagesOK'
  BY <1>0 DEF StagesOK, InState
<1>3. AskedOK'
  BY <1>0 DEF AskedOK, HandleSystems
<1>4. SendersOK'
  <2>1. InState("run") \subseteq InState("run")'
    BY <1>0 DEF InState
  <2>2. ~Updated /\ ~Updated'
    BY <1>0 DEF Updated, HandleSystems
  <2>3. rrq.new \in Seq(InState("run")) /\ rrq.old \in Seq(waited)
    BY <1>0, <2>2 DEF SendersOK
  <2>4. rrq.new \in Seq(InState("run")')
    BY <2>1, <2>3, SeqMonotonic
  <2>5. QED
    BY <1>0, <2>2, <2>3, <2>4 DEF SendersOK
<1>5. CommandsOK' /\ ProcessesOK'
  BY <1>0, ManagerUntouched DEF HandleSystems
<1>6. QED
  BY <1>1, <1>2, <1>3, <1>4, <1>5 DEF StreamInv

-----------------------------------------------------------------------------
(* The stage Main: the manager's systems. *)

(* The programs that come first in the table are some of those that may. *)
LEMMA RunnerOfTable == RunnerFrom(First) => runner
<1>1. First \subseteq Ready /\ (First = {} => Ready = {})
  BY DEF First
<1>2. QED
  BY <1>1 DEF RunnerFrom, runner

LEMMA ManagerTurn ==
    ASSUME ManagerSystem
    PROVE  /\ ExecSystem /\ stage = "main" /\ UNCHANGED <<streamVars, run>>
           /\ \E s \in ExecSystems : ran' = ran \cup {s}
<1>1. stage = "main" /\ UNCHANGED streamVars
  BY DEF ManagerSystem, ExecOf
<1>2. ExecSystem
  BY RunnerOfTable DEF ManagerSystem, ExecOf, ExecSystem
<1>3. UNCHANGED run /\ \E s \in ExecSystems : ran' = ran \cup {s}
  BY <1>2 DEF ExecSystem, terminate_adder, terminate_cleaner, terminator, run_checker,
              runner, RunnerFrom, trq_update, rrq_update, Turn, ExecSystems
<1>4. QED
  BY <1>1, <1>2, <1>3

(* What they do to the requests: the runner takes some, the update the oldest. *)
LEMMA ManagerRequests ==
    ASSUME ManagerSystem,
           NEW E, NEW F, NEW o \in Seq(E), NEW w \in Seq(F), rrq = [old |-> o, new |-> w]
    PROVE  \/ /\ Updated' = Updated
              /\ \E o2 \in Seq(E), w2 \in Seq(F) :
                   /\ rrq' = [old |-> o2, new |-> w2]
                   /\ Len(o2) \in Nat /\ Len(o2) <= Len(o)
                   /\ Len(w2) \in Nat /\ Len(w2) <= Len(w)
           \/ ~Updated /\ Updated' /\ rrq' = [old |-> w, new |-> <<>>]
<1> DEFINE Fewer(q) == \E o2 \in Seq(E), w2 \in Seq(F) :
                          /\ q = [old |-> o2, new |-> w2]
                          /\ Len(o2) \in Nat /\ Len(o2) <= Len(o)
                          /\ Len(w2) \in Nat /\ Len(w2) <= Len(w)
<1>0. /\ Len(o) \in Nat /\ Len(w) \in Nat
      /\ <<>> \in Seq(E) /\ <<>> \in Seq(F) /\ Len(<<>>) = 0
  BY LenProperties, EmptySeq
<1>1. Fewer([old |-> o, new |-> w])
  <2>1. Len(o) <= Len(o) /\ Len(w) <= Len(w)
    BY <1>0
  <2>2. QED
    BY <1>0, <2>1, Zenon
<1>2. Fewer([old |-> <<>>, new |-> <<>>])
  <2>1. Len(<<>>) \in Nat /\ Len(<<>>) <= Len(o) /\ Len(<<>>) <= Len(w)
    BY <1>0
  <2>2. QED
    BY <1>0, <2>1, Zenon
<1>3. ASSUME NEW n \in 1..Len(UnreadInOrder(rrq))
      PROVE  Fewer(DropFirst(rrq, n))
  <2>1. Len(UnreadInOrder(rrq)) = Len(o) + Len(w)
    BY UnreadFacts
  <2>2. n \in Nat
    BY <1>0, <1>3, <2>1
  <2>3. \E o2 \in Seq(E), w2 \in Seq(F) :
           /\ DropFirst([old |-> o, new |-> w], n) = [old |-> o2, new |-> w2]
           /\ Len(o2) \in Nat /\ Len(o2) <= Len(o)
           /\ Len(w2) \in Nat /\ Len(w2) <= Len(w)
           /\ n >= Len(o) + Len(w) => o2 = <<>> /\ w2 = <<>>
    BY <2>2, DropFirstFacts, Zenon
  <2>4. QED
    BY <2>3
<1> HIDE DEF Fewer
<1>4. rrq' = rrq => Fewer(rrq')
  BY <1>1
<1>5. rrq_update => ~Updated /\ Updated' /\ rrq' = [old |-> w, new |-> <<>>]
  BY DEF rrq_update, Turn, Updated, SwapOrdered
<1>6. ASSUME RunnerFrom(First)
      PROVE  Updated' = Updated /\ Fewer(rrq')
  <2>1. Updated' = Updated
    BY <1>6 DEF RunnerFrom, Turn, Updated
  <2>2. \/ rrq' = rrq \/ rrq' = NoOrdered
        \/ \E n \in 1..Len(UnreadInOrder(rrq)) : rrq' = DropFirst(rrq, n)
    BY <1>6 DEF RunnerFrom
  <2>3. Fewer(rrq')
    BY <1>1, <1>2, <1>3, <2>2, Zenon DEF NoOrdered
  <2>4. QED
    BY <2>1, <2>3
<1>7. (rrq' = rrq /\ Updated' = Updated) \/ rrq_update \/ RunnerFrom(First)
  BY DEF ManagerSystem, ExecOf, terminate_adder, terminate_cleaner, terminator, run_checker,
         trq_update, Turn, Updated
<1>8. \/ Updated' = Updated /\ Fewer(rrq')
      \/ ~Updated /\ Updated' /\ rrq' = [old |-> w, new |-> <<>>]
  BY <1>4, <1>5, <1>6, <1>7, Zenon
<1>9. QED
  BY <1>8 DEF Fewer

LEMMA ManagerKeeps == StreamInv /\ ManagerSystem => StreamInv'
<1> SUFFICES ASSUME StreamInv, ManagerSystem
             PROVE  StreamInv'
  OBVIOUS
<1>0. /\ StreamTypeOK /\ CommandsOK /\ ProcessesOK /\ StagesOK /\ AskedOK /\ SendersOK
      /\ stage = "main" /\ UNCHANGED <<stage, sq, st, nxt, requested, open, writing, waited, run>>
  BY ManagerTurn DEF StreamInv, streamVars
<1>1. PICK s \in ExecSystems : ran' = ran \cup {s}
  BY ManagerTurn
<1>2. ExecStateOK' /\ CommandsOK' /\ ProcessesOK'
  BY <1>0, ManagerTurn, SystemInv DEF ExecInv, StreamTypeOK
<1>3. StreamTypeOK'
  BY <1>0, <1>1, <1>2 DEF StreamTypeOK, StageSystems, MainSystems, InState
<1>4. StagesOK'
  BY <1>0, <1>1, StagesUntouched DEF ExecSystems
<1>5. AskedOK'
  BY <1>0, <1>1 DEF AskedOK
<1>6. SendersOK'
  <2> DEFINE O == IF Updated THEN InState("run") ELSE waited
             W == IF Updated THEN requested ELSE InState("run")
  <2>1. PICK o \in Seq(O), w \in Seq(W) : rrq = [old |-> o, new |-> w]
    <3>1. rrq = [old |-> rrq.old, new |-> rrq.new]
      BY <1>0 DEF StreamTypeOK, ExecStateOK, OrderedQueue
    <3>2. QED
      BY <1>0, <3>1 DEF SendersOK
  <2>2. InState("run")' = InState("run")
    BY <1>0 DEF InState
  <2>3. CASE /\ Updated' = Updated
             /\ \E o2 \in Seq(O), w2 \in Seq(W) : rrq' = [old |-> o2, new |-> w2]
    BY <1>0, <2>2, <2>3 DEF SendersOK
  <2>4. CASE ~Updated /\ Updated' /\ rrq' = [old |-> w, new |-> <<>>]
    <3>1. rrq'.old \in Seq(InState("run")) /\ rrq'.new \in Seq(requested')
      BY <2>1, <2>4, EmptySeq
    <3>2. QED
      BY <2>2, <2>4, <3>1 DEF SendersOK
  <2> HIDE DEF O, W
  <2>5. QED
    BY <2>1, <2>3, <2>4, ManagerRequests
<1>7. QED
  BY <1>2, <1>3, <1>4, <1>5, <1>6 DEF StreamInv

-----------------------------------------------------------------------------
(* The stage Main: the streamer's systems, and the end of the stage. *)
LEMMA RequestKeeps ==
    ASSUME StreamInv, NEW p \in Programs, request_one(p)
    PROVE  StreamInv'
<1>0. /\ StreamTypeOK /\ CommandsOK /\ ProcessesOK /\ StagesOK /\ AskedOK /\ SendersOK
      /\ stage = "main" /\ p \in InState("run") /\ p \notin run
      /\ requested' = requested \cup {p} /\ rrq' = SendLast(rrq, p)
      /\ UNCHANGED <<ran, cmds, run, held, cnt, asked, trq, procs, told, balance>>
      /\ UNCHANGED <<stage, sq, st, nxt, open, writing, waited>>
  BY DEF StreamInv, request_one
<1>1. rrq' \in OrderedQueue(Pids)
  <2>1. p \in Pids /\ rrq \in OrderedQueue(Pids) /\ 0 \in Nat
    BY <1>0, ExecmAssumption DEF StreamTypeOK, ExecStateOK
  <2>2. QED
    BY <1>0, <2>1, OrderedQueueType
<1>2. StreamTypeOK'
  <2>1. ExecStateOK'
    BY <1>0, <1>1 DEF StreamTypeOK, ExecStateOK
  <2>2. requested' \subseteq InState("run") /\ InState("run")' = InState("run")
    BY <1>0 DEF StreamTypeOK, InState
  <2>3. InState("transfer")' = InState("transfer")
    BY <1>0 DEF InState
  <2>4. QED
    BY <1>0, <2>1, <2>2, <2>3 DEF StreamTypeOK, StageSystems
<1>3. StagesOK'
  BY <1>0 DEF StagesOK, InState
<1>4. AskedOK' /\ CommandsOK' /\ ProcessesOK'
  BY <1>0, ManagerUntouched DEF AskedOK
<1>5. SendersOK'
  <2>1. /\ rrq'.old = rrq.old /\ rrq'.new = Append(rrq.new, p)
        /\ Updated' = Updated /\ InState("run")' = InState("run")
    BY <1>0 DEF SendLast, StreamTypeOK, ExecStateOK, OrderedQueue, Updated, InState
  <2>2. CASE Updated
    <3>1. rrq.new \in Seq(requested')
      BY <1>0, <2>2, SeqMonotonic DEF SendersOK
    <3>2. rrq'.new \in Seq(requested')
      BY <1>0, <2>1, <3>1, AppendProperties
    <3>3. QED
      BY <1>0, <2>1, <2>2, <3>2 DEF SendersOK
  <2>3. CASE ~Updated
    <3>1. rrq.new \in Seq(InState("run"))
      BY <1>0, <2>3 DEF SendersOK
    <3>2. rrq'.new \in Seq(InState("run"))
      BY <1>0, <2>1, <3>1, AppendProperties
    <3>3. QED
      BY <1>0, <2>1, <2>3, <3>2 DEF SendersOK
  <2>4. QED
    BY <2>2, <2>3
<1>6. QED
  BY <1>2, <1>3, <1>4, <1>5 DEF StreamInv

LEMMA StreamsKeep ==
    StreamInv /\ (stream_runner \/ transfer \/ stream_terminator) => StreamInv'
<1> SUFFICES ASSUME StreamInv, stream_runner \/ transfer \/ stream_terminator
             PROVE  StreamInv'
  OBVIOUS
<1>0. /\ StreamTypeOK /\ CommandsOK /\ ProcessesOK /\ StagesOK /\ AskedOK /\ SendersOK
      /\ stage = "main" /\ stage' = "main"
      /\ UNCHANGED <<cmds, run, held, cnt, asked, trq, rrq, procs, told, balance>>
      /\ UNCHANGED <<sq, st, requested, waited>>
      /\ InState("run")' = InState("run") /\ InState("transfer")' = InState("transfer")
  BY DEF StreamInv, stream_runner, transfer, stream_terminator, InMain, InState
<1>1. PICK s \in {"stream_runner", "transfer", "stream_terminator"} : ran' = ran \cup {s}
  BY DEF stream_runner, transfer, stream_terminator, InMain, Turn
<1>2. /\ nxt' \in [Programs -> StreamStates]
      /\ open' \subseteq {p \in Programs : nxt'[p] # "none"}
      /\ \A p \in InState("run") \ run : nxt'[p] = nxt[p]
      /\ \A p \in InState("transfer") : nxt'[p] \in {nxt[p], "none"}
      /\ stream_terminator => \A p \in InState("transfer") \ run : nxt'[p] = "none"
  <2> USE <1>0 DEF StreamTypeOK
  <2>1. CASE stream_runner
    BY <2>1 DEF stream_runner, stream_terminator, InMain, Turn, InState, StreamStates, Drop
  <2>2. ASSUME NEW S, S \subseteq InState("transfer"), Drop(S)
        PROVE  /\ nxt' \in [Programs -> StreamStates]
               /\ open' \subseteq {p \in Programs : nxt'[p] # "none"}
               /\ \A p \in InState("run") \ run : nxt'[p] = nxt[p]
               /\ \A p \in InState("transfer") : nxt'[p] \in {nxt[p], "none"}
               /\ \A p \in S : nxt'[p] = "none"
    BY <2>2 DEF Drop, InState, StreamStates
  <2>3. CASE stream_terminator
    BY <2>2, <2>3 DEF stream_terminator
  <2>4. CASE transfer /\ ~stream_terminator
    BY <2>2, <2>4 DEF transfer
  <2>5. QED
    BY <2>1, <2>3, <2>4
<1>a. writing' \subseteq InState("transfer")
  BY <1>0 DEF stream_runner, transfer, stream_terminator, MayBlock, StreamTypeOK
<1>3. "stream_terminator" \in ran' => "stream_terminator" \in ran \/ stream_terminator
  BY DEF stream_runner, transfer, stream_terminator, InMain, Turn
<1>4. StreamTypeOK'
  <2>1. ExecStateOK'
    BY <1>0 DEF StreamTypeOK, ExecStateOK
  <2>2. ran' \subseteq StageSystems'
    BY <1>0, <1>1 DEF StreamTypeOK, StageSystems, MainSystems
  <2>3. QED
    BY <1>0, <1>2, <1>a, <2>1, <2>2 DEF StreamTypeOK
<1>5. StagesOK'
  BY <1>0, <1>2, <1>3 DEF StagesOK
<1>6. AskedOK'
  BY <1>0, <1>1 DEF AskedOK
<1>7. SendersOK'
  BY <1>0, <1>1, QueueUntouched DEF Updated
<1>8. CommandsOK' /\ ProcessesOK'
  BY <1>0, <1>1, ManagerUntouched
<1>9. QED
  BY <1>4, <1>5, <1>6, <1>7, <1>8 DEF StreamInv

LEMMA EndMainKeeps == StreamInv /\ EndStreamMain => StreamInv'
<1> SUFFICES ASSUME StreamInv, EndStreamMain
             PROVE  StreamInv'
  OBVIOUS
<1>0. /\ StreamTypeOK /\ CommandsOK /\ ProcessesOK /\ StagesOK /\ AskedOK /\ SendersOK
      /\ stage = "main" /\ stage' = "poll" /\ ran = MainSystems /\ ran' = {}
      /\ writing = {} /\ writing' = {}
      /\ st' = nxt /\ requested' = {} /\ waited' = InState("run")
      /\ UNCHANGED <<sq, nxt, open, rrq>>
  BY DEF StreamInv, EndStreamMain, ApplyCommands
<1>1. ExecStateOK' /\ CommandsOK' /\ ProcessesOK'
  BY <1>0, CommandsInv DEF ExecInv, StreamTypeOK, EndStreamMain
<1>2. StreamTypeOK'
  BY <1>0, <1>1 DEF StreamTypeOK, InState
<1>3. StagesOK'
  BY <1>0 DEF StagesOK, InState
<1>4. AskedOK'
  BY <1>0 DEF AskedOK
<1>5. SendersOK'
  <2>1. Updated /\ ~Updated'
    BY <1>0 DEF Updated, MainSystems, ExecSystems
  <2>2. requested \subseteq InState("run")'
    BY <1>0 DEF StreamTypeOK, StagesOK, InState
  <2>3. rrq.new \in Seq(InState("run")') /\ rrq.old \in Seq(InState("run"))
    BY <1>0, <2>1, <2>2, SeqMonotonic DEF SendersOK
  <2>4. QED
    BY <1>0, <2>1, <2>3 DEF SendersOK
<1>6. QED
  BY <1>1, <1>2, <1>3, <1>4, <1>5 DEF StreamInv

LEMMA ElsewhereKeeps == StreamInv /\ (Elsewhere \/ UNCHANGED vars) => StreamInv'
<1> SUFFICES ASSUME StreamInv, Elsewhere \/ UNCHANGED vars
             PROVE  StreamInv'
  OBVIOUS
<1>0. /\ StreamTypeOK /\ CommandsOK /\ ProcessesOK /\ StagesOK /\ AskedOK /\ SendersOK
      /\ ExecInv
  BY DEF StreamInv, StreamTypeOK, ExecInv
<1> DEFINE Rest == <<stage, sq, st, nxt, requested, waited>>
<1>1. ASSUME UNCHANGED <<ran, run, rrq>>, UNCHANGED Rest, ExecInv',
             open' \subseteq open, writing' \subseteq writing
      PROVE  StreamInv'
  <2>1. StreamTypeOK'
    BY <1>0, <1>1 DEF StreamTypeOK, ExecInv, StageSystems, InState
  <2>2. SendersOK'
    BY <1>0, <1>1, QueueUntouched DEF Updated
  <2>3. QED
    BY <1>0, <1>1, <2>1, <2>2 DEF StreamInv, ExecInv, StagesOK, AskedOK, InState
<1>2. UNCHANGED streamVars => UNCHANGED Rest /\ open' \subseteq open /\ writing' \subseteq writing
  BY DEF streamVars
<1> HIDE DEF Rest
<1>a. ASSUME NEW p \in Programs, Close(p) \/ Reads(p)
      PROVE  StreamInv'
  <2>1. UNCHANGED execVars
    BY <1>a DEF Close, Reads
  <2>2. UNCHANGED Rest /\ open' \subseteq open /\ writing' \subseteq writing
    BY <1>a DEF Close, Reads, Rest
  <2>3. ExecInv'
    BY <1>0, <2>1, NextInv
  <2>4. QED
    BY <1>1, <2>1, <2>2, <2>3 DEF execVars
<1>b. ASSUME NEW p \in Programs, Ends(p)
      PROVE  StreamInv'
  <2>1. ExecInv'
    BY <1>0, <1>b, EnvironmentInv DEF Environment, Ends
  <2>2. UNCHANGED Rest /\ open' \subseteq open /\ writing' \subseteq writing
    BY <1>b DEF Ends, Rest
  <2>3. QED
    BY <1>1, <1>b, <2>1, <2>2 DEF Ends, Exit
<1>3. CASE (\E p \in Programs : PeriodOver(p)) /\ UNCHANGED streamVars
  <2>1. ExecInv'
    BY <1>0, <1>3, EnvironmentInv DEF Environment
  <2>2. QED
    BY <1>1, <1>2, <1>3, <2>1 DEF PeriodOver
<1>4. CASE ExecOf(\E p \in Stopped : RequestTerminate({p}))
  <2>1. PICK p \in Stopped : RequestTerminate({p}) /\ UNCHANGED streamVars
    BY <1>4 DEF ExecOf
  <2>2. {p} \in SUBSET Pids
    BY StreamerAssumption, ExecmAssumption
  <2>3. ExecInv'
    BY <1>0, <2>1, <2>2, EnvironmentInv DEF Environment
  <2>4. QED
    BY <1>1, <1>2, <2>1, <2>3 DEF RequestTerminate
<1>5. CASE UNCHANGED vars
  <2>1. UNCHANGED execVars /\ UNCHANGED streamVars
    BY <1>5 DEF vars
  <2>2. ExecInv'
    BY <1>0, <2>1, NextInv
  <2>3. QED
    BY <1>1, <1>2, <2>1, <2>2 DEF execVars
<1>6. QED
  BY <1>a, <1>b, <1>3, <1>4, <1>5 DEF Elsewhere

LEMMA StreamInvInit == StreamInit => StreamInv
<1> SUFFICES ASSUME StreamInit
             PROVE  StreamInv
  OBVIOUS
<1>1. ExecStateOK /\ CommandsOK /\ ProcessesOK
  BY InitInv DEF StreamInit, ExecInv
<1>2. Len(<<>>) = 0 /\ \A E : <<>> \in Seq(E)
  BY EmptySeq
<1>3. ran = {} /\ sq = [old |-> <<>>, new |-> <<>>] /\ rrq = [old |-> <<>>, new |-> <<>>]
  BY DEF StreamInit, Init, NoOrdered
<1>4. StreamTypeOK
  BY <1>1, <1>2, <1>3 DEF StreamInit, StreamTypeOK, OrderedQueue, StreamStates, InState
<1>5. StagesOK /\ AskedOK /\ SendersOK
  BY <1>2, <1>3 DEF StreamInit, StagesOK, AskedOK, SendersOK, InState
<1>6. QED
  BY <1>1, <1>4, <1>5 DEF StreamInv

LEMMA StreamInvNext == StreamInv /\ [StreamNext]_vars => StreamInv'
  BY PollKeeps, HandleKeeps, EndHandleKeeps, ManagerKeeps, RequestKeeps, StreamsKeep,
     EndMainKeeps, ElsewhereKeeps
  DEF StreamNext, MainLoop

LEMMA AlwaysStreamInv == StreamSafety => []StreamInv
  BY StreamInvInit, StreamInvNext, PTL DEF StreamSafety

-----------------------------------------------------------------------------
(* Type correctness, of the manager's variables too. *)
THEOREM StreamTypes == StreamSafety => []StreamTypeOK
<1>1. StreamInv => StreamTypeOK
  BY DEF StreamInv
<1>2. QED
  BY <1>1, AlwaysStreamInv, PTL

(* In every tick the adder reads what the server has asked for in it, whether the
   queue is updated before or after (streamer.rs:93-94, srvm.rs:31-39). *)
THEOREM AskedIsRead == StreamSafety => []NoRequestLeft
<1>1. StreamInv => NoRequestLeft
  <2> SUFFICES ASSUME StreamInv, stage = "main"
               PROVE  UnreadInOrder(sq) = <<>>
    BY DEF NoRequestLeft
  <2>1. sq = [old |-> sq.old, new |-> sq.new] /\ sq.old = <<>> /\ sq.new = <<>>
    BY DEF StreamInv, StreamTypeOK, AskedOK, OrderedQueue
  <2>2. <<>> \in Seq(Asked)
    BY EmptySeq
  <2>3. QED
    BY <2>1, <2>2, UnreadFacts
<1>2. QED
  BY <1>1, AlwaysStreamInv, PTL

(* And it is the adder who took it: no update of the queue drops an event that
   has not been read. *)
THEOREM NoneIsDropped ==
    StreamSafety => [][sq_update => UnreadInOrder(sq') = UnreadInOrder(sq)]_vars
<1>1. StreamInv /\ [StreamNext]_vars
         => [sq_update => UnreadInOrder(sq') = UnreadInOrder(sq)]_vars
  <2> SUFFICES ASSUME StreamInv, sq_update
               PROVE  UnreadInOrder(sq') = UnreadInOrder(sq)
    OBVIOUS
  <2>1. sq.old = <<>> /\ sq.new \in Seq(Asked)
    BY DEF StreamInv, StreamTypeOK, AskedOK, OrderedQueue, sq_update, InHandle, Turn
  <2>2. sq'.old = sq.new /\ sq'.new = <<>>
    BY DEF sq_update, SwapOrdered
  <2>3. <<>> \o sq.new = sq.new /\ sq.new \o <<>> = sq.new
    BY <2>1, ConcatEmptySeq
  <2>4. QED
    BY <2>1, <2>2, <2>3 DEF UnreadInOrder
<1>2. QED
  BY <1>1, AlwaysStreamInv, PTL DEF StreamSafety

(* A stream never passes from one process to another: when a program that had
   none begins to run, its stream is not one that transfers
   (streamer.rs:28-34, execm.rs:150-186). *)
THEOREM StreamKeepsProcess == StreamSafety => OneProcessForStream
<1> DEFINE A == \A p \in Programs :
                   st[p] = "transfer" /\ p \notin run /\ p \in run' => st'[p] # "transfer"
<1>1. StreamInv /\ [StreamNext]_vars => [A]_vars
  <2> SUFFICES ASSUME StreamInv, StreamNext, NEW p \in Programs,
                      st[p] = "transfer", p \notin run, p \in run'
               PROVE  st'[p] # "transfer"
    OBVIOUS
  <2>1. CASE EndStreamMain
    <3>1. "stream_terminator" \in ran /\ st' = nxt
      BY <2>1 DEF EndStreamMain, ApplyCommands, MainSystems
    <3>2. nxt[p] = "none"
      BY <3>1 DEF StreamInv, StagesOK, InState
    <3>3. QED
      BY <3>1, <3>2
  <2>2. CASE ManagerSystem
    BY <2>2, ManagerTurn
  <2>3. CASE ~EndStreamMain /\ ~ManagerSystem
    BY <2>3 DEF StreamNext, MainLoop, sys_poll, sq_update, adder, EndHandle, InHandle,
                request_one, stream_runner, transfer, stream_terminator, InMain, Elsewhere,
                Close, Reads, Ends, Exit, PeriodOver, ExecOf, RequestTerminate, execVars
  <2>4. QED
    BY <2>1, <2>2, <2>3
<1>2. QED
  BY <1>1, AlwaysStreamInv, PTL DEF StreamSafety, OneProcessForStream

(* Requests to run outlive their stream by one stage at most: a program on demand is
   started only while its stream waits or has just waited
   (streamer.rs:74-86, execm.rs:173-178). *)
THEOREM NoStartAfterStream == StreamSafety => NoLateStart
<1> DEFINE A == \A p \in Programs \ KeepRun :
                   procs'[p] > procs[p] => st[p] = "run" \/ p \in waited
<1>1. StreamInv /\ [StreamNext]_vars => [A]_vars
  <2> SUFFICES ASSUME StreamInv, StreamNext, NEW p \in Programs \ KeepRun,
                      procs'[p] > procs[p]
               PROVE  st[p] = "run" \/ p \in waited
    OBVIOUS
  <2>0. procs \in [Programs -> Nat] /\ procs[p] \in Nat
    BY DEF StreamInv, StreamTypeOK, ExecStateOK
  <2>1. RunnerFrom(First)
    <3>1. ~UNCHANGED procs
      BY <2>0
    <3>2. ASSUME NEW x \in Programs, Exit(x)
          PROVE  FALSE
      BY <2>0, <3>2 DEF Exit
    <3>3. QED
      BY <3>1, <3>2
      DEF StreamNext, MainLoop, sys_poll, sq_update, adder, EndHandle, InHandle,
          request_one, stream_runner, transfer, stream_terminator, InMain, Elsewhere,
          Close, Reads, Ends, PeriodOver, ExecOf, RequestTerminate, execVars,
          EndStreamMain, ApplyCommands, ManagerSystem, terminate_adder, terminate_cleaner,
          terminator, run_checker, trq_update, rrq_update
  <2>2. \A x \in Programs : Start(x) => x = p
    BY <2>0 DEF Start
  <2>3. \E n \in 1..Len(UnreadInOrder(rrq)) : UnreadInOrder(rrq)[n] = p
    <3>1. First \subseteq Programs /\ Ready \subseteq Programs
      BY DEF First, Ready
    <3>2. ~UNCHANGED <<procs, cmds, balance>>
      BY <2>0
    <3>3. QED
      BY <2>1, <2>2, <3>1, <3>2 DEF RunnerFrom, FirstFor
  <2>4. rrq = [old |-> rrq.old, new |-> rrq.new]
    BY DEF StreamInv, StreamTypeOK, ExecStateOK, OrderedQueue
  <2>5. CASE Updated
    <3>1. rrq.old \in Seq(InState("run")) /\ rrq.new \in Seq(requested)
      BY <2>5 DEF StreamInv, SendersOK
    <3>2. p \in InState("run") \cup requested
      BY <2>3, <2>4, <3>1, UnreadFacts
    <3>3. QED
      BY <3>2 DEF StreamInv, StreamTypeOK, InState
  <2>6. CASE ~Updated
    <3>1. rrq.old \in Seq(waited) /\ rrq.new \in Seq(InState("run"))
      BY <2>6 DEF StreamInv, SendersOK
    <3>2. p \in waited \cup InState("run")
      BY <2>3, <2>4, <3>1, UnreadFacts
    <3>3. QED
      BY <3>2 DEF InState
  <2>7. QED
    BY <2>5, <2>6
<1>2. QED
  BY <1>1, AlwaysStreamInv, PTL DEF StreamSafety, NoLateStart

(* In the company of the streamer the manager keeps what it promises: one process
   of each program, none of a program without Run but for one that was started in
   this very stage and is not held, and reports that alternate
   (execm.rs:62-75 and 150-194). *)
THEOREM ManagerStaysSafe ==
    StreamSafety => [](OneProcess /\ StoppedIsStopped /\ ReportsMatch)
<1>1. StreamInv => OneProcess /\ StoppedIsStopped /\ ReportsMatch
  BY InvImplies DEF StreamInv, StreamTypeOK, ExecInv
<1>2. QED
  BY <1>1, AlwaysStreamInv, PTL

(* And it lets go of no live process (execm.rs:150-160). *)
THEOREM NothingAbandonedForStreams == StreamSafety => NoProcessAbandoned
<1> DEFINE A == \A p \in Programs : p \in run /\ p \notin run' => procs[p] = 0
<1>1. StreamInv /\ [StreamNext]_vars => [A]_execVars
  <2> SUFFICES ASSUME StreamInv, StreamNext
               PROVE  A \/ UNCHANGED execVars
    BY DEF vars
  <2>1. CASE EndStreamMain
    BY <2>1 DEF EndStreamMain, ApplyCommands, StreamInv, CommandsOK
  <2>2. CASE ManagerSystem
    BY <2>2, ManagerTurn
  <2>3. CASE ~EndStreamMain /\ ~ManagerSystem
    BY <2>3 DEF StreamNext, MainLoop, sys_poll, sq_update, adder, EndHandle, InHandle,
                request_one, stream_runner, transfer, stream_terminator, InMain, Elsewhere,
                Close, Reads, Ends, Exit, PeriodOver, ExecOf, RequestTerminate, execVars
  <2>4. QED
    BY <2>1, <2>2, <2>3
<1>2. QED
  BY <1>1, AlwaysStreamInv, PTL DEF StreamSafety, NoProcessAbandoned

-----------------------------------------------------------------------------
(* The bound of the queue of requests to run. *)

(* Steps that touch neither the requests nor the streams' turns. *)
LEMMA FewUntouched ==
    ASSUME FewRequests, UNCHANGED <<rrq, requested>>, Updated' = Updated
    PROVE  FewRequests'
  BY DEF FewRequests

LEMMA FewKeeps ==
    ASSUME IsFiniteSet(Programs), StreamInv, FewRequests, [StreamNext]_vars
    PROVE  FewRequests'
<1> DEFINE N == Cardinality(Programs)
           R == Cardinality(requested)
<1>0. /\ requested \subseteq Programs /\ ran \subseteq StageSystems
      /\ rrq \in [old : Seq(Pids), new : Seq(Pids)]
  BY DEF StreamInv, StreamTypeOK, ExecStateOK, InState, OrderedQueue
<1>1. N \in Nat /\ R \in Nat /\ R <= N /\ IsFiniteSet(requested)
  BY <1>0, FS_CardinalityType, FS_Subset
<1>2. PICK o \in Seq(Pids), w \in Seq(Pids) : rrq = [old |-> o, new |-> w]
  BY <1>0
<1>3. /\ Len(o) \in Nat /\ Len(w) \in Nat
      /\ IF Updated THEN Len(w) <= R /\ Len(o) + Len(w) <= N + R
         ELSE Len(w) <= N + R /\ Len(o) + Len(w) <= 2 * N + R
  BY <1>2, LenProperties DEF FewRequests
<1>4. Len(<<>>) = 0
  BY EmptySeq
<1>5. CASE ManagerSystem
  <2>1. requested' = requested
    BY <1>5, ManagerTurn DEF streamVars
  <2>2. ASSUME Updated' = Updated, NEW o2 \in Seq(Pids), NEW w2 \in Seq(Pids),
               rrq' = [old |-> o2, new |-> w2], Len(o2) \in Nat, Len(o2) <= Len(o),
               Len(w2) \in Nat, Len(w2) <= Len(w)
        PROVE  FewRequests'
    <3>1. IF Updated THEN Len(w2) <= R /\ Len(o2) + Len(w2) <= N + R
          ELSE Len(w2) <= N + R /\ Len(o2) + Len(w2) <= 2 * N + R
      <4> HIDE DEF N, R
      <4>1. QED
        BY <1>1, <1>3, <2>2
    <3>2. QED
      BY <2>1, <2>2, <3>1 DEF FewRequests
  <2>3. ASSUME ~Updated, Updated', rrq' = [old |-> w, new |-> <<>>]
        PROVE  FewRequests'
    <3>1. Len(<<>>) <= R /\ Len(w) + Len(<<>>) <= N + R
      <4> HIDE DEF N, R
      <4>1. QED
        BY <1>1, <1>3, <1>4, <2>3
    <3>2. QED
      BY <2>1, <2>3, <3>1 DEF FewRequests
  <2>4. QED
    BY <1>2, <1>5, <2>2, <2>3, ManagerRequests
<1>6. ASSUME NEW p \in Programs, request_one(p)
      PROVE  FewRequests'
  <2>1. /\ p \notin requested /\ requested' = requested \cup {p} /\ Updated' = Updated
        /\ rrq' = [old |-> o, new |-> Append(w, p)] /\ p \in Pids
    BY <1>2, <1>6, ExecmAssumption DEF request_one, SendLast, Updated
  <2>2. Cardinality(requested') = R + 1
    BY <1>1, <2>1, FS_AddElement
  <2>3. Len(Append(w, p)) = Len(w) + 1
    BY <2>1, AppendProperties
  <2>4. IF Updated
        THEN Len(Append(w, p)) <= R + 1 /\ Len(o) + Len(Append(w, p)) <= N + (R + 1)
        ELSE /\ Len(Append(w, p)) <= N + (R + 1)
             /\ Len(o) + Len(Append(w, p)) <= 2 * N + (R + 1)
    <3> HIDE DEF N, R
    <3>1. QED
      BY <1>1, <1>3, <2>3
  <2>5. QED
    BY <2>1, <2>2, <2>4 DEF FewRequests
<1>7. CASE EndStreamMain
  <2>1. requested' = {} /\ rrq' = rrq /\ Updated /\ ~Updated'
    BY <1>7 DEF EndStreamMain, ApplyCommands, Updated, MainSystems, ExecSystems
  <2>2. Cardinality(requested') = 0
    BY <2>1, FS_EmptySet
  <2>3. Len(w) <= N + 0 /\ Len(o) + Len(w) <= 2 * N + 0
    <3> HIDE DEF N, R
    <3>1. QED
      BY <1>1, <1>3, <2>1
  <2>4. QED
    BY <1>2, <2>1, <2>2, <2>3 DEF FewRequests
<1>8. CASE ~ManagerSystem /\ ~EndStreamMain /\ \A p \in Programs : ~request_one(p)
  <2>1. UNCHANGED <<rrq, requested>>
    BY <1>8
    DEF StreamNext, MainLoop, sys_poll, sq_update, adder, EndHandle, InHandle, stream_runner,
        transfer, stream_terminator, InMain, Elsewhere, Close, Reads, Ends, Exit,
        PeriodOver, ExecOf, RequestTerminate, execVars, streamVars, vars
  <2>2. \/ ran' = ran \/ EndHandle
        \/ \E s \in MainSystems \cup HandleSystems :
             s # "rrq_update" /\ ran' = ran \cup {s}
    BY <1>8
    DEF StreamNext, MainLoop, sys_poll, sq_update, adder, InHandle, Turn, stream_runner,
        transfer, stream_terminator, InMain, Elsewhere, Close, Reads, Ends, Exit,
        PeriodOver, ExecOf, RequestTerminate, execVars, vars, HandleSystems, MainSystems
  <2>3. EndHandle => ~Updated /\ ~Updated'
    BY DEF EndHandle, Updated, HandleSystems
  <2>4. Updated' = Updated
    BY <2>2, <2>3 DEF Updated
  <2>5. QED
    BY <2>1, <2>4, FewUntouched
<1>9. QED
  BY <1>5, <1>6, <1>7, <1>8

LEMMA FewMeans ==
    ASSUME IsFiniteSet(Programs), StreamInv, FewRequests
    PROVE  Len(UnreadInOrder(rrq)) <= 3 * Cardinality(Programs)
<1> DEFINE N == Cardinality(Programs)
           R == Cardinality(requested)
<1>1. PICK o \in Seq(Pids), w \in Seq(Pids) : rrq = [old |-> o, new |-> w]
  BY DEF StreamInv, StreamTypeOK, ExecStateOK, OrderedQueue
<1>2. requested \subseteq Programs
  BY DEF StreamInv, StreamTypeOK, InState
<1>3. N \in Nat /\ R \in Nat /\ R <= N
  BY <1>2, FS_CardinalityType, FS_Subset
<1>4. Len(o) + Len(w) <= N + R \/ Len(o) + Len(w) <= 2 * N + R
  BY <1>1 DEF FewRequests
<1>5. Len(UnreadInOrder(rrq)) = Len(o) + Len(w) /\ Len(o) \in Nat /\ Len(w) \in Nat
  BY <1>1, UnreadFacts, LenProperties
<1> HIDE DEF N, R
<1>6. Len(UnreadInOrder(rrq)) <= 3 * N
  BY <1>3, <1>4, <1>5
<1>7. QED
  BY <1>6 DEF N

LEMMA AlwaysFew == ASSUME IsFiniteSet(Programs)
                 PROVE  StreamSafety => []FewRequests
<1>1. StreamInit => FewRequests
  <2> SUFFICES ASSUME StreamInit
               PROVE  FewRequests
    OBVIOUS
  <2>1. rrq = [old |-> <<>>, new |-> <<>>] /\ requested = {} /\ ~Updated
    BY DEF StreamInit, Init, NoOrdered, Updated
  <2>2. Len(<<>>) = 0 /\ Cardinality({}) = 0 /\ Cardinality(Programs) \in Nat
    BY EmptySeq, FS_EmptySet, FS_CardinalityType
  <2>3. QED
    BY <2>1, <2>2 DEF FewRequests
<1>2. StreamInv /\ FewRequests /\ [StreamNext]_vars => FewRequests'
  BY FewKeeps
<1>3. QED
  BY <1>1, <1>2, AlwaysStreamInv, PTL DEF StreamSafety

(* Three requests to run for each program at most are unread, although nothing
   limits the queue: each waiting stream sends one in a stage, and the update of
   the queue drops what has been there for two (streamer.rs:74-86, execm.rs:173-178). *)
THEOREM RequestsStayFew ==
    ASSUME IsFiniteSet(Programs)
    PROVE  StreamSafety => [](Len(UnreadInOrder(rrq)) <= 3 * Cardinality(Programs))
<1>1. StreamInv /\ FewRequests => Len(UnreadInOrder(rrq)) <= 3 * Cardinality(Programs)
  BY FewMeans
<1>2. QED
  BY <1>1, AlwaysStreamInv, AlwaysFew, PTL

-----------------------------------------------------------------------------
(* The streamer and the manager implement the manager alone: the streamer's runner
   is somebody who sends requests to run, the order of the table is one that Execm
   allows, and the rest of the streamer is stuttering. *)

(* A stream that sends a request finds the queue below the bound. *)
LEMMA RoomForRequest ==
    ASSUME IsFiniteSet(Programs), StreamInv, FewRequests,
           3 * Cardinality(Programs) <= MaxRunRequests, NEW p \in Programs, request_one(p)
    PROVE  Len(UnreadInOrder(rrq)) < MaxRunRequests
<1> DEFINE N == Cardinality(Programs)
           R == Cardinality(requested)
<1>1. PICK o \in Seq(Pids), w \in Seq(Pids) : rrq = [old |-> o, new |-> w]
  BY DEF StreamInv, StreamTypeOK, ExecStateOK, OrderedQueue
<1>2. requested \subseteq Programs /\ p \notin requested
  BY DEF StreamInv, StreamTypeOK, InState, request_one
<1>3. N \in Nat /\ R \in Nat /\ R < N
  <2>1. IsFiniteSet(requested) /\ requested # Programs
    BY <1>2, FS_Subset
  <2>2. QED
    BY <1>2, <2>1, FS_CardinalityType, FS_Subset
<1>4. Len(o) + Len(w) <= N + R \/ Len(o) + Len(w) <= 2 * N + R
  BY <1>1 DEF FewRequests
<1>5. Len(UnreadInOrder(rrq)) = Len(o) + Len(w) /\ Len(o) \in Nat /\ Len(w) \in Nat
  BY <1>1, UnreadFacts, LenProperties
<1>6. 3 * N <= MaxRunRequests /\ MaxRunRequests \in Nat
  BY ExecmAssumption
<1> HIDE DEF N, R
<1>7. QED
  BY <1>3, <1>4, <1>5, <1>6

(* The systems the manager sees. *)
seen == IF stage = "main" THEN ran \cap ExecSystems ELSE {}

(* Steps in which nothing of the manager changes. *)
LEMMA StreamStutterMaps ==
    ASSUME UNCHANGED <<seen, cmds, run, held, cnt, asked, trq, rrq, procs, told, balance>>
    PROVE  UNCHANGED Manager!execVars
  BY DEF Manager!execVars, seen

LEMMA StreamTurnMaps ==
    ASSUME stage = "main", stage' = "main", NEW s \in ExecSystems, Turn(s)
    PROVE  Manager!Turn(s)
  BY DEF Turn, Manager!Turn

(* The programs that come first in the table are some of those that may. *)
LEMMA RunnerMaps ==
    ASSUME stage = "main", stage' = "main", RunnerFrom(First)
    PROVE  Manager!runner
<1>1. First \subseteq Ready /\ (First = {} => Ready = {})
  BY DEF First
<1>2. Manager!Turn("runner")
  BY StreamTurnMaps DEF RunnerFrom, ExecSystems
<1>3. QED
  BY <1>1, <1>2
  DEF RunnerFrom, Manager!runner, Manager!RunnerFrom, Start, Manager!Start, Ready,
      Manager!Ready, FirstFor, Manager!FirstFor, NoOrdered, Manager!NoOrdered,
      UnreadInOrder, Manager!UnreadInOrder, DropFirst, Manager!DropFirst

LEMMA ManagerSystemMaps ==
    ASSUME ManagerSystem
    PROVE  Manager!ExecSystem
<1>1. stage = "main" /\ stage' = "main"
  BY DEF ManagerSystem, ExecOf, streamVars
<1> USE <1>1, StreamTurnMaps DEF ExecSystems
<1>2. CASE terminate_adder
  BY <1>2 DEF terminate_adder, Manager!terminate_adder, Manager!ExecSystem,
              Unread, Manager!Unread, NoEvents, Manager!NoEvents
<1>3. CASE terminate_cleaner
  BY <1>3 DEF terminate_cleaner, Manager!terminate_cleaner, Manager!ExecSystem
<1>4. CASE terminator
  BY <1>4 DEF terminator, Manager!terminator, Manager!ExecSystem, pkill, Manager!pkill
<1>5. CASE run_checker
  BY <1>5 DEF run_checker, Manager!run_checker, Manager!ExecSystem,
              is_child_run, Manager!is_child_run
<1>6. CASE RunnerFrom(First)
  BY <1>6, RunnerMaps DEF Manager!ExecSystem
<1>7. CASE trq_update
  BY <1>7 DEF trq_update, Manager!trq_update, Manager!ExecSystem, Swap, Manager!Swap
<1>8. CASE rrq_update
  BY <1>8 DEF rrq_update, Manager!rrq_update, Manager!ExecSystem,
              SwapOrdered, Manager!SwapOrdered
<1>9. QED
  BY <1>2, <1>3, <1>4, <1>5, <1>6, <1>7, <1>8 DEF ManagerSystem, ExecOf

LEMMA StreamStepMaps ==
    ASSUME StreamNext, StreamInv, FewRequests, IsFiniteSet(Programs),
           3 * Cardinality(Programs) <= MaxRunRequests
    PROVE  Manager!Next \/ UNCHANGED Manager!execVars
<1>1. CASE \/ sys_poll \/ sq_update \/ adder \/ EndHandle
           \/ \E p \in Programs : Close(p) \/ Reads(p)
  <2>1. UNCHANGED <<seen, cmds, run, held, cnt, asked, trq, rrq, procs, told, balance>>
    BY <1>1 DEF sys_poll, sq_update, adder, EndHandle, InHandle, Close, Reads, execVars, seen
  <2>2. QED
    BY <2>1, StreamStutterMaps
<1>2. CASE ManagerSystem
  BY <1>2, ManagerSystemMaps DEF Manager!Next
<1>3. CASE \E p \in Programs : request_one(p)
  <2>1. PICK p \in Programs : request_one(p)
    BY <1>3
  <2>2. Len(UnreadInOrder(rrq)) < MaxRunRequests
    BY <2>1, RoomForRequest
  <2>3. Manager!RequestRun(p)
    BY <2>1, <2>2 DEF request_one, Manager!RequestRun, UnreadInOrder,
                Manager!UnreadInOrder, SendLast, Manager!SendLast
  <2>4. QED
    BY <2>3, ExecmAssumption DEF Manager!Next, Manager!Environment
<1>4. CASE stream_runner \/ transfer \/ stream_terminator
  <2>1. UNCHANGED <<seen, cmds, run, held, cnt, asked, trq, rrq, procs, told, balance>>
    BY <1>4 DEF stream_runner, transfer, stream_terminator, InMain, Turn, seen, ExecSystems
  <2>2. QED
    BY <2>1, StreamStutterMaps
<1>5. CASE EndStreamMain
  <2>1. Manager!EndMain
    BY <1>5 DEF EndStreamMain, ApplyCommands, Manager!EndMain, Manager!ApplyCommands,
                NoCmds, Manager!NoCmds, MainSystems, ExecSystems, Manager!ExecSystems
  <2>2. QED
    BY <2>1 DEF Manager!Next
<1>6. CASE \/ \E p \in Programs : Ends(p)
           \/ (\E p \in Programs : PeriodOver(p)) /\ UNCHANGED streamVars
  <2>1. \E p \in Programs : Manager!Exit(p) \/ Manager!PeriodOver(p)
    BY <1>6 DEF streamVars, Ends, Exit, Manager!Exit, PeriodOver, Manager!PeriodOver
  <2>2. QED
    BY <2>1 DEF Manager!Next, Manager!Environment
<1>7. CASE ExecOf(\E p \in Stopped : RequestTerminate({p}))
  <2>1. PICK p \in Stopped : RequestTerminate({p})
    BY <1>7 DEF ExecOf
  <2>2. Manager!RequestTerminate({p})
    BY <1>7, <2>1 DEF ExecOf, streamVars, RequestTerminate, Manager!RequestTerminate,
                      Send, Manager!Send
  <2>3. {p} \in SUBSET Pids
    BY ExecmAssumption, StreamerAssumption
  <2>4. QED
    BY <2>2, <2>3 DEF Manager!Next, Manager!Environment
<1>8. QED
  BY <1>1, <1>2, <1>3, <1>4, <1>5, <1>6, <1>7 DEF StreamNext, MainLoop, Elsewhere

(* In the company of the streamer the manager behaves as Execm specifies, so that
   what is proved of it for any sender of requests holds here.  The bound of Execm's
   own senders is no restriction: it only has to leave room for three requests of
   each program (streamer.rs:74-86, execm.rs:150-194). *)
THEOREM StreamerImplementsExecm ==
    ASSUME IsFiniteSet(Programs), 3 * Cardinality(Programs) <= MaxRunRequests
    PROVE  StreamSafety => ImplementsExecm
<1>1. StreamInit => Manager!Init
  BY DEF StreamInit, Init, Manager!Init, NoCmds, Manager!NoCmds, NoEvents, Manager!NoEvents,
         NoOrdered, Manager!NoOrdered
<1>2. StreamInv /\ FewRequests /\ [StreamNext]_vars => [Manager!Next]_(Manager!execVars)
  <2> SUFFICES ASSUME StreamInv, FewRequests, [StreamNext]_vars
               PROVE  [Manager!Next]_(Manager!execVars)
    OBVIOUS
  <2>1. CASE StreamNext
    BY <2>1, StreamStepMaps
  <2>2. CASE UNCHANGED vars
    BY <2>2, StreamStutterMaps DEF vars, execVars, streamVars, seen
  <2>3. QED
    BY <2>1, <2>2
<1>3. QED
  BY <1>1, <1>2, AlwaysStreamInv, AlwaysFew, PTL
  DEF StreamSafety, ImplementsExecm, Manager!ExecSpec
=============================================================================
