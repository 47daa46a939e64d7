----------------------------- MODULE IpcmProofs -----------------------------
(***************************************************************************)
(* Proofs about Ipcm, for any listeners, any connections and any sequence  *)
(* of connects, partial writes and deaths of the programs.                 *)
(***************************************************************************)
EXTENDS Ipcm, SequenceTheorems, TLAPS

-----------------------------------------------------------------------------
(* The inductive invariant: between the type of the state and HandedOnce, how
   often a request was handed over is a function of where its connection is. *)
HandedByState ==
    /\ \A c \in In("queued") \cup In("read") : handed[c] = 0
    /\ \A c \in In("write") : handed[c] = IF c \in Unknown THEN 0 ELSE 1

IpcInv == IpcTypeOK /\ HandedByState /\ HandedOnce

Queue(s) == {c \in In("queued") : SocketOf[c] = s}

-----------------------------------------------------------------------------
(* The backlog of a listener as a queue without repetitions. *)
LEMMA AppendBacklog ==
    ASSUME NEW S, NEW q \in Seq(S), NEW c \in S, IsInjective(q), c \notin ToSet(q)
    PROVE  /\ Append(q, c) \in Seq(S) /\ IsInjective(Append(q, c))
           /\ ToSet(Append(q, c)) = ToSet(q) \cup {c}
           /\ Append(q, c) # <<>>
<1> DEFINE r == Append(q, c)
<1>1. /\ r \in Seq(S) /\ Len(r) = Len(q) + 1 /\ r[Len(q) + 1] = c /\ Len(q) \in Nat
      /\ \A i \in 1..Len(q) : r[i] = q[i]
  BY AppendProperties, LenProperties
<1>2. DOMAIN q = 1..Len(q) /\ DOMAIN r = 1..Len(r)
  <2> HIDE DEF r
  <2>1. QED
    BY <1>1, LenProperties
<1> HIDE DEF r
<1>3. \A i \in DOMAIN r : i \in DOMAIN q \/ i = Len(q) + 1
  BY <1>1, <1>2
<1>4. ToSet(r) = ToSet(q) \cup {c}
  BY <1>1, <1>2, <1>3 DEF ToSet
<1>5. IsInjective(r)
  BY <1>1, <1>2, <1>3 DEF ToSet, IsInjective
<1>6. r # <<>>
  BY <1>1, EmptySeq
<1>7. QED
  BY <1>1, <1>4, <1>5, <1>6 DEF r

LEMMA TailBacklog ==
    ASSUME NEW S, NEW q \in Seq(S), q # <<>>, IsInjective(q)
    PROVE  /\ Tail(q) \in Seq(S) /\ IsInjective(Tail(q))
           /\ Head(q) \in ToSet(q)
           /\ ToSet(Tail(q)) = ToSet(q) \ {Head(q)}
<1> DEFINE r == Tail(q)
<1>1. /\ r \in Seq(S) /\ Len(r) = Len(q) - 1 /\ Len(q) \in Nat \ {0} /\ Head(q) = q[1]
      /\ \A i \in 1..Len(r) : r[i] = q[i + 1]
  BY HeadTailProperties, EmptySeq
<1>2. DOMAIN q = 1..Len(q) /\ DOMAIN r = 1..Len(r)
  <2> HIDE DEF r
  <2>1. QED
    BY <1>1, LenProperties
<1> HIDE DEF r
<1>3. \A i \in DOMAIN q : i = 1 \/ (i - 1 \in DOMAIN r /\ r[i - 1] = q[i])
  BY <1>1, <1>2
<1>4. \A i \in DOMAIN r : i + 1 \in DOMAIN q /\ i + 1 # 1 /\ r[i] = q[i + 1]
  BY <1>1, <1>2
<1>5. Head(q) \in ToSet(q) /\ ToSet(q) = ToSet(r) \cup {Head(q)}
  <2>1. 1 \in DOMAIN q
    BY <1>1, <1>2
  <2>2. ToSet(q) = {q[i] : i \in DOMAIN q} /\ ToSet(r) = {r[i] : i \in DOMAIN r}
    BY DEF ToSet
  <2>3. \A x : (\E i \in DOMAIN r : x = r[i]) => \E i \in DOMAIN q : x = q[i]
    BY <1>4
  <2>4. \A x : (\E i \in DOMAIN q : x = q[i]) => x = q[1] \/ \E i \in DOMAIN r : x = r[i]
    BY <1>3
  <2>5. Head(q) \in ToSet(q)
    BY <1>1, <2>1, <2>2
  <2>6. \A x : x \in ToSet(q) <=> x \in ToSet(r) \/ x = Head(q)
    <3>1. \A x : x \in ToSet(q) <=> \E i \in DOMAIN q : x = q[i]
      BY <2>2
    <3>2. \A x : x \in ToSet(r) <=> \E i \in DOMAIN r : x = r[i]
      BY <2>2
    <3>3. QED
      BY <1>1, <2>1, <2>3, <2>4, <3>1, <3>2
  <2>7. QED
    BY <2>5, <2>6
<1>6. Head(q) \notin ToSet(r)
  <2>1. 1 \in DOMAIN q
    BY <1>1, <1>2
  <2>2. QED
    BY <1>1, <1>4, <2>1 DEF ToSet, IsInjective
<1>7. IsInjective(r)
  <2> SUFFICES ASSUME NEW i \in DOMAIN r, NEW j \in DOMAIN r, r[i] = r[j]
               PROVE  i = j
    BY DEF IsInjective
  <2>1. i + 1 = j + 1
    BY <1>4 DEF IsInjective
  <2>2. QED
    BY <1>2, <2>1
<1>8. QED
  BY <1>1, <1>5, <1>6, <1>7 DEF r

(* Where the handler leaves a connection, and what it counts. *)
LEMMA NextStates ==
    ASSUME IpcTypeOK, NEW c \in Conns
    PROVE  /\ NextState(c) \in {"queued", "read", "write", "gone"}
           /\ NextState(c) = "queued" <=> client[c] = "queued"
           /\ NextState(c) = "read" => client[c] = "read" /\ c \notin Requests
           /\ NextState(c) = "write" <=> c \in Requests
           /\ HandedOver(c) <=> c \in Requests /\ c \notin Unknown
           /\ c \in Requests => client[c] = "read"
           /\ c \in Answers => NextState(c) = "gone"
  BY DEF IpcTypeOK, NextState, Requests, Fails, Answers, In, HandedOver

-----------------------------------------------------------------------------
LEMMA InvInit == IpcInit => IpcInv
<1> SUFFICES ASSUME IpcInit
             PROVE  IpcInv
  OBVIOUS
<1>1. /\ <<>> \in Seq(Conns) /\ IsInjective(<<>>) /\ ToSet(<<>>) = {}
  BY DEF IsInjective, ToSet
<1>2. In("queued") = {} /\ In("read") = {} /\ In("write") = {}
  BY DEF IpcInit, In
<1>3. IpcTypeOK
  BY <1>1, <1>2 DEF IpcInit, IpcTypeOK, In, Written
<1>4. QED
  BY <1>2, <1>3 DEF IpcInit, IpcInv, HandedByState, HandedOnce

LEMMA AcceptKeeps == IpcInv /\ server => IpcInv'
<1> SUFFICES ASSUME IpcInv, server
             PROVE  IpcInv'
  OBVIOUS
<1> USE IpcmAssumption
<1>0. /\ IpcTypeOK /\ HandedByState /\ HandedOnce
  BY DEF IpcInv
<1>1. ASSUME NEW s \in edge
      PROVE  /\ s \in Sockets /\ backlog'[s] = Tail(backlog[s])
             /\ backlog'[s] \in Seq(Conns) /\ IsInjective(backlog'[s])
             /\ ToSet(backlog'[s]) = Queue(s) \ {Accepted(s)}
             /\ Accepted(s) \in Queue(s)
  <2>1. /\ s \in Sockets /\ backlog[s] \in Seq(Conns) /\ backlog[s] # <<>>
        /\ IsInjective(backlog[s]) /\ ToSet(backlog[s]) = Queue(s)
    BY <1>0 DEF IpcTypeOK, Queue
  <2>2. backlog'[s] = Tail(backlog[s])
    BY <2>1 DEF server, Rest
  <2>3. QED
    BY <2>1, <2>2, TailBacklog DEF Accepted
<1>2. ASSUME NEW s \in Sockets, s \notin edge
      PROVE  /\ backlog'[s] = backlog[s]
             /\ backlog'[s] \in Seq(Conns) /\ IsInjective(backlog'[s])
             /\ ToSet(backlog'[s]) = Queue(s)
  BY <1>0, <1>2 DEF server, IpcTypeOK, Queue
<1>3. /\ backlog' = [s \in Sockets |-> backlog'[s]] /\ edge \subseteq Sockets
  BY <1>0 DEF server, IpcTypeOK
<1>4. \A c \in Conns :
         /\ (\E s \in edge : c = Accepted(s)) => client[c] = "queued" /\ client'[c] = "read"
         /\ (\A s \in edge : c # Accepted(s)) => client'[c] = client[c]
  BY <1>1 DEF server, Queue, In
<1>5. \A s \in Sockets : ToSet(backlog'[s]) = {c \in In("queued")' : SocketOf[c] = s}
  <2> SUFFICES ASSUME NEW s \in Sockets, NEW c \in Conns
               PROVE  c \in ToSet(backlog'[s]) <=> client'[c] = "queued" /\ SocketOf[c] = s
    <3>1. \A t \in Sockets : ToSet(backlog'[t]) \subseteq Conns
      BY <1>1, <1>2 DEF Queue, In
    <3>2. QED
      BY <3>1 DEF In
  <2>1. c \in Queue(s) <=> client[c] = "queued" /\ SocketOf[c] = s
    BY DEF Queue, In
  <2>2. \A t \in edge : Accepted(t) \in Queue(t) /\ SocketOf[Accepted(t)] = t
    BY <1>1 DEF Queue
  <2>3. CASE s \in edge
    BY <1>1, <1>4, <2>1, <2>2, <2>3
  <2>4. CASE s \notin edge
    BY <1>2, <1>4, <2>1, <2>2, <2>4
  <2>5. QED
    BY <2>3, <2>4
<1>6. \A s \in Sockets : backlog'[s] \in Seq(Conns) /\ IsInjective(backlog'[s])
  BY <1>1, <1>2
<1>7. IpcTypeOK'
  <2>1. client' \in [Conns -> {"queued", "read", "write", "gone"}]
    BY <1>0 DEF server, IpcTypeOK
  <2>2. In("gone")' = In("gone")
    BY <1>4 DEF In
  <2>3. backlog' \in [Sockets -> Seq(Conns)]
    BY <1>3, <1>6
  <2>4. QED
    BY <1>0, <1>5, <1>6, <2>1, <2>2, <2>3 DEF server, IpcTypeOK
<1>8. HandedByState'
  <2>1. \A c \in Conns : /\ client'[c] \in {"queued", "read"} => client[c] \in {"queued", "read"}
                         /\ client'[c] = "write" => client[c] = "write"
    BY <1>4
  <2>2. QED
    BY <1>0, <2>1 DEF HandedByState, server, In
<1>9. QED
  BY <1>0, <1>7, <1>8 DEF IpcInv, HandedOnce, server

LEMMA HandlerKeeps == IpcInv /\ incoming_handler => IpcInv'
<1> SUFFICES ASSUME IpcInv, incoming_handler
             PROVE  IpcInv'
  OBVIOUS
<1>0. /\ IpcTypeOK /\ HandedByState /\ HandedOnce
  BY DEF IpcInv
<1>1. \A c \in Conns : client'[c] = NextState(c)
  BY DEF incoming_handler
<1>2. \A c \in Conns : handed'[c] = IF HandedOver(c) THEN handed[c] + 1 ELSE handed[c]
  BY DEF incoming_handler
<1>3. IpcTypeOK'
  <2>1. client' \in [Conns -> {"queued", "read", "write", "gone"}]
    BY <1>0, NextStates DEF incoming_handler
  <2>2. In("queued")' = In("queued")
    BY <1>0, <1>1, NextStates DEF In
  <2>3. In("gone") \subseteq In("gone")' /\ Answers \subseteq In("gone")'
    BY <1>0, <1>1, NextStates DEF In, NextState, Requests, Fails, Answers
  <2>4. \A c \in Conns : client'[c] = "gone" => data'[c] = "none"
    BY <1>1 DEF incoming_handler
  <2>5. data' \in [Conns -> Written]
    BY <1>0 DEF incoming_handler, IpcTypeOK, Written
  <2>6. handed' \in [Conns -> Nat]
    BY <1>0 DEF incoming_handler, IpcTypeOK
  <2>7. \A c \in In("gone")' : data'[c] = "none"
    BY <2>4 DEF In
  <2>8. answered' \subseteq In("gone")' \ left'
    BY <1>0, <2>3 DEF incoming_handler, IpcTypeOK
  <2>9. QED
    BY <1>0, <2>1, <2>2, <2>5, <2>6, <2>7, <2>8 DEF incoming_handler, IpcTypeOK
<1>4. HandedByState'
  <2>1. \A c \in Conns : /\ client'[c] \in {"queued", "read"} => handed'[c] = 0
                         /\ client'[c] = "write" => handed'[c] = IF c \in Unknown THEN 0 ELSE 1
    <3> TAKE c \in Conns
    <3>1. client[c] \in {"queued", "read"} => handed[c] = 0
      BY <1>0 DEF HandedByState, In
    <3>2. QED
      BY <1>0, <1>1, <1>2, <3>1, NextStates
  <2>2. QED
    BY <2>1 DEF HandedByState, In
<1>5. HandedOnce'
  <2> SUFFICES ASSUME NEW c \in Conns
               PROVE  handed'[c] <= 1 /\ (c \in answered' \ Unknown => handed'[c] = 1)
    BY DEF HandedOnce
  <2>0. handed[c] \in Nat /\ handed[c] <= 1 /\ (c \in answered \ Unknown => handed[c] = 1)
    BY <1>0 DEF HandedOnce, IpcTypeOK
  <2>1. CASE c \in Requests
    <3>1. client[c] = "read" /\ handed[c] = 0
      BY <1>0, <2>1, NextStates DEF HandedByState, In
    <3>2. c \notin answered /\ c \notin Answers
      BY <1>0, <3>1 DEF IpcTypeOK, In, Answers
    <3>3. QED
      BY <1>2, <3>1, <3>2 DEF incoming_handler
  <2>2. CASE c \notin Requests
    <3>1. handed'[c] = handed[c]
      BY <1>2, <2>2 DEF HandedOver
    <3>2. c \in Answers \ Unknown => handed[c] = 1
      BY <1>0 DEF HandedByState, Answers
    <3>3. QED
      BY <2>0, <3>1, <3>2 DEF incoming_handler
  <2>3. QED
    BY <2>1, <2>2
<1>6. QED
  BY <1>3, <1>4, <1>5 DEF IpcInv

LEMMA ConnectKeeps == ASSUME NEW c \in Conns
                      PROVE  IpcInv /\ Connect(c) => IpcInv'
<1> SUFFICES ASSUME IpcInv, Connect(c)
             PROVE  IpcInv'
  OBVIOUS
<1> USE IpcmAssumption
<1>0. /\ IpcTypeOK /\ HandedByState /\ HandedOnce
  BY DEF IpcInv
<1>a. PICK s : s = SocketOf[c]
  OBVIOUS
<1>1. /\ s \in Sockets /\ backlog[s] \in Seq(Conns) /\ IsInjective(backlog[s])
      /\ ToSet(backlog[s]) = Queue(s) /\ c \notin Queue(s)
  BY <1>0, <1>a DEF IpcTypeOK, Queue, Connect, In
<1>2. /\ backlog'[s] \in Seq(Conns) /\ IsInjective(backlog'[s]) /\ backlog'[s] # <<>>
      /\ ToSet(backlog'[s]) = Queue(s) \cup {c}
  <2>1. backlog'[s] = Append(backlog[s], c)
    BY <1>0, <1>1, <1>a DEF Connect, IpcTypeOK
  <2>2. QED
    BY <1>1, <2>1, AppendBacklog
<1>3. \A t \in Sockets \ {s} : backlog'[t] = backlog[t]
  BY <1>0, <1>a DEF Connect, IpcTypeOK
<1>4. \A x \in Conns : client'[x] = IF x = c THEN "queued" ELSE client[x]
  BY <1>0 DEF Connect, IpcTypeOK
<1>5. \A t \in Sockets : ToSet(backlog'[t]) = {x \in In("queued")' : SocketOf[x] = t}
  <2> TAKE t \in Sockets
  <2>1. In("queued")' = In("queued") \cup {c}
    BY <1>4 DEF In
  <2>2. CASE t = s
    BY <1>2, <1>a, <2>1, <2>2 DEF Queue
  <2>3. CASE t # s
    <3>1. ToSet(backlog'[t]) = Queue(t)
      BY <1>0, <1>3, <2>3 DEF IpcTypeOK, Queue
    <3>2. QED
      BY <1>a, <2>1, <2>3, <3>1 DEF Queue
  <2>4. QED
    BY <2>2, <2>3
<1>6. IpcTypeOK'
  <2>1. \A t \in Sockets : backlog'[t] \in Seq(Conns) /\ IsInjective(backlog'[t])
    BY <1>0, <1>2, <1>3 DEF IpcTypeOK
  <2>2. backlog' \in [Sockets -> Seq(Conns)]
    <3>1. backlog' = [t \in Sockets |-> backlog'[t]]
      BY <1>0 DEF Connect, IpcTypeOK
    <3>2. QED
      BY <2>1, <3>1
  <2>3. edge' \subseteq {t \in Sockets : backlog'[t] # <<>>}
    <3>1. edge' = edge \cup {s}
      BY <1>a DEF Connect
    <3>2. QED
      BY <1>0, <1>1, <1>2, <1>3, <3>1 DEF IpcTypeOK
  <2>4. In("gone")' = In("gone") \ {c}
    BY <1>4 DEF In
  <2>5. c \in left /\ c \notin answered
    BY <1>0 DEF IpcTypeOK, Connect
  <2>6. client' \in [Conns -> {"queued", "read", "write", "gone"}] /\ handed' \in [Conns -> Nat]
    BY <1>0 DEF Connect, IpcTypeOK
  <2>7. answered' \subseteq In("gone")' \ left' /\ left' \subseteq Conns
    BY <1>0, <2>4, <2>5 DEF Connect, IpcTypeOK
  <2>8. \A x \in In("gone")' : data'[x] = "none"
    BY <1>0, <2>4 DEF Connect, IpcTypeOK
  <2>9. stage' \in {"poll", "handle"} /\ data' \in [Conns -> Written]
    BY <1>0 DEF Connect, IpcTypeOK
  <2>10. QED
    BY <1>5, <2>1, <2>2, <2>3, <2>6, <2>7, <2>8, <2>9 DEF IpcTypeOK
<1>7. \A x \in Conns : handed'[x] = IF x = c THEN 0 ELSE handed[x]
  BY <1>0 DEF Connect, IpcTypeOK
<1>8. HandedByState'
  BY <1>0, <1>4, <1>7 DEF HandedByState, In
<1>9. HandedOnce'
  <2>1. c \notin answered' /\ answered' = answered
    BY <1>0 DEF Connect, IpcTypeOK
  <2>2. QED
    BY <1>0, <1>7, <2>1 DEF HandedOnce
<1>10. QED
  BY <1>6, <1>8, <1>9 DEF IpcInv

LEMMA ProgramKeeps ==
    ASSUME NEW c \in Conns
    PROVE  IpcInv /\ (Write(c) \/ Leave(c)) => IpcInv'
<1> SUFFICES ASSUME IpcInv, Write(c) \/ Leave(c)
             PROVE  IpcInv'
  OBVIOUS
<1>0. /\ IpcTypeOK /\ HandedByState /\ HandedOnce
  BY DEF IpcInv
<1>1. CASE Write(c)
  <2>1. UNCHANGED <<stage, backlog, edge, client, left, handed, answered>>
    BY <1>1 DEF Write
  <2>2. \A s : In(s)' = In(s)
    BY <2>1 DEF In
  <2>3. data' \in [Conns -> Written]
    BY <1>0, <1>1 DEF Write, IpcTypeOK
  <2>4. \A x \in In("gone") : data'[x] = "none"
    <3>1. c \notin In("gone")
      BY <1>1 DEF Write, In
    <3>2. \A x \in Conns \ {c} : data'[x] = data[x]
      BY <1>0, <1>1 DEF Write, IpcTypeOK
    <3>3. QED
      BY <1>0, <3>1, <3>2 DEF IpcTypeOK, In
  <2>5. IpcTypeOK'
    BY <1>0, <2>1, <2>2, <2>3, <2>4 DEF IpcTypeOK
  <2>6. QED
    BY <1>0, <2>1, <2>2, <2>5 DEF IpcInv, HandedByState, HandedOnce
<1>2. CASE Leave(c)
  <2>1. UNCHANGED <<stage, backlog, edge, client, data, handed>>
    BY <1>2 DEF Leave
  <2>2. \A s : In(s)' = In(s)
    BY <2>1 DEF In
  <2>3. answered' \subseteq answered /\ left' = left \cup {c} /\ c \notin answered'
    BY <1>2 DEF Leave
  <2>4. IpcTypeOK'
    BY <1>0, <2>1, <2>2, <2>3 DEF IpcTypeOK
  <2>5. QED
    BY <1>0, <2>1, <2>2, <2>3, <2>4 DEF IpcInv, HandedByState, HandedOnce
<1>3. QED
  BY <1>1, <1>2

LEMMA InvNext == IpcInv /\ [IpcNext]_vars => IpcInv'
<1>1. ASSUME IpcInv, UNCHANGED vars
      PROVE  IpcInv'
  <2>1. \A s : In(s)' = In(s)
    BY <1>1 DEF vars, In
  <2>2. IpcTypeOK'
    BY <1>1, <2>1 DEF vars, IpcInv, IpcTypeOK
  <2>3. QED
    BY <1>1, <2>1, <2>2 DEF vars, IpcInv, HandedByState, HandedOnce
<1>2. QED
  BY <1>1, AcceptKeeps, HandlerKeeps, ConnectKeeps, ProgramKeeps DEF IpcNext, MainLoop, Programs

LEMMA Invariant == IpcSpec => []IpcInv
  BY InvInit, InvNext, PTL DEF IpcSpec

-----------------------------------------------------------------------------
(* Type correctness: the backlog of each listener holds exactly the connections
   made to it that wait, none of them twice, and a program that has its answer
   has been dropped (ipcm.rs:70-145). *)
THEOREM IpcTypes == IpcSpec => []IpcTypeOK
<1>1. IpcInv => IpcTypeOK
  BY DEF IpcInv
<1>2. QED
  BY <1>1, Invariant, PTL

(* However the programs write, give up and come back, a request is handed over
   once at most, and a known program that reads Ok knows that it was
   (ipcm.rs:73-104). *)
THEOREM RequestsAreHandedOnce == IpcSpec => []HandedOnce
<1>1. IpcInv => HandedOnce
  BY DEF IpcInv
<1>2. QED
  BY <1>1, Invariant, PTL

(* No program that waits for its answer is dropped without one, unless what one
   read found of it could not be decoded: something else than a request, a part of
   one, or the first BUFSIZE bytes of a longer one (ipcm.rs:51-70 and 105-108). *)
THEOREM DropsHaveCause == IpcSpec => DroppedForCause
<1> DEFINE Step == \A c \in Conns \ left :
                     client[c] # "gone" /\ client'[c] = "gone" /\ c \notin answered'
                        => data[c] \in {"part", "long", "bad"}
<1>1. IpcInv /\ [IpcNext]_vars => [Step]_vars
  <2> SUFFICES ASSUME IpcInv, IpcNext, NEW c \in Conns, c \notin left,
                      client[c] # "gone", client'[c] = "gone", c \notin answered'
               PROVE  data[c] \in {"part", "long", "bad"}
    OBVIOUS
  <2>0. IpcTypeOK
    BY DEF IpcInv
  <2>1. CASE server
    BY <2>0, <2>1 DEF server, IpcTypeOK
  <2>2. CASE incoming_handler
    <3>1. NextState(c) = "gone" /\ answered' = answered \cup (Answers \ left)
      BY <2>2 DEF incoming_handler
    <3>2. c \notin Answers /\ c \notin Requests
      BY <2>0, <3>1, NextStates
    <3>3. c \in Fails
      BY <3>1, <3>2 DEF NextState
    <3>4. QED
      BY <3>3 DEF Fails
  <2>3. ASSUME NEW x \in Conns, Connect(x) \/ Write(x) \/ Leave(x)
        PROVE  FALSE
    BY <2>0, <2>3 DEF Connect, Write, Leave, IpcTypeOK
  <2>4. QED
    BY <2>1, <2>2, <2>3 DEF IpcNext, MainLoop, Programs
<1>2. QED
  BY <1>1, Invariant, PTL DEF IpcSpec, DroppedForCause
=============================================================================
