---------------------------- MODULE ExecmProofs ----------------------------
(***************************************************************************)
(* Proofs about Execm, for any programs, any requests and any order of the *)
(* systems in a stage.  They use ExecSpec: no fairness is assumed.         *)
(***************************************************************************)
EXTENDS Execm, SequenceTheorems, TLAPS

-----------------------------------------------------------------------------
(* The queues of BevyEvents keep their type. *)
LEMMA QueueType ==
    ASSUME NEW E, NEW q \in Queue(E), NEW S \in SUBSET E
    PROVE  /\ NoEvents \in Queue(E)
           /\ Send(q, S) \in Queue(E)
           /\ Swap(q) \in Queue(E)
           /\ Unread(q) \subseteq E
  BY DEF Queue, NoEvents, Send, Swap, Unread

LEMMA OrderedQueueType ==
    ASSUME NEW E, NEW q \in OrderedQueue(E), NEW e \in E, NEW n \in Nat
    PROVE  /\ NoOrdered \in OrderedQueue(E)
           /\ SendLast(q, e) \in OrderedQueue(E)
           /\ SwapOrdered(q) \in OrderedQueue(E)
           /\ DropFirst(q, n) \in OrderedQueue(E)
           /\ UnreadInOrder(q) \in Seq(E)
<1> USE DEF OrderedQueue
<1>1. q.old \in Seq(E) /\ q.new \in Seq(E)
  OBVIOUS
<1>2. SendLast(q, e) \in OrderedQueue(E)
  BY <1>1, AppendProperties DEF SendLast
<1>3. ASSUME NEW s \in Seq(E), NEW m \in Nat
      PROVE  SubSeq(s, m + 1, Len(s)) \in Seq(E)
  <2>1. \A i \in m + 1 .. Len(s) : s[i] \in E
    BY <1>3, LenProperties, ElementOfSeq
  <2>2. QED
    BY <2>1, <1>3, LenProperties, SubSeqProperties
<1>4. DropFirst(q, n) \in OrderedQueue(E)
  <2>1. SubSeq(q.old, n + 1, Len(q.old)) \in Seq(E)
    BY <1>1, <1>3
  <2>2. CASE n <= Len(q.old)
    BY <2>1, <2>2, <1>1 DEF DropFirst
  <2>3. CASE ~(n <= Len(q.old))
    <3>1. n - Len(q.old) \in Nat
      BY <2>3, <1>1, LenProperties
    <3>2. SubSeq(q.new, n - Len(q.old) + 1, Len(q.new)) \in Seq(E)
      BY <3>1, <1>1, <1>3
    <3>3. QED
      BY <2>1, <2>3, <3>2 DEF DropFirst
  <2>4. QED
    BY <2>2, <2>3
<1>5. UnreadInOrder(q) \in Seq(E)
  BY <1>1, ConcatProperties DEF UnreadInOrder
<1>6. QED
  BY <1>1, <1>2, <1>4, <1>5 DEF NoOrdered, SwapOrdered

-----------------------------------------------------------------------------
(* Type correctness.  The runner is the only system that needs the sequences. *)
LEMMA StartType ==
    ASSUME ExecStateOK, NEW p \in Programs, Start(p)
    PROVE  /\ procs' \in [Programs -> Nat]
           /\ cmds' \in [start : SUBSET Programs, stop : SUBSET Programs,
                         hold : SUBSET Programs, free : SUBSET Programs]
           /\ balance' \in [Programs -> Int]
  BY DEF ExecStateOK, Start

LEMMA RunnerType ==
    ASSUME ExecStateOK, runner
    PROVE  ExecStateOK'
<1> DEFINE reqs == UnreadInOrder(rrq)
           Same == UNCHANGED <<procs, cmds, balance>>
           Good == /\ procs' \in [Programs -> Nat]
                   /\ cmds' \in [start : SUBSET Programs, stop : SUBSET Programs,
                                 hold : SUBSET Programs, free : SUBSET Programs]
                   /\ balance' \in [Programs -> Int]
<1>1. Same => Good
  BY DEF ExecStateOK
<1>2. \A p \in Programs : Start(p) => Good
  BY StartType
<1>3. Ready \subseteq Programs
  BY DEF Ready
<1>4. rrq \in OrderedQueue(Pids)
  BY DEF ExecStateOK
<1>5. Good /\ rrq' \in OrderedQueue(Pids)
  <2>1. CASE \E p \in Ready \cap KeepRun : Start(p) /\ UNCHANGED rrq
    BY <2>1, <1>2, <1>3, <1>4
  <2>2. CASE \E p \in Ready \ KeepRun, n \in 1..Len(reqs) :
               FirstFor(p, reqs, n) /\ Start(p) /\ rrq' = DropFirst(rrq, n)
    <3>1. PICK p \in Ready \ KeepRun, n \in 1..Len(reqs) :
                 Start(p) /\ rrq' = DropFirst(rrq, n)
      BY <2>2
    <3>2. Len(reqs) \in Nat /\ n \in Nat
      <4>1. \A e \in Pids : reqs \in Seq(Pids)
        BY <1>4, OrderedQueueType
      <4>2. reqs \in Seq(Pids)
        BY <4>1, <3>1, <1>3, ExecmAssumption
      <4>3. QED
        BY <4>2, LenProperties
    <3>3. DropFirst(rrq, n) \in OrderedQueue(Pids)
      BY <3>1, <3>2, <1>3, <1>4, OrderedQueueType, ExecmAssumption
    <3>4. QED
      BY <3>1, <3>3, <1>2, <1>3
  <2>3. CASE /\ rrq' = NoOrdered
             /\ IF Ready \cap KeepRun = {} THEN Same
                ELSE \E p \in Ready \cap KeepRun : Start(p)
    <3>1. NoOrdered \in OrderedQueue(Pids)
      BY EmptySeq DEF NoOrdered, OrderedQueue
    <3>2. QED
      BY <2>3, <3>1, <1>1, <1>2, <1>3
  <2>4. CASE Ready = {} /\ Same /\ UNCHANGED rrq
    BY <2>4, <1>1, <1>4
  <2>5. QED
    BY <2>1, <2>2, <2>3, <2>4 DEF runner, RunnerFrom
<1>6. QED
  BY <1>5 DEF ExecStateOK, runner, RunnerFrom

LEMMA SystemType ==
    ASSUME ExecStateOK, ExecSystem
    PROVE  ExecStateOK'
<1> USE ExecmAssumption
<1>1. CASE terminate_adder
  <2>1. trq' \in Queue(Pids)
    BY <1>1 DEF terminate_adder, NoEvents, Queue
  <2>2. cnt' \in [Programs -> 0..ClearCntMax]
    BY <1>1 DEF terminate_adder, ExecStateOK
  <2>3. cmds' \in [start : SUBSET Programs, stop : SUBSET Programs,
                   hold : SUBSET Programs, free : SUBSET Programs]
    BY <1>1 DEF terminate_adder, ExecStateOK
  <2>4. QED
    BY <1>1, <2>1, <2>2, <2>3 DEF terminate_adder, ExecStateOK
<1>2. CASE terminate_cleaner
  <2>1. cnt' \in [Programs -> 0..ClearCntMax]
    BY <1>2 DEF terminate_cleaner, ExecStateOK
  <2>2. QED
    BY <1>2, <2>1 DEF terminate_cleaner, ExecStateOK
<1>3. CASE terminator
  BY <1>3 DEF terminator, pkill, ExecStateOK
<1>4. CASE run_checker
  BY <1>4 DEF run_checker, ExecStateOK
<1>5. CASE runner
  BY <1>5, RunnerType
<1>6. CASE trq_update
  <2>1. trq' \in Queue(Pids)
    BY <1>6 DEF trq_update, ExecStateOK, Swap, Queue
  <2>2. QED
    BY <1>6, <2>1 DEF trq_update, ExecStateOK
<1>7. CASE rrq_update
  <2>1. rrq' \in OrderedQueue(Pids)
    BY <1>7, EmptySeq DEF rrq_update, ExecStateOK, SwapOrdered, OrderedQueue
  <2>2. QED
    BY <1>7, <2>1 DEF rrq_update, ExecStateOK
<1>8. QED
  BY <1>1, <1>2, <1>3, <1>4, <1>5, <1>6, <1>7 DEF ExecSystem

LEMMA CommandsType ==
    ASSUME ExecStateOK, NEW all, ApplyCommands(all)
    PROVE  ExecStateOK'
  BY ExecmAssumption DEF ExecStateOK, ApplyCommands, NoCmds

LEMMA EnvironmentType ==
    ASSUME ExecStateOK, Environment
    PROVE  ExecStateOK'
<1>1. ASSUME NEW p \in Programs, Exit(p)
      PROVE  ExecStateOK'
  BY <1>1 DEF Exit, ExecStateOK
<1>2. ASSUME NEW p \in Programs, PeriodOver(p)
      PROVE  ExecStateOK'
  BY <1>2 DEF PeriodOver, ExecStateOK
<1>3. ASSUME NEW S \in SUBSET Pids, RequestTerminate(S)
      PROVE  ExecStateOK'
  <2>1. trq' \in Queue(Pids)
    BY <1>3, QueueType DEF RequestTerminate, ExecStateOK
  <2>2. QED
    BY <1>3, <2>1 DEF RequestTerminate, ExecStateOK
<1>4. ASSUME NEW p \in Pids, RequestRun(p)
      PROVE  ExecStateOK'
  <2>1. rrq' \in OrderedQueue(Pids)
    BY <1>4, AppendProperties DEF RequestRun, ExecStateOK, SendLast, OrderedQueue
  <2>2. QED
    BY <1>4, <2>1 DEF RequestRun, ExecStateOK
<1>5. QED
  BY <1>1, <1>2, <1>3, <1>4 DEF Environment

LEMMA InitType == Init => TypeOK
  BY EmptySeq, ExecmAssumption
  DEF Init, TypeOK, ExecStateOK, NoCmds, NoEvents, NoOrdered, Queue, OrderedQueue

(* Every variable keeps its type, for any programs and requests. *)
THEOREM TypeCorrect == ExecSpec => []TypeOK
<1>1. TypeOK /\ [Next]_execVars => TypeOK'
  <2> SUFFICES ASSUME TypeOK, [Next]_execVars
               PROVE  TypeOK'
    OBVIOUS
  <2> USE DEF TypeOK
  <2>1. CASE ExecSystem
    <3>1. ran' \subseteq ExecSystems
      BY <2>1 DEF ExecSystem, Turn, ExecSystems, terminate_adder, terminate_cleaner,
                  terminator, run_checker, runner, RunnerFrom, trq_update, rrq_update
    <3>2. QED
      BY <2>1, <3>1, SystemType
  <2>2. CASE EndMain
    BY <2>2, CommandsType DEF EndMain, ApplyCommands
  <2>3. CASE Environment
    BY <2>3, EnvironmentType
    DEF Environment, Exit, PeriodOver, RequestTerminate, RequestRun
  <2>4. CASE UNCHANGED execVars
    BY <2>4 DEF execVars, ExecStateOK
  <2>5. QED
    BY <2>1, <2>2, <2>3, <2>4 DEF Next
<1>2. QED
  BY <1>1, InitType, PTL DEF ExecSpec

-----------------------------------------------------------------------------
(* The inductive invariant behind the safety properties: which programs the
   commands of the stage speak of, and for which a process exists. *)
(* Commands: a program to be started has neither component, one to be stopped
   has Run and its process is gone, and each command comes from the turn of its
   system. *)
CommandsOK ==
    /\ cmds.start \cap (run \cup held) = {}
    /\ cmds.start # {} => "runner" \in ran
    /\ cmds.stop \subseteq run
    /\ cmds.stop # {} => "run_checker" \in ran
    /\ \A p \in cmds.stop : procs[p] = 0

(* The programs the server believes to be running: those with a Run component,
   as it will be when the stage ends. *)
Known == (run \ cmds.stop) \cup cmds.start

ProcessesOK ==
    \A p \in Programs :
        /\ procs[p] \in {0, 1}
        /\ procs[p] = 1 => p \in Known
        /\ balance[p] = IF p \in Known THEN 1 ELSE 0

ExecInv == ExecStateOK /\ CommandsOK /\ ProcessesOK

LEMMA InvImplies ==
    ASSUME ExecInv
    PROVE  OneProcess /\ StoppedIsStopped /\ ReportsMatch
  BY DEF ExecInv, ExecStateOK, CommandsOK, ProcessesOK, Known,
         OneProcess, StoppedIsStopped, ReportsMatch

LEMMA InitInv == Init => ExecInv
<1>1. Init => ExecStateOK
  BY InitType DEF TypeOK
<1>2. Init => CommandsOK /\ ProcessesOK
  BY DEF Init, CommandsOK, ProcessesOK, Known, NoCmds
<1>3. QED
  BY <1>1, <1>2 DEF ExecInv

(* Starting a program of the runner's query, before any other command of it. *)
LEMMA StartInv ==
    ASSUME ExecInv, NEW p \in Ready, Start(p), "runner" \notin ran,
           "runner" \in ran', ran \subseteq ran',
           UNCHANGED <<run, held>>
    PROVE  CommandsOK' /\ ProcessesOK'
<1> USE DEF ExecInv
<1>0. p \in Programs /\ p \notin run /\ p \notin held
  BY DEF Ready
<1>1. cmds.start = {} /\ p \notin Known /\ procs[p] = 0 /\ balance[p] = 0
  BY <1>0 DEF CommandsOK, ProcessesOK, Known
<1>2. CASE UNCHANGED <<procs, cmds, balance>>
  BY <1>1, <1>2 DEF CommandsOK, ProcessesOK, Known
<1>3. CASE /\ procs' = [procs EXCEPT ![p] = @ + 1]
           /\ cmds' = [cmds EXCEPT !.start = @ \cup {p}]
           /\ balance' = [balance EXCEPT ![p] = @ + 1]
  <2>1. cmds'.start = {p} /\ cmds'.stop = cmds.stop
    BY <1>1, <1>3 DEF ExecStateOK
  <2>2. procs'[p] = 1 /\ balance'[p] = 1
    BY <1>0, <1>1, <1>3 DEF ExecStateOK
  <2>3. \A x \in Programs \ {p} : procs'[x] = procs[x] /\ balance'[x] = balance[x]
    BY <1>3 DEF ExecStateOK
  <2>4. Known' = Known \cup {p}
    BY <1>1, <2>1 DEF Known
  <2>5. ProcessesOK'
    BY <2>2, <2>3, <2>4 DEF ProcessesOK
  <2>6. \A x \in cmds'.stop : procs'[x] = 0
    BY <1>0, <2>1, <2>3 DEF CommandsOK, ExecStateOK
  <2>7. CommandsOK'
    BY <1>0, <2>1, <2>6 DEF CommandsOK
  <2>8. QED
    BY <2>5, <2>7
<1>4. QED
  BY <1>2, <1>3 DEF Start

LEMMA SystemInv ==
    ASSUME ExecInv, ExecSystem
    PROVE  ExecInv'
<1> USE DEF ExecInv
<1>0. ExecStateOK'
  BY SystemType
<1>1. CASE terminate_adder
  BY <1>0, <1>1 DEF terminate_adder, Turn, ExecStateOK, CommandsOK, ProcessesOK, Known
<1>2. CASE terminate_cleaner
  BY <1>0, <1>2 DEF terminate_cleaner, Turn, ExecStateOK, CommandsOK, ProcessesOK, Known
<1>3. CASE terminator
  BY <1>0, <1>3 DEF terminator, Turn, CommandsOK, ProcessesOK, Known
<1>4. CASE run_checker
  <2> DEFINE over == {p \in run : ~is_child_run(p)}
  <2>1. cmds.stop = {}
    BY <1>4 DEF run_checker, Turn, CommandsOK
  <2>2. cmds'.stop = over /\ cmds'.start = cmds.start
    BY <1>4, <2>1 DEF run_checker, ExecStateOK
  <2>3. \A p \in Programs : procs'[p] = procs[p] /\
                            balance'[p] = IF p \in over THEN balance[p] - 1 ELSE balance[p]
    BY <1>4 DEF run_checker
  <2>4. \A p \in over : p \in Programs /\ p \in Known /\ procs[p] = 0 /\ p \notin cmds.start
    BY <2>1 DEF is_child_run, ExecStateOK, ProcessesOK, CommandsOK, Known
  <2>5. Known' = Known \ over
    BY <1>4, <2>1, <2>2, <2>4 DEF run_checker, Known
  <2>6. ProcessesOK'
    BY <2>3, <2>4, <2>5 DEF ProcessesOK
  <2>7. CommandsOK'
    BY <1>4, <2>2, <2>3, <2>4 DEF run_checker, Turn, CommandsOK
  <2>8. QED
    BY <1>0, <2>6, <2>7
<1>5. CASE runner
  <2>1. /\ "runner" \notin ran /\ "runner" \in ran' /\ ran \subseteq ran'
        /\ UNCHANGED <<run, held>>
    BY <1>5 DEF runner, RunnerFrom, Turn
  <2>2. (\E p \in Ready : Start(p)) \/ UNCHANGED <<procs, cmds, balance>>
    BY <1>5 DEF runner, RunnerFrom
  <2>3. CASE \E p \in Ready : Start(p)
    BY <1>0, <2>1, <2>3, StartInv
  <2>4. CASE UNCHANGED <<procs, cmds, balance>>
    BY <1>0, <2>1, <2>4 DEF CommandsOK, ProcessesOK, Known
  <2>5. QED
    BY <2>2, <2>3, <2>4
<1>6. CASE trq_update
  BY <1>0, <1>6 DEF trq_update, Turn, CommandsOK, ProcessesOK, Known
<1>7. CASE rrq_update
  BY <1>0, <1>7 DEF rrq_update, Turn, CommandsOK, ProcessesOK, Known
<1>8. QED
  BY <1>1, <1>2, <1>3, <1>4, <1>5, <1>6, <1>7 DEF ExecSystem

LEMMA CommandsInv ==
    ASSUME ExecInv, NEW all, ApplyCommands(all)
    PROVE  ExecInv'
<1> USE DEF ExecInv
<1>1. ExecStateOK'
  BY CommandsType
<1>2. cmds'.start = {} /\ cmds'.stop = {}
  BY DEF ApplyCommands, NoCmds
<1>3. Known' = Known
  BY <1>2 DEF ApplyCommands, Known, CommandsOK
<1>4. QED
  BY <1>1, <1>2, <1>3 DEF ApplyCommands, CommandsOK, ProcessesOK

LEMMA EnvironmentInv ==
    ASSUME ExecInv, Environment
    PROVE  ExecInv'
<1> USE DEF ExecInv
<1>0. ExecStateOK'
  BY EnvironmentType
<1>1. ASSUME NEW p \in Programs, Exit(p)
      PROVE  ExecInv'
  <2>1. procs'[p] = 0 /\ \A x \in Programs \ {p} : procs'[x] = procs[x]
    BY <1>1 DEF Exit, ExecStateOK, ProcessesOK
  <2>2. Known' = Known
    BY <1>1 DEF Exit, Known
  <2>3. ProcessesOK'
    BY <1>1, <2>1, <2>2 DEF Exit, ProcessesOK
  <2>4. CommandsOK'
    BY <1>1, <2>1 DEF Exit, CommandsOK, ExecStateOK
  <2>5. QED
    BY <1>0, <2>3, <2>4
<1>2. ASSUME UNCHANGED <<ran, cmds, run, held, procs, balance>>
      PROVE  ExecInv'
  BY <1>0, <1>2 DEF CommandsOK, ProcessesOK, Known
<1>3. QED
  BY <1>1, <1>2 DEF Environment, PeriodOver, RequestTerminate, RequestRun

LEMMA NextInv == ExecInv /\ [Next]_execVars => ExecInv'
<1> SUFFICES ASSUME ExecInv, [Next]_execVars
             PROVE  ExecInv'
  OBVIOUS
<1>1. CASE ExecSystem
  BY <1>1, SystemInv
<1>2. CASE EndMain
  BY <1>2, CommandsInv DEF EndMain
<1>3. CASE Environment
  BY <1>3, EnvironmentInv
<1>4. CASE UNCHANGED execVars
  BY <1>4 DEF execVars, ExecInv, ExecStateOK, CommandsOK, ProcessesOK, Known
<1>5. QED
  BY <1>1, <1>2, <1>3, <1>4 DEF Next

LEMMA AlwaysExecInv == ExecSpec => []ExecInv
  BY InitInv, NextInv, PTL DEF ExecSpec

(* A program never has two live processes, whatever the order of the systems. *)
THEOREM AtMostOneProcess == ExecSpec => []OneProcess
  BY AlwaysExecInv, InvImplies, PTL

(* When utils::terminate answers "not running" and a process lives all the same, the
   runner has started it in the stage that still runs, and the program has no
   Terminate component (execm.rs:62-75, 166-186). *)
THEOREM WrongAnswersEnd == ExecSpec => []StoppedIsStopped
  BY AlwaysExecInv, InvImplies, PTL

(* The server is told of every start and of every stop, in turn. *)
THEOREM ReportsAlternate == ExecSpec => []ReportsMatch
  BY AlwaysExecInv, InvImplies, PTL

(* Run is removed only of a program that has no process. *)
THEOREM NothingAbandoned == ExecSpec => NoProcessAbandoned
<1> DEFINE A == \A p \in Programs : p \in run /\ p \notin run' => procs[p] = 0
<1>1. ExecInv /\ [Next]_execVars => [A]_execVars
  <2> SUFFICES ASSUME ExecInv, Next
               PROVE  A
    BY DEF execVars
  <2>1. CASE EndMain
    BY <2>1 DEF EndMain, ApplyCommands, ExecInv, CommandsOK
  <2>2. CASE ExecSystem
    BY <2>2 DEF ExecSystem, terminate_adder, terminate_cleaner, terminator,
                run_checker, runner, RunnerFrom, trq_update, rrq_update
  <2>3. CASE Environment
    BY <2>3 DEF Environment, Exit, PeriodOver, RequestTerminate, RequestRun
  <2>4. QED
    BY <2>1, <2>2, <2>3 DEF Next
<1>2. QED
  BY <1>1, AlwaysExecInv, PTL DEF ExecSpec, NoProcessAbandoned
=============================================================================
