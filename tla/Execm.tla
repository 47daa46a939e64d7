------------------------------- MODULE Execm -------------------------------
(***************************************************************************)
(* The executable manager of src/src/execm.rs: it starts the programs of   *)
(* the point configuration as child processes, notices their exit, and     *)
(* brings down those that a TerminateRequest names.                        *)
(*                                                                         *)
(* Its five systems run once in every Core::Main stage, with the update    *)
(* systems of the two event queues they read.  The stage is                *)
(* SystemStage::parallel(): systems run in an order that nothing fixes and *)
(* that may change every time, and the components they add or remove       *)
(* (Commands) appear together when the stage ends.  `ran` is the systems   *)
(* that have run in the current stage, `cmds` the commands that wait for   *)
(* its end.  Senders of requests are the environment here; ProgramUpdater  *)
(* replaces it by the real sender of TerminateRequest.                     *)
(*                                                                         *)
(* TerminateRequest.hard is always FALSE (its only sender is               *)
(* program_updater.rs:315) and is left out.  Exec entities are created     *)
(* once by `startup`, one for each program of the configuration.           *)
(***************************************************************************)
EXTENDS Integers, Sequences, BevyEvents

CONSTANTS
    Programs,        \* pids of the Exec entities
    Pids,            \* pids a request may name
    KeepRun,         \* programs whose Exec.keep_run is true
    HasIpc,          \* programs whose Exec.ipc_type is Some
    NameMatches,     \* pairs <<p, q>>: pkill of p's name hits q's process
    ClearCntMax,     \* CLEAR_CNT_MAX
    MaxRunRequests,  \* bound: RunRequests waiting in the queue
    Before           \* pairs <<s, t>>: s runs before t in the stage ({}: any order)

ASSUME ExecmAssumption ==
    /\ Programs \subseteq Pids
    /\ KeepRun \subseteq Programs
    /\ HasIpc \subseteq Programs
    /\ NameMatches \subseteq Programs \X Programs
    /\ ClearCntMax \in Nat
    /\ MaxRunRequests \in Nat

VARIABLES
    ran,      \* systems that ran in the current Main stage
    cmds,     \* Commands waiting for the end of the stage
    run,      \* programs that have a Run component
    held,     \* programs that have a Terminate component
    cnt,      \* Terminate.clear_cnt (0 without the component)
    asked,    \* programs with Terminate.tl_req = Some(t), t less than 5 s ago
    trq,      \* Events<TerminateRequest>
    rrq,      \* Events<RunRequest>
    procs,    \* number of live child processes of each program
    told,     \* programs whose process has been told to stop
    balance   \* StartProgram reports minus StopProgram reports handed to SendManager

execVars == <<ran, cmds, run, held, cnt, asked, trq, rrq, procs, told, balance>>

ExecSystems == {"terminate_adder", "terminate_cleaner", "terminator",
                "run_checker", "runner", "trq_update", "rrq_update"}

NoCmds == [start |-> {}, stop |-> {}, hold |-> {}, free |-> {}]

ExecStateOK ==
    /\ cmds \in [start : SUBSET Programs, stop : SUBSET Programs,
                 hold : SUBSET Programs, free : SUBSET Programs]
    /\ run \subseteq Programs
    /\ held \subseteq Programs
    /\ cnt \in [Programs -> 0..ClearCntMax]
    /\ asked \subseteq held
    /\ trq \in Queue(Pids)
    /\ rrq \in OrderedQueue(Pids)
    /\ procs \in [Programs -> Nat]
    /\ told \subseteq Programs
    /\ balance \in [Programs -> Int]

TypeOK == ran \subseteq ExecSystems /\ ExecStateOK

(* execm.rs startup: the Exec entities exist, with no Run and no Terminate. *)
Init ==
    /\ ran = {}
    /\ cmds = NoCmds
    /\ run = {}
    /\ held = {}
    /\ cnt = [p \in Programs |-> 0]
    /\ asked = {}
    /\ trq = NoEvents
    /\ rrq = NoOrdered
    /\ procs = [p \in Programs |-> 0]
    /\ told = {}
    /\ balance = [p \in Programs |-> 0]

-----------------------------------------------------------------------------
(* System s takes its turn in the current stage. *)
Turn(s) ==
    /\ s \notin ran
    /\ \A o \in Before : o[2] = s => o[1] \in ran
    /\ ran' = ran \cup {s}

(* Variant for mutation runs: a request for a program that already has a
   Terminate component does not restart its countdown. *)
terminate_adder_NoRenewal ==
    /\ Turn("terminate_adder")
    /\ cmds' = [cmds EXCEPT !.hold = @ \cup ((Unread(trq) \cap Programs) \ held)]
    /\ trq' = NoEvents
    /\ UNCHANGED <<run, held, cnt, asked, rrq, procs, told, balance>>

(* Every request that is still unread restarts the countdown of a Terminate
   component, or has one inserted when the stage ends. *)
terminate_adder ==
    /\ Turn("terminate_adder")
    /\ LET req == Unread(trq) \cap Programs IN
         /\ cnt' = [p \in Programs |-> IF p \in req \cap held THEN 0 ELSE cnt[p]]
         /\ cmds' = [cmds EXCEPT !.hold = @ \cup (req \ held)]
    /\ trq' = NoEvents
    /\ UNCHANGED <<run, held, asked, rrq, procs, told, balance>>

(* Variants for mutation runs: the countdown never ends, or never starts. *)
terminate_cleaner_NeverDue ==
    /\ Turn("terminate_cleaner")
    /\ cnt' = [p \in Programs |-> IF p \in held THEN cnt[p] + 1 ELSE cnt[p]]
    /\ UNCHANGED <<cmds, run, held, asked, trq, rrq, procs, told, balance>>

terminate_cleaner_NoCount ==
    /\ Turn("terminate_cleaner")
    /\ cmds' = [cmds EXCEPT !.free = @ \cup {p \in held : cnt[p] >= ClearCntMax}]
    /\ UNCHANGED <<run, held, cnt, asked, trq, rrq, procs, told, balance>>

(* A Terminate component nobody renewed for ClearCntMax stages is removed. *)
terminate_cleaner ==
    /\ Turn("terminate_cleaner")
    /\ LET due == {p \in held : cnt[p] >= ClearCntMax} IN
         /\ cmds' = [cmds EXCEPT !.free = @ \cup due]
         /\ cnt' = [p \in Programs |->
                      IF p \in held \ due THEN cnt[p] + 1 ELSE cnt[p]]
    /\ UNCHANGED <<run, held, asked, trq, rrq, procs, told, balance>>

(* mos::pkill kills every process that sysinfo's processes_by_name finds for
   the (truncated) program name: not always the program's own, nor only it. *)
pkill(S) == {q \in Programs : \E p \in S : <<p, q>> \in NameMatches}

(* Tell the running programs that are held to stop, at most once per period:
   by an IPC message, which may fail and counts all the same, or by pkill. *)
terminator ==
    /\ Turn("terminator")
    /\ LET due == (run \cap held) \ asked IN
         /\ \E sent \in SUBSET (due \cap HasIpc) :
              told' = told \cup {p \in sent \cup pkill(due \ HasIpc) : procs[p] > 0}
         /\ asked' = asked \cup due
    /\ UNCHANGED <<cmds, run, held, cnt, trq, rrq, procs, balance>>

(* Variant for mutation runs: a child told to stop is taken for stopped. *)
is_child_run_UnlessTold(p) == procs[p] > 0 /\ p \notin told

(* is_child_run: the child of a Run component has not exited.  Its Err, of a wait for
   a process that is no child of ours any more, cannot occur here. *)
is_child_run(p) == procs[p] > 0

(* Programs whose child has exited lose their Run component; the server is told. *)
run_checker ==
    /\ Turn("run_checker")
    /\ LET over == {p \in run : ~is_child_run(p)} IN
         /\ cmds' = [cmds EXCEPT !.stop = @ \cup over]
         /\ balance' = [p \in Programs |->
                          IF p \in over THEN balance[p] - 1 ELSE balance[p]]
    /\ UNCHANGED <<run, held, cnt, asked, trq, rrq, procs, told>>

(* Variant for mutation runs: no report of the start. *)
Start_NoReport(p) ==
    /\ procs' = [procs EXCEPT ![p] = @ + 1]
    /\ cmds' = [cmds EXCEPT !.start = @ \cup {p}]
    /\ UNCHANGED balance

(* run(): the process is spawned at once, its Run component comes with the end
   of the stage.  Spawning may fail, which changes nothing. *)
Start(p) ==
    \/ /\ procs' = [procs EXCEPT ![p] = @ + 1]
       /\ cmds' = [cmds EXCEPT !.start = @ \cup {p}]
       /\ balance' = [balance EXCEPT ![p] = @ + 1]
    \/ UNCHANGED <<procs, cmds, balance>>

(* Variants for mutation runs: one of the two filters is missing. *)
Ready_EvenRunning == Programs \ held
Ready_EvenHeld    == Programs \ run

(* runner's query: Without<Run>, Without<Terminate>. *)
Ready == Programs \ (run \cup held)

(* The request at place n is the first one for p. *)
FirstFor(p, reqs, n) == reqs[n] = p /\ \A m \in 1..(n-1) : reqs[m] # p

(* The runner starts one program of its query.  It looks at them in the order of
   their table, of which only `first` is known, those that may come first.  A
   keep_run program is taken at once; for another one the requests are read until
   one names it.  If none does they are all used up, and only a keep_run program
   can still be found. *)
RunnerFrom(first) ==
    /\ Turn("runner")
    /\ LET reqs == UnreadInOrder(rrq)
       IN \/ \E p \in first \cap KeepRun : Start(p) /\ UNCHANGED rrq
          \/ \E p \in first \ KeepRun, n \in 1..Len(reqs) :
               /\ FirstFor(p, reqs, n)
               /\ Start(p)
               /\ rrq' = DropFirst(rrq, n)
          \/ /\ \E p \in first \ KeepRun : \A n \in 1..Len(reqs) : reqs[n] # p
             /\ rrq' = NoOrdered
             /\ IF Ready \cap KeepRun = {} THEN UNCHANGED <<procs, cmds, balance>>
                ELSE \E p \in Ready \cap KeepRun : Start(p)
          \/ first = {} /\ UNCHANGED <<procs, cmds, balance, rrq>>
    /\ UNCHANGED <<run, held, cnt, asked, trq, told>>

(* Any of them may come first: what the Streamer module knows better. *)
runner == RunnerFrom(Ready)

(* Events::<TerminateRequest>::update_system and Events::<RunRequest>::... *)
trq_update ==
    /\ Turn("trq_update")
    /\ trq' = Swap(trq)
    /\ UNCHANGED <<cmds, run, held, cnt, asked, rrq, procs, told, balance>>

rrq_update ==
    /\ Turn("rrq_update")
    /\ rrq' = SwapOrdered(rrq)
    /\ UNCHANGED <<cmds, run, held, cnt, asked, trq, procs, told, balance>>

ExecSystem == \/ terminate_adder \/ terminate_cleaner \/ terminator
              \/ run_checker \/ runner \/ trq_update \/ rrq_update

(* The stage ends once the systems of `all` have run: commands are applied. *)
ApplyCommands(all) ==
    /\ ran = all
    /\ ran' = {}
    /\ cmds' = NoCmds
    /\ run' = (run \cup cmds.start) \ cmds.stop
    /\ held' = (held \cup cmds.hold) \ cmds.free
    /\ cnt' = [p \in Programs |-> IF p \in held \ cmds.free THEN cnt[p] ELSE 0]
    /\ asked' = asked \ cmds.free
    /\ UNCHANGED <<trq, rrq, procs, told, balance>>

EndMain == ApplyCommands(ExecSystems)

-----------------------------------------------------------------------------
(* A child process exits, told to or of its own accord. *)
Exit(p) ==
    /\ procs[p] > 0
    /\ procs' = [procs EXCEPT ![p] = @ - 1]
    /\ told' = told \ {p}
    /\ UNCHANGED <<ran, cmds, run, held, cnt, asked, trq, rrq, balance>>

(* TERMINATE_REQ_REPEAT_PERIOD / TERMINATE_CHECK_PERIOD is over for p. *)
PeriodOver(p) ==
    /\ p \in asked
    /\ asked' = asked \ {p}
    /\ UNCHANGED <<ran, cmds, run, held, cnt, trq, rrq, procs, told, balance>>

(* Another module sends requests: EventWriter<TerminateRequest> for the pids S
   (utils::terminate, once for each), EventWriter<RunRequest> for one. *)
RequestTerminate(S) ==
    /\ trq' = Send(trq, S)
    /\ UNCHANGED <<ran, cmds, run, held, cnt, asked, rrq, procs, told, balance>>

RequestRun(p) ==
    /\ Len(UnreadInOrder(rrq)) < MaxRunRequests
    /\ rrq' = SendLast(rrq, p)
    /\ UNCHANGED <<ran, cmds, run, held, cnt, asked, trq, procs, told, balance>>

Environment ==
    \/ \E p \in Programs : Exit(p) \/ PeriodOver(p)
    \/ \E S \in SUBSET Pids : RequestTerminate(S)
    \/ \E p \in Pids : RequestRun(p)

Next == ExecSystem \/ EndMain \/ Environment

ExecSpec == Init /\ [][Next]_execVars

(* The main loop never stops: systems keep running and stages keep ending. *)
Spec == ExecSpec /\ WF_execVars(ExecSystem \/ EndMain)

-----------------------------------------------------------------------------
(* At any time a program has at most one live process: the removal of Run by
   run_checker and its insertion by runner wait for the end of the stage, and
   in between nothing starts the program again (execm.rs:150-194). *)
OneProcess == \A p \in Programs : procs[p] <= 1

(* execm::utils::terminate answers that a program is not running when it has no Run
   component, and looks neither at Terminate nor at the process (execm.rs:62-75).
   The answer is wrong only while a process waits for the Run that comes with the
   end of the stage that started it: for the rest of that one stage, and never of a
   program that has a Terminate, which the runner does not start (execm.rs:166-186).
   So a single answer "not running" may be wrong; SafeApply of ProgramUpdater says
   for how long the updater has to have asked before it is not. *)
StoppedIsStopped ==
    \A p \in Programs \ run : procs[p] > 0 => p \in cmds.start /\ p \notin held

(* The server's picture: StartProgram and StopProgram reports alternate for
   each program, and a live process is always one reported as started. *)
ReportsMatch ==
    \A p \in Programs : /\ balance[p] \in {0, 1}
                        /\ procs[p] > 0 => balance[p] = 1

(* The manager never lets go of a live process: a Run component is removed
   only when its child has exited and no other has been started since, although
   the removal comes after the check (execm.rs:152-154). *)
NoProcessAbandoned ==
    [][\A p \in Programs : p \in run /\ p \notin run' => procs[p] = 0]_execVars

(* Once nobody asks for it any more, a Terminate component goes away for good
   and no longer keeps the runner from the program (execm.rs:107-116). *)
TerminateExpires ==
    \A p \in Programs : <>[](p \notin Unread(trq)) => <>[](p \notin held)
=============================================================================
