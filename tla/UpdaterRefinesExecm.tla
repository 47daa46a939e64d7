------------------------ MODULE UpdaterRefinesExecm ------------------------
(***************************************************************************)
(* The updater and the manager together implement the manager alone        *)
(* (ProgramUpdater's ImplementsExecm), for any values of the constants.    *)
(* In the manager's eyes only its own systems of the Main stage run, in    *)
(* any order; the terminate handler is somebody who sends requests; and    *)
(* the other stages, the other systems and the downloads are stuttering.   *)
(***************************************************************************)
EXTENDS ProgramUpdaterProofs

(* The systems the manager sees. *)
seen == IF stage = "main" THEN ran \cap ExecSystems ELSE {}

(* Steps in which nothing of the manager changes. *)
LEMMA StutterMaps ==
    ASSUME UNCHANGED <<seen, cmds, run, held, cnt, asked, trq, rrq, procs, told, balance>>
    PROVE  UNCHANGED Manager!execVars
  BY DEF Manager!execVars, seen

(* A system of the manager takes its turn. *)
LEMMA TurnMaps ==
    ASSUME stage = "main", stage' = "main", NEW s \in ExecSystems, Turn(s)
    PROVE  Manager!Turn(s)
  BY DEF Turn, Manager!Turn

LEMMA SystemMaps ==
    ASSUME stage = "main", stage' = "main", ExecSystem
    PROVE  Manager!ExecSystem
<1> USE TurnMaps DEF ExecSystems
<1>1. CASE terminate_adder
  BY <1>1 DEF terminate_adder, Manager!terminate_adder, Manager!ExecSystem,
              Unread, Manager!Unread, NoEvents, Manager!NoEvents
<1>2. CASE terminate_cleaner
  BY <1>2 DEF terminate_cleaner, Manager!terminate_cleaner, Manager!ExecSystem
<1>3. CASE terminator
  BY <1>3 DEF terminator, Manager!terminator, Manager!ExecSystem, pkill, Manager!pkill
<1>4. CASE run_checker
  BY <1>4 DEF run_checker, Manager!run_checker, Manager!ExecSystem,
              is_child_run, Manager!is_child_run
<1>5. CASE runner
  BY <1>5 DEF runner, RunnerFrom, Manager!runner, Manager!RunnerFrom, Manager!ExecSystem,
              Start, Manager!Start, Ready, Manager!Ready, FirstFor, Manager!FirstFor,
              NoOrdered, Manager!NoOrdered, UnreadInOrder, Manager!UnreadInOrder,
              DropFirst, Manager!DropFirst
<1>6. CASE trq_update
  BY <1>6 DEF trq_update, Manager!trq_update, Manager!ExecSystem, Swap, Manager!Swap
<1>7. CASE rrq_update
  BY <1>7 DEF rrq_update, Manager!rrq_update, Manager!ExecSystem,
              SwapOrdered, Manager!SwapOrdered
<1>8. QED
  BY <1>1, <1>2, <1>3, <1>4, <1>5, <1>6, <1>7 DEF ExecSystem

LEMMA StepMaps ==
    ASSUME CoreType, ExecStateOK, UpdNext
    PROVE  Manager!Next \/ UNCHANGED Manager!execVars
<1>1. CASE sys_poll \/ puq_update \/ sys_config_updater \/ sys_update_checker \/ EndHandle
  <2>1. UNCHANGED <<seen, cmds, run, held, cnt, asked, trq, rrq, procs, told, balance>>
    BY <1>1 DEF sys_poll, puq_update, sys_config_updater, sys_update_checker, EndHandle,
                InHandle, execVars, seen
  <2>2. QED
    BY <2>1, StutterMaps
<1>2. CASE stage = "main" /\ ExecOf(ExecSystem)
  BY <1>2, SystemMaps DEF ExecOf, updVars, Manager!Next
<1>3. CASE sys_new_handler \/ sys_get_handler \/ sys_apply_handler \/ phq_update
  <2>1. UNCHANGED <<seen, cmds, run, held, cnt, asked, trq, rrq, procs, told, balance>>
    BY <1>3 DEF sys_new_handler, sys_get_handler, sys_apply_handler, phq_update,
                InMain, Turn, seen, ExecSystems
  <2>2. QED
    BY <2>1, StutterMaps
<1>4. CASE sys_terminate_handler
  <2> DEFINE S == {task[s].pid : s \in Waiting}
  <2>1. S \in SUBSET Pids
    BY TaskFields DEF Waiting, InState
  <2>2. /\ UNCHANGED <<seen, cmds, run, held, cnt, asked, rrq, procs, told, balance>>
        /\ trq' = Send(trq, S)
    BY <1>4 DEF sys_terminate_handler, InMain, Turn, seen, ExecSystems
  <2>3. Manager!RequestTerminate(S)
    BY <2>2 DEF Manager!RequestTerminate, Send, Manager!Send, seen
  <2>4. QED
    BY <2>1, <2>3 DEF Manager!Next, Manager!Environment
<1>5. CASE EndUpdMain
  <2>1. Manager!EndMain
    BY <1>5 DEF EndUpdMain, ApplyCommands, Manager!EndMain, Manager!ApplyCommands,
                NoCmds, Manager!NoCmds, MainSystems, ExecSystems, Manager!ExecSystems
  <2>2. QED
    BY <2>1 DEF Manager!Next
<1>6. CASE sys_hash_saver \/ (\E s \in Slots : apply_one(s) \/ DownloadEnds(s))
  <2>1. UNCHANGED <<seen, cmds, run, held, cnt, asked, trq, rrq, procs, told, balance>>
    BY <1>6 DEF sys_hash_saver, apply_one, DownloadEnds, execVars, seen
  <2>2. QED
    BY <2>1, StutterMaps
<1>7. CASE ExecOf(\E p \in Programs : Exit(p) \/ PeriodOver(p))
  <2>1. \E p \in Programs : Manager!Exit(p) \/ Manager!PeriodOver(p)
    BY <1>7 DEF ExecOf, updVars, Exit, Manager!Exit, PeriodOver, Manager!PeriodOver
  <2>2. QED
    BY <2>1 DEF Manager!Next, Manager!Environment
<1>8. CASE ExecOf(\E p \in Pids : RequestRun(p))
  <2>1. \E p \in Pids : Manager!RequestRun(p)
    BY <1>8 DEF ExecOf, updVars, RequestRun, Manager!RequestRun, UnreadInOrder,
                Manager!UnreadInOrder, SendLast, Manager!SendLast
  <2>2. QED
    BY <2>1 DEF Manager!Next, Manager!Environment
<1>9. QED
  BY <1>1, <1>2, <1>3, <1>4, <1>5, <1>6, <1>7, <1>8
  DEF UpdNext, MainLoop, UpdSystem, Elsewhere

(* In the company of the updater the manager behaves as Execm specifies: its
   properties, proved in ExecmProofs for any sender of requests, hold here. *)
THEOREM UpdaterImplementsExecm == UpdSafety => ImplementsExecm
<1>1. UpdInit => Manager!Init
  BY DEF UpdInit, Init, Manager!Init, NoCmds, Manager!NoCmds, NoEvents, Manager!NoEvents,
         NoOrdered, Manager!NoOrdered
<1>2. UpdInv /\ [UpdNext]_vars => [Manager!Next]_(Manager!execVars)
  <2> SUFFICES ASSUME UpdInv, [UpdNext]_vars
               PROVE  [Manager!Next]_(Manager!execVars)
    OBVIOUS
  <2>1. CASE UpdNext
    BY <2>1, StepMaps DEF UpdInv, ExecInv
  <2>2. CASE UNCHANGED vars
    BY <2>2, StutterMaps DEF vars, execVars, updVars, seen
  <2>3. QED
    BY <2>1, <2>2
<1>3. QED
  BY <1>1, <1>2, AlwaysUpdInv, PTL DEF UpdSafety, ImplementsExecm, Manager!ExecSpec
=============================================================================
