------------------------ MODULE ProgramUpdaterProofs ------------------------
(***************************************************************************)
(* Proofs about ProgramUpdater, for any programs, any offers of the        *)
(* server, any number of updates and any order of the systems in a stage.  *)
(* They use UpdSafety: no fairness is assumed.                             *)
(***************************************************************************)
EXTENDS ProgramUpdater, ExecmProofs

-----------------------------------------------------------------------------
(* What the commands of the Main stage may do to an update, and when. *)
NextOK ==
    \A s \in Slots :
        /\ nxt[s] # "same" => stage = "main" /\ task[s] # NoTask
        /\ nxt[s] = "get" => task[s].st = "new"
        /\ nxt[s] = "terminate" => \/ task[s].st = "new" /\ task[s].utype = "noasset"
                                  \/ task[s].st = "got"
        /\ nxt[s] = "apply" => task[s].st = "terminate" /\ task[s].pid \notin run
        /\ nxt[s] = "gone" => task[s].st \in {"failed", "apply"}

ApplyDone == stage = "main" /\ "sys_apply_handler" \in ran => ToApply = {}

-----------------------------------------------------------------------------
(* Requests to terminate.  In a stage in which p is waited for, the terminate
   handler sends one request, the adder reads all there are, the queue is
   updated once and the cleaner counts one, in any order. *)
Did(s) == IF s \in ran THEN 1 ELSE 0
InOld(p) == p \in trq.old
InNew(p) == p \in trq.new

(* How many readings in a row may still find no request for p, as long as p is
   waited for, the one of this stage included if it is still to come. *)
Pending(p) == IF InNew(p) THEN 0 ELSE IF InOld(p) THEN 1 ELSE 2

Misses(p) ==
    IF "terminate_adder" \in ran
    THEN IF "sys_terminate_handler" \in ran
         THEN IF "trq_update" \in ran THEN Pending(p)
              ELSE IF InNew(p) THEN 1 ELSE 2
         ELSE IF "trq_update" \in ran THEN 0 ELSE 1
    ELSE IF "sys_terminate_handler" \in ran THEN 0
         ELSE IF "trq_update" \in ran
              THEN IF InOld(p) \/ InNew(p) THEN 0 ELSE 1
              ELSE Pending(p)

Age(p) == waited[p] + Did("terminate_adder")

(* The Terminate component of p is renewed in time; or it is an old one, which
   may expire at the moment of its renewal; or there is none, and the wait is
   too short for one to be certain. *)
Renewed(p) ==
    /\ p \in held /\ p \notin cmds.free
    /\ cnt[p] - Did("terminate_cleaner") + Did("terminate_adder") <= 3 - Misses(p)
Old(p) == p \in held /\ p \notin cmds.free /\ Age(p) <= 2 - Misses(p)
Expiring(p) ==
    /\ p \in cmds.free
    /\ Age(p) <= (IF "terminate_adder" \in ran THEN 5 ELSE 2) - Misses(p)
Absent(p) == p \notin held /\ p \notin cmds.hold /\ Age(p) <= 5 - Misses(p)
Coming(p) == p \in cmds.hold /\ waited[p] <= 5

WaitOK(p) == Renewed(p) \/ Old(p) \/ Expiring(p) \/ Absent(p) \/ Coming(p)

(* What the queue holds between the sending and the reading of one stage. *)
QueueOK(p) ==
    /\ "terminate_adder" \in ran /\ "sys_terminate_handler" \notin ran
          => ~InOld(p) /\ ~InNew(p)
    /\ "terminate_adder" \notin ran /\ "sys_terminate_handler" \in ran
          => InNew(p) \/ ("trq_update" \in ran /\ InOld(p))

WaitInv ==
    \A p \in Programs : stage # "main" \/ WaitedFor(p) => WaitOK(p) /\ QueueOK(p)

TerminateCmdsOK ==
    /\ cmds.hold \cap held = {} /\ cmds.free \subseteq held
    /\ cmds.hold # {} => "terminate_adder" \in ran
    /\ cmds.free # {} => "terminate_cleaner" \in ran

(* An update that reached the apply state after a long wait met a program with
   no Run component, and none has appeared since. *)
ApplyOK ==
    \A s \in InState("apply") :
        task[s].pid \in Programs /\ waited[task[s].pid] >= SafeAfter
            => task[s].pid \notin run

(* The hashes are as saved, or the event that asks for the save is there. *)
SaveInv ==
    saved # hash =>
        /\ stage \in {"main", "save"}
        /\ IF stage = "main" /\ "phq_update" \notin ran
           THEN "changed" \in phq.new
           ELSE Unread(phq) # {}

-----------------------------------------------------------------------------
(* Type correctness. *)
CoreType == /\ stage \in {"poll", "handle", "main", "save"}
            /\ ran \subseteq StageSystems
            /\ task \in [Slots -> Task \cup {NoTask}]
            /\ nxt \in [Slots -> {"same", "get", "terminate", "apply", "gone"}]
            /\ waited \in [Programs -> 0..WaitMax]

FilesType == /\ puq \in Queue({"available"}) /\ phq \in Queue({"changed"})
             /\ changed \in BOOLEAN
             /\ temp \in [Files -> Versions \cup {0}]
             /\ disk \in [Files -> Versions \cup {0, Broken}]
             /\ hash \in [Files -> Versions \cup {0}]
             /\ saved \in [Files -> Versions \cup {0}]

LEMMA TypeParts == UpdTypeOK <=> ExecStateOK /\ CoreType /\ FilesType
  BY DEF UpdTypeOK, CoreType, FilesType

LEMMA UpdInitType == UpdInit => UpdTypeOK
<1> SUFFICES ASSUME UpdInit
             PROVE  UpdTypeOK
  OBVIOUS
<1>1. ExecStateOK
  BY InitType DEF UpdInit, TypeOK
<1>2. CoreType
  BY UpdaterAssumption DEF UpdInit, Init, CoreType
<1>3. FilesType
  BY DEF UpdInit, FilesType, NoEvents, Queue
<1>4. QED
  BY <1>1, <1>2, <1>3, TypeParts

(* The entity of a task, by its fields. *)
LEMMA TaskFields ==
    ASSUME CoreType, NEW s \in Slots, task[s] # NoTask
    PROVE  /\ task[s] \in Task
           /\ task[s].pid \in Pids /\ task[s].utype \in UpdateTypes
           /\ task[s].st \in States /\ task[s].ver \in Versions \cup {0}
           /\ \A st \in States : [task[s] EXCEPT !.st = st] \in Task
           /\ \A st \in States, v \in Versions :
                [task[s] EXCEPT !.st = st, !.ver = v] \in Task
  BY DEF CoreType, Task

(* A download that ends changes its own entity, and nothing of it but its
   state and version. *)
LEMMA DownloadEffect ==
    ASSUME CoreType, NEW s \in Slots, DownloadEnds(s)
    PROVE  /\ task[s] # NoTask /\ task[s].st = "get" /\ task'[s] \in Task
           /\ task' = [task EXCEPT ![s] = task'[s]]
           /\ task'[s].pid = task[s].pid /\ task'[s].utype = task[s].utype
           /\ task'[s].st \in {"got", "failed"}
<1>1. task[s] # NoTask /\ task[s].st = "get"
  BY DEF DownloadEnds, InState
<1>2. task[s] \in Task
  BY <1>1, TaskFields
<1>3. \E t \in Task : /\ task' = [task EXCEPT ![s] = t]
                      /\ t.pid = task[s].pid /\ t.utype = task[s].utype
                      /\ t.st \in {"got", "failed"}
  <2>1. CASE task' = [task EXCEPT ![s].st = "failed"]
    <3> DEFINE t == [task[s] EXCEPT !.st = "failed"]
    <3>1. t \in Task /\ t.pid = task[s].pid /\ t.utype = task[s].utype /\ t.st = "failed"
      BY <1>2 DEF Task, States
    <3>2. QED
      BY <2>1, <3>1
  <2>2. CASE task' = [task EXCEPT ![s].st = "got"]
    <3> DEFINE t == [task[s] EXCEPT !.st = "got"]
    <3>1. t \in Task /\ t.pid = task[s].pid /\ t.utype = task[s].utype /\ t.st = "got"
      BY <1>2 DEF Task, States
    <3>2. QED
      BY <2>2, <3>1
  <2>3. ASSUME NEW v \in Versions, task' = [task EXCEPT ![s] = [@ EXCEPT !.st = "got", !.ver = v]]
        PROVE  \E t \in Task : /\ task' = [task EXCEPT ![s] = t]
                              /\ t.pid = task[s].pid /\ t.utype = task[s].utype
                              /\ t.st \in {"got", "failed"}
    <3> DEFINE t == [task[s] EXCEPT !.st = "got", !.ver = v]
    <3>1. t \in Task /\ t.pid = task[s].pid /\ t.utype = task[s].utype /\ t.st = "got"
      BY <1>2 DEF Task, States
    <3>2. QED
      BY <2>3, <3>1
  <2>4. QED
    BY <2>1, <2>2, <2>3 DEF DownloadEnds
<1>4. QED
  BY <1>1, <1>3 DEF CoreType

(* What a system of the Main stage turns to does not change other components. *)
LEMMA ExecStepRan ==
    ASSUME ExecSystem
    PROVE  \E s \in ExecSystems : ran' = ran \cup {s}
  BY DEF ExecSystem, Turn, ExecSystems, terminate_adder, terminate_cleaner,
         terminator, run_checker, runner, RunnerFrom, trq_update, rrq_update

LEMMA CoreTypeStep ==
    ASSUME CoreType, NextOK, UpdNext
    PROVE  CoreType'
<1> USE UpdaterAssumption DEF StageSystems
<1>1. CASE sys_poll
  BY <1>1 DEF sys_poll, execVars, CoreType
<1>2. CASE puq_update \/ sys_config_updater
  BY <1>2 DEF puq_update, sys_config_updater, InHandle, Turn, CoreType, HandleSystems
<1>3. CASE sys_update_checker
  <2>1. task' \in [Slots -> Task \cup {NoTask}]
    <3>1. CASE UNCHANGED task
      BY <3>1 DEF CoreType
    <3>2. ASSUME NEW o \in Offers, NEW s \in Slots,
                 task' = [task EXCEPT ![s] =
                            [pid |-> o[1], utype |-> o[2], st |-> "new", ver |-> 0]]
          PROVE  task' \in [Slots -> Task \cup {NoTask}]
      BY <3>2 DEF CoreType, Task, States
    <3>3. QED
      BY <1>3, <3>1, <3>2 DEF sys_update_checker
  <2>2. QED
    BY <1>3, <2>1 DEF sys_update_checker, InHandle, Turn, CoreType, HandleSystems
<1>4. CASE EndHandle
  BY <1>4 DEF EndHandle, CoreType
<1>5. CASE stage = "main" /\ ExecOf(ExecSystem)
  BY <1>5, ExecStepRan DEF ExecOf, updVars, CoreType, MainSystems
<1>6. CASE UpdSystem
  <2>1. CASE sys_new_handler \/ sys_get_handler \/ sys_terminate_handler
    BY <1>6, <2>1 DEF sys_new_handler, sys_get_handler, sys_terminate_handler,
                      InMain, Turn, Move, CoreType, MainSystems, UpdSystems
  <2>2. CASE sys_apply_handler \/ phq_update
    BY <2>2 DEF sys_apply_handler, phq_update, InMain, Turn, CoreType,
                MainSystems, UpdSystems
  <2>3. CASE \E s \in Slots : apply_one(s)
    BY <2>3 DEF apply_one, execVars, CoreType
  <2>4. QED
    BY <1>6, <2>1, <2>2, <2>3 DEF UpdSystem
<1>7. CASE EndUpdMain
  <2>1. task' \in [Slots -> Task \cup {NoTask}]
    <3>1. ASSUME NEW s \in Slots, nxt[s] \notin {"same", "gone"}, task[s] # NoTask
          PROVE  [task[s] EXCEPT !.st = nxt[s]] \in Task
      BY <3>1, TaskFields DEF CoreType, States
    <3>2. ASSUME NEW s \in Slots, nxt[s] \notin {"same", "gone"}, task[s] = NoTask
          PROVE  FALSE
      BY <3>2 DEF NextOK
    <3>3. QED
      BY <1>7, <3>1, <3>2 DEF EndUpdMain, CoreType
  <2>2. waited' \in [Programs -> 0..WaitMax]
    BY <1>7 DEF EndUpdMain, CoreType
  <2>3. QED
    BY <1>7, <2>1, <2>2 DEF EndUpdMain, ApplyCommands, CoreType
<1>8. CASE sys_hash_saver
  BY <1>8 DEF sys_hash_saver, execVars, CoreType
<1>9. CASE \E s \in Slots : DownloadEnds(s)
  <2>1. PICK s \in Slots : DownloadEnds(s)
    BY <1>9
  <2>2. task' = [task EXCEPT ![s] = task'[s]] /\ task'[s] \in Task
    BY <2>1, DownloadEffect
  <2>3. task' \in [Slots -> Task \cup {NoTask}]
    BY <2>2 DEF CoreType
  <2>4. UNCHANGED <<stage, ran, nxt, waited>>
    BY <2>1 DEF DownloadEnds, execVars
  <2>5. QED
    BY <2>3, <2>4 DEF CoreType
<1>10. CASE ExecOf(\E p \in Programs : Exit(p) \/ PeriodOver(p))
  BY <1>10 DEF ExecOf, Exit, PeriodOver, updVars, CoreType
<1>11. CASE stage = "main" /\ ExecOf(\E p \in Pids : RequestRun(p))
  BY <1>11 DEF ExecOf, RequestRun, updVars, CoreType
<1>12. QED
  BY <1>1, <1>2, <1>3, <1>4, <1>5, <1>6, <1>7, <1>8, <1>9, <1>10, <1>11
  DEF UpdNext, MainLoop, Elsewhere

-----------------------------------------------------------------------------
(* The executable manager keeps its invariant in the company of the updater. *)
LEMMA ExecInvKept ==
    ASSUME ExecInv, ran \subseteq ran', UNCHANGED <<cmds, run, held, procs, balance>>,
           ExecStateOK'
    PROVE  ExecInv'
  BY DEF ExecInv, CommandsOK, ProcessesOK, Known

LEMMA ExecInvStep ==
    ASSUME ExecInv, CoreType, UpdNext
    PROVE  ExecInv'
<1> USE DEF ExecInv
<1>1. CASE sys_poll \/ sys_hash_saver \/ (\E s \in Slots : apply_one(s) \/ DownloadEnds(s))
  BY <1>1 DEF sys_poll, sys_hash_saver, apply_one, DownloadEnds, execVars,
              ExecStateOK, CommandsOK, ProcessesOK, Known
<1>2. CASE puq_update \/ sys_config_updater \/ sys_update_checker
  <2>1. ran \subseteq ran' /\
        UNCHANGED <<cmds, run, held, cnt, asked, trq, rrq, procs, told, balance>>
    BY <1>2 DEF puq_update, sys_config_updater, sys_update_checker, InHandle, Turn
  <2>2. QED
    BY <2>1, ExecInvKept DEF ExecStateOK
<1>3. CASE EndHandle
  <2>1. "runner" \notin ran /\ "run_checker" \notin ran
    BY <1>3 DEF EndHandle, HandleSystems
  <2>2. cmds.start = {} /\ cmds.stop = {}
    BY <2>1 DEF CommandsOK
  <2>3. QED
    BY <1>3, <2>2 DEF EndHandle, ExecStateOK, CommandsOK, ProcessesOK, Known
<1>4. CASE ExecOf(ExecSystem)
  BY <1>4, SystemInv DEF ExecOf
<1>5. CASE sys_new_handler \/ sys_get_handler \/ sys_apply_handler \/ phq_update
  <2>1. ran \subseteq ran' /\
        UNCHANGED <<cmds, run, held, cnt, asked, trq, rrq, procs, told, balance>>
    BY <1>5 DEF sys_new_handler, sys_get_handler, sys_apply_handler, phq_update,
                InMain, Turn
  <2>2. QED
    BY <2>1, ExecInvKept DEF ExecStateOK
<1>6. CASE sys_terminate_handler
  <2>1. ran \subseteq ran' /\
        UNCHANGED <<cmds, run, held, cnt, asked, rrq, procs, told, balance>>
    BY <1>6 DEF sys_terminate_handler, InMain, Turn
  <2>2. {task[s].pid : s \in Waiting} \subseteq Pids
    BY TaskFields DEF Waiting, InState
  <2>3. trq' \in Queue(Pids)
    BY <1>6, <2>2, QueueType DEF sys_terminate_handler, ExecStateOK
  <2>4. QED
    BY <2>1, <2>3, ExecInvKept DEF ExecStateOK
<1>7. CASE EndUpdMain
  BY <1>7, CommandsInv DEF EndUpdMain
<1>8. CASE ExecOf(\E p \in Programs : Exit(p) \/ PeriodOver(p))
  BY <1>8, EnvironmentInv DEF ExecOf, Environment
<1>9. CASE ExecOf(\E p \in Pids : RequestRun(p))
  BY <1>9, EnvironmentInv DEF ExecOf, Environment
<1>10. QED
  BY <1>1, <1>2, <1>3, <1>4, <1>5, <1>6, <1>7, <1>8, <1>9
  DEF UpdNext, MainLoop, UpdSystem, Elsewhere

-----------------------------------------------------------------------------
(* The states of an update: what each system may command. *)
LEMMA NextOKStep ==
    ASSUME ExecInv, CoreType, NextOK, ApplyDone, UpdNext
    PROVE  NextOK' /\ ApplyDone'
<1> USE DEF NextOK, ApplyDone
<1>1. CASE sys_poll \/ sys_hash_saver
  BY <1>1 DEF sys_poll, sys_hash_saver, execVars
<1>2. CASE puq_update \/ sys_config_updater \/ sys_update_checker
  <2>1. stage = "handle" /\ stage' = "handle" /\ nxt' = nxt
    BY <1>2 DEF puq_update, sys_config_updater, sys_update_checker, InHandle
  <2>2. QED
    BY <2>1
<1>3. CASE EndHandle
  BY <1>3 DEF EndHandle
<1>4. CASE stage = "main" /\ ExecOf(ExecSystem)
  <2>1. UNCHANGED <<stage, task, nxt, run>>
    BY <1>4 DEF ExecOf, updVars, ExecSystem, terminate_adder, terminate_cleaner,
                terminator, run_checker, runner, RunnerFrom, trq_update, rrq_update
  <2>2. "sys_apply_handler" \in ran' => "sys_apply_handler" \in ran
    BY <1>4, ExecStepRan DEF ExecOf, ExecSystems
  <2>3. QED
    BY <2>1, <2>2 DEF ToApply, InState
<1>5. CASE sys_new_handler
  BY <1>5 DEF sys_new_handler, NeedsNoData, InMain, Turn, InState, ToApply, CoreType
<1>6. CASE sys_get_handler
  BY <1>6 DEF sys_get_handler, InMain, Turn, InState, ToApply, CoreType
<1>7. CASE sys_terminate_handler
  BY <1>7 DEF sys_terminate_handler, InMain, Turn, Move, InState, ToApply, CoreType
<1>8. CASE sys_apply_handler \/ phq_update
  BY <1>8 DEF sys_apply_handler, phq_update, InMain, Turn, InState, ToApply
<1>9. CASE \E s \in Slots : apply_one(s)
  BY <1>9 DEF apply_one, execVars, InState, ToApply, CoreType
<1>10. CASE EndUpdMain
  BY <1>10 DEF EndUpdMain, ApplyCommands
<1>11. CASE \E s \in Slots : DownloadEnds(s)
  <2>1. PICK s \in Slots : DownloadEnds(s)
    BY <1>11
  <2>2. task[s] # NoTask /\ task[s].st = "get"
    BY <2>1, DownloadEffect
  <2>3. nxt[s] = "same"
    BY <2>2 DEF CoreType
  <2>4. \A t \in Slots \ {s} : task'[t] = task[t]
    BY <2>1, DownloadEffect DEF CoreType
  <2>5. task'[s].st \in {"got", "failed"}
    BY <2>1, DownloadEffect
  <2>6. UNCHANGED <<stage, nxt, run, ran>>
    BY <2>1 DEF DownloadEnds, execVars
  <2>7. QED
    BY <2>3, <2>4, <2>5, <2>6 DEF ToApply, InState
<1>12. CASE ExecOf(\E p \in Programs : Exit(p) \/ PeriodOver(p))
  BY <1>12 DEF ExecOf, Exit, PeriodOver, updVars, ToApply, InState
<1>13. CASE ExecOf(\E p \in Pids : RequestRun(p))
  BY <1>13 DEF ExecOf, RequestRun, updVars, ToApply, InState
<1>14. QED
  BY <1>1, <1>2, <1>3, <1>4, <1>5, <1>6, <1>7, <1>8, <1>9, <1>10, <1>11, <1>12, <1>13
  DEF UpdNext, MainLoop, UpdSystem, Elsewhere

-----------------------------------------------------------------------------
(* Files, hashes and queues of the updater keep their types. *)
LEMMA InstallType ==
    ASSUME FilesType, NEW f \in Files, NEW c \in Versions \cup {0},
           NEW v \in Versions \cup {0}, Install(f, c, v)
    PROVE  /\ disk' \in [Files -> Versions \cup {0, Broken}]
           /\ hash' \in [Files -> Versions \cup {0}]
           /\ phq' \in Queue({"changed"})
<1>1. CASE disk' = FilesAt(f, c) /\ Record(f, v)
  <2>1. phq' \in Queue({"changed"})
    BY <1>1, QueueType DEF Record, FilesType
  <2>2. QED
    BY <1>1, <2>1 DEF FilesAt, Record, FilesType
<1>2. CASE /\ MayBreak(IF f[2] = "build" THEN {f, <<f[1], "asset">>} ELSE {f})
           /\ UNCHANGED <<hash, phq>>
  BY <1>2 DEF MayBreak, FilesType
<1>3. QED
  BY <1>1, <1>2 DEF Install

LEMMA FilesTypeStep ==
    ASSUME FilesType, CoreType, UpdNext
    PROVE  FilesType'
<1> USE DEF FilesType
<1>1. CASE sys_poll
  <2>1. Send(puq, {"available"}) \in Queue({"available"})
    BY QueueType
  <2>2. QED
    BY <1>1, <2>1 DEF sys_poll
<1>2. CASE puq_update
  <2>1. puq' \in Queue({"available"})
    BY <1>2 DEF puq_update, Queue, Swap
  <2>2. QED
    BY <1>2, <2>1 DEF puq_update, InHandle
<1>3. CASE sys_config_updater \/ sys_update_checker
  BY <1>3 DEF sys_config_updater, sys_update_checker, InHandle
<1>4. CASE EndHandle \/ EndUpdMain
  BY <1>4 DEF EndHandle, EndUpdMain
<1>5. CASE ExecOf(ExecSystem) \/ ExecOf(\E p \in Programs : Exit(p) \/ PeriodOver(p))
           \/ ExecOf(\E p \in Pids : RequestRun(p))
  BY <1>5 DEF ExecOf, updVars
<1>6. CASE sys_new_handler \/ sys_get_handler \/ sys_terminate_handler \/ sys_apply_handler
  BY <1>6 DEF sys_new_handler, sys_get_handler, sys_terminate_handler,
              sys_apply_handler, InMain
<1>7. CASE phq_update
  <2>1. phq' \in Queue({"changed"})
    BY <1>7 DEF phq_update, Queue, Swap
  <2>2. QED
    BY <1>7, <2>1 DEF phq_update, InMain
<1>8. ASSUME NEW s \in Slots, apply_one(s)
      PROVE  FilesType'
  <2> DEFINE p == task[s].pid
             build == <<p, "build">>
             asset == <<p, "asset">>
  <2>1. task[s] # NoTask /\ p \in Pids /\ task[s].ver \in Versions \cup {0}
    BY <1>8, TaskFields DEF apply_one, ToApply, InState
  <2>2. build \in Files /\ asset \in Files
    BY <2>1 DEF Files
  <2>3. temp[build] \in Versions \cup {0} /\ temp[asset] \in Versions \cup {0}
    BY <2>2
  <2>4. \/ UNCHANGED <<disk, hash, phq>>
        \/ Install(build, temp[build], task[s].ver)
        \/ Install(asset, temp[asset], task[s].ver)
        \/ Install(asset, 0, 0)
    BY <1>8 DEF apply_one
  <2>5. /\ disk' \in [Files -> Versions \cup {0, Broken}]
        /\ hash' \in [Files -> Versions \cup {0}]
        /\ phq' \in Queue({"changed"})
    BY <2>1, <2>2, <2>3, <2>4, InstallType
  <2>6. QED
    BY <1>8, <2>5 DEF apply_one
<1>9. CASE sys_hash_saver
  BY <1>9 DEF sys_hash_saver
<1>10. CASE \E s \in Slots : DownloadEnds(s)
  <2>1. temp' \in [Files -> Versions \cup {0}]
    BY <1>10 DEF DownloadEnds
  <2>2. QED
    BY <1>10, <2>1 DEF DownloadEnds
<1>11. QED
  BY <1>1, <1>2, <1>3, <1>4, <1>5, <1>6, <1>7, <1>8, <1>9, <1>10
  DEF UpdNext, MainLoop, UpdSystem, Elsewhere

-----------------------------------------------------------------------------
(* Which updates exist: how a step changes the program and type of an entity. *)
SameUpdate(s) == /\ task'[s] # NoTask => task[s] # NoTask
                 /\ task'[s] # NoTask => /\ task'[s].pid = task[s].pid
                                         /\ task'[s].utype = task[s].utype

LEMMA TaskStep ==
    ASSUME CoreType, NextOK, UpdNext
    PROVE  \/ \A s \in Slots : SameUpdate(s)
           \/ \E o \in Offers, s \in Slots :
                 /\ sys_update_checker
                 /\ ~Exists(o[1], o[2])
                 /\ task'[s] = [pid |-> o[1], utype |-> o[2], st |-> "new", ver |-> 0]
                 /\ \A t \in Slots \ {s} : task'[t] = task[t]
<1>1. CASE UNCHANGED task
  BY <1>1 DEF SameUpdate
<1>2. CASE sys_update_checker /\ task' # task
  BY <1>2 DEF sys_update_checker, CoreType
<1>3. CASE EndUpdMain
  <2>1. ASSUME NEW s \in Slots, nxt[s] \notin {"same", "gone"}
        PROVE  /\ task[s] # NoTask
               /\ [task[s] EXCEPT !.st = nxt[s]].pid = task[s].pid
               /\ [task[s] EXCEPT !.st = nxt[s]].utype = task[s].utype
    <3>1. task[s] # NoTask
      BY <2>1 DEF NextOK
    <3>2. task[s] \in Task
      BY <3>1, TaskFields
    <3>3. QED
      BY <3>1, <3>2 DEF Task
  <2>2. ASSUME NEW s \in Slots
        PROVE  SameUpdate(s)
    BY <1>3, <2>1 DEF EndUpdMain, SameUpdate, CoreType
  <2>3. QED
    BY <2>2
<1>4. CASE \E s \in Slots : DownloadEnds(s)
  <2>1. PICK s \in Slots : DownloadEnds(s)
    BY <1>4
  <2>2. \A t \in Slots : SameUpdate(t)
    BY <2>1, DownloadEffect DEF SameUpdate, CoreType
  <2>3. QED
    BY <2>2
<1>5. QED
  BY <1>1, <1>2, <1>3, <1>4
  DEF UpdNext, MainLoop, UpdSystem, Elsewhere, sys_poll, puq_update, sys_config_updater,
      InHandle, EndHandle, ExecOf, updVars, sys_new_handler, sys_get_handler,
      sys_terminate_handler, apply_one, sys_apply_handler, phq_update, InMain,
      sys_hash_saver

LEMMA NoDuplicateStep ==
    ASSUME CoreType, NextOK, NoDuplicateTask, UpdNext
    PROVE  NoDuplicateTask'
<1> SUFFICES ASSUME NEW s \in Slots, NEW t \in Slots, s # t,
                    task'[s] # NoTask, task'[t] # NoTask
             PROVE  <<task'[s].pid, task'[s].utype>> # <<task'[t].pid, task'[t].utype>>
  BY DEF NoDuplicateTask
<1>1. CASE \A u \in Slots : SameUpdate(u)
  BY <1>1 DEF SameUpdate, NoDuplicateTask
<1>2. ASSUME NEW o \in Offers, NEW u \in Slots, ~Exists(o[1], o[2]),
             task'[u] = [pid |-> o[1], utype |-> o[2], st |-> "new", ver |-> 0],
             \A x \in Slots \ {u} : task'[x] = task[x]
      PROVE  <<task'[s].pid, task'[s].utype>> # <<task'[t].pid, task'[t].utype>>
  <2>1. CASE s # u /\ t # u
    BY <1>2, <2>1 DEF NoDuplicateTask
  <2>2. CASE s = u
    BY <1>2, <2>2 DEF Exists
  <2>3. CASE t = u
    BY <1>2, <2>3 DEF Exists
  <2>4. QED
    BY <2>1, <2>2, <2>3
<1>3. QED
  BY <1>1, <1>2, TaskStep

-----------------------------------------------------------------------------
(* Downloads and what is recorded of them. *)
LEMMA DownloadWrites ==
    ASSUME CoreType, FilesType, NEW s \in Slots, DownloadEnds(s)
    PROVE  /\ task[s].utype \notin {"build", "asset"} => UNCHANGED temp
           /\ task[s].utype \in {"build", "asset"} =>
                /\ \A f \in Files \ {Archive(s)} : temp'[f] = temp[f]
                /\ task'[s].st = "got" => temp'[Archive(s)] = task'[s].ver
<1>1. task[s] # NoTask /\ task[s] \in Task /\ task[s].pid \in Pids
  BY TaskFields DEF DownloadEnds, InState
<1>2. task[s].utype \notin {"build", "asset"} => UNCHANGED temp
  BY DEF DownloadEnds
<1>3. ASSUME task[s].utype \in {"build", "asset"}
      PROVE  /\ \A f \in Files \ {Archive(s)} : temp'[f] = temp[f]
             /\ task'[s].st = "got" => temp'[Archive(s)] = task'[s].ver
  <2>1. Archive(s) \in Files
    BY <1>1, <1>3 DEF Archive, Files
  <2>2. \A f \in Files \ {Archive(s)} : temp'[f] = temp[f]
    BY <2>1 DEF DownloadEnds, FilesType
  <2>3. ASSUME task' = [task EXCEPT ![s].st = "failed"]
        PROVE  task'[s].st = "failed"
    <3>1. task'[s] = [task[s] EXCEPT !.st = "failed"]
      BY <2>3 DEF CoreType
    <3>2. QED
      BY <3>1, <1>1 DEF Task
  <2>4. ASSUME NEW v \in Versions,
               task' = [task EXCEPT ![s] = [@ EXCEPT !.st = "got", !.ver = v]],
               temp' = [temp EXCEPT ![Archive(s)] = v]
        PROVE  temp'[Archive(s)] = task'[s].ver
    <3>1. task'[s] = [task[s] EXCEPT !.st = "got", !.ver = v]
      BY <2>4 DEF CoreType
    <3>2. task'[s].ver = v
      BY <3>1, <1>1 DEF Task
    <3>3. QED
      BY <2>1, <2>4, <3>2 DEF FilesType
  <2>5. QED
    BY <1>3, <2>2, <2>3, <2>4 DEF DownloadEnds
<1>4. QED
  BY <1>2, <1>3

LEMMA OwnDownloadStep ==
    ASSUME CoreType, FilesType, NextOK, NoDuplicateTask, OwnDownload, UpdNext
    PROVE  OwnDownload'
<1> SUFFICES ASSUME NEW s \in Slots, task'[s] # NoTask,
                    task'[s].st \in {"got", "terminate", "apply"},
                    task'[s].utype \in {"build", "asset"}
             PROVE  temp'[Archive(s)'] = task'[s].ver
  BY DEF OwnDownload, InState, Waiting
<1>1. ASSUME task[s] # NoTask, task[s].st \in {"got", "terminate", "apply"},
             task'[s].pid = task[s].pid, task'[s].utype = task[s].utype,
             task'[s].ver = task[s].ver, temp'[Archive(s)] = temp[Archive(s)]
      PROVE  temp'[Archive(s)'] = task'[s].ver
  BY <1>1 DEF OwnDownload, InState, Waiting, Archive
<1>2. CASE UNCHANGED <<task, temp>>
  BY <1>1, <1>2
<1>3. CASE sys_update_checker /\ task' # task
  <2>1. task'[s] = task[s]
    BY <1>3 DEF sys_update_checker, CoreType
  <2>2. temp' = temp
    BY <1>3 DEF sys_update_checker, InHandle
  <2>3. QED
    BY <1>1, <2>1, <2>2
<1>4. CASE EndUpdMain
  <2>1. nxt[s] # "gone"
    BY <1>4 DEF EndUpdMain
  <2>2. CASE nxt[s] = "same"
    BY <1>1, <1>4, <2>2 DEF EndUpdMain
  <2>3. CASE nxt[s] # "same"
    <3>1. task[s] # NoTask /\ task[s] \in Task
      BY <2>3, TaskFields DEF NextOK
    <3>2. task'[s] = [task[s] EXCEPT !.st = nxt[s]]
      BY <1>4, <2>1, <2>3 DEF EndUpdMain
    <3>3. /\ task'[s].pid = task[s].pid /\ task'[s].utype = task[s].utype
          /\ task'[s].ver = task[s].ver /\ task'[s].st = nxt[s]
      BY <3>1, <3>2 DEF Task
    <3>4. task[s].st \in {"got", "terminate", "apply"}
      BY <2>1, <2>3, <3>3 DEF NextOK, CoreType
    <3>5. temp' = temp
      BY <1>4 DEF EndUpdMain
    <3>6. QED
      BY <1>1, <3>1, <3>3, <3>4, <3>5
  <2>4. QED
    BY <2>2, <2>3
<1>5. ASSUME NEW u \in Slots, DownloadEnds(u)
      PROVE  temp'[Archive(s)'] = task'[s].ver
  <2>1. task[u] # NoTask
    BY <1>5, DownloadEffect
  <2>2. CASE s = u
    <3>1. /\ task'[s].pid = task[s].pid /\ task'[s].utype = task[s].utype
          /\ task'[s].st = "got"
      BY <1>5, <2>2, DownloadEffect
    <3>2. QED
      BY <1>5, <2>2, <3>1, DownloadWrites DEF Archive
  <2>3. CASE s # u
    <3>1. task'[s] = task[s]
      BY <1>5, <2>3, DownloadEffect DEF CoreType
    <3>2. <<task[s].pid, task[s].utype>> # <<task[u].pid, task[u].utype>>
      BY <2>1, <2>3, <3>1 DEF NoDuplicateTask
    <3>3. Archive(s) \in Files \ {Archive(u)}
      BY <3>1, <3>2, TaskFields DEF Files, Archive
    <3>4. temp'[Archive(s)] = temp[Archive(s)]
      BY <1>5, <3>3, DownloadWrites
    <3>5. QED
      BY <1>1, <3>1, <3>4
  <2>4. QED
    BY <2>2, <2>3
<1>6. QED
  BY <1>2, <1>3, <1>4, <1>5
  DEF UpdNext, MainLoop, UpdSystem, Elsewhere, sys_poll, puq_update, sys_config_updater,
      sys_update_checker, InHandle, EndHandle, ExecOf, updVars, sys_new_handler,
      sys_get_handler, sys_terminate_handler, apply_one, sys_apply_handler, phq_update,
      InMain, sys_hash_saver

LEMMA HashIsInstalledStep ==
    ASSUME CoreType, FilesType, OwnDownload, HashIsInstalled, UpdNext
    PROVE  HashIsInstalled'
<1>1. CASE UNCHANGED <<disk, hash>>
  BY <1>1 DEF HashIsInstalled
<1>2. ASSUME NEW f \in Files, NEW v \in Versions \cup {0}, Install(f, v, v)
      PROVE  HashIsInstalled'
  <2>1. CASE disk' = FilesAt(f, v) /\ Record(f, v)
    BY <1>2, <2>1 DEF FilesAt, Record, HashIsInstalled, FilesType
  <2>2. CASE /\ MayBreak(IF f[2] = "build" THEN {f, <<f[1], "asset">>} ELSE {f})
             /\ UNCHANGED <<hash, phq>>
    BY <2>2 DEF MayBreak, HashIsInstalled, FilesType
  <2>3. QED
    BY <1>2, <2>1, <2>2 DEF Install
<1>3. ASSUME NEW s \in Slots, apply_one(s)
      PROVE  HashIsInstalled'
  <2> DEFINE p == task[s].pid
             build == <<p, "build">>
             asset == <<p, "asset">>
  <2>1. /\ task[s] # NoTask /\ s \in Waiting
        /\ p \in Pids /\ task[s].ver \in Versions \cup {0}
    BY <1>3, TaskFields DEF apply_one, ToApply, InState, Waiting
  <2>2. build \in Files /\ asset \in Files
    BY <2>1 DEF Files
  <2>3. task[s].utype \in {"build", "asset"} => temp[Archive(s)] = task[s].ver
    BY <2>1 DEF OwnDownload
  <2>4. \/ UNCHANGED <<disk, hash>>
        \/ Install(build, task[s].ver, task[s].ver)
        \/ Install(asset, task[s].ver, task[s].ver)
        \/ Install(asset, 0, 0)
    BY <1>3, <2>3 DEF apply_one, Archive
  <2>5. QED
    BY <1>1, <1>2, <2>1, <2>2, <2>4
<1>4. QED
  BY <1>1, <1>3
  DEF UpdNext, MainLoop, UpdSystem, Elsewhere, sys_poll, puq_update, sys_config_updater,
      sys_update_checker, InHandle, EndHandle, ExecOf, updVars, sys_new_handler,
      sys_get_handler, sys_terminate_handler, sys_apply_handler, phq_update, InMain,
      EndUpdMain, sys_hash_saver, DownloadEnds

-----------------------------------------------------------------------------
(* The event that asks for the hashes to be saved is not lost. *)
LEMMA SaveInvStep ==
    ASSUME FilesType, CoreType, SaveInv, UpdNext
    PROVE  SaveInv'
<1> USE DEF SaveInv
<1>1. CASE sys_poll \/ puq_update \/ sys_config_updater \/ sys_update_checker
  BY <1>1 DEF sys_poll, puq_update, sys_config_updater, sys_update_checker, InHandle
<1>2. CASE EndHandle
  BY <1>2 DEF EndHandle
<1>3. CASE stage = "main" /\ ExecOf(ExecSystem)
  <2>1. "phq_update" \in ran <=> "phq_update" \in ran'
    BY <1>3, ExecStepRan DEF ExecOf, ExecSystems
  <2>2. UNCHANGED <<stage, phq, hash, saved>>
    BY <1>3 DEF ExecOf, updVars
  <2>3. QED
    BY <2>1, <2>2 DEF Unread
<1>4. CASE sys_new_handler \/ sys_get_handler \/ sys_terminate_handler \/ sys_apply_handler
  BY <1>4 DEF sys_new_handler, sys_get_handler, sys_terminate_handler,
              sys_apply_handler, InMain, Turn, Unread
<1>5. CASE phq_update
  BY <1>5 DEF phq_update, InMain, Turn, Unread, Swap, FilesType, Queue
<1>6. ASSUME NEW s \in Slots, apply_one(s)
      PROVE  SaveInv'
  <2>1. stage = "main" /\ UNCHANGED <<stage, ran, saved>>
    BY <1>6 DEF apply_one, execVars
  <2>2. \/ UNCHANGED <<hash, phq>>
        \/ phq' = Send(phq, {"changed"})
    BY <1>6 DEF apply_one, Install, Record
  <2>3. CASE UNCHANGED <<hash, phq>>
    BY <2>1, <2>3 DEF Unread
  <2>4. CASE phq' = Send(phq, {"changed"})
    <3>1. "changed" \in phq'.new
      BY <2>4 DEF Send, FilesType, Queue
    <3>2. QED
      BY <2>1, <3>1 DEF Unread
  <2>5. QED
    BY <2>2, <2>3, <2>4
<1>7. CASE EndUpdMain
  BY <1>7 DEF EndUpdMain, ApplyCommands, MainSystems, UpdSystems
<1>8. CASE sys_hash_saver
  BY <1>8 DEF sys_hash_saver
<1>9. CASE (\E s \in Slots : DownloadEnds(s))
            \/ ExecOf(\E p \in Programs : Exit(p) \/ PeriodOver(p))
            \/ ExecOf(\E p \in Pids : RequestRun(p))
  BY <1>9 DEF DownloadEnds, execVars, ExecOf, updVars, Exit, PeriodOver, RequestRun, Unread
<1>10. QED
  BY <1>1, <1>2, <1>3, <1>4, <1>5, <1>6, <1>7, <1>8, <1>9
  DEF UpdNext, MainLoop, UpdSystem, Elsewhere

-----------------------------------------------------------------------------
(* Commands on Terminate components come from the adder and the cleaner. *)
LEMMA TerminateCmdsStep ==
    ASSUME ExecStateOK, CoreType, TerminateCmdsOK, UpdNext
    PROVE  TerminateCmdsOK'
<1> USE DEF TerminateCmdsOK
<1>1. ASSUME UNCHANGED <<cmds, held>>, ran \subseteq ran'
      PROVE  TerminateCmdsOK'
  BY <1>1
<1>2. CASE sys_poll \/ sys_hash_saver
  BY <1>2 DEF sys_poll, sys_hash_saver, execVars
<1>3. CASE puq_update \/ sys_config_updater \/ sys_update_checker
  BY <1>1, <1>3 DEF puq_update, sys_config_updater, sys_update_checker, InHandle, Turn
<1>4. CASE EndHandle
  BY <1>4 DEF EndHandle, HandleSystems
<1>5. CASE ExecOf(ExecSystem)
  <2>1. CASE terminate_adder
    BY <2>1 DEF terminate_adder, Turn, ExecStateOK
  <2>2. CASE terminate_cleaner
    BY <2>2 DEF terminate_cleaner, Turn, ExecStateOK
  <2>3. CASE run_checker
    BY <2>3 DEF run_checker, Turn, ExecStateOK
  <2>4. CASE runner
    <3>1. /\ cmds' = cmds \/ \E p \in Programs : cmds' = [cmds EXCEPT !.start = @ \cup {p}]
          /\ UNCHANGED held /\ ran \subseteq ran'
      BY <2>4, ExecmAssumption DEF runner, RunnerFrom, Turn, Start, Ready
    <3>2. cmds'.hold = cmds.hold /\ cmds'.free = cmds.free
      BY <3>1 DEF ExecStateOK
    <3>3. QED
      BY <3>1, <3>2
  <2>5. CASE terminator \/ trq_update \/ rrq_update
    BY <1>1, <2>5 DEF terminator, trq_update, rrq_update, Turn
  <2>6. QED
    BY <1>5, <2>1, <2>2, <2>3, <2>4, <2>5 DEF ExecOf, ExecSystem
<1>6. CASE sys_new_handler \/ sys_get_handler \/ sys_terminate_handler
           \/ sys_apply_handler \/ phq_update
  BY <1>1, <1>6 DEF sys_new_handler, sys_get_handler, sys_terminate_handler,
                    sys_apply_handler, phq_update, InMain, Turn
<1>7. CASE EndUpdMain
  BY <1>7 DEF EndUpdMain, ApplyCommands, NoCmds
<1>8. CASE \E s \in Slots : apply_one(s) \/ DownloadEnds(s)
  BY <1>8 DEF apply_one, DownloadEnds, execVars
<1>9. CASE ExecOf(\E p \in Programs : Exit(p) \/ PeriodOver(p))
           \/ ExecOf(\E p \in Pids : RequestRun(p))
  BY <1>9 DEF ExecOf, Exit, PeriodOver, RequestRun
<1>10. QED
  BY <1>2, <1>3, <1>4, <1>5, <1>6, <1>7, <1>8, <1>9
  DEF UpdNext, MainLoop, UpdSystem, Elsewhere

-----------------------------------------------------------------------------
(* Waiting for a program.  Only four systems and the end of the stage matter. *)
LEMMA WaitedForStep ==
    ASSUME CoreType, UpdNext, ~EndUpdMain, NEW p \in Programs
    PROVE  WaitedFor(p)' <=> WaitedFor(p)
<1> USE DEF WaitedFor, Waiting, InState
<1>1. CASE UNCHANGED task
  BY <1>1
<1>2. CASE sys_update_checker /\ task' # task
  BY <1>2 DEF sys_update_checker, CoreType
<1>3. ASSUME NEW s \in Slots, DownloadEnds(s)
      PROVE  WaitedFor(p)' <=> WaitedFor(p)
  <2>1. \A t \in Slots \ {s} : task'[t] = task[t]
    BY <1>3, DownloadEffect DEF CoreType
  <2>2. task[s].st = "get" /\ task'[s].st \in {"got", "failed"}
    BY <1>3, DownloadEffect
  <2>3. QED
    BY <2>1, <2>2
<1>4. QED
  BY <1>1, <1>2, <1>3
  DEF UpdNext, MainLoop, UpdSystem, Elsewhere, sys_poll, puq_update, sys_config_updater,
      InHandle, EndHandle, ExecOf, updVars, sys_new_handler, sys_get_handler,
      sys_terminate_handler, apply_one, sys_apply_handler, phq_update, InMain,
      sys_hash_saver

WaitSystems == {"terminate_adder", "terminate_cleaner", "trq_update", "sys_terminate_handler"}

Quiet == /\ UNCHANGED <<trq, held, cnt, waited>>
         /\ cmds'.hold = cmds.hold /\ cmds'.free = cmds.free
         /\ \A w \in WaitSystems : w \in ran' <=> w \in ran

LEMMA QuietStep ==
    ASSUME CoreType, WaitInv, UpdNext, ~EndUpdMain, Quiet, stage = "main" => stage' = "main"
    PROVE  WaitInv'
<1> SUFFICES ASSUME NEW p \in Programs, stage' # "main" \/ WaitedFor(p)'
             PROVE  WaitOK(p)' /\ QueueOK(p)'
  BY DEF WaitInv
<1>1. WaitOK(p) /\ QueueOK(p)
  BY WaitedForStep DEF WaitInv
<1>2. \A w \in WaitSystems : Did(w)' = Did(w)
  BY DEF Did, Quiet
<1>3. QueueOK(p)' /\ (Misses(p)' = Misses(p)) /\ (Age(p)' = Age(p))
  BY <1>1, <1>2 DEF QueueOK, Misses, Pending, InOld, InNew, Age, Quiet, WaitSystems
<1>4. WaitOK(p)'
  BY <1>1, <1>2, <1>3
  DEF WaitOK, Renewed, Old, Expiring, Absent, Coming, Quiet, WaitSystems
<1>5. QED
  BY <1>3, <1>4

(* What the invariant needs to know of one program. *)
LEMMA WaitFacts ==
    ASSUME ExecStateOK, CoreType, NEW p \in Programs
    PROVE  /\ p \in Pids /\ cnt[p] \in 0..ClearCntMax /\ waited[p] \in 0..WaitMax
           /\ trq.old \in SUBSET Pids /\ trq.new \in SUBSET Pids
           /\ trq = [old |-> trq.old, new |-> trq.new]
  BY ExecmAssumption DEF ExecStateOK, CoreType, Queue

LEMMA AdderWait ==
    ASSUME ExecStateOK, CoreType, TerminateCmdsOK, NEW p \in Programs,
           WaitOK(p), QueueOK(p), stage = "main", terminate_adder, UNCHANGED updVars,
           ClearCntMax >= 4
    PROVE  WaitOK(p)' /\ QueueOK(p)'
<1> DEFINE req == Unread(trq) \cap Programs
<1>1. /\ "terminate_adder" \notin ran /\ ran' = ran \cup {"terminate_adder"}
      /\ trq' = NoEvents /\ UNCHANGED <<held, waited>>
      /\ cnt'[p] = IF p \in req \cap held THEN 0 ELSE cnt[p]
  BY DEF terminate_adder, Turn, updVars
<1>2. cmds'.hold = cmds.hold \cup (req \ held) /\ cmds'.free = cmds.free
  BY DEF terminate_adder, ExecStateOK
<1>3. p \in req <=> InOld(p) \/ InNew(p)
  BY DEF Unread, InOld, InNew
<1>4. cmds.hold = {}
  BY <1>1 DEF TerminateCmdsOK
<1>5. cnt[p] \in Nat /\ waited[p] \in Nat
  BY WaitFacts, UpdaterAssumption, ExecmAssumption
<1>6. QueueOK(p)' /\ ~InOld(p)' /\ ~InNew(p)'
  BY <1>1 DEF QueueOK, InOld, InNew, NoEvents
<1>7. (Misses(p)' = IF "sys_terminate_handler" \in ran
                    THEN 2
                    ELSE IF "trq_update" \in ran THEN 0 ELSE 1)
  BY <1>1, <1>6 DEF Misses, Pending
<1>8. Did("terminate_cleaner")' = Did("terminate_cleaner") /\ Did("terminate_adder")' = 1
      /\ Did("terminate_adder") = 0 /\ Did("terminate_cleaner") \in {0, 1}
  BY <1>1 DEF Did
<1>9. WaitOK(p)'
  BY <1>1, <1>2, <1>3, <1>4, <1>5, <1>7, <1>8, ClearCntMax >= 4
  DEF WaitOK, QueueOK, Renewed, Old, Expiring, Absent, Coming, Age, Misses, Pending
<1>10. QED
  BY <1>6, <1>9

LEMMA CleanerWait ==
    ASSUME ExecStateOK, CoreType, TerminateCmdsOK, NEW p \in Programs,
           WaitOK(p), QueueOK(p), terminate_cleaner, UNCHANGED updVars, ClearCntMax >= 4
    PROVE  WaitOK(p)' /\ QueueOK(p)'
<1> DEFINE due == p \in held /\ cnt[p] >= ClearCntMax
<1>1. /\ "terminate_cleaner" \notin ran /\ ran' = ran \cup {"terminate_cleaner"}
      /\ UNCHANGED <<trq, held, waited>>
      /\ cnt'[p] = IF p \in held /\ ~due THEN cnt[p] + 1 ELSE cnt[p]
  BY DEF terminate_cleaner, Turn, updVars
<1>2. cmds'.hold = cmds.hold /\ (p \in cmds'.free <=> p \in cmds.free \/ due)
  BY DEF terminate_cleaner, ExecStateOK
<1>3. cmds.free = {}
  BY <1>1 DEF TerminateCmdsOK
<1>4. cnt[p] \in Nat /\ waited[p] \in Nat /\ ClearCntMax \in Nat
  BY WaitFacts, UpdaterAssumption, ExecmAssumption
<1>5. QueueOK(p)' /\ (Misses(p)' = Misses(p)) /\ Misses(p) \in 0..2
  BY <1>1 DEF QueueOK, InOld, InNew, Misses, Pending
<1>6. Did("terminate_adder")' = Did("terminate_adder") /\ Did("terminate_cleaner")' = 1
      /\ Did("terminate_cleaner") = 0 /\ Did("terminate_adder") \in {0, 1}
      /\ ("terminate_adder" \in ran' <=> "terminate_adder" \in ran)
  BY <1>1 DEF Did
<1>7. WaitOK(p)'
  BY <1>1, <1>2, <1>3, <1>4, <1>5, <1>6, ClearCntMax >= 4
  DEF WaitOK, Renewed, Old, Expiring, Absent, Coming, Age
<1>8. QED
  BY <1>5, <1>7

LEMMA QueueUpdateWait ==
    ASSUME ExecStateOK, CoreType, NEW p \in Programs,
           WaitOK(p), QueueOK(p), trq_update, UNCHANGED updVars
    PROVE  WaitOK(p)' /\ QueueOK(p)'
<1>1. /\ "trq_update" \notin ran /\ ran' = ran \cup {"trq_update"}
      /\ trq'.old = trq.new /\ trq'.new = {} /\ UNCHANGED <<cmds, cnt, held, waited>>
  BY DEF trq_update, Turn, updVars, Swap
<1>2. (InOld(p)' <=> InNew(p)) /\ ~InNew(p)'
  BY <1>1 DEF InOld, InNew
<1>3. cnt[p] \in Nat /\ waited[p] \in Nat
  BY WaitFacts, UpdaterAssumption, ExecmAssumption
<1>4. \A w \in WaitSystems \ {"trq_update"} : w \in ran' <=> w \in ran
  BY <1>1
<1>5. Misses(p)' <= Misses(p) /\ Misses(p) \in 0..2 /\ Misses(p)' \in 0..2
  BY <1>1, <1>2, <1>4 DEF Misses, Pending, QueueOK, WaitSystems
<1>6. QueueOK(p)'
  BY <1>1, <1>2, <1>4 DEF QueueOK, WaitSystems
<1>7. QED
  BY <1>1, <1>3, <1>4, <1>5, <1>6
  DEF WaitOK, Renewed, Old, Expiring, Absent, Coming, Age, Did, WaitSystems

LEMMA HandlerWait ==
    ASSUME ExecStateOK, CoreType, NEW p \in Programs, WaitedFor(p),
           WaitOK(p), QueueOK(p), sys_terminate_handler
    PROVE  WaitOK(p)' /\ QueueOK(p)'
<1>1. /\ "sys_terminate_handler" \notin ran /\ ran' = ran \cup {"sys_terminate_handler"}
      /\ UNCHANGED <<cmds, cnt, held, waited>>
  BY DEF sys_terminate_handler, InMain, Turn
<1>2. InNew(p)' /\ (InOld(p)' <=> InOld(p))
  BY WaitFacts DEF sys_terminate_handler, Send, InNew, InOld, WaitedFor
<1>3. cnt[p] \in Nat /\ waited[p] \in Nat
  BY WaitFacts, UpdaterAssumption, ExecmAssumption
<1>4. \A w \in WaitSystems \ {"sys_terminate_handler"} : w \in ran' <=> w \in ran
  BY <1>1
<1>5. Misses(p)' <= Misses(p) /\ Misses(p) \in 0..2 /\ Misses(p)' \in 0..2
  BY <1>1, <1>2, <1>4 DEF Misses, Pending, QueueOK, WaitSystems
<1>6. QueueOK(p)'
  BY <1>1, <1>2, <1>4 DEF QueueOK, WaitSystems
<1>7. QED
  BY <1>1, <1>3, <1>4, <1>5, <1>6
  DEF WaitOK, Renewed, Old, Expiring, Absent, Coming, Age, Did, WaitSystems

(* The end of the stage: what was waited for is counted. *)
LEMMA EndWait ==
    ASSUME ExecStateOK, CoreType, TerminateCmdsOK, WaitInv, EndUpdMain
    PROVE  WaitInv'
<1> SUFFICES ASSUME NEW p \in Programs
             PROVE  WaitOK(p)' /\ QueueOK(p)'
  BY DEF WaitInv
<1>1. /\ stage = "main" /\ WaitSystems \subseteq ran /\ ran' = {} /\ UNCHANGED trq
      /\ held' = (held \cup cmds.hold) \ cmds.free
      /\ cnt'[p] = IF p \in held \ cmds.free THEN cnt[p] ELSE 0
      /\ cmds'.hold = {} /\ cmds'.free = {}
  BY DEF EndUpdMain, ApplyCommands, MainSystems, ExecSystems, UpdSystems, WaitSystems, NoCmds
<1>2. QueueOK(p)' /\ (Misses(p)' = Pending(p)) /\ Pending(p) \in 0..2
  BY <1>1 DEF QueueOK, Misses, Pending, InOld, InNew
<1>3. Age(p)' = waited'[p] /\ cnt[p] \in Nat /\ waited[p] \in Nat /\ waited'[p] \in Nat
  BY <1>1, WaitFacts, UpdaterAssumption, ExecmAssumption DEF Age, Did, EndUpdMain, CoreType
<1>4. CASE ~WaitedFor(p)
  <2>1. waited'[p] = 0
    BY <1>4 DEF EndUpdMain
  <2>2. QED
    BY <1>1, <1>2, <1>3, <2>1 DEF WaitOK, Old, Absent
<1>5. CASE WaitedFor(p)
  <2>1. waited'[p] <= waited[p] + 1
    BY <1>3, <1>5, WaitFacts, UpdaterAssumption DEF EndUpdMain
  <2>2. WaitOK(p) /\ Misses(p) = Pending(p) /\ Age(p) = waited[p] + 1
    BY <1>1, <1>5 DEF WaitInv, Misses, Age, Did, WaitSystems
  <2>3. Did("terminate_adder") = 1 /\ Did("terminate_cleaner") = 1
        /\ Did("terminate_adder")' = 0 /\ Did("terminate_cleaner")' = 0
    BY <1>1 DEF Did, WaitSystems
  <2>4. WaitOK(p)'
    BY <1>1, <1>2, <1>3, <2>1, <2>2, <2>3
    DEF WaitOK, Renewed, Old, Expiring, Absent, Coming, WaitSystems, TerminateCmdsOK
  <2>5. QED
    BY <1>2, <2>4
<1>6. QED
  BY <1>4, <1>5

LEMMA WaitStep ==
    ASSUME ExecStateOK, CoreType, TerminateCmdsOK, WaitInv, UpdNext, ClearCntMax >= 4
    PROVE  WaitInv'
<1> USE DEF WaitSystems
<1>1. CASE sys_poll \/ sys_hash_saver \/ (\E s \in Slots : apply_one(s) \/ DownloadEnds(s))
  <2>1. Quiet /\ ~EndUpdMain /\ (stage = "main" => stage' = "main")
    BY <1>1 DEF sys_poll, sys_hash_saver, apply_one, DownloadEnds, execVars, Quiet,
                EndUpdMain
  <2>2. QED
    BY <2>1, QuietStep
<1>2. CASE puq_update \/ sys_config_updater \/ sys_update_checker
  <2>1. Quiet /\ ~EndUpdMain /\ stage # "main"
    BY <1>2 DEF puq_update, sys_config_updater, sys_update_checker, InHandle, Turn, Quiet,
                EndUpdMain
  <2>2. QED
    BY <2>1, QuietStep
<1>3. CASE EndHandle
  <2>1. Quiet /\ ~EndUpdMain /\ stage # "main"
    BY <1>3 DEF EndHandle, HandleSystems, Quiet, EndUpdMain
  <2>2. QED
    BY <2>1, QuietStep
<1>4. CASE sys_new_handler \/ sys_get_handler \/ sys_apply_handler \/ phq_update
  <2>1. Quiet /\ ~EndUpdMain /\ stage' = "main"
    BY <1>4 DEF sys_new_handler, sys_get_handler, sys_apply_handler, phq_update,
                InMain, Turn, Quiet, EndUpdMain
  <2>2. QED
    BY <2>1, QuietStep
<1>5. CASE ExecOf(\E p \in Programs : Exit(p) \/ PeriodOver(p))
           \/ ExecOf(\E p \in Pids : RequestRun(p))
  <2>1. Quiet /\ ~EndUpdMain /\ UNCHANGED stage
    BY <1>5 DEF ExecOf, Exit, PeriodOver, RequestRun, updVars, Quiet, EndUpdMain
  <2>2. QED
    BY <2>1, QuietStep
<1>6. CASE stage = "main" /\ ExecOf(terminator \/ run_checker \/ runner \/ rrq_update)
  <2>1. UNCHANGED <<stage, waited, held, cnt, trq>>
    BY <1>6 DEF ExecOf, updVars, terminator, run_checker, runner, RunnerFrom, rrq_update
  <2>2. \A w \in WaitSystems : w \in ran' <=> w \in ran
    BY <1>6 DEF ExecOf, Turn, terminator, run_checker, runner, RunnerFrom, rrq_update
  <2>3. \/ UNCHANGED cmds
        \/ \E S : cmds' = [cmds EXCEPT !.start = S]
        \/ \E S : cmds' = [cmds EXCEPT !.stop = S]
    BY <1>6 DEF ExecOf, Start, terminator, run_checker, runner, RunnerFrom, rrq_update
  <2>4. cmds'.hold = cmds.hold /\ cmds'.free = cmds.free
    BY <2>3 DEF ExecStateOK
  <2>5. Quiet /\ ~EndUpdMain
    BY <1>6, <2>1, <2>2, <2>4 DEF Quiet, EndUpdMain
  <2>6. QED
    BY <1>6, <2>1, <2>5, QuietStep
<1>7. CASE stage = "main" /\ ExecOf(terminate_adder \/ terminate_cleaner \/ trq_update)
  <2>1. UNCHANGED updVars /\ stage' = "main" /\ ~EndUpdMain
    BY <1>7 DEF ExecOf, updVars, EndUpdMain
  <2>2. SUFFICES ASSUME NEW p \in Programs, WaitedFor(p)'
                 PROVE  WaitOK(p)' /\ QueueOK(p)'
    BY <2>1 DEF WaitInv
  <2>3. WaitOK(p) /\ QueueOK(p)
    BY <2>1, <2>2, WaitedForStep DEF WaitInv
  <2>4. QED
    BY <1>7, <2>1, <2>3, AdderWait, CleanerWait, QueueUpdateWait DEF ExecOf
<1>8. CASE sys_terminate_handler
  <2>1. stage = "main" /\ stage' = "main" /\ ~EndUpdMain
    BY <1>8 DEF sys_terminate_handler, InMain, EndUpdMain
  <2>2. SUFFICES ASSUME NEW p \in Programs, WaitedFor(p)'
                 PROVE  WaitOK(p)' /\ QueueOK(p)'
    BY <2>1 DEF WaitInv
  <2>3. WaitedFor(p)
    BY <2>1, <2>2, WaitedForStep
  <2>4. QED
    BY <1>8, <2>3, HandlerWait DEF WaitInv
<1>9. CASE EndUpdMain
  BY <1>9, EndWait
<1>10. QED
  BY <1>1, <1>2, <1>3, <1>4, <1>5, <1>6, <1>7, <1>8, <1>9
  DEF UpdNext, MainLoop, UpdSystem, Elsewhere, ExecSystem, ExecOf

(* At the end of a stage the invariant says that a long wait has taken effect;
   in between nothing changes. *)
LEMMA HeldStep ==
    ASSUME ExecStateOK, CoreType, TerminateCmdsOK, WaitInv, HeldWhileWaiting, UpdNext,
           ClearCntMax >= 4
    PROVE  HeldWhileWaiting'
<1>1. CASE EndUpdMain
  <2> SUFFICES ASSUME NEW p \in Programs, waited'[p] >= HeldBy
               PROVE  p \in held'
    BY DEF HeldWhileWaiting
  <2>1. WaitOK(p)'
    BY <1>1, EndWait DEF WaitInv, EndUpdMain
  <2>2. ran' = {} /\ cmds'.hold = {} /\ cmds'.free = {}
    BY <1>1 DEF EndUpdMain, ApplyCommands, NoCmds
  <2>3. Age(p)' = waited'[p] /\ Misses(p)' \in 0..2
    BY <1>1, <2>2, UpdaterAssumption DEF Age, Did, Misses, Pending, EndUpdMain, CoreType
  <2>4. waited'[p] \in Nat
    BY <1>1, UpdaterAssumption DEF EndUpdMain, CoreType
  <2>5. QED
    BY <2>1, <2>2, <2>3, <2>4
    DEF WaitOK, Renewed, Old, Expiring, Absent, Coming, HeldBy
<1>2. CASE UNCHANGED <<held, waited>>
  BY <1>2 DEF HeldWhileWaiting
<1>3. QED
  BY <1>1, <1>2
  DEF UpdNext, MainLoop, UpdSystem, Elsewhere, sys_poll, puq_update, sys_config_updater,
      sys_update_checker, InHandle, EndHandle, ExecOf, updVars, execVars, ExecSystem,
      terminate_adder, terminate_cleaner, terminator, run_checker, runner, RunnerFrom, trq_update,
      rrq_update, sys_new_handler, sys_get_handler, sys_terminate_handler, apply_one,
      sys_apply_handler, phq_update, InMain, sys_hash_saver, DownloadEnds, Exit,
      PeriodOver, RequestRun

LEMMA ApplyOKStep ==
    ASSUME ExecInv, CoreType, NextOK, ApplyDone, HeldWhileWaiting, ApplyOK, UpdNext
    PROVE  ApplyOK'
<1>1. CASE EndUpdMain
  <2> SUFFICES ASSUME NEW s \in Slots, task'[s] # NoTask, task'[s].st = "apply",
                      task'[s].pid \in Programs, waited'[task'[s].pid] >= SafeAfter
               PROVE  task'[s].pid \notin run'
    BY DEF ApplyOK, InState
  <2>1. "sys_apply_handler" \in ran /\ stage = "main"
    BY <1>1 DEF EndUpdMain, ApplyCommands, MainSystems, UpdSystems
  <2>2. nxt[s] # "gone"
    BY <1>1 DEF EndUpdMain
  <2>3. nxt[s] # "same"
    BY <1>1, <2>1, <2>2 DEF EndUpdMain, ApplyDone, ToApply, InState
  <2>4. task[s] # NoTask /\ task[s] \in Task
    BY <2>3, TaskFields DEF NextOK
  <2>5. task'[s] = [task[s] EXCEPT !.st = nxt[s]]
    BY <1>1, <2>2, <2>3 DEF EndUpdMain
  <2>6. nxt[s] = "apply" /\ task'[s].pid = task[s].pid
    BY <2>4, <2>5 DEF Task
  <2> DEFINE p == task[s].pid
  <2>7. p \notin run
    BY <2>6 DEF NextOK
  <2>8. waited[p] \in Nat /\ waited[p] >= HeldBy
    BY <1>1, <2>6, UpdaterAssumption DEF EndUpdMain, CoreType, SafeAfter, HeldBy
  <2>9. p \in held
    BY <2>6, <2>8 DEF HeldWhileWaiting
  <2>10. p \notin cmds.start
    BY <2>9 DEF ExecInv, CommandsOK
  <2>11. QED
    BY <1>1, <2>6, <2>7, <2>10 DEF EndUpdMain, ApplyCommands
<1>2. CASE UNCHANGED <<task, run, waited>>
  BY <1>2 DEF ApplyOK, InState
<1>3. CASE sys_update_checker /\ task' # task
  BY <1>3 DEF sys_update_checker, InHandle, CoreType, ApplyOK, InState
<1>4. ASSUME NEW s \in Slots, DownloadEnds(s)
      PROVE  ApplyOK'
  <2>1. \A t \in Slots \ {s} : task'[t] = task[t]
    BY <1>4, DownloadEffect DEF CoreType
  <2>2. task'[s].st # "apply" /\ UNCHANGED <<run, waited>>
    BY <1>4, DownloadEffect DEF DownloadEnds, execVars
  <2>3. QED
    BY <2>1, <2>2 DEF ApplyOK, InState
<1>5. QED
  BY <1>1, <1>2, <1>3, <1>4
  DEF UpdNext, MainLoop, UpdSystem, Elsewhere, sys_poll, puq_update, sys_config_updater,
      sys_update_checker, InHandle, EndHandle, ExecOf, updVars, execVars, ExecSystem,
      terminate_adder, terminate_cleaner, terminator, run_checker, runner, RunnerFrom, trq_update,
      rrq_update, sys_new_handler, sys_get_handler, sys_terminate_handler, apply_one,
      sys_apply_handler, phq_update, InMain, sys_hash_saver, Exit, PeriodOver, RequestRun

-----------------------------------------------------------------------------
(* The inductive invariant.  Its second half holds if a Terminate component
   lives for four stages at least. *)
UpdInv == /\ ExecInv /\ CoreType /\ FilesType
          /\ NextOK /\ ApplyDone
          /\ NoDuplicateTask /\ OwnDownload /\ HashIsInstalled
          /\ SaveInv /\ TerminateCmdsOK

LongWaitInv == WaitInv /\ HeldWhileWaiting /\ ApplyOK

LEMMA UpdInvInit == UpdInit => UpdInv
<1> SUFFICES ASSUME UpdInit
             PROVE  UpdInv
  OBVIOUS
<1>1. ExecInv
  BY InitInv DEF UpdInit
<1>2. CoreType /\ FilesType
  BY UpdInitType, TypeParts
<1>3. NextOK /\ ApplyDone /\ NoDuplicateTask /\ OwnDownload
  BY DEF UpdInit, NextOK, ApplyDone, NoDuplicateTask, OwnDownload, InState, Waiting
<1>4. HashIsInstalled /\ SaveInv
  BY DEF UpdInit, HashIsInstalled, SaveInv
<1>5. TerminateCmdsOK
  BY DEF UpdInit, Init, NoCmds, TerminateCmdsOK
<1>6. QED
  BY <1>1, <1>2, <1>3, <1>4, <1>5 DEF UpdInv

LEMMA UpdInvStep == UpdInv /\ [UpdNext]_vars => UpdInv'
<1> SUFFICES ASSUME UpdInv, [UpdNext]_vars
             PROVE  UpdInv'
  OBVIOUS
<1>1. CASE UpdNext
  <2>1. ExecStateOK
    BY DEF UpdInv, ExecInv
  <2>2. QED
    BY <1>1, <2>1, ExecInvStep, CoreTypeStep, FilesTypeStep, NextOKStep, NoDuplicateStep,
       OwnDownloadStep, HashIsInstalledStep, SaveInvStep, TerminateCmdsStep DEF UpdInv
<1>2. CASE UNCHANGED vars
  <2> USE <1>2 DEF vars, execVars, updVars, UpdInv
  <2>1. ExecInv'
    BY DEF ExecInv, ExecStateOK, CommandsOK, ProcessesOK, Known
  <2>2. CoreType' /\ FilesType'
    BY DEF CoreType, FilesType, StageSystems
  <2>3. NextOK' /\ ApplyDone' /\ NoDuplicateTask' /\ OwnDownload'
    BY DEF NextOK, ApplyDone, NoDuplicateTask, OwnDownload, ToApply, Waiting, InState, Archive
  <2>4. HashIsInstalled' /\ SaveInv' /\ TerminateCmdsOK'
    BY DEF HashIsInstalled, SaveInv, TerminateCmdsOK
  <2>5. QED
    BY <2>1, <2>2, <2>3, <2>4
<1>3. QED
  BY <1>1, <1>2

LEMMA AlwaysUpdInv == UpdSafety => []UpdInv
  BY UpdInvInit, UpdInvStep, PTL DEF UpdSafety

LEMMA LongWaitInit == UpdInit => LongWaitInv
<1> SUFFICES ASSUME UpdInit
             PROVE  LongWaitInv
  OBVIOUS
<1>1. ApplyOK
  BY DEF UpdInit, ApplyOK, InState
<1>2. HeldWhileWaiting
  BY DEF UpdInit, HeldWhileWaiting, HeldBy
<1>3. ASSUME NEW p \in Programs
      PROVE  WaitOK(p) /\ QueueOK(p)
  <2>1. ran = {} /\ cmds.hold = {} /\ waited[p] = 0 /\ p \notin held
    BY <1>3 DEF UpdInit, Init, NoCmds
  <2>2. Misses(p) \in 0..2 /\ Age(p) = 0
    BY <2>1 DEF Misses, Pending, Age, Did
  <2>3. QED
    BY <2>1, <2>2 DEF WaitOK, Absent, QueueOK
<1>4. QED
  BY <1>1, <1>2, <1>3 DEF LongWaitInv, WaitInv

LEMMA LongWaitStep ==
    ASSUME ClearCntMax >= 4
    PROVE  UpdInv /\ LongWaitInv /\ [UpdNext]_vars => LongWaitInv'
<1> SUFFICES ASSUME UpdInv, LongWaitInv, [UpdNext]_vars
             PROVE  LongWaitInv'
  OBVIOUS
<1>1. CASE UpdNext
  <2>1. ExecStateOK
    BY DEF UpdInv, ExecInv
  <2>2. QED
    BY <1>1, <2>1, WaitStep, HeldStep, ApplyOKStep DEF UpdInv, LongWaitInv
<1>2. CASE UNCHANGED vars
  <2> USE <1>2 DEF vars, execVars, updVars, LongWaitInv
  <2>1. HeldWhileWaiting' /\ ApplyOK'
    BY DEF HeldWhileWaiting, ApplyOK, InState
  <2>2. ASSUME NEW p \in Programs
        PROVE  /\ WaitOK(p)' <=> WaitOK(p)
               /\ QueueOK(p)' <=> QueueOK(p)
               /\ WaitedFor(p)' <=> WaitedFor(p)
    BY DEF WaitOK, Renewed, Old, Expiring, Absent, Coming, Age, Did, Misses, Pending,
           InOld, InNew, QueueOK, WaitedFor, Waiting, InState
  <2>3. WaitInv'
    BY <2>2 DEF WaitInv
  <2>4. QED
    BY <2>1, <2>3
<1>3. QED
  BY <1>1, <1>2

-----------------------------------------------------------------------------
(* Every variable of the updater and of the manager keeps its type. *)
THEOREM UpdTypeCorrect == UpdSafety => []UpdTypeOK
<1>1. UpdInv => UpdTypeOK
  BY TypeParts DEF UpdInv, ExecInv
<1>2. QED
  BY <1>1, AlwaysUpdInv, PTL

(* Whatever answers the server gives and in however many ticks it is asked, no
   update of one program and type is ever worked on twice (program_updater.rs:194-239). *)
THEOREM NoDuplicates == UpdSafety => []NoDuplicateTask
<1>1. UpdInv => NoDuplicateTask
  BY DEF UpdInv
<1>2. QED
  BY <1>1, AlwaysUpdInv, PTL

(* An archive is not overwritten between its download and its installation. *)
THEOREM DownloadsAreOwn == UpdSafety => []OwnDownload
<1>1. UpdInv => OwnDownload
  BY DEF UpdInv
<1>2. QED
  BY <1>1, AlwaysUpdInv, PTL

(* The hash reported to the server is that of what is installed, except after a
   failed installation (program_updater.rs:323-422). *)
THEOREM HashesAreInstalled == UpdSafety => []HashIsInstalled
<1>1. UpdInv => HashIsInstalled
  BY DEF UpdInv
<1>2. QED
  BY <1>1, AlwaysUpdInv, PTL

(* Every change of the hashes is in the file when the tick is over
   (program_updater.rs:424-430, events.rs). *)
THEOREM HashesAreSaved == UpdSafety => []HashSaved
<1>1. UpdInv => HashSaved
  BY DEF UpdInv, SaveInv, HashSaved
<1>2. QED
  BY <1>1, AlwaysUpdInv, PTL

(* The manager still runs one process of a program at most, with the updater in
   its company and its systems among those of the stage. *)
THEOREM OneProcessUnderUpdates == UpdSafety => []OneProcess
<1>1. UpdInv => OneProcess
  BY InvImplies DEF UpdInv
<1>2. QED
  BY <1>1, AlwaysUpdInv, PTL

(* A program waited for through six stages has a Terminate component as long as
   it is waited for, if one lives for four stages at least: the code lets it live
   for five (CLEAR_CNT_MAX, execm.rs:24). *)
THEOREM HeldInTime ==
    ASSUME ClearCntMax >= 4
    PROVE  UpdSafety => []HeldWhileWaiting
<1>1. UpdInv /\ LongWaitInv => HeldWhileWaiting
  BY DEF LongWaitInv
<1>2. QED
  BY <1>1, AlwaysUpdInv, LongWaitInit, LongWaitStep, PTL DEF UpdSafety

(* After a wait of seven stages or more an installation meets no live process. *)
THEOREM AppliedSafely ==
    ASSUME ClearCntMax >= 4
    PROVE  UpdSafety => []SafeApply
<1>1. UpdInv /\ LongWaitInv => SafeApply
  <2> SUFFICES ASSUME UpdInv, LongWaitInv, NEW s \in ToApply,
                      task[s].pid \in Programs, waited[task[s].pid] >= SafeAfter
               PROVE  procs[task[s].pid] = 0
    BY DEF SafeApply
  <2>1. task[s].pid \notin run
    BY DEF LongWaitInv, ApplyOK, ToApply
  <2>2. waited[task[s].pid] >= HeldBy
    BY UpdaterAssumption DEF UpdInv, CoreType, SafeAfter, HeldBy
  <2>3. task[s].pid \in held
    BY <2>2 DEF LongWaitInv, HeldWhileWaiting
  <2>4. StoppedIsStopped /\ procs[task[s].pid] \in Nat
    BY InvImplies DEF UpdInv, ExecInv, ExecStateOK
  <2>5. QED
    BY <2>1, <2>3, <2>4 DEF StoppedIsStopped
<1>2. QED
  BY <1>1, AlwaysUpdInv, LongWaitInit, LongWaitStep, PTL DEF UpdSafety
=============================================================================
