--------------------------- MODULE ProgramUpdater ---------------------------
(***************************************************************************)
(* The program updater of src/src/program_updater.rs together with the     *)
(* executable manager it depends on, through one tick of the main loop     *)
(* after another: PollServer, HandlePollEvents, Main, Save.                *)
(*                                                                         *)
(* An update is an entity that passes through the states new, get data,    *)
(* terminate and apply, one system per state; every system of a stage runs *)
(* once in an order that nothing fixes, and the changes of components      *)
(* (`nxt`, and Execm's `cmds`) appear when the stage ends.  A download is  *)
(* a thread that ends at any time.  An entity in the apply state keeps its *)
(* UpdateStateTerminate component, so it is still seen by the terminate    *)
(* handler.                                                                *)
(*                                                                         *)
(* Contents of files are versions; 0 is no file (and no hash), Broken what *)
(* a failed installation may leave.  A configuration file has no recorded  *)
(* hash (sys_hash_saver clears them), so its contents are left out.        *)
(* The configuration is replaced now and then, always by one that knows    *)
(* the same programs.                                                      *)
(***************************************************************************)
EXTENDS Execm

CONSTANTS
    Custom,    \* programs whose ProgramType is Custom: they can be updated
    Offers,    \* what the server may offer: pairs of a pid and an update type
    Versions,  \* versions of a build or of an asset
    Broken,    \* contents left by a failed installation
    Slots,     \* bound: entities for updates that exist at the same time
    NoTask,
    WaitMax    \* bound: `waited` counts no further

UpdateTypes == {"build", "asset", "noasset", "config"}   \* Asset(true), Asset(false)
States == {"new", "get", "got", "failed", "terminate", "apply"}
Task == [pid : Pids, utype : UpdateTypes, st : States, ver : Versions \cup {0}]
Files == Pids \X {"build", "asset"}

ASSUME UpdaterAssumption ==
    /\ Custom \subseteq Programs
    /\ Offers \subseteq Pids \X UpdateTypes
    /\ Versions \subseteq Nat \ {0}
    /\ Broken \notin Nat
    /\ NoTask \notin Task
    /\ WaitMax \in Nat

VARIABLES
    stage,    \* stage of the main loop that is running
    puq,      \* Events<ProgramUpdateAvailable>
    phq,      \* Events<ProgramHashesChanged>
    changed,  \* config.is_changed() in sys_update_checker
    task,     \* the update entities
    nxt,      \* what the stage's commands will do to each entity
    temp,     \* contents of the downloaded archives
    disk,     \* contents of the program directories
    hash,     \* ProgramHashesRes
    saved,    \* the hashes file
    waited    \* how many stages in a row each program has been waited for

updVars == <<stage, puq, phq, changed, task, nxt, temp, disk, hash, saved, waited>>
vars == <<execVars, updVars>>

HandleSystems == {"puq_update", "sys_config_updater", "sys_update_checker"}
UpdSystems == {"phq_update", "sys_new_handler", "sys_get_handler",
               "sys_terminate_handler", "sys_apply_handler"}
(* Variant for mutation runs: an update system is not registered. *)
MainSystems_NoUpdate == (ExecSystems \ {"trq_update"}) \cup UpdSystems
MainSystems == ExecSystems \cup UpdSystems

(* Systems of the stage that runs; the two others have one each. *)
StageSystems ==
    IF stage = "handle" THEN HandleSystems ELSE IF stage = "main" THEN MainSystems ELSE {}

InState(st) == {s \in Slots : task[s] # NoTask /\ task[s].st = st}
(* Entities that have UpdateStateTerminate. *)
Waiting == InState("terminate") \cup InState("apply")
WaitedFor(p) == \E s \in Waiting : task[s].pid = p

UpdTypeOK ==
    /\ ExecStateOK
    /\ stage \in {"poll", "handle", "main", "save"}
    /\ ran \subseteq StageSystems
    /\ puq \in Queue({"available"}) /\ phq \in Queue({"changed"})
    /\ changed \in BOOLEAN
    /\ task \in [Slots -> Task \cup {NoTask}]
    /\ nxt \in [Slots -> {"same", "get", "terminate", "apply", "gone"}]
    /\ temp \in [Files -> Versions \cup {0}]
    /\ disk \in [Files -> Versions \cup {0, Broken}]
    /\ hash \in [Files -> Versions \cup {0}]
    /\ saved \in [Files -> Versions \cup {0}]
    /\ waited \in [Programs -> 0..WaitMax]

UpdInit ==
    /\ Init
    /\ stage = "poll"
    /\ puq = NoEvents /\ phq = NoEvents
    /\ changed = TRUE
    /\ task = [s \in Slots |-> NoTask]
    /\ nxt = [s \in Slots |-> "same"]
    /\ temp = [f \in Files |-> 0]
    /\ disk = [f \in Files |-> 0]
    /\ hash = disk
    /\ saved = hash
    /\ waited = [p \in Programs |-> 0]

-----------------------------------------------------------------------------
(* PollServer: the server may say that program data changed. *)
sys_poll ==
    /\ stage = "poll"
    /\ stage' = "handle"
    /\ puq' \in {puq, Send(puq, {"available"})}
    /\ UNCHANGED <<execVars, phq, changed, task, nxt, temp, disk, hash, saved, waited>>

(* A system of the HandlePollEvents stage changes no state of Execm. *)
InHandle(s) ==
    /\ stage = "handle"
    /\ Turn(s)
    /\ UNCHANGED <<cmds, run, held, cnt, asked, trq, rrq, procs, told, balance>>
    /\ UNCHANGED <<stage, phq, nxt, temp, disk, hash, saved, waited>>

puq_update ==
    /\ InHandle("puq_update")
    /\ puq' = Swap(puq)
    /\ UNCHANGED <<changed, task>>

sys_config_updater ==
    /\ InHandle("sys_config_updater")
    /\ changed' \in {changed, TRUE}
    /\ UNCHANGED <<puq, task>>

(* Variant for mutation runs: only an update that has not started counts. *)
Exists_New(pid, utype) ==
    \E s \in InState("new") : task[s].pid = pid /\ task[s].utype = utype

(* Is there an update of this program and type (ProgramUpdate::eq)? *)
Exists(pid, utype) ==
    \E s \in Slots : task[s] # NoTask /\ task[s].pid = pid /\ task[s].utype = utype

(* The event is looked at and not read.  An answer that names an update nobody
   works on becomes an entity; no other system of the stage looks at it. *)
sys_update_checker ==
    /\ InHandle("sys_update_checker")
    /\ changed' = FALSE
    /\ \/ UNCHANGED task
       \/ /\ Unread(puq) # {} \/ changed
          /\ \E o \in Offers, s \in Slots :
               /\ ~Exists(o[1], o[2])
               /\ task[s] = NoTask
               /\ task' = [task EXCEPT ![s] =
                             [pid |-> o[1], utype |-> o[2], st |-> "new", ver |-> 0]]
    /\ UNCHANGED puq

EndHandle ==
    /\ stage = "handle" /\ ran = HandleSystems
    /\ stage' = "main" /\ ran' = {}
    /\ UNCHANGED <<cmds, run, held, cnt, asked, trq, rrq, procs, told, balance>>
    /\ UNCHANGED <<puq, phq, changed, task, nxt, temp, disk, hash, saved, waited>>

-----------------------------------------------------------------------------
(* A system of the Main stage that belongs to the updater. *)
InMain(s) ==
    /\ stage = "main"
    /\ Turn(s)
    /\ UNCHANGED <<cmds, run, held, cnt, asked, rrq, procs, told, balance>>
    /\ UNCHANGED <<stage, puq, changed, task, temp, saved, waited>>

(* Variant for mutation runs: the commands of the other systems are forgotten. *)
Move_Alone(S, st) == nxt' = [s \in S |-> st]

Move(S, st) == nxt' = [s \in Slots |-> IF s \in S THEN st ELSE nxt[s]]

(* The deletion of an asset needs no download. *)
NeedsNoData(s) == task[s].utype = "noasset"

sys_new_handler ==
    /\ InMain("sys_new_handler")
    /\ nxt' = [s \in Slots |-> IF s \notin InState("new") THEN nxt[s]
                               ELSE IF NeedsNoData(s) THEN "terminate" ELSE "get"]
    /\ UNCHANGED <<trq, phq, disk, hash>>

(* Variant for mutation runs: a failed download is not noticed. *)
sys_get_handler_OnlyOk ==
    /\ InMain("sys_get_handler")
    /\ Move(InState("got"), "terminate")
    /\ UNCHANGED <<trq, phq, disk, hash>>

(* Joins the download threads that ended; a failed download ends the update. *)
sys_get_handler ==
    /\ InMain("sys_get_handler")
    /\ nxt' = [s \in Slots |-> CASE s \in InState("got") -> "terminate"
                                 [] s \in InState("failed") -> "gone"
                                 [] OTHER -> nxt[s]]
    /\ UNCHANGED <<trq, phq, disk, hash>>

(* utils::terminate for each: request, then ask for the Run component. *)
sys_terminate_handler ==
    /\ InMain("sys_terminate_handler")
    /\ trq' = Send(trq, {task[s].pid : s \in Waiting})
    /\ Move({s \in InState("terminate") : task[s].pid \notin run}, "apply")
    /\ UNCHANGED <<phq, disk, hash>>

(* One turn of the loop of sys_apply_handler, for entity s.  However it ends
   the entity is despawned; a success of setup_program, setup_asset or
   remove_asset records the hash.  setup_program moves the asset out and back,
   so that its failure may break both. *)
FilesAt(f, contents) == [disk EXCEPT ![f] = contents]

MayBreak(fs) ==
    \E bad \in SUBSET fs :
        disk' = [f \in Files |-> IF f \in bad THEN Broken ELSE disk[f]]

Record(f, v) ==
    /\ hash' = [hash EXCEPT ![f] = v]
    /\ phq' = Send(phq, {"changed"})

(* Variant for mutation runs: the hash is recorded before the installation. *)
Install_RecordsFirst(f, contents, v) ==
    /\ Record(f, v)
    /\ disk' = FilesAt(f, contents) \/ MayBreak({f})

Install(f, contents, v) ==
    \/ disk' = FilesAt(f, contents) /\ Record(f, v)
    \/ /\ MayBreak(IF f[2] = "build" THEN {f, <<f[1], "asset">>} ELSE {f})
       /\ UNCHANGED <<hash, phq>>

ToApply == {s \in InState("apply") : nxt[s] # "gone"}

apply_one(s) ==
    /\ stage = "main" /\ "sys_apply_handler" \notin ran
    /\ \A o \in Before : o[2] = "sys_apply_handler" => o[1] \in ran
    /\ s \in ToApply
    /\ nxt' = [nxt EXCEPT ![s] = "gone"]
    /\ LET p == task[s].pid
           build == <<p, "build">>
           asset == <<p, "asset">>
       IN \/ /\ p \notin Custom \/ task[s].utype = "config"
             /\ UNCHANGED <<disk, hash, phq>>
          \/ /\ p \in Custom /\ task[s].utype = "build"
             /\ Install(build, temp[build], task[s].ver)
          \/ /\ p \in Custom /\ task[s].utype = "asset"
             /\ Install(asset, temp[asset], task[s].ver)
          \/ /\ p \in Custom /\ task[s].utype = "noasset"
             /\ Install(asset, 0, 0)
    /\ UNCHANGED <<execVars, stage, puq, changed, task, temp, saved, waited>>

sys_apply_handler ==
    /\ InMain("sys_apply_handler")
    /\ ToApply = {}
    /\ UNCHANGED <<trq, phq, nxt, disk, hash>>

phq_update ==
    /\ InMain("phq_update")
    /\ phq' = Swap(phq)
    /\ UNCHANGED <<trq, nxt, disk, hash>>

UpdSystem == \/ sys_new_handler \/ sys_get_handler \/ sys_terminate_handler
             \/ (\E s \in Slots : apply_one(s)) \/ sys_apply_handler \/ phq_update

EndUpdMain ==
    /\ stage = "main"
    /\ ApplyCommands(MainSystems)
    /\ stage' = "save"
    /\ task' = [s \in Slots |-> CASE nxt[s] = "same" -> task[s]
                                  [] nxt[s] = "gone" -> NoTask
                                  [] OTHER -> [task[s] EXCEPT !.st = nxt[s]]]
    /\ nxt' = [s \in Slots |-> "same"]
    /\ waited' = [p \in Programs |->
                    IF ~WaitedFor(p) THEN 0
                    ELSE IF waited[p] < WaitMax THEN waited[p] + 1 ELSE WaitMax]
    /\ UNCHANGED <<puq, phq, changed, temp, disk, hash, saved>>

(* Save: the event is looked at and not read. *)
sys_hash_saver ==
    /\ stage = "save"
    /\ stage' = "poll"
    /\ saved' = IF Unread(phq) # {} THEN hash ELSE saved
    /\ UNCHANGED <<execVars, puq, phq, changed, task, nxt, temp, disk, hash, waited>>

-----------------------------------------------------------------------------
(* A download thread ends: a build or an asset has been written to the archive
   named after the program, whether its hash is right or not; or the request
   for a configuration is answered or fails. *)
(* Variant for mutation runs: the name of the archive is the pid alone. *)
Archive_ByPid(s) == <<task[s].pid, "build">>
Archive(s) == <<task[s].pid, task[s].utype>>

DownloadEnds(s) ==
    /\ s \in InState("get")
    /\ \/ task' = [task EXCEPT ![s].st = "failed"] /\ UNCHANGED temp
       \/ /\ task[s].utype = "config"
          /\ task' = [task EXCEPT ![s].st = "got"] /\ UNCHANGED temp
       \/ /\ task[s].utype \in {"build", "asset"}
          /\ \/ \E v \in Versions :
                  /\ task' = [task EXCEPT ![s] = [@ EXCEPT !.st = "got", !.ver = v]]
                  /\ temp' = [temp EXCEPT ![Archive(s)] = v]
             \/ /\ task' = [task EXCEPT ![s].st = "failed"]
                /\ temp' = [temp EXCEPT ![Archive(s)] = 0]
    /\ UNCHANGED <<execVars, stage, puq, phq, changed, nxt, disk, hash, saved, waited>>

ExecOf(A) == A /\ UNCHANGED updVars

MainLoop ==
    \/ sys_poll
    \/ puq_update \/ sys_config_updater \/ sys_update_checker \/ EndHandle
    \/ stage = "main" /\ ExecOf(ExecSystem)
    \/ UpdSystem \/ EndUpdMain
    \/ sys_hash_saver

Elsewhere ==
    \/ \E s \in Slots : DownloadEnds(s)
    \/ ExecOf(\E p \in Programs : Exit(p) \/ PeriodOver(p))
    \/ stage = "main" /\ ExecOf(\E p \in Pids : RequestRun(p))

UpdNext == MainLoop \/ Elsewhere

UpdSafety == UpdInit /\ [][UpdNext]_vars

(* The terminator's request reaches p; the runner's attempt to start p succeeds. *)
Delivered(p) == /\ stage = "main"
                /\ p \notin told
                /\ ExecOf(terminator)
                /\ p \in told'
Started(p) == /\ stage = "main"
              /\ ExecOf(runner)
              /\ procs'[p] > procs[p]

(* The main loop runs for ever, downloads end (their sockets time out), time
   passes, programs obey, and no program is deaf or impossible to start for ever. *)
Fairness ==
    /\ WF_vars(MainLoop)
    /\ \A s \in Slots : WF_vars(DownloadEnds(s))
    /\ \A p \in Programs :
         /\ WF_vars(ExecOf(PeriodOver(p)))
         /\ WF_vars(p \in told /\ ExecOf(Exit(p)))
         /\ SF_vars(Delivered(p))
         /\ SF_vars(Started(p))

UpdSpec == UpdSafety /\ Fairness

-----------------------------------------------------------------------------
(* Numbers of stages after which a wait has taken effect (see HeldWhileWaiting). *)
HeldBy == 6
SafeAfter == 7

-----------------------------------------------------------------------------
(* No two updates of the same program and type at a time, although one event
   is seen in one or two ticks and each may be answered by the same offer
   (program_updater.rs:194-239). *)
NoDuplicateTask ==
    \A s, t \in Slots :
        (s # t /\ task[s] # NoTask /\ task[t] # NoTask)
            => <<task[s].pid, task[s].utype>> # <<task[t].pid, task[t].utype>>

(* The archive an update will install is the one it downloaded and whose hash
   it will record: no other download has overwritten the file, whose name is
   made of the pid and the type only (siapi.rs:106, 118). *)
OwnDownload ==
    \A s \in InState("got") \cup Waiting :
        task[s].utype \in {"build", "asset"} => temp[Archive(s)] = task[s].ver

(* What is recorded of a program is what is installed, unless a later
   installation failed half way. *)
HashIsInstalled == \A f \in Files : disk[f] \in {hash[f], Broken}

(* Between two ticks the hashes file agrees with memory: the event that asks
   for the save is never dropped before sys_hash_saver looks. *)
HashSaved == stage = "poll" => saved = hash

(* A program that has been waited for through HeldBy stages has a Terminate
   component, and keeps it as long as it is waited for, although requests are
   lost when the queue is updated twice between two readings and the component
   may be the one an earlier update left to expire. *)
HeldWhileWaiting ==
    \A p \in Programs : waited[p] >= HeldBy => p \in held

(* When an installation may be relied on to meet no live process: after its program
   has been waited for through SafeAfter stages.  A shorter wait carries no such
   promise, and an update whose program obeys at once is applied after about four:
   then it may meet a process that the runner started in the stage in which
   utils::terminate answered "not running" (program_updater.rs:307-333,
   execm.rs:62-75, 109). *)
SafeApply ==
    \A s \in ToApply :
        LET p == task[s].pid IN
        (p \in Programs /\ waited[p] >= SafeAfter) => procs[p] = 0

(* Every update comes to an end, whether its program obeys at once or must be
   asked again, and whatever fails (program_updater.rs:242-422). *)
TaskEnds == \A s \in Slots : []<>(task[s] = NoTask)

(* A program taken down for updates runs again once they are over: the
   Terminate component that keeps the runner from it expires. *)
ComesBack ==
    \A p \in KeepRun :
        <>[](\A s \in Slots : task[s] # NoTask => task[s].pid # p) => []<>(procs[p] > 0)

(* The updater drives the executable manager through its interface only: in its
   company the manager is the one Execm specifies, for any order of systems and
   any sender of requests, so that what holds of Execm holds here. *)
Manager == INSTANCE Execm
             WITH ran <- IF stage = "main" THEN ran \cap ExecSystems ELSE {},
                  Before <- {}

ImplementsExecm == Manager!ExecSpec

(* To each program the updater is an installer (Installer): a turn of the apply
   handler is one installation or one failure, and the hashes file is written
   whenever.  SetupProgram shows that the steps of mos.rs are one, too. *)
Installed(p) == INSTANCE Installer
                  WITH disk  <- [f \in {"build", "asset"} |-> disk[<<p, f>>]],
                       hash  <- [f \in {"build", "asset"} |-> hash[<<p, f>>]],
                       saved <- [f \in {"build", "asset"} |-> saved[<<p, f>>]]

ImplementsInstaller ==
    /\ \A p \in Pids : Installed(p)!Init
    /\ [][\A p \in Pids : Installed(p)!Next \/ UNCHANGED Installed(p)!vars]_<<disk, hash, saved>>
=============================================================================
