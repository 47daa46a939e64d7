-------------------------- MODULE UpdaterInstalls --------------------------
(***************************************************************************)
(* The updater's step of an installation is one that Installer allows      *)
(* (ProgramUpdater's ImplementsInstaller), for any number of updates and   *)
(* programs: so is each sequence of the calls of the file system that      *)
(* SetupProgram models in its place.                                       *)
(***************************************************************************)
EXTENDS ProgramUpdaterProofs

(* A build or an asset that has been downloaded has a version. *)
HasVersion(t) ==
    t # NoTask /\ t.st \in {"got", "terminate", "apply"} /\ t.utype \in {"build", "asset"}
        => t.ver \in Versions
VersionOK == \A s \in Slots : HasVersion(task[s])

LEMMA VersionStep ==
    ASSUME CoreType, NextOK, VersionOK, UpdNext
    PROVE  VersionOK'
<1> SUFFICES ASSUME NEW s \in Slots
             PROVE  HasVersion(task'[s])
  BY DEF VersionOK, HasVersion
<1> USE DEF VersionOK, HasVersion
<1>1. CASE task'[s] = task[s]
  BY <1>1
<1>2. CASE sys_update_checker /\ task' # task
  BY <1>2 DEF sys_update_checker, CoreType
<1>3. CASE EndUpdMain /\ nxt[s] \notin {"same", "gone"}
  <2>1. task[s] # NoTask /\ task[s] \in Task
    BY <1>3, TaskFields DEF NextOK
  <2>2. task'[s] = [task[s] EXCEPT !.st = nxt[s]]
    BY <1>3, <2>1 DEF EndUpdMain
  <2>3. /\ task'[s].utype = task[s].utype /\ task'[s].ver = task[s].ver
        /\ task'[s].st = nxt[s]
    BY <2>1, <2>2 DEF Task
  <2>4. nxt[s] \in {"get", "terminate", "apply"}
    BY <1>3 DEF CoreType
  <2>5. QED
    BY <2>1, <2>3, <2>4 DEF NextOK
<1>4. CASE EndUpdMain /\ nxt[s] \in {"same", "gone"}
  BY <1>4 DEF EndUpdMain
<1>5. ASSUME NEW u \in Slots, DownloadEnds(u)
      PROVE  HasVersion(task'[s])
  <2>1. CASE s = u
    <3>1. task[s] # NoTask /\ task[s] \in Task
      BY <1>5, <2>1, DownloadEffect, TaskFields
    <3>2. CASE task' = [task EXCEPT ![u].st = "failed"]
      BY <2>1, <3>1, <3>2 DEF CoreType, Task
    <3>3. CASE task[u].utype = "config" /\ task' = [task EXCEPT ![u].st = "got"]
      BY <2>1, <3>1, <3>3 DEF CoreType, Task
    <3>4. ASSUME NEW v \in Versions,
                 task' = [task EXCEPT ![u] = [@ EXCEPT !.st = "got", !.ver = v]]
          PROVE  HasVersion(task'[s])
      BY <2>1, <3>1, <3>4 DEF CoreType, Task
    <3>5. QED
      BY <1>5, <3>2, <3>3, <3>4 DEF DownloadEnds
  <2>2. CASE s # u
    BY <1>1, <1>5, <2>2, DownloadEffect DEF CoreType
  <2>3. QED
    BY <2>1, <2>2
<1>6. QED
  BY <1>1, <1>2, <1>3, <1>4, <1>5
  DEF UpdNext, MainLoop, UpdSystem, Elsewhere, sys_poll, puq_update, sys_config_updater,
      sys_update_checker, InHandle, EndHandle, ExecOf, updVars, sys_new_handler,
      sys_get_handler, sys_terminate_handler, apply_one, sys_apply_handler, phq_update,
      InMain, sys_hash_saver, CoreType

-----------------------------------------------------------------------------
(* The files of one program, as Installer has them. *)
Part(F, p) == [f \in {"build", "asset"} |-> F[<<p, f>>]]

(* An installation of file f of program q, seen from program p. *)
LEMMA InstallMaps ==
    ASSUME FilesType, NEW p \in Pids, NEW q \in Pids, NEW f \in {"build", "asset"},
           NEW v \in Versions \cup {0}, v = 0 => f = "asset",
           Install(<<q, f>>, v, v), UNCHANGED saved
    PROVE  Installed(p)!Next \/ UNCHANGED Installed(p)!vars
<1> USE DEF FilesType, Files
<1>1. CASE disk' = FilesAt(<<q, f>>, v) /\ Record(<<q, f>>, v)
  <2>1. CASE p = q
    <3>1. Installed(p)!Succeed(f, v)
      BY <1>1, <2>1 DEF FilesAt, Record, Installed!Succeed
    <3>2. QED
      BY <3>1 DEF Installed!Next, Installed!Files
  <2>2. CASE p # q
    BY <1>1, <2>2 DEF FilesAt, Record, Installed!vars
  <2>3. QED
    BY <2>1, <2>2
<1>2. ASSUME MayBreak(IF f = "build" THEN {<<q, f>>, <<q, "asset">>} ELSE {<<q, f>>}),
             UNCHANGED hash
      PROVE  Installed(p)!Next \/ UNCHANGED Installed(p)!vars
  <2>1. PICK bad \in SUBSET (IF f = "build" THEN {<<q, f>>, <<q, "asset">>} ELSE {<<q, f>>}) :
              disk' = [g \in Files |-> IF g \in bad THEN Broken ELSE disk[g]]
    BY <1>2 DEF MayBreak
  <2>2. CASE p = q
    <3> DEFINE mine == {g \in {"build", "asset"} : <<p, g>> \in bad}
    <3>1. mine \in SUBSET Installed(p)!Touches(f)
      BY <2>1, <2>2 DEF Installed!Touches, Installed!Files
    <3>2. Part(disk', p) = [g \in {"build", "asset"} |->
                              IF g \in mine THEN Broken ELSE Part(disk, p)[g]]
      BY <2>1, <2>2 DEF Part
    <3>3. Installed(p)!Fail(f)
      BY <1>2, <3>1, <3>2 DEF Installed!Fail, Installed!Files, Part
    <3>4. QED
      BY <3>3 DEF Installed!Next, Installed!Files
  <2>3. CASE p # q
    BY <1>2, <2>1, <2>3 DEF Installed!vars
  <2>4. QED
    BY <2>2, <2>3
<1>3. QED
  BY <1>1, <1>2 DEF Install

LEMMA FilesStepMaps ==
    ASSUME CoreType, FilesType, OwnDownload, VersionOK, UpdNext, NEW p \in Pids
    PROVE  Installed(p)!Next \/ UNCHANGED Installed(p)!vars
<1>1. CASE UNCHANGED <<disk, hash, saved>>
  BY <1>1 DEF Installed!vars
<1>2. CASE sys_hash_saver
  <2>1. Installed(p)!Save \/ UNCHANGED Installed(p)!vars
    BY <1>2 DEF sys_hash_saver, Installed!Save, Installed!vars
  <2>2. QED
    BY <2>1 DEF Installed!Next
<1>3. ASSUME NEW s \in Slots, apply_one(s)
      PROVE  Installed(p)!Next \/ UNCHANGED Installed(p)!vars
  <2> DEFINE q == task[s].pid
  <2>1. task[s] # NoTask /\ task[s].st = "apply" /\ q \in Pids
    BY <1>3, TaskFields DEF apply_one, ToApply, InState
  <2>2. UNCHANGED saved
    BY <1>3 DEF apply_one
  <2>3. ASSUME task[s].utype \in {"build", "asset"}
        PROVE  task[s].ver \in Versions /\ temp[<<q, task[s].utype>>] = task[s].ver
    BY <2>1, <2>3 DEF VersionOK, HasVersion, OwnDownload, Waiting, InState, Archive
  <2>4. CASE UNCHANGED <<disk, hash, phq>>
    BY <1>1, <2>2, <2>4
  <2>5. CASE task[s].utype = "build" /\ Install(<<q, "build">>, temp[<<q, "build">>], task[s].ver)
    BY <2>1, <2>2, <2>3, <2>5, InstallMaps, UpdaterAssumption
  <2>6. CASE task[s].utype = "asset" /\ Install(<<q, "asset">>, temp[<<q, "asset">>], task[s].ver)
    BY <2>1, <2>2, <2>3, <2>6, InstallMaps, UpdaterAssumption
  <2>7. CASE Install(<<q, "asset">>, 0, 0)
    BY <2>1, <2>2, <2>7, InstallMaps
  <2>8. QED
    BY <1>3, <2>4, <2>5, <2>6, <2>7 DEF apply_one
<1>4. QED
  BY <1>1, <1>2, <1>3
  DEF UpdNext, MainLoop, UpdSystem, Elsewhere, sys_poll, puq_update, sys_config_updater,
      sys_update_checker, InHandle, EndHandle, ExecOf, updVars, sys_new_handler,
      sys_get_handler, sys_terminate_handler, sys_apply_handler, phq_update,
      InMain, EndUpdMain, DownloadEnds

(* What the updater does to the files of a program and to its hashes is what
   Installer allows: a hash changes with its file, or nothing is recorded
   (program_updater.rs:352-398). *)
THEOREM UpdaterImplementsInstaller == UpdSafety => ImplementsInstaller
<1> DEFINE FilesNext == \A p \in Pids : Installed(p)!Next \/ UNCHANGED Installed(p)!vars
<1>1. UpdInit => \A p \in Pids : Installed(p)!Init
  BY DEF UpdInit, Installed!Init, Installed!NoHashes, Installed!Files, Files
<1>2. UpdInit => VersionOK
  BY DEF UpdInit, VersionOK, HasVersion
<1>3. UpdInv /\ VersionOK /\ [UpdNext]_vars => VersionOK'
  BY VersionStep DEF UpdInv, vars, updVars, VersionOK, HasVersion
<1>4. UpdInv /\ VersionOK /\ [UpdNext]_vars => [FilesNext]_<<disk, hash, saved>>
  BY FilesStepMaps DEF UpdInv, vars, updVars
<1>5. QED
  BY <1>1, <1>2, <1>3, <1>4, AlwaysUpdInv, PTL DEF UpdSafety, ImplementsInstaller
=============================================================================
