---------------------------- MODULE SetupProgram ----------------------------
(***************************************************************************)
(* The installation of files of src/src/utils/mos.rs for one program, step *)
(* by step, with the hashes that program_updater.rs keeps of them.         *)
(*                                                                         *)
(* A program has its directory and, beside it, a directory `.temp` into    *)
(* which setup_program moves asset and configurations while it replaces    *)
(* the build, and out of which it moves them back.  Any call of the file   *)
(* system may fail, which ends the job with an error and leaves everything *)
(* as it is; the process may die between any two, and starts again.        *)
(* Renaming and unlinking a file are atomic; writing a file, deleting a    *)
(* directory and unpacking an archive are not.                             *)
(*                                                                         *)
(* The archive of a build may hold a directory `asset`, and files under    *)
(* the names of configurations.                                            *)
(***************************************************************************)
EXTENDS Integers

CONSTANTS
    Configs,   \* configuration files of the program (ProgramCustom.configs)
    Ships,     \* items that the archive of a build may hold, too
    Versions,  \* versions of a build, an asset or a configuration
    Torn,      \* contents of what was written or deleted in part
    Shipped,   \* contents of an item that came with the build
    Jobs,      \* what the updater may have to install
    NoJob

Items == {"asset"} \cup Configs
Content == Versions \cup {0, Torn, Shipped}   \* 0: does not exist

(* UpdateData: a build, an asset, its deletion, or a configuration. *)
Types == {"build", "asset", "noasset"} \cup Configs
Job == [type : Types \ {"noasset"}, ver : Versions] \cup [type : {"noasset"}, ver : {0}]

ASSUME SetupAssumption ==
    /\ Configs \cap {"build", "asset", "noasset"} = {}
    /\ Ships \subseteq Items
    /\ Versions \subseteq Nat \ {0}
    /\ Torn \notin Nat /\ Shipped \notin Nat /\ Torn # Shipped
    /\ Jobs \subseteq Job /\ NoJob \notin Job

FileOf(j) == IF j.type = "noasset" THEN "asset" ELSE j.type

VARIABLES
    pc,     \* step of the job, "idle", "save" (of the hashes) or "dead"
    job,    \* the job under way
    kept,   \* path_pairs is Some
    pairs,  \* the configurations in path_pairs that are still to be moved
    main,   \* the program directory exists
    build,  \* contents of the build in it
    here,   \* contents of the items in it
    temp,   \* the directory .temp exists
    there,  \* contents of the items in that
    hash,   \* ProgramHashesRes: versions of build and asset, 0 for None
    saved,  \* the hashes file, or Torn
    want,   \* history: what each file was last installed with, or Torn
    lost    \* history: items that were not in place when a build was begun

disc == <<main, build, here, temp, there>>
vars == <<pc, job, kept, pairs, disc, hash, saved, want, lost>>

ClearTemp == {"clear_temp", "drop_temp"}
BuildSteps == ClearTemp \cup {"make_temp", "save_asset", "save_configs", "clear_main",
    "make_main", "unpack", "return_asset", "return_configs"}
Steps == BuildSteps \cup {"clear_asset", "fill_asset", "open_config", "write_config"}

NoHashes == [f \in {"build", "asset"} |-> 0]
Nothing == [i \in Items |-> 0]

SetupTypeOK ==
    /\ pc \in Steps \cup {"idle", "save", "dead"}
    /\ job \in Job \cup {NoJob} /\ kept \in BOOLEAN /\ pairs \subseteq Configs
    /\ main \in BOOLEAN /\ build \in Versions \cup {0, Torn} /\ here \in [Items -> Content]
    /\ temp \in BOOLEAN /\ there \in [Items -> Content]
    /\ hash \in [{"build", "asset"} -> Versions \cup {0}]
    /\ saved \in [{"build", "asset"} -> Versions \cup {0}] \cup {Torn}
    /\ want \in [Items \cup {"build"} -> Versions \cup {0, Torn}] /\ lost \subseteq Items
    /\ ~main => build = 0 /\ here = Nothing
    /\ ~temp => there = Nothing

Init ==
    /\ pc = "idle" /\ job = NoJob /\ kept = FALSE /\ pairs = {}
    /\ main = FALSE /\ build = 0 /\ here = Nothing
    /\ temp = FALSE /\ there = Nothing
    /\ hash = NoHashes /\ saved = NoHashes
    /\ want = [f \in Items \cup {"build"} |-> 0] /\ lost = {}

-----------------------------------------------------------------------------
(* sys_apply_handler begins a job.  setup_program saves asset and
   configurations only from a directory that exists. *)
Begin(j) ==
    /\ pc = "idle"
    /\ job' = j
    /\ pc' = CASE j.type = "build" /\ main  -> IF temp THEN "clear_temp" ELSE "make_temp"
               [] j.type = "build" /\ ~main -> "make_main"
               [] FileOf(j) = "asset"       -> "clear_asset"
               [] j.type \in Configs        -> "open_config"
    /\ lost' = IF j.type = "build" THEN lost \cup {i \in Items : here[i] # want[i]} ELSE lost
    /\ want' = [want EXCEPT ![FileOf(j)] = Torn]
    /\ UNCHANGED <<kept, pairs, disc, hash, saved>>

(* A step of the job: from one place to the next, or, with `to` the same
   place, a part of it. *)
Step(at, to) ==
    /\ pc = at
    /\ pc' = to
    /\ UNCHANGED <<job, hash, saved, want, lost>>

(* The job is over; its local variables are gone. *)
Return(to) ==
    /\ pc' = to
    /\ job' = NoJob /\ kept' = FALSE /\ pairs' = {}

(* The job returns Ok and the handler records the hash of what it installed. *)
Succeed(f, v) ==
    /\ Return("idle")
    /\ hash' = IF f \in Configs THEN hash ELSE [hash EXCEPT ![f] = v]
    /\ want' = [want EXCEPT ![f] = v]
    /\ lost' = lost \ {f}
    /\ UNCHANGED saved

(* What deleting i leaves: a directory goes piece by piece. *)
Remains(i) == IF i = "asset" THEN {Torn, 0} ELSE {0}

(* fs::remove_dir_all of .temp, one entry after another. *)
RemoveTempEntry ==
    \E i \in Items, r \in {Torn, 0} :
        /\ there[i] # 0 /\ r # there[i] /\ r \in Remains(i)
        /\ there' = [there EXCEPT ![i] = r]
        /\ UNCHANGED <<kept, pairs, main, build, here, temp>>

TempRemoved ==
    /\ there = Nothing
    /\ temp' = FALSE
    /\ UNCHANGED <<kept, pairs, main, build, here, there>>

clear_temp ==
    \/ RemoveTempEntry /\ Step("clear_temp", "clear_temp")
    \/ TempRemoved /\ Step("clear_temp", "make_temp")

(* Variant for mutation runs: the directory is not created. *)
make_temp_NotCreated ==
    /\ Step("make_temp", "save_asset")
    /\ kept' = TRUE
    /\ pairs' = {c \in Configs : here[c] # 0}
    /\ UNCHANGED disc

(* Create it and note which configurations exist. *)
make_temp ==
    /\ Step("make_temp", "save_asset")
    /\ temp' = TRUE
    /\ kept' = TRUE
    /\ pairs' = {c \in Configs : here[c] # 0}
    /\ UNCHANGED <<main, build, here, there>>

(* fs::rename of item i from the program directory to .temp, and back. *)
MoveOut(i) ==
    /\ there' = [there EXCEPT ![i] = here[i]]
    /\ here' = [here EXCEPT ![i] = 0]
MoveBack(i) ==
    /\ here' = [here EXCEPT ![i] = there[i]]
    /\ there' = [there EXCEPT ![i] = 0]

save_asset ==
    /\ Step("save_asset", "save_configs")
    /\ IF here["asset"] # 0 THEN MoveOut("asset") ELSE UNCHANGED <<here, there>>
    /\ UNCHANGED <<kept, pairs, main, build, temp>>

(* Variant for mutation runs: configurations are not moved. *)
save_configs_Not ==
    /\ Step("save_configs", "clear_main")
    /\ UNCHANGED <<kept, pairs, disc>>

save_configs ==
    \/ /\ Step("save_configs", "save_configs")
       /\ \E c \in pairs : here[c] # 0 /\ MoveOut(c)
       /\ UNCHANGED <<kept, pairs, main, build, temp>>
    \/ /\ Step("save_configs", "clear_main")
       /\ \A c \in pairs : here[c] = 0
       /\ UNCHANGED <<kept, pairs, disc>>

(* What is left in the program directory is deleted, in two parts. *)
clear_main ==
    \/ /\ Step("clear_main", "clear_main")
       /\ build \notin {0, Torn}
       /\ build' = Torn
       /\ UNCHANGED <<kept, pairs, main, here, temp, there>>
    \/ /\ Step("clear_main", "make_main")
       /\ main' = FALSE /\ build' = 0 /\ here' = Nothing
       /\ UNCHANGED <<kept, pairs, temp, there>>

make_main ==
    /\ Step("make_main", "unpack")
    /\ main' = TRUE
    /\ UNCHANGED <<kept, pairs, build, here, temp, there>>

(* A part of the archive is unpacked, or the rest of it. *)
unpack ==
    /\ \E S \in SUBSET Ships :
          here' = [i \in Items |-> IF i \in S THEN Shipped ELSE here[i]]
    /\ \/ Step("unpack", "unpack") /\ build = 0 /\ build' = Torn
       \/ Step("unpack", IF kept THEN "return_asset" ELSE "drop_temp") /\ build' = job.ver
    /\ UNCHANGED <<kept, pairs, main, temp, there>>

(* Variant for mutation runs: the asset is moved back only if none was shipped. *)
return_asset_IfNone ==
    /\ Step("return_asset", "return_configs")
    /\ IF there["asset"] # 0 /\ here["asset"] = 0
       THEN MoveBack("asset") ELSE UNCHANGED <<here, there>>
    /\ UNCHANGED <<kept, pairs, main, build, temp>>

(* An empty directory of the name is replaced; one with something in it makes
   the call fail. *)
return_asset ==
    /\ Step("return_asset", "return_configs")
    /\ IF there["asset"] # 0 THEN MoveBack("asset") ELSE UNCHANGED <<here, there>>
    /\ UNCHANGED <<kept, pairs, main, build, temp>>

(* What was shipped under the name of a configuration is replaced. *)
return_configs ==
    \/ /\ Step("return_configs", "return_configs")
       /\ \E c \in pairs : MoveBack(c) /\ pairs' = pairs \ {c}
       /\ UNCHANGED <<kept, main, build, temp>>
    \/ /\ Step("return_configs", "drop_temp")
       /\ pairs = {}
       /\ UNCHANGED <<kept, pairs, disc>>

(* Delete .temp, also one of an earlier attempt; then setup_program is over. *)
drop_temp ==
    \/ RemoveTempEntry /\ Step("drop_temp", "drop_temp")
    \/ /\ pc = "drop_temp"
       /\ there = Nothing
       /\ temp' = FALSE
       /\ UNCHANGED <<main, build, here, there>>
       /\ Succeed("build", job.ver)

setup_program == \/ clear_temp \/ make_temp \/ save_asset \/ save_configs \/ clear_main
                 \/ make_main \/ unpack \/ return_asset \/ return_configs \/ drop_temp

-----------------------------------------------------------------------------
(* The first step of setup_asset, the only one of remove_asset: delete the
   asset's directory, which is an error if there is none. *)
clear_asset ==
    /\ pc = "clear_asset"
    /\ here["asset"] # 0
    /\ \/ /\ Step("clear_asset", "clear_asset")
          /\ here["asset"] # Torn
          /\ here' = [here EXCEPT !["asset"] = Torn]
          /\ UNCHANGED <<kept, pairs, main, build, temp, there>>
       \/ /\ job.type = "asset"
          /\ Step("clear_asset", "fill_asset")
          /\ here' = [here EXCEPT !["asset"] = 0]
          /\ UNCHANGED <<kept, pairs, main, build, temp, there>>
       \/ /\ job.type = "noasset"
          /\ here' = [here EXCEPT !["asset"] = 0]
          /\ UNCHANGED <<main, build, temp, there>>
          /\ Succeed("asset", 0)

(* Create it anew, empty, and unpack the archive. *)
fill_asset ==
    \/ /\ Step("fill_asset", "fill_asset")
       /\ here["asset"] = 0
       /\ here' = [here EXCEPT !["asset"] = Torn]
       /\ UNCHANGED <<kept, pairs, main, build, temp, there>>
    \/ /\ pc = "fill_asset"
       /\ here["asset"] = Torn
       /\ here' = [here EXCEPT !["asset"] = job.ver]
       /\ UNCHANGED <<main, build, temp, there>>
       /\ Succeed("asset", job.ver)

(* setup_config creates the directory if need be, truncates and writes. *)
open_config ==
    \/ /\ Step("open_config", "open_config")
       /\ ~main /\ main' = TRUE
       /\ UNCHANGED <<kept, pairs, build, here, temp, there>>
    \/ /\ Step("open_config", "write_config")
       /\ main
       /\ here' = [here EXCEPT ![job.type] = Torn]
       /\ UNCHANGED <<kept, pairs, main, build, temp, there>>

write_config ==
    /\ pc = "write_config"
    /\ here' = [here EXCEPT ![job.type] = job.ver]
    /\ UNCHANGED <<main, build, temp, there>>
    /\ Succeed(job.type, job.ver)

setup_config == open_config \/ write_config

(* Variant for mutation runs: the hash is recorded in any case. *)
Fails_Recorded ==
    /\ pc \in Steps
    /\ Return("idle")
    /\ hash' = IF job.type \in Configs THEN hash ELSE [hash EXCEPT ![FileOf(job)] = job.ver]
    /\ UNCHANGED <<disc, saved, want, lost>>

(* The call that comes next fails, and the job with it. *)
Fails ==
    /\ pc \in Steps
    /\ Return("idle")
    /\ UNCHANGED <<disc, hash, saved, want, lost>>

-----------------------------------------------------------------------------
(* write_programs_hashes: the file is truncated, then written; an error is a
   panic, which is the crash at "save". *)
sys_hash_saver ==
    /\ \/ pc = "idle" /\ pc' = "save" /\ saved' = Torn
       \/ pc = "save" /\ pc' = "idle" /\ saved' = hash
    /\ UNCHANGED <<job, kept, pairs, disc, hash, want, lost>>

Crash ==
    /\ pc # "dead"
    /\ Return("dead")
    /\ UNCHANGED <<disc, hash, saved, want, lost>>

(* read_programs_hashes: a file that cannot be decoded counts as none. *)
startup ==
    /\ pc = "dead" /\ pc' = "idle"
    /\ hash' = IF saved = Torn THEN NoHashes ELSE saved
    /\ UNCHANGED <<job, kept, pairs, disc, saved, want, lost>>

Next ==
    \/ \E j \in Jobs : Begin(j)
    \/ setup_program \/ clear_asset \/ fill_asset \/ setup_config \/ Fails
    \/ sys_hash_saver \/ Crash \/ startup

SetupSpec == Init /\ [][Next]_vars

-----------------------------------------------------------------------------
(* One attempt loses nothing: an item that was in place when a build was begun
   is, at every step of it and after its failure or a crash, complete in one of
   the two directories (mos.rs:228-308). *)
WhereItIs ==
    \A i \in Items \ lost : want[i] \in Versions => want[i] \in {here[i], there[i]}

(* After a build that succeeded there is no .temp, and all that was in place
   before is in place again, though the archive holds files of the same names
   (mos.rs:280-310). *)
SuccessIsClean ==
    want["build"] \in Versions =>
        /\ ~temp /\ build = want["build"]
        /\ \A i \in Items \ lost : want[i] \in Versions => here[i] = want[i]

(* What mos.rs:285 says of the end of an installation, "return copied files
   with full paths to program dir": whatever was installed last is there. *)
SuccessReturnsAll ==
    want["build"] \in Versions =>
        \A i \in Items : want[i] \in Versions => here[i] = want[i]

(* The two files as their user finds them: what is not as it was last installed
   counts as damaged, which is every file while it is replaced.  An asset that
   only came with a build counts as none, and one that a build has in .temp as
   in place until that build is over. *)
Found(f) == IF f = "build" THEN build ELSE here[f]
Seen == [f \in {"build", "asset"} |->
          IF \/ Found(f) = want[f]
             \/ want[f] = 0 /\ Found(f) = Shipped
             \/ pc \in BuildSteps /\ f \in Items \ lost /\ there[f] = want[f]
          THEN want[f] ELSE Torn]

(* For its caller an installation is one step that changes one file and its
   hash, or an error that changes no hash and damages that file at most, or the
   asset (program_updater.rs:352-398). *)
Inst == INSTANCE Installer WITH Broken <- Torn, disk <- Seen

ImplementsInstaller == Inst!Spec
=============================================================================
