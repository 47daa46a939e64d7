----------------------------- MODULE Installer -----------------------------
(***************************************************************************)
(* What an installation promises: program_updater.rs relies on it when it  *)
(* records a hash after mos::setup_program, setup_asset or remove_asset    *)
(* (src/src/program_updater.rs:352-398), and so does the single step that  *)
(* ProgramUpdater has for it.  A success changes one file and its hash; a  *)
(* failure changes no hash, and breaks no other file than its own or, for  *)
(* a build, the asset, which setup_program moves out and back.             *)
(***************************************************************************)
EXTENDS Integers

CONSTANTS Versions, Broken

VARIABLES
    disk,   \* contents of the two files: a version, 0 for none, or Broken
    hash,   \* the hashes in memory
    saved   \* the hashes file; Broken when its writing was cut off

vars == <<disk, hash, saved>>

Files == {"build", "asset"}
NoHashes == [f \in Files |-> 0]

Init == disk = NoHashes /\ hash = NoHashes /\ saved = NoHashes

Succeed(f, v) ==
    /\ disk' = [disk EXCEPT ![f] = v]
    /\ hash' = [hash EXCEPT ![f] = v]
    /\ UNCHANGED saved

Touches(f) == IF f = "build" THEN Files ELSE {f}

Fail(f) ==
    /\ \E bad \in SUBSET Touches(f) :
         disk' = [g \in Files |-> IF g \in bad THEN Broken ELSE disk[g]]
    /\ UNCHANGED <<hash, saved>>

(* The hashes file is written in place, in two steps. *)
Save == saved' \in {hash, Broken} /\ UNCHANGED <<disk, hash>>

(* The next process reads what is saved, and starts without hashes if it cannot. *)
Restart ==
    /\ hash' = IF saved = Broken THEN NoHashes ELSE saved
    /\ UNCHANGED <<disk, saved>>

Next ==
    \/ \E v \in Versions, f \in Files : Succeed(f, v)
    \/ Succeed("asset", 0)
    \/ \E f \in Files : Fail(f)
    \/ Save \/ Restart

Spec == Init /\ [][Next]_vars
=============================================================================
