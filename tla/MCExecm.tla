------------------------------ MODULE MCExecm ------------------------------
(***************************************************************************)
(* Instances of Execm for TLC.  p1 is always kept running and is stopped   *)
(* by IPC; p2 runs on request and is killed by name, which hits p1 too.    *)
(***************************************************************************)
EXTENDS Execm, TLC

CONSTANTS p1, p2

MCPrograms == {p1, p2}
MCKeepRun == {p1}
MCHasIpc == {p1}
MCNameMatches == {<<p2, p2>>, <<p2, p1>>}

(* Systems that touch no common variable give the same result in any order, so
   one order of the groups {terminator}, {run_checker}, {runner, rrq_update}
   and {terminate_adder, terminate_cleaner, trq_update} stands for all; inside
   a group every order is explored. *)
MCGroups == << {"terminator"}, {"run_checker"}, {"runner", "rrq_update"},
               {"terminate_adder", "terminate_cleaner", "trq_update"} >>

MCBefore == UNION {MCGroups[i] \X MCGroups[i+1] : i \in 1..3}
=============================================================================
