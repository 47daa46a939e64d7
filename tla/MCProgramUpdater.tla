-------------------------- MODULE MCProgramUpdater --------------------------
(***************************************************************************)
(* Instances of ProgramUpdater for TLC.                                    *)
(***************************************************************************)
EXTENDS ProgramUpdater, TLC

CONSTANTS p1, other, s1, s2

MCOne == {p1}
MCNone == {}
MCSlots == {s1, s2}
MCVersions == {1, 2}
MCOneVersion == {1}
MCOneSlot == {s1}

MCOffersBuild == {<<p1, "build">>}
MCOffersAll == {<<p1, "build">>, <<p1, "asset">>, <<p1, "noasset">>, <<p1, "config">>,
                <<other, "build">>}
MCOffersFiles == {<<p1, "build">>, <<p1, "asset">>, <<p1, "noasset">>}
MCOffersEnd == {<<p1, "config">>, <<other, "build">>}
MCPids == {p1, other}
MCSymmetry == Permutations(MCSlots)

(* Systems that touch no common variable give the same result in any order; one
   order of these groups stands for all, inside a group every order is explored. *)
Chain(groups) == UNION {groups[i] \X groups[i+1] : i \in 1..(Len(groups)-1)}

MCMainBefore ==
    Chain(<< {"terminator"}, {"run_checker"}, {"rrq_update"}, {"runner"},
             {"sys_new_handler"}, {"sys_get_handler"},
             {"phq_update", "sys_apply_handler"},
             {"terminate_adder", "terminate_cleaner", "trq_update", "sys_terminate_handler"} >>)

(* For the runs that are not about the events of the poll: one order of that stage. *)
MCOneHandleOrder ==
    MCMainBefore \cup Chain(<< {"puq_update"}, {"sys_config_updater"}, {"sys_update_checker"} >>)

(* For the runs that are not about requests to terminate: one order of their systems. *)
MCOneRequestOrder ==
    MCMainBefore \cup Chain(<< {"trq_update"}, {"terminate_adder"},
                               {"terminate_cleaner"}, {"sys_terminate_handler"} >>)
=============================================================================
