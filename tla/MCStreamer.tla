----------------------------- MODULE MCStreamer -----------------------------
(* Instances of Streamer for TLC. *)
EXTENDS Streamer

CONSTANTS keep, one, two

MCOne == {keep, one}
MCTwo == {one, two}
MCKeep == {keep}
MCStopped == {one}
MCAsked == {one, two}
MCPids == {keep, one, two}
MCNone == {}

(* Systems that touch no common variable give the same result in any order; one
   order of these groups stands for all.  Inside a group every order is explored. *)
MCGroups == << {"terminator"}, {"run_checker"}, {"trq_update"}, {"terminate_adder"},
               {"terminate_cleaner"}, {"rrq_update", "runner", "stream_runner"},
               {"transfer"}, {"stream_terminator"} >>

MCBefore == UNION {MCGroups[i] \X MCGroups[i+1] : i \in 1..7}
=============================================================================
