--------------------------- MODULE MCSendManager ---------------------------
(***************************************************************************)
(* Instances of SendManager for TLC.                                       *)
(***************************************************************************)
EXTENDS SendManager

(* Every two messages have different times. *)
MCDistinct == [m \in Msgs |-> {m}]

MCOneReading == [m \in Msgs |-> {1}]

(* Message 2 may have the time of message 1, so that one file can be two   *)
(* messages; the others have times of their own.                           *)
MCTwin == [m \in Msgs |-> IF m = 2 THEN {1, 2} ELSE {m}]
=============================================================================
