------------------------------- MODULE MCIpcm -------------------------------
(* Two connections to one listener and one to the other, which is a log of an
   unknown program. *)
EXTENDS Ipcm

CONSTANTS a, b, c

MCConns == {a, b, c}
MCSockets == {"mp", "json"}
MCSocketOf == [x \in MCConns |-> IF x = c THEN "json" ELSE "mp"]
MCUnknown == {c}
=============================================================================
