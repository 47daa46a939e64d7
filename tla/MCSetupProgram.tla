--------------------------- MODULE MCSetupProgram ---------------------------
(* A program with an asset, of two versions, and a configuration file.  The
   archive of a build may hold both, too. *)
EXTENDS SetupProgram

MCConfigs == {"cfg"}
MCJobs    == {j \in Job : j.type # "asset" => j.ver <= 1}
=============================================================================
