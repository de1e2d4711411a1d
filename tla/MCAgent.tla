-------------------------------- MODULE MCAgent -------------------------------
(***************************************************************************)
(* An instance of Agent: a process of one release and one of the next.    *)
(***************************************************************************)
EXTENDS Agent

MCProcesses == {"old", "new"}
MCRelease == [p \in MCProcesses |-> IF p = "new" THEN 2 ELSE 1]
MCCRDs == <<"appliedmanifestworks", "clusterclaims">>
===============================================================================
