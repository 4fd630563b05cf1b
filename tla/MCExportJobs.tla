---------------------------- MODULE MCExportJobs ----------------------------
(* Instances of ExportJobs for TLC: jobs that share a project and differ in  *)
(* their requester, and the disturbances of each run.                        *)
EXTENDS ExportInvariant

CONSTANTS j1, j2, project, requester

OneParent  == [j \in Jobs |-> {project}]
TwoParents == [j \in Jobs |-> IF j = j1 THEN {project} ELSE {project, requester}]

Ordinary    == {"taskError", "publishError", "delete"}
EveryFault  == DisturbanceKinds \ {"slow", "duplicate", "lostReply"}
Unreliable  == DisturbanceKinds \ {"dbError", "delete"}
=============================================================================
