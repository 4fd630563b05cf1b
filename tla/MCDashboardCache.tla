------------------------- MODULE MCDashboardCache -------------------------
(* Instances of DashboardCache for TLC: a status change and the deletion of  *)
(* one issue, the deletion of its project, and a change to another project   *)
(* of the same owner.                                                        *)
EXTENDS DashboardCache

CONSTANTS wStatus, wDelIssue, wDelProject, wOther, issue, project, other

MCNeeds   == [w \in Writers |-> CASE w = wStatus     -> {issue, project}
                                 [] w = wDelIssue   -> {project}
                                 [] w = wDelProject -> {}
                                 [] w = wOther      -> {other}]
MCDeletes == [w \in Writers |-> CASE w = wDelIssue   -> {issue}
                                 [] w = wDelProject -> {project, issue}
                                 [] OTHER           -> {}]
=============================================================================
