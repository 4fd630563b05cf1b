------------------------------ MODULE MCStack ------------------------------
(* An instance of Stack for TLC: the file of the repository under every kind *)
(* of settings, and each edit of it that drops an edge, puts another         *)
(* condition on one, drops a healthcheck, or has the migrations restarted,   *)
(* under the settings it comes with.                                         *)
EXTENDS Stack

MCOrigins == {"*", "app"}

Config(production, longKey, origins) ==
    [production |-> production, longKey |-> longKey, origins |-> origins]

Allowed == {Config(FALSE, TRUE, {"*"}), Config(FALSE, FALSE, {"*", "app"}),
            Config(FALSE, TRUE, {}),    Config(TRUE, TRUE, {"app"})}
Refused == {Config(TRUE, FALSE, {"app"}), Config(TRUE, TRUE, {"*", "app"})}

\* The worker's edges are those of the api.
Edited   == {e \in RealEdges : e.from # "worker"}
Dropped  == {[Real EXCEPT !.edges = @ \ {e}] : e \in Edited}
On(e, c) == [Real EXCEPT !.edges = (@ \ {e}) \cup {[e EXCEPT !.on = c]}]
Changed  == {On(e, "started") : e \in Edited} \cup {On(Edge("api", "db", "healthy"), "completed")}
Unproved == {[Real EXCEPT !.probes = @ \ {s}] : s \in {"db", "redis"}}
Looping  == [Real EXCEPT !.restarts = Services]

MCDeployments ==
    {[file |-> Real, settings |-> c] : c \in Allowed \cup Refused}
    \cup {[file |-> f, settings |-> Config(FALSE, TRUE, {"*"})] :
              f \in Dropped \cup Changed \cup Unproved \cup {Looping}}
=============================================================================
