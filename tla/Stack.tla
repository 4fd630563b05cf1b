------------------------------- MODULE Stack -------------------------------
(***************************************************************************)
(* The containers of backend/docker-compose.yml: the order `up` starts     *)
(* them in, what each does before it is ready, and what the restart        *)
(* policies do to that order after a crash or a reboot of the host.  The   *)
(* file is the one in the repository or an edit of it that                 *)
(* scripts/check_config_consistency.py lets through, so the runs also say  *)
(* what the verdict of that script is worth.                               *)
(***************************************************************************)
EXTENDS Naturals, FiniteSets

CONSTANTS Origins,      \* origins a front end may have, "*" among them
          Deployments,  \* compose files somebody may commit, with settings
          MaxFaults     \* bound: crashes, reboots, repeated ups, downs

Services == {"db", "redis", "migrate", "api", "worker"}
Apps     == {"migrate", "api", "worker"}

-----------------------------------------------------------------------------
(* The compose file and its check.                                         *)

Edge(s, d, c) == [from |-> s, to |-> d, on |-> c]

Files == [edges  : SUBSET [from : Services, to : Services,
                           on : {"started", "healthy", "completed"}],
          probes : SUBSET Services,
          restarts : SUBSET Services]

\* The file before the healthchecks: `depends_on: [db, redis]` and no migrations.
RealEdgesShort ==
    {Edge("migrate", "db", "healthy")}
    \cup {Edge(s, d, "started") : s \in {"api", "worker"}, d \in {"db", "redis"}}
    \cup {Edge(s, "migrate", "completed") : s \in {"api", "worker"}}

RealEdgesUngated ==
    {Edge("migrate", "db", "healthy")}
    \cup {Edge(s, d, "healthy") : s \in {"api", "worker"}, d \in {"db", "redis"}}

RealEdges ==
    {Edge("migrate", "db", "healthy")}
    \cup {Edge(s, d, "healthy") : s \in {"api", "worker"}, d \in {"db", "redis"}}
    \cup {Edge(s, "migrate", "completed") : s \in {"api", "worker"}}

Real == [edges |-> RealEdges, probes |-> {"db", "redis", "api"},
         restarts |-> {"db", "redis", "api", "worker"}]

EdgesOf(f, s) == {e \in f.edges : e.from = s}

EnvHosts(s) == CASE s = "migrate"            -> {"db"}
                 [] s \in {"api", "worker"}  -> {"db", "redis"}
                 [] OTHER                    -> {}

\* An application whose environment names a service it does not depend on.
Undeclared(f) ==
    UNION {{<<s, h>> : h \in EnvHosts(s) \ ({s} \cup {e.to : e \in EdgesOf(f, s)})} :
              s \in Apps}

\* An edge that waits for the health of a service without a healthcheck.
UnprobedNever(f) == {}
Unprobed(f) == {e \in f.edges : e.on = "healthy" /\ e.to \notin f.probes}

Accepted(f) == Undeclared(f) = {} /\ Unprobed(f) = {}

-----------------------------------------------------------------------------
(* The settings of the api and the worker.                                 *)

Settings == [production : BOOLEAN, longKey : BOOLEAN, origins : SUBSET Origins]

ASSUME DeploymentsAssumption == Deployments \subseteq [file : Files, settings : Settings]
ASSUME MaxFaultsAssumption   == MaxFaults \in Nat

KeyRefused(c)  == c.production /\ ~c.longKey
CorsRefused(c) == c.production /\ "*" \in c.origins

\* Nobody may cross origins.
Closed == [allow |-> {}, credentials |-> FALSE]

Resolve(c) ==
    IF "*" \in c.origins
    THEN [allow |-> {"*"}, credentials |-> FALSE]
    ELSE [allow |-> c.origins, credentials |-> c.origins # {}]

-----------------------------------------------------------------------------

VARIABLES
    file,      \* the compose file that was deployed
    settings,  \* what the environment says
    state,     \* per container: absent, starting, ready, done or dead
    health,    \* per container: what Docker has found out, if it probes it
    up,        \* the `docker compose up` of the operator
    todo,      \* what it has yet to start
    schema,    \* whether the volume of the database holds the tables
    sweep,     \* what became of the export recovery at the last API start
    served,    \* what the CORS middleware of the running API was given
    fell,      \* history: API or database, if dead since `up` last started the API
    faults     \* bound: crashes, reboots, repeated ups and downs so far

svars == <<file, settings, state, health, up, todo, schema, sweep, served, fell, faults>>

given == <<file, settings>>

Running == {s \in Services : state[s] \in {"starting", "ready"}}

STypeOK ==
    /\ [file |-> file, settings |-> settings] \in Deployments
    /\ settings \in Settings
    /\ state \in [Services -> {"absent", "starting", "ready", "done", "dead"}]
    /\ health \in [Services -> {"unknown", "healthy", "unhealthy"}]
    /\ up \in {"idle", "going", "returned", "aborted"}
    /\ todo \in SUBSET Services
    /\ schema \in BOOLEAN
    /\ sweep \in {"none", "done", "skipped"}
    /\ served \in [allow : SUBSET Origins, credentials : BOOLEAN]
    /\ fell \in SUBSET {"api", "db"}
    /\ faults \in 0..MaxFaults

Nothing == [s \in Services |-> "absent"]

Unknown == [s \in Services |-> "unknown"]

\* Only what the check lets through is deployed.
SInit ==
    /\ \E d \in Deployments : Accepted(d.file) /\ file = d.file /\ settings = d.settings
    /\ state = Nothing /\ health = Unknown
    /\ up = "idle" /\ todo = {}
    /\ schema = FALSE
    /\ sweep = "none" /\ served = Closed
    /\ fell = {} /\ faults = 0

Fault == faults < MaxFaults /\ faults' = faults + 1

-----------------------------------------------------------------------------
(* docker compose up.                                                      *)

\* It starts every container that is not running, an exited migrate included;
\* an operator tries again until it has returned.
Up ==
    /\ \/ up \in {"idle", "aborted"} /\ UNCHANGED faults
       \/ up = "returned" /\ Fault
    /\ up' = "going"
    /\ todo' = Services \ Running
    /\ UNCHANGED <<given, state, health, schema, sweep, served, fell>>

Satisfied(e) ==
    /\ e.to \notin todo
    /\ e.on = "healthy" => health[e.to] = "healthy"
    /\ e.on = "completed" => state[e.to] = "done"

Launch(s) ==
    /\ up = "going" /\ s \in todo
    /\ \A e \in EdgesOf(file, s) : Satisfied(e)
    /\ todo' = todo \ {s}
    /\ IF s \in Running
       THEN UNCHANGED <<state, fell>>
       ELSE /\ state' = [state EXCEPT ![s] = "starting"]
            /\ fell' = IF s = "api" THEN {} ELSE fell
    /\ UNCHANGED <<given, health, up, schema, sweep, served, faults>>

UpReturns ==
    /\ up = "going" /\ todo = {}
    /\ up' = "returned"
    /\ UNCHANGED <<given, state, health, todo, schema, sweep, served, fell, faults>>

\* A dependency that failed, or that Docker gave up probing, ends it.
Abort ==
    /\ up = "going"
    /\ \E s \in todo : \E e \in EdgesOf(file, s) :
          /\ e.to \notin todo
          /\ \/ e.on = "completed" /\ state[e.to] = "dead"
             \/ e.on = "healthy" /\ health[e.to] = "unhealthy"
    /\ up' = "aborted" /\ todo' = {}
    /\ UNCHANGED <<given, state, health, schema, sweep, served, fell, faults>>

-----------------------------------------------------------------------------
(* What the containers do.                                                 *)

\* Postgres, Redis and the Celery worker, which waits for its broker by itself.
Ready(s) ==
    /\ state[s] = "starting"
    /\ \/ s \in {"db", "redis"}
       \/ s = "worker" /\ ~KeyRefused(settings)
    /\ state' = [state EXCEPT ![s] = "ready"]
    /\ UNCHANGED <<given, health, up, todo, schema, sweep, served, fell, faults>>

\* alembic upgrade head, with the defaults for everything but URL and key.
MigrateEndsAlways ==
    /\ state["migrate"] = "starting"
    /\ state' = [state EXCEPT !["migrate"] = "done"]
    /\ schema' = (schema \/ state["db"] = "ready")
    /\ UNCHANGED <<given, health, up, todo, sweep, served, fell, faults>>

MigrateEnds ==
    /\ state["migrate"] = "starting"
    /\ IF state["db"] = "ready"
       THEN state' = [state EXCEPT !["migrate"] = "done"] /\ schema' = TRUE
       ELSE state' = [state EXCEPT !["migrate"] = "dead"] /\ UNCHANGED schema
    /\ UNCHANGED <<given, health, up, todo, sweep, served, fell, faults>>

\* Importing app.main resolves settings and CORS; on_startup sweeps the stranded
\* exports if the database answers, and serves in any case.
ApiServes ==
    /\ state["api"] = "starting"
    /\ ~KeyRefused(settings) /\ ~CorsRefused(settings)
    /\ state' = [state EXCEPT !["api"] = "ready"]
    /\ served' = Resolve(settings)
    /\ sweep' = IF state["db"] = "ready" /\ schema THEN "done" ELSE "skipped"
    /\ UNCHANGED <<given, health, up, todo, schema, fell, faults>>

\* The process exits while it imports its settings.
StartRefused(s) ==
    /\ s \in {"api", "worker"} /\ state[s] = "starting"
    /\ \/ KeyRefused(settings)
       \/ s = "api" /\ CorsRefused(settings)
    /\ state' = [state EXCEPT ![s] = "dead"]
    /\ UNCHANGED <<given, health, up, todo, schema, sweep, served, fell, faults>>

-----------------------------------------------------------------------------
(* Docker: probes, restart policies; crashes, reboots, and taking it down. *)

\* Health nobody waits for is left out.
Probed == {s \in file.probes : \E e \in file.edges : e.on = "healthy" /\ e.to = s}

ProbeAnswers(s) ==
    /\ s \in Probed /\ state[s] = "ready" /\ health[s] # "healthy"
    /\ health' = [health EXCEPT ![s] = "healthy"]
    /\ UNCHANGED <<given, state, up, todo, schema, sweep, served, fell, faults>>

\* Slower to be ready than start_period and retries allow.
ProbeFails(s) ==
    /\ s \in Probed /\ state[s] = "starting" /\ health[s] = "unknown"
    /\ health' = [health EXCEPT ![s] = "unhealthy"]
    /\ UNCHANGED <<given, state, up, todo, schema, sweep, served, fell, faults>>

\* restart: unless-stopped, without a look at depends_on or at the exit code.
PolicyRestart(s) ==
    /\ s \in file.restarts /\ state[s] \in {"done", "dead"}
    /\ state' = [state EXCEPT ![s] = "starting"]
    /\ UNCHANGED <<given, health, up, todo, schema, sweep, served, fell, faults>>

Die(S) ==
    /\ state'  = [s \in Services |-> IF s \in S THEN "dead" ELSE state[s]]
    /\ health' = [s \in Services |-> IF s \in S THEN "unknown" ELSE health[s]]
    /\ fell'   = fell \cup (S \cap {"api", "db"})
    /\ IF "api" \in S THEN served' = Closed /\ sweep' = "none"
                      ELSE UNCHANGED <<served, sweep>>

Crash(s) ==
    /\ s \in Running /\ Fault /\ Die({s})
    /\ UNCHANGED <<given, up, todo, schema>>

Reboot ==
    /\ Running # {} /\ Fault /\ Die(Running)
    /\ up' = "idle" /\ todo' = {}
    /\ UNCHANGED <<given, schema>>

\* docker compose down -v, as the CI job ends.
Down ==
    /\ up \in {"returned", "aborted"} /\ Fault
    /\ up' = "idle"
    /\ state' = Nothing /\ health' = Unknown
    /\ schema' = FALSE /\ sweep' = "none" /\ served' = Closed /\ fell' = {}
    /\ UNCHANGED <<given, todo>>

-----------------------------------------------------------------------------

Compose    == (up # "returned" /\ Up) \/ (\E s \in Services : Launch(s)) \/ UpReturns \/ Abort
GetReady   == ApiServes \/ \E s \in Services : Ready(s)
GetProbed  == \E s \in Services : ProbeAnswers(s)
GetRevived == \E s \in Services : PolicyRestart(s)

SNext ==
    \/ Up \/ UpReturns \/ Abort \/ MigrateEnds \/ ApiServes \/ Reboot \/ Down
    \/ \E s \in Services :
          \/ Launch(s) \/ Ready(s) \/ StartRefused(s) \/ ProbeAnswers(s)
          \/ ProbeFails(s) \/ PolicyRestart(s) \/ Crash(s)

SSpec == SInit /\ [][SNext]_svars

\* Compose, Docker and the processes go on, and the operator repeats `up` until
\* it returns; nothing has to fail, and a refused start need not be noticed.
SFairSpec == /\ SSpec
             /\ WF_svars(Compose) /\ WF_svars(GetReady) /\ WF_svars(MigrateEnds)
             /\ WF_svars(GetProbed) /\ WF_svars(GetRevived)

-----------------------------------------------------------------------------
(* Properties.                                                             *)

\* Whether a service waits for what it waits for in the repository.
Kept(s) == EdgesOf(file, s) = EdgesOf(Real, s)

\* docker-compose.yml, on the service migrate: neither the API nor the worker is
\* ever started against a database without tables, however the host, the
\* database or the migration itself fails in between.
StartedOnSchema ==
    \A s \in {"api", "worker"} : Kept(s) /\ state[s] # "absent" => schema

\* docker-compose.yml, on depends_on of the api: if the recovery of exports was
\* skipped, then because the database or the API died after `up` had started
\* the API; nothing makes a restart policy wait for a database.
SkippedHasReason ==
    Kept("api") /\ sweep = "skipped" => fell # {}

\* core/config.py and core/cors.py: an API that serves in production has a long
\* key and named origins, and never pairs the wildcard with credentials.
ServesSafely ==
    state["api"] = "ready" =>
        /\ served.allow \subseteq settings.origins
        /\ settings.production => settings.longKey /\ "*" \notin served.allow
        /\ served.credentials => served.allow # {} /\ "*" \notin served.allow

\* check_config_consistency.py, check_compose: in a file it accepts no service is
\* started before the hosts its environment names exist.
HostsExist ==
    \A s \in Services : state[s] # "absent" =>
        \A h \in EnvHosts(s) : state[h] # "absent"

\* What `up` is done with exists.
Begun ==
    /\ todo # {} => up = "going"
    /\ up = "going" => \A s \in Services \ todo : state[s] # "absent"

\* An API that waits for what it should, started and undisturbed since, has the
\* database and its tables at hand.
Undisturbed ==
    Kept("api") /\ state["api"] # "absent" /\ fell = {} => state["db"] = "ready" /\ schema

\* The inductive invariant: the properties above; and what a container's state
\* tells of another's: health is known of a live process only, migrations that
\* ended well made the tables (in whatever order the rest was started), the API
\* serves after its recovery.
StackInv ==
    /\ STypeOK /\ Accepted(file)
    /\ Begun /\ Undisturbed
    /\ \A s \in Services : health[s] = "healthy" => state[s] = "ready"
    /\ state["migrate"] = "done" => schema
    /\ state["api"] = "ready" <=> sweep # "none"
    /\ ServesSafely /\ HostsExist /\ StartedOnSchema /\ SkippedHasReason

\* A file that asks for nothing its services cannot do: what serves is restarted
\* and never completes, the migrations are not restarted and are never healthy.
\* The check of the file looks at none of this: it accepts an api that waits for
\* db to complete, and then `up` waits forever.
Attainable(f) ==
    /\ f.restarts = Services \ {"migrate"}
    /\ \A e \in f.edges : e.on # (IF e.to = "migrate" THEN "healthy" ELSE "completed")

\* docker-compose.yml, on the healthchecks ("they would never start"): with
\* settings it may start with, an attainable file among those deployed that the
\* check accepts comes up for good once the failures end: nothing waits for a
\* healthcheck that does not exist, and a failed migration is made up for by the
\* next `up`.
ComesUp ==
    Attainable(file) /\ ~KeyRefused(settings) /\ ~CorsRefused(settings) =>
        <>[](state["api"] = "ready" /\ state["worker"] = "ready" /\ schema)
=============================================================================
