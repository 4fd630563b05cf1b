--------------------------- MODULE Platform_proofs ---------------------------
(***************************************************************************)
(* Proofs about what the application runs on: the containers (Stack), for  *)
(* every file the check accepts, all settings and any number of faults,    *)
(* and the database connections of one API process (ConnectionPool), for   *)
(* every number of requests, sockets, connections, threads and outages.    *)
(***************************************************************************)
EXTENDS Stack, ConnectionPool, FiniteSetTheorems, TLAPS

-----------------------------------------------------------------------------
(* The containers.                                                         *)

\* What the file of the repository says of a service that keeps its edges.
LEMMA KeptEdges ==
    ASSUME NEW s \in {"api", "worker"}, Kept(s)
    PROVE  /\ Edge(s, "db", "healthy") \in EdgesOf(file, s)
           /\ Edge(s, "migrate", "completed") \in EdgesOf(file, s)
  BY DEF Kept, EdgesOf, Real, RealEdges, Edge

\* In a file that the check accepts every host a service names has an edge.
LEMMA HostEdges ==
    ASSUME Accepted(file), NEW s \in Services, NEW h \in EnvHosts(s)
    PROVE  \E e \in EdgesOf(file, s) : e.to = h
<1>1. s \in Apps /\ h \in Services /\ h # s
  BY DEF EnvHosts, Apps, Services
<1>2. <<s, h>> \notin Undeclared(file)
  BY DEF Accepted
<1>3. h \notin EnvHosts(s) \ ({s} \cup {e.to : e \in EdgesOf(file, s)})
  BY <1>1, <1>2 DEF Undeclared
<1>4. QED
  BY <1>1, <1>3

\* What main.py makes of settings that it does not refuse.
LEMMA Resolved ==
    ASSUME settings \in Settings, ~CorsRefused(settings)
    PROVE  LET v == Resolve(settings) IN
           /\ v \in [allow : SUBSET Origins, credentials : BOOLEAN]
           /\ v.allow \subseteq settings.origins
           /\ settings.production => "*" \notin v.allow
           /\ v.credentials => v.allow # {} /\ "*" \notin v.allow
  BY DEF Settings, CorsRefused, Resolve

LEMMA StackStarts == SInit => StackInv
<1> SUFFICES ASSUME SInit PROVE StackInv
  OBVIOUS
<1>1. [file |-> file, settings |-> settings] \in Deployments
  <2>1. PICK d \in Deployments : file = d.file /\ settings = d.settings
    BY DEF SInit
  <2>2. d \in [file : Files, settings : Settings]
    BY DeploymentsAssumption
  <2>3. d = [file |-> file, settings |-> settings]
    BY <2>1, <2>2
  <2>4. QED
    BY <2>3
<1>2. settings \in Settings
  BY <1>1, DeploymentsAssumption
<1>3. STypeOK
  <2>1. served \in [allow : SUBSET Origins, credentials : BOOLEAN]
    BY DEF SInit, Closed
  <2>2. state \in [Services -> {"absent", "starting", "ready", "done", "dead"}]
    BY DEF SInit, Nothing
  <2>3. health \in [Services -> {"unknown", "healthy", "unhealthy"}]
    BY DEF SInit, Unknown
  <2>4. faults \in 0..MaxFaults
    BY MaxFaultsAssumption DEF SInit
  <2>5. QED
    BY <1>1, <1>2, <2>1, <2>2, <2>3, <2>4 DEF SInit, STypeOK
<1>4. QED
  BY <1>3 DEF SInit, StackInv, Begun, Undisturbed, ServesSafely, HostsExist, StartedOnSchema,
              SkippedHasReason, Nothing, Unknown, Services

\* What does not touch a container keeps the invariant if it tells `up` right.
LEMMA UpKeeps ==
    ASSUME StackInv, Up \/ UpReturns \/ Abort PROVE StackInv'
<1>1. /\ UNCHANGED <<file, settings, state, health, schema, sweep, served, fell>>
      /\ faults' \in 0..MaxFaults
  BY MaxFaultsAssumption DEF Up, UpReturns, Abort, given, Fault, StackInv, STypeOK
<1>2. up' \in {"going", "returned", "aborted"} /\ todo' \in SUBSET Services /\ Begun'
  BY <1>1 DEF Up, UpReturns, Abort, Running, StackInv, STypeOK, Begun
<1>3. STypeOK'
  BY <1>1, <1>2 DEF StackInv, STypeOK
<1>4. QED
  BY <1>1, <1>2, <1>3 DEF StackInv, Accepted, Undeclared, Unprobed, Undisturbed, Kept, EdgesOf,
       ServesSafely, HostsExist, StartedOnSchema, SkippedHasReason

LEMMA LaunchKeeps ==
    ASSUME StackInv, NEW s \in Services, Launch(s) PROVE StackInv'
<1> USE DEF StackInv
<1>1. /\ UNCHANGED <<file, settings, health, up, schema, sweep, served, faults>>
      /\ up = "going" /\ s \in todo /\ todo' = todo \ {s}
      /\ \A e \in EdgesOf(file, s) : Satisfied(e)
  BY DEF Launch, given
<1>2. CASE s \in Running
  <2>1. UNCHANGED <<state, fell>> /\ state[s] # "absent"
    BY <1>2 DEF Launch, Running
  <2>2. STypeOK' /\ Begun'
    BY <1>1, <2>1 DEF STypeOK, Begun
  <2>3. QED
    BY <1>1, <2>1, <2>2 DEF Accepted, Undeclared, Unprobed, Undisturbed, Kept, EdgesOf,
         ServesSafely, HostsExist, StartedOnSchema, SkippedHasReason
<1>3. CASE s \notin Running
  <2>1. /\ state' = [state EXCEPT ![s] = "starting"] /\ state[s] # "ready"
        /\ state \in [Services -> {"absent", "starting", "ready", "done", "dead"}]
        /\ fell' = IF s = "api" THEN {} ELSE fell
    BY <1>3 DEF Launch, Running, STypeOK
  <2>2. STypeOK' /\ Begun'
    BY <1>1, <2>1 DEF STypeOK, Begun
  <2>3. s \in {"api", "worker"} /\ Kept(s) => health["db"] = "healthy" /\ state["migrate"] = "done"
    BY <1>1, KeptEdges DEF Satisfied, Edge
  <2>4. Undisturbed'
    BY <1>1, <2>1, <2>3 DEF Undisturbed, Kept, EdgesOf, Services
  <2>5. HostsExist'
    <3>1. \A h \in EnvHosts(s) : h \in Services /\ h \notin todo
      BY <1>1, HostEdges DEF Satisfied, EnvHosts, Services
    <3>2. QED
      BY <1>1, <2>1, <3>1 DEF HostsExist, Begun, EnvHosts, Services
  <2>6. StartedOnSchema' /\ SkippedHasReason'
    BY <1>1, <2>1, <2>3 DEF StartedOnSchema, SkippedHasReason, Kept, EdgesOf, Services
  <2>7. QED
    BY <1>1, <2>1, <2>2, <2>4, <2>5, <2>6 DEF Accepted, Undeclared, Unprobed, EdgesOf,
         ServesSafely, Services
<1>4. QED
  BY <1>2, <1>3

\* A container that goes on: from starting or dead, and not by `up`.
LEMMA GoesOn ==
    ASSUME StackInv, NEW s \in Services, NEW v \in {"starting", "ready", "done", "dead"},
           state[s] \in {"starting", "done", "dead"}, state' = [state EXCEPT ![s] = v],
           UNCHANGED <<file, settings, health, up, todo, fell, faults>>,
           schema => schema', schema' \in BOOLEAN,
           s = "migrate" /\ v = "done" => schema',
           s = "api" /\ v = "ready" => sweep' # "none",
           ~(s = "api" /\ v = "ready") => sweep' = sweep,
           STypeOK', ServesSafely',
           Kept("api") /\ sweep' = "skipped" => fell # {}
    PROVE  StackInv'
<1> USE DEF StackInv
<1>1. state \in [Services -> {"absent", "starting", "ready", "done", "dead"}]
  BY DEF STypeOK
<1>2. Begun' /\ HostsExist'
  BY <1>1 DEF Begun, HostsExist, EnvHosts, Services
<1>3. Undisturbed' /\ StartedOnSchema' /\ SkippedHasReason'
  BY <1>1 DEF Undisturbed, StartedOnSchema, SkippedHasReason, Kept, EdgesOf, Services
<1>4. /\ \A x \in Services : health'[x] = "healthy" => state'[x] = "ready"
      /\ state'["migrate"] = "done" => schema'
      /\ state'["api"] = "ready" <=> sweep' # "none"
  BY <1>1 DEF Services
<1>5. Accepted(file)'
  BY DEF Accepted, Undeclared, Unprobed, EdgesOf
<1>6. QED
  BY <1>2, <1>3, <1>4, <1>5

LEMMA ContainersKeep ==
    ASSUME StackInv, NEW s \in Services,
           Ready(s) \/ StartRefused(s) \/ PolicyRestart(s) \/ MigrateEnds
    PROVE  StackInv'
<1>1. PICK x \in Services, v \in {"starting", "ready", "done", "dead"} :
          /\ state[x] \in {"starting", "done", "dead"} /\ state' = [state EXCEPT ![x] = v]
          /\ ~(x = "api" /\ v = "ready")
          /\ x = "migrate" /\ v = "done" => schema'
  <2>1. CASE Ready(s)
    BY <2>1 DEF Ready, Services
  <2>2. CASE StartRefused(s)
    BY <2>2 DEF StartRefused
  <2>3. CASE PolicyRestart(s)
    BY <2>3 DEF PolicyRestart
  <2>4. CASE MigrateEnds
    BY <2>4 DEF MigrateEnds, Services
  <2>5. QED
    BY <2>1, <2>2, <2>3, <2>4
<1>2. UNCHANGED <<file, settings, health, up, todo, sweep, served, fell, faults>>
  BY DEF Ready, StartRefused, PolicyRestart, MigrateEnds, given
<1>3. STypeOK
  BY DEF StackInv
<1>4. schema' \in BOOLEAN
  BY <1>3 DEF Ready, StartRefused, PolicyRestart, MigrateEnds, STypeOK
<1>5. schema => schema'
  BY DEF Ready, StartRefused, PolicyRestart, MigrateEnds
<1>6. STypeOK'
  <2>1. state' \in [Services -> {"absent", "starting", "ready", "done", "dead"}]
    BY <1>1, <1>3 DEF STypeOK
  <2>2. QED
    BY <1>2, <1>3, <1>4, <2>1 DEF STypeOK
<1>7. ServesSafely'
  BY <1>1, <1>2 DEF StackInv, STypeOK, ServesSafely, Services
<1>8. Kept("api") /\ sweep' = "skipped" => fell # {}
  BY <1>2 DEF StackInv, SkippedHasReason
<1>9. sweep' = sweep /\ UNCHANGED <<file, settings, health, up, todo, fell, faults>>
  BY <1>2
<1>10. QED
  BY <1>1, <1>4, <1>5, <1>6, <1>7, <1>8, <1>9, GoesOn

LEMMA ApiServesKeeps ==
    ASSUME StackInv, ApiServes PROVE StackInv'
<1> USE DEF StackInv
<1>1. /\ state["api"] = "starting" /\ ~KeyRefused(settings) /\ ~CorsRefused(settings)
      /\ state' = [state EXCEPT !["api"] = "ready"]
      /\ UNCHANGED <<file, settings, health, up, todo, schema, fell, faults>>
      /\ served' = Resolve(settings)
      /\ sweep' = IF state["db"] = "ready" /\ schema THEN "done" ELSE "skipped"
  BY DEF ApiServes, given
<1>2. "api" \in Services /\ settings \in Settings
  BY DEF Services, STypeOK
<1>3. STypeOK'
  BY <1>1, <1>2, Resolved DEF STypeOK
<1>4. ServesSafely'
  BY <1>1, <1>2, Resolved DEF ServesSafely, KeyRefused
<1>5. Kept("api") /\ sweep' = "skipped" => fell # {}
  BY <1>1 DEF Undisturbed
<1>6. schema \in BOOLEAN
  BY DEF STypeOK
<1>7. QED
  BY <1>1, <1>2, <1>3, <1>4, <1>5, <1>6, GoesOn

LEMMA ProbeKeeps ==
    ASSUME StackInv, NEW s \in Services, ProbeAnswers(s) \/ ProbeFails(s) PROVE StackInv'
<1> USE DEF StackInv
<1>1. UNCHANGED <<file, settings, state, up, todo, schema, sweep, served, fell, faults>>
  BY DEF ProbeAnswers, ProbeFails, given
<1>2. /\ health' \in [Services -> {"unknown", "healthy", "unhealthy"}]
      /\ \A x \in Services : health'[x] = "healthy" => state[x] = "ready"
  BY DEF ProbeAnswers, ProbeFails, STypeOK
<1>3. STypeOK'
  BY <1>1, <1>2 DEF STypeOK
<1>4. QED
  BY <1>1, <1>2, <1>3 DEF Accepted, Undeclared, Unprobed, Begun, Undisturbed, Kept, EdgesOf,
       ServesSafely, HostsExist, StartedOnSchema, SkippedHasReason

\* A crash of one container and a reboot, which is one of all.
LEMMA DeathKeeps ==
    ASSUME StackInv, Reboot \/ \E s \in Services : Crash(s) PROVE StackInv'
<1> USE DEF StackInv
<1>1. PICK S \in SUBSET Running :
          /\ Die(S) /\ faults' \in 0..MaxFaults
          /\ UNCHANGED <<file, settings, schema>>
          /\ \/ up' = "idle" /\ todo' = {}
             \/ UNCHANGED <<up, todo>>
  <2>1. ASSUME NEW s \in Services, Crash(s)
        PROVE  {s} \in SUBSET Running /\ Die({s}) /\ UNCHANGED <<file, settings, schema, up, todo>>
    BY <2>1 DEF Crash, given
  <2>2. ASSUME Reboot
        PROVE  Die(Running) /\ UNCHANGED <<file, settings, schema>> /\ up' = "idle" /\ todo' = {}
    BY <2>2 DEF Reboot, given
  <2>3. faults' \in 0..MaxFaults
    <3>1. faults < MaxFaults /\ faults' = faults + 1
      BY DEF Reboot, Crash, Fault
    <3>2. QED
      BY <3>1, MaxFaultsAssumption DEF STypeOK
  <2>4. QED
    BY <2>1, <2>2, <2>3
<1>2. /\ S \subseteq Services /\ \A s \in S : state[s] \in {"starting", "ready"}
      /\ state'  = [s \in Services |-> IF s \in S THEN "dead" ELSE state[s]]
      /\ health' = [s \in Services |-> IF s \in S THEN "unknown" ELSE health[s]]
      /\ fell'   = fell \cup (S \cap {"api", "db"})
      /\ IF "api" \in S THEN served' = Closed /\ sweep' = "none" ELSE UNCHANGED <<served, sweep>>
  BY <1>1 DEF Die, Running
<1>3. STypeOK'
  <2>1. /\ served' \in [allow : SUBSET Origins, credentials : BOOLEAN]
        /\ sweep' \in {"none", "done", "skipped"}
    <3>1. Closed \in [allow : SUBSET Origins, credentials : BOOLEAN]
      BY DEF Closed
    <3>2. CASE "api" \in S
      BY <1>2, <3>1, <3>2
    <3>3. CASE "api" \notin S
      BY <1>2, <3>3 DEF STypeOK
    <3>4. QED
      BY <3>2, <3>3
  <2>2. state' \in [Services -> {"absent", "starting", "ready", "done", "dead"}]
    BY <1>2 DEF STypeOK
  <2>3. health' \in [Services -> {"unknown", "healthy", "unhealthy"}]
    BY <1>2 DEF STypeOK
  <2>4. fell' \in SUBSET {"api", "db"} /\ todo' \in SUBSET Services /\ up' \in {"idle", "going", "returned", "aborted"}
    BY <1>1, <1>2 DEF STypeOK
  <2>5. QED
    BY <1>1, <2>1, <2>2, <2>3, <2>4 DEF STypeOK
<1>4. Begun' /\ HostsExist'
  BY <1>1, <1>2 DEF Begun, HostsExist, EnvHosts, Services, STypeOK
<1>5. Undisturbed' /\ StartedOnSchema' /\ SkippedHasReason'
  BY <1>1, <1>2 DEF Undisturbed, StartedOnSchema, SkippedHasReason, Kept, EdgesOf, Services, STypeOK
<1>6. /\ \A x \in Services : health'[x] = "healthy" => state'[x] = "ready"
      /\ state'["migrate"] = "done" => schema'
      /\ state'["api"] = "ready" <=> sweep' # "none"
      /\ ServesSafely' /\ Accepted(file)'
  BY <1>1, <1>2 DEF Services, ServesSafely, Accepted, Undeclared, Unprobed, EdgesOf
<1>7. QED
  BY <1>3, <1>4, <1>5, <1>6

LEMMA DownKeeps ==
    ASSUME StackInv, Down PROVE StackInv'
<1>1. /\ UNCHANGED <<file, settings, todo>> /\ up' = "idle" /\ faults' \in 0..MaxFaults
      /\ state' = Nothing /\ health' = Unknown /\ todo = {}
      /\ schema' = FALSE /\ sweep' = "none" /\ served' = Closed /\ fell' = {}
  BY MaxFaultsAssumption DEF Down, Fault, given, StackInv, STypeOK, Begun
<1>2. STypeOK'
  BY <1>1 DEF StackInv, STypeOK, Nothing, Unknown, Closed
<1>3. QED
  BY <1>1, <1>2 DEF StackInv, Accepted, Undeclared, Unprobed, EdgesOf, Begun, Undisturbed,
       ServesSafely, HostsExist, StartedOnSchema, SkippedHasReason, Nothing, Unknown, Services

LEMMA StackKeeps ==
    ASSUME StackInv, [SNext]_svars PROVE StackInv'
<1>1. CASE UNCHANGED svars
  BY <1>1 DEF svars, StackInv, STypeOK, Accepted, Undeclared, Unprobed, EdgesOf, Begun,
       Undisturbed, Kept, ServesSafely, HostsExist, StartedOnSchema, SkippedHasReason
<1>2. CASE SNext
  BY <1>2, UpKeeps, LaunchKeeps, ContainersKeep, ApiServesKeeps, ProbeKeeps, DeathKeeps,
     DownKeeps DEF SNext, Services
<1>3. QED
  BY <1>1, <1>2

\* The stack invariant, for every accepted file, all settings and any number of
\* crashes, reboots, repeated ups and downs.
THEOREM StackInvariant == SSpec => []StackInv
  BY StackStarts, StackKeeps, PTL DEF SSpec

\* Neither API nor worker exists before the migrations made the tables.
THEOREM OnSchema == SSpec => []StartedOnSchema
<1>1. StackInv => StartedOnSchema
  BY DEF StackInv
<1>2. QED
  BY <1>1, StackInvariant, PTL

\* The recovery of exports is skipped only after the API or the database died.
THEOREM SkipHasReason == SSpec => []SkippedHasReason
<1>1. StackInv => SkippedHasReason
  BY DEF StackInv
<1>2. QED
  BY <1>1, StackInvariant, PTL

-----------------------------------------------------------------------------
(* The connections.                                                        *)

USE ConnsAssumption, ActorsAssumption, BoundsAssumption DEF Actors

LEMMA Sides ==
    /\ None \notin Conns /\ None \notin Rests /\ None \notin Socks
    /\ \A r \in Rests : r \notin Socks
    /\ IsFiniteSet(Rests)
<1>1. Rests \subseteq Actors /\ IsFiniteSet(Actors)
  OBVIOUS
<1>2. IsFiniteSet(Rests)
  BY <1>1, FS_Subset
<1>3. QED
  BY <1>2

LEMMA InitInv == Init => PoolInv
<1> SUFFICES ASSUME Init PROVE PoolInv
  OBVIOUS
<1>1. TypeOK
  BY Sides DEF Init, TypeOK, Places, Reasons
<1>2. Conserved
  BY Sides DEF Init, Conserved
<1>3. InThread = {}
  BY DEF Init, InThread
<1>4. Cardinality(InThread) <= Threads
  BY <1>3, FS_EmptySet
<1>5. Course
  BY <1>4, Sides DEF Init, Course
<1>6. DeadWereHeld /\ BrokenWereHit
  BY Sides DEF Init, DeadWereHeld, BrokenWereHit
<1>7. QED
  BY <1>1, <1>2, <1>5, <1>6 DEF PoolInv

\* The threads a step leaves in use are no more than there are.
LEMMA ThreadsSuffice ==
    ASSUME PoolInv, NEW a \in Actors, NEW p \in Places, To(a, p),
           p \in {"auth", "work"} => a \notin Rests \/ ThreadFree \/ a \in InThread
    PROVE  Cardinality(InThread)' <= Threads
<1> DEFINE Now == InThread
           New == InThread'
<1>1. pc \in [Actors -> Places] /\ Cardinality(Now) <= Threads
  BY DEF PoolInv, TypeOK, Course
<1>2. IsFiniteSet(Now) /\ Now \subseteq Rests
  <2>1. Now \subseteq Rests
    BY DEF InThread
  <2>2. QED
    BY <2>1, Sides, FS_Subset
<1>3. New \subseteq Now \cup {a}
  BY <1>1 DEF InThread, To
<1>4. CASE New \subseteq Now
  <2>1. Cardinality(New) <= Cardinality(Now) /\ IsFiniteSet(New)
    BY <1>2, <1>4, FS_Subset
  <2>2. Cardinality(New) \in Nat /\ Cardinality(Now) \in Nat
    BY <2>1, <1>2, FS_CardinalityType
  <2>3. QED
    BY <1>1, <2>1, <2>2
<1>5. CASE ~(New \subseteq Now)
  <2>1. a \in New /\ a \notin Now /\ New = Now \cup {a}
    <3>1. a \in New /\ a \notin Now
      BY <1>3, <1>5
    <3>2. Now \subseteq New
      BY <1>1, <3>1 DEF InThread, To
    <3>3. QED
      BY <1>3, <3>1, <3>2
  <2>2. ThreadFree
    BY <1>1, <2>1 DEF InThread, To
  <2>3. Cardinality(Now \cup {a}) = Cardinality(Now) + 1 /\ Cardinality(Now) \in Nat
    BY <1>2, <2>1, FS_AddElement, FS_CardinalityType
  <2>4. QED
    BY <2>1, <2>2, <2>3 DEF ThreadFree
<1>6. QED
  BY <1>4, <1>5

-----------------------------------------------------------------------------
(* Steps that move one session and leave the connections where they are.    *)

LEMMA CourseMoves ==
    ASSUME PoolInv, NEW a \in Actors, NEW p \in Places, To(a, p),
           p \in {"auth", "work"} => a \notin Rests \/ ThreadFree \/ a \in InThread,
           \A b \in Actors \ {a} : holds'[b] = holds[b],
           p \in {"between", "accepted", "open"} => holds'[a] # None,
           a \in Rests => p \notin {"accepted", "open"},
           a \in Socks => p \notin {"between", "work"} /\ (p = "auth" <=> loop' = a),
           \A s \in Socks \ {a} : loop' = s <=> loop = s
    PROVE  Course'
<1>1. /\ pc'[a] = p /\ \A b \in Actors \ {a} : pc'[b] = pc[b]
  BY DEF To, PoolInv, TypeOK
<1>2. Cardinality(InThread)' <= Threads
  BY ThreadsSuffice
<1>3. \A b \in Actors : pc'[b] \in {"between", "accepted", "open"} => holds'[b] # None
  BY <1>1 DEF PoolInv, Course
<1>4. \A s \in Socks : pc'[s] \notin {"between", "work"} /\ (pc'[s] = "auth" <=> loop' = s)
  BY <1>1 DEF PoolInv, Course
<1>5. \A r \in Rests : pc'[r] \notin {"accepted", "open"}
  BY <1>1, Sides DEF PoolInv, Course
<1>6. QED
  BY <1>2, <1>3, <1>4, <1>5 DEF Course

LEMMA SameVisits ==
    ASSUME PoolInv, UNCHANGED visits PROVE visits' \in [Actors -> 0..MaxVisits]
  BY DEF PoolInv, TypeOK

LEMMA MoveKeeps ==
    ASSUME PoolInv, NEW a \in Actors, NEW p \in Places \ {"new", "ended"}, To(a, p),
           UNCHANGED <<idle, alive, database, holds, commits>>,
           visits' \in [Actors -> 0..MaxVisits],
           Course', loop' \in Socks \cup {None},
           \/ UNCHANGED why
           \/ \E w \in Reasons : /\ why' = [why EXCEPT ![a] = w]
                                 /\ w = "broken" => a \in hit
    PROVE  PoolInv'
<1> USE DEF PoolInv, database
<1>1. TypeOK'
  <2>1. pc' \in [Actors -> Places]
    BY DEF TypeOK, To
  <2>2. why' \in [Actors -> Reasons]
    BY DEF TypeOK
  <2>3. QED
    BY <2>1, <2>2 DEF TypeOK
<1>2. Conserved'
  BY DEF Conserved, To, TypeOK
<1>3. DeadWereHeld' /\ BrokenWereHit'
  BY DEF DeadWereHeld, BrokenWereHit, TypeOK
<1>4. QED
  BY <1>1, <1>2, <1>3

\* A session that fails.
LEMMA FailKeeps ==
    ASSUME PoolInv, NEW a \in Actors, NEW w \in Reasons, Fails(a, w),
           UNCHANGED <<idle, alive, database, holds, commits, visits>>,
           w = "broken" => a \in hit
    PROVE  PoolInv'
<1>1. /\ To(a, "closing") /\ "closing" \in Places \ {"new", "ended"}
      /\ why' = [why EXCEPT ![a] = w] /\ FreesLoop(a)
  BY DEF Fails, Places
<1>2. loop' \in Socks \cup {None} /\ \A s \in Socks \ {a} : loop' = s <=> loop = s
  BY <1>1, Sides DEF FreesLoop, PoolInv, TypeOK
<1>3. a \in Socks => loop' # a
  BY <1>1, Sides DEF FreesLoop
<1>4. Course'
  BY <1>1, <1>2, <1>3, CourseMoves
<1>5. QED
  BY <1>1, <1>2, <1>4, SameVisits, MoveKeeps

LEMMA FailsKeep ==
    ASSUME PoolInv, NEW a \in Actors, Refused(a) \/ Timeout(a) \/ Breaks(a) PROVE PoolInv'
<1>1. CASE Refused(a)
  BY <1>1, FailKeeps DEF Refused, Reasons
<1>2. CASE Timeout(a)
  BY <1>2, FailKeeps DEF Timeout, Reasons
<1>3. CASE Breaks(a)
  <2>1. a \in hit
    BY <1>3 DEF Breaks, PoolInv, DeadWereHeld, TypeOK
  <2>2. QED
    BY <1>3, <2>1, FailKeeps DEF Breaks, Reasons
<1>4. QED
  BY <1>1, <1>2, <1>3

\* A session that goes on, the loop not waiting for it before or after.
LEMMA GoKeeps ==
    ASSUME PoolInv, NEW a \in Actors, NEW p \in Places \ {"new", "ended"}, To(a, p),
           UNCHANGED <<idle, alive, database, holds, loop, commits, why>>,
           visits' \in [Actors -> 0..MaxVisits],
           a \in Rests \/ (pc[a] # "auth" /\ p # "auth"),
           p \in {"auth", "work"} => a \notin Rests \/ ThreadFree \/ a \in InThread,
           p \in {"between", "accepted", "open"} => holds[a] # None,
           a \in Rests => p \notin {"accepted", "open"},
           a \in Socks => p \notin {"between", "work"}
    PROVE  PoolInv'
<1>1. a \in Socks => p # "auth" /\ loop' # a
  BY Sides DEF PoolInv, Course
<1>2. \A s \in Socks \ {a} : loop' = s <=> loop = s
  OBVIOUS
<1>3. loop' \in Socks \cup {None}
  BY DEF PoolInv, TypeOK
<1>4. Course'
  BY <1>1, <1>2, CourseMoves
<1>5. QED
  BY <1>3, <1>4, MoveKeeps

LEMMA RestMoves ==
    ASSUME PoolInv, NEW r \in Rests,
           Begin(r) \/ Authenticated(r) \/ Visit(r) \/ Return(r)
    PROVE  PoolInv'
<1>0. r \in Actors /\ r \notin Socks
  BY Sides
<1>1. CASE Begin(r)
  BY <1>0, <1>1, SameVisits, GoKeeps DEF Begin, Places
<1>2. CASE Authenticated(r)
  BY <1>0, <1>2, SameVisits, GoKeeps DEF Authenticated, Works, Places
<1>3. CASE Visit(r)
  BY <1>0, <1>3, SameVisits, GoKeeps DEF Visit, Places
<1>4. CASE Return(r)
  <2>1. visits' \in [Actors -> 0..MaxVisits]
    BY <1>0, <1>4 DEF Return, PoolInv, TypeOK
  <2>2. QED
    BY <1>0, <1>4, <2>1, GoKeeps DEF Return, Places
<1>5. QED
  BY <1>1, <1>2, <1>3, <1>4

LEMMA SockMoves ==
    ASSUME PoolInv, NEW s \in Socks, Sock(s) \/ ClientLeaves(s) PROVE PoolInv'
<1>0. s \in Actors /\ s \notin Rests /\ s # None
  BY Sides
<1>1. CASE Handshake(s)
  <2>1. CASE To(s, "auth") /\ loop' = s
    <3>1. \A b \in Socks \ {s} : loop' = b <=> loop = b
      BY <1>0, <1>1, <2>1, Sides DEF Handshake, LoopFree
    <3>2. Course'
      BY <1>0, <1>1, <2>1, <3>1, CourseMoves DEF Handshake, Places
    <3>3. QED
      BY <1>0, <1>1, <2>1, <3>2, SameVisits, MoveKeeps DEF Handshake, Places
  <2>2. CASE To(s, "closing") /\ UNCHANGED loop
    BY <1>0, <1>1, <2>2, SameVisits, GoKeeps DEF Handshake, Places
  <2>3. QED
    BY <1>1, <2>1, <2>2 DEF Handshake
<1>2. CASE TicketSeen(s)
  <2>1. PICK p \in {"accepted", "closing"} : To(s, p)
    BY <1>2 DEF TicketSeen
  <2>2. /\ \A b \in Socks \ {s} : loop' = b <=> loop = b
        /\ loop' # s /\ loop' \in Socks \cup {None} /\ holds'[s] # None
    BY <1>0, <1>2, Sides DEF TicketSeen, FreesLoop, Works, PoolInv, TypeOK
  <2>3. p \in Places \ {"new", "ended"} /\ p \notin {"auth", "work", "between"}
    BY DEF Places
  <2>4. Course'
    BY <1>0, <1>2, <2>1, <2>2, <2>3, CourseMoves DEF TicketSeen
  <2>5. QED
    BY <1>0, <1>2, <2>1, <2>2, <2>3, <2>4, SameVisits, MoveKeeps DEF TicketSeen
<1>3. CASE Backlog(s)
  BY <1>0, <1>3, SameVisits, GoKeeps DEF Backlog, Works, Places
<1>4. CASE ClientLeaves(s)
  BY <1>0, <1>4, SameVisits, GoKeeps DEF ClientLeaves, Places
<1>5. QED
  BY <1>1, <1>2, <1>3, <1>4 DEF Sock

-----------------------------------------------------------------------------
(* Steps that move a connection, and the database.                          *)

LEMMA CheckoutKeeps ==
    ASSUME PoolInv, NEW a \in Actors, Checkout(a) PROVE PoolInv'
<1> USE DEF PoolInv
<1>1. PICK c \in idle : /\ PrePing(c) /\ idle' = idle \ {c}
                        /\ holds' = [holds EXCEPT ![a] = c]
  BY DEF Checkout
<1>2. /\ c \in Conns /\ c # None /\ holds[a] = None
      /\ \A b \in Actors : holds[b] # c
      /\ holds'[a] = c /\ \A b \in Actors \ {a} : holds'[b] = holds[b]
      /\ alive' = alive \cup {c} /\ pc[a] \in {"auth", "work"}
      /\ UNCHANGED <<dbUp, outages, hit, pc, loop, commits, visits, why>>
  BY <1>1, Sides DEF Checkout, Waits, Queries, TypeOK, Conserved, PrePing, database
<1>3. TypeOK'
  BY <1>1, <1>2 DEF TypeOK
<1>4. Conserved'
  <2>1. idle' = Conns \ {holds'[b] : b \in Actors}
    BY <1>1, <1>2 DEF Conserved
  <2>2. \A b, d \in Actors : holds'[b] = holds'[d] /\ holds'[b] # None => b = d
    BY <1>2 DEF Conserved
  <2>3. \A b \in Actors : pc'[b] \in {"new", "ended"} => holds'[b] = None
    BY <1>2 DEF Conserved
  <2>4. QED
    BY <2>1, <2>2, <2>3 DEF Conserved
<1>5. Course'
  <2>1. InThread' = InThread
    BY <1>2 DEF InThread
  <2>2. QED
    BY <1>2, <2>1 DEF Course
<1>6. DeadWereHeld' /\ BrokenWereHit'
  BY <1>2 DEF DeadWereHeld, BrokenWereHit
<1>7. QED
  BY <1>3, <1>4, <1>5, <1>6

\* The connection a session gives back is idle again, and in nobody's hands.
LEMMA GivingBack ==
    ASSUME PoolInv, NEW a \in Actors, GivesBack(a)
    PROVE  /\ idle' \subseteq Conns /\ holds' \in [Actors -> Conns \cup {None}]
           /\ holds'[a] = None /\ \A b \in Actors \ {a} : holds'[b] = holds[b]
           /\ idle' = Conns \ {holds'[b] : b \in Actors}
           /\ \A b, d \in Actors : holds'[b] = holds'[d] /\ holds'[b] # None => b = d
<1> USE DEF PoolInv
<1>1. /\ holds'[a] = None /\ \A b \in Actors \ {a} : holds'[b] = holds[b]
      /\ holds' \in [Actors -> Conns \cup {None}]
      /\ idle' = idle \cup ({holds[a]} \ {None})
      /\ idle' \subseteq Conns
  BY DEF GivesBack, TypeOK
<1>2. \A b, d \in Actors : holds'[b] = holds'[d] /\ holds'[b] # None => b = d
  BY <1>1 DEF Conserved
<1>3. \A c \in Conns : c \in idle' <=> \A b \in Actors : holds'[b] # c
  <2> SUFFICES ASSUME NEW c \in Conns
               PROVE  c \in idle' <=> \A b \in Actors : holds'[b] # c
    OBVIOUS
  <2>1. c \in idle <=> \A b \in Actors : holds[b] # c
    BY DEF Conserved
  <2>2. CASE c = holds[a]
    BY <1>1, <2>2, Sides DEF Conserved
  <2>3. CASE c # holds[a]
    BY <1>1, <2>1, <2>3, Sides
  <2>4. QED
    BY <2>2, <2>3
<1>4. idle' = Conns \ {holds'[b] : b \in Actors}
  BY <1>1, <1>3
<1>5. QED
  BY <1>1, <1>2, <1>4

LEMMA CloseKeeps ==
    ASSUME PoolInv, NEW a \in Actors, Close(a) PROVE PoolInv'
<1> USE DEF PoolInv
<1>1. /\ To(a, "ended") /\ GivesBack(a) /\ pc[a] = "closing" /\ "ended" \in Places
      /\ UNCHANGED <<alive, dbUp, outages, hit, loop, commits, visits, why>>
  BY DEF Close, database, Places
<1>2. /\ idle' \subseteq Conns /\ holds' \in [Actors -> Conns \cup {None}]
      /\ holds'[a] = None /\ \A b \in Actors \ {a} : holds'[b] = holds[b]
      /\ idle' = Conns \ {holds'[b] : b \in Actors}
      /\ \A b, d \in Actors : holds'[b] = holds'[d] /\ holds'[b] # None => b = d
  BY <1>1, GivingBack
<1>3. TypeOK'
  BY <1>1, <1>2 DEF TypeOK, To
<1>4. Conserved'
  <2>1. \A b \in Actors : pc'[b] \in {"new", "ended"} => holds'[b] = None
    BY <1>1, <1>2 DEF Conserved, To, TypeOK
  <2>2. QED
    BY <1>2, <2>1 DEF Conserved
<1>5. Course'
  <2>1. a \in Socks => loop' # a
    BY <1>1 DEF Course
  <2>2. QED
    BY <1>1, <1>2, <2>1, CourseMoves
<1>6. DeadWereHeld' /\ BrokenWereHit'
  BY <1>1, <1>2, Sides DEF DeadWereHeld, BrokenWereHit
<1>7. QED
  BY <1>3, <1>4, <1>5, <1>6

LEMMA CommitKeeps ==
    ASSUME PoolInv, NEW r \in Rests, Commit(r) PROVE PoolInv'
<1> USE DEF PoolInv
<1>0. r \in Actors /\ r \notin Socks
  BY Sides
<1>1. PICK p \in {"work", "closing"} : To(r, p)
  BY DEF Commit
<1>2. /\ GivesBack(r) /\ pc[r] = "work" /\ p \in Places
      /\ commits[r] < MaxCommits /\ commits' = [commits EXCEPT ![r] = @ + 1]
      /\ UNCHANGED <<alive, dbUp, outages, hit, loop, visits, why>>
  BY DEF Commit, database, Places
<1>3. /\ idle' \subseteq Conns /\ holds' \in [Actors -> Conns \cup {None}]
      /\ holds'[r] = None /\ \A b \in Actors \ {r} : holds'[b] = holds[b]
      /\ idle' = Conns \ {holds'[b] : b \in Actors}
      /\ \A b, d \in Actors : holds'[b] = holds'[d] /\ holds'[b] # None => b = d
  BY <1>0, <1>2, GivingBack
<1>4. TypeOK'
  <2>1. commits' \in [Actors -> 0..MaxCommits]
    BY <1>0, <1>2 DEF TypeOK
  <2>2. pc' \in [Actors -> Places]
    BY <1>1, <1>2 DEF TypeOK, To
  <2>3. QED
    BY <1>2, <1>3, <2>1, <2>2 DEF TypeOK
<1>5. Conserved'
  <2>1. \A b \in Actors : pc'[b] \in {"new", "ended"} => holds'[b] = None
    BY <1>0, <1>1, <1>2, <1>3 DEF Conserved, To, TypeOK
  <2>2. QED
    BY <1>3, <2>1 DEF Conserved
<1>6. Course'
  <2>1. r \in InThread
    BY <1>2 DEF InThread
  <2>2. p \notin {"between", "accepted", "open"}
    OBVIOUS
  <2>3. \A s \in Socks \ {r} : loop' = s <=> loop = s
    BY <1>2
  <2>4. QED
    BY <1>0, <1>1, <1>2, <1>3, <2>1, <2>2, <2>3, CourseMoves
<1>7. DeadWereHeld' /\ BrokenWereHit'
  BY <1>0, <1>2, <1>3, Sides DEF DeadWereHeld, BrokenWereHit
<1>8. QED
  BY <1>4, <1>5, <1>6, <1>7

LEMMA DatabaseKeeps ==
    ASSUME PoolInv, DbDown \/ DbUp \/ UNCHANGED vars PROVE PoolInv'
<1> USE DEF PoolInv
<1>1. /\ UNCHANGED <<idle, holds, pc, loop, commits, visits, why>>
      /\ InThread' = InThread
  BY DEF DbDown, DbUp, vars, InThread
<1>2. TypeOK'
  <2>1. CASE DbDown
    <3>1. outages' \in 0..MaxOutages
      BY <2>1 DEF DbDown, TypeOK
    <3>2. QED
      BY <1>1, <2>1, <3>1 DEF DbDown, TypeOK
  <2>2. CASE DbUp \/ UNCHANGED vars
    BY <1>1, <2>2 DEF DbUp, vars, TypeOK
  <2>3. QED
    BY <2>1, <2>2
<1>3. Conserved' /\ Course'
  BY <1>1 DEF Conserved, Course
<1>4. DeadWereHeld' /\ BrokenWereHit'
  <2>1. hit \subseteq hit'
    BY DEF DbDown, DbUp, vars
  <2>2. BrokenWereHit'
    BY <1>1, <2>1 DEF BrokenWereHit
  <2>3. DeadWereHeld'
    <3>1. CASE DbDown
      BY <1>1, <3>1, Sides DEF DbDown, DeadWereHeld
    <3>2. CASE DbUp \/ UNCHANGED vars
      BY <1>1, <3>2 DEF DbUp, vars, DeadWereHeld
    <3>3. QED
      BY <3>1, <3>2
  <2>4. QED
    BY <2>2, <2>3
<1>5. QED
  BY <1>2, <1>3, <1>4

-----------------------------------------------------------------------------
(* The theorems. *)

LEMMA StepKeeps ==
    ASSUME PoolInv, [Next]_vars PROVE PoolInv'
<1>1. ASSUME NEW a \in Actors, Pool(a) PROVE PoolInv'
  BY <1>1, CheckoutKeeps, FailsKeep, CloseKeeps DEF Pool
<1>2. ASSUME NEW r \in Rests, Rest(r) PROVE PoolInv'
  BY <1>2, RestMoves, CommitKeeps DEF Rest
<1>3. ASSUME NEW s \in Socks, Sock(s) \/ ClientLeaves(s) PROVE PoolInv'
  BY <1>3, SockMoves
<1>4. QED
  BY <1>1, <1>2, <1>3, DatabaseKeeps DEF Next

\* The connections are conserved, whichever way requests and sockets end and
\* whenever the database goes down; threads and loop are never over-committed.
THEOREM PoolInvariant == Spec => []PoolInv
  BY InitInv, StepKeeps, PTL DEF Spec

\* No request that has its connection from after an outage breaks because of it.
THEOREM OutageHitsHolders == Spec => []BrokenWereHit
<1>1. PoolInv => BrokenWereHit
  BY DEF PoolInv
<1>2. QED
  BY <1>1, PoolInvariant, PTL

\* Who has begun and neither ended nor, for a socket, been let in.
Busy(a) == pc[a] \notin {"new", "ended", "open"}

\* The guards of the steps by which the busy one gets on: at a statement without
\* a connection, where one is there, is refused or is waited for in vain; at a
\* statement with one, which works or is dead; and between statements, where
\* the loop and, for a visit, a thread are needed.
MayGo(a) ==
    \/ Waits(a) /\ idle # {} /\ dbUp
    \/ Waits(a) /\ idle # {} /\ ~dbUp
    \/ Waits(a) /\ idle = {}
    \/ Queries(a) /\ Works(a)
    \/ Queries(a) /\ holds[a] \notin alive \cup {None}
    \/ pc[a] = "between"  /\ LoopFree /\ ThreadFree
    \/ pc[a] = "accepted" /\ LoopFree /\ Works(a)
    \/ pc[a] = "accepted" /\ LoopFree /\ holds[a] \notin alive \cup {None}
    \/ pc[a] = "closing"  /\ LoopFree

\* Requests that hold connections and wait for threads, requests that hold
\* threads and wait for connections, and a socket that waits for a connection
\* on the loop never all wait for each other: while anyone is busy, someone
\* may go on.
THEOREM SomeoneMayGo ==
    Spec => []((\E a \in Actors : Busy(a)) => \E a \in Actors : MayGo(a))
<1>1. ASSUME PoolInv, NEW a \in Actors, Busy(a) PROVE \E b \in Actors : MayGo(b)
  <2>1. \A b \in Actors : Queries(b) => MayGo(b)
    BY DEF MayGo, Queries, Waits, Works
  <2>2. CASE ~LoopFree
    <3>1. loop \in Socks /\ pc[loop] = "auth"
      BY <1>1, <2>2 DEF PoolInv, TypeOK, Course, LoopFree
    <3>2. QED
      BY <2>1, <3>1 DEF Queries
  <2>3. CASE LoopFree /\ pc[a] \in {"auth", "work", "closing"}
    BY <2>1, <2>3 DEF MayGo, Queries
  <2>4. CASE LoopFree /\ pc[a] = "accepted"
    <3>1. holds[a] # None
      BY <1>1, <2>4 DEF PoolInv, Course
    <3>2. QED
      BY <2>4, <3>1 DEF MayGo, Works
  <2>5. CASE LoopFree /\ pc[a] = "between"
    <3>1. CASE ThreadFree
      BY <2>5, <3>1 DEF MayGo
    <3>2. CASE ~ThreadFree
      <4>1. InThread # {}
        BY <3>2, FS_EmptySet DEF ThreadFree
      <4>2. PICK r \in Rests : pc[r] \in {"auth", "work"}
        BY <4>1 DEF InThread
      <4>3. QED
        BY <2>1, <4>2 DEF Queries
    <3>3. QED
      BY <3>1, <3>2
  <2>6. QED
    BY <1>1, <2>2, <2>3, <2>4, <2>5 DEF PoolInv, TypeOK, Places, Busy
<1>2. PoolInv => ((\E a \in Actors : Busy(a)) => \E a \in Actors : MayGo(a))
  BY <1>1
<1>3. QED
  BY <1>2, PoolInvariant, PTL
=============================================================================
