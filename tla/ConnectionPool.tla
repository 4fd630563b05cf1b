--------------------------- MODULE ConnectionPool ---------------------------
(***************************************************************************)
(* The database connections of one API process, and who waits for them. A  *)
(* session takes a connection at its first statement and gives it back at  *)
(* the commit or when get_db closes it. A REST request runs each of its    *)
(* dependencies, its endpoint and the serialisation of the answer in a     *)
(* visit of its own to the thread pool, and keeps the connection between   *)
(* them. A socket queries on the event loop itself, keeps the connection   *)
(* as long as the client stays, and while it waits for one nothing else    *)
(* runs on the loop. What gets everyone out of the way of everyone else    *)
(* is the timeout of the pool.                                             *)
(***************************************************************************)
EXTENDS Naturals, FiniteSets

CONSTANTS Rests,       \* the REST requests of a behaviour
          Socks,       \* the connections to /ws/notifications
          Conns,       \* pool_size and max_overflow, the defaults of the engine
          Threads,     \* size of the thread pool
          MaxCommits,  \* bound: commits of one request
          MaxVisits,   \* bound: visits to a thread after the second
          MaxOutages,  \* bound: outages of the database
          None         \* no connection, nobody

Actors == Rests \cup Socks

ASSUME ConnsAssumption   == IsFiniteSet(Conns) /\ Conns # {}
ASSUME ActorsAssumption  == /\ Rests \cap Socks = {} /\ IsFiniteSet(Actors)
                            /\ None \notin Actors \cup Conns
ASSUME BoundsAssumption  == /\ Threads \in Nat \ {0}
                            /\ MaxCommits \in Nat /\ MaxVisits \in Nat
                            /\ MaxOutages \in Nat

VARIABLES
    idle,      \* pool: the connections that are not checked out
    alive,     \* the connections whose other end is there
    dbUp,      \* whether the database accepts connections
    outages,   \* how often it has gone down
    holds,     \* per session: its connection
    pc,        \* per request or socket: where it is
    loop,      \* the socket that waits on the event loop
    commits,   \* per request: how often it has committed
    visits,    \* per request: its visits to a thread after the second
    why,       \* per request or socket: what it has failed of
    hit        \* history: who held a connection when the database went down

vars == <<idle, alive, dbUp, outages, holds, pc, loop, commits, visits, why, hit>>

\* auth and work: in a thread, or on the loop for a socket.
Places  == {"new", "auth", "between", "work", "accepted", "open", "closing", "ended"}
Reasons == {"none", "timeout", "refused", "broken"}

TypeOK ==
    /\ idle \subseteq Conns /\ alive \subseteq Conns /\ dbUp \in BOOLEAN
    /\ outages \in 0..MaxOutages
    /\ holds   \in [Actors -> Conns \cup {None}]
    /\ pc      \in [Actors -> Places]
    /\ loop    \in Socks \cup {None}
    /\ commits \in [Actors -> 0..MaxCommits]
    /\ visits  \in [Actors -> 0..MaxVisits]
    /\ why     \in [Actors -> Reasons]
    /\ hit     \subseteq Actors

Init ==
    /\ idle = Conns /\ alive = Conns /\ dbUp = TRUE /\ outages = 0
    /\ holds = [a \in Actors |-> None]
    /\ pc = [a \in Actors |-> "new"]
    /\ loop = None
    /\ commits = [a \in Actors |-> 0]
    /\ visits = [a \in Actors |-> 0]
    /\ why = [a \in Actors |-> "none"]
    /\ hit = {}

-----------------------------------------------------------------------------
(* The parts of a step. *)

LoopFree   == loop = None
InThread   == {r \in Rests : pc[r] \in {"auth", "work"}}
ThreadFree == Cardinality(InThread) < Threads

To(a, p)   == pc' = [pc EXCEPT ![a] = p]

\* A socket that leaves the place where it queries lets the loop go on.
FreesLoop(a) == loop' = IF loop = a THEN None ELSE loop

Fails(a, w) == To(a, "closing") /\ why' = [why EXCEPT ![a] = w] /\ FreesLoop(a)

\* Fault: the session is only left to the garbage collector.
NotGivenBack(a) == UNCHANGED <<idle, holds>>

\* Gives the session's connection back to the pool.
GivesBack(a) == /\ idle' = idle \cup ({holds[a]} \ {None})
                /\ holds' = [holds EXCEPT ![a] = None]

database == <<dbUp, outages, hit>>

\* Who is at a statement that needs a connection.
Queries(a) == pc[a] \in {"auth", "work"}
Waits(a)   == Queries(a) /\ holds[a] = None

-----------------------------------------------------------------------------
(* The pool. *)

\* A dead connection is replaced before it is handed out.
PrePing(c) == alive' = alive \cup {c}

Checkout(a) ==
    /\ Waits(a) /\ dbUp
    /\ \E c \in idle :
          /\ PrePing(c)
          /\ idle' = idle \ {c}
          /\ holds' = [holds EXCEPT ![a] = c]
    /\ UNCHANGED <<database, pc, loop, commits, visits, why>>

\* No connection can be opened: OperationalError, 500 or a socket that closes.
Refused(a) ==
    /\ Waits(a) /\ ~dbUp /\ idle # {}
    /\ Fails(a, "refused")
    /\ UNCHANGED <<idle, alive, database, holds, commits, visits>>

\* Fault: the wait for a connection has no limit.
NoTimeout(a) == FALSE /\ UNCHANGED vars

\* pool_timeout: TimeoutError.
Timeout(a) ==
    /\ Waits(a) /\ idle = {}
    /\ Fails(a, "timeout")
    /\ UNCHANGED <<idle, alive, database, holds, commits, visits>>

\* A statement on a connection that died in the session's hands.
Breaks(a) ==
    /\ \/ Queries(a)
       \/ pc[a] = "accepted" /\ LoopFree
    /\ holds[a] # None /\ holds[a] \notin alive
    /\ Fails(a, "broken")
    /\ UNCHANGED <<idle, alive, database, holds, commits, visits>>

Works(a) == holds[a] # None /\ holds[a] \in alive

\* get_db's finally, scheduled by the loop.
Close(a) ==
    /\ pc[a] = "closing" /\ LoopFree
    /\ GivesBack(a)
    /\ To(a, "ended")
    /\ UNCHANGED <<alive, database, loop, commits, visits, why>>

-----------------------------------------------------------------------------
(* A REST request. *)

\* get_db opens a session, get_current_user begins: the first visit to a thread.
\* A token that does not decode needs no query.
Begin(r) ==
    /\ pc[r] = "new" /\ LoopFree /\ ThreadFree
    /\ To(r, "auth") \/ To(r, "closing")
    /\ UNCHANGED <<idle, alive, database, holds, loop, commits, visits, why>>

\* get_current_user has its user, or finds the user gone; the thread is left, the
\* connection kept.
Authenticated(r) ==
    /\ pc[r] = "auth" /\ Works(r)
    /\ To(r, "between") \/ To(r, "closing")
    /\ UNCHANGED <<idle, alive, database, holds, loop, commits, visits, why>>

\* The next visit: require_admin, the endpoint, or the serialisation of what it
\* returned, which may load from the database too.
Visit(r) ==
    /\ pc[r] = "between" /\ LoopFree /\ ThreadFree
    /\ To(r, "work")
    /\ UNCHANGED <<idle, alive, database, holds, loop, commits, visits, why>>

\* Another statement after it takes a connection again.
Commit(r) ==
    /\ pc[r] = "work" /\ Works(r)
    /\ commits[r] < MaxCommits
    /\ commits' = [commits EXCEPT ![r] = @ + 1]
    /\ GivesBack(r)
    /\ To(r, "work") \/ To(r, "closing")
    /\ UNCHANGED <<alive, database, loop, visits, why>>

\* The visit is over with the connection still held: the next one follows, or the
\* request is answered or refused.
Return(r) ==
    /\ pc[r] = "work" /\ holds[r] # None
    /\ \/ To(r, "closing") /\ UNCHANGED visits
       \/ /\ visits[r] < MaxVisits
          /\ visits' = [visits EXCEPT ![r] = @ + 1]
          /\ To(r, "between")
    /\ UNCHANGED <<idle, alive, database, holds, loop, commits, why>>

-----------------------------------------------------------------------------
(* A socket. *)

\* notifications_ws up to the query of _authenticate_ws_token.
Handshake(s) ==
    /\ pc[s] = "new" /\ LoopFree
    /\ \/ To(s, "auth") /\ loop' = s
       \/ To(s, "closing") /\ UNCHANGED loop      \* not a ticket
    /\ UNCHANGED <<idle, alive, database, holds, commits, visits, why>>

\* The user is there, or is not.
TicketSeen(s) ==
    /\ pc[s] = "auth" /\ Works(s)
    /\ To(s, "accepted") \/ To(s, "closing")
    /\ FreesLoop(s)
    /\ UNCHANGED <<idle, alive, database, holds, commits, visits, why>>

\* The unread notifications, in the transaction of the first query.
Backlog(s) ==
    /\ pc[s] = "accepted" /\ LoopFree /\ Works(s)
    /\ To(s, "open")
    /\ UNCHANGED <<idle, alive, database, holds, loop, commits, visits, why>>

ClientLeaves(s) ==
    /\ pc[s] = "open" /\ LoopFree
    /\ To(s, "closing")
    /\ UNCHANGED <<idle, alive, database, holds, loop, commits, visits, why>>

-----------------------------------------------------------------------------
(* The database. *)

DbDown ==
    /\ dbUp /\ outages < MaxOutages
    /\ dbUp' = FALSE /\ outages' = outages + 1 /\ alive' = {}
    /\ hit' = hit \cup {a \in Actors : holds[a] # None}
    /\ UNCHANGED <<idle, holds, pc, loop, commits, visits, why>>

DbUp ==
    /\ ~dbUp
    /\ dbUp' = TRUE
    /\ UNCHANGED <<idle, alive, outages, holds, pc, loop, commits, visits, why, hit>>

Pool(a) == Checkout(a) \/ Refused(a) \/ Timeout(a) \/ Breaks(a) \/ Close(a)
Rest(r) == Begin(r) \/ Authenticated(r) \/ Visit(r) \/ Commit(r) \/ Return(r)
Sock(s) == Handshake(s) \/ TicketSeen(s) \/ Backlog(s)

Next ==
    \/ \E a \in Actors : Pool(a)
    \/ \E r \in Rests  : Rest(r)
    \/ \E s \in Socks  : Sock(s) \/ ClientLeaves(s)
    \/ DbDown \/ DbUp

Spec == Init /\ [][Next]_vars

\* Threads and the loop go on with what can go on, and the pool's timeout fires.
\* No client has to leave, no database has to come back, and nothing has to begin.
FairSpec ==
    /\ Spec
    /\ \A a \in Actors : WF_vars(Pool(a))
    /\ \A r \in Rests  : WF_vars(pc[r] # "new" /\ Rest(r))
    /\ \A s \in Socks  : WF_vars(pc[s] # "new" /\ Sock(s))

-----------------------------------------------------------------------------
(* Properties. *)

\* An outage costs those who are in the middle of something and nobody after it:
\* a statement breaks only for who held a connection when the database went down.
BrokenWereHit == \A a \in Actors : why[a] = "broken" => a \in hit

\* Every request that has begun ends, with an answer or with the error of the pool's
\* timeout, though sockets may stay for ever, each visit to a thread may find the
\* threads taken by those who wait for the connection it holds, and the loop may be
\* waiting for that connection too.
EveryRequestEnds == \A r \in Rests : pc[r] # "new" ~> pc[r] = "ended"

\* Every socket is let in or closed; the loop never stays with one.
EverySocketSettles == \A s \in Socks : pc[s] # "new" ~> pc[s] \in {"open", "ended"}

-----------------------------------------------------------------------------
(* Why it holds. *)

\* No connection is lost and none is in two hands, whichever way a request ends.
Conserved ==
    /\ idle = Conns \ {holds[a] : a \in Actors}
    /\ \A a, b \in Actors : holds[a] = holds[b] /\ holds[a] # None => a = b
    /\ \A a \in Actors : pc[a] \in {"new", "ended"} => holds[a] = None

\* Whoever is between two queries has a connection; the loop waits for the socket
\* that queries, and for one only; the threads suffice for who is in one.
Course ==
    /\ \A a \in Actors : pc[a] \in {"between", "accepted", "open"} => holds[a] # None
    /\ \A s \in Socks : pc[s] \notin {"between", "work"} /\ (pc[s] = "auth" <=> loop = s)
    /\ \A r \in Rests : pc[r] \notin {"accepted", "open"}
    /\ Cardinality(InThread) <= Threads

\* A connection that is checked out and dead was checked out when it died.
DeadWereHeld == \A a \in Actors : holds[a] \in Conns \ alive => a \in hit

PoolInv == TypeOK /\ Conserved /\ Course /\ DeadWereHeld /\ BrokenWereHit
=============================================================================
