-------------------------- MODULE NotificationFeed --------------------------
(***************************************************************************)
(* How a notification reaches the browser tabs of one user.  notify_user   *)
(* runs in a worker thread: it commits the row and then, at best effort,   *)
(* hands a coroutine to the event loop.  The loop runs the coroutine, which *)
(* sends to a copy of the user's registry entry, awaiting one socket after *)
(* the other, and it runs the handlers of the sockets, each of which       *)
(* registers its socket and then reads the unread notifications from the   *)
(* database.  Between two awaits nothing else happens on the loop, but     *)
(* threads commit at any time.  Users share neither notes nor sockets.     *)
(***************************************************************************)
CONSTANTS Notes,     \* the notifications of one user
          Sockets,   \* the WebSocket connections the user opens
          Stalling,  \* those of them whose client may stop reading
          Crashes    \* whether the API process may die

ASSUME FeedAssumption == Stalling \subseteq Sockets /\ Crashes \in BOOLEAN

VARIABLES
    note,      \* the notifications table
    stage,     \* how far notify_user and its coroutine have come with a note
    targets,   \* per note: the sockets its coroutine has still to send to
    sending,   \* per note: the one of them whose send is being awaited
    registry,  \* ConnectionManager._connections of the user
    handler,   \* where the handler of a socket is
    stuck,     \* the sockets whose client reads no more while the buffers are full
    gone,      \* the sockets whose client has left, or was given up by the server
    listed,    \* per socket: the notes of its backlog frame
    live       \* per socket: the notes pushed to it

pushVars   == <<stage, targets, sending>>
socketVars == <<handler, stuck, gone, listed>>
vars == <<note, pushVars, registry, socketVars, live>>

Running == {"sending", "receiving"}  \* in the try block of notifications_ws

TypeOK ==
    /\ note     \in [Notes -> {"none", "unread", "read", "deleted"}]
    /\ stage    \in [Notes -> {"idle", "committed", "skipped", "scheduled", "pushing", "over"}]
    /\ targets  \in [Notes -> SUBSET Sockets]
    /\ sending  \in [Notes -> SUBSET Sockets]
    /\ registry \subseteq Sockets
    /\ handler  \in [Sockets -> {"new", "closed"} \cup Running]
    /\ stuck    \subseteq Sockets
    /\ gone     \subseteq Sockets
    /\ listed   \in [Sockets -> SUBSET Notes]
    /\ live     \in [Sockets -> SUBSET Notes]

Init ==
    /\ note     = [n \in Notes |-> "none"]
    /\ stage    = [n \in Notes |-> "idle"]
    /\ targets  = [n \in Notes |-> {}]
    /\ sending  = [n \in Notes |-> {}]
    /\ registry = {}
    /\ handler  = [s \in Sockets |-> "new"]
    /\ stuck    = {}
    /\ gone     = {}
    /\ listed   = [s \in Sockets |-> {}]
    /\ live     = [s \in Sockets |-> {}]

Unread == {n \in Notes : note[n] = "unread"}

-----------------------------------------------------------------------------
(* Worker threads: notify_user and the endpoints that change the row. *)

Create(n) ==
    /\ stage[n] = "idle"
    /\ note'  = [note  EXCEPT ![n] = "unread"]
    /\ stage' = [stage EXCEPT ![n] = "committed"]
    /\ UNCHANGED <<targets, sending, registry, socketVars, live>>

\* The row is read back and the coroutine handed to the loop.
Schedule(n) ==
    /\ stage[n] = "committed"
    /\ note[n] # "deleted"
    /\ stage' = [stage EXCEPT ![n] = "scheduled"]
    /\ UNCHANGED <<note, targets, sending, registry, socketVars, live>>

\* The push is best effort.  Reading the row back fails when it has been deleted
\* with its issue or when no connection is to be had; the loop may be missing or
\* closed, and handing over may fail.  The row stays as it is.
Skip(n) ==
    /\ stage[n] = "committed"
    /\ stage' = [stage EXCEPT ![n] = "skipped"]
    /\ UNCHANGED <<note, targets, sending, registry, socketVars, live>>

MarkRead(n) ==
    /\ note[n] = "unread"
    /\ note' = [note EXCEPT ![n] = "read"]
    /\ UNCHANGED <<pushVars, registry, socketVars, live>>

MarkAllRead ==
    /\ Unread # {}
    /\ note' = [n \in Notes |-> IF n \in Unread THEN "read" ELSE note[n]]
    /\ UNCHANGED <<pushVars, registry, socketVars, live>>

Delete(n) ==
    /\ note[n] \in {"unread", "read"}
    /\ note' = [note EXCEPT ![n] = "deleted"]
    /\ UNCHANGED <<pushVars, registry, socketVars, live>>

-----------------------------------------------------------------------------
(* The event loop: push_to_user. *)

\* The list is the copy of a set: any of the sockets left may be the next.
Awaited(S) == IF S = {} THEN {{}} ELSE {{s} : s \in S}

PushTo(n, S) ==
    /\ targets' = [targets EXCEPT ![n] = S]
    /\ \E next \in Awaited(S) : sending' = [sending EXCEPT ![n] = next]
    /\ stage'   = [stage   EXCEPT ![n] = IF S = {} THEN "over" ELSE "pushing"]

PushStart(n) ==
    /\ stage[n] = "scheduled"
    /\ PushTo(n, registry)
    /\ UNCHANGED <<note, registry, socketVars, live>>

\* A client that does not read holds up this send, and with it the sockets after
\* its own.
PushSend(n, s) ==
    /\ s \in sending[n]
    /\ s \notin gone \cup stuck
    /\ PushTo(n, targets[n] \ {s})
    /\ live' = [live EXCEPT ![s] = live[s] \cup {n}]
    /\ UNCHANGED <<note, registry, socketVars>>

\* A fault: the exception of one dead socket ends the whole push.
PushDropsAll(n, s) ==
    /\ s \in sending[n] \cap gone
    /\ PushTo(n, {})
    /\ registry' = registry \ {s}
    /\ UNCHANGED <<note, socketVars, live>>

\* Sending to a client that has left, before or while it is awaited, raises; the
\* socket is dropped, the others still get theirs.
PushDrops(n, s) ==
    /\ s \in sending[n] \cap gone
    /\ PushTo(n, targets[n] \ {s})
    /\ registry' = registry \ {s}
    /\ UNCHANGED <<note, socketVars, live>>

-----------------------------------------------------------------------------
(* The event loop: notifications_ws. *)

\* A fault: the socket is registered only once the backlog is out.
OpenUnregistered(s) ==
    /\ handler[s] = "new"
    /\ handler' = [handler EXCEPT ![s] = "sending"]
    /\ listed'  = [listed  EXCEPT ![s] = Unread]
    /\ UNCHANGED <<note, pushVars, registry, stuck, gone, live>>

\* After the handshake there is no await between manager.connect and the query,
\* and the query runs on the loop itself.
Open(s) ==
    /\ handler[s] = "new"
    /\ handler'  = [handler EXCEPT ![s] = "sending"]
    /\ registry' = registry \cup {s}
    /\ listed'   = [listed  EXCEPT ![s] = Unread]
    /\ UNCHANGED <<note, pushVars, stuck, gone, live>>

\* The credential is refused, or the query fails and the finally clause
\* unregisters the socket again.
OpenFails(s) ==
    /\ handler[s] = "new"
    /\ handler' = [handler EXCEPT ![s] = "closed"]
    /\ UNCHANGED <<note, pushVars, registry, stuck, gone, listed, live>>

BacklogSent(s) ==
    /\ handler[s] = "sending"
    /\ s \notin gone \cup stuck
    /\ handler' = [handler EXCEPT ![s] = "receiving"]
    /\ UNCHANGED <<note, pushVars, registry, stuck, gone, listed, live>>

ClientLeaves(s) ==
    /\ handler[s] \in Running
    /\ s \notin gone
    /\ gone'  = gone \cup {s}
    /\ stuck' = stuck \ {s}
    /\ UNCHANGED <<note, pushVars, registry, handler, listed, live>>

\* A client that reads again in time is one whose send only takes longer.
ClientStalls(s) ==
    /\ s \in Stalling
    /\ handler[s] \in Running
    /\ s \notin gone \cup stuck
    /\ stuck' = stuck \cup {s}
    /\ UNCHANGED <<note, pushVars, registry, handler, gone, listed, live>>

\* The server's ping to a client that does not read stays unanswered.
PingTimeout(s) ==
    /\ s \in stuck
    /\ gone'  = gone \cup {s}
    /\ stuck' = stuck \ {s}
    /\ UNCHANGED <<note, pushVars, registry, handler, listed, live>>

\* A fault: no finally clause.
CloseKept(s) ==
    /\ handler[s] \in Running
    /\ s \in gone
    /\ handler'  = [handler EXCEPT ![s] = "closed"]
    /\ UNCHANGED <<note, pushVars, registry, stuck, gone, listed, live>>

\* Sending or receiving raises WebSocketDisconnect; the finally clause follows.
Close(s) ==
    /\ handler[s] \in Running
    /\ s \in gone
    /\ handler'  = [handler EXCEPT ![s] = "closed"]
    /\ registry' = registry \ {s}
    /\ UNCHANGED <<note, pushVars, stuck, gone, listed, live>>

\* The process dies with its sockets, its registry and the coroutines; the rows
\* stay.  A client that connects again does so on a new socket.
Crash ==
    /\ Crashes
    /\ registry' = {}
    /\ handler'  = [s \in Sockets |-> IF handler[s] \in Running THEN "closed"
                                                               ELSE handler[s]]
    /\ gone'     = gone \cup {s \in Sockets : handler[s] \in Running}
    /\ stuck'    = {}
    /\ stage'    = [n \in Notes |-> CASE stage[n] \in {"idle", "skipped"} -> stage[n]
                                      [] stage[n] = "committed" -> "skipped"
                                      [] OTHER -> "over"]
    /\ targets'  = [n \in Notes |-> {}]
    /\ sending'  = [n \in Notes |-> {}]
    /\ UNCHANGED <<note, listed, live>>

-----------------------------------------------------------------------------

ThreadStep(n) == Create(n) \/ Schedule(n) \/ Skip(n) \/ MarkRead(n) \/ Delete(n)
PushStep(n)   == PushStart(n) \/ \E s \in Sockets : PushSend(n, s) \/ PushDrops(n, s)
ClientStep(s) == ClientLeaves(s) \/ ClientStalls(s) \/ PingTimeout(s)
SocketStep(s) == Open(s) \/ OpenFails(s) \/ BacklogSent(s) \/ Close(s) \/ ClientStep(s)

Next == \/ \E n \in Notes : ThreadStep(n) \/ PushStep(n)
        \/ MarkAllRead
        \/ \E s \in Sockets : SocketStep(s)
        \/ Crash

Spec == Init /\ [][Next]_vars

\* A thread that committed a note goes on, with or without handing it over; the
\* loop runs whatever is ready, and for each connection the server gets the
\* backlog out, gives it up or notices that it is gone (only one of the three is
\* possible at a time).  Nobody has to create, read, open or leave anything.
Fairness ==
    /\ \A n \in Notes : WF_vars(Schedule(n) \/ Skip(n)) /\ WF_vars(PushStep(n))
    /\ \A s \in Sockets : WF_vars(BacklogSent(s) \/ Close(s) \/ PingTimeout(s))

FairSpec == Spec /\ Fairness

-----------------------------------------------------------------------------
(* Properties. *)

\* What the client of s has been sent.
Shown(s) == live[s] \cup (IF handler[s] = "receiving" THEN listed[s] ELSE {})

Connected(s) == handler[s] \in Running /\ s \notin gone

\* What the tab of s may count on: a note is pushed to the tabs that are open
\* unless its push was skipped as a whole, and the backlog has it in any case.
Promised(s, n) == stage[n] # "skipped" \/ n \in listed[s]

\* An unread notification whose push was not skipped is never lost on a connected
\* tab: it is in the tab's backlog, has been pushed to it, or is still on its way
\* to it.  Registering before the query and committing before the push are both
\* needed for this.
NothingMissed ==
    \A s \in Sockets, n \in Unread :
        Connected(s) /\ Promised(s, n) =>
            \/ n \in listed[s] \cup live[s]
            \/ stage[n] \in {"committed", "scheduled"}
            \/ s \in targets[n]

\* The registry holds no socket whose handler has ended, and every socket whose
\* client is there: one dead tab never takes the others out.
RegistryExact ==
    /\ \A s \in registry : handler[s] \in Running
    /\ \A s \in Sockets : Connected(s) => s \in registry

\* What a tab was shown is in the database, so it survives the process
\* (unless the issue was deleted).
ShownIsStored ==
    \A s \in Sockets : \A n \in listed[s] \cup live[s] : note[n] # "none"

\* A connected tab is eventually shown every unread notification it may count on,
\* whatever the user's other tabs do: one that is dead or that does not read its
\* socket holds up those after it only until the server gives it up.
EventuallyShown ==
    \A s \in Sockets, n \in Notes :
        (n \in Unread /\ Connected(s) /\ Promised(s, n))
            ~> (n \in Shown(s) \/ s \in gone \/ n \notin Unread \/ ~Promised(s, n))

\* A tab that was left does not stay registered.
EventuallyUnregistered ==
    \A s \in Sockets : (s \in gone) ~> (s \notin registry)

\* Together with TypeOK these are inductive, given that what is being pushed
\* has been committed, that it is pushed to sockets that were opened, one at a
\* time, and that a socket that was not has nothing to do with any note.
PushedIsStored ==
    \A n \in Notes : /\ note[n] = "none" <=> stage[n] = "idle"
                     /\ targets[n] # {} => stage[n] = "pushing"
                     /\ sending[n] \in Awaited(targets[n])
                     /\ \A s \in targets[n] : s \in gone \/ handler[s] \in Running

NewIsBlank ==
    \A s \in Sockets : handler[s] = "new" =>
        s \notin gone \cup stuck /\ listed[s] = {} /\ live[s] = {}

FeedInv == TypeOK /\ PushedIsStored /\ NewIsBlank /\ RegistryExact /\ NothingMissed /\ ShownIsStored

-----------------------------------------------------------------------------
(* The feed implements the account of Inbox. *)

\* On its way to s: about to be pushed to whoever is registered then, being
\* pushed to s, or in the backlog frame of s that is not out yet.
Coming(s) == {n \in Notes : \/ stage[n] \in {"committed", "scheduled"}
                            \/ s \in targets[n]
                            \/ handler[s] = "sending" /\ n \in listed[s]}

Tab   == [s \in Sockets |-> IF Connected(s) THEN "open"
                            ELSE IF handler[s] = "new" THEN "new" ELSE "left"]
Owed  == [s \in Sockets |-> IF Connected(s) THEN Coming(s) \ Shown(s) ELSE {}]
Told  == [s \in Sockets |-> IF Connected(s) THEN Shown(s) ELSE {}]
Offer == [n \in Notes |-> CASE stage[n] \in {"idle", "committed"} -> "open"
                             [] stage[n] = "skipped" -> "withheld"
                             [] OTHER -> "made"]

Account == INSTANCE Inbox WITH row <- note, offer <- Offer, tab <- Tab, owed <- Owed, shown <- Told

\* What a tab owes its client, the registry, the backlog and the coroutines pay
\* to the last note, whichever thread, socket or crash comes between: the debts of
\* a note can be dropped only as a whole, by skipping its push right after it was
\* committed; once it is handed to the loop no dead, slow or leaving tab touches
\* what the others are owed, and none is shown what it is not owed.
DebtsArePaid == Account!ISpec
=============================================================================
