----------------------- MODULE NotificationFeed_proofs -----------------------
(***************************************************************************)
(* Proofs about NotificationFeed, for any notifications and any sockets.   *)
(***************************************************************************)
EXTENDS NotificationFeed, TLAPS

USE DEF Unread, Running, pushVars, socketVars, Connected

LEMMA InitFeed == Init => FeedInv
  BY DEF Init, FeedInv, TypeOK, PushedIsStored, NewIsBlank, RegistryExact, NothingMissed,
         ShownIsStored, Awaited

\* Threads: they change the table and hand coroutines over.
LEMMA ThreadKeeps ==
    ASSUME FeedInv, NEW n \in Notes, ThreadStep(n) PROVE FeedInv'
<1> USE DEF FeedInv, TypeOK
<1>1. CASE Create(n)
  <2>1. TypeOK' /\ PushedIsStored'
    BY <1>1 DEF Create, PushedIsStored
  <2>2. NewIsBlank' /\ RegistryExact' /\ ShownIsStored'
    BY <1>1 DEF Create, NewIsBlank, RegistryExact, ShownIsStored
  <2>3. NothingMissed'
    BY <1>1 DEF Create, NothingMissed, Promised, PushedIsStored
  <2>4. QED
    BY <2>1, <2>2, <2>3
<1>2. CASE Schedule(n) \/ Skip(n)
  <2>1. TypeOK' /\ PushedIsStored'
    BY <1>2 DEF Schedule, Skip, PushedIsStored
  <2>2. NewIsBlank' /\ RegistryExact' /\ ShownIsStored'
    BY <1>2 DEF Schedule, Skip, NewIsBlank, RegistryExact, ShownIsStored
  <2>3. NothingMissed'
    BY <1>2 DEF Schedule, Skip, NothingMissed, Promised
  <2>4. QED
    BY <2>1, <2>2, <2>3
<1>3. CASE MarkRead(n) \/ Delete(n)
  <2>1. TypeOK' /\ PushedIsStored'
    BY <1>3 DEF MarkRead, Delete, PushedIsStored
  <2>2. NewIsBlank' /\ RegistryExact' /\ ShownIsStored'
    BY <1>3 DEF MarkRead, Delete, NewIsBlank, RegistryExact, ShownIsStored
  <2>3. NothingMissed'
    BY <1>3 DEF MarkRead, Delete, NothingMissed, Promised
  <2>4. QED
    BY <2>1, <2>2, <2>3
<1>4. QED
  BY <1>1, <1>2, <1>3 DEF ThreadStep

LEMMA MarkAllKeeps == ASSUME FeedInv, MarkAllRead PROVE FeedInv'
<1> USE DEF FeedInv, TypeOK, MarkAllRead
<1>1. TypeOK' /\ PushedIsStored'
  BY DEF PushedIsStored
<1>2. NewIsBlank' /\ RegistryExact' /\ ShownIsStored' /\ NothingMissed'
  BY DEF NewIsBlank, RegistryExact, ShownIsStored, NothingMissed, Promised
<1>3. QED
  BY <1>1, <1>2

\* The socket whose send is awaited is one of those left.
LEMMA AwaitedLeft == \A S : \A Q \in Awaited(S) : Q \subseteq S
  BY DEF Awaited

\* The coroutine of a note: a socket leaves its targets with the note or dead.
LEMMA PushToKeeps ==
    ASSUME FeedInv, NEW n \in Notes, NEW S \in SUBSET Sockets, PushTo(n, S)
    PROVE  /\ targets' \in [Notes -> SUBSET Sockets] /\ sending' \in [Notes -> SUBSET Sockets]
           /\ \A m \in Notes : sending'[m] \in Awaited(targets'[m])
           /\ targets'[n] = S /\ \A m \in Notes \ {n} : targets'[m] = targets[m]
<1> USE DEF FeedInv, TypeOK, PushTo
<1>1. PICK next \in Awaited(S) : sending' = [sending EXCEPT ![n] = next]
  OBVIOUS
<1>2. next \subseteq S
  BY AwaitedLeft
<1>3. \A m \in Notes : sending[m] \in Awaited(targets[m])
  BY DEF PushedIsStored
<1>4. QED
  BY <1>1, <1>2, <1>3

LEMMA PushKeeps ==
    ASSUME FeedInv, NEW n \in Notes, PushStep(n) PROVE FeedInv'
<1> USE DEF FeedInv, TypeOK
<1>1. CASE PushStart(n)
  <2>1. /\ targets' \in [Notes -> SUBSET Sockets] /\ sending' \in [Notes -> SUBSET Sockets]
        /\ \A m \in Notes : sending'[m] \in Awaited(targets'[m])
        /\ targets'[n] = registry /\ \A m \in Notes \ {n} : targets'[m] = targets[m]
    BY <1>1, PushToKeeps DEF PushStart
  <2>2. TypeOK' /\ PushedIsStored'
    BY <1>1, <2>1 DEF PushStart, PushTo, PushedIsStored, RegistryExact
  <2>3. NewIsBlank' /\ RegistryExact' /\ ShownIsStored'
    BY <1>1 DEF PushStart, NewIsBlank, RegistryExact, ShownIsStored
  <2>4. NothingMissed'
    BY <1>1, <2>1 DEF PushStart, PushTo, NothingMissed, Promised, RegistryExact
  <2>5. QED
    BY <2>2, <2>3, <2>4
<1>2. ASSUME NEW s \in Sockets, PushSend(n, s) \/ PushDrops(n, s) PROVE FeedInv'
  <2>1. /\ targets' \in [Notes -> SUBSET Sockets] /\ sending' \in [Notes -> SUBSET Sockets]
        /\ \A m \in Notes : sending'[m] \in Awaited(targets'[m])
        /\ targets'[n] = targets[n] \ {s} /\ \A m \in Notes \ {n} : targets'[m] = targets[m]
    BY <1>2, PushToKeeps DEF PushSend, PushDrops
  <2>2. s \in targets[n] /\ stage[n] = "pushing"
    BY <1>2, AwaitedLeft DEF PushSend, PushDrops, PushedIsStored
  <2>3. TypeOK' /\ PushedIsStored'
    BY <1>2, <2>1, <2>2 DEF PushSend, PushDrops, PushTo, PushedIsStored
  <2>4. NewIsBlank' /\ RegistryExact' /\ ShownIsStored'
    BY <1>2, <2>2 DEF PushSend, PushDrops, NewIsBlank, RegistryExact, ShownIsStored, PushedIsStored
  <2>5. NothingMissed'
    BY <1>2, <2>1, <2>2 DEF PushSend, PushDrops, PushTo, NothingMissed, Promised
  <2>6. QED
    BY <2>3, <2>4, <2>5
<1>3. QED
  BY <1>1, <1>2 DEF PushStep

\* The handler of a socket: opening one lists what is unread at that moment.
LEMMA SocketKeeps ==
    ASSUME FeedInv, NEW s \in Sockets, SocketStep(s) PROVE FeedInv'
<1> USE DEF FeedInv, TypeOK
<1>1. CASE Open(s)
  <2>1. TypeOK' /\ PushedIsStored'
    BY <1>1 DEF Open, PushedIsStored
  <2>2. NewIsBlank' /\ RegistryExact' /\ ShownIsStored'
    BY <1>1 DEF Open, NewIsBlank, RegistryExact, ShownIsStored
  <2>3. NothingMissed'
    BY <1>1 DEF Open, NothingMissed, Promised
  <2>4. QED
    BY <2>1, <2>2, <2>3
<1>2. CASE OpenFails(s) \/ BacklogSent(s) \/ ClientStep(s)
  <2> USE DEF OpenFails, BacklogSent, ClientStep, ClientLeaves, ClientStalls, PingTimeout
  <2>1. TypeOK' /\ PushedIsStored'
    BY <1>2 DEF PushedIsStored
  <2>2. NewIsBlank' /\ RegistryExact' /\ ShownIsStored'
    BY <1>2 DEF NewIsBlank, RegistryExact, ShownIsStored
  <2>3. NothingMissed'
    BY <1>2 DEF NothingMissed, Promised
  <2>4. QED
    BY <2>1, <2>2, <2>3
<1>3. CASE Close(s)
  <2>1. TypeOK' /\ PushedIsStored'
    BY <1>3 DEF Close, PushedIsStored
  <2>2. NewIsBlank' /\ RegistryExact' /\ ShownIsStored'
    BY <1>3 DEF Close, NewIsBlank, RegistryExact, ShownIsStored
  <2>3. NothingMissed'
    BY <1>3 DEF Close, NothingMissed, Promised
  <2>4. QED
    BY <2>1, <2>2, <2>3
<1>4. QED
  BY <1>1, <1>2, <1>3 DEF SocketStep

LEMMA CrashKeeps == ASSUME FeedInv, Crash PROVE FeedInv'
<1> USE DEF FeedInv, TypeOK, Crash
<1>1. TypeOK' /\ PushedIsStored'
  BY DEF PushedIsStored, Awaited
<1>2. NewIsBlank' /\ RegistryExact' /\ ShownIsStored' /\ NothingMissed'
  BY DEF NewIsBlank, RegistryExact, ShownIsStored, NothingMissed, Promised
<1>3. QED
  BY <1>1, <1>2

LEMMA StepFeed == FeedInv /\ [Next]_vars => FeedInv'
<1> SUFFICES ASSUME FeedInv, [Next]_vars PROVE FeedInv'
  OBVIOUS
<1>1. CASE UNCHANGED vars
  BY <1>1 DEF vars, FeedInv, TypeOK, PushedIsStored, NewIsBlank, RegistryExact,
              NothingMissed, Promised, ShownIsStored
<1>2. QED
  BY <1>1, ThreadKeeps, MarkAllKeeps, PushKeeps, SocketKeeps, CrashKeeps DEF Next

\* The state of the feed in every reachable state.
THEOREM FeedInvariant == Spec => []FeedInv
  BY InitFeed, StepFeed, PTL DEF Spec

\* No connected tab misses an unread notification, unless its push was skipped as
\* a whole and the tab opened before it was stored.
THEOREM NothingMissedHolds == Spec => []NothingMissed
<1>1. FeedInv => NothingMissed
  BY DEF FeedInv
<1>2. QED
  BY <1>1, FeedInvariant, PTL

\* The registry holds the tabs that are served, and all whose client is there.
THEOREM RegistryExactHolds == Spec => []RegistryExact
<1>1. FeedInv => RegistryExact
  BY DEF FeedInv
<1>2. QED
  BY <1>1, FeedInvariant, PTL

\* What a tab was shown was committed first, so a restart does not take it back.
THEOREM ShownIsStoredHolds == Spec => []ShownIsStored
<1>1. FeedInv => ShownIsStored
  BY DEF FeedInv
<1>2. QED
  BY <1>1, FeedInvariant, PTL

-----------------------------------------------------------------------------
(* The feed implements the account of Inbox, step by step.                 *)

HIDE DEF Connected

LEMMA AccountFunctions ==
    /\ Tab  = [s \in Sockets |-> Tab[s]]  /\ Tab'  = [s \in Sockets |-> Tab'[s]]
    /\ Owed = [s \in Sockets |-> Owed[s]] /\ Owed' = [s \in Sockets |-> Owed'[s]]
    /\ Told = [s \in Sockets |-> Told[s]] /\ Told' = [s \in Sockets |-> Told'[s]]
    /\ Offer = [n \in Notes |-> Offer[n]] /\ Offer' = [n \in Notes |-> Offer'[n]]
  BY DEF Tab, Owed, Told, Offer

\* A step after which every tab is where it was, and owed and told the same.
LEMMA AccountStutter ==
    ASSUME note' = note, Offer' = Offer,
           \A s \in Sockets : /\ Connected(s)' = Connected(s)
                              /\ (handler[s] = "new")' = (handler[s] = "new"),
           \A s \in Sockets : Connected(s) => Coming(s)' = Coming(s) /\ Shown(s)' = Shown(s)
    PROVE  UNCHANGED Account!ivars
<1>1. Tab' = Tab
  BY DEF Tab
<1>2. Owed' = Owed /\ Told' = Told
  BY DEF Owed, Told
<1>3. QED
  BY <1>1, <1>2 DEF Account!ivars

\* What leaves the sockets alone leaves the tabs and what they were told.
LEMMA SocketsKept ==
    ASSUME UNCHANGED <<handler, gone, listed, live>>
    PROVE  /\ \A s \in Sockets : Connected(s)' = Connected(s) /\ Shown(s)' = Shown(s)
           /\ Tab' = Tab /\ Told' = Told
  BY DEF Connected, Shown, Tab, Told

LEMMA AccountThread ==
    ASSUME FeedInv, NEW n \in Notes, ThreadStep(n) PROVE [Account!INext]_(Account!ivars)
<1> USE DEF FeedInv, TypeOK
<1>1. UNCHANGED <<handler, gone, listed, live, targets>>
  BY DEF ThreadStep, Create, Schedule, Skip, MarkRead, Delete
<1>2. /\ \A s \in Sockets : Connected(s)' = Connected(s) /\ Shown(s)' = Shown(s)
      /\ Tab' = Tab /\ Told' = Told
  BY <1>1, SocketsKept
<1>3. CASE Create(n)
  <2>1. \A s \in Sockets : Coming(s)' = Coming(s) \cup {n} /\ n \notin Shown(s)
    BY <1>1, <1>3 DEF Create, Coming, Shown, ShownIsStored, PushedIsStored
  <2>2. Owed' = [s \in Sockets |-> IF Tab[s] = "open" THEN Owed[s] \cup {n} ELSE Owed[s]]
    <3>1. \A s \in Sockets : (Coming(s) \cup {n}) \ Shown(s) = (Coming(s) \ Shown(s)) \cup {n}
      BY <2>1
    <3>2. QED
      BY <1>2, <2>1, <3>1 DEF Owed, Tab
  <2>3. note[n] = "none" /\ note' = [note EXCEPT ![n] = "unread"]
    BY <1>3 DEF Create, PushedIsStored
  <2>4. Offer' = Offer
    BY <1>3 DEF Create, Offer
  <2>5. QED
    BY <1>2, <2>2, <2>3, <2>4 DEF Account!INext, Account!Store
<1>4. CASE Schedule(n)
  <2>1. \A s \in Sockets : Coming(s)' = Coming(s)
    BY <1>1, <1>4 DEF Schedule, Coming
  <2>2. Owed' = Owed
    BY <1>2, <2>1 DEF Owed
  <2>3. note[n] # "none" /\ Offer[n] = "open" /\ Offer' = [Offer EXCEPT ![n] = "made"]
    BY <1>4 DEF Schedule, Offer, PushedIsStored
  <2>4. Account!Make(n)
    BY <1>2, <1>4, <2>2, <2>3 DEF Schedule, Account!Make
  <2>5. QED
    BY <2>4 DEF Account!INext
<1>5. CASE Skip(n)
  <2> DEFINE S == {s \in Sockets : ~(handler[s] = "sending" /\ n \in listed[s])}
  <2>1. \A s \in Sockets : Coming(s)' = IF s \in S THEN Coming(s) \ {n} ELSE Coming(s)
    BY <1>1, <1>5 DEF Skip, Coming, PushedIsStored
  <2>2. Owed' = [s \in Sockets |-> IF s \in S THEN Owed[s] \ {n} ELSE Owed[s]]
    <3>1. \A s \in Sockets : (Coming(s) \ {n}) \ Shown(s) = (Coming(s) \ Shown(s)) \ {n}
      OBVIOUS
    <3>2. QED
      BY <1>2, <2>1, <3>1 DEF Owed
  <2>3. note[n] # "none" /\ Offer[n] = "open" /\ Offer' = [Offer EXCEPT ![n] = "withheld"]
    BY <1>5 DEF Skip, Offer, PushedIsStored
  <2>4. Account!Withhold(n, S)
    BY <1>2, <1>5, <2>2, <2>3 DEF Skip, Account!Withhold
  <2>5. QED
    BY <2>4 DEF Account!INext
<1>6. CASE MarkRead(n) \/ Delete(n)
  <2>1. \A s \in Sockets : Coming(s)' = Coming(s)
    BY <1>1, <1>6 DEF MarkRead, Delete, Coming
  <2>2. Owed' = Owed /\ Offer' = Offer
    <3>1. UNCHANGED stage
      BY <1>6 DEF MarkRead, Delete
    <3>2. QED
      BY <1>2, <2>1, <3>1 DEF Owed, Offer
  <2>3. CASE MarkRead(n)
    <3>1. note' = [m \in Notes |-> IF m \in {n} THEN "read" ELSE note[m]]
      BY <2>3 DEF MarkRead
    <3>2. Account!Read({n})
      BY <1>2, <2>2, <2>3, <3>1 DEF MarkRead, Account!Read, Account!UnreadRows
    <3>3. QED
      BY <3>2 DEF Account!INext
  <2>4. CASE Delete(n)
    <3>1. Account!Discard(n)
      BY <1>2, <2>2, <2>4 DEF Delete, Account!Discard
    <3>2. QED
      BY <3>1 DEF Account!INext
  <2>5. QED
    BY <1>6, <2>3, <2>4
<1>7. QED
  BY <1>3, <1>4, <1>5, <1>6 DEF ThreadStep

LEMMA AccountMarkAll ==
    ASSUME FeedInv, MarkAllRead PROVE [Account!INext]_(Account!ivars)
<1>1. UNCHANGED <<handler, gone, listed, live, targets, stage>>
  BY DEF MarkAllRead
<1>2. /\ \A s \in Sockets : Connected(s)' = Connected(s) /\ Shown(s)' = Shown(s)
      /\ Tab' = Tab /\ Told' = Told
  BY <1>1, SocketsKept
<1>3. \A s \in Sockets : Coming(s)' = Coming(s)
  BY <1>1 DEF Coming
<1>4. Owed' = Owed /\ Offer' = Offer
  BY <1>1, <1>2, <1>3 DEF Owed, Offer
<1>5. Account!Read(Unread)
  BY <1>2, <1>4 DEF MarkAllRead, Account!Read, Account!UnreadRows
<1>6. Unread \in SUBSET Notes
  OBVIOUS
<1>7. QED
  BY <1>5, <1>6 DEF Account!INext

LEMMA AccountPush ==
    ASSUME FeedInv, NEW n \in Notes, PushStep(n) PROVE [Account!INext]_(Account!ivars)
<1> USE DEF FeedInv, TypeOK
<1>1. UNCHANGED <<note, handler, gone, listed>>
  BY DEF PushStep, PushStart, PushSend, PushDrops, PushTo
<1>2. \A s \in Sockets : Connected(s)' = Connected(s) /\ (handler[s] = "new")' = (handler[s] = "new")
  BY <1>1 DEF Connected
<1>3. Offer' = Offer
  <2>1. stage[n] \in {"scheduled", "pushing"}
    BY AwaitedLeft DEF PushStep, PushStart, PushSend, PushDrops, PushedIsStored
  <2>2. PICK S : PushTo(n, S)
    BY DEF PushStep, PushStart, PushSend, PushDrops
  <2>3. /\ stage'[n] \in {"pushing", "over"}
        /\ \A m \in Notes \ {n} : stage'[m] = stage[m]
    BY <2>2 DEF PushTo
  <2>4. QED
    BY <2>1, <2>3 DEF Offer
<1>4. CASE PushStart(n)
  <2>1. UNCHANGED live /\ \A s \in Sockets : Shown(s)' = Shown(s)
    BY <1>1, <1>4 DEF PushStart, Shown
  <2>2. \A s \in Sockets : Connected(s) => s \in registry
    BY DEF Connected, RegistryExact
  <2>3. \A s \in Sockets : Connected(s) => Coming(s)' = Coming(s)
    BY <1>1, <1>4, <2>2 DEF PushStart, PushTo, Coming, PushedIsStored
  <2>4. QED
    BY <1>1, <1>2, <1>3, <2>1, <2>3, AccountStutter
<1>5. ASSUME NEW s \in Sockets, PushSend(n, s) PROVE Account!INext
  <2> DEFINE N == {n} \cap Owed[s]
  <2>1. stage[n] = "pushing" /\ s \in targets[n] /\ Connected(s)
    BY <1>5, AwaitedLeft DEF PushSend, PushedIsStored, Connected
  <2>2. \A t \in Sockets : Shown(t)' = IF t = s THEN Shown(s) \cup {n} ELSE Shown(t)
    BY <1>1, <1>5 DEF PushSend, Shown
  <2>3. \A t \in Sockets \ {s} : Coming(t)' = Coming(t)
    BY <1>1, <1>5, <2>1 DEF PushSend, PushTo, Coming
  <2>4. \A m \in Notes \ {n} : m \in Coming(s)' <=> m \in Coming(s)
    BY <1>1, <1>5, <2>1 DEF PushSend, PushTo, Coming
  <2>5. n \in Coming(s)
    BY <2>1 DEF Coming
  <2>6. Owed[s] = Coming(s) \ Shown(s) /\ Told[s] = Shown(s)
    BY <2>1 DEF Owed, Told
  <2>7. (Coming(s) \ Shown(s))' = Owed[s] \ N
    BY <2>2, <2>4, <2>6 DEF Coming
  <2>8. Shown(s)' = Told[s] \cup N
    BY <2>2, <2>5, <2>6
  <2>9. Owed' = [Owed EXCEPT ![s] = Owed[s] \ N] /\ Told' = [Told EXCEPT ![s] = Told[s] \cup N]
    <3>1. \A t \in Sockets : Owed'[t] = IF t = s THEN Owed[s] \ N ELSE Owed[t]
      BY <1>2, <2>1, <2>2, <2>3, <2>7 DEF Owed
    <3>2. \A t \in Sockets : Told'[t] = IF t = s THEN Told[s] \cup N ELSE Told[t]
      BY <1>2, <2>1, <2>2, <2>8 DEF Told
    <3>3. QED
      BY <3>1, <3>2, AccountFunctions
  <2>10. Tab' = Tab
    BY <1>1, <1>2 DEF Tab
  <2>11. Account!Show(s, N)
    BY <1>1, <1>3, <2>9, <2>10 DEF Account!Show
  <2>12. QED
    BY <2>11 DEF Account!INext
<1>6. ASSUME NEW s \in Sockets, PushDrops(n, s) PROVE UNCHANGED Account!ivars
  <2>1. stage[n] = "pushing" /\ s \in targets[n] /\ ~Connected(s)
    BY <1>6, AwaitedLeft DEF PushDrops, PushedIsStored, Connected
  <2>2. \A t \in Sockets : Shown(t)' = Shown(t)
    BY <1>1, <1>6 DEF PushDrops, Shown
  <2>3. \A t \in Sockets : Connected(t) => Coming(t)' = Coming(t)
    BY <1>1, <1>6, <2>1 DEF PushDrops, PushTo, Coming
  <2>4. QED
    BY <1>1, <1>2, <1>3, <2>2, <2>3, AccountStutter
<1>7. QED
  BY <1>4, <1>5, <1>6 DEF PushStep

\* What happens to one socket leaves every other tab where it was.
LEMMA OthersKept ==
    ASSUME FeedInv, NEW s \in Sockets, SocketStep(s)
    PROVE  /\ UNCHANGED <<note, stage, targets, live>>
           /\ \A t \in Sockets \ {s} :
                 Tab'[t] = Tab[t] /\ Owed'[t] = Owed[t] /\ Told'[t] = Told[t]
<1>1. UNCHANGED <<note, stage, targets, live>>
  BY DEF SocketStep, Open, OpenFails, BacklogSent, ClientStep, ClientLeaves, ClientStalls,
         PingTimeout, Close
<1>2. ASSUME NEW t \in Sockets \ {s}
      PROVE  Tab'[t] = Tab[t] /\ Owed'[t] = Owed[t] /\ Told'[t] = Told[t]
  <2>1. handler'[t] = handler[t] /\ listed'[t] = listed[t] /\ (t \in gone' <=> t \in gone)
    BY DEF FeedInv, TypeOK, SocketStep, Open, OpenFails, BacklogSent, ClientStep, ClientLeaves,
           ClientStalls, PingTimeout, Close
  <2>2. Connected(t)' <=> Connected(t)
    BY <2>1 DEF Connected
  <2>3. Shown(t)' = Shown(t) /\ Coming(t)' = Coming(t)
    BY <1>1, <2>1 DEF Shown, Coming
  <2>4. QED
    BY <2>1, <2>2, <2>3 DEF Tab, Owed, Told
<1>3. QED
  BY <1>1, <1>2

LEMMA AccountSocket ==
    ASSUME FeedInv, NEW s \in Sockets, SocketStep(s) PROVE [Account!INext]_(Account!ivars)
<1>1. UNCHANGED <<note, stage, targets, live>> /\ Offer' = Offer
  BY OthersKept DEF Offer
<1>2. \A t \in Sockets \ {s} : Tab'[t] = Tab[t] /\ Owed'[t] = Owed[t] /\ Told'[t] = Told[t]
  BY OthersKept
<1> USE DEF FeedInv, TypeOK
<1>3. CASE Open(s)
  <2>1. ~Connected(s) /\ Tab[s] = "new" /\ Owed[s] = {} /\ Told[s] = {} /\ live[s] = {}
    BY <1>3 DEF Open, Connected, Tab, Owed, Told, NewIsBlank
  <2>2. Connected(s)' /\ Shown(s)' = {}
    BY <1>1, <1>3, <2>1 DEF Open, Connected, Shown, NewIsBlank
  <2>3. Unread \subseteq Coming(s)' /\ Coming(s)' \subseteq {n \in Notes : note[n] # "none"}
    BY <1>1, <1>3 DEF Open, Coming, PushedIsStored
  <2>4. Tab'[s] = "open" /\ Owed'[s] = Coming(s)' /\ Told'[s] = Told[s]
    BY <2>1, <2>2 DEF Tab, Owed, Told
  <2>5. /\ Tab' = [Tab EXCEPT ![s] = "open"] /\ Owed' = [Owed EXCEPT ![s] = Coming(s)']
        /\ Told' = Told
    BY <1>2, <2>4, AccountFunctions
  <2>6. PICK N \in SUBSET Notes : N = Coming(s)'
    BY <2>3
  <2>7. Account!OpenTab(s, N)
    BY <1>1, <2>1, <2>3, <2>5, <2>6 DEF Account!OpenTab, Account!UnreadRows, Account!StoredRows
  <2>8. QED
    BY <2>7 DEF Account!INext
<1>4. CASE BacklogSent(s)
  <2> DEFINE N == listed[s] \cap Owed[s]
  <2>1. /\ Connected(s) /\ Connected(s)' /\ handler[s] = "sending" /\ handler'[s] = "receiving"
        /\ UNCHANGED listed
    BY <1>4 DEF BacklogSent, Connected
  <2>2. Shown(s) = live[s] /\ Shown(s)' = live[s] \cup listed[s]
    BY <1>1, <2>1 DEF Shown
  <2>3. listed[s] \subseteq Coming(s) /\ \A m \in Notes \ listed[s] : m \in Coming(s)' <=> m \in Coming(s)
    BY <1>1, <2>1 DEF Coming
  <2>4. Owed[s] = Coming(s) \ Shown(s) /\ Told[s] = Shown(s) /\ Tab'[s] = Tab[s]
    BY <2>1 DEF Owed, Told, Tab
  <2>5. Owed'[s] = Owed[s] \ N
    <3>1. Owed'[s] = Coming(s)' \ Shown(s)'
      BY <2>1 DEF Owed
    <3>2. QED
      BY <2>2, <2>3, <2>4, <3>1 DEF Coming
  <2>6. Told'[s] = Told[s] \cup N
    <3>1. Told'[s] = Shown(s)'
      BY <2>1 DEF Told
    <3>2. QED
      BY <2>2, <2>3, <2>4, <3>1
  <2>7. /\ Owed' = [Owed EXCEPT ![s] = Owed[s] \ N] /\ Told' = [Told EXCEPT ![s] = Told[s] \cup N]
        /\ Tab' = Tab
    BY <1>2, <2>4, <2>5, <2>6, AccountFunctions
  <2>8. Account!Show(s, N)
    BY <1>1, <2>7 DEF Account!Show
  <2>9. QED
    BY <2>8 DEF Account!INext
<1>5. CASE OpenFails(s) \/ ClientLeaves(s) \/ (PingTimeout(s) /\ Tab[s] # "left")
  <2>1. ~Connected(s)' /\ handler'[s] # "new" /\ Tab[s] # "left"
    BY <1>5 DEF OpenFails, ClientLeaves, PingTimeout, Connected, Tab, NewIsBlank
  <2>2. Tab'[s] = "left" /\ Owed'[s] = {} /\ Told'[s] = {}
    BY <2>1 DEF Tab, Owed, Told
  <2>3. /\ Tab'  = [Tab  EXCEPT ![s] = "left"]
        /\ Owed' = [Owed EXCEPT ![s] = {}]
        /\ Told' = [Told EXCEPT ![s] = {}]
    BY <1>2, <2>2, AccountFunctions
  <2>4. Account!Leave(s)
    BY <1>1, <2>1, <2>3 DEF Account!Leave
  <2>5. QED
    BY <2>4 DEF Account!INext
<1>6. CASE Close(s) \/ ClientStalls(s) \/ (PingTimeout(s) /\ Tab[s] = "left")
  <2>1. /\ Connected(s)' = Connected(s) /\ (Connected(s) => handler'[s] = handler[s])
        /\ (handler'[s] = "new" <=> handler[s] = "new") /\ listed' = listed
    BY <1>6 DEF Close, ClientStalls, PingTimeout, Connected, Tab, NewIsBlank
  <2>2. Connected(s) => Coming(s)' = Coming(s) /\ Shown(s)' = Shown(s)
    BY <1>1, <2>1 DEF Coming, Shown
  <2>3. Tab'[s] = Tab[s] /\ Owed'[s] = Owed[s] /\ Told'[s] = Told[s]
    BY <2>1, <2>2 DEF Tab, Owed, Told
  <2>4. Tab' = Tab /\ Owed' = Owed /\ Told' = Told
    BY <1>2, <2>3, AccountFunctions
  <2>5. QED
    BY <1>1, <2>4 DEF Account!ivars
<1>7. \/ Open(s) \/ BacklogSent(s)
      \/ OpenFails(s) \/ ClientLeaves(s) \/ (PingTimeout(s) /\ Tab[s] # "left")
      \/ Close(s) \/ ClientStalls(s) \/ (PingTimeout(s) /\ Tab[s] = "left")
  BY DEF SocketStep, ClientStep
<1>8. QED
  BY <1>3, <1>4, <1>5, <1>6, <1>7

\* A crash ends every tab that is connected and every push not handed over yet.
LEMMA AccountCrash ==
    ASSUME FeedInv, Crash PROVE [Account!INext]_(Account!ivars)
<1> USE DEF FeedInv, TypeOK
<1>1. \A s \in Sockets : ~Connected(s)' /\ (handler'[s] = "new" <=> handler[s] = "new")
  BY DEF Crash, Connected
<1>2. /\ Tab'  = [s \in Sockets |-> IF Tab[s] = "open" THEN "left" ELSE Tab[s]]
      /\ Owed' = [s \in Sockets |-> {}]
      /\ Told' = [s \in Sockets |-> {}]
  BY <1>1 DEF Tab, Owed, Told, Connected
<1>3. Offer' = [n \in Notes |-> IF note[n] # "none" /\ Offer[n] = "open"
                               THEN "withheld" ELSE Offer[n]]
  BY DEF Crash, Offer, PushedIsStored
<1>4. Account!Down
  BY <1>2, <1>3 DEF Crash, Account!Down
<1>5. QED
  BY <1>4 DEF Account!INext

\* The feed keeps the account of every tab: nothing drops a debt of it but the
\* skipping of a push as a whole, right after the note was committed.
THEOREM FeedPaysDebts == Spec => DebtsArePaid
<1>1. Init => Account!IInit
  BY DEF Init, Account!IInit, Tab, Owed, Told, Offer, Connected
<1>2. FeedInv /\ [Next]_vars => [Account!INext]_(Account!ivars)
  <2>1. CASE UNCHANGED vars
    <3>1. /\ \A s \in Sockets : Coming(s)' = Coming(s) /\ Shown(s)' = Shown(s)
                               /\ Connected(s)' = Connected(s)
          /\ Offer' = Offer
      BY <2>1 DEF vars, Coming, Shown, Connected, Offer
    <3>2. QED
      BY <2>1, <3>1, AccountStutter DEF vars
  <2>2. QED
    BY <2>1, AccountThread, AccountMarkAll, AccountPush, AccountSocket, AccountCrash DEF Next
<1>3. QED
  BY <1>1, <1>2, FeedInvariant, PTL DEF Spec, DebtsArePaid, Account!ISpec

\* What the account promises, whatever keeps it: no open tab is without an unread
\* note that it neither showed nor owes, unless its offer was withheld, and nothing
\* that was never stored is shown.
THEOREM AccountAddsUp == DebtsArePaid => []Account!Accounted
<1> USE DEF Account!Accounted, Account!UnreadRows, Account!StoredRows
<1>1. Account!IInit => Account!Accounted
  BY DEF Account!IInit
<1>2. Account!Accounted /\ [Account!INext]_(Account!ivars) => Account!Accounted'
  <2> SUFFICES ASSUME Account!Accounted, [Account!INext]_(Account!ivars) PROVE Account!Accounted'
    OBVIOUS
  <2>1. ASSUME NEW n \in Notes, Account!Store(n) PROVE Account!Accounted'
    BY <2>1 DEF Account!Store
  <2>2. ASSUME NEW n \in Notes, Account!Discard(n) PROVE Account!Accounted'
    BY <2>2 DEF Account!Discard
  <2>3. ASSUME NEW n \in Notes, NEW S \in SUBSET Sockets, Account!Withhold(n, S)
        PROVE  Account!Accounted'
    BY <2>3 DEF Account!Withhold
  <2>4. ASSUME NEW N \in SUBSET Notes, Account!Read(N) PROVE Account!Accounted'
    BY <2>4 DEF Account!Read
  <2>5. ASSUME NEW N \in SUBSET Notes, NEW s \in Sockets, Account!OpenTab(s, N)
        PROVE  Account!Accounted'
    BY <2>5 DEF Account!OpenTab
  <2>6. ASSUME NEW N \in SUBSET Notes, NEW s \in Sockets, Account!Show(s, N)
        PROVE  Account!Accounted'
    BY <2>6 DEF Account!Show
  <2>7. ASSUME NEW s \in Sockets, Account!Leave(s) PROVE Account!Accounted'
    BY <2>7 DEF Account!Leave
  <2>8. ASSUME NEW n \in Notes, Account!Make(n) PROVE Account!Accounted'
    BY <2>8 DEF Account!Make
  <2>9. CASE Account!Down
    BY <2>9 DEF Account!Down
  <2>10. CASE UNCHANGED Account!ivars
    BY <2>10 DEF Account!ivars
  <2>11. QED
    BY <2>1, <2>2, <2>3, <2>4, <2>5, <2>6, <2>7, <2>8, <2>9, <2>10 DEF Account!INext
<1>3. QED
  BY <1>1, <1>2, PTL DEF DebtsArePaid, Account!ISpec
=============================================================================
