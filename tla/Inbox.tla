-------------------------------- MODULE Inbox --------------------------------
(***************************************************************************)
(* What DevTrack promises the user behind the notification tabs, with no   *)
(* registry, backlog frame or coroutine: a tab owes its client every note  *)
(* that is unread when it opens and every note stored while it is open.    *)
(* What it owes it shows.  The live offer of a note may be withheld, once, *)
(* before it is made; after that only leaving releases a tab from its      *)
(* debts, and nothing is ever shown that was not owed.                     *)
(***************************************************************************)
CONSTANTS Notes, Sockets

VARIABLES row,    \* the notifications table
          offer,  \* per note: still open, made to the tabs, or withheld
          tab,    \* new, open or left
          owed,   \* per tab: what it has still to show
          shown   \* per open tab: what it has shown

ivars == <<row, offer, tab, owed, shown>>

UnreadRows == {n \in Notes : row[n] = "unread"}
StoredRows == {n \in Notes : row[n] # "none"}

IInit == /\ row   = [n \in Notes |-> "none"]
         /\ offer = [n \in Notes |-> "open"]
         /\ tab   = [s \in Sockets |-> "new"]
         /\ owed  = [s \in Sockets |-> {}]
         /\ shown = [s \in Sockets |-> {}]

\* Storing a note puts it on the account of every open tab at once.
Store(n) ==
    /\ row[n] = "none"
    /\ row'  = [row EXCEPT ![n] = "unread"]
    /\ owed' = [s \in Sockets |-> IF tab[s] = "open" THEN owed[s] \cup {n} ELSE owed[s]]
    /\ UNCHANGED <<offer, tab, shown>>

\* Reading a note on one tab releases no other tab.
Read(N) ==
    /\ N \subseteq UnreadRows
    /\ row' = [n \in Notes |-> IF n \in N THEN "read" ELSE row[n]]
    /\ UNCHANGED <<offer, tab, owed, shown>>

Discard(n) ==
    /\ row[n] \in {"unread", "read"}
    /\ row' = [row EXCEPT ![n] = "deleted"]
    /\ UNCHANGED <<offer, tab, owed, shown>>

\* The note is offered to the tabs: from here on its debts stand.
Make(n) ==
    /\ row[n] # "none" /\ offer[n] = "open"
    /\ offer' = [offer EXCEPT ![n] = "made"]
    /\ UNCHANGED <<row, tab, owed, shown>>

\* It is not: the tabs are released, but for those that have it in their backlog.
Withhold(n, S) ==
    /\ row[n] # "none" /\ offer[n] = "open"
    /\ offer' = [offer EXCEPT ![n] = "withheld"]
    /\ owed'  = [s \in Sockets |-> IF s \in S THEN owed[s] \ {n} ELSE owed[s]]
    /\ UNCHANGED <<row, tab, shown>>

\* A tab may be told of more than what is unread: of what is on its way.
OpenTab(s, N) ==
    /\ tab[s] = "new"
    /\ UnreadRows \subseteq N /\ N \subseteq StoredRows
    /\ tab'  = [tab  EXCEPT ![s] = "open"]
    /\ owed' = [owed EXCEPT ![s] = N]
    /\ UNCHANGED <<row, offer, shown>>

\* One push or a whole backlog.
Show(s, N) ==
    /\ N \subseteq owed[s]
    /\ owed'  = [owed  EXCEPT ![s] = owed[s] \ N]
    /\ shown' = [shown EXCEPT ![s] = shown[s] \cup N]
    /\ UNCHANGED <<row, offer, tab>>

\* A client closes one tab.
Leave(s) ==
    /\ tab[s] # "left"
    /\ tab'   = [tab   EXCEPT ![s] = "left"]
    /\ owed'  = [owed  EXCEPT ![s] = {}]
    /\ shown' = [shown EXCEPT ![s] = {}]
    /\ UNCHANGED <<row, offer>>

\* The process dies: every open tab is lost, and so is every offer not made yet.
Down ==
    /\ offer' = [n \in Notes |-> IF row[n] # "none" /\ offer[n] = "open"
                                 THEN "withheld" ELSE offer[n]]
    /\ tab'   = [s \in Sockets |-> IF tab[s] = "open" THEN "left" ELSE tab[s]]
    /\ owed'  = [s \in Sockets |-> {}]
    /\ shown' = [s \in Sockets |-> {}]
    /\ UNCHANGED row

INext == \/ \E n \in Notes : \/ Store(n) \/ Discard(n) \/ Make(n)
                             \/ \E S \in SUBSET Sockets : Withhold(n, S)
         \/ \E N \in SUBSET Notes : Read(N) \/ \E s \in Sockets : OpenTab(s, N) \/ Show(s, N)
         \/ \E s \in Sockets : Leave(s)
         \/ Down

ISpec == IInit /\ [][INext]_ivars

\* What the account adds up to: an open tab has shown each unread note or owes it,
\* but for a note whose offer was withheld.
Accounted ==
    /\ row   \in [Notes -> {"none", "unread", "read", "deleted"}]
    /\ offer \in [Notes -> {"open", "made", "withheld"}]
    /\ tab   \in [Sockets -> {"new", "open", "left"}]
    /\ owed  \in [Sockets -> SUBSET StoredRows]
    /\ shown \in [Sockets -> SUBSET StoredRows]
    /\ \A s \in Sockets : tab[s] = "open" =>
          \A n \in UnreadRows : n \in owed[s] \cup shown[s] \/ offer[n] = "withheld"
    /\ \A s \in Sockets : tab[s] # "open" => owed[s] = {} /\ shown[s] = {}
=============================================================================
