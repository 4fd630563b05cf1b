----------------------------- MODULE AccountBook -----------------------------
(***************************************************************************)
(* What DevTrack promises of accounts, as if every operation were done at  *)
(* once and alone: an account is enrolled under an id that was never used  *)
(* and an address nobody has, changes in one column at a time, acts and is *)
(* given credentials only while it exists, and goes with all it has done.  *)
(***************************************************************************)
CONSTANTS Ids, Requests, Emails, Passwords, Absent,
          Nobody       \* the origin of the accounts that were seeded

VARIABLES book,         \* the accounts, Absent where there is none
          spent,        \* the ids that were ever given out
          activity,     \* per id: the requests on record
          credentials   \* what was handed out

bvars == <<book, spent, activity, credentials>>

Member(i) == book[i] # Absent

NoOtherHas(e, i) == \A k \in Ids \ {i} : Member(k) => book[k].email # e

Account == [email : Emails, password : Passwords, admin : BOOLEAN,
            origin : Requests \cup {Nobody}]

BInit ==
    /\ book \in [Ids -> Account \cup {Absent}]
    /\ spent = {i \in Ids : Member(i)}
    /\ \A i \in Ids : Member(i) => NoOtherHas(book[i].email, i)
    /\ activity = [i \in Ids |-> {}]
    /\ \A t \in credentials :
          t.id \in Ids /\ Member(t.id) /\ t.origin = book[t.id].origin

\* An id may be given out for nothing.
Waste(i) ==
    /\ i \notin spent
    /\ spent' = spent \cup {i}
    /\ UNCHANGED <<book, activity, credentials>>

Enroll(i, r, e, p) ==
    /\ i \notin spent
    /\ NoOtherHas(e, i)
    /\ spent' = spent \cup {i}
    /\ book' = [book EXCEPT ![i] =
                    [email |-> e, password |-> p, admin |-> FALSE, origin |-> r]]
    /\ UNCHANGED <<activity, credentials>>

Move(i, e) ==
    /\ Member(i) /\ NoOtherHas(e, i)
    /\ book' = [book EXCEPT ![i].email = e]
    /\ UNCHANGED <<spent, activity, credentials>>

SetPassword(i, p) ==
    /\ Member(i)
    /\ book' = [book EXCEPT ![i].password = p]
    /\ UNCHANGED <<spent, activity, credentials>>

Act(i, r) ==
    /\ Member(i)
    /\ activity' = [activity EXCEPT ![i] = activity[i] \cup {r}]
    /\ UNCHANGED <<book, spent, credentials>>

Grant(i, Types) ==
    /\ Member(i)
    /\ credentials' = credentials \cup
           {[type |-> y, id |-> i, origin |-> book[i].origin] : y \in Types}
    /\ UNCHANGED <<book, spent, activity>>

Close(i) ==
    /\ Member(i)
    /\ book' = [book EXCEPT ![i] = Absent]
    /\ activity' = [activity EXCEPT ![i] = {}]
    /\ UNCHANGED <<spent, credentials>>

BNext == \E i \in Ids :
    \/ Waste(i) \/ Close(i)
    \/ \E e \in Emails : Move(i, e)
    \/ \E p \in Passwords : SetPassword(i, p)
    \/ \E r \in Requests : Act(i, r) \/ \E e \in Emails, p \in Passwords : Enroll(i, r, e, p)
    \/ \E Types \in SUBSET {"access", "refresh", "ws"} : Grant(i, Types)

BSpec == BInit /\ [][BNext]_bvars

-----------------------------------------------------------------------------
\* No address is two accounts', no id is given out twice, nothing is on record of
\* an account that is not there, and a credential is never good for another
\* account than the one it was given to.
Orderly ==
    /\ \A i, k \in Ids :
          Member(i) /\ Member(k) /\ book[i].email = book[k].email => i = k
    /\ \A i \in Ids : Member(i) => i \in spent
    /\ \A i \in Ids : ~Member(i) => activity[i] = {}
    /\ \A t \in credentials :
          /\ t.id \in spent
          /\ Member(t.id) => book[t.id].origin = t.origin
=============================================================================
