------------------------------ MODULE Accounts ------------------------------
(***************************************************************************)
(* Accounts and their tokens: registration, login, refresh, change of      *)
(* password, change of the address, logout, the ticket for the socket, and *)
(* the deletion of a user by an admin with everything that hangs on the    *)
(* user.  Each request has a session of its own and commits in several     *)
(* transactions; the users table has a unique index on the address and     *)
(* activity_logs a foreign key to it, and nothing is locked.  A token is a *)
(* signed user id and a type; the server keeps none of them.               *)
(***************************************************************************)
EXTENDS Naturals, Sequences, OrmSession

CONSTANTS Requests,    \* the requests made in a behaviour, each once
          Emails,
          Passwords,
          Nobody,      \* an account that no registration of the behaviour made
          Seeds,       \* the accounts there are already, a sequence of rows
          LastId,      \* bound: the last id the sequence gives out
          Operations,  \* the endpoints an instance calls
          Crashes      \* whether the API process may die

Kinds == {"register", "login", "refresh", "password", "email", "logout",
          "ticket", "socket", "delete"}

\* An account's row; origin is history, the registration that created it.
Row == [email : Emails, password : Passwords, admin : BOOLEAN,
        origin : Requests \cup {Nobody}]

NoUser == [email |-> Nobody, password |-> Nobody, admin |-> FALSE, origin |-> Nobody]

ASSUME NobodyAssumption     == /\ Nobody \notin Requests
                               /\ Nobody \notin Emails /\ Nobody \notin Passwords
ASSUME LastIdAssumption     == LastId \in Nat
ASSUME OperationsAssumption == Operations \subseteq Kinds
ASSUME CrashesAssumption    == Crashes \in BOOLEAN
ASSUME SeedsAssumption ==
    /\ Seeds \in Seq({u \in Row : u.origin = Nobody})
    /\ \A i, k \in 1..Len(Seeds) : Seeds[i].email = Seeds[k].email => i = k

Ids == 1..LastId

\* What a token says; origin is history, the account it was issued to.
Token == [type : {"access", "refresh", "ws"}, id : Ids, origin : Requests \cup {Nobody}]

VARIABLES
    users,     \* the users table, NoUser where there is no row
    nextId,    \* users_id_seq
    logs,      \* per user id: the requests with an activity_logs row of that user
    tokens,    \* the tokens handed out
    pc,        \* per request: where it is
    kind,      \* per request: its endpoint
    account,   \* per request: the user id it is about
    seen,      \* per request: the row its session loaded
    want,      \* per request: the address and the password in its payload
    kids,      \* per deletion: the rows of the user it has loaded
    asked      \* history, per user id: the address and password last asked for

table == <<users, nextId, logs>>
vars  == <<table, tokens, pc, kind, account, seen, want, kids, asked>>

Exists(i) == users[i] # NoUser
Free(e)   == \A i \in Ids : users[i].email # e

InFlight == {"loaded", "found", "stored", "reread", "logged"}
Over     == {"ok", "refused", "failed"}    \* 2xx, 4xx, 5xx or cut off

TypeOK ==
    /\ users   \in [Ids -> Row \cup {NoUser}]
    /\ nextId  \in Nat
    /\ logs    \in [Ids -> SUBSET Requests]
    /\ tokens  \subseteq Token
    /\ pc      \in [Requests -> {"new", "looked"} \cup InFlight \cup Over]
    /\ kind    \in [Requests -> Kinds \cup {"none"}]
    /\ account \in [Requests -> Ids \cup {0}]
    /\ seen    \in [Requests -> Row \cup {NoUser}]
    /\ want    \in [Requests -> [email : Emails \cup {Nobody},
                                 password : Passwords \cup {Nobody}]]
    /\ kids    \in [Requests -> SUBSET Requests]
    /\ asked   \in [Ids -> [email : Emails \cup {Nobody},
                            password : Passwords \cup {Nobody}]]

Nothing  == [email |-> Nobody, password |-> Nobody]
Asked(u) == [email |-> u.email, password |-> u.password]

\* Whoever has an account has logged in before.
Init ==
    /\ users   = [i \in Ids |-> IF i \in 1..Len(Seeds) THEN Seeds[i] ELSE NoUser]
    /\ nextId  = Len(Seeds) + 1
    /\ logs    = [i \in Ids |-> {}]
    /\ tokens  = {t \in Token : t.type = "access" /\ Exists(t.id) /\ t.origin = Nobody}
    /\ pc      = [r \in Requests |-> "new"]
    /\ kind    = [r \in Requests |-> "none"]
    /\ account = [r \in Requests |-> 0]
    /\ seen    = [r \in Requests |-> NoUser]
    /\ want    = [r \in Requests |-> Nothing]
    /\ kids    = [r \in Requests |-> {}]
    /\ asked   = [i \in Ids |-> Asked(users[i])]

-----------------------------------------------------------------------------
(* The steps of a request.                                                 *)

To(r, p)      == pc' = [pc EXCEPT ![r] = p]
Is(r, k, i)   == kind' = [kind EXCEPT ![r] = k] /\ account' = [account EXCEPT ![r] = i]
Sees(r, u)    == seen' = [seen EXCEPT ![r] = u]
Wants(r, w)   == want' = [want EXCEPT ![r] = w]

\* get_db closes the session of a request that ends.
Ends(r, p) == /\ To(r, p) /\ Sees(r, NoUser) /\ Wants(r, Nothing)
              /\ kids' = [kids EXCEPT ![r] = {}]

Issued(type, i, o) == [type |-> type, id |-> i, origin |-> o]
Pair(i, o)         == {Issued("access", i, o), Issued("refresh", i, o)}

\* Which type of token which endpoint takes.
Door == [password |-> "access", email |-> "access", logout |-> "access",
         ticket |-> "access", delete |-> "access", refresh |-> "refresh",
         socket |-> "ws"]

\* get_current_user, refresh_access_token, _authenticate_ws_token
Admitted(k, t) == t.type = Door[k] /\ Exists(t.id)

\* A wrong password, a token that is expired or of another type, a deleted user,
\* a role that does not suffice.
TurnAway(r) ==
    /\ pc[r] = "new"
    /\ Ends(r, "refused")
    /\ UNCHANGED <<table, tokens, kind, account, asked>>

RegisterLookup(r) ==
    /\ "register" \in Operations /\ pc[r] = "new"
    /\ \E e \in Emails, p \in Passwords :
          IF Free(e) THEN To(r, "looked") /\ Wants(r, [email |-> e, password |-> p])
                     ELSE To(r, "refused") /\ UNCHANGED want
    /\ Is(r, "register", 0)
    /\ UNCHANGED <<table, tokens, seen, kids, asked>>

\* Fault: the id is one more than the largest in the table.
FreshIdReused == IF \E i \in Ids : Exists(i)
                 THEN 1 + CHOOSE i \in Ids : Exists(i) /\ \A k \in Ids : Exists(k) => k <= i
                 ELSE 1
FreshId == nextId

\* Fault: no unique index, only the SELECT before.
AcceptsAny(e, i) == TRUE

\* The unique index on users.email.
Accepts(e, i) == \A k \in Ids \ {i} : users[k].email # e

\* The sequence gives out an id whether or not the INSERT then succeeds.
RegisterInsert(r) ==
    LET i == FreshId
        u == [email |-> want[r].email, password |-> want[r].password,
              admin |-> FALSE, origin |-> r] IN
    /\ pc[r] = "looked" /\ i \in Ids
    /\ nextId' = nextId + 1
    /\ IF Accepts(u.email, i)
       THEN /\ users' = [users EXCEPT ![i] = u]
            /\ asked' = [asked EXCEPT ![i] = Asked(u)]
            /\ Is(r, "register", i) /\ Sees(r, u) /\ To(r, "stored")
            /\ UNCHANGED <<want, kids>>
       ELSE Ends(r, "failed") /\ UNCHANGED <<users, asked, kind, account>>
    /\ UNCHANGED <<logs, tokens>>

\* authenticate_user: the caller knows the address and the password.
Login(r) ==
    /\ "login" \in Operations /\ pc[r] = "new"
    /\ \E i \in Ids : /\ Exists(i)
                      /\ Is(r, "login", i) /\ Sees(r, users[i])
    /\ To(r, "loaded")
    /\ UNCHANGED <<table, tokens, want, kids, asked>>

\* What a refresh, a ticket and a socket hand out.
Granted(k, i, o) == CASE k = "refresh" -> Pair(i, o)
                      [] k = "ticket"  -> {Issued("ws", i, o)}
                      [] k = "socket"  -> {}

\* Endpoints that one query answers.
AtOnce(r) ==
    /\ pc[r] = "new"
    /\ \E k \in {"refresh", "ticket", "socket"} \cap Operations, t \in tokens :
          /\ Admitted(k, t)
          /\ Is(r, k, t.id)
          /\ tokens' = tokens \cup Granted(k, t.id, users[t.id].origin)
    /\ To(r, "ok")
    /\ UNCHANGED <<table, seen, want, kids, asked>>

\* The body of the request.
Payload(k) == IF k = "password" THEN [email : {Nobody}, password : Passwords]
              ELSE IF k = "email" THEN [email : Emails, password : {Nobody}]
              ELSE {Nothing}

\* get_current_user, and the checks on the row it loaded: the old password was
\* the right one, the role is admin.
Authenticate(r) ==
    /\ pc[r] = "new"
    /\ \E k \in {"password", "email", "logout", "delete"} \cap Operations, t \in tokens :
          /\ Admitted(k, t)
          /\ k = "delete" => users[t.id].admin
          /\ Is(r, k, t.id) /\ Sees(r, users[t.id])
          /\ \E w \in Payload(k) : Wants(r, w)
    /\ To(r, "loaded")
    /\ UNCHANGED <<table, tokens, kids, asked>>

\* Fault: the row is written as it was loaded, with the change.
ChangedWhole(r, u) == IF kind[r] = "email" THEN [seen[r] EXCEPT !.email = want[r].email]
                      ELSE [seen[r] EXCEPT !.password = want[r].password]

\* What the UPDATE makes of row u: a new hash always differs from the one that
\* was loaded, the address need not.
Changed(r, u) ==
    IF kind[r] = "email"
    THEN [u EXCEPT !.email = Column(u.email, seen[r].email, want[r].email)]
    ELSE [u EXCEPT !.password = want[r].password]

\* change_password, update_my_profile.  No UPDATE is emitted for the address that
\* was loaded; one that is emitted fails without its row, or on the unique index.
ChangeCommit(r) ==
    LET i == account[r]
        silent == kind[r] = "email" /\ want[r].email = seen[r].email IN
    /\ pc[r] = "loaded" /\ kind[r] \in {"password", "email"}
    /\ IF silent
       THEN To(r, "stored") /\ UNCHANGED <<users, seen, want, kids, asked>>
       ELSE IF Exists(i) /\ Accepts(Changed(r, users[i]).email, i)
       THEN /\ users' = [users EXCEPT ![i] = Changed(r, @)]
            /\ asked' = IF kind[r] = "email"
                        THEN [asked EXCEPT ![i].email = want[r].email]
                        ELSE [asked EXCEPT ![i].password = want[r].password]
            /\ To(r, "stored") /\ UNCHANGED <<seen, want, kids>>
       ELSE Ends(r, "failed") /\ UNCHANGED <<users, asked>>
    /\ UNCHANGED <<nextId, logs, tokens, kind, account>>

\* The commit expired the row: db.refresh, or user.id for the log, reads it again.
Reread(r) ==
    /\ pc[r] = "stored"
    /\ IF ~Exists(account[r]) THEN Ends(r, "failed")
       ELSE IF kind[r] = "email" THEN Ends(r, "ok")
       ELSE To(r, "reread") /\ Sees(r, users[account[r]]) /\ UNCHANGED <<want, kids>>
    /\ UNCHANGED <<table, tokens, kind, account, asked>>

\* The log is written after the change, or at once where there is none.
LogsNext(r) == \/ pc[r] = "reread"
               \/ pc[r] = "loaded" /\ kind[r] \in {"login", "logout"}

\* _log_activity: a transaction of its own, with a foreign key to the user.
WriteLog(r) ==
    /\ LogsNext(r)
    /\ IF Exists(account[r])
       THEN /\ logs' = [logs EXCEPT ![account[r]] = @ \cup {r}]
            /\ To(r, "logged") /\ UNCHANGED <<seen, want, kids>>
       ELSE Ends(r, "failed") /\ UNCHANGED logs
    /\ UNCHANGED <<users, nextId, tokens, kind, account, asked>>

\* The line of the application log names user.email, expired by the commit.  Only
\* now is a login answered with the tokens.
Answer(r) ==
    /\ pc[r] = "logged"
    /\ Ends(r, IF Exists(account[r]) THEN "ok" ELSE "failed")
    /\ tokens' = IF kind[r] = "login" /\ Exists(account[r])
                 THEN tokens \cup Pair(account[r], seen[r].origin) ELSE tokens
    /\ UNCHANGED <<table, kind, account, asked>>

\* db.delete loads the rows of the user that are to be deleted with it.
FindTarget(r) ==
    /\ pc[r] = "loaded" /\ kind[r] = "delete"
    /\ \E i \in Ids :
          /\ Is(r, "delete", i)
          /\ IF Exists(i) THEN /\ To(r, "found") /\ Sees(r, users[i])
                               /\ kids' = [kids EXCEPT ![r] = logs[i]]
                               /\ UNCHANGED want
                          ELSE Ends(r, "refused")
    /\ UNCHANGED <<table, tokens, asked>>

\* A row of the user that came after the load fails the DELETE of the user, and
\* nothing is deleted; rows that have gone already are not missed.  The answer is
\* a 500 also after the commit when the admin, whose id the line of the log reads
\* again, has gone meanwhile; which admin it is the model does not keep.
DeleteCommit(r) ==
    LET i == account[r] IN
    /\ pc[r] = "found"
    /\ IF logs[i] \subseteq kids[r]
       THEN /\ users' = [users EXCEPT ![i] = NoUser]
            /\ logs'  = [logs EXCEPT ![i] = {}]
            /\ \E end \in {"ok", "failed"} : Ends(r, end)
       ELSE Ends(r, "failed") /\ UNCHANGED <<users, logs>>
    /\ UNCHANGED <<nextId, tokens, kind, account, asked>>

\* The API process dies, and every request in flight with it.
ApiCrash ==
    /\ Crashes
    /\ pc'   = [r \in Requests |-> IF pc[r] \in Over \cup {"new"} THEN pc[r] ELSE "failed"]
    /\ seen' = [r \in Requests |-> NoUser]
    /\ want' = [r \in Requests |-> Nothing]
    /\ kids' = [r \in Requests |-> {}]
    /\ UNCHANGED <<table, tokens, kind, account, asked>>

Begin(r) == TurnAway(r) \/ RegisterLookup(r) \/ Login(r) \/ AtOnce(r) \/ Authenticate(r)
Work(r)  == \/ RegisterInsert(r) \/ ChangeCommit(r) \/ Reread(r) \/ WriteLog(r)
            \/ Answer(r) \/ FindTarget(r) \/ DeleteCommit(r)

Next == \/ \E r \in Requests : Begin(r) \/ Work(r)
        \/ ApiCrash

Spec == Init /\ [][Next]_vars

-----------------------------------------------------------------------------
(* Properties. *)

\* Two registrations that both found the address free, or a registration and a
\* change of address, do not leave two accounts with it.
UniqueEmails ==
    \A i, k \in Ids : Exists(i) /\ users[i].email = users[k].email => i = k

\* Tokens outlive the account, and a request may outlive it too: whenever one of
\* them names an account that exists, it is the one it was issued or begun for,
\* and never a later one that took over the id.
IdentityKept ==
    /\ \A t \in tokens : Exists(t.id) => users[t.id].origin = t.origin
    /\ \A r \in Requests :
          pc[r] \in InFlight /\ Exists(account[r])
              => users[account[r]].origin = seen[r].origin

\* A change of password and a change of address that overlap both survive: each
\* column holds what was last asked for it.
ColumnsIndependent == \A i \in Ids : Exists(i) => Asked(users[i]) = asked[i]

\* No deletion, however it overlaps with the user's own requests, leaves activity
\* of a user who is gone.
NoOrphanLogs == \A i \in Ids : ~Exists(i) => logs[i] = {}

\* What was answered with success is in the log as long as the account exists.
Logged == {"register", "login", "password", "logout"}
AnsweredIsLogged ==
    \A r \in Requests : pc[r] = "ok" /\ kind[r] \in Logged /\ Exists(account[r])
                            => r \in logs[account[r]]

-----------------------------------------------------------------------------
(* Why they hold. *)

\* Nothing refers to an id that has not been given out.
FreshIds ==
    /\ nextId \in Nat \ {0}
    /\ \A i \in Ids : Exists(i) => i < nextId
    /\ \A t \in tokens : t.id < nextId
    /\ \A r \in Requests : pc[r] \in InFlight \cup {"ok"} => account[r] < nextId

\* What a request knows where it is.
CourseOf(r) ==
    /\ pc[r] = "looked" => want[r].email \in Emails /\ want[r].password \in Passwords
    /\ pc[r] \in InFlight => seen[r] \in Row
    /\ pc[r] \in InFlight \cup {"ok"} => account[r] \in Ids
    /\ pc[r] = "loaded" /\ kind[r] = "email"    => want[r].email \in Emails
    /\ pc[r] = "loaded" /\ kind[r] = "password" => want[r].password \in Passwords
    /\ pc[r] = "found"  => kind[r] = "delete"
    /\ pc[r] = "stored" => kind[r] \in {"register", "password", "email"}
    /\ pc[r] \in {"reread", "logged"} => kind[r] \in Logged
Course == \A r \in Requests : CourseOf(r)

LogKept == \A r \in Requests : pc[r] = "logged" /\ Exists(account[r])
                                   => r \in logs[account[r]]

\* The invariant that is kept by every step and has the properties as parts.
AccountsInv == /\ TypeOK /\ FreshIds /\ Course /\ LogKept
               /\ UniqueEmails /\ IdentityKept /\ ColumnsIndependent
               /\ NoOrphanLogs /\ AnsweredIsLogged

-----------------------------------------------------------------------------
(* Requests implement the operations of AccountBook, each at one moment.   *)

Spent == {i \in Ids : i < nextId}

Book == INSTANCE AccountBook WITH
    Absent <- NoUser, book <- users, spent <- Spent, activity <- logs, credentials <- tokens

\* Though a request is done in several transactions and nothing is locked, what
\* the requests make of accounts, activity and credentials is what operations
\* done one after the other make of them: no change takes another one back, no
\* account is given a used id, nobody acts or is let in once the account is gone.
AsIfAlone == Book!BSpec
=============================================================================
