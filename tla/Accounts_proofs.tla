--------------------------- MODULE Accounts_proofs ---------------------------
(***************************************************************************)
(* Proofs about Accounts, for every set of requests, addresses and         *)
(* passwords, every founding table and every choice of endpoints.          *)
(***************************************************************************)
EXTENDS Accounts, TLAPS

USE NobodyAssumption, LastIdAssumption

LEMMA RowFields ==
    /\ \A u \in Row : /\ u.email \in Emails /\ u.password \in Passwords
                      /\ u.origin \in Requests \cup {Nobody}
                      /\ u # NoUser
    /\ NoUser.email = Nobody /\ NoUser.origin = Nobody /\ NoUser.password = Nobody
  BY DEF Row, NoUser

LEMMA UsersTable ==
    ASSUME TypeOK, NEW i \in Ids
    PROVE  /\ users[i] \in Row \cup {NoUser}
           /\ Exists(i) <=> users[i] \in Row
           /\ Exists(i) => users[i].email \in Emails
           /\ users[i].email # Nobody => Exists(i)
           /\ users[i].origin \in Requests \cup {Nobody}
           /\ logs[i] \subseteq Requests
<1>1. users[i] \in Row \cup {NoUser} /\ logs[i] \subseteq Requests
  BY DEF TypeOK
<1>2. QED
  BY <1>1, RowFields DEF Exists

LEMMA Tokens ==
    ASSUME NEW t \in Token
    PROVE  t.id \in Ids /\ t.origin \in Requests \cup {Nobody}
  BY DEF Token

LEMMA PairTyped ==
    ASSUME NEW i \in Ids, NEW o \in Requests \cup {Nobody}
    PROVE  /\ Pair(i, o) \subseteq Token
           /\ \A k \in {"refresh", "ticket", "socket"} : Granted(k, i, o) \subseteq Token
           /\ \A t \in Pair(i, o) : t.id = i /\ t.origin = o
           /\ \A k \in {"refresh", "ticket", "socket"} :
                 \A t \in Granted(k, i, o) : t.id = i /\ t.origin = o
  BY DEF Pair, Granted, Issued, Token

\* A row with a changed address or password is a row, and of the same account.
LEMMA ChangedIsRow ==
    ASSUME NEW u \in Row, NEW r \in Requests, seen[r] \in Row,
           kind[r] = "email" => want[r].email \in Emails,
           kind[r] # "email" => want[r].password \in Passwords
    PROVE  Changed(r, u) \in Row /\ Changed(r, u).origin = u.origin
  BY DEF Changed, Column, Row

-----------------------------------------------------------------------------
(* The initial state. *)

LEMMA InitInv == Init => AccountsInv
<1> SUFFICES ASSUME Init PROVE AccountsInv
  OBVIOUS
<1> USE SeedsAssumption
<1>0. /\ Len(Seeds) \in Nat
      /\ \A i \in 1..Len(Seeds) : Seeds[i] \in Row /\ Seeds[i].origin = Nobody
  OBVIOUS
<1>1. users \in [Ids -> Row \cup {NoUser}]
  BY <1>0 DEF Init
<1>2. \A i \in Ids : /\ users[i] \in Row \cup {NoUser}
                     /\ users[i].origin = Nobody
                     /\ Exists(i) => i \in 1..Len(Seeds) /\ users[i] = Seeds[i]
                     /\ Asked(users[i]) \in [email : Emails \cup {Nobody},
                                             password : Passwords \cup {Nobody}]
  BY <1>0, <1>1, RowFields DEF Init, Exists, Asked
<1>3. Nothing \in [email : Emails \cup {Nobody}, password : Passwords \cup {Nobody}]
  BY DEF Nothing
<1>4. TypeOK
  BY <1>0, <1>1, <1>2, <1>3 DEF Init, TypeOK
<1>5. FreshIds
  BY <1>0, <1>2, Tokens DEF Init, FreshIds, InFlight, Ids
<1>6. Course /\ LogKept /\ AnsweredIsLogged
  BY DEF Init, Course, CourseOf, LogKept, AnsweredIsLogged, InFlight
<1>7. UniqueEmails
  <2> SUFFICES ASSUME NEW i \in Ids, NEW k \in Ids, Exists(i),
                      users[i].email = users[k].email
               PROVE  i = k
    BY DEF UniqueEmails
  <2>1. Exists(k)
    BY <1>4, UsersTable, RowFields
  <2>2. Seeds[i].email = Seeds[k].email
    BY <1>2, <2>1
  <2>3. QED
    BY <1>2, <2>1, <2>2
<1>8. IdentityKept
  BY <1>2, Tokens DEF Init, IdentityKept, InFlight
<1>9. ColumnsIndependent /\ NoOrphanLogs
  BY DEF Init, ColumnsIndependent, NoOrphanLogs
<1>10. QED
  BY <1>4, <1>5, <1>6, <1>7, <1>8, <1>9 DEF AccountsInv

-----------------------------------------------------------------------------
(* Steps that leave the tables alone.                                       *)

\* What a request keeps when another moves.
Same(q) == /\ pc'[q] = pc[q] /\ kind'[q] = kind[q] /\ account'[q] = account[q]
           /\ seen'[q] = seen[q] /\ want'[q] = want[q]

\* One request moves: the invariant is a matter of where it gets to, and of the
\* tokens it is given.
LEMMA MoveKeeps ==
    ASSUME AccountsInv, TypeOK', NEW r \in Requests,
           \A q \in Requests \ {r} : Same(q),
           UNCHANGED <<table, asked>>,
           \A t \in tokens' : \/ t \in tokens
                              \/ /\ t.id < nextId
                                 /\ Exists(t.id) => users[t.id].origin = t.origin,
           CourseOf(r)',
           pc'[r] \in InFlight \cup {"ok"} => account'[r] < nextId,
           pc'[r] \in InFlight /\ Exists(account'[r])
               => users[account'[r]].origin = seen'[r].origin,
           pc'[r] = "logged" /\ Exists(account'[r]) => r \in logs[account'[r]],
           pc'[r] = "ok" /\ kind'[r] \in Logged /\ Exists(account'[r])
               => r \in logs[account'[r]]
    PROVE  AccountsInv'
<1> USE DEF AccountsInv, table
<1>1. FreshIds'
  BY DEF FreshIds, Exists, Same
<1>2. Course'
  BY DEF Course, CourseOf, Same
<1>3. LogKept' /\ AnsweredIsLogged'
  BY DEF LogKept, AnsweredIsLogged, Same, Exists
<1>4. UniqueEmails' /\ ColumnsIndependent' /\ NoOrphanLogs'
  BY DEF UniqueEmails, ColumnsIndependent, NoOrphanLogs, Exists
<1>5. IdentityKept'
  BY DEF IdentityKept, Same, Exists
<1>6. QED
  BY <1>1, <1>2, <1>3, <1>4, <1>5

\* A request that ends without success, or with one that need not be in the log.
LEMMA EndKeeps ==
    ASSUME AccountsInv, NEW r \in Requests, NEW p \in Over, Ends(r, p),
           UNCHANGED <<table, tokens, asked>>,
           \/ UNCHANGED <<kind, account>>
           \/ Is(r, kind'[r], account'[r]) /\ kind'[r] \in Kinds
              /\ account'[r] \in Ids \cup {0},
           p = "ok" => /\ UNCHANGED <<kind, account>> /\ pc[r] \in InFlight
                       /\ kind[r] \notin Logged \/ pc[r] = "logged"
    PROVE  AccountsInv'
<1> USE DEF AccountsInv
<1>0. /\ p \notin InFlight /\ p \notin {"new", "looked"}
      /\ pc' = [pc EXCEPT ![r] = p] /\ pc'[r] = p
      /\ \A q \in Requests \ {r} : Same(q)
  BY DEF Ends, To, Sees, Wants, Is, Over, InFlight, Same, TypeOK
<1>1. TypeOK'
  <2>1. pc' \in [Requests -> {"new", "looked"} \cup InFlight \cup Over]
    BY <1>0 DEF TypeOK
  <2>2. /\ kind' \in [Requests -> Kinds \cup {"none"}]
        /\ account' \in [Requests -> Ids \cup {0}]
    <3>1. CASE UNCHANGED <<kind, account>>
      BY <3>1 DEF TypeOK
    <3>2. CASE Is(r, kind'[r], account'[r]) /\ kind'[r] \in Kinds
               /\ account'[r] \in Ids \cup {0}
      BY <3>2 DEF TypeOK, Is
    <3>3. QED
      BY <3>1, <3>2
  <2>3. seen' \in [Requests -> Row \cup {NoUser}] /\ kids' \in [Requests -> SUBSET Requests]
    BY DEF TypeOK, Ends, Sees
  <2>4. want' \in [Requests -> [email : Emails \cup {Nobody}, password : Passwords \cup {Nobody}]]
    BY DEF TypeOK, Ends, Wants, Nothing
  <2>5. QED
    BY <2>1, <2>2, <2>3, <2>4 DEF TypeOK, table
<1>2. CourseOf(r)'
  BY <1>0 DEF Course, CourseOf, InFlight, Over
<1>3. p = "ok" => /\ account'[r] < nextId
                  /\ kind'[r] \in Logged /\ Exists(account'[r]) => r \in logs[account'[r]]
  BY DEF LogKept, FreshIds
<1>4. /\ pc'[r] \notin InFlight /\ pc'[r] # "logged"
      /\ pc'[r] \in InFlight \cup {"ok"} => account'[r] < nextId
      /\ pc'[r] = "ok" /\ kind'[r] \in Logged /\ Exists(account'[r])
            => r \in logs[account'[r]]
      /\ UNCHANGED <<table, asked>> /\ tokens' = tokens
  BY <1>0, <1>3 DEF InFlight
<1>5. QED
  BY <1>0, <1>1, <1>2, <1>4, MoveKeeps

\* The places a request can be in, one by one.
LEMMA Places ==
    /\ InFlight = {"loaded", "found", "stored", "reread", "logged"}
    /\ Over = {"ok", "refused", "failed"}
    /\ Logged = {"register", "login", "password", "logout"}
    /\ Kinds = {"register", "login", "refresh", "password", "email", "logout",
                "ticket", "socket", "delete"}
  BY DEF InFlight, Over, Logged, Kinds

\* A token that lets a request in names an account that exists.
LEMMA AdmittedFor ==
    ASSUME AccountsInv, NEW k, NEW t \in tokens, Admitted(k, t)
    PROVE  /\ t.id \in Ids /\ Exists(t.id) /\ t.id < nextId
           /\ users[t.id] \in Row /\ users[t.id].origin \in Requests \cup {Nobody}
<1>1. t \in Token /\ TypeOK /\ FreshIds
  BY DEF AccountsInv, TypeOK
<1>2. t.id \in Ids
  BY <1>1, Tokens
<1>3. QED
  BY <1>1, <1>2, UsersTable DEF Admitted, FreshIds

LEMMA TurnAwayKeeps ==
    ASSUME AccountsInv, NEW r \in Requests, TurnAway(r) PROVE AccountsInv'
  BY EndKeeps, Places DEF TurnAway

LEMMA RegisterLookupKeeps ==
    ASSUME AccountsInv, NEW r \in Requests, RegisterLookup(r) PROVE AccountsInv'
<1> USE Places DEF RegisterLookup
<1>1. PICK e \in Emails, p \in Passwords :
          IF Free(e) THEN To(r, "looked") /\ Wants(r, [email |-> e, password |-> p])
                     ELSE To(r, "refused") /\ UNCHANGED want
  OBVIOUS
<1>2. /\ \A q \in Requests \ {r} : Same(q)
      /\ UNCHANGED <<table, asked>> /\ tokens' = tokens
      /\ pc'[r] \in {"looked", "refused"}
      /\ pc'[r] = "looked" => want'[r] = [email |-> e, password |-> p]
  BY <1>1 DEF To, Wants, Is, Same, AccountsInv, TypeOK
<1>3. TypeOK'
  <2>1. pc' \in [Requests -> {"new", "looked"} \cup InFlight \cup Over]
    <3>1. pc' = [pc EXCEPT ![r] = "looked"] \/ pc' = [pc EXCEPT ![r] = "refused"]
      BY <1>1 DEF To
    <3>2. pc \in [Requests -> {"new", "looked"} \cup InFlight \cup Over]
      BY DEF AccountsInv, TypeOK
    <3>3. "refused" \in Over
      BY DEF Over
    <3>4. QED
      <4> HIDE DEF RegisterLookup, Places
      <4> QED
        BY <3>1, <3>2, <3>3
  <2>2. want' \in [Requests -> [email : Emails \cup {Nobody}, password : Passwords \cup {Nobody}]]
    BY <1>1 DEF Wants, AccountsInv, TypeOK
  <2>3. /\ kind' \in [Requests -> Kinds \cup {"none"}]
        /\ account' \in [Requests -> Ids \cup {0}]
    BY DEF Is, AccountsInv, TypeOK
  <2>4. QED
    BY <2>1, <2>2, <2>3 DEF AccountsInv, TypeOK, table
<1>4. CourseOf(r)'
  BY <1>2 DEF CourseOf
<1>5. QED
  BY <1>2, <1>3, <1>4, MoveKeeps

LEMMA LoginKeeps ==
    ASSUME AccountsInv, NEW r \in Requests, Login(r) PROVE AccountsInv'
<1> USE Places DEF Login
<1>1. PICK i \in Ids : Exists(i) /\ Is(r, "login", i) /\ Sees(r, users[i])
  OBVIOUS
<1>2. users[i] \in Row /\ i < nextId
  BY <1>1, UsersTable DEF AccountsInv, FreshIds
<1>3. /\ \A q \in Requests \ {r} : Same(q)
      /\ UNCHANGED <<table, asked>> /\ tokens' = tokens
      /\ pc'[r] = "loaded" /\ kind'[r] = "login"
      /\ account'[r] = i /\ seen'[r] = users[i]
  BY <1>1 DEF To, Sees, Is, Same, AccountsInv, TypeOK
<1>4. TypeOK'
  BY <1>1, <1>2 DEF To, Sees, Is, AccountsInv, TypeOK, table
<1>5. CourseOf(r)'
  BY <1>2, <1>3 DEF CourseOf
<1>6. QED
  BY <1>2, <1>3, <1>4, <1>5, MoveKeeps

LEMMA AtOnceKeeps ==
    ASSUME AccountsInv, NEW r \in Requests, AtOnce(r) PROVE AccountsInv'
<1> USE Places DEF AtOnce
<1>1. PICK k \in {"refresh", "ticket", "socket"} \cap Operations, t \in tokens :
          /\ Admitted(k, t) /\ Is(r, k, t.id)
          /\ tokens' = tokens \cup Granted(k, t.id, users[t.id].origin)
  OBVIOUS
<1>2. /\ t.id \in Ids /\ t.id < nextId
      /\ users[t.id].origin \in Requests \cup {Nobody}
  BY <1>1, AdmittedFor
<1>3. /\ \A q \in Requests \ {r} : Same(q)
      /\ UNCHANGED <<table, asked>>
      /\ pc'[r] = "ok" /\ kind'[r] = k /\ account'[r] = t.id
  BY <1>1 DEF To, Is, Same, AccountsInv, TypeOK
<1>4. /\ Granted(k, t.id, users[t.id].origin) \subseteq Token
      /\ \A g \in Granted(k, t.id, users[t.id].origin) :
            g.id = t.id /\ g.origin = users[t.id].origin
  BY <1>1, <1>2, PairTyped
<1>5. TypeOK'
  <2>1. tokens' \subseteq Token
    BY <1>1, <1>4 DEF AccountsInv, TypeOK
  <2>2. /\ kind' \in [Requests -> Kinds \cup {"none"}]
        /\ account' \in [Requests -> Ids \cup {0}]
        /\ pc' \in [Requests -> {"new", "looked"} \cup InFlight \cup Over]
    BY <1>1, <1>2 DEF To, Is, AccountsInv, TypeOK
  <2>3. QED
    BY <2>1, <2>2 DEF AccountsInv, TypeOK, table
<1>6. CourseOf(r)'
  BY <1>2, <1>3 DEF CourseOf
<1>7. \A g \in tokens' : \/ g \in tokens
                         \/ /\ g.id < nextId
                            /\ Exists(g.id) => users[g.id].origin = g.origin
  BY <1>1, <1>2, <1>4
<1>8. /\ pc'[r] \notin InFlight /\ pc'[r] # "logged" /\ kind'[r] \notin Logged
      /\ account'[r] < nextId
  BY <1>1, <1>2, <1>3
<1>9. QED
  BY <1>3, <1>5, <1>6, <1>7, <1>8, MoveKeeps

LEMMA AuthenticateKeeps ==
    ASSUME AccountsInv, NEW r \in Requests, Authenticate(r) PROVE AccountsInv'
<1> USE Places DEF Authenticate
<1>1. PICK k \in {"password", "email", "logout", "delete"} \cap Operations, t \in tokens :
          /\ Admitted(k, t) /\ Is(r, k, t.id) /\ Sees(r, users[t.id])
          /\ \E w \in Payload(k) : Wants(r, w)
  OBVIOUS
<1>2. PICK w \in Payload(k) : Wants(r, w)
  BY <1>1
<1>3. /\ t.id \in Ids /\ t.id < nextId /\ users[t.id] \in Row
  BY <1>1, AdmittedFor
<1>4. /\ w \in [email : Emails \cup {Nobody}, password : Passwords \cup {Nobody}]
      /\ k = "email" => w.email \in Emails
      /\ k = "password" => w.password \in Passwords
  BY <1>2 DEF Payload, Nothing
<1>5. /\ \A q \in Requests \ {r} : Same(q)
      /\ UNCHANGED <<table, asked>> /\ tokens' = tokens
      /\ pc'[r] = "loaded" /\ kind'[r] = k /\ want'[r] = w
      /\ account'[r] = t.id /\ seen'[r] = users[t.id]
  BY <1>1, <1>2 DEF To, Sees, Is, Wants, Same, AccountsInv, TypeOK
<1>6. TypeOK'
  <2>1. /\ pc' \in [Requests -> {"new", "looked"} \cup InFlight \cup Over]
        /\ kind' \in [Requests -> Kinds \cup {"none"}]
        /\ account' \in [Requests -> Ids \cup {0}]
        /\ seen' \in [Requests -> Row \cup {NoUser}]
    BY <1>1, <1>3 DEF To, Is, Sees, AccountsInv, TypeOK
  <2>2. want' \in [Requests -> [email : Emails \cup {Nobody}, password : Passwords \cup {Nobody}]]
    BY <1>2, <1>4 DEF Wants, AccountsInv, TypeOK
  <2>3. QED
    BY <2>1, <2>2 DEF AccountsInv, TypeOK, table
<1>7. CourseOf(r)'
  BY <1>3, <1>4, <1>5 DEF CourseOf
<1>8. QED
  BY <1>3, <1>5, <1>6, <1>7, MoveKeeps

LEMMA RereadKeeps ==
    ASSUME AccountsInv, NEW r \in Requests, Reread(r) PROVE AccountsInv'
<1> USE Places DEF Reread
<1>1. CASE ~Exists(account[r]) \/ kind[r] = "email"
  BY <1>1, EndKeeps
<1>2. CASE Exists(account[r]) /\ kind[r] # "email"
  <2>1. /\ account[r] \in Ids /\ account[r] < nextId /\ kind[r] \in Logged
    BY <1>2 DEF AccountsInv, Course, CourseOf, FreshIds
  <2>2. users[account[r]] \in Row
    BY <1>2, <2>1, UsersTable DEF AccountsInv
  <2>3. /\ \A q \in Requests \ {r} : Same(q)
        /\ UNCHANGED <<table, asked>> /\ tokens' = tokens
        /\ pc'[r] = "reread" /\ kind'[r] = kind[r] /\ account'[r] = account[r]
        /\ seen'[r] = users[account[r]]
    BY <1>2 DEF To, Sees, Same, AccountsInv, TypeOK
  <2>4. TypeOK'
    BY <1>2, <2>2 DEF To, Sees, AccountsInv, TypeOK, table
  <2>5. CourseOf(r)'
    BY <2>1, <2>2, <2>3 DEF CourseOf
  <2>6. QED
    BY <2>1, <2>3, <2>4, <2>5, MoveKeeps
<1>3. QED
  BY <1>1, <1>2

LEMMA AnswerKeeps ==
    ASSUME AccountsInv, NEW r \in Requests, Answer(r) PROVE AccountsInv'
<1> USE Places DEF Answer
<1>1. CASE ~(kind[r] = "login" /\ Exists(account[r]))
  BY <1>1, EndKeeps
<1>2. CASE kind[r] = "login" /\ Exists(account[r])
  <2>1. /\ account[r] \in Ids /\ account[r] < nextId /\ seen[r] \in Row
        /\ users[account[r]].origin = seen[r].origin /\ r \in logs[account[r]]
    BY <1>2 DEF AccountsInv, Course, CourseOf, FreshIds, IdentityKept, LogKept
  <2>2. /\ Pair(account[r], seen[r].origin) \subseteq Token
        /\ \A g \in Pair(account[r], seen[r].origin) :
              g.id = account[r] /\ g.origin = seen[r].origin
    BY <2>1, RowFields, PairTyped
  <2>3. /\ \A q \in Requests \ {r} : Same(q)
        /\ UNCHANGED <<table, asked>>
        /\ pc'[r] = "ok" /\ kind'[r] = kind[r] /\ account'[r] = account[r]
    BY <1>2 DEF Ends, To, Sees, Wants, Same, AccountsInv, TypeOK
  <2>4. TypeOK'
    <3>1. tokens' \subseteq Token
      BY <1>2, <2>2 DEF AccountsInv, TypeOK
    <3>2. /\ pc' \in [Requests -> {"new", "looked"} \cup InFlight \cup Over]
          /\ seen' \in [Requests -> Row \cup {NoUser}]
          /\ kids' \in [Requests -> SUBSET Requests]
      BY <1>2 DEF Ends, To, Sees, AccountsInv, TypeOK
    <3>3. want' \in [Requests -> [email : Emails \cup {Nobody}, password : Passwords \cup {Nobody}]]
      BY DEF Ends, Wants, Nothing, AccountsInv, TypeOK
    <3>4. QED
      BY <3>1, <3>2, <3>3 DEF AccountsInv, TypeOK, table
  <2>5. CourseOf(r)'
    BY <2>1, <2>3 DEF CourseOf
  <2>6. \A g \in tokens' : \/ g \in tokens
                           \/ /\ g.id < nextId
                              /\ Exists(g.id) => users[g.id].origin = g.origin
    BY <1>2, <2>1, <2>2
  <2>7. UNCHANGED logs
    BY DEF table
  <2>8. QED
    BY <2>1, <2>3, <2>4, <2>5, <2>6, MoveKeeps
<1>3. QED
  BY <1>1, <1>2

LEMMA FindTargetKeeps ==
    ASSUME AccountsInv, NEW r \in Requests, FindTarget(r) PROVE AccountsInv'
<1> USE Places DEF FindTarget
<1>1. PICK i \in Ids :
          /\ Is(r, "delete", i)
          /\ IF Exists(i) THEN /\ To(r, "found") /\ Sees(r, users[i])
                               /\ kids' = [kids EXCEPT ![r] = logs[i]]
                               /\ UNCHANGED want
                          ELSE Ends(r, "refused")
  OBVIOUS
<1>2. CASE ~Exists(i)
  <2>1. kind'[r] = "delete" /\ account'[r] = i
    BY <1>1 DEF Is, AccountsInv, TypeOK
  <2>2. QED
    BY <1>1, <1>2, <2>1, EndKeeps
<1>3. CASE Exists(i)
  <2>1. users[i] \in Row /\ i < nextId /\ logs[i] \subseteq Requests
    BY <1>3, UsersTable DEF AccountsInv, FreshIds
  <2>2. /\ \A q \in Requests \ {r} : Same(q)
        /\ UNCHANGED <<table, asked>> /\ tokens' = tokens
        /\ pc'[r] = "found" /\ kind'[r] = "delete"
        /\ account'[r] = i /\ seen'[r] = users[i]
    BY <1>1, <1>3 DEF To, Sees, Is, Same, AccountsInv, TypeOK
  <2>3. TypeOK'
    <3>a. "delete" \in Kinds /\ "found" \in InFlight /\ i \in Ids
      BY DEF Kinds, InFlight
    <3>b. /\ pc' = [pc EXCEPT ![r] = "found"]
          /\ kind' = [kind EXCEPT ![r] = "delete"] /\ account' = [account EXCEPT ![r] = i]
      BY <1>1, <1>3 DEF To, Is
    <3>c. /\ pc \in [Requests -> {"new", "looked"} \cup InFlight \cup Over]
          /\ kind \in [Requests -> Kinds \cup {"none"}]
          /\ account \in [Requests -> Ids \cup {0}]
      BY DEF AccountsInv, TypeOK
    <3>1. /\ pc' \in [Requests -> {"new", "looked"} \cup InFlight \cup Over]
          /\ kind' \in [Requests -> Kinds \cup {"none"}]
          /\ account' \in [Requests -> Ids \cup {0}]
      <4> HIDE DEF FindTarget, Places
      <4> QED
        BY <3>a, <3>b, <3>c
    <3>2. /\ seen' \in [Requests -> Row \cup {NoUser}]
          /\ kids' \in [Requests -> SUBSET Requests]
      BY <1>1, <1>3, <2>1 DEF Sees, AccountsInv, TypeOK
    <3>3. QED
      BY <1>1, <1>3, <3>1, <3>2 DEF AccountsInv, TypeOK, table
  <2>4. CourseOf(r)'
    BY <2>1, <2>2 DEF CourseOf
  <2>5. QED
    BY <2>1, <2>2, <2>3, <2>4, MoveKeeps
<1>4. QED
  BY <1>2, <1>3

-----------------------------------------------------------------------------
(* Steps that write the tables.                                             *)

LEMMA RegisterInsertKeeps ==
    ASSUME AccountsInv, NEW r \in Requests, RegisterInsert(r) PROVE AccountsInv'
<1> USE Places DEF AccountsInv
<1> DEFINE i == nextId
           u == [email |-> want[r].email, password |-> want[r].password,
                 admin |-> FALSE, origin |-> r]
<1>1. /\ pc[r] = "looked" /\ i \in Ids /\ i \in Nat
      /\ want[r].email \in Emails /\ want[r].password \in Passwords
      /\ nextId' = i + 1 /\ UNCHANGED <<logs, tokens>>
  BY DEF RegisterInsert, FreshId, Course, CourseOf, FreshIds
<1>2. u \in Row /\ u.email = want[r].email /\ u.origin = r
  BY <1>1 DEF Row
<1>3. ~Exists(i) /\ logs[i] = {}
  BY <1>1 DEF FreshIds, NoOrphanLogs
<1>4. CASE Accepts(u.email, i)
  <2>1. /\ users' = [users EXCEPT ![i] = u] /\ asked' = [asked EXCEPT ![i] = Asked(u)]
        /\ pc' = [pc EXCEPT ![r] = "stored"] /\ kind' = [kind EXCEPT ![r] = "register"]
        /\ account' = [account EXCEPT ![r] = i] /\ seen' = [seen EXCEPT ![r] = u]
        /\ UNCHANGED <<want, kids>>
    BY <1>4, <1>1 DEF RegisterInsert, FreshId, Is, Sees, To
  <2>2. /\ users'[i] = u /\ \A k \in Ids \ {i} : users'[k] = users[k]
        /\ pc'[r] = "stored" /\ kind'[r] = "register"
        /\ account'[r] = i /\ seen'[r] = u
        /\ \A q \in Requests \ {r} : Same(q)
    BY <2>1, <1>1 DEF Same, TypeOK
  <2>3. TypeOK'
    <3>1. Asked(u) \in [email : Emails \cup {Nobody}, password : Passwords \cup {Nobody}]
      BY <1>1 DEF Asked
    <3>2. users' \in [Ids -> Row \cup {NoUser}] /\ seen' \in [Requests -> Row \cup {NoUser}]
      BY <1>2, <2>1 DEF TypeOK
    <3>3. asked' \in [Ids -> [email : Emails \cup {Nobody}, password : Passwords \cup {Nobody}]]
      BY <3>1, <2>1 DEF TypeOK
    <3>4. /\ pc' \in [Requests -> {"new", "looked"} \cup InFlight \cup Over]
          /\ kind' \in [Requests -> Kinds \cup {"none"}]
          /\ account' \in [Requests -> Ids \cup {0}] /\ nextId' \in Nat
      BY <1>1, <2>1 DEF TypeOK
    <3>5. QED
      BY <1>1, <2>1, <3>2, <3>3, <3>4 DEF TypeOK
  <2>4. \A k \in Ids \ {i} : Exists(k)' <=> Exists(k)
    BY <2>2 DEF Exists
  <2>5. FreshIds'
    <3>1. \A k \in Ids : users'[k] # NoUser => k < i + 1
      BY <1>1, <2>2 DEF FreshIds, Exists, Ids
    <3>2. \A t \in tokens : t.id < i + 1
      <4>1. \A t \in tokens : t.id \in Ids /\ t.id < i
        BY Tokens DEF FreshIds, TypeOK
      <4>2. QED
        BY <4>1, <1>1 DEF Ids
    <3>3. \A q \in Requests : pc'[q] \in InFlight \cup {"ok"} => account'[q] < i + 1
      <4>1. \A q \in Requests : account[q] \in Nat
        BY DEF TypeOK, Ids
      <4>2. QED
        BY <4>1, <1>1, <2>2 DEF FreshIds, Same
    <3>4. QED
      BY <1>1, <3>1, <3>2, <3>3 DEF FreshIds, Exists
  <2>6. Course'
    BY <1>1, <1>2, <2>2, <2>1 DEF Course, CourseOf, Same
  <2>7. LogKept' /\ AnsweredIsLogged'
    <3>1. \A q \in Requests \ {r} :
             pc[q] \in {"logged", "ok"} => account[q] # i
      BY <1>1 DEF FreshIds
    <3>2. \A q \in Requests \ {r} :
             pc[q] \in {"logged", "ok"} => users'[account[q]] = users[account[q]]
      BY <3>1, <2>2 DEF Course, CourseOf
    <3>3. QED
      BY <1>1, <2>2, <3>2 DEF LogKept, AnsweredIsLogged, Same, Exists
  <2>8. UniqueEmails'
    <3> SUFFICES ASSUME NEW k \in Ids, NEW l \in Ids, users'[k] # NoUser,
                        users'[k].email = users'[l].email, k # l
                 PROVE  FALSE
      BY DEF UniqueEmails, Exists
    <3>1. users'[k].email \in Emails
      BY <2>3, RowFields DEF TypeOK
    <3>2. (k \in Ids \ {i} /\ l \in Ids \ {i}) \/ k = i \/ l = i
      OBVIOUS
    <3>3. QED
      BY <1>2, <1>4, <2>2, <3>1, <3>2 DEF Accepts, UniqueEmails, Exists
  <2>9. IdentityKept'
    <3>1. \A t \in tokens : t.id \in Ids /\ t.id # i
      BY <1>1, Tokens DEF FreshIds, TypeOK
    <3>2. \A q \in Requests \ {r} : pc[q] \in InFlight => account[q] \in Ids /\ account[q] # i
      BY <1>1 DEF FreshIds, Course, CourseOf
    <3>3. \A t \in tokens' : Exists(t.id)' => users'[t.id].origin = t.origin
      BY <1>1, <2>2, <3>1 DEF IdentityKept, Exists
    <3>4. \A q \in Requests : pc'[q] \in InFlight /\ users'[account'[q]] # NoUser
                                 => users'[account'[q]].origin = seen'[q].origin
      BY <2>2, <3>2 DEF IdentityKept, Same, Exists
    <3>5. QED
      BY <3>3, <3>4 DEF IdentityKept, Exists
  <2>10. ColumnsIndependent' /\ NoOrphanLogs'
    <3>1. asked'[i] = Asked(u) /\ \A k \in Ids \ {i} : asked'[k] = asked[k]
      BY <2>1, <1>1 DEF TypeOK
    <3>2. QED
      BY <1>1, <1>3, <2>2, <3>1 DEF ColumnsIndependent, NoOrphanLogs, Exists, Asked
  <2>11. QED
    BY <2>3, <2>5, <2>6, <2>7, <2>8, <2>9, <2>10
<1>5. CASE ~Accepts(u.email, i)
  <2>1. /\ Ends(r, "failed") /\ UNCHANGED <<users, logs, tokens, asked, kind, account>>
    BY <1>5, <1>1 DEF RegisterInsert, FreshId
  <2>2. /\ pc'[r] = "failed" /\ \A q \in Requests \ {r} : Same(q)
    BY <2>1 DEF Ends, To, Sees, Wants, Same, TypeOK
  <2>3. TypeOK'
    <3>1. want' \in [Requests -> [email : Emails \cup {Nobody}, password : Passwords \cup {Nobody}]]
      BY <2>1 DEF TypeOK, Ends, Wants, Nothing
    <3>2. /\ pc' \in [Requests -> {"new", "looked"} \cup InFlight \cup Over]
          /\ seen' \in [Requests -> Row \cup {NoUser}]
          /\ kids' \in [Requests -> SUBSET Requests]
      BY <2>1 DEF TypeOK, Ends, Sees, To
    <3>3. QED
      BY <1>1, <2>1, <3>1, <3>2 DEF TypeOK
  <2>4. FreshIds'
    <3>1. \A k \in Ids : Exists(k) => k < i + 1
      BY <1>1 DEF FreshIds, Ids
    <3>2. \A t \in tokens : t.id < i + 1
      <4>1. \A t \in tokens : t.id \in Ids /\ t.id < i
        BY Tokens DEF FreshIds, TypeOK
      <4>2. QED
        BY <4>1, <1>1 DEF Ids
    <3>3. \A q \in Requests : pc'[q] \in InFlight \cup {"ok"} => account[q] < i + 1
      <4>1. \A q \in Requests : account[q] \in Nat
        BY DEF TypeOK, Ids
      <4>2. QED
        BY <4>1, <1>1, <2>2 DEF FreshIds, Same
    <3>4. QED
      <4>1. /\ users' = users /\ tokens' = tokens /\ account' = account
            /\ nextId' = i + 1 /\ i + 1 \in Nat \ {0}
        BY <1>1, <2>1
      <4>2. QED
        BY <4>1, <3>1, <3>2, <3>3 DEF FreshIds, Exists
  <2>5. Course' /\ LogKept' /\ AnsweredIsLogged'
    BY <2>1, <2>2 DEF Course, CourseOf, LogKept, AnsweredIsLogged, Same, Exists
  <2>6. UniqueEmails' /\ ColumnsIndependent' /\ NoOrphanLogs'
    BY <2>1 DEF UniqueEmails, ColumnsIndependent, NoOrphanLogs, Exists
  <2>7. IdentityKept'
    BY <2>1, <2>2 DEF IdentityKept, Same, Exists
  <2>8. QED
    BY <2>3, <2>4, <2>5, <2>6, <2>7
<1>6. QED
  BY <1>4, <1>5

LEMMA ChangeCommitKeeps ==
    ASSUME AccountsInv, NEW r \in Requests, ChangeCommit(r) PROVE AccountsInv'
<1> USE Places DEF AccountsInv
<1> DEFINE i == account[r]
           silent == kind[r] = "email" /\ want[r].email = seen[r].email
           v == Changed(r, users[i])
<1>1. /\ pc[r] = "loaded" /\ kind[r] \in {"password", "email"}
      /\ i \in Ids /\ i < nextId /\ seen[r] \in Row
      /\ UNCHANGED <<nextId, logs, tokens, kind, account>>
  BY DEF ChangeCommit, Course, CourseOf, FreshIds
<1>2. CASE silent
  <2>1. To(r, "stored") /\ UNCHANGED <<users, seen, want, kids, asked>>
    BY <1>2 DEF ChangeCommit
  <2>2. /\ pc'[r] = "stored" /\ \A q \in Requests \ {r} : Same(q)
        /\ UNCHANGED <<table, asked>> /\ tokens' = tokens
        /\ kind'[r] = kind[r] /\ account'[r] = i /\ seen'[r] = seen[r]
    BY <1>1, <2>1 DEF To, Same, TypeOK, table
  <2>3. TypeOK'
    BY <1>1, <2>1 DEF To, TypeOK
  <2>4. CourseOf(r)'
    BY <1>1, <2>2 DEF CourseOf
  <2>5. Exists(account'[r]) => users[account'[r]].origin = seen'[r].origin
    BY <1>1, <2>2 DEF IdentityKept
  <2>6. QED
    BY <1>1, <2>2, <2>3, <2>4, <2>5, MoveKeeps
<1>3. CASE ~silent /\ ~(Exists(i) /\ Accepts(v.email, i))
  <2>1. Ends(r, "failed") /\ UNCHANGED <<users, asked>>
    BY <1>3 DEF ChangeCommit
  <2>2. UNCHANGED <<table, tokens, asked>> /\ UNCHANGED <<kind, account>>
    BY <1>1, <2>1 DEF table
  <2>3. QED
    BY <2>1, <2>2, EndKeeps
<1>4. CASE ~silent /\ Exists(i) /\ Accepts(v.email, i)
  <2> DEFINE a == IF kind[r] = "email"
                  THEN [asked EXCEPT ![i].email = want[r].email]
                  ELSE [asked EXCEPT ![i].password = want[r].password]
  <2>1. /\ users' = [users EXCEPT ![i] = v] /\ asked' = a
        /\ pc' = [pc EXCEPT ![r] = "stored"] /\ UNCHANGED <<seen, want, kids>>
    BY <1>4 DEF ChangeCommit, To
  <2>2. /\ v \in Row /\ v.origin = users[i].origin
        /\ kind[r] = "email" => want[r].email \in Emails
        /\ kind[r] = "password" => want[r].password \in Passwords
    BY <1>1, <1>4, UsersTable, ChangedIsRow DEF Course, CourseOf
  <2>3. /\ users'[i] = v /\ \A k \in Ids \ {i} : users'[k] = users[k]
        /\ pc'[r] = "stored" /\ \A q \in Requests \ {r} : Same(q)
        /\ \A k \in Ids : users'[k] # NoUser <=> users[k] # NoUser
        /\ \A k \in Ids : users'[k].origin = users[k].origin
    <3>1. v # NoUser
      BY <2>2, RowFields
    <3>2. QED
      BY <1>1, <1>4, <2>1, <2>2, <3>1 DEF Same, TypeOK, Exists
  <2>4. asked[i] = Asked(users[i])
    BY <1>1, <1>4 DEF ColumnsIndependent
  <2>5. a[i] = Asked(v) /\ \A k \in Ids \ {i} : a[k] = asked[k]
    <3>1. users[i] \in Row
      BY <1>1, <1>4, UsersTable
    <3>2. asked[i] = [email |-> users[i].email, password |-> users[i].password]
      BY <2>4 DEF Asked
    <3>3. a[i] = [email |-> IF kind[r] = "email" THEN want[r].email ELSE users[i].email,
                  password |-> IF kind[r] = "password" THEN want[r].password
                                                       ELSE users[i].password]
      BY <1>1, <3>2 DEF TypeOK
    <3>4. Asked(v) = [email |-> IF kind[r] = "email" THEN want[r].email ELSE users[i].email,
                      password |-> IF kind[r] = "password" THEN want[r].password
                                                           ELSE users[i].password]
      BY <1>1, <1>4, <3>1 DEF Asked, Changed, Column, Row
    <3>5. \A k \in Ids \ {i} : a[k] = asked[k]
      BY <1>1 DEF TypeOK
    <3>6. QED
      BY <3>3, <3>4, <3>5
  <2>6. TypeOK'
    <3>1. Asked(v) \in [email : Emails \cup {Nobody}, password : Passwords \cup {Nobody}]
      BY <2>2, RowFields DEF Asked
    <3>2. asked' \in [Ids -> [email : Emails \cup {Nobody}, password : Passwords \cup {Nobody}]]
      <4>1. asked' = [k \in Ids |-> IF k = i THEN Asked(v) ELSE asked[k]]
        <5>1. asked' = [k \in Ids |-> a[k]]
          BY <2>1 DEF TypeOK
        <5>2. QED
          BY <5>1, <2>5
      <4>2. QED
        BY <3>1, <4>1 DEF TypeOK
    <3>3. users' \in [Ids -> Row \cup {NoUser}]
      BY <2>1, <2>2 DEF TypeOK
    <3>4. pc' \in [Requests -> {"new", "looked"} \cup InFlight \cup Over]
      BY <2>1 DEF TypeOK
    <3>5. QED
      BY <1>1, <2>1, <3>2, <3>3, <3>4 DEF TypeOK
  <2>7. FreshIds'
    BY <1>1, <2>1, <2>3 DEF FreshIds, Exists, Same
  <2>8. Course'
    BY <1>1, <2>1, <2>3 DEF Course, CourseOf, Same
  <2>9. LogKept' /\ AnsweredIsLogged'
    BY <1>1, <2>1, <2>3 DEF LogKept, AnsweredIsLogged, Same, Exists, Course, CourseOf
  <2>10. UniqueEmails'
    <3> SUFFICES ASSUME NEW k \in Ids, NEW l \in Ids, users'[k] # NoUser,
                        users'[k].email = users'[l].email, k # l
                 PROVE  FALSE
      BY DEF UniqueEmails, Exists
    <3>1. (k \in Ids \ {i} /\ l \in Ids \ {i}) \/ k = i \/ l = i
      OBVIOUS
    <3>2. QED
      BY <1>4, <2>3, <3>1 DEF Accepts, UniqueEmails, Exists
  <2>11. IdentityKept'
    <3>1. \A t \in tokens : t.id \in Ids
      BY Tokens DEF TypeOK
    <3>2. \A q \in Requests : pc'[q] \in InFlight
             => pc[q] \in InFlight /\ account[q] \in Ids
      BY <1>1, <2>3 DEF Same, Course, CourseOf
    <3>3. QED
      BY <1>1, <2>1, <2>3, <3>1, <3>2 DEF IdentityKept, Exists
  <2>12. ColumnsIndependent' /\ NoOrphanLogs'
    BY <1>1, <2>1, <2>3, <2>5 DEF ColumnsIndependent, NoOrphanLogs, Exists
  <2>13. QED
    BY <2>6, <2>7, <2>8, <2>9, <2>10, <2>11, <2>12
<1>5. QED
  BY <1>2, <1>3, <1>4

LEMMA WriteLogKeeps ==
    ASSUME AccountsInv, NEW r \in Requests, WriteLog(r) PROVE AccountsInv'
<1> USE Places DEF AccountsInv
<1> DEFINE i == account[r]
<1>1. /\ pc[r] \in {"reread", "loaded"} /\ i \in Ids
      /\ pc[r] = "loaded" => kind[r] \in {"login", "logout"}
      /\ UNCHANGED <<users, nextId, tokens, kind, account, asked>>
  BY DEF WriteLog, LogsNext, Course, CourseOf
<1>2. CASE ~Exists(i)
  <2>1. Ends(r, "failed") /\ UNCHANGED logs
    BY <1>2 DEF WriteLog
  <2>2. UNCHANGED <<table, tokens, asked>> /\ UNCHANGED <<kind, account>>
    BY <1>1, <2>1 DEF table
  <2>3. QED
    BY <2>1, <2>2, EndKeeps
<1>3. CASE Exists(i)
  <2>1. /\ logs' = [logs EXCEPT ![i] = @ \cup {r}]
        /\ pc' = [pc EXCEPT ![r] = "logged"] /\ UNCHANGED <<seen, want, kids>>
    BY <1>3 DEF WriteLog, To
  <2>2. /\ pc'[r] = "logged" /\ \A q \in Requests \ {r} : Same(q)
        /\ r \in logs'[i] /\ \A k \in Ids : logs[k] \subseteq logs'[k]
        /\ \A k \in Ids \ {i} : logs'[k] = logs[k]
    BY <1>1, <2>1 DEF Same, TypeOK
  <2>3. TypeOK'
    BY <1>1, <2>1 DEF TypeOK
  <2>4. FreshIds'
    BY <1>1, <2>2 DEF FreshIds, Exists, Same
  <2>5. Course'
    BY <1>1, <2>1, <2>2 DEF Course, CourseOf, Same
  <2>6. LogKept' /\ AnsweredIsLogged'
    <3>1. \A q \in Requests : pc[q] \in InFlight \cup {"ok"} => account[q] \in Ids
      BY DEF Course, CourseOf
    <3>2. QED
      BY <1>1, <2>2, <3>1 DEF LogKept, AnsweredIsLogged, Same, Exists
  <2>7. UniqueEmails' /\ ColumnsIndependent' /\ NoOrphanLogs'
    BY <1>1, <1>3, <2>2 DEF UniqueEmails, ColumnsIndependent, NoOrphanLogs, Exists
  <2>8. IdentityKept'
    BY <1>1, <2>1, <2>2 DEF IdentityKept, Same, Exists
  <2>9. QED
    BY <2>3, <2>4, <2>5, <2>6, <2>7, <2>8
<1>4. QED
  BY <1>2, <1>3

LEMMA DeleteCommitKeeps ==
    ASSUME AccountsInv, NEW r \in Requests, DeleteCommit(r) PROVE AccountsInv'
<1> USE Places DEF AccountsInv
<1> DEFINE i == account[r]
<1>1. /\ pc[r] = "found" /\ i \in Ids /\ i < nextId /\ kind[r] = "delete"
      /\ UNCHANGED <<nextId, tokens, kind, account, asked>>
  BY DEF DeleteCommit, Course, CourseOf, FreshIds
<1>2. CASE ~(logs[i] \subseteq kids[r])
  <2>1. Ends(r, "failed") /\ UNCHANGED <<users, logs>>
    BY <1>2 DEF DeleteCommit
  <2>2. UNCHANGED <<table, tokens, asked>> /\ UNCHANGED <<kind, account>>
    BY <1>1, <2>1 DEF table
  <2>3. QED
    BY <2>1, <2>2, EndKeeps
<1>3. CASE logs[i] \subseteq kids[r]
  <2>1. PICK end \in {"ok", "failed"} :
           /\ users' = [users EXCEPT ![i] = NoUser] /\ logs' = [logs EXCEPT ![i] = {}]
           /\ Ends(r, end)
    BY <1>3 DEF DeleteCommit
  <2>2. /\ pc'[r] \in {"ok", "failed"} /\ \A q \in Requests \ {r} : Same(q)
        /\ users'[i] = NoUser /\ logs'[i] = {}
        /\ \A k \in Ids \ {i} : users'[k] = users[k] /\ logs'[k] = logs[k]
    BY <1>1, <2>1 DEF Ends, To, Sees, Wants, Same, TypeOK
  <2>3. TypeOK'
    <3>1. want' \in [Requests -> [email : Emails \cup {Nobody}, password : Passwords \cup {Nobody}]]
      BY <2>1 DEF TypeOK, Ends, Wants, Nothing
    <3>2. /\ pc' \in [Requests -> {"new", "looked"} \cup InFlight \cup Over]
          /\ seen' \in [Requests -> Row \cup {NoUser}]
          /\ kids' \in [Requests -> SUBSET Requests]
      BY <2>1 DEF TypeOK, Ends, Sees, To
    <3>3. users' \in [Ids -> Row \cup {NoUser}] /\ logs' \in [Ids -> SUBSET Requests]
      BY <2>1 DEF TypeOK
    <3>4. QED
      BY <1>1, <3>1, <3>2, <3>3 DEF TypeOK
  <2>4. \A k \in Ids : users'[k] # NoUser => k # i /\ users'[k] = users[k]
                                             /\ logs'[k] = logs[k] /\ Exists(k)
    BY <2>2 DEF Exists
  <2>5. FreshIds'
    BY <1>1, <2>2, <2>4 DEF FreshIds, Exists, Same
  <2>6. Course'
    BY <1>1, <2>2 DEF Course, CourseOf, Same
  <2>7. LogKept' /\ AnsweredIsLogged'
    <3>1. \A q \in Requests : pc[q] \in InFlight \cup {"ok"} => account[q] \in Ids
      BY DEF Course, CourseOf
    <3>2. QED
      BY <1>1, <2>2, <2>4, <3>1 DEF LogKept, AnsweredIsLogged, Same, Exists
  <2>8. UniqueEmails'
    <3> SUFFICES ASSUME NEW k \in Ids, NEW l \in Ids, users'[k] # NoUser,
                        users'[k].email = users'[l].email
                 PROVE  k = l
      BY DEF UniqueEmails, Exists
    <3>1. users'[k] = users[k] /\ Exists(k) /\ users'[k].email # Nobody
      BY <2>4, UsersTable, RowFields
    <3>2. l # i
      BY <2>2, <3>1, RowFields
    <3>3. QED
      BY <2>2, <3>1, <3>2 DEF UniqueEmails
  <2>9. ColumnsIndependent' /\ NoOrphanLogs'
    BY <1>1, <2>2, <2>4 DEF ColumnsIndependent, NoOrphanLogs, Exists
  <2>10. IdentityKept'
    <3>1. \A t \in tokens : t.id \in Ids
      BY Tokens DEF TypeOK
    <3>2. \A q \in Requests : pc'[q] \in InFlight
             => q # r /\ pc[q] \in InFlight /\ account[q] \in Ids
      BY <1>1, <2>2 DEF Same, Course, CourseOf
    <3>3. QED
      BY <1>1, <2>2, <2>4, <3>1, <3>2 DEF IdentityKept, Exists, Same
  <2>11. QED
    BY <2>3, <2>5, <2>6, <2>7, <2>8, <2>9, <2>10
<1>4. QED
  BY <1>2, <1>3

LEMMA ApiCrashKeeps ==
    ASSUME AccountsInv, ApiCrash PROVE AccountsInv'
<1> USE Places DEF AccountsInv, ApiCrash, table
<1>1. \A q \in Requests : /\ pc'[q] \notin InFlight \cup {"looked"}
                          /\ pc'[q] = "ok" => pc[q] = "ok"
                          /\ kind'[q] = kind[q] /\ account'[q] = account[q]
  BY DEF TypeOK
<1>2. TypeOK'
  <2>1. want' \in [Requests -> [email : Emails \cup {Nobody}, password : Passwords \cup {Nobody}]]
    BY DEF Nothing
  <2>2. /\ pc' \in [Requests -> {"new", "looked"} \cup InFlight \cup Over]
        /\ seen' \in [Requests -> Row \cup {NoUser}]
        /\ kids' \in [Requests -> SUBSET Requests]
    BY DEF TypeOK
  <2>3. QED
    BY <2>1, <2>2 DEF TypeOK
<1>3. FreshIds' /\ Course' /\ LogKept' /\ AnsweredIsLogged'
  BY <1>1 DEF FreshIds, Course, CourseOf, LogKept, AnsweredIsLogged, Exists
<1>4. UniqueEmails' /\ ColumnsIndependent' /\ NoOrphanLogs' /\ IdentityKept'
  BY <1>1 DEF UniqueEmails, ColumnsIndependent, NoOrphanLogs, IdentityKept, Exists
<1>5. QED
  BY <1>2, <1>3, <1>4

-----------------------------------------------------------------------------
(* The theorems. *)

LEMMA StutterKeeps ==
    ASSUME AccountsInv, UNCHANGED vars PROVE AccountsInv'
  BY DEF AccountsInv, vars, table, TypeOK, FreshIds, Course, CourseOf, LogKept,
         UniqueEmails, IdentityKept, ColumnsIndependent, NoOrphanLogs, AnsweredIsLogged, Exists

LEMMA StepKeeps ==
    ASSUME AccountsInv, [Next]_vars PROVE AccountsInv'
<1>1. ASSUME NEW r \in Requests, Begin(r) PROVE AccountsInv'
  BY <1>1, TurnAwayKeeps, RegisterLookupKeeps, LoginKeeps, AtOnceKeeps, AuthenticateKeeps
  DEF Begin
<1>2. ASSUME NEW r \in Requests, Work(r) PROVE AccountsInv'
  BY <1>2, RegisterInsertKeeps, ChangeCommitKeeps, RereadKeeps, WriteLogKeeps,
     AnswerKeeps, FindTargetKeeps, DeleteCommitKeeps
  DEF Work
<1>3. QED
  BY <1>1, <1>2, ApiCrashKeeps, StutterKeeps DEF Next

\* Every step of every request, and the death of the process, keeps the
\* invariant; the properties below are parts of it.
THEOREM AccountsInvariant == Spec => []AccountsInv
  BY InitInv, StepKeeps, PTL DEF Spec

\* No two accounts have one address, whatever registrations and changes overlap.
THEOREM AddressesUnique == Spec => []UniqueEmails
<1>1. AccountsInv => UniqueEmails
  BY DEF AccountsInv
<1>2. QED
  BY <1>1, AccountsInvariant, PTL

\* No token and no request in flight reaches an account other than the one it was
\* issued or begun for.
THEOREM TokensKeepTheirAccount == Spec => []IdentityKept
<1>1. AccountsInv => IdentityKept
  BY DEF AccountsInv
<1>2. QED
  BY <1>1, AccountsInvariant, PTL

\* Overlapping changes of an account do not undo each other.
THEOREM ChangesIndependent == Spec => []ColumnsIndependent
<1>1. AccountsInv => ColumnsIndependent
  BY DEF AccountsInv
<1>2. QED
  BY <1>1, AccountsInvariant, PTL

\* No activity of a deleted user stays behind.
THEOREM LogFollowsAccounts == Spec => []NoOrphanLogs
<1>1. AccountsInv => NoOrphanLogs
  BY DEF AccountsInv
<1>2. QED
  BY <1>1, AccountsInvariant, PTL

\* A change that was answered is in the log of an account that still exists.
THEOREM AnswersLogged == Spec => []AnsweredIsLogged
<1>1. AccountsInv => AnsweredIsLogged
  BY DEF AccountsInv
<1>2. QED
  BY <1>1, AccountsInvariant, PTL

-----------------------------------------------------------------------------
(* Requests implement the operations of AccountBook.                       *)

\* What touches neither table nor tokens is no operation yet.
LEMMA BookStutter ==
    ASSUME UNCHANGED <<users, nextId, logs, tokens>> PROVE UNCHANGED Book!bvars
  BY DEF Book!bvars, Spent

\* The address is free for i as AccountBook sees it.
LEMMA AcceptedIsFree ==
    ASSUME TypeOK, NEW i \in Ids, NEW e, Accepts(e, i) PROVE Book!NoOtherHas(e, i)
  BY DEF Accepts, Book!NoOtherHas

LEMMA BookInsert ==
    ASSUME AccountsInv, NEW r \in Requests, RegisterInsert(r)
    PROVE  [Book!BNext]_(Book!bvars)
<1> DEFINE i == nextId
<1>1. /\ TypeOK /\ i \in Ids /\ nextId' = nextId + 1 /\ UNCHANGED <<logs, tokens>>
      /\ want[r].email \in Emails /\ want[r].password \in Passwords
  BY DEF RegisterInsert, FreshId, AccountsInv, Course, CourseOf
<1>2. i \notin Spent /\ Spent' = Spent \cup {i}
  BY <1>1 DEF Spent, Ids
<1>3. CASE Accepts(want[r].email, i)
  <2>1. Book!Enroll(i, r, want[r].email, want[r].password)
    BY <1>1, <1>2, <1>3, AcceptedIsFree DEF RegisterInsert, FreshId, Book!Enroll
  <2>2. QED
    BY <1>1, <2>1 DEF Book!BNext
<1>4. CASE ~Accepts(want[r].email, i)
  <2>1. Book!Waste(i)
    BY <1>1, <1>2, <1>4 DEF RegisterInsert, FreshId, Book!Waste
  <2>2. QED
    BY <1>1, <2>1 DEF Book!BNext
<1>5. QED
  BY <1>3, <1>4

LEMMA BookChange ==
    ASSUME AccountsInv, NEW r \in Requests, ChangeCommit(r)
    PROVE  [Book!BNext]_(Book!bvars)
<1> DEFINE i == account[r]
<1>1. /\ TypeOK /\ pc[r] = "loaded" /\ kind[r] \in {"password", "email"}
      /\ UNCHANGED <<nextId, logs, tokens>> /\ Spent' = Spent
  BY DEF ChangeCommit, AccountsInv, Spent
<1>2. /\ i \in Ids
      /\ kind[r] = "email" => want[r].email \in Emails
      /\ kind[r] = "password" => want[r].password \in Passwords
  BY <1>1, Places DEF AccountsInv, Course, CourseOf
<1>3. CASE UNCHANGED users
  BY <1>1, <1>3, BookStutter
<1>4. CASE users' # users
  <2>1. /\ Exists(i) /\ Accepts(Changed(r, users[i]).email, i)
        /\ users' = [users EXCEPT ![i] = Changed(r, users[i])]
        /\ kind[r] = "email" => want[r].email # seen[r].email
    BY <1>4 DEF ChangeCommit
  <2>2. Book!Member(i) /\ users[i] \in Row
    BY <1>1, <1>2, <2>1, UsersTable DEF Book!Member, Exists
  <2>3. CASE kind[r] = "email"
    <3>1. Changed(r, users[i]) = [users[i] EXCEPT !.email = want[r].email]
      BY <2>1, <2>3 DEF Changed, Column
    <3>2. Changed(r, users[i]).email = want[r].email
      BY <2>2, <3>1 DEF Row
    <3>3. Book!Move(i, want[r].email)
      BY <1>1, <1>2, <2>1, <2>2, <3>1, <3>2, AcceptedIsFree DEF Book!Move
    <3>4. QED
      BY <1>2, <2>3, <3>3 DEF Book!BNext
  <2>4. CASE kind[r] = "password"
    <3>1. Changed(r, users[i]) = [users[i] EXCEPT !.password = want[r].password]
      BY <2>4 DEF Changed
    <3>2. Book!SetPassword(i, want[r].password)
      BY <1>1, <2>1, <2>2, <3>1 DEF Book!SetPassword
    <3>3. QED
      BY <1>2, <2>4, <3>2 DEF Book!BNext
  <2>5. QED
    BY <1>1, <2>3, <2>4
<1>5. QED
  BY <1>3, <1>4

LEMMA BookLog ==
    ASSUME AccountsInv, NEW r \in Requests, WriteLog(r)
    PROVE  [Book!BNext]_(Book!bvars)
<1>1. account[r] \in Ids /\ UNCHANGED <<users, nextId, tokens>> /\ Spent' = Spent
  BY Places DEF WriteLog, LogsNext, AccountsInv, Course, CourseOf, Spent
<1>2. CASE Exists(account[r])
  <2>1. Book!Act(account[r], r)
    BY <1>1, <1>2 DEF WriteLog, Book!Act, Book!Member, Exists
  <2>2. QED
    BY <1>1, <2>1 DEF Book!BNext
<1>3. CASE ~Exists(account[r])
  BY <1>1, <1>3, BookStutter DEF WriteLog
<1>4. QED
  BY <1>2, <1>3

\* Tokens of some types for an account that exists.
LEMMA BookGrant ==
    ASSUME NEW i \in Ids, Exists(i), NEW Types \in SUBSET {"access", "refresh", "ws"},
           UNCHANGED <<users, nextId, logs>>,
           tokens' = tokens \cup {Issued(y, i, users[i].origin) : y \in Types}
    PROVE  Book!BNext
<1>1. Spent' = Spent
  BY DEF Spent
<1>2. Book!Grant(i, Types)
  BY <1>1 DEF Book!Grant, Book!Member, Exists, Issued
<1>3. QED
  BY <1>2 DEF Book!BNext

LEMMA BookTokens ==
    ASSUME AccountsInv, NEW r \in Requests, AtOnce(r) \/ Answer(r)
    PROVE  [Book!BNext]_(Book!bvars)
<1>1. UNCHANGED <<users, nextId, logs>>
  BY DEF AtOnce, Answer, table
<1>2. \A i \in Ids, o \in Requests \cup {Nobody} :
          /\ Pair(i, o) = {Issued(y, i, o) : y \in {"access", "refresh"}}
          /\ Granted("refresh", i, o) = {Issued(y, i, o) : y \in {"access", "refresh"}}
          /\ Granted("ticket", i, o) = {Issued(y, i, o) : y \in {"ws"}}
          /\ Granted("socket", i, o) = {Issued(y, i, o) : y \in {}}
  BY DEF Pair, Granted
<1>3. CASE AtOnce(r)
  <2>1. PICK k \in {"refresh", "ticket", "socket"}, t \in tokens :
            /\ Admitted(k, t)
            /\ tokens' = tokens \cup Granted(k, t.id, users[t.id].origin)
    BY <1>3 DEF AtOnce
  <2>2. t.id \in Ids /\ Exists(t.id) /\ users[t.id].origin \in Requests \cup {Nobody}
    BY <2>1, AdmittedFor
  <2>3. \E Types \in SUBSET {"access", "refresh", "ws"} :
            Granted(k, t.id, users[t.id].origin)
                = {Issued(y, t.id, users[t.id].origin) : y \in Types}
    <3> DEFINE o == users[t.id].origin
    <3>1. /\ Granted("refresh", t.id, o) = {Issued(y, t.id, o) : y \in {"access", "refresh"}}
          /\ Granted("ticket", t.id, o) = {Issued(y, t.id, o) : y \in {"ws"}}
          /\ Granted("socket", t.id, o) = {Issued(y, t.id, o) : y \in {}}
      BY <1>2, <2>2
    <3>2. /\ {"access", "refresh"} \in SUBSET {"access", "refresh", "ws"}
          /\ {"ws"} \in SUBSET {"access", "refresh", "ws"}
          /\ {} \in SUBSET {"access", "refresh", "ws"}
      OBVIOUS
    <3>3. k = "refresh" \/ k = "ticket" \/ k = "socket"
      BY <2>1
    <3>4. CASE k = "refresh"
      BY <3>1, <3>2, <3>4
    <3>5. CASE k = "ticket"
      BY <3>1, <3>2, <3>5
    <3>6. CASE k = "socket"
      BY <3>1, <3>2, <3>6
    <3>7. QED
      BY <3>3, <3>4, <3>5, <3>6
  <2>4. QED
    BY <1>1, <2>1, <2>2, <2>3, BookGrant
<1>4. CASE Answer(r) /\ kind[r] = "login" /\ Exists(account[r])
  <2>1. /\ account[r] \in Ids /\ seen[r] \in Row
        /\ users[account[r]].origin = seen[r].origin
    BY <1>4, Places DEF Answer, AccountsInv, Course, CourseOf, IdentityKept
  <2>2. tokens' = tokens \cup {Issued(y, account[r], users[account[r]].origin) :
                                  y \in {"access", "refresh"}}
    BY <1>2, <1>4, <2>1, RowFields DEF Answer
  <2>3. QED
    BY <1>1, <1>4, <2>1, <2>2, BookGrant
<1>5. CASE Answer(r) /\ ~(kind[r] = "login" /\ Exists(account[r]))
  BY <1>1, <1>5, BookStutter DEF Answer
<1>6. QED
  BY <1>3, <1>4, <1>5

LEMMA BookDelete ==
    ASSUME AccountsInv, NEW r \in Requests, DeleteCommit(r)
    PROVE  [Book!BNext]_(Book!bvars)
<1> DEFINE i == account[r]
<1>1. i \in Ids /\ UNCHANGED <<nextId, tokens>> /\ Spent' = Spent /\ TypeOK
  BY Places DEF DeleteCommit, AccountsInv, Course, CourseOf, Spent
<1>2. CASE UNCHANGED <<users, logs>>
  BY <1>1, <1>2, BookStutter
<1>3. CASE ~UNCHANGED <<users, logs>>
  <2>1. users' = [users EXCEPT ![i] = NoUser] /\ logs' = [logs EXCEPT ![i] = {}]
    BY <1>3 DEF DeleteCommit
  <2>2. Exists(i)
    BY <1>1, <1>3, <2>1 DEF AccountsInv, NoOrphanLogs, Exists, TypeOK
  <2>3. Book!Close(i)
    BY <1>1, <2>1, <2>2 DEF Book!Close, Book!Member, Exists
  <2>4. QED
    BY <1>1, <2>3 DEF Book!BNext
<1>4. QED
  BY <1>2, <1>3

\* Whatever requests overlap, the accounts, what they did and what was handed out
\* change as if the operations were done one after the other.
THEOREM ImplementsBook == Spec => AsIfAlone
<1>1. Init => Book!BInit
  <2> SUFFICES ASSUME Init PROVE Book!BInit
    OBVIOUS
  <2>1. AccountsInv
    BY InitInv
  <2>2. Spent = {i \in Ids : Book!Member(i)}
    <3>1. Len(Seeds) \in Nat /\ \A i \in 1..Len(Seeds) : Seeds[i] \in Row
      BY SeedsAssumption
    <3>2. QED
      BY <3>1, RowFields DEF Init, Spent, Ids, Book!Member
  <2>3. \A i \in Ids : Book!Member(i) => Book!NoOtherHas(users[i].email, i)
    BY <2>1 DEF AccountsInv, UniqueEmails, Exists, Book!Member, Book!NoOtherHas
  <2>4. \A t \in tokens :
           t.id \in Ids /\ Book!Member(t.id) /\ t.origin = users[t.id].origin
    BY <2>1, Tokens DEF Init, AccountsInv, IdentityKept, Exists, Book!Member
  <2>5. users \in [Ids -> Book!Account \cup {NoUser}]
    BY <2>1 DEF AccountsInv, TypeOK, Row, Book!Account
  <2>6. QED
    BY <2>2, <2>3, <2>4, <2>5 DEF Init, Book!BInit
<1>2. AccountsInv /\ [Next]_vars => [Book!BNext]_(Book!bvars)
  <2> SUFFICES ASSUME AccountsInv, [Next]_vars PROVE [Book!BNext]_(Book!bvars)
    OBVIOUS
  <2>1. ASSUME NEW r \in Requests,
               \/ TurnAway(r) \/ RegisterLookup(r) \/ Login(r) \/ Authenticate(r)
               \/ Reread(r) \/ FindTarget(r)
        PROVE  UNCHANGED Book!bvars
    BY <2>1, BookStutter DEF TurnAway, RegisterLookup, Login, Authenticate, Reread, FindTarget, table
  <2>2. CASE ApiCrash \/ UNCHANGED vars
    BY <2>2, BookStutter DEF ApiCrash, vars, table
  <2>3. QED
    BY <2>1, <2>2, BookInsert, BookChange, BookLog, BookTokens, BookDelete DEF Next, Begin, Work
<1>3. QED
  BY <1>1, <1>2, AccountsInvariant, PTL DEF Spec, AsIfAlone, Book!BSpec

\* What keeps the book is orderly.
THEOREM BookIsOrderly == AsIfAlone => []Book!Orderly
<1> DEFINE Typed == /\ users \in [Ids -> Book!Account \cup {NoUser}]
                    /\ logs = [i \in Ids |-> logs[i]]
                    /\ \A t \in tokens : t.id \in Ids
           J == Typed /\ Book!Orderly
<1>1. Book!BInit => J
  BY DEF Book!BInit, Book!Orderly, Book!NoOtherHas, Book!Member
<1>2. J /\ [Book!BNext]_(Book!bvars) => J'
  <2> SUFFICES ASSUME J, [Book!BNext]_(Book!bvars) PROVE J'
    OBVIOUS
  <2> USE DEF Book!Orderly, Book!Member
  <2>1. ASSUME NEW i \in Ids, Book!Waste(i) PROVE J'
    BY <2>1 DEF Book!Waste
  <2>2. ASSUME NEW i \in Ids, NEW r \in Requests, NEW e \in Emails, NEW p \in Passwords,
               Book!Enroll(i, r, e, p)
        PROVE  J'
    BY <2>2 DEF Book!Enroll, Book!NoOtherHas, Book!Account
  <2>3. ASSUME NEW i \in Ids, NEW e \in Emails, Book!Move(i, e) PROVE J'
    BY <2>3, RowFields DEF Book!Move, Book!NoOtherHas, Book!Account
  <2>4. ASSUME NEW i \in Ids, NEW p \in Passwords, Book!SetPassword(i, p) PROVE J'
    BY <2>4, RowFields DEF Book!SetPassword, Book!Account
  <2>5. ASSUME NEW i \in Ids, NEW r \in Requests, Book!Act(i, r) PROVE J'
    BY <2>5 DEF Book!Act
  <2>6. ASSUME NEW i \in Ids, NEW Types \in SUBSET {"access", "refresh", "ws"},
               Book!Grant(i, Types)
        PROVE  J'
    BY <2>6 DEF Book!Grant
  <2>7. ASSUME NEW i \in Ids, Book!Close(i) PROVE J'
    BY <2>7 DEF Book!Close
  <2>8. CASE UNCHANGED Book!bvars
    BY <2>8 DEF Book!bvars
  <2>9. QED
    BY <2>1, <2>2, <2>3, <2>4, <2>5, <2>6, <2>7, <2>8 DEF Book!BNext
<1>3. J => Book!Orderly
  OBVIOUS
<1>4. QED
  BY <1>1, <1>2, <1>3, PTL DEF AsIfAlone, Book!BSpec
=============================================================================
