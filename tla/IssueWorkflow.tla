--------------------------- MODULE IssueWorkflow ---------------------------
(***************************************************************************)
(* The requests that create, change and delete issues, each in a thread of *)
(* its own: load the row, check, assign, commit, refresh the row, write    *)
(* the activity log in a second transaction, read the issue again, notify  *)
(* the assignee in a third one.  No lock is held across any of this, so    *)
(* another request may run between any two of these steps, and any of them *)
(* may fail.  A request does one command, once.                            *)
(***************************************************************************)
EXTENDS OrmSession

CONSTANTS Issues,      \* issues, each in a project
          OwnerOf,     \* issue -> the owner of its project
          Users,
          Nobody,      \* assigned_to is NULL
          Admins,      \* the users with role ADMIN
          Requests,    \* the requests made in a behaviour
          Operations,  \* the endpoints an instance calls
          Faults       \* whether statements may fail and the API process die

Kinds == {"create", "update", "assign", "status", "comment", "delete"}

ASSUME IssuesAssumption     == Issues # {}
ASSUME NobodyAssumption     == Nobody \notin Users
ASSUME OwnerAssumption      == OwnerOf \in [Issues -> Users]
ASSUME AdminsAssumption     == Admins \subseteq Users
ASSUME OperationsAssumption == Operations \subseteq Kinds
ASSUME FaultsAssumption     == Faults \in BOOLEAN

VARIABLES
    issue,     \* the issues table
    op,        \* per request: the command it carries out
    pc,        \* per request: the last step it did
    seen,      \* per request: the issue as its session last loaded it to use
               \* it, until the session is closed
    log,       \* the requests whose activity_logs row is there
    note,      \* per request: who has a notification row from it
    comments   \* the requests whose comment row is there

vars == <<issue, op, pc, seen, log, note, comments>>

-----------------------------------------------------------------------------
(* Rows and commands. *)

Statuses == {"todo", "in_progress", "done"}
Holder   == Users \cup {Nobody}

\* An issue's row; identifiers are never used again after a deletion.
Unborn  == [status |-> "unborn",  assignee |-> Nobody]
Deleted == [status |-> "deleted", assignee |-> Nobody]
Row     == [status : Statuses, assignee : Holder] \cup {Unborn, Deleted}
Fresh(u) == [status |-> "todo",   assignee |-> u]

Exists(i) == issue[i].status \in Statuses

\* A request that has not come in yet.
NoCommand == [kind |-> "none", issue |-> CHOOSE i \in Issues : TRUE,
              actor |-> Nobody, status |-> "todo", user |-> Nobody]

Command == [kind : Kinds, issue : Issues, actor : Users,
            status : Statuses, user : Holder]

\* The payloads the endpoints accept: a status only for "status", a user only
\* where a request names one.  An update that names no user changes nothing
\* that is modelled here and is left out.
Commands ==
    {c \in Command :
        /\ c.kind \in Operations
        /\ c.kind = "status" \/ c.status = "todo"
        /\ c.kind \in {"create", "update", "assign"} \/ c.user = Nobody
        /\ c.kind # "assign" \/ c.user # Nobody}

\* _ALLOWED_TRANSITIONS
Allowed == [todo |-> {"in_progress"}, in_progress |-> {"done"}, done |-> {}]

\* _ensure_can_modify_issue; anyone may create an issue or comment on one.
MayModify(c) == \/ c.kind \in {"create", "comment"}
                \/ c.actor = OwnerOf[c.issue]
                \/ c.actor \in Admins

\* The check of change_issue_status against the status that was loaded.
MayMove(c, row) == \/ c.kind # "status"
                   \/ c.status = row.status
                   \/ c.status \in Allowed[row.status]

\* What command c makes of the row its session loaded.
Assigned(c, row) ==
    [status   |-> IF c.kind = "status" THEN c.status ELSE row.status,
     assignee |-> IF c.kind \in {"update", "assign"} THEN c.user
                                                     ELSE row.assignee]

Before == {"idle", "loaded"}             \* nothing committed yet
Middle == {"stored", "refreshed", "logged", "reloaded"}
Over   == {"ok", "refused",              \* 2xx, 4xx
           "failed",                     \* nothing committed, or its row is gone
           "cut"}                        \* cut off after its change was committed

TypeOK ==
    /\ issue    \in [Issues -> Row]
    /\ op       \in [Requests -> Commands \cup {NoCommand}]
    /\ pc       \in [Requests -> Before \cup Middle \cup Over]
    /\ seen     \in [Requests -> Row]
    /\ log      \subseteq Requests
    /\ note     \in [Requests -> Holder]
    /\ comments \subseteq Requests

Init ==
    /\ issue \in [Issues -> {Unborn, Fresh(Nobody)}]
    /\ op   = [r \in Requests |-> NoCommand]
    /\ pc   = [r \in Requests |-> "idle"]
    /\ seen = [r \in Requests |-> Unborn]
    /\ log  = {}
    /\ note = [r \in Requests |-> Nobody]
    /\ comments = {}

-----------------------------------------------------------------------------
(* The steps of a request. *)

Step(r, from, to) == pc[r] = from /\ pc' = [pc EXCEPT ![r] = to]

\* get_db closes the session of a request that ends.
Close(r) == seen' = [seen EXCEPT ![r] = Unborn]

\* A fault: a change of status that is not checked.
AdmittedUnchecked(c) ==
    IF c.kind = "create"
    THEN /\ issue[c.issue] = Unborn
         /\ \A q \in Requests : op[q].kind = "create" => op[q].issue # c.issue
    ELSE Exists(c.issue) /\ MayModify(c)

\* The row a command works on is there, and its checks pass.  A new issue gets
\* an identifier no other request has.
Admitted(c) ==
    IF c.kind = "create"
    THEN /\ issue[c.issue] = Unborn
         /\ \A q \in Requests : op[q].kind = "create" => op[q].issue # c.issue
    ELSE Exists(c.issue) /\ MayModify(c) /\ MayMove(c, issue[c.issue])

Load(r, c) ==
    /\ Step(r, "idle", "loaded")
    /\ Admitted(c)
    /\ op'   = [op   EXCEPT ![r] = c]
    /\ seen' = [seen EXCEPT ![r] = issue[c.issue]]
    /\ UNCHANGED <<issue, log, note, comments>>

Refuse(r, c) ==                                 \* 404, 403 or 400
    /\ Step(r, "idle", "refused")
    /\ c.kind # "create"
    /\ ~Admitted(c)
    /\ op' = [op EXCEPT ![r] = c]
    /\ UNCHANGED <<issue, seen, log, note, comments>>

StoreNew(r) ==
    LET c == op[r] IN
    /\ Step(r, "loaded", "stored")
    /\ c.kind = "create"
    /\ issue' = [issue EXCEPT ![c.issue] = Fresh(c.user)]
    /\ UNCHANGED <<op, seen, log, note, comments>>

\* Faults a change to the code could bring in: an UPDATE of every column, the
\* loaded ones included.
WrittenWhole(r) == Assigned(op[r], seen[r])

Written(r) ==
    LET now == issue[op[r].issue]  want == Assigned(op[r], seen[r]) IN
    [status   |-> Column(now.status,   seen[r].status,   want.status),
     assignee |-> Column(now.assignee, seen[r].assignee, want.assignee)]

StoreChange(r) ==
    LET c == op[r] IN
    /\ Step(r, "loaded", "stored")
    /\ c.kind \in {"update", "assign", "status"}
    /\ Exists(c.issue)
    /\ issue' = [issue EXCEPT ![c.issue] = Written(r)]
    /\ UNCHANGED <<op, seen, log, note, comments>>

StoreComment(r) ==
    /\ Step(r, "loaded", "stored")
    /\ op[r].kind = "comment"
    /\ Exists(op[r].issue)
    /\ comments' = comments \cup {r}
    /\ UNCHANGED <<issue, op, seen, log, note>>

\* The cascade takes the issue's comments and notifications along; deleting a
\* row somebody else deleted first ends the same way.
StoreDelete(r) ==
    LET i == op[r].issue IN
    /\ Step(r, "loaded", "ok")
    /\ op[r].kind = "delete"
    /\ issue' = [issue EXCEPT ![i] = Deleted]
    /\ comments' = {q \in comments : op[q].issue # i}
    /\ note' = [q \in Requests |-> IF op[q].issue = i THEN Nobody ELSE note[q]]
    /\ Close(r)
    /\ UNCHANGED <<op, log>>

\* db.refresh after the commit; what it loads goes into the log's text only.
Refresh(r) ==
    /\ Step(r, "stored", "refreshed")
    /\ op[r].kind \in {"create", "assign", "status"}
    /\ Exists(op[r].issue)
    /\ UNCHANGED <<issue, op, seen, log, note, comments>>

\* A fault: status changes are left to the notification to record.
WriteLogOfAssignments(r) ==
    /\ Step(r, "refreshed", "logged")
    /\ log' = IF op[r].kind = "status" THEN log ELSE log \cup {r}
    /\ UNCHANGED <<issue, op, seen, note, comments>>

\* The transaction of the activity log.  Its row refers to the user alone, so
\* it is written whether or not the issue is still there.
WriteLog(r) ==
    /\ Step(r, "refreshed", "logged")
    /\ log' = log \cup {r}
    /\ UNCHANGED <<issue, op, seen, note, comments>>

\* A commit expires what the session holds, so the next use loads it again.
Reload(r) ==
    LET c == op[r]  last == c.kind \in {"create", "update"} IN
    /\ Step(r, IF c.kind \in {"update", "comment"} THEN "stored" ELSE "logged",
               IF last THEN "ok" ELSE "reloaded")
    /\ Exists(c.issue)
    /\ c.kind = "comment" => r \in comments
    /\ IF last THEN Close(r) ELSE seen' = [seen EXCEPT ![r] = issue[c.issue]]
    /\ UNCHANGED <<issue, op, log, note, comments>>

\* Faults: self-assignment is told from the project's owner; a status is news
\* only when it differs from the one just read back.
RecipientNotOwner(r) ==
    IF op[r].kind = "assign"
    THEN {op[r].user} \ {OwnerOf[op[r].issue], Nobody}
    ELSE {seen[r].assignee} \ {op[r].actor, Nobody}
RecipientOfNews(r) ==
    IF op[r].kind = "status" /\ seen[r].status = op[r].status THEN {}
    ELSE {IF op[r].kind = "assign" THEN op[r].user ELSE seen[r].assignee}
            \ {op[r].actor, Nobody}

\* Whom notify_user is called for, if anybody.
Recipient(r) == {IF op[r].kind = "assign" THEN op[r].user ELSE seen[r].assignee}
                   \ {op[r].actor, Nobody}

Notify(r) ==
    /\ Step(r, "reloaded", "ok")
    /\ \/ Recipient(r) = {} /\ note' = note
       \/ /\ Exists(op[r].issue)
          /\ \E u \in Recipient(r) : note' = [note EXCEPT ![r] = u]
    /\ Close(r)
    /\ UNCHANGED <<issue, op, log, comments>>

\* The row a step needs is gone: the UPDATE matches no row, the refresh finds
\* none, or a foreign key fails.  The request ends with a 500.
Vanished(r) ==
    \/ ~Exists(op[r].issue)
    \/ op[r].kind = "comment" /\ pc[r] = "stored" /\ r \notin comments

Fail(r) ==
    /\ \/ pc[r] = "loaded" /\ op[r].kind \notin {"create", "delete"}
       \/ pc[r] \in {"stored", "logged"}          \* not the log's transaction
       \/ pc[r] = "reloaded" /\ Recipient(r) # {}
    /\ Vanished(r)
    /\ pc' = [pc EXCEPT ![r] = "failed"]
    /\ Close(r)
    /\ UNCHANGED <<issue, op, log, note, comments>>

\* Where a request that was cut off ends.
CutOff(at) == IF at \in Middle THEN "cut" ELSE IF at = "loaded" THEN "failed" ELSE at

\* The database refuses a statement or no connection is left for it: a 500,
\* and what was committed before stays.
DatabaseError(r) ==
    /\ Faults
    /\ pc[r] \in Middle \cup {"loaded"}
    /\ pc' = [pc EXCEPT ![r] = CutOff(@)]
    /\ Close(r)
    /\ UNCHANGED <<issue, op, log, note, comments>>

\* delete_comment of the comment request r made.
DeleteComment(r, u) ==
    /\ r \in comments
    /\ u = op[r].actor \/ u \in Admins
    /\ comments' = comments \ {r}
    /\ UNCHANGED <<issue, op, pc, seen, log, note>>

\* The API process dies: every request it was serving ends where it was.
Crash ==
    /\ Faults
    /\ \E r \in Requests : pc[r] \in Middle \cup {"loaded"}
    /\ pc' = [r \in Requests |-> CutOff(pc[r])]
    /\ seen' = [r \in Requests |-> Unborn]
    /\ UNCHANGED <<issue, op, log, note, comments>>

RequestStep(r) ==
    \/ \E c \in Commands : Load(r, c) \/ Refuse(r, c)
    \/ StoreNew(r) \/ StoreChange(r) \/ StoreComment(r) \/ StoreDelete(r)
    \/ Refresh(r) \/ WriteLog(r) \/ Reload(r) \/ Notify(r)
    \/ Fail(r) \/ DatabaseError(r)
    \/ \E u \in Users : DeleteComment(r, u)

Next == Crash \/ \E r \in Requests : RequestStep(r)

Spec == Init /\ [][Next]_vars

-----------------------------------------------------------------------------
(* Properties. *)

\* However requests overlap, an issue leaves TODO for IN_PROGRESS only, and
\* never comes back to TODO.  change_issue_status checks the status it loaded,
\* so this rests on what a session does not write back.
StatusPath ==
    [][\A i \in Issues :
          /\ issue[i].status \in {"in_progress", "done"}
                => issue'[i].status # "todo"
          /\ issue[i].status = "todo" => issue'[i].status # "done"]_vars

\* What is said of an issue: the requests whose comment is on it, and whom
\* which request has told of it.
Remarks == [i \in Issues |-> {r \in comments : op[r].issue = i}]
ToldOf  == [i \in Issues |->
               {t \in [by : Requests, user : Users] :
                   note[t.by] = t.user /\ op[t.by].issue = i}]

Board == INSTANCE IssueBoard WITH board <- issue, remarks <- Remarks,
                                  told <- ToldOf, record <- log

\* Requests that overlap step by step have the effect on the board that single
\* changes made one after another have: none overwrites another's column, takes
\* an issue back to TODO or past IN_PROGRESS, revives a deleted issue, comments
\* on it or tells of it afterwards.  A deleted issue may still be logged, and an
\* issue may go from DONE back to IN_PROGRESS (ForwardOnly): both the board allows.
BoardKept == Board!BSpec

\* The activity log accounts for the status an issue has: some request that set
\* that very status has logged it, is about to, or was cut off in between, by the
\* death of the process or an error of the database.
AuditTrail ==
    \A i \in Issues : issue[i].status \in {"in_progress", "done"} =>
        \E r \in Requests :
            /\ op[r].kind = "status"
            /\ op[r].issue = i /\ op[r].status = issue[i].status
            /\ r \in log \/ pc[r] \in {"stored", "refreshed", "cut"}

\* An assignment has just been committed; or it is on record too, and whom it
\* names has been told, is about to be, or made it.  Or the request was cut off.
Announced(r) ==
    \/ pc[r] \in {"stored", "refreshed", "cut"}
    \/ /\ r \in log
       /\ pc[r] \in {"logged", "reloaded"} \/ op[r].user \in {op[r].actor, note[r]}

\* Whoever an issue is assigned to by POST .../assign learns of it and the log
\* records it, although another assignment may overtake this one at any step.
\* Creating and updating assign too, and tell nobody.
AssigneeTold ==
    \A i \in Issues : Exists(i) /\ issue[i].assignee # Nobody =>
        \E r \in Requests :
            /\ op[r].issue = i /\ op[r].user = issue[i].assignee
            /\ \/ /\ op[r].kind \in {"create", "update"}
                  /\ pc[r] \in {"stored", "refreshed", "logged", "ok", "cut"}
               \/ op[r].kind = "assign" /\ Announced(r)

\* An answered status change or comment has told the assignee, unless somebody
\* reassigned the issue: the assignee is read again only after the commit.
ToldUnlessReassigned ==
    \A r \in Requests :
        LET i == op[r].issue IN
        /\ pc[r] = "ok" /\ op[r].kind \in {"status", "comment"}
        /\ Exists(i) /\ issue[i].assignee \notin {Nobody, op[r].actor}
        /\ \A q \in Requests :
              op[q].kind \in {"assign", "update"} /\ op[q].issue = i
                 => pc[q] \in Before \cup {"refused"}
        => note[r] = issue[i].assignee

-----------------------------------------------------------------------------
(* The inductive invariant behind them. *)

\* A request that has not come in has no command; no two requests create one
\* issue, and nobody else has to do with it before it is there.
OwnCommand ==
    /\ \A r \in Requests : pc[r] = "idle" <=> op[r] = NoCommand
    /\ \A r, q \in Requests :
          op[r].kind = "create" /\ op[q].kind = "create"
          /\ op[r].issue = op[q].issue => r = q

\* An issue is unborn exactly as long as nobody but its creator can name it.
BirthInv ==
    \A r \in Requests :
        /\ pc[r] = "loaded" /\ op[r].kind = "create"
             => issue[op[r].issue] = Unborn
        /\ pc[r] = "loaded" /\ op[r].kind # "create"
             => issue[op[r].issue].status # "unborn"
        /\ pc[r] \in Middle \cup {"ok"} => issue[op[r].issue].status # "unborn"

\* What was loaded for a change was a row that passed the check, and the row
\* has not gone back to TODO since.
LoadedInv ==
    \A r \in Requests :
        pc[r] = "loaded" /\ op[r].kind \in {"update", "assign", "status"} =>
            /\ seen[r].status \in Statuses
            /\ MayMove(op[r], seen[r])
            /\ issue[op[r].issue].status = "todo" => seen[r].status = "todo"

\* As long as nobody reassigns the issue, what was read back is what it says.
RecipientInv ==
    \A r \in Requests :
        LET i == op[r].issue IN
        /\ pc[r] = "reloaded" /\ op[r].kind \in {"status", "comment"}
        /\ Exists(i)
        /\ \A q \in Requests :
              op[q].kind \in {"assign", "update"} /\ op[q].issue = i
                 => pc[q] \in Before \cup {"refused"}
        => seen[r].assignee = issue[i].assignee

\* Whoever has a comment or has told somebody has done so for an issue that is
\* still there: deleting it takes both along.
SaidInv ==
    \A r \in Requests :
        /\ r \in comments \/ note[r] # Nobody => pc[r] # "idle" /\ Exists(op[r].issue)
        /\ note[r] # Nobody => pc[r] = "ok"

IInv == TypeOK /\ OwnCommand /\ BirthInv /\ LoadedInv /\ RecipientInv /\ SaidInv

-----------------------------------------------------------------------------
(* What the repository says of issues; refuted by a run of its own. *)

\* "Allowed forward transitions for the issue workflow."
\* (services/issue_service.py:14)
ForwardOnly ==
    [][\A i \in Issues :
          {issue[i].status, issue'[i].status} \subseteq Statuses
             => issue'[i].status \in {issue[i].status} \cup Allowed[issue[i].status]
      ]_vars
=============================================================================
