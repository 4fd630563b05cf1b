------------------------ MODULE IssueWorkflow_proofs ------------------------
(***************************************************************************)
(* Proofs about IssueWorkflow, for every set of issues, users and requests *)
(* and every choice of operations.                                         *)
(***************************************************************************)
EXTENDS IssueWorkflow, TLAPS

USE IssuesAssumption, NobodyAssumption, OwnerAssumption

\* Whatever a request has, its fields are of the types of a command.
LEMMA OpFields ==
    ASSUME TypeOK, NEW r \in Requests
    PROVE  /\ op[r].issue  \in Issues
           /\ op[r].kind   \in Kinds \cup {"none"}
           /\ op[r].user   \in Holder
           /\ op[r].status \in Statuses
           /\ op[r].kind \in Kinds => op[r] \in Command
<1>1. op[r] \in Command \/ op[r] = NoCommand
  BY DEF TypeOK, Commands
<1>2. CASE op[r] \in Command
  BY <1>2 DEF Command, Kinds
<1>3. CASE op[r] = NoCommand
  BY <1>3 DEF NoCommand, Kinds, Holder, Statuses
<1>4. QED
  BY <1>1, <1>2, <1>3

LEMMA CommandFields ==
    ASSUME NEW c \in Commands
    PROVE  /\ c \in Command /\ c.kind \in Kinds /\ c.issue \in Issues
           /\ c.user \in Holder /\ c.status \in Statuses /\ c # NoCommand
  BY DEF Commands, Command, NoCommand, Kinds

\* What a change writes is a row again, and of an issue that is there it is one
\* that is there.
LEMMA WrittenIsRow ==
    ASSUME TypeOK, NEW r \in Requests, Exists(op[r].issue), LoadedInv,
           pc[r] = "loaded", op[r].kind \in {"update", "assign", "status"}
    PROVE  /\ Written(r) \in Row
           /\ Written(r).status \in Statuses
<1>1. op[r].issue \in Issues /\ op[r].user \in Holder /\ op[r].status \in Statuses
  BY OpFields
<1>2. seen[r] \in Row /\ seen[r].status \in Statuses
  BY DEF TypeOK, LoadedInv
<1>3. issue[op[r].issue] \in Row /\ issue[op[r].issue].status \in Statuses
  BY <1>1 DEF TypeOK, Exists
<1>4. /\ seen[r].assignee \in Holder /\ issue[op[r].issue].assignee \in Holder
      /\ Nobody \in Holder
  BY <1>2, <1>3 DEF Row, Unborn, Deleted, Holder
<1>5. QED
  BY <1>1, <1>2, <1>3, <1>4 DEF Written, Assigned, Column, Row

LEMMA NullRows ==
    /\ Unborn \in Row /\ Deleted \in Row
    /\ \A u \in Holder : Fresh(u) \in Row
    /\ Nobody \in Holder
  BY DEF Unborn, Deleted, Fresh, Row, Holder, Statuses

LEMMA RowAssignee == ASSUME NEW row \in Row PROVE row.assignee \in Holder
  BY DEF Row, Unborn, Deleted, Holder

-----------------------------------------------------------------------------
(* Types. *)

LEMMA InitTyped == Init => TypeOK
<1> SUFFICES ASSUME Init PROVE TypeOK
  OBVIOUS
<1>2. {Unborn, Fresh(Nobody)} \subseteq Row
  <2>1. Fresh(Nobody) \in Row /\ Unborn \in Row
    BY NullRows
  <2>2. QED
    BY <2>1
<1>3. issue \in [Issues -> Row]
  BY <1>2 DEF Init
<1>4. /\ op \in [Requests -> Commands \cup {NoCommand}]
      /\ pc \in [Requests -> Before \cup Middle \cup Over]
      /\ seen \in [Requests -> Row] /\ note \in [Requests -> Holder]
  BY NullRows DEF Init, Before
<1>5. QED
  BY <1>3, <1>4 DEF Init, TypeOK

LEMMA StepTyped ==
    ASSUME TypeOK, LoadedInv, [Next]_vars PROVE TypeOK'
<1> USE DEF TypeOK
<1> DEFINE PCs == Before \cup Middle \cup Over
<1>0. /\ PCs = {"idle", "loaded", "stored", "refreshed", "logged", "reloaded", "ok",
                "failed", "refused", "cut"}
      /\ pc \in [Requests -> PCs]
  BY DEF Before, Middle, Over
<1>1. ASSUME NEW r \in Requests, NEW c \in Commands, Load(r, c) \/ Refuse(r, c)
      PROVE  TypeOK'
  <2>1. c.issue \in Issues
    BY CommandFields
  <2>2. op' \in [Requests -> Commands \cup {NoCommand}]
    BY <1>1 DEF Load, Refuse
  <2>3. pc' \in [Requests -> PCs] /\ seen' \in [Requests -> Row]
    BY <1>1, <1>0, <2>1 DEF Load, Refuse, Step
  <2>4. QED
    BY <1>1, <2>2, <2>3, <1>0 DEF Load, Refuse
<1>2. ASSUME NEW r \in Requests, StoreNew(r) PROVE TypeOK'
  <2>1. op[r].user \in Holder
    BY OpFields
  <2>2. issue' \in [Issues -> Row] /\ pc' \in [Requests -> PCs]
    BY <1>2, <1>0, <2>1, NullRows DEF StoreNew, Step
  <2>3. QED
    BY <1>2, <2>2, <1>0 DEF StoreNew
<1>3. ASSUME NEW r \in Requests, StoreChange(r) PROVE TypeOK'
  <2>1. Written(r) \in Row
    BY <1>3, WrittenIsRow DEF StoreChange, Step
  <2>2. issue' \in [Issues -> Row] /\ pc' \in [Requests -> PCs]
    BY <1>3, <1>0, <2>1 DEF StoreChange, Step
  <2>3. QED
    BY <1>3, <2>2, <1>0 DEF StoreChange
<1>4. ASSUME NEW r \in Requests, StoreComment(r) PROVE TypeOK'
  BY <1>4, <1>0 DEF StoreComment, Step
<1>5. ASSUME NEW r \in Requests, StoreDelete(r) PROVE TypeOK'
  <2>1. issue' \in [Issues -> Row] /\ pc' \in [Requests -> PCs]
    BY <1>5, <1>0, NullRows DEF StoreDelete, Step
  <2>2. note' \in [Requests -> Holder] /\ comments' \subseteq Requests
    BY <1>5, NullRows DEF StoreDelete
  <2>3. QED
    BY <1>5, <2>1, <2>2, <1>0, NullRows DEF StoreDelete, Close
<1>6. ASSUME NEW r \in Requests, Refresh(r) \/ WriteLog(r) PROVE TypeOK'
  BY <1>6, <1>0 DEF Refresh, WriteLog, Step
<1>7. ASSUME NEW r \in Requests, Reload(r) PROVE TypeOK'
  <2>1. op[r].issue \in Issues
    BY OpFields
  <2>2. seen' \in [Requests -> Row]
    BY <1>7, <2>1, NullRows DEF Reload, Close
  <2>3. pc' \in [Requests -> PCs]
    BY <1>7, <1>0 DEF Reload, Step
  <2>4. QED
    BY <1>7, <2>2, <2>3, <1>0 DEF Reload
<1>8. ASSUME NEW r \in Requests, Notify(r) PROVE TypeOK'
  <2>1. Recipient(r) \subseteq Holder
    BY OpFields, RowAssignee DEF Recipient
  <2>2. note' \in [Requests -> Holder]
    BY <1>8, <2>1 DEF Notify
  <2>3. QED
    BY <1>8, <2>2, <1>0, NullRows DEF Notify, Step, Close
<1>9. ASSUME NEW r \in Requests, Fail(r) \/ DatabaseError(r) PROVE TypeOK'
  BY <1>9, <1>0, NullRows DEF Fail, DatabaseError, CutOff, Close
<1>10. ASSUME NEW r \in Requests, NEW u \in Users, DeleteComment(r, u)
       PROVE  TypeOK'
  BY <1>10 DEF DeleteComment
<1>11. CASE Crash
  BY <1>11, <1>0, NullRows DEF Crash, CutOff
<1>12. CASE UNCHANGED vars
  BY <1>12 DEF vars
<1>13. QED
  BY <1>1, <1>2, <1>3, <1>4, <1>5, <1>6, <1>7, <1>8, <1>9, <1>10, <1>11, <1>12
     DEF Next, RequestStep

-----------------------------------------------------------------------------
(* What one step does to the program counters, the commands and the issues. *)

\* Only Load and Refuse change commands, only those of idle requests; a command
\* that was taken stays, and nobody becomes idle again.
LEMMA CommandsStay ==
    ASSUME TypeOK, OwnCommand, [Next]_vars
    PROVE  /\ OwnCommand'
           /\ \A r \in Requests : pc[r] # "idle" => op'[r] = op[r] /\ pc'[r] # "idle"
<1> USE DEF TypeOK, OwnCommand
<1>1. ASSUME NEW r \in Requests, NEW c \in Commands, Load(r, c)
      PROVE  /\ OwnCommand'
             /\ \A q \in Requests : pc[q] # "idle" => op'[q] = op[q] /\ pc'[q] # "idle"
  <2>1. /\ c # NoCommand
        /\ op'[r] = c /\ pc[r] = "idle" /\ pc'[r] = "loaded"
        /\ \A q \in Requests \ {r} : op'[q] = op[q] /\ pc'[q] = pc[q]
    BY <1>1, CommandFields DEF Load, Step
  <2>2. c.kind = "create" =>
           \A q \in Requests : op[q].kind = "create" => op[q].issue # c.issue
    BY <1>1 DEF Load, Admitted
  <2>3. \A q \in Requests : pc'[q] = "idle" <=> op'[q] = NoCommand
    BY <2>1
  <2>4. \A p, q \in Requests :
           op'[p].kind = "create" /\ op'[q].kind = "create"
           /\ op'[p].issue = op'[q].issue => p = q
    BY <2>1, <2>2
  <2>5. QED
    BY <2>1, <2>3, <2>4
<1>2. ASSUME NEW r \in Requests, NEW c \in Commands, Refuse(r, c)
      PROVE  /\ OwnCommand'
             /\ \A q \in Requests : pc[q] # "idle" => op'[q] = op[q] /\ pc'[q] # "idle"
  <2>1. /\ c # NoCommand /\ c.kind # "create"
        /\ op'[r] = c /\ pc[r] = "idle" /\ pc'[r] = "refused"
        /\ \A q \in Requests \ {r} : op'[q] = op[q] /\ pc'[q] = pc[q]
    BY <1>2, CommandFields DEF Refuse, Step
  <2>2. QED
    BY <2>1
<1>3. ASSUME NEW r \in Requests,
             \/ StoreNew(r) \/ StoreChange(r) \/ StoreComment(r)
             \/ StoreDelete(r) \/ Refresh(r) \/ WriteLog(r) \/ Reload(r)
             \/ Notify(r) \/ Fail(r) \/ DatabaseError(r)
             \/ \E u \in Users : DeleteComment(r, u)
      PROVE  op' = op /\ \A q \in Requests : pc'[q] = "idle" <=> pc[q] = "idle"
  BY <1>3 DEF StoreNew, StoreChange, StoreComment, StoreDelete, Refresh, WriteLog,
              Reload, Notify, Fail, DatabaseError, CutOff, Middle, DeleteComment,
              Step
<1>4. ASSUME Crash
      PROVE  op' = op /\ \A q \in Requests : pc'[q] = "idle" <=> pc[q] = "idle"
  BY <1>4 DEF Crash, CutOff, Middle
<1>5. ASSUME op' = op, \A q \in Requests : pc'[q] = "idle" <=> pc[q] = "idle"
      PROVE  /\ OwnCommand'
             /\ \A q \in Requests : pc[q] # "idle" => op'[q] = op[q] /\ pc'[q] # "idle"
  BY <1>5
<1>6. CASE UNCHANGED vars
  BY <1>6 DEF vars
<1>7. QED
  BY <1>1, <1>2, <1>3, <1>4, <1>5, <1>6 DEF Next, RequestStep

\* An issue that is there changes by StoreChange or StoreDelete only, one that
\* is deleted stays so, and one that is unborn is born by its creator.
LEMMA IssueStep ==
    ASSUME TypeOK, BirthInv, [Next]_vars, NEW i \in Issues
    PROVE  \/ issue'[i] = issue[i]
           \/ /\ issue[i] = Unborn
              /\ \E r \in Requests : StoreNew(r) /\ op[r].issue = i
              /\ issue'[i].status = "todo"
           \/ /\ Exists(i)
              /\ \E r \in Requests : /\ StoreChange(r) /\ op[r].issue = i
                                     /\ issue'[i] = Written(r)
           \/ /\ issue[i].status # "unborn" /\ issue'[i] = Deleted
              /\ \E r \in Requests : StoreDelete(r) /\ op[r].issue = i
<1> USE DEF TypeOK
<1>1. ASSUME NEW r \in Requests, StoreNew(r), op[r].issue = i
      PROVE  issue[i] = Unborn /\ issue'[i].status = "todo"
  BY <1>1 DEF StoreNew, BirthInv, Fresh, Step
<1>2. ASSUME NEW r \in Requests, StoreChange(r), op[r].issue = i
      PROVE  Exists(i) /\ issue'[i] = Written(r)
  BY <1>2 DEF StoreChange
<1>3. ASSUME NEW r \in Requests, StoreDelete(r), op[r].issue = i
      PROVE  issue[i].status # "unborn" /\ issue'[i] = Deleted
  BY <1>3 DEF StoreDelete, Step, BirthInv
<1>4. ASSUME NEW r \in Requests,
             StoreNew(r) \/ StoreChange(r) \/ StoreDelete(r), op[r].issue # i
      PROVE  issue'[i] = issue[i]
  BY <1>4 DEF StoreNew, StoreChange, StoreDelete
<1>5. \/ issue' = issue
      \/ \E r \in Requests : StoreNew(r) \/ StoreChange(r) \/ StoreDelete(r)
  BY DEF Next, RequestStep, Load, Refuse, StoreComment, Refresh, WriteLog,
         Reload, Notify, Fail, DatabaseError, DeleteComment, Crash, vars
<1>6. QED
  BY <1>1, <1>2, <1>3, <1>4, <1>5

\* How a request gets where it is, and when its session loads something.
LEMMA PcStep ==
    ASSUME TypeOK, [Next]_vars, NEW r \in Requests
    PROVE  /\ pc'[r] = "loaded" => pc[r] = "loaded" \/ \E c \in Commands : Load(r, c)
           /\ pc'[r] = "reloaded" => pc[r] = "reloaded" \/ Reload(r)
           /\ pc'[r] \in Middle \cup {"ok"} => pc[r] \in Middle \cup {"ok", "loaded"}
           /\ pc'[r] \in Before \cup {"refused"} => pc[r] \in Before \cup {"refused"}
           /\ \/ seen'[r] = seen[r] \/ pc'[r] \notin {"loaded"} \cup Middle
              \/ Reload(r) \/ \E c \in Commands : Load(r, c)
<1> DEFINE Goal ==
      /\ pc'[r] = "loaded" => pc[r] = "loaded" \/ \E c \in Commands : Load(r, c)
      /\ pc'[r] = "reloaded" => pc[r] = "reloaded" \/ Reload(r)
      /\ pc'[r] \in Middle \cup {"ok"} => pc[r] \in Middle \cup {"ok", "loaded"}
      /\ pc'[r] \in Before \cup {"refused"} => pc[r] \in Before \cup {"refused"}
      /\ \/ seen'[r] = seen[r] \/ pc'[r] \notin {"loaded"} \cup Middle
         \/ Reload(r) \/ \E c \in Commands : Load(r, c)
<1> USE DEF TypeOK, Before, Middle
<1>1. ASSUME NEW q \in Requests, NEW c \in Commands, Load(q, c) \/ Refuse(q, c)
      PROVE  Goal
  <2>1. CASE q = r
    BY <1>1, <2>1 DEF Load, Refuse, Step
  <2>2. CASE q # r
    BY <1>1, <2>2 DEF Load, Refuse, Step
  <2>3. QED
    BY <2>1, <2>2
<1>2. ASSUME NEW q \in Requests,
             \/ StoreNew(q) \/ StoreChange(q) \/ StoreComment(q)
             \/ StoreDelete(q) \/ Refresh(q) \/ WriteLog(q) \/ Notify(q)
             \/ Fail(q) \/ DatabaseError(q) \/ \E u \in Users : DeleteComment(q, u)
      PROVE  Goal
  BY <1>2 DEF StoreNew, StoreChange, StoreComment, StoreDelete, Refresh, WriteLog,
              Notify, Fail, DatabaseError, CutOff, DeleteComment, Step, Close
<1>3. ASSUME NEW q \in Requests, Reload(q) PROVE Goal
  <2>1. CASE q = r
    BY <1>3, <2>1 DEF Reload, Step
  <2>2. CASE q # r
    BY <1>3, <2>2 DEF Reload, Step, Close
  <2>3. QED
    BY <2>1, <2>2
<1>4. CASE Crash
  BY <1>4 DEF Crash, CutOff
<1>5. CASE UNCHANGED vars
  BY <1>5 DEF vars
<1>6. QED
  BY <1>1, <1>2, <1>3, <1>4, <1>5 DEF Next, RequestStep

\* The status a change writes continues the workflow, whatever the row has
\* become since it was loaded.
LEMMA WrittenPath ==
    ASSUME TypeOK, LoadedInv, NEW r \in Requests, StoreChange(r)
    PROVE  LET now == issue[op[r].issue] IN
           /\ Written(r).status \in Statuses
           /\ Written(r).status = "todo" => now.status = "todo"
           /\ Written(r).status = "done" => now.status # "todo"
           /\ op[r].kind = "status" =>
                 /\ Written(r).assignee = now.assignee
                 /\ Written(r).status \in {now.status, op[r].status}
           /\ op[r].kind # "status" => Written(r).status = now.status
           /\ op[r].kind \in {"update", "assign"} =>
                 Written(r).assignee \in {now.assignee, op[r].user}
<1> DEFINE now == issue[op[r].issue]
<1>1. pc[r] = "loaded" /\ op[r].kind \in {"update", "assign", "status"}
      /\ Exists(op[r].issue)
  BY DEF StoreChange, Step
<1>2. /\ seen[r].status \in Statuses
      /\ MayMove(op[r], seen[r])
      /\ now.status = "todo" => seen[r].status = "todo"
      /\ now.status \in Statuses
  BY <1>1 DEF LoadedInv, Exists
<1>3. op[r].status \in Statuses
  BY OpFields
<1>4. op[r].kind # "status" => Written(r).status = now.status
  BY DEF Written, Assigned, Column
<1>5. ASSUME op[r].kind = "status", op[r].status # seen[r].status
      PROVE  /\ Written(r).status = op[r].status
             /\ \/ seen[r].status = "todo" /\ op[r].status = "in_progress"
                \/ seen[r].status = "in_progress" /\ op[r].status = "done"
  <2>1. op[r].status \in Allowed[seen[r].status]
    BY <1>2, <1>5 DEF MayMove
  <2>2. QED
    BY <2>1, <1>2, <1>5 DEF Allowed, Statuses, Written, Assigned, Column
<1>6. op[r].kind = "status" /\ op[r].status = seen[r].status
         => Written(r).status = now.status
  BY DEF Written, Assigned, Column
<1>7. /\ op[r].kind = "status" => Written(r).assignee = now.assignee
      /\ op[r].kind \in {"update", "assign"} =>
            Written(r).assignee \in {now.assignee, op[r].user}
  BY DEF Written, Assigned, Column
<1>8. QED
  BY <1>1, <1>2, <1>3, <1>4, <1>5, <1>6, <1>7

\* A creation that gets past loading has stored its issue.
LEMMA CreatorStores ==
    ASSUME TypeOK, [Next]_vars, NEW r \in Requests, pc[r] = "loaded",
           op[r].kind = "create", pc'[r] \in Middle \cup {"ok"}
    PROVE  StoreNew(r)
<1> USE DEF TypeOK, Middle
<1>1. ASSUME NEW q \in Requests, RequestStep(q), q # r PROVE FALSE
  BY <1>1 DEF RequestStep, Load, Refuse, StoreNew, StoreChange, StoreComment,
              StoreDelete, Refresh, WriteLog, Reload, Notify, Fail, DatabaseError,
              DeleteComment, Step
<1>2. ASSUME RequestStep(r) PROVE StoreNew(r)
  BY <1>2 DEF RequestStep, Load, Refuse, StoreNew, StoreChange, StoreComment,
              StoreDelete, Refresh, WriteLog, Reload, Notify, Fail, DatabaseError,
              CutOff, DeleteComment, Step
<1>3. ~Crash /\ ~UNCHANGED vars
  BY DEF Crash, CutOff, vars
<1>4. QED
  BY <1>1, <1>2, <1>3 DEF Next

LEMMA BirthStep ==
    ASSUME TypeOK, OwnCommand, BirthInv, LoadedInv, [Next]_vars
    PROVE  BirthInv'
<1> SUFFICES ASSUME NEW r \in Requests
             PROVE  /\ (pc[r] = "loaded" /\ op[r].kind = "create"
                          => issue[op[r].issue] = Unborn)'
                    /\ (pc[r] = "loaded" /\ op[r].kind # "create"
                          => issue[op[r].issue].status # "unborn")'
                    /\ (pc[r] \in Middle \cup {"ok"}
                          => issue[op[r].issue].status # "unborn")'
  BY DEF BirthInv
<1>1. ASSUME NEW c \in Commands, Load(r, c)
      PROVE  /\ op'[r] = c /\ issue' = issue /\ pc'[r] = "loaded"
             /\ c.kind = "create" => issue[c.issue] = Unborn
             /\ c.kind # "create" => issue[c.issue].status # "unborn"
  BY <1>1 DEF Load, Step, Admitted, Exists, Statuses, TypeOK
<1>2. ASSUME pc[r] \in Middle \cup {"ok", "loaded"}
      PROVE  op'[r] = op[r] /\ op[r].issue \in Issues
  BY <1>2, CommandsStay, OpFields DEF Middle
<1>3. ASSUME pc[r] = "loaded", pc'[r] = "loaded", op[r].kind = "create"
      PROVE  issue'[op[r].issue] = Unborn
  <2>1. issue[op[r].issue] = Unborn
    BY <1>3 DEF BirthInv
  <2>2. ASSUME NEW q \in Requests, StoreNew(q), op[q].issue = op[r].issue
        PROVE  FALSE
    BY <1>3, <2>2 DEF StoreNew, Step, OwnCommand, TypeOK
  <2>3. QED
    BY <2>1, <2>2, <1>2, <1>3, IssueStep DEF Unborn, Exists, Statuses
<1>4. ASSUME \/ pc[r] \in Middle \cup {"ok"}
             \/ pc[r] = "loaded" /\ op[r].kind # "create"
      PROVE  issue'[op[r].issue].status # "unborn"
  <2>1. issue[op[r].issue].status # "unborn"
    BY <1>4 DEF BirthInv
  <2>2. ASSUME NEW q \in Requests, StoreChange(q) PROVE Written(q).status # "unborn"
    BY <2>2, WrittenPath DEF Statuses
  <2>3. QED
    BY <2>1, <2>2, <1>2, <1>4, IssueStep DEF Unborn, Deleted
<1>5. ASSUME pc[r] = "loaded", op[r].kind = "create", pc'[r] \in Middle \cup {"ok"}
      PROVE  issue'[op[r].issue].status # "unborn"
  <2>1. StoreNew(r)
    BY <1>5, CreatorStores
  <2>2. QED
    BY <2>1, <1>5, <1>2 DEF StoreNew, Fresh, TypeOK
<1>6. QED
  <2>1. CASE \E c \in Commands : Load(r, c)
    BY <2>1, <1>1 DEF Middle
  <2>2. CASE ~\E c \in Commands : Load(r, c)
    BY <2>2, <1>2, <1>3, <1>4, <1>5, PcStep
  <2>3. QED
    BY <2>1, <2>2

LEMMA LoadedStep ==
    ASSUME TypeOK, OwnCommand, BirthInv, LoadedInv, [Next]_vars
    PROVE  LoadedInv'
<1> SUFFICES ASSUME NEW r \in Requests, pc'[r] = "loaded",
                    op'[r].kind \in {"update", "assign", "status"}
             PROVE  /\ seen'[r].status \in Statuses
                    /\ MayMove(op'[r], seen'[r])
                    /\ issue'[op'[r].issue].status = "todo"
                          => seen'[r].status = "todo"
  BY DEF LoadedInv, MayMove
<1>1. ASSUME NEW c \in Commands, Load(r, c)
      PROVE  /\ seen'[r].status \in Statuses
             /\ MayMove(op'[r], seen'[r])
             /\ issue'[op'[r].issue].status = "todo" => seen'[r].status = "todo"
  <2>1. op'[r] = c /\ seen'[r] = issue[c.issue] /\ issue' = issue
    BY <1>1 DEF Load, TypeOK
  <2>2. Exists(c.issue) /\ MayMove(c, issue[c.issue])
    BY <1>1, <2>1 DEF Load, Admitted
  <2>3. QED
    BY <2>1, <2>2 DEF Exists
<1>2. ASSUME pc[r] = "loaded", ~\E c \in Commands : Load(r, c)
      PROVE  /\ seen'[r].status \in Statuses
             /\ MayMove(op'[r], seen'[r])
             /\ issue'[op'[r].issue].status = "todo" => seen'[r].status = "todo"
  <2>1. op'[r] = op[r] /\ op[r].issue \in Issues
    BY <1>2, CommandsStay, OpFields
  <2>2. ~Reload(r)
    BY <1>2 DEF Reload, Step, TypeOK
  <2>3. seen'[r] = seen[r]
    BY <1>2, <2>2, PcStep
  <2>4. /\ seen[r].status \in Statuses /\ MayMove(op[r], seen[r])
        /\ issue[op[r].issue].status = "todo" => seen[r].status = "todo"
        /\ issue[op[r].issue].status # "unborn"
    BY <1>2, <2>1 DEF LoadedInv, BirthInv
  <2>5. issue'[op[r].issue].status = "todo" => issue[op[r].issue].status = "todo"
    BY <2>1, <2>4, IssueStep, WrittenPath DEF Unborn, Deleted
  <2>6. QED
    BY <2>1, <2>3, <2>4, <2>5
<1>3. QED
  BY <1>1, <1>2, PcStep

\* An assignee changes only when the issue is born or deleted, or by a request
\* that has thereby gone past loading.
LEMMA AssigneeStep ==
    ASSUME TypeOK, OwnCommand, BirthInv, LoadedInv, [Next]_vars,
           NEW i \in Issues, issue[i].status # "unborn", Exists(i)',
           \A q \in Requests :
              op'[q].kind \in {"assign", "update"} /\ op'[q].issue = i
                 => pc'[q] \in Before \cup {"refused"}
    PROVE  issue'[i].assignee = issue[i].assignee /\ Exists(i)
<1>1. ASSUME NEW q \in Requests, StoreChange(q), op[q].issue = i
      PROVE  op[q].kind = "status"
  <2>1. pc[q] = "loaded" /\ pc'[q] = "stored" /\ op' = op
        /\ op[q].kind \in {"update", "assign", "status"}
    BY <1>1 DEF StoreChange, Step, TypeOK
  <2>2. QED
    BY <1>1, <2>1 DEF Before
<1>2. ASSUME NEW q \in Requests, StoreChange(q), op[q].issue = i
      PROVE  Written(q).assignee = issue[i].assignee
  BY <1>1, <1>2, WrittenPath
<1>3. QED
  BY <1>2, IssueStep DEF Exists, Unborn, Deleted, Statuses

LEMMA ReassignBack ==
    ASSUME TypeOK, OwnCommand, [Next]_vars, NEW i \in Issues,
           \A q \in Requests :
              op'[q].kind \in {"assign", "update"} /\ op'[q].issue = i
                 => pc'[q] \in Before \cup {"refused"}
    PROVE  \A q \in Requests :
              op[q].kind \in {"assign", "update"} /\ op[q].issue = i
                 => pc[q] \in Before \cup {"refused"}
<1>1. ASSUME NEW q \in Requests, op[q].kind \in {"assign", "update"}
      PROVE  op'[q] = op[q]
  <2>1. NoCommand.kind = "none"
    BY DEF NoCommand
  <2>2. pc[q] # "idle"
    BY <1>1, <2>1 DEF OwnCommand
  <2>3. QED
    BY <2>2, CommandsStay
<1>2. QED
  BY <1>1, PcStep

LEMMA RecipientStep ==
    ASSUME TypeOK, OwnCommand, BirthInv, LoadedInv, RecipientInv, [Next]_vars
    PROVE  RecipientInv'
<1> SUFFICES ASSUME NEW r \in Requests, pc'[r] = "reloaded",
                    op'[r].kind \in {"status", "comment"},
                    Exists(op[r].issue)', op'[r] = op[r],
                    \A q \in Requests :
                       op'[q].kind \in {"assign", "update"}
                       /\ op'[q].issue = op[r].issue
                          => pc'[q] \in Before \cup {"refused"}
             PROVE  seen'[r].assignee = issue'[op[r].issue].assignee
  <2>1. \A r \in Requests : pc'[r] = "reloaded" => op'[r] = op[r]
    BY PcStep, CommandsStay DEF Reload, Step, Middle
  <2>2. QED
    BY <2>1 DEF RecipientInv, Exists
<1>1. op[r].issue \in Issues
  BY OpFields
<1>2. CASE Reload(r)
  BY <1>1, <1>2 DEF Reload, TypeOK
<1>3. CASE ~Reload(r)
  <2>1. pc[r] = "reloaded"
    BY <1>3, PcStep
  <2>2. seen'[r] = seen[r]
    BY <1>3, <2>1, PcStep DEF Load, Step, Middle
  <2>3. issue[op[r].issue].status # "unborn"
    BY <2>1 DEF BirthInv, Middle
  <2>4. /\ issue'[op[r].issue].assignee = issue[op[r].issue].assignee
        /\ Exists(op[r].issue)
    BY <1>1, <2>3, AssigneeStep
  <2>5. \A q \in Requests :
           op[q].kind \in {"assign", "update"} /\ op[q].issue = op[r].issue
              => pc[q] \in Before \cup {"refused"}
    BY <1>1, ReassignBack
  <2>6. seen[r].assignee = issue[op[r].issue].assignee
    BY <2>1, <2>4, <2>5 DEF RecipientInv
  <2>7. QED
    BY <2>2, <2>4, <2>6
<1>4. QED
  BY <1>2, <1>3

\* An issue that is there stays so unless a request deletes it.
LEMMA ExistsStays ==
    ASSUME TypeOK, BirthInv, LoadedInv, [Next]_vars, NEW i \in Issues, Exists(i)
    PROVE  \/ issue'[i].status \in Statuses
           \/ \E q \in Requests : StoreDelete(q) /\ op[q].issue = i
<1>1. ASSUME NEW r \in Requests, StoreChange(r), op[r].issue = i,
             issue'[i] = Written(r)
      PROVE  issue'[i].status \in Statuses
  BY <1>1, WrittenPath DEF Exists
<1>2. issue[i] # Unborn
  BY DEF Exists, Unborn, Statuses
<1>3. CASE issue'[i] = issue[i]
  BY <1>3 DEF Exists
<1>4. QED
  BY <1>1, <1>2, <1>3, IssueStep

\* A comment or a notification is new only by a step of its own request.
LEMMA NewlySaid ==
    ASSUME TypeOK, [Next]_vars, NEW r \in Requests
    PROVE  /\ r \in comments' => r \in comments \/ StoreComment(r)
           /\ note'[r] # Nobody =>
                 \/ note[r] # Nobody
                 \/ Notify(r) /\ Exists(op[r].issue)
<1> DEFINE Goal == /\ r \in comments' => r \in comments \/ StoreComment(r)
                   /\ note'[r] # Nobody =>
                         \/ note[r] # Nobody
                         \/ Notify(r) /\ Exists(op[r].issue)
<1> USE DEF TypeOK
<1>1. ASSUME NEW q \in Requests, StoreComment(q) \/ StoreDelete(q) PROVE Goal
  BY <1>1 DEF StoreComment, StoreDelete
<1>2. ASSUME NEW q \in Requests, Notify(q) PROVE Goal
  <2>1. CASE q = r
    BY <1>2, <2>1 DEF Notify
  <2>2. CASE q # r
    BY <1>2, <2>2 DEF Notify
  <2>3. QED
    BY <2>1, <2>2
<1>3. ASSUME NEW q \in Requests, NEW u \in Users, DeleteComment(q, u) PROVE Goal
  BY <1>3 DEF DeleteComment
<1>4. ASSUME comments' = comments, note' = note PROVE Goal
  BY <1>4
<1>5. QED
  BY <1>1, <1>2, <1>3, <1>4
     DEF Next, RequestStep, Load, Refuse, StoreNew, StoreChange, Refresh, WriteLog,
         Reload, Fail, DatabaseError, Crash, vars

\* A request that was answered stays so.
LEMMA OkStays ==
    ASSUME TypeOK, [Next]_vars, NEW r \in Requests, pc[r] = "ok"
    PROVE  pc'[r] = "ok"
<1> USE DEF TypeOK
<1>1. ASSUME NEW q \in Requests, RequestStep(q) PROVE pc'[r] = "ok"
  BY <1>1 DEF RequestStep, Load, Refuse, StoreNew, StoreChange, StoreComment,
              StoreDelete, Refresh, WriteLog, Reload, Notify, Fail, DatabaseError,
              Middle, DeleteComment, Step
<1>2. CASE Crash
  BY <1>2 DEF Crash, CutOff, Middle
<1>3. CASE UNCHANGED vars
  BY <1>3 DEF vars
<1>4. QED
  BY <1>1, <1>2, <1>3 DEF Next

\* Deleting an issue takes along what was said of it.
LEMMA SaidStep ==
    ASSUME TypeOK, OwnCommand, BirthInv, LoadedInv, SaidInv, [Next]_vars
    PROVE  SaidInv'
<1> SUFFICES ASSUME NEW r \in Requests, r \in comments' \/ note'[r] # Nobody
             PROVE  /\ pc'[r] # "idle" /\ issue'[op'[r].issue].status \in Statuses
                    /\ note'[r] # Nobody => pc'[r] = "ok"
  BY DEF SaidInv, Exists
<1>0. note'[r] # Nobody => pc'[r] = "ok"
  <2>1. Notify(r) => pc'[r] = "ok"
    BY DEF Notify, Step, TypeOK
  <2>2. note[r] # Nobody => pc[r] = "ok"
    BY DEF SaidInv
  <2>3. QED
    BY <2>1, <2>2, NewlySaid, OkStays
<1>1. op[r].issue \in Issues
  BY OpFields
<1>2. CASE StoreComment(r)
  BY <1>0, <1>2 DEF StoreComment, Step, Exists, TypeOK
<1>3. CASE Notify(r) /\ Exists(op[r].issue)
  BY <1>0, <1>3 DEF Notify, Step, Exists, TypeOK
<1>4. CASE r \in comments \/ note[r] # Nobody
  <2>1. pc[r] # "idle" /\ Exists(op[r].issue)
    BY <1>4 DEF SaidInv
  <2>2. op'[r] = op[r] /\ pc'[r] # "idle"
    BY <2>1, CommandsStay
  <2>3. ASSUME NEW q \in Requests, StoreDelete(q), op[q].issue = op[r].issue
        PROVE  FALSE
    BY <2>3 DEF StoreDelete
  <2>4. issue'[op[r].issue].status \in Statuses
    BY <1>1, <2>1, <2>3, ExistsStays
  <2>5. QED
    BY <1>0, <2>2, <2>4
<1>5. QED
  BY <1>2, <1>3, <1>4, NewlySaid

-----------------------------------------------------------------------------
(* The theorems. *)

LEMMA InitInv == Init => IInv
<1>1. Init => TypeOK
  BY InitTyped
<1>2. Init => OwnCommand /\ BirthInv /\ LoadedInv /\ RecipientInv /\ SaidInv
  BY DEF Init, OwnCommand, BirthInv, LoadedInv, RecipientInv, SaidInv, NoCommand,
         Middle
<1>3. QED
  BY <1>1, <1>2 DEF IInv

LEMMA StepInv == IInv /\ [Next]_vars => IInv'
  BY StepTyped, CommandsStay, BirthStep, LoadedStep, RecipientStep,
     SaidStep DEF IInv

\* The inductive invariant: commands are fixed once taken, issues are born once,
\* loaded rows passed their check and have not fallen back to TODO since.
THEOREM IssueInvariant == Spec => []IInv
  BY InitInv, StepInv, PTL DEF Spec

\* No overlap of requests takes an issue back to TODO or past IN_PROGRESS.
THEOREM StatusPathHolds == Spec => StatusPath
<1>1. ASSUME IInv, [Next]_vars, NEW i \in Issues
      PROVE  /\ issue[i].status \in {"in_progress", "done"}
                  => issue'[i].status # "todo"
             /\ issue[i].status = "todo" => issue'[i].status # "done"
  BY <1>1, IssueStep, WrittenPath DEF IInv, Unborn, Deleted
<1>2. IInv /\ [Next]_vars =>
        [\A i \in Issues :
            /\ issue[i].status \in {"in_progress", "done"}
                  => issue'[i].status # "todo"
            /\ issue[i].status = "todo" => issue'[i].status # "done"]_vars
  BY <1>1
<1>3. QED
  BY <1>2, IssueInvariant, PTL DEF Spec, StatusPath

\* A command that is not the null one stays with its request.
LEMMA KeptCommand ==
    ASSUME IInv, [Next]_vars, NEW r \in Requests, op[r].kind \in Kinds
    PROVE  op'[r] = op[r] /\ pc[r] # "idle" /\ pc'[r] # "idle"
<1>1. NoCommand.kind \notin Kinds
  BY DEF NoCommand, Kinds
<1>2. pc[r] # "idle"
  BY <1>1 DEF IInv, OwnCommand
<1>3. QED
  BY <1>2, CommandsStay DEF IInv

\* A stored change is logged, unless its issue is deleted or the request cut off
\* first.
LEMMA LogFollows ==
    ASSUME IInv, [Next]_vars, NEW r \in Requests,
           op[r].kind \in {"assign", "status"}, Exists(op[r].issue)
    PROVE  /\ r \in log => r \in log'
           /\ pc[r] \in {"stored", "refreshed"} =>
                 \/ r \in log' /\ pc'[r] = "logged"
                 \/ pc'[r] \in {"stored", "refreshed", "cut"}
           /\ pc[r] = "logged" => pc'[r] \in {"logged", "reloaded", "cut"}
           /\ pc[r] = "cut" => pc'[r] = "cut"
<1> DEFINE Goal ==
      /\ r \in log => r \in log'
      /\ pc[r] \in {"stored", "refreshed"} =>
            \/ r \in log' /\ pc'[r] = "logged"
            \/ pc'[r] \in {"stored", "refreshed", "cut"}
      /\ pc[r] = "logged" => pc'[r] \in {"logged", "reloaded", "cut"}
      /\ pc[r] = "cut" => pc'[r] = "cut"
<1> USE DEF IInv, TypeOK
<1>1. ASSUME NEW q \in Requests, NEW c \in Commands, Load(q, c) \/ Refuse(q, c)
      PROVE  Goal
  BY <1>1, KeptCommand DEF Load, Refuse, Step, Kinds
<1>2. ASSUME NEW q \in Requests,
             \/ StoreNew(q) \/ StoreChange(q) \/ StoreComment(q)
             \/ StoreDelete(q) \/ Notify(q)
             \/ \E u \in Users : DeleteComment(q, u)
      PROVE  Goal
  BY <1>2 DEF StoreNew, StoreChange, StoreComment, StoreDelete, Notify,
              DeleteComment, Step
<1>3. ASSUME NEW q \in Requests, Refresh(q) \/ WriteLog(q) \/ Reload(q) PROVE Goal
  BY <1>3 DEF Refresh, WriteLog, Reload, Step
<1>4. ASSUME NEW q \in Requests, Fail(q) \/ DatabaseError(q) PROVE Goal
  BY <1>4 DEF Fail, Vanished, DatabaseError, CutOff, Middle
<1>5. CASE Crash
  BY <1>5 DEF Crash, CutOff, Middle
<1>6. CASE UNCHANGED vars
  BY <1>6 DEF vars
<1>7. QED
  BY <1>1, <1>2, <1>3, <1>4, <1>5, <1>6 DEF Next, RequestStep

\* A change by POST or PUT /issues stays committed while its issue is there.
LEMMA HeldFollows ==
    ASSUME IInv, [Next]_vars, NEW r \in Requests,
           op[r].kind \in {"create", "update"}, Exists(op[r].issue),
           pc[r] \in {"stored", "refreshed", "logged", "ok", "cut"}
    PROVE  pc'[r] \in {"stored", "refreshed", "logged", "ok", "cut"}
<1> DEFINE Goal == pc'[r] \in {"stored", "refreshed", "logged", "ok", "cut"}
<1> USE DEF IInv, TypeOK
<1>1. ASSUME NEW q \in Requests, NEW c \in Commands, Load(q, c) \/ Refuse(q, c)
      PROVE  Goal
  BY <1>1 DEF Load, Refuse, Step
<1>2. ASSUME NEW q \in Requests,
             \/ StoreNew(q) \/ StoreChange(q) \/ StoreComment(q)
             \/ StoreDelete(q) \/ Notify(q) \/ Refresh(q) \/ WriteLog(q)
             \/ \E u \in Users : DeleteComment(q, u)
      PROVE  Goal
  BY <1>2 DEF StoreNew, StoreChange, StoreComment, StoreDelete, Notify, Refresh,
              WriteLog, DeleteComment, Step
<1>3. ASSUME NEW q \in Requests, Reload(q) PROVE Goal
  <2>1. CASE q = r
    BY <1>3, <2>1 DEF Reload, Step
  <2>2. CASE q # r
    BY <1>3, <2>2 DEF Reload, Step
  <2>3. QED
    BY <2>1, <2>2
<1>4. ASSUME NEW q \in Requests, Fail(q) \/ DatabaseError(q) PROVE Goal
  BY <1>4 DEF Fail, Vanished, DatabaseError, CutOff, Middle
<1>5. CASE Crash
  BY <1>5 DEF Crash, CutOff, Middle
<1>6. CASE UNCHANGED vars
  BY <1>6 DEF vars
<1>7. QED
  BY <1>1, <1>2, <1>3, <1>4, <1>5, <1>6 DEF Next, RequestStep

\* The activity log accounts for every status, but for a request cut off between
\* the change and its log row.
THEOREM AuditTrailHolds == Spec => []AuditTrail
<1>1. Init => AuditTrail
  BY DEF Init, AuditTrail, Unborn, Fresh
<1>2. ASSUME IInv, AuditTrail, [Next]_vars PROVE AuditTrail'
  <2> SUFFICES ASSUME NEW i \in Issues, issue'[i].status \in {"in_progress", "done"}
               PROVE  \E r \in Requests :
                         /\ op'[r].kind = "status"
                         /\ op'[r].issue = i /\ op'[r].status = issue'[i].status
                         /\ r \in log' \/ pc'[r] \in {"stored", "refreshed", "cut"}
    BY DEF AuditTrail
  <2> USE DEF IInv
  <2>1. CASE issue'[i].status = issue[i].status
    <3>1. PICK r \in Requests :
             /\ op[r].kind = "status"
             /\ op[r].issue = i /\ op[r].status = issue[i].status
             /\ r \in log \/ pc[r] \in {"stored", "refreshed", "cut"}
      BY <1>2, <2>1 DEF AuditTrail
    <3>2. op'[r] = op[r]
      BY <1>2, <3>1, KeptCommand DEF Kinds
    <3>3. r \in log' \/ pc'[r] \in {"stored", "refreshed", "cut"}
      BY <1>2, <2>1, <3>1, LogFollows DEF Exists, Statuses
    <3>4. QED
      BY <2>1, <3>1, <3>2, <3>3
  <2>2. CASE issue'[i].status # issue[i].status
    <3>1. PICK r \in Requests : /\ StoreChange(r) /\ op[r].issue = i
                                /\ issue'[i] = Written(r)
      BY <1>2, <2>2, IssueStep DEF Deleted
    <3>2. op[r].kind = "status" /\ issue'[i].status = op[r].status
      BY <1>2, <2>2, <3>1, WrittenPath
    <3>3. op' = op /\ pc'[r] = "stored"
      BY <1>2, <3>1 DEF StoreChange, Step, TypeOK
    <3>4. QED
      BY <3>1, <3>2, <3>3
  <2>3. QED
    BY <2>1, <2>2
<1>3. QED
  BY <1>1, <1>2, IssueInvariant, PTL DEF Spec

\* What happens to a notification: its request writes it, and only a deletion
\* of the issue takes it away.
LEMMA NoteStep ==
    ASSUME IInv, [Next]_vars, NEW r \in Requests, Exists(op[r].issue)',
           op[r].kind \in Kinds
    PROVE  /\ note'[r] = note[r] \/ Notify(r)
           /\ pc[r] = "reloaded" => pc'[r] \in {"reloaded", "failed", "cut"} \/ Notify(r)
           /\ pc'[r] = "ok" /\ op[r].kind \in {"assign", "status", "comment"}
                 => pc[r] = "ok" \/ Notify(r)
           /\ pc[r] = "ok" => pc'[r] = "ok"
<1> DEFINE Goal ==
      /\ note'[r] = note[r] \/ Notify(r)
      /\ pc[r] = "reloaded" => pc'[r] \in {"reloaded", "failed", "cut"} \/ Notify(r)
      /\ pc'[r] = "ok" /\ op[r].kind \in {"assign", "status", "comment"}
            => pc[r] = "ok" \/ Notify(r)
      /\ pc[r] = "ok" => pc'[r] = "ok"
<1> USE DEF IInv, TypeOK
<1>0. op'[r] = op[r]
  BY KeptCommand
<1>1. ASSUME NEW q \in Requests, NEW c \in Commands, Load(q, c) \/ Refuse(q, c)
      PROVE  Goal
  BY <1>1 DEF Load, Refuse, Step
<1>2. ASSUME NEW q \in Requests,
             \/ StoreNew(q) \/ StoreChange(q) \/ StoreComment(q)
             \/ Refresh(q) \/ WriteLog(q) \/ Reload(q)
             \/ \E u \in Users : DeleteComment(q, u)
      PROVE  Goal
  BY <1>2 DEF StoreNew, StoreChange, StoreComment, Refresh, WriteLog, Reload,
              DeleteComment, Step
<1>3. ASSUME NEW q \in Requests, StoreDelete(q) PROVE Goal
  <2>1. op[r].issue \in Issues
    BY OpFields
  <2>2. op[q].issue # op[r].issue
    BY <1>3, <1>0, <2>1 DEF StoreDelete, Exists, Deleted, Statuses
  <2>3. QED
    BY <1>3, <2>2 DEF StoreDelete, Step
<1>4. ASSUME NEW q \in Requests, Notify(q) \/ Fail(q) \/ DatabaseError(q) PROVE Goal
  <2>1. CASE q = r
    BY <1>4, <2>1 DEF Notify, Fail, DatabaseError, CutOff, Middle, Step
  <2>2. CASE q # r
    BY <1>4, <2>2 DEF Notify, Fail, DatabaseError, Step
  <2>3. QED
    BY <2>1, <2>2
<1>5. CASE Crash
  BY <1>5 DEF Crash, CutOff, Middle
<1>6. CASE UNCHANGED vars
  BY <1>6 DEF vars
<1>7. QED
  BY <1>1, <1>2, <1>3, <1>4, <1>5, <1>6 DEF Next, RequestStep

\* Whom a notification goes to when it is sent.
LEMMA Notified ==
    ASSUME IInv, NEW r \in Requests, Notify(r)
    PROVE  /\ pc'[r] = "ok"
           /\ op[r].kind = "assign" =>
                 op[r].user \in {op[r].actor, Nobody, note'[r]}
           /\ op[r].kind \in {"status", "comment"} =>
                 seen[r].assignee \in {op[r].actor, Nobody, note'[r]}
  BY DEF Notify, Step, Recipient, IInv, TypeOK

\* A request about to notify fails only if its issue is gone.
LEMMA StaysReloaded ==
    ASSUME IInv, [Next]_vars, NEW r \in Requests, Exists(op[r].issue),
           pc[r] = "reloaded", pc'[r] = "failed"
    PROVE  Notify(r)
<1>1. ~\E q \in Requests : Fail(q) /\ q = r
  BY DEF Fail, Vanished
<1>2. QED
  BY <1>1 DEF Next, RequestStep, Load, Refuse, StoreNew, StoreChange, StoreComment,
         StoreDelete, Refresh, WriteLog, Reload, Notify, Fail, DatabaseError, CutOff,
         DeleteComment, Crash, vars, Step, IInv, TypeOK, Middle

\* Every assignee was named by POST or PUT /issues, or has been told and the
\* assignment is on record, or the request was cut off on the way to that.
THEOREM AssigneeToldHolds == Spec => []AssigneeTold
<1> DEFINE Held(r) == op[r].kind \in {"create", "update"}
                      /\ pc[r] \in {"stored", "refreshed", "logged", "ok", "cut"}
           Told(r) == op[r].kind = "assign" /\ Announced(r)
<1>1. Init => AssigneeTold
  <2>1. Unborn.assignee = Nobody /\ Fresh(Nobody).assignee = Nobody
    BY DEF Unborn, Fresh
  <2>2. QED
    BY <2>1 DEF Init, AssigneeTold
<1>2. ASSUME IInv, AssigneeTold, [Next]_vars PROVE AssigneeTold'
  <2> SUFFICES ASSUME NEW i \in Issues, Exists(i)', issue'[i].assignee # Nobody
               PROVE  \E r \in Requests :
                         /\ op'[r].issue = i /\ op'[r].user = issue'[i].assignee
                         /\ Held(r)' \/ Told(r)'
    BY DEF AssigneeTold, Exists
  <2> USE DEF IInv
  <2>1. CASE Exists(i) /\ issue'[i].assignee = issue[i].assignee
    <3>1. PICK r \in Requests :
             /\ op[r].issue = i /\ op[r].user = issue[i].assignee
             /\ Held(r) \/ Told(r)
      BY <1>2, <2>1 DEF AssigneeTold
    <3>2. op'[r] = op[r] /\ op[r].kind \in Kinds
      BY <1>2, <3>1, KeptCommand DEF Kinds
    <3>3. CASE Held(r)
      <4>1. Held(r)'
        BY <1>2, <2>1, <3>1, <3>2, <3>3, HeldFollows
      <4>2. QED
        BY <2>1, <3>1, <3>2, <4>1
    <3>4. CASE Told(r)
      <4>1. /\ r \in log => r \in log'
            /\ pc[r] \in {"stored", "refreshed"} =>
                  \/ r \in log' /\ pc'[r] = "logged"
                  \/ pc'[r] \in {"stored", "refreshed", "cut"}
            /\ pc[r] = "logged" => pc'[r] \in {"logged", "reloaded", "cut"}
            /\ pc[r] = "cut" => pc'[r] = "cut"
        BY <1>2, <2>1, <3>1, <3>4, LogFollows
      <4>2. /\ note'[r] = note[r] \/ Notify(r)
            /\ pc[r] = "reloaded" => pc'[r] \in {"reloaded", "failed", "cut"} \/ Notify(r)
        BY <1>2, <3>1, <3>2, NoteStep DEF Exists
      <4>3. Notify(r) => op[r].user \in {op[r].actor, note'[r]}
        BY <1>2, <2>1, <3>1, <3>4, Notified
      <4>4. pc[r] = "reloaded" /\ pc'[r] = "failed" => Notify(r)
        BY <1>2, <2>1, <3>1, StaysReloaded
      <4>5. Told(r)'
        BY <3>2, <3>4, <4>1, <4>2, <4>3, <4>4 DEF Announced
      <4>6. QED
        BY <2>1, <3>1, <3>2, <4>5
    <3>5. QED
      BY <3>1, <3>3, <3>4
  <2>2. CASE Exists(i) /\ issue'[i].assignee # issue[i].assignee
    <3>1. PICK r \in Requests : /\ StoreChange(r) /\ op[r].issue = i
                                /\ issue'[i] = Written(r)
      BY <1>2, <2>2, IssueStep DEF Deleted, Exists, Statuses, Unborn
    <3>2. op[r].kind \in {"update", "assign"} /\ issue'[i].assignee = op[r].user
      BY <1>2, <2>2, <3>1, WrittenPath DEF StoreChange
    <3>3. op' = op /\ pc'[r] = "stored"
      BY <1>2, <3>1 DEF StoreChange, Step, TypeOK
    <3>4. Held(r)' \/ Told(r)'
      BY <3>2, <3>3 DEF Announced
    <3>5. QED
      BY <3>1, <3>2, <3>3, <3>4
  <2>3. CASE ~Exists(i)
    <3>1. PICK r \in Requests : /\ StoreNew(r) /\ op[r].issue = i
                                /\ issue'[i] = Fresh(op[r].user)
      BY <1>2, <2>3, IssueStep DEF Deleted, Exists, Statuses, StoreNew, TypeOK
    <3>2. op[r].kind = "create" /\ op' = op /\ pc'[r] = "stored"
      BY <1>2, <3>1 DEF StoreNew, Step, TypeOK
    <3>3. Held(r)' /\ issue'[i].assignee = op[r].user
      BY <3>1, <3>2 DEF Fresh
    <3>4. QED
      BY <3>1, <3>2, <3>3
  <2>4. QED
    BY <2>1, <2>2, <2>3
<1>3. QED
  BY <1>1, <1>2, IssueInvariant, PTL DEF Spec

\* An answered status change or comment has told the assignee, if nobody
\* reassigns the issue; crashes included.
THEOREM ToldHolds == Spec => []ToldUnlessReassigned
<1>1. Init => ToldUnlessReassigned
  BY DEF Init, ToldUnlessReassigned
<1>2. ASSUME IInv, ToldUnlessReassigned, [Next]_vars PROVE ToldUnlessReassigned'
  <2> SUFFICES ASSUME NEW r \in Requests,
                      pc'[r] = "ok", op'[r].kind \in {"status", "comment"},
                      Exists(op[r].issue)',
                      issue'[op'[r].issue].assignee \notin {Nobody, op'[r].actor},
                      \A q \in Requests :
                         op'[q].kind \in {"assign", "update"}
                         /\ op'[q].issue = op'[r].issue
                            => pc'[q] \in Before \cup {"refused"}
               PROVE  note'[r] = issue'[op'[r].issue].assignee
    <3>1. \A r \in Requests : pc'[r] = "ok" /\ op'[r].kind \in {"status", "comment"}
             => op'[r] = op[r]
      BY <1>2, PcStep, CommandsStay DEF IInv, Middle
    <3>2. QED
      BY <3>1 DEF ToldUnlessReassigned, Exists
  <2> DEFINE i == op[r].issue
  <2> USE DEF IInv
  <2>1. /\ op'[r] = op[r] /\ i \in Issues
        /\ issue[i].status # "unborn"
        /\ op[r].kind \in Kinds
    <3>1. pc[r] \in Middle \cup {"ok", "loaded"}
      BY <1>2, PcStep
    <3>2. op'[r] = op[r] /\ i \in Issues
      BY <1>2, <3>1, CommandsStay, OpFields DEF Middle
    <3>3. QED
      BY <1>2, <3>1, <3>2 DEF BirthInv, Kinds
  <2>2. Exists(i)'
    OBVIOUS
  <2>3. issue'[i].assignee = issue[i].assignee /\ Exists(i)
    BY <1>2, <2>1, <2>2, AssigneeStep
  <2>4. \A q \in Requests :
           op[q].kind \in {"assign", "update"} /\ op[q].issue = i
              => pc[q] \in Before \cup {"refused"}
    BY <1>2, <2>1, ReassignBack
  <2>5. CASE Notify(r)
    <3>1. pc[r] = "reloaded"
      BY <2>5 DEF Notify, Step
    <3>2. seen[r].assignee = issue[i].assignee
      BY <1>2, <2>1, <2>3, <2>4, <3>1 DEF RecipientInv
    <3>3. QED
      BY <1>2, <2>1, <2>3, <2>5, <3>2, Notified
  <2>6. CASE ~Notify(r)
    <3>1. pc[r] = "ok" /\ note'[r] = note[r]
      BY <1>2, <2>1, <2>2, <2>6, NoteStep DEF Exists
    <3>2. QED
      BY <1>2, <2>1, <2>3, <2>4, <3>1 DEF ToldUnlessReassigned
  <2>7. QED
    BY <2>5, <2>6
<1>3. QED
  BY <1>1, <1>2, IssueInvariant, PTL DEF Spec

-----------------------------------------------------------------------------
(* Overlapping requests keep the board. *)

\* What is said of the issues changes with comments and notifications only:
\* whoever said something keeps the command he said it by.
LEMMA SaidKept ==
    ASSUME IInv, [Next]_vars
    PROVE  /\ comments' = comments => Remarks' = Remarks
           /\ note' = note => ToldOf' = ToldOf
<1>1. \A r \in Requests : r \in comments \/ note[r] # Nobody => op'[r] = op[r]
  BY CommandsStay DEF IInv, SaidInv
<1>2. ASSUME comments' = comments PROVE Remarks' = Remarks
  <2>1. \A i \in Issues : {r \in comments : op'[r].issue = i}
                          = {r \in comments : op[r].issue = i}
    BY <1>1 DEF IInv, TypeOK
  <2>2. QED
    BY <1>2, <2>1 DEF Remarks
<1>3. ASSUME note' = note PROVE ToldOf' = ToldOf
  <2>1. \A t \in [by : Requests, user : Users] :
           note[t.by] = t.user => op'[t.by] = op[t.by]
    BY <1>1
  <2>2. \A i \in Issues :
           {t \in [by : Requests, user : Users] :
               note[t.by] = t.user /\ op'[t.by].issue = i}
         = {t \in [by : Requests, user : Users] :
               note[t.by] = t.user /\ op[t.by].issue = i}
    BY <2>1
  <2>3. QED
    BY <1>3, <2>2 DEF ToldOf
<1>4. QED
  BY <1>2, <1>3

LEMMA BoardInit == Init => Board!BInit
<1> SUFFICES ASSUME Init PROVE Board!BInit
  OBVIOUS
<1>1. issue \in [Issues -> [status : {"unborn", "todo"}, assignee : Users \cup {Nobody}]]
  BY DEF Init, Unborn, Fresh
<1>2. Remarks = [i \in Issues |-> {}]
  BY DEF Init, Remarks
<1>3. ToldOf = [i \in Issues |-> {}]
  <2>1. \A t \in [by : Requests, user : Users] : note[t.by] # t.user
    BY DEF Init
  <2>2. QED
    BY <2>1 DEF ToldOf
<1>4. log = {}
  BY DEF Init
<1>5. QED
  BY <1>1, <1>2, <1>3, <1>4 DEF Board!BInit

\* A row that is there is put together from its two columns.
LEMMA LiveRow ==
    ASSUME TypeOK, NEW i \in Issues, Exists(i)
    PROVE  /\ issue[i] \in [status : Statuses, assignee : Holder]
           /\ issue[i] = [status |-> issue[i].status, assignee |-> issue[i].assignee]
  BY DEF TypeOK, Row, Exists, Unborn, Deleted, Statuses

\* Storing a new issue opens it.
LEMMA StoreNewOpens ==
    ASSUME IInv, [Next]_vars, NEW r \in Requests, StoreNew(r)
    PROVE  Board!BNext
<1> DEFINE i == op[r].issue
           u == op[r].user
<1>1. i \in Issues /\ u \in Users \cup {Nobody}
  BY OpFields DEF IInv, Holder
<1>2. issue[i].status = "unborn"
  BY DEF IInv, BirthInv, StoreNew, Step, Unborn
<1>3. issue' = [issue EXCEPT ![i] = [status |-> "todo", assignee |-> u]]
  BY DEF StoreNew, Fresh
<1>4. Remarks' = Remarks /\ ToldOf' = ToldOf /\ log' = log
  BY SaidKept DEF StoreNew
<1>5. Board!Open(i, u)
  BY <1>2, <1>3, <1>4 DEF Board!Open
<1>6. QED
  BY <1>1, <1>5 DEF Board!BNext

\* An UPDATE of an issue reassigns it or moves it on, one or the other.
LEMMA StoreChangeMoves ==
    ASSUME IInv, [Next]_vars, NEW r \in Requests, StoreChange(r)
    PROVE  Board!BNext \/ UNCHANGED Board!bvars
<1> DEFINE i == op[r].issue
           new == Written(r)
<1>0. TypeOK /\ LoadedInv /\ issue \in [Issues -> Row]
  BY DEF IInv, TypeOK
<1>1. /\ i \in Issues /\ op[r].user \in Users \cup {Nobody}
      /\ Exists(i) /\ op[r].kind \in {"update", "assign", "status"}
  BY <1>0, OpFields DEF StoreChange, Holder
<1>2. issue' = [issue EXCEPT ![i] = new]
  BY DEF StoreChange
<1>3. Remarks' = Remarks /\ ToldOf' = ToldOf /\ log' = log
  BY SaidKept DEF StoreChange
<1>4. /\ new.status \in Statuses
      /\ new.status = "todo" => issue[i].status = "todo"
      /\ new.status = "done" => issue[i].status # "todo"
      /\ op[r].kind = "status" => new.assignee = issue[i].assignee
      /\ op[r].kind # "status" => new.status = issue[i].status
      /\ op[r].kind \in {"update", "assign"} =>
            new.assignee \in {issue[i].assignee, op[r].user}
  BY <1>0, WrittenPath
<1>5. /\ new = [status |-> new.status, assignee |-> new.assignee]
      /\ issue[i] = [status |-> issue[i].status, assignee |-> issue[i].assignee]
      /\ issue[i].status \in Statuses /\ issue[i].assignee \in Users \cup {Nobody}
  BY <1>0, <1>1, LiveRow DEF Written, Holder
<1>6. CASE op[r].kind # "status"
  <2>1. new = [issue[i] EXCEPT !.assignee = new.assignee]
    BY <1>4, <1>5, <1>6
  <2>2. Board!Reassign(i, new.assignee)
    BY <1>1, <1>2, <1>3, <2>1 DEF Board!Reassign, Board!Live, Exists, Statuses
  <2>3. new.assignee \in Users \cup {Nobody}
    BY <1>1, <1>4, <1>5, <1>6
  <2>4. QED
    BY <1>1, <2>2, <2>3 DEF Board!BNext
<1>7. CASE op[r].kind = "status" /\ new.status = "todo"
  <2>1. new = issue[i]
    BY <1>4, <1>5, <1>7
  <2>2. issue' = issue
    BY <1>0, <1>1, <1>2, <2>1
  <2>3. QED
    BY <1>3, <2>2 DEF Board!bvars
<1>8. CASE op[r].kind = "status" /\ new.status # "todo"
  <2>1. new = [issue[i] EXCEPT !.status = new.status]
    BY <1>4, <1>5, <1>8
  <2>2. /\ new.status \in {"in_progress", "done"}
        /\ issue[i].status = "todo" => new.status = "in_progress"
    BY <1>4, <1>8 DEF Statuses
  <2>3. Board!Progress(i, new.status)
    BY <1>1, <1>2, <1>3, <2>1, <2>2 DEF Board!Progress, Board!Live, Exists, Statuses
  <2>4. QED
    BY <1>1, <2>2, <2>3 DEF Board!BNext
<1>9. QED
  BY <1>6, <1>7, <1>8

\* A stored comment is a remark on its issue.
LEMMA StoreCommentRemarks ==
    ASSUME IInv, [Next]_vars, NEW r \in Requests, StoreComment(r)
    PROVE  Board!BNext
<1> DEFINE i == op[r].issue
<1>1. i \in Issues /\ Exists(i)
  BY OpFields DEF IInv, StoreComment
<1>2. issue' = issue /\ op' = op /\ log' = log /\ comments' = comments \cup {r}
  BY DEF StoreComment
<1>3. ToldOf' = ToldOf
  BY SaidKept DEF StoreComment
<1>4. Remarks' = [Remarks EXCEPT ![i] = @ \cup {r}]
  BY <1>1, <1>2 DEF Remarks
<1>5. Board!Remark(i, r)
  BY <1>1, <1>2, <1>3, <1>4 DEF Board!Remark, Board!Live, Exists, Statuses
<1>6. QED
  BY <1>1, <1>5 DEF Board!BNext

\* Deleting an issue removes it with what was said of it; deleting it again
\* changes nothing.
LEMMA StoreDeleteRemoves ==
    ASSUME IInv, [Next]_vars, NEW r \in Requests, StoreDelete(r)
    PROVE  Board!BNext \/ UNCHANGED Board!bvars
<1> DEFINE i == op[r].issue
<1>1. i \in Issues /\ issue[i] \in Row /\ issue[i].status # "unborn"
  BY OpFields DEF IInv, BirthInv, TypeOK, StoreDelete, Step
<1>2. /\ issue' = [issue EXCEPT ![i] = Deleted] /\ op' = op /\ log' = log
      /\ comments' = {q \in comments : op[q].issue # i}
      /\ note' = [q \in Requests |-> IF op[q].issue = i THEN Nobody ELSE note[q]]
  BY DEF StoreDelete
<1>3. Remarks' = [Remarks EXCEPT ![i] = {}]
  BY <1>1, <1>2 DEF Remarks
<1>4. ToldOf' = [ToldOf EXCEPT ![i] = {}]
  <2> DEFINE T == [by : Requests, user : Users]
  <2>1. \A t \in T : note'[t.by] = t.user <=> note[t.by] = t.user /\ op[t.by].issue # i
    BY <1>2
  <2>2. ToldOf' = [j \in Issues |->
                      {t \in T : note'[t.by] = t.user /\ op[t.by].issue = j}]
    BY <1>2 DEF ToldOf
  <2>3. \A j \in Issues :
           {t \in T : note'[t.by] = t.user /\ op[t.by].issue = j}
             = IF j = i THEN {}
               ELSE {t \in T : note[t.by] = t.user /\ op[t.by].issue = j}
    BY <2>1
  <2>4. QED
    BY <1>1, <2>2, <2>3 DEF ToldOf
<1>5. CASE Exists(i)
  <2>1. Board!Remove(i)
    BY <1>2, <1>3, <1>4, <1>5 DEF Board!Remove, Board!Live, Exists, Statuses, Deleted
  <2>2. QED
    BY <1>1, <2>1 DEF Board!BNext
<1>6. CASE ~Exists(i)
  <2>1. issue[i] = Deleted
    BY <1>1, <1>6 DEF Row, Unborn, Exists
  <2>2. issue' = issue
    BY <1>1, <1>2, <2>1 DEF IInv, TypeOK
  <2>3. \A q \in Requests : op[q].issue = i => q \notin comments /\ note[q] = Nobody
    BY <1>6 DEF IInv, SaidInv
  <2>4. comments' = comments /\ note' = note
    BY <1>2, <2>3 DEF IInv, TypeOK
  <2>5. QED
    BY <1>2, <2>2, <2>4, SaidKept DEF Board!bvars
<1>7. QED
  BY <1>5, <1>6

\* A log row is written of an issue that is there or was.
LEMMA WriteLogRecords ==
    ASSUME IInv, [Next]_vars, NEW r \in Requests, WriteLog(r)
    PROVE  Board!BNext
<1>1. op[r].issue \in Issues /\ issue[op[r].issue].status # "unborn"
  BY OpFields DEF IInv, BirthInv, WriteLog, Step, Middle
<1>2. Remarks' = Remarks /\ ToldOf' = ToldOf /\ issue' = issue
      /\ log' = log \cup {r}
  BY SaidKept DEF WriteLog
<1>3. Board!Record(op[r].issue, r)
  BY <1>1, <1>2 DEF Board!Record
<1>4. QED
  BY <1>1, <1>3 DEF Board!BNext

\* A notification tells one user, of an issue that is there.
LEMMA NotifyTells ==
    ASSUME IInv, [Next]_vars, NEW r \in Requests, Notify(r)
    PROVE  Board!BNext \/ UNCHANGED Board!bvars
<1> DEFINE i == op[r].issue
           T == [by : Requests, user : Users]
<1>1. issue' = issue /\ op' = op /\ log' = log /\ Remarks' = Remarks
  BY SaidKept DEF Notify
<1>2. CASE note' = note
  BY <1>1, <1>2, SaidKept DEF Board!bvars
<1>3. CASE note' # note
  <2>1. Exists(i)
    BY <1>3 DEF Notify
  <2>2. PICK u \in Recipient(r) : note' = [note EXCEPT ![r] = u]
    BY <1>3 DEF Notify
  <2>3. u \in Users
    BY <2>2, OpFields, RowAssignee DEF Recipient, IInv, TypeOK, Holder
  <2>4. i \in Issues
    BY OpFields DEF IInv
  <2>5. note[r] = Nobody
    BY DEF IInv, SaidInv, Notify, Step
  <2>6. \A t \in T : note'[t.by] = t.user <=>
                        note[t.by] = t.user \/ t = [by |-> r, user |-> u]
    BY <2>2, <2>3, <2>5 DEF IInv, TypeOK
  <2>7. \A j \in Issues :
           {t \in T : note'[t.by] = t.user /\ op[t.by].issue = j}
             = IF j = i
               THEN {t \in T : note[t.by] = t.user /\ op[t.by].issue = j}
                       \cup {[by |-> r, user |-> u]}
               ELSE {t \in T : note[t.by] = t.user /\ op[t.by].issue = j}
    BY <2>3, <2>6
  <2>8. ToldOf' = [ToldOf EXCEPT ![i] = @ \cup {[by |-> r, user |-> u]}]
    <3> DEFINE Old(j) == {t \in T : note[t.by] = t.user /\ op[t.by].issue = j}
               New(j) == {t \in T : note'[t.by] = t.user /\ op[t.by].issue = j}
               word   == [by |-> r, user |-> u]
    <3>1. ToldOf' = [j \in Issues |-> New(j)]
      BY <1>1 DEF ToldOf
    <3>2. ToldOf = [j \in Issues |-> Old(j)]
      BY DEF ToldOf
    <3>3. \A j \in Issues : New(j) = IF j = i THEN Old(j) \cup {word} ELSE Old(j)
      BY <2>7
    <3> HIDE DEF Old, New, word
    <3>4. ToldOf' = [ToldOf EXCEPT ![i] = @ \cup {word}]
      BY <2>4, <3>1, <3>2, <3>3
    <3>5. QED
      BY <3>4 DEF word
  <2>9. Board!Tell(i, r, u)
    BY <1>1, <2>1, <2>8 DEF Board!Tell, Board!Live, Exists, Statuses
  <2>10. QED
    BY <2>3, <2>4, <2>9 DEF Board!BNext
<1>4. QED
  BY <1>2, <1>3

\* A deleted comment is erased from its issue.
LEMMA DeleteCommentErases ==
    ASSUME IInv, [Next]_vars, NEW r \in Requests, NEW u \in Users,
           DeleteComment(r, u)
    PROVE  Board!BNext
<1>1. op[r].issue \in Issues
  BY OpFields DEF IInv
<1>2. issue' = issue /\ op' = op /\ log' = log /\ comments' = comments \ {r}
  BY DEF DeleteComment
<1>3. ToldOf' = ToldOf
  BY SaidKept DEF DeleteComment
<1>4. Remarks' = [Remarks EXCEPT ![op[r].issue] = @ \ {r}]
  BY <1>1, <1>2 DEF Remarks
<1>5. Board!Erase(op[r].issue, r)
  BY <1>2, <1>3, <1>4 DEF Board!Erase
<1>6. QED
  BY <1>1, <1>5 DEF Board!BNext

LEMMA BoardStep ==
    ASSUME IInv, [Next]_vars PROVE [Board!BNext]_(Board!bvars)
<1>1. ASSUME issue' = issue, comments' = comments, note' = note, log' = log
      PROVE  UNCHANGED Board!bvars
  BY <1>1, SaidKept DEF Board!bvars
<1>2. QED
  BY <1>1, StoreNewOpens, StoreChangeMoves, StoreCommentRemarks,
     StoreDeleteRemoves, WriteLogRecords, NotifyTells, DeleteCommentErases
     DEF Next, RequestStep, Load, Refuse, Refresh, Reload, Fail, DatabaseError,
         Crash, vars

\* Overlapping requests have the effect on the board of single changes made one
\* after another.
THEOREM RequestsKeepBoard == Spec => BoardKept
<1>1. IInv /\ [Next]_vars => [Board!BNext]_(Board!bvars)
  BY BoardStep
<1>2. QED
  BY BoardInit, <1>1, IssueInvariant, PTL DEF Spec, BoardKept, Board!BSpec

\* On a board that is kept nothing is said of an issue that is not there.
THEOREM SilentOnTheGone == BoardKept => []Board!NothingSaidOfNone
<1> DEFINE Whole ==
              issue \in [Issues -> [status : Statuses \cup {"unborn", "deleted"},
                                    assignee : Users \cup {Nobody}]]
           J == Whole /\ Board!NothingSaidOfNone
<1>1. Board!BInit => J
  BY DEF Board!BInit, Board!NothingSaidOfNone, Statuses
<1>2. J /\ [Board!BNext]_(Board!bvars) => J'
  <2> SUFFICES ASSUME Whole, Board!NothingSaidOfNone, [Board!BNext]_(Board!bvars)
               PROVE  Whole' /\ Board!NothingSaidOfNone'
    OBVIOUS
  <2>0. /\ Remarks = [i \in Issues |-> Remarks[i]] /\ ToldOf = [i \in Issues |-> ToldOf[i]]
        /\ \A i \in Issues : ~Board!Live(i) => Remarks[i] = {} /\ ToldOf[i] = {}
    BY DEF Remarks, ToldOf, Board!NothingSaidOfNone
  <2> HIDE DEF Whole
  <2> USE DEF Board!NothingSaidOfNone, Board!Live
  <2>1. ASSUME NEW i \in Issues, NEW u \in Users \cup {Nobody}, Board!Open(i, u)
        PROVE  Whole' /\ Board!NothingSaidOfNone'
    BY <2>0, <2>1 DEF Whole, Board!Open, Statuses
  <2>2. ASSUME NEW i \in Issues, NEW u \in Users \cup {Nobody}, Board!Reassign(i, u)
        PROVE  Whole' /\ Board!NothingSaidOfNone'
    <3>1. issue' = [issue EXCEPT ![i].assignee = u] /\ Remarks' = Remarks /\ ToldOf' = ToldOf
      BY <2>2 DEF Board!Reassign
    <3>2. Whole' /\ \A j \in Issues : issue'[j].status = issue[j].status
      BY <3>1 DEF Whole
    <3>3. QED
      BY <2>0, <3>1, <3>2
  <2>3. ASSUME NEW i \in Issues, NEW s \in {"in_progress", "done"}, Board!Progress(i, s)
        PROVE  Whole' /\ Board!NothingSaidOfNone'
    <3>1. issue' = [issue EXCEPT ![i].status = s] /\ Remarks' = Remarks /\ ToldOf' = ToldOf
      BY <2>3 DEF Board!Progress
    <3>2. Whole' /\ \A j \in Issues \ {i} : issue'[j].status = issue[j].status
      BY <3>1 DEF Whole, Statuses
    <3>3. issue'[i].status = s
      BY <3>1 DEF Whole
    <3>4. QED
      BY <2>0, <3>1, <3>2, <3>3
  <2>4. ASSUME NEW i \in Issues, Board!Remove(i)
        PROVE  Whole' /\ Board!NothingSaidOfNone'
    BY <2>0, <2>4 DEF Whole, Board!Remove, Statuses
  <2>5. ASSUME NEW i \in Issues, NEW r \in Requests, Board!Remark(i, r) \/ Board!Erase(i, r)
        PROVE  Whole' /\ Board!NothingSaidOfNone'
    BY <2>0, <2>5 DEF Whole, Board!Remark, Board!Erase
  <2>6. ASSUME NEW i \in Issues, NEW r \in Requests, NEW u \in Users, Board!Tell(i, r, u)
        PROVE  Whole' /\ Board!NothingSaidOfNone'
    BY <2>0, <2>6 DEF Whole, Board!Tell
  <2>7. ASSUME NEW i \in Issues, NEW r \in Requests, Board!Record(i, r)
        PROVE  Whole' /\ Board!NothingSaidOfNone'
    BY <2>0, <2>7 DEF Whole, Board!Record
  <2>8. CASE UNCHANGED Board!bvars
    BY <2>0, <2>8 DEF Whole, Board!bvars
  <2>9. QED
    BY <2>1, <2>2, <2>3, <2>4, <2>5, <2>6, <2>7, <2>8 DEF Board!BNext
<1>3. J => Board!NothingSaidOfNone
  OBVIOUS
<1>4. QED
  BY <1>1, <1>2, <1>3, PTL DEF BoardKept, Board!BSpec
=============================================================================
