------------------------- MODULE ExportJobs_proofs -------------------------
(* Proofs about ExportJobs, for any number of jobs, attempts and parents.  *)
EXTENDS ExportInvariant, TLAPS

(* A delivery belongs to a job, and the primary delivery of a job to it. *)
LEMMA Deliveries ==
    /\ \A d \in Delivery : JobOf(d) \in Jobs
    /\ \A j \in Jobs : Primary(j) \in Delivery /\ JobOf(Primary(j)) = j
  BY CopiesAssumption DEF Delivery, JobOf, Primary

(* The rows the code writes are rows. *)
LEMMA RowsWritten ==
    /\ NoRow \in Row /\ FreshRow \in Row
    /\ \A s \in Row : /\ Finished(s) \in Row /\ Refused(s) \in Row /\ Abandoned(s) \in Row
                      /\ \A n \in 0..MaxAttempts : Claimed(s, n) \in Row /\ GivenUp(s, n) \in Row
<1>1. 0 \in 0..MaxAttempts
  BY AttemptsAssumption
<1>2. NoRow \in Row /\ FreshRow \in Row
  BY <1>1 DEF Row, NoRow, FreshRow, Open, Settled, Errors
<1>3. ASSUME NEW s \in Row
      PROVE  Finished(s) \in Row /\ Refused(s) \in Row /\ Abandoned(s) \in Row
  BY <1>1, <1>3 DEF Row, Finished, Refused, Abandoned, Settled, Errors
<1>4. ASSUME NEW s \in Row, NEW n \in 0..MaxAttempts
      PROVE  Claimed(s, n) \in Row /\ GivenUp(s, n) \in Row
  BY <1>4 DEF Row, Claimed, GivenUp, Open, Settled, Errors
<1> QED
  BY <1>2, <1>3, <1>4

(* A commit mixes the columns of two rows into one. *)
LEMMA MergeType ==
    ASSUME NEW r \in Row, NEW s \in Row, NEW w \in Row
    PROVE  Merge(r, s, w) \in Row
  BY DEF Row, Merge, Column

(* A commit nobody interfered with writes exactly what the session assigned. *)
LEMMA UncontestedCommit ==
    ASSUME NEW s \in Row, NEW w \in Row
    PROVE  Merge(s, s, w) = w
  BY DEF Row, Merge, Column

LEMMA CommitWrites ==
    ASSUME row \in [Jobs -> Row], NEW j \in Jobs, NEW w \in Row, Commit(j, row[j], w)
    PROVE  row' = [row EXCEPT ![j] = w]
  BY UncontestedCommit DEF Commit

(* The next retry count is in range while another retry is allowed. *)
LEMMA AttemptRange ==
    ASSUME NEW n \in 0..(MaxAttempts - 1)
    PROVE  n + 1 \in 0..MaxAttempts
  BY AttemptsAssumption

(* Type correctness: the initial state. *)
LEMMA InitType == Init => TypeOK
  BY RowsWritten, AttemptsAssumption, Deliveries
  DEF Init, TypeOK, PCs, Open, Settled

(* Type correctness: the steps of request_export. *)
LEMMA RequestType ==
    ASSUME TypeOK, NEW j \in Jobs, RequestExport(j) \/ RequestStep(j)
    PROVE  TypeOK'
<1>1. CASE RequestExport(j)
  BY <1>1, RowsWritten DEF RequestExport, TypeOK, taskVars, bootVars, InRequest
<1>2. CASE RequestVanishes(j)
  BY <1>2, RowsWritten DEF RequestVanishes, RequestEnds, Unread, TypeOK, taskVars, bootVars, InRequest
<1>3. CASE Enqueue(j)
  BY <1>3, RowsWritten, Deliveries
  DEF Enqueue, RequestEnds, Unread, TypeOK, bootVars, InRequest, PCs
<1>4. CASE EnqueueFails(j)
  BY <1>4, Deliveries DEF EnqueueFails, Unread, TypeOK, bootVars, InRequest, PCs
<1>5. CASE LoadRejected(j)
  BY <1>5, RowsWritten
  DEF LoadRejected, RequestEnds, Unread, TypeOK, taskVars, bootVars, InRequest
<1>6. CASE MarkRejected(j)
  <2>1. Merge(row[j], apiSeen[j], Refused(apiSeen[j])) \in Row
    BY RowsWritten, MergeType DEF TypeOK
  <2>2. row' \in [Jobs -> Row]
    BY <1>6, <2>1 DEF MarkRejected, Commit, TypeOK
  <2> QED
    BY <1>6, <2>2, RowsWritten
    DEF MarkRejected, RequestEnds, Unread, TypeOK, taskVars, bootVars, InRequest
<1> QED
  BY <1>1, <1>2, <1>3, <1>4, <1>5, <1>6 DEF RequestStep

(* A dead letter is a dead letter. *)
LEMMA PushType ==
    ASSUME dlq \subseteq [job : Jobs, retryable : BOOLEAN],
           NEW j \in Jobs, NEW again \in BOOLEAN, Push(j, again)
    PROVE  dlq' \subseteq [job : Jobs, retryable : BOOLEAN]
<1>1. [job |-> j, retryable |-> again] \in [job : Jobs, retryable : BOOLEAN]
  OBVIOUS
<1>2. dlq' = dlq \/ dlq' = dlq \cup {[job |-> j, retryable |-> again]}
  BY DEF Push
<1> QED
  BY <1>1, <1>2

(* Type correctness: the steps of the worker and the broker. *)
LEMMA TaskType ==
    ASSUME TypeOK, NEW d \in Delivery,
           TaskStep(d) \/ WorkerCrash(d) \/ \E e \in Delivery : Duplicate(d, e)
    PROVE  TypeOK'
<1> DEFINE j == JobOf(d)
<1>0. j \in Jobs /\ row[j] \in Row /\ seen[d] \in Row /\ retries[d] + 1 \in 0..MaxAttempts
  BY Deliveries, AttemptRange DEF TypeOK
<1> USE DEF Elsewhere, bootVars, requestVars, To, See, Ends, Fails, PCs, InWorker, InTry, InHandler
<1> HIDE DEF j
<1>1. ASSUME NEW w \in Row, Commit(j, seen[d], w) PROVE row' \in [Jobs -> Row]
  BY <1>0, <1>1, MergeType DEF Commit, TypeOK
<1>2. 0 \in 0..(MaxAttempts - 1)
  BY AttemptsAssumption
<1>3. CASE Fetch(d)
  BY <1>3, <1>0 DEF Fetch, TypeOK, j
<1>4. CASE LoadJob(d) \/ ReloadJob(d) \/ GiveUpLoad(d)
  BY <1>4, <1>0, RowsWritten DEF LoadJob, ReloadJob, GiveUpLoad, TypeOK, j
<1>5. CASE LoadMissing(d) \/ Bury(d)
  <2>1. dlq' \subseteq [job : Jobs, retryable : BOOLEAN]
    BY <1>5, <1>0, PushType DEF LoadMissing, Bury, TypeOK, j
  <2>2. CASE LoadMissing(d)
    BY <2>2, <1>2, <2>1, RowsWritten DEF LoadMissing, TypeOK
  <2>3. CASE Bury(d)
    BY <2>3, <1>2, <2>1, RowsWritten DEF Bury, TypeOK
  <2> QED
    BY <1>5, <2>2, <2>3
<1>6. CASE StartRun(d)
  <2>1. row' \in [Jobs -> Row]
    BY <1>6, <1>0, <1>1, RowsWritten DEF StartRun, TypeOK, j
  <2> QED
    BY <1>6, <2>1, RowsWritten DEF StartRun, TypeOK
<1>7. CASE OpenCsv(d) \/ CloseCsv(d)
  BY <1>7, <1>0 DEF OpenCsv, CloseCsv, TypeOK, j
<1>8. CASE Complete(d) \/ GiveUp(d)
  <2>1. row' \in [Jobs -> Row]
    BY <1>8, <1>0, <1>1, RowsWritten DEF Complete, GiveUp, TypeOK, j
  <2> QED
    BY <1>8, <1>2, <2>1, RowsWritten DEF Complete, GiveUp, TypeOK
<1>9. CASE Raise(d) \/ RetryLost(d) \/ HandlerError(d) \/ WorkerCrash(d)
  BY <1>9, <1>2, RowsWritten DEF Raise, RetryLost, HandlerError, WorkerCrash, TypeOK
<1>10. CASE Retry(d)
  BY <1>10, AttemptsAssumption DEF Retry, LastAttempt, TypeOK
<1>11. ASSUME NEW e \in Delivery, Duplicate(d, e) PROVE TypeOK'
  BY <1>11 DEF Duplicate, TypeOK
<1> QED
  BY <1>3, <1>4, <1>5, <1>6, <1>7, <1>8, <1>9, <1>10, <1>11 DEF TaskStep

(* Type correctness: restarts, deletions, downloads and the clock. *)
LEMMA OtherType ==
    ASSUME TypeOK,
           \/ BootStep \/ ApiCrash
           \/ \E j \in Jobs : Age(j) \/ DownloadCheck(j) \/ DownloadServe(j)
           \/ \E p \in Parents : DeleteParent(p)
    PROVE  TypeOK'
<1> USE DEF taskVars, requestVars, bootVars
<1>1. CASE RecoverLoad \/ RecoverSkip
  BY <1>1, RowsWritten DEF RecoverLoad, RecoverSkip, TypeOK
<1>2. CASE RecoverCommit
  <2>1. \A j \in Jobs : Merge(row[j], reap[j], Abandoned(reap[j])) \in Row
    BY RowsWritten, MergeType DEF TypeOK
  <2>2. row' \in [Jobs -> Row]
    BY <1>2, <2>1 DEF RecoverCommit, TypeOK
  <2> QED
    BY <1>2, <2>2, RowsWritten DEF RecoverCommit, TypeOK
<1>3. CASE ApiCrash
  BY <1>3, RowsWritten DEF ApiCrash, TypeOK, InRequest
<1>4. ASSUME NEW j \in Jobs, Age(j) \/ DownloadCheck(j) \/ DownloadServe(j) PROVE TypeOK'
  BY <1>4 DEF Age, DownloadCheck, DownloadServe, TypeOK
<1>5. ASSUME NEW p \in Parents, DeleteParent(p) PROVE TypeOK'
  BY <1>5, RowsWritten DEF DeleteParent, TypeOK
<1> QED
  BY <1>1, <1>2, <1>3, <1>4, <1>5 DEF BootStep

(* Every variable keeps its type, in every instance of ExportJobs. *)
THEOREM TypeCorrect == Spec => []TypeOK
<1>1. TypeOK /\ [Next]_vars => TypeOK'
  <2>1. CASE UNCHANGED vars
    BY <2>1 DEF vars, taskVars, requestVars, bootVars, TypeOK
  <2>2. TypeOK /\ Next => TypeOK'
    BY RequestType, TaskType, OtherType DEF Next
  <2> QED BY <2>1, <2>2
<1> QED BY InitType, <1>1, PTL DEF Spec

-----------------------------------------------------------------------------
(* The inductive invariant.                                                *)

(* What the columns of the rows are that the code writes. *)
LEMMA ColumnsWritten ==
    /\ NoRow.status = "absent" /\ NoRow.attempts = 0 /\ ~NoRow.file
    /\ NoRow.error = "none" /\ ~NoRow.finished
    /\ FreshRow.status = "pending" /\ FreshRow.attempts = 0 /\ ~FreshRow.file
    /\ FreshRow.error = "none" /\ ~FreshRow.finished
    /\ \A s \in Row :
          /\ Finished(s).status = "completed" /\ Finished(s).attempts = s.attempts
          /\ Finished(s).file /\ Finished(s).error = "none" /\ Finished(s).finished
          /\ Refused(s).status = "failed" /\ Refused(s).attempts = 0
          /\ Refused(s).file = s.file /\ Refused(s).error = "queue" /\ Refused(s).finished
          /\ Abandoned(s).status = "failed" /\ Abandoned(s).attempts = s.attempts
          /\ Abandoned(s).file = s.file /\ Abandoned(s).error = "abandoned"
          /\ Abandoned(s).finished
    /\ \A s \in Row, n \in 0..MaxAttempts :
          /\ Claimed(s, n).status = "running" /\ Claimed(s, n).attempts = n
          /\ Claimed(s, n).file = s.file /\ Claimed(s, n).error = s.error
          /\ Claimed(s, n).finished = s.finished
          /\ GivenUp(s, n).status = "failed" /\ GivenUp(s, n).attempts = n
          /\ GivenUp(s, n).file = s.file /\ GivenUp(s, n).error = "task"
          /\ GivenUp(s, n).finished
<1>1. /\ NoRow.status = "absent" /\ NoRow.attempts = 0 /\ ~NoRow.file
      /\ NoRow.error = "none" /\ ~NoRow.finished
  BY DEF NoRow
<1>2. /\ FreshRow.status = "pending" /\ FreshRow.attempts = 0 /\ ~FreshRow.file
      /\ FreshRow.error = "none" /\ ~FreshRow.finished
  BY DEF FreshRow, NoRow
<1>3. ASSUME NEW s \in Row
      PROVE  /\ Finished(s).status = "completed" /\ Finished(s).attempts = s.attempts
             /\ Finished(s).file /\ Finished(s).error = "none" /\ Finished(s).finished
  BY <1>3 DEF Row, Finished
<1>4. ASSUME NEW s \in Row
      PROVE  /\ Refused(s).status = "failed" /\ Refused(s).attempts = 0
             /\ Refused(s).file = s.file /\ Refused(s).error = "queue" /\ Refused(s).finished
  BY <1>4 DEF Row, Refused
<1>5. ASSUME NEW s \in Row
      PROVE  /\ Abandoned(s).status = "failed" /\ Abandoned(s).attempts = s.attempts
             /\ Abandoned(s).file = s.file /\ Abandoned(s).error = "abandoned"
             /\ Abandoned(s).finished
  BY <1>5 DEF Row, Abandoned
<1>6. ASSUME NEW s \in Row, NEW n \in 0..MaxAttempts
      PROVE  /\ Claimed(s, n).status = "running" /\ Claimed(s, n).attempts = n
             /\ Claimed(s, n).file = s.file /\ Claimed(s, n).error = s.error
             /\ Claimed(s, n).finished = s.finished
  BY <1>6 DEF Row, Claimed
<1>7. ASSUME NEW s \in Row, NEW n \in 0..MaxAttempts
      PROVE  /\ GivenUp(s, n).status = "failed" /\ GivenUp(s, n).attempts = n
             /\ GivenUp(s, n).file = s.file /\ GivenUp(s, n).error = "task"
             /\ GivenUp(s, n).finished
  BY <1>7 DEF Row, GivenUp
<1> QED
  BY <1>1, <1>2, <1>3, <1>4, <1>5, <1>6, <1>7

(* The invariant of a job speaks of that job only. *)
LEMMA Frame ==
    ASSUME NEW j \in Jobs, JobInv(j), boot' = boot,
           row'[j] = row[j], csv'[j] = csv[j], stale'[j] = stale[j],
           api'[j] = api[j], apiSeen'[j] = apiSeen[j], reap'[j] = reap[j],
           runs'[j] = runs[j], download'[j] = download[j],
           pc'[Primary(j)] = pc[Primary(j)], retries'[Primary(j)] = retries[Primary(j)],
           seen'[Primary(j)] = seen[Primary(j)]
    PROVE  JobInv(j)'
  BY DEF JobInv, RequestOwns, SnapshotsHold, AttemptsFollowRuns, WriterGone, FileFollows,
         StoryTold

(* The initial state satisfies the invariant. *)
LEMMA InitInvariant == Init => IInv
<1> SUFFICES ASSUME Init PROVE IInv
  OBVIOUS
<1>1. TypeOK
  BY InitType
<1>2. OneDelivery /\ LettersFollow
  BY DEF Init, OneDelivery, LettersFollow
<1>3. ASSUME NEW j \in Jobs PROVE JobInv(j)
  BY Deliveries, ColumnsWritten
  DEF Init, JobInv, RequestOwns, SnapshotsHold, AttemptsFollowRuns, WriterGone, FileFollows,
      StoryTold, Open, Settled, InRequest, InWorker, InTry, InHandler
<1> QED
  BY <1>1, <1>2, <1>3 DEF IInv

(* Two things no step may do to a row: change it once it is settled, or bring *)
(* it back once it is deleted.                                                *)
RowKept(j) ==
    /\ row[j].status \in Settled => row'[j] \in {row[j], NoRow}
    /\ row[j] = NoRow /\ api[j] # "idle" => row'[j] = NoRow

(* If every row is kept, so are the dead letters about them. *)
LEMMA LettersKept ==
    ASSUME IInv, dlq' = dlq, \A j \in Jobs : RowKept(j),
           \A j \in Jobs : api[j] = "done" => api'[j] = "done"
    PROVE  LettersFollow'
<1> SUFFICES ASSUME NEW m \in dlq
             PROVE  /\ api'[m.job] = "done"
                    /\ m.retryable => row'[m.job] = NoRow \/ row'[m.job].error = "task"
  BY DEF LettersFollow
<1>1. m.job \in Jobs
  BY DEF IInv, TypeOK
<1>2. api[m.job] = "done" /\ (m.retryable => row[m.job] = NoRow \/ row[m.job].error = "task")
  BY DEF IInv, LettersFollow
<1>3. row[m.job].error = "task" => row[m.job].status \in Settled
  BY <1>1 DEF IInv, JobInv, StoryTold, TypeOK, Row, Settled, Open, NoRow
<1> QED
  BY <1>1, <1>2, <1>3 DEF RowKept

(* Only job j and its primary delivery change in a step about them. *)
OnlyJob(j) ==
    /\ boot' = boot
    /\ \A k \in Jobs \ {j} :
          /\ row'[k] = row[k] /\ csv'[k] = csv[k] /\ stale'[k] = stale[k]
          /\ api'[k] = api[k] /\ apiSeen'[k] = apiSeen[k] /\ reap'[k] = reap[k]
          /\ runs'[k] = runs[k] /\ download'[k] = download[k]
          /\ pc'[Primary(k)] = pc[Primary(k)]
          /\ retries'[Primary(k)] = retries[Primary(k)]
          /\ seen'[Primary(k)] = seen[Primary(k)]

(* Such a step preserves the invariant when it preserves it for that job. *)
LEMMA LocalStep ==
    ASSUME IInv, NEW j \in Jobs, OnlyJob(j), JobInv(j)', TypeOK', OneDelivery', LettersFollow'
    PROVE  IInv'
<1>1. ASSUME NEW k \in Jobs, k # j PROVE JobInv(k)'
  BY <1>1, Frame DEF IInv, OnlyJob
<1> QED
  BY <1>1 DEF IInv

(* Primary deliveries of different jobs are different. *)
LEMMA PrimaryDiffers == \A j, k \in Jobs : j # k => Primary(j) # Primary(k)
  BY Deliveries

(* The request preserves the invariant. *)
LEMMA RequestInvariant ==
    ASSUME IInv, Undisputed, NEW j \in Jobs, RequestExport(j) \/ RequestStep(j)
    PROVE  IInv' /\ \A k \in Jobs : RowKept(k)
<1> DEFINE d == Primary(j)
<1>0. /\ TypeOK /\ OneDelivery /\ LettersFollow /\ JobInv(j)
      /\ d \in Delivery /\ JobOf(d) = j /\ \A k \in Jobs \ {j} : Primary(k) # d
  BY Deliveries, PrimaryDiffers DEF IInv
<1>1. TypeOK'
  BY <1>0, RequestType
<1> USE DEF taskVars, requestVars, bootVars, Unread, RequestEnds
<1>2. OnlyJob(j)
  BY <1>0, Deliveries DEF OnlyJob, TypeOK, RequestExport, RequestStep, RequestVanishes, Enqueue,
     EnqueueFails, LoadRejected, MarkRejected, Commit
<1>3. OneDelivery'
  BY <1>0 DEF OneDelivery, TypeOK, RequestExport, RequestStep, RequestVanishes, Enqueue,
     EnqueueFails, LoadRejected, MarkRejected
<1>4. dlq' = dlq /\ \A k \in Jobs : api[k] = "done" => api'[k] = "done"
  BY <1>0 DEF TypeOK, RequestExport, RequestStep, RequestVanishes, Enqueue,
     EnqueueFails, LoadRejected, MarkRejected
<1>5. MarkRejected(j) /\ Exists(j) => row'[j] = Refused(FreshRow)
  <2> SUFFICES ASSUME MarkRejected(j), Exists(j) PROVE row'[j] = Refused(FreshRow)
    OBVIOUS
  <2>1. row[j] = FreshRow /\ apiSeen[j] = FreshRow
    BY <1>0, ColumnsWritten DEF MarkRejected, Exists, JobInv, RequestOwns, InRequest
  <2>2. Commit(j, row[j], Refused(FreshRow)) /\ row \in [Jobs -> Row]
    BY <1>0, <2>1 DEF MarkRejected, TypeOK
  <2>3. row' = [row EXCEPT ![j] = Refused(FreshRow)]
    BY <2>2, CommitWrites, RowsWritten
  <2> QED
    BY <2>2, <2>3
<1>6. JobInv(j)' /\ RowKept(j)
  <2> USE <1>0, ColumnsWritten
  <2> USE DEF JobInv, RequestOwns, SnapshotsHold, AttemptsFollowRuns, WriterGone, FileFollows,
              StoryTold, RowKept, TypeOK, InRequest, InWorker, InTry, InHandler, Open, Settled
  <2>1. CASE RequestExport(j)
    BY <2>1 DEF RequestExport
  <2>2. CASE RequestVanishes(j)
    BY <2>2 DEF RequestVanishes
  <2>3. CASE Enqueue(j)
    BY <2>3 DEF Enqueue
  <2>4. CASE EnqueueFails(j)
    <3>1. UNCHANGED pc
      BY <2>4 DEF EnqueueFails, Undisputed
    <3> QED
      BY <2>4, <3>1 DEF EnqueueFails
  <2>5. CASE LoadRejected(j)
    BY <2>5 DEF LoadRejected, Exists
  <2>6. CASE MarkRejected(j)
    <3>1. Exists(j) => row'[j] = Refused(FreshRow)
      BY <2>6, <1>5
    <3>2. ~Exists(j) => row' = row
      BY <2>6 DEF MarkRejected
    <3> HIDE DEF Exists
    <3>3. /\ api' = [api EXCEPT ![j] = "done"] /\ api[j] = "marking"
          /\ apiSeen' = [apiSeen EXCEPT ![j] = NoRow]
          /\ UNCHANGED <<csv, stale, pc, retries, seen, boot, reap, runs, download>>
      BY <2>6 DEF MarkRejected
    <3>4. Exists(j) => row[j] = FreshRow
      BY <3>3 DEF Exists
    <3>5. /\ Refused(FreshRow).status = "failed" /\ Refused(FreshRow).attempts = 0
          /\ ~Refused(FreshRow).file /\ Refused(FreshRow).error = "queue"
          /\ Refused(FreshRow).finished
      BY RowsWritten
    <3>6. CASE Exists(j)
      BY <3>1, <3>3, <3>4, <3>5, <3>6
    <3>7. CASE ~Exists(j)
      BY <3>2, <3>3, <3>7 DEF Exists
    <3> QED
      BY <3>6, <3>7
  <2> QED
    BY <2>1, <2>2, <2>3, <2>4, <2>5, <2>6 DEF RequestStep
<1>7. \A k \in Jobs : RowKept(k)
  BY <1>2, <1>6 DEF RowKept, OnlyJob
<1>8. LettersFollow'
  BY <1>4, <1>7, LettersKept
<1> QED
  BY <1>1, <1>2, <1>3, <1>6, <1>7, <1>8, LocalStep

(* Where a worker's commit leads: the row is what the task assigned to the row *)
(* it had loaded, or there is no row.                                          *)
LEMMA TaskWrites ==
    ASSUME IInv, NEW d \in Delivery, d = Primary(JobOf(d))
    PROVE  /\ StartRun(d) /\ Exists(JobOf(d)) =>
                  row' = [row EXCEPT ![JobOf(d)] = Claimed(row[JobOf(d)], retries[d] + 1)]
           /\ Complete(d) /\ Exists(JobOf(d)) =>
                  row' = [row EXCEPT ![JobOf(d)] = Finished(row[JobOf(d)])]
           /\ GiveUp(d) /\ Exists(JobOf(d)) =>
                  row' = [row EXCEPT ![JobOf(d)] = GivenUp(row[JobOf(d)], retries[d] + 1)]
<1> DEFINE j == JobOf(d)
<1>1. /\ j \in Jobs /\ row \in [Jobs -> Row] /\ row[j] \in Row
      /\ retries[d] + 1 \in 0..MaxAttempts
  BY Deliveries, AttemptRange DEF IInv, TypeOK
<1>2. Exists(j) /\ pc[d] \in {"loaded", "written", "giveup"} => seen[d] = row[j]
  BY <1>1, ColumnsWritten DEF IInv, JobInv, SnapshotsHold, Exists
<1>3. /\ Claimed(row[j], retries[d] + 1) \in Row /\ Finished(row[j]) \in Row
      /\ GivenUp(row[j], retries[d] + 1) \in Row
  BY <1>1, RowsWritten
<1>4. ASSUME StartRun(d), Exists(j)
      PROVE  Commit(j, row[j], Claimed(row[j], retries[d] + 1))
  BY <1>2, <1>4 DEF StartRun
<1>5. ASSUME Complete(d), Exists(j) PROVE Commit(j, row[j], Finished(row[j]))
  BY <1>2, <1>5 DEF Complete
<1>6. ASSUME GiveUp(d), Exists(j)
      PROVE  Commit(j, row[j], GivenUp(row[j], retries[d] + 1))
  BY <1>2, <1>6 DEF GiveUp
<1> HIDE DEF j
<1>7. /\ StartRun(d) /\ Exists(j) => row' = [row EXCEPT ![j] = Claimed(row[j], retries[d] + 1)]
      /\ Complete(d) /\ Exists(j) => row' = [row EXCEPT ![j] = Finished(row[j])]
      /\ GiveUp(d) /\ Exists(j) => row' = [row EXCEPT ![j] = GivenUp(row[j], retries[d] + 1)]
  BY <1>1, <1>3, <1>4, <1>5, <1>6, CommitWrites
<1> QED
  BY <1>7 DEF j

(* A worker moves only a message that was sent. *)
LEMMA TaskSent ==
    ASSUME NEW d \in Delivery, TaskStep(d) \/ WorkerCrash(d)
    PROVE  pc[d] # "unsent"
  BY DEF TaskStep, Fetch, LoadJob, LoadMissing, StartRun, ReloadJob, OpenCsv, CloseCsv, Complete,
         Raise, Retry, RetryLost, GiveUpLoad, GiveUp, Bury, HandlerError, WorkerCrash,
         InTry, InHandler, InWorker

(* A worker's step touches its own delivery and its own job. *)
LEMMA TaskLocal ==
    ASSUME IInv, NEW d \in Delivery, d = Primary(JobOf(d)), TaskStep(d) \/ WorkerCrash(d)
    PROVE  /\ OnlyJob(JobOf(d)) /\ OneDelivery'
           /\ UNCHANGED <<stale, api, apiSeen, boot, reap, download>>
<1>1. TypeOK /\ OneDelivery /\ \A k \in Jobs \ {JobOf(d)} : Primary(k) \in Delivery /\ Primary(k) # d
  BY Deliveries, PrimaryDiffers DEF IInv
<1>2. UNCHANGED <<stale, api, apiSeen, boot, reap, download>>
  BY DEF TaskStep, Fetch, LoadJob, LoadMissing, StartRun, ReloadJob, OpenCsv, CloseCsv, Complete,
         Raise, Retry, RetryLost, GiveUpLoad, GiveUp, Bury, HandlerError, WorkerCrash,
         Elsewhere, requestVars, bootVars
<1>3. \A e \in Delivery \ {d} : pc'[e] = pc[e] /\ retries'[e] = retries[e] /\ seen'[e] = seen[e]
  BY <1>1 DEF TypeOK, TaskStep, Fetch, LoadJob, LoadMissing, StartRun, ReloadJob, OpenCsv, CloseCsv,
         Complete, Raise, Retry, RetryLost, GiveUpLoad, GiveUp, Bury, HandlerError, WorkerCrash,
         To, See, Ends, Fails
<1>4. \A k \in Jobs \ {JobOf(d)} : row'[k] = row[k] /\ csv'[k] = csv[k] /\ runs'[k] = runs[k]
  BY <1>1 DEF TypeOK, TaskStep, Fetch, LoadJob, LoadMissing, StartRun, ReloadJob, OpenCsv, CloseCsv,
         Complete, Raise, Retry, RetryLost, GiveUpLoad, GiveUp, Bury, HandlerError, WorkerCrash,
         Commit
<1> QED
  BY <1>1, <1>2, <1>3, <1>4 DEF OnlyJob, OneDelivery, TypeOK

(* A worker's step preserves the invariant of its job and keeps the job's row. *)
LEMMA TaskJob ==
    ASSUME IInv, NEW d \in Delivery, TaskStep(d) \/ WorkerCrash(d),
           NEW j \in Jobs, j = JobOf(d), d = Primary(j), TypeOK'
    PROVE  JobInv(j)' /\ RowKept(j)
<1>0. /\ TypeOK /\ JobInv(j) /\ api[j] = "done" /\ row[j] \in Row
      /\ retries[d] + 1 \in 0..MaxAttempts /\ pc[d] # "unsent"
      /\ UNCHANGED <<stale, api, apiSeen, boot, reap, download>>
  BY TaskSent, TaskLocal, AttemptRange DEF IInv, TypeOK, JobInv, RequestOwns
<1>1. /\ StartRun(d) /\ Exists(j) => row' = [row EXCEPT ![j] = Claimed(row[j], retries[d] + 1)]
      /\ Complete(d) /\ Exists(j) => row' = [row EXCEPT ![j] = Finished(row[j])]
      /\ GiveUp(d) /\ Exists(j) => row' = [row EXCEPT ![j] = GivenUp(row[j], retries[d] + 1)]
  BY TaskWrites
<1>2. Exists(j) <=> row[j] # NoRow
  BY <1>0, ColumnsWritten DEF JobInv, StoryTold, Exists
<1>3. pc[d] \notin {"unsent", "bury", "ended"} =>
          row[j] = NoRow \/ (row[j].status \in Open /\ row[j].error = "none")
  <2>1. row[j].status \in Open \cup Settled \cup {"absent"}
    BY <1>0 DEF Row
  <2> QED
    BY <1>0, <2>1 DEF JobInv, WriterGone, StoryTold, Open, Settled
<1> USE <1>0, <1>2, <1>3, ColumnsWritten
<1> USE DEF JobInv, RequestOwns, SnapshotsHold, AttemptsFollowRuns, WriterGone, FileFollows,
            StoryTold, RowKept, TypeOK, InRequest, InWorker, InTry, InHandler, Open, Settled,
            To, See, Ends, Fails
<1>4. CASE Fetch(d)
  <2>1. /\ pc[d] = "queued" /\ pc'[d] = "fetched" /\ runs'[j] = runs[j] + 1
        /\ UNCHANGED <<row, csv, retries, seen>>
    BY <1>4 DEF Fetch
  <2>2. RequestOwns(j)' /\ SnapshotsHold(j)' /\ WriterGone(j)' /\ RowKept(j)
    BY <2>1
  <2>3. AttemptsFollowRuns(j)'
    BY <2>1
  <2>4. FileFollows(j)'
    BY <2>1
  <2>5. StoryTold(j)'
    BY <2>1
  <2> QED
    BY <2>2, <2>3, <2>4, <2>5
<1>5. CASE LoadJob(d)
  BY <1>5 DEF LoadJob
<1>6. CASE LoadMissing(d)
  BY <1>6 DEF LoadMissing
<1>7. CASE StartRun(d)
  <2>1. \/ /\ pc[d] = "loaded" /\ pc'[d] = "started" /\ row[j] # NoRow
           /\ row'[j] = Claimed(row[j], retries[d] + 1)
           /\ UNCHANGED <<csv, retries, seen, runs>>
        \/ /\ pc[d] = "loaded" /\ pc'[d] = "started" /\ row[j] = NoRow
           /\ UNCHANGED <<row, csv, retries, seen, runs>>
        \/ /\ pc[d] = "loaded" /\ pc'[d] = "except" /\ row[j] = NoRow /\ seen'[d] = NoRow
           /\ UNCHANGED <<row, csv, retries, runs>>
    BY <1>7, <1>1 DEF StartRun
  <2>2. RequestOwns(j)' /\ SnapshotsHold(j)' /\ WriterGone(j)' /\ RowKept(j)
    BY <2>1
  <2>3. AttemptsFollowRuns(j)'
    BY <2>1
  <2>4. FileFollows(j)'
    BY <2>1
  <2>5. StoryTold(j)'
    BY <2>1
  <2> QED
    BY <2>2, <2>3, <2>4, <2>5
<1>8. CASE ReloadJob(d)
  BY <1>8 DEF ReloadJob
<1>9. CASE OpenCsv(d)
  BY <1>9 DEF OpenCsv
<1>10. CASE CloseCsv(d)
  <2>1. \A e \in Delivery \ {d} : JobOf(e) = j => pc[e] = "unsent"
    BY DEF IInv, OneDelivery
  <2>2. /\ pc[d] = "writing" /\ pc'[d] = "written" /\ csv'[j] = "whole"
        /\ UNCHANGED <<row, retries, seen, runs>>
    BY <1>10, <2>1 DEF CloseCsv
  <2> QED
    BY <2>2
<1>11. CASE Complete(d)
  BY <1>11, <1>1 DEF Complete
<1>12. CASE Raise(d)
  <2>1. /\ pc[d] \in InTry /\ pc'[d] = "except" /\ seen'[d] = NoRow
        /\ UNCHANGED <<row, csv, retries, runs>>
    BY <1>12 DEF Raise
  <2>2. row[j].attempts <= retries[d] + 1
    BY <2>1 DEF Row
  <2>3. RequestOwns(j)' /\ SnapshotsHold(j)' /\ WriterGone(j)' /\ RowKept(j)
    BY <2>1
  <2>4. AttemptsFollowRuns(j)'
    BY <2>1, <2>2
  <2>5. FileFollows(j)' /\ StoryTold(j)'
    BY <2>1
  <2> QED
    BY <2>3, <2>4, <2>5
<1>13. CASE Retry(d)
  <2>1. /\ pc[d] = "except" /\ pc'[d] = "queued" /\ retries'[d] = retries[d] + 1
        /\ UNCHANGED <<row, csv, seen, runs>>
    BY <1>13 DEF Retry
  <2>2. RequestOwns(j)' /\ SnapshotsHold(j)' /\ WriterGone(j)' /\ RowKept(j)
    BY <2>1
  <2>3. AttemptsFollowRuns(j)'
    BY <2>1
  <2>4. FileFollows(j)'
    BY <2>1
  <2>5. StoryTold(j)'
    BY <2>1
  <2> QED
    BY <2>2, <2>3, <2>4, <2>5
<1>14. CASE RetryLost(d)
  BY <1>14 DEF RetryLost
<1>15. CASE GiveUpLoad(d)
  BY <1>15 DEF GiveUpLoad, LastAttempt
<1>16. CASE GiveUp(d)
  <2>1. \/ /\ pc[d] = "giveup" /\ pc'[d] = "bury" /\ row[j] # NoRow
           /\ row'[j] = GivenUp(row[j], retries[d] + 1)
           /\ UNCHANGED <<csv, retries, seen, runs>>
        \/ /\ pc[d] = "giveup" /\ pc'[d] = "ended" /\ row[j] = NoRow /\ seen'[d] = NoRow
           /\ retries'[d] = 0 /\ UNCHANGED <<row, csv, runs>>
    BY <1>16, <1>1 DEF GiveUp
  <2>2. RequestOwns(j)' /\ SnapshotsHold(j)' /\ WriterGone(j)' /\ RowKept(j)
    BY <2>1
  <2>3. AttemptsFollowRuns(j)'
    BY <2>1
  <2>4. FileFollows(j)'
    BY <2>1
  <2>5. StoryTold(j)'
    BY <2>1
  <2> QED
    BY <2>2, <2>3, <2>4, <2>5
<1>17. CASE Bury(d)
  BY <1>17 DEF Bury
<1>18. CASE HandlerError(d)
  BY <1>18 DEF HandlerError
<1>19. CASE WorkerCrash(d)
  BY <1>19 DEF WorkerCrash
<1> QED
  BY <1>4, <1>5, <1>6, <1>7, <1>8, <1>9, <1>10, <1>11, <1>12, <1>13, <1>14, <1>15, <1>16, <1>17,
     <1>18, <1>19 DEF TaskStep

(* A letter about a job that failed for good, or is gone, fits the others. *)
LEMMA PushedLetter ==
    ASSUME LettersFollow, row' = row, api' = api, NEW j \in Jobs, api[j] = "done",
           NEW again \in BOOLEAN, again => row[j] = NoRow \/ row[j].error = "task",
           dlq' = dlq \cup {[job |-> j, retryable |-> again]}
    PROVE  LettersFollow'
<1> DEFINE Good(m) == /\ api[m.job] = "done"
                      /\ m.retryable => row[m.job] = NoRow \/ row[m.job].error = "task"
<1>1. \A m \in dlq : Good(m)
  BY DEF LettersFollow
<1>2. Good([job |-> j, retryable |-> again])
  OBVIOUS
<1> HIDE DEF Good
<1>3. \A m \in dlq' : Good(m)
  BY <1>1, <1>2
<1> QED
  BY <1>3 DEF LettersFollow, Good

(* A worker's step preserves the invariant. *)
LEMMA TaskInvariant ==
    ASSUME IInv, NEW d \in Delivery, TaskStep(d) \/ WorkerCrash(d)
    PROVE  IInv' /\ \A k \in Jobs : RowKept(k)
<1> DEFINE j == JobOf(d)
<1>1. TypeOK'
  BY TaskType DEF IInv
<1>2. j \in Jobs /\ d = Primary(j) /\ api[j] = "done"
  BY TaskSent, Deliveries DEF IInv, OneDelivery, TypeOK, JobInv, RequestOwns
<1>3. OnlyJob(j) /\ OneDelivery' /\ UNCHANGED api
  BY <1>2, TaskLocal
<1>4. JobInv(j)' /\ RowKept(j)
  BY <1>1, <1>2, TaskJob
<1>5. \A k \in Jobs : RowKept(k)
  BY <1>3, <1>4 DEF RowKept, OnlyJob
<1>6. LettersFollow'
  <2>1. CASE dlq' = dlq
    BY <2>1, <1>3, <1>5, LettersKept
  <2>2. CASE dlq' # dlq
    <3>1. \/ dlq' = dlq \cup {[job |-> j, retryable |-> TRUE]} /\ pc[d] = "bury"
          \/ dlq' = dlq \cup {[job |-> j, retryable |-> FALSE]}
      BY <2>2 DEF TaskStep, Fetch, LoadJob, LoadMissing, StartRun, ReloadJob, OpenCsv, CloseCsv,
         Complete, Raise, Retry, RetryLost, GiveUpLoad, GiveUp, Bury, HandlerError, WorkerCrash, Push
    <3>2. row' = row \/ dlq' = dlq
      BY DEF TaskStep, Fetch, LoadJob, LoadMissing, StartRun, ReloadJob, OpenCsv, CloseCsv,
         Complete, Raise, Retry, RetryLost, GiveUpLoad, GiveUp, Bury, HandlerError, WorkerCrash
    <3>3. pc[d] = "bury" => row[j] = NoRow \/ row[j].error = "task"
      BY <1>2 DEF IInv, JobInv, WriterGone
    <3>4. \A m \in dlq : /\ api[m.job] = "done"
                          /\ m.retryable => row[m.job] = NoRow \/ row[m.job].error = "task"
      BY DEF IInv, LettersFollow
    <3>5. row' = row /\ api' = api
      BY <1>3, <2>2, <3>2
    <3> HIDE DEF j
    <3> QED
      BY <1>2, <3>1, <3>3, <3>5, PushedLetter DEF IInv
  <2> QED
    BY <2>1, <2>2
<1> QED
  BY <1>1, <1>2, <1>3, <1>4, <1>5, <1>6, LocalStep

(* So do restarts, deletions, downloads and the clock. *)
LEMMA OtherInvariant ==
    ASSUME IInv, Undisputed,
           \/ BootStep \/ ApiCrash
           \/ \E j \in Jobs : Age(j) \/ DownloadCheck(j) \/ DownloadServe(j)
           \/ \E p \in Parents : DeleteParent(p)
    PROVE  IInv' /\ \A k \in Jobs : RowKept(k)
<1>1. TypeOK' /\ TypeOK
  BY OtherType DEF IInv
<1>2. UNCHANGED <<pc, retries, seen, dlq, runs, csv>>
  BY DEF BootStep, RecoverLoad, RecoverCommit, RecoverSkip, ApiCrash, Age, DownloadCheck,
     DownloadServe, DeleteParent, taskVars
<1>3. OneDelivery'
  BY <1>2 DEF IInv, OneDelivery
<1>4. \A j \in Jobs : api[j] = "done" => api'[j] = "done"
  BY <1>1 DEF BootStep, RecoverLoad, RecoverCommit, RecoverSkip, ApiCrash, Age, DownloadCheck,
     DownloadServe, DeleteParent, requestVars, InRequest, TypeOK
<1>5. ASSUME NEW j \in Jobs PROVE JobInv(j)' /\ RowKept(j)
  <2>0. /\ JobInv(j) /\ row[j] \in Row /\ reap[j] \in Row /\ Primary(j) \in Delivery
        /\ JobOf(Primary(j)) = j
    BY <1>1, Deliveries DEF IInv, TypeOK
  <2> USE <2>0, <1>1, <1>2, ColumnsWritten
  <2> USE DEF JobInv, RequestOwns, SnapshotsHold, AttemptsFollowRuns, WriterGone, FileFollows,
              StoryTold, RowKept, TypeOK, InRequest, InWorker, InTry, InHandler, Open, Settled,
              requestVars, taskVars, bootVars
  <2>1. CASE RecoverLoad
    BY <2>1 DEF RecoverLoad, Stranded
  <2>2. CASE RecoverCommit
    <3>1. reap[j] # NoRow => row'[j] = Abandoned(row[j])
      BY <2>2, UncontestedCommit, RowsWritten DEF RecoverCommit
    <3>2. reap[j] = NoRow => row'[j] = row[j]
      BY <2>2 DEF RecoverCommit
    <3> QED
      BY <2>2, <3>1, <3>2 DEF RecoverCommit
  <2>3. CASE RecoverSkip
    BY <2>3 DEF RecoverSkip
  <2>4. CASE ApiCrash
    BY <2>4 DEF ApiCrash
  <2>5. ASSUME NEW k \in Jobs, Age(k) PROVE JobInv(j)' /\ RowKept(j)
    BY <2>5, Deliveries DEF Age, Undisputed, Live, Exists
  <2>6. ASSUME NEW k \in Jobs, DownloadCheck(k) \/ DownloadServe(k)
        PROVE  JobInv(j)' /\ RowKept(j)
    BY <2>6 DEF DownloadCheck, DownloadServe
  <2>7. ASSUME NEW p \in Parents, DeleteParent(p) PROVE JobInv(j)' /\ RowKept(j)
    BY <2>7 DEF DeleteParent
  <2> QED
    BY <2>1, <2>2, <2>3, <2>4, <2>5, <2>6, <2>7 DEF BootStep
<1>6. LettersFollow'
  BY <1>2, <1>4, <1>5, LettersKept
<1> QED
  BY <1>1, <1>3, <1>5, <1>6 DEF IInv

(* Every step preserves the invariant, settles no row twice, revives none. *)
LEMMA StepInvariant ==
    ASSUME IInv, Undisputed, [Next]_vars
    PROVE  IInv' /\ \A k \in Jobs : RowKept(k)
<1>1. CASE UNCHANGED vars
  <2> USE <1>1 DEF vars, taskVars, requestVars, bootVars
  <2>1. TypeOK' /\ OneDelivery' /\ LettersFollow'
    BY DEF IInv, TypeOK, OneDelivery, LettersFollow
  <2>2. \A j \in Jobs : JobInv(j)'
    BY Frame DEF IInv
  <2> QED
    BY <2>1, <2>2 DEF IInv, RowKept
<1>2. ASSUME NEW d \in Delivery, NEW e \in Delivery, Duplicate(d, e) PROVE FALSE
  BY <1>2 DEF Duplicate, Undisputed
<1> QED
  BY <1>1, <1>2, RequestInvariant, TaskInvariant, OtherInvariant DEF Next

(* The invariant holds in every undisputed instance. *)
THEOREM InvariantHolds == Undisputed /\ Spec => []IInv
<1> SUFFICES ASSUME Undisputed PROVE Spec => []IInv
  OBVIOUS
<1>1. IInv /\ [Next]_vars => IInv'
  BY StepInvariant
<1> QED
  BY InitInvariant, <1>1, PTL DEF Spec

-----------------------------------------------------------------------------
(* What the invariant is for.                                              *)

(* The invariant's parts say what the properties of ExportJobs say. *)
LEMMA InvariantImplies ==
    ASSUME IInv
    PROVE  RowTellsOneStory /\ NotSettledWhileLive /\ WholeFile /\ AttemptsCountRuns
           /\ DeadLetterMatchesRow
<1>1. \A j \in Jobs : JobInv(j)
  BY DEF IInv
<1>2. RowTellsOneStory /\ AttemptsCountRuns /\ WholeFile
  BY <1>1 DEF RowTellsOneStory, AttemptsCountRuns, WholeFile, JobInv, StoryTold, FileFollows
<1>3. NotSettledWhileLive
  <2>1. ASSUME NEW j \in Jobs, NEW d \in Delivery, JobOf(d) = j, row[j].status \in Settled
        PROVE  pc[d] \in {"unsent", "bury", "ended"}
    BY <1>1, <2>1 DEF JobInv, WriterGone, IInv, OneDelivery
  <2> QED
    BY <1>1, <2>1 DEF NotSettledWhileLive, JobInv, WriterGone
<1>4. DeadLetterMatchesRow
  BY ColumnsWritten DEF IInv, LettersFollow, DeadLetterMatchesRow, Exists
<1> QED
  BY <1>2, <1>3, <1>4

(* What a poll shows is never a mixture of two outcomes (the columns one   *)
(* session leaves and another session sets).                               *)
THEOREM OneStory == Undisputed /\ Spec => []RowTellsOneStory
  BY InvariantHolds, InvariantImplies, PTL

(* No client sees a settled job that the API, the broker or a worker is    *)
(* still going to work on.                                                 *)
THEOREM NotSettledEarly == Undisputed /\ Spec => []NotSettledWhileLive
  BY InvariantHolds, InvariantImplies, PTL

(* Completed jobs and admitted downloads have a whole file.                *)
THEOREM FilesWhole == Undisputed /\ Spec => []WholeFile
  BY InvariantHolds, InvariantImplies, PTL

(* The attempts column counts the runs of the task.                        *)
THEOREM AttemptsCounted == Undisputed /\ Spec => []AttemptsCountRuns
  BY InvariantHolds, InvariantImplies, PTL

(* The dead-letter list and the table agree about the jobs given up on.    *)
THEOREM LettersMatch == Undisputed /\ Spec => []DeadLetterMatchesRow
  BY InvariantHolds, InvariantImplies, PTL

(* Without competitors nothing at all writes a settled row any more.       *)
THEOREM SettledOnce ==
    Undisputed /\ Spec =>
        [][\A j \in Jobs : row[j].status \in Settled => row'[j] \in {row[j], NoRow}]_vars
<1> SUFFICES ASSUME Undisputed
             PROVE  Spec => [][\A j \in Jobs : row[j].status \in Settled
                                                  => row'[j] \in {row[j], NoRow}]_vars
  OBVIOUS
<1>1. IInv /\ [Next]_vars =>
        [\A j \in Jobs : row[j].status \in Settled => row'[j] \in {row[j], NoRow}]_vars
  BY StepInvariant DEF RowKept
<1> QED
  BY <1>1, InvariantHolds, PTL DEF Spec

(* A step that touches neither a row nor the start of a request is a stutter *)
(* of the contract.                                                          *)
LEMMA ContractStutter ==
    ASSUME row' = row, \A j \in Jobs : api'[j] = "idle" <=> api[j] = "idle"
    PROVE  UNCHANGED Contract!cvars
  BY DEF Contract!cvars, Shown, Counted, StatusOf, Exists

(* What a client sees of a step that writes one existing row. *)
LEMMA ShownUpdate ==
    ASSUME NEW j \in Jobs, NEW r \in Row, r.status # "absent",
           row \in [Jobs -> Row], row' = [row EXCEPT ![j] = r],
           \A k \in Jobs \ {j} : api'[k] = "idle" <=> api[k] = "idle"
    PROVE  /\ Shown' = [Shown EXCEPT ![j] = r.status]
           /\ Counted' = [Counted EXCEPT ![j] = r.attempts]
           /\ r.attempts = row[j].attempts => Counted' = Counted
           /\ Counted[j] = row[j].attempts
           /\ Exists(j) => Shown[j] = row[j].status
           /\ ~Exists(j) /\ api[j] = "idle" => Shown[j] = "unrequested"
<1>1. \A k \in Jobs : row'[k] = IF k = j THEN r ELSE row[k]
  OBVIOUS
<1>2. \A k \in Jobs : StatusOf(k)' = IF k = j THEN r.status ELSE StatusOf(k)
  BY <1>1 DEF StatusOf, Exists
<1>3. Shown' = [Shown EXCEPT ![j] = r.status]
  BY <1>2 DEF Shown
<1>4. Counted' = [Counted EXCEPT ![j] = r.attempts]
  BY <1>1 DEF Counted
<1>5. r.attempts = row[j].attempts => Counted' = Counted
  BY <1>1 DEF Counted
<1>6. /\ Counted[j] = row[j].attempts
      /\ Exists(j) => Shown[j] = row[j].status
      /\ ~Exists(j) /\ api[j] = "idle" => Shown[j] = "unrequested"
  BY DEF Counted, Shown, StatusOf
<1> QED
  BY <1>3, <1>4, <1>5, <1>6

(* What a client sees of a step that writes a set of rows alike. *)
LEMMA ShownMany ==
    ASSUME NEW S \in SUBSET Jobs, NEW word,
           row \in [Jobs -> Row], row' \in [Jobs -> Row],
           \A k \in Jobs : api'[k] = "idle" <=> api[k] = "idle",
           \A k \in Jobs \ S : row'[k] = row[k],
           \A k \in S : StatusOf(k)' = word
    PROVE  /\ Shown' = [k \in Jobs |-> IF k \in S THEN word ELSE Shown[k]]
           /\ Counted' = [k \in Jobs |-> IF k \in S THEN row'[k].attempts ELSE Counted[k]]
<1>1. \A k \in Jobs : StatusOf(k)' = IF k \in S THEN word ELSE StatusOf(k)
  BY DEF StatusOf, Exists
<1>2. Shown' = [k \in Jobs |-> IF k \in S THEN word ELSE Shown[k]]
  BY <1>1 DEF Shown
<1>3. Counted' = [k \in Jobs |-> IF k \in S THEN row'[k].attempts ELSE Counted[k]]
  BY DEF Counted
<1> QED
  BY <1>2, <1>3

(* A request's steps are steps of the contract. *)
LEMMA ContractRequest ==
    ASSUME IInv, Undisputed, NEW j \in Jobs, RequestExport(j) \/ RequestStep(j)
    PROVE  [Contract!CNext]_(Contract!cvars)
<1>0. TypeOK /\ JobInv(j)
  BY DEF IInv
<1>1. CASE RequestExport(j)
  <2>1. /\ row' = [row EXCEPT ![j] = FreshRow] /\ api' = [api EXCEPT ![j] = "created"]
        /\ api[j] = "idle" /\ row[j] = NoRow
    BY <1>0, <1>1 DEF RequestExport, JobInv, RequestOwns
  <2>2. Contract!Request(j)
    <3>1. \A k \in Jobs \ {j} : api'[k] = "idle" <=> api[k] = "idle"
      BY <1>0, <2>1 DEF TypeOK
    <3>2. row \in [Jobs -> Row] /\ ~Exists(j) /\ FreshRow.attempts = row[j].attempts
      BY <1>0, <2>1, ColumnsWritten DEF TypeOK, Exists
    <3>3. /\ Shown' = [Shown EXCEPT ![j] = "pending"] /\ Counted' = Counted
          /\ Shown[j] = "unrequested"
      <4>1. PICK r \in Row : r = FreshRow
        BY RowsWritten
      <4>2. /\ r.status = "pending" /\ r.status # "absent" /\ r.attempts = row[j].attempts
            /\ row' = [row EXCEPT ![j] = r]
        BY <2>1, <3>2, <4>1, ColumnsWritten
      <4>3. /\ Shown' = [Shown EXCEPT ![j] = r.status]
            /\ r.attempts = row[j].attempts => Counted' = Counted
            /\ Shown[j] = "unrequested"
        BY <2>1, <3>1, <3>2, <4>2, ShownUpdate
      <4> QED
        BY <4>2, <4>3
    <3> QED
      BY <2>1, <3>3 DEF Contract!Request
  <2> QED
    BY <2>2 DEF Contract!CNext
<1>2. CASE RequestVanishes(j) \/ Enqueue(j) \/ EnqueueFails(j) \/ LoadRejected(j)
  <2>1. row' = row /\ \A k \in Jobs : api'[k] = "idle" <=> api[k] = "idle"
    BY <1>0, <1>2 DEF RequestVanishes, Enqueue, EnqueueFails, LoadRejected, RequestEnds, TypeOK
  <2> QED
    BY <2>1, ContractStutter
<1>3. CASE MarkRejected(j)
  <2>1. \A k \in Jobs : api'[k] = "idle" <=> api[k] = "idle"
    BY <1>0, <1>3 DEF MarkRejected, RequestEnds, TypeOK
  <2>2. CASE Exists(j)
    <3>1. row[j] = FreshRow /\ apiSeen[j] = FreshRow
      BY <1>0, <1>3, <2>2, ColumnsWritten DEF MarkRejected, Exists, JobInv, RequestOwns, InRequest
    <3>2. Commit(j, row[j], Refused(FreshRow)) /\ row \in [Jobs -> Row]
      BY <1>0, <1>3, <2>2, <3>1 DEF MarkRejected, TypeOK
    <3>3. row' = [row EXCEPT ![j] = Refused(FreshRow)]
      BY <3>2, CommitWrites, RowsWritten
    <3>4. Contract!Fail(j, 0)
      <4>1. /\ Shown' = [Shown EXCEPT ![j] = "failed"]
            /\ Counted' = [Counted EXCEPT ![j] = 0]
            /\ Shown[j] = "pending" /\ Counted[j] = 0
        <5>1. PICK r \in Row : r = Refused(FreshRow)
          BY RowsWritten
        <5>2. /\ r.status = "failed" /\ r.status # "absent" /\ r.attempts = 0
              /\ row' = [row EXCEPT ![j] = r]
          BY <3>3, <5>1, ColumnsWritten, RowsWritten
        <5>3. row[j].status = "pending" /\ row[j].attempts = 0
          BY <3>1, ColumnsWritten
        <5>4. \A k \in Jobs \ {j} : api'[k] = "idle" <=> api[k] = "idle"
          BY <2>1
        <5>5. /\ Shown' = [Shown EXCEPT ![j] = r.status]
              /\ Counted' = [Counted EXCEPT ![j] = r.attempts]
              /\ Shown[j] = row[j].status /\ Counted[j] = row[j].attempts
          BY <2>2, <3>2, <5>2, <5>4, ShownUpdate
        <5> QED
          BY <5>2, <5>3, <5>5
      <4> QED
        BY <4>1 DEF Contract!Fail, Contract!Open
    <3> QED
      BY <3>4, AttemptsAssumption DEF Contract!CNext
  <2>3. CASE ~Exists(j)
    BY <1>3, <2>1, <2>3, ContractStutter DEF MarkRejected
  <2> QED
    BY <2>2, <2>3
<1> QED
  BY <1>1, <1>2, <1>3 DEF RequestStep

(* A worker's steps are steps of the contract. *)
LEMMA ContractTask ==
    ASSUME IInv, NEW d \in Delivery, TaskStep(d) \/ WorkerCrash(d)
    PROVE  [Contract!CNext]_(Contract!cvars)
<1> DEFINE j == JobOf(d)
<1>0. /\ TypeOK /\ JobInv(j) /\ j \in Jobs /\ d = Primary(j) /\ api[j] = "done"
      /\ row[j] \in Row /\ retries[d] + 1 \in 0..MaxAttempts
  BY TaskSent, Deliveries, AttemptRange DEF IInv, OneDelivery, TypeOK, JobInv, RequestOwns
<1>1. UNCHANGED api /\ row' \in [Jobs -> Row]
  BY <1>0, TaskLocal, TaskType DEF IInv, TypeOK
<1>2. CASE row' = row
  BY <1>1, <1>2, ContractStutter
<1>3. CASE StartRun(d) /\ Exists(j)
  <2>1. row' = [row EXCEPT ![j] = Claimed(row[j], retries[d] + 1)]
    BY <1>0, <1>3, TaskWrites
  <2>2. row[j].status \in Open /\ row[j].attempts < retries[d] + 1
    BY <1>0, <1>3 DEF StartRun, JobInv, WriterGone, AttemptsFollowRuns, Row, Exists, TypeOK
  <2> HIDE DEF j
  <2>3. Contract!Begin(j, retries[d] + 1)
    <3>1. /\ Shown' = [Shown EXCEPT ![j] = "running"]
          /\ Counted' = [Counted EXCEPT ![j] = retries[d] + 1]
          /\ Shown[j] = row[j].status /\ Counted[j] = row[j].attempts
      <4>1. PICK r \in Row : r = Claimed(row[j], retries[d] + 1)
        BY <1>0, RowsWritten
      <4>2. /\ r.status = "running" /\ r.status # "absent" /\ r.attempts = retries[d] + 1
            /\ row' = [row EXCEPT ![j] = r]
        BY <1>0, <2>1, <4>1, ColumnsWritten
      <4>3. row \in [Jobs -> Row] /\ Exists(j)
        BY <1>0, <1>3 DEF TypeOK, j
      <4>4. \A k \in Jobs \ {j} : api'[k] = "idle" <=> api[k] = "idle"
        BY <1>1
      <4>5. /\ Shown' = [Shown EXCEPT ![j] = r.status]
            /\ Counted' = [Counted EXCEPT ![j] = r.attempts]
            /\ r.attempts = row[j].attempts => Counted' = Counted
            /\ Shown[j] = row[j].status /\ Counted[j] = row[j].attempts
        BY <1>0, <4>2, <4>3, <4>4, ShownUpdate
      <4> QED
        BY <4>2, <4>5
    <3> QED
      BY <2>2, <3>1 DEF Contract!Begin, Contract!Open, Open
  <2> QED
    BY <1>0, <2>3 DEF Contract!CNext
<1>4. CASE Complete(d) /\ Exists(j)
  <2>1. row' = [row EXCEPT ![j] = Finished(row[j])]
    BY <1>0, <1>4, TaskWrites
  <2>2. row[j].status = "running"
    BY <1>0, <1>4, ColumnsWritten DEF Complete, JobInv, AttemptsFollowRuns, Exists
  <2> HIDE DEF j
  <2>3. Contract!Succeed(j)
    <3>1. /\ Shown' = [Shown EXCEPT ![j] = "completed"] /\ Counted' = Counted
          /\ Shown[j] = row[j].status
      <4>1. PICK r \in Row : r = Finished(row[j])
        BY <1>0, RowsWritten
      <4>2. /\ r.status = "completed" /\ r.status # "absent" /\ r.attempts = row[j].attempts
            /\ row' = [row EXCEPT ![j] = r]
        BY <1>0, <2>1, <4>1, ColumnsWritten
      <4>3. row \in [Jobs -> Row] /\ Exists(j)
        BY <1>0, <1>4 DEF TypeOK, j
      <4>4. \A k \in Jobs \ {j} : api'[k] = "idle" <=> api[k] = "idle"
        BY <1>1
      <4>5. /\ Shown' = [Shown EXCEPT ![j] = r.status]
            /\ Counted' = [Counted EXCEPT ![j] = r.attempts]
            /\ r.attempts = row[j].attempts => Counted' = Counted
            /\ Shown[j] = row[j].status /\ Counted[j] = row[j].attempts
        BY <1>0, <4>2, <4>3, <4>4, ShownUpdate
      <4> QED
        BY <4>2, <4>5
    <3> QED
      BY <2>2, <3>1 DEF Contract!Succeed
  <2> QED
    BY <1>0, <2>3 DEF Contract!CNext
<1>5. CASE GiveUp(d) /\ Exists(j)
  <2>1. row' = [row EXCEPT ![j] = GivenUp(row[j], retries[d] + 1)]
    BY <1>0, <1>5, TaskWrites
  <2>2. row[j].status \in Open /\ row[j].attempts <= retries[d] + 1
    BY <1>0, <1>5 DEF GiveUp, JobInv, WriterGone, AttemptsFollowRuns, Row, Exists, TypeOK
  <2> HIDE DEF j
  <2>3. Contract!Fail(j, retries[d] + 1)
    <3>1. /\ Shown' = [Shown EXCEPT ![j] = "failed"]
          /\ Counted' = [Counted EXCEPT ![j] = retries[d] + 1]
          /\ Shown[j] = row[j].status /\ Counted[j] = row[j].attempts
      <4>1. PICK r \in Row : r = GivenUp(row[j], retries[d] + 1)
        BY <1>0, RowsWritten
      <4>2. /\ r.status = "failed" /\ r.status # "absent" /\ r.attempts = retries[d] + 1
            /\ row' = [row EXCEPT ![j] = r]
        BY <1>0, <2>1, <4>1, ColumnsWritten
      <4>3. row \in [Jobs -> Row] /\ Exists(j)
        BY <1>0, <1>5 DEF TypeOK, j
      <4>4. \A k \in Jobs \ {j} : api'[k] = "idle" <=> api[k] = "idle"
        BY <1>1
      <4>5. /\ Shown' = [Shown EXCEPT ![j] = r.status]
            /\ Counted' = [Counted EXCEPT ![j] = r.attempts]
            /\ r.attempts = row[j].attempts => Counted' = Counted
            /\ Shown[j] = row[j].status /\ Counted[j] = row[j].attempts
        BY <1>0, <4>2, <4>3, <4>4, ShownUpdate
      <4> QED
        BY <4>2, <4>5
    <3> QED
      BY <2>2, <3>1 DEF Contract!Fail, Contract!Open, Open
  <2> QED
    BY <1>0, <2>3 DEF Contract!CNext
<1> QED
  BY <1>2, <1>3, <1>4, <1>5
  DEF TaskStep, Fetch, LoadJob, LoadMissing, StartRun, ReloadJob, OpenCsv, CloseCsv, Complete,
      Raise, Retry, RetryLost, GiveUpLoad, GiveUp, Bury, HandlerError, WorkerCrash

(* Restarts, deletions, downloads and the clock are steps of the contract. *)
LEMMA ContractOther ==
    ASSUME IInv,
           \/ BootStep \/ ApiCrash
           \/ \E j \in Jobs : Age(j) \/ DownloadCheck(j) \/ DownloadServe(j)
           \/ \E p \in Parents : DeleteParent(p)
    PROVE  [Contract!CNext]_(Contract!cvars)
<1>0. TypeOK /\ TypeOK' /\ \A j \in Jobs : JobInv(j) /\ row[j] \in Row
  BY OtherType DEF IInv, TypeOK
<1>1. row \in [Jobs -> Row] /\ row' \in [Jobs -> Row]
  BY <1>0 DEF TypeOK
<1>2. \A j \in Jobs : api'[j] = "idle" <=> api[j] = "idle"
  BY <1>0 DEF BootStep, RecoverLoad, RecoverCommit, RecoverSkip, ApiCrash, Age, DownloadCheck,
     DownloadServe, DeleteParent, requestVars, InRequest, TypeOK
<1>3. CASE row' = row
  BY <1>2, <1>3, ContractStutter
<1>4. CASE RecoverCommit
  <2>0. PICK S \in SUBSET Jobs : S = {j \in Jobs : reap[j] # NoRow}
    OBVIOUS
  <2>1. \A j \in Jobs : row'[j] = IF j \in S THEN Abandoned(row[j]) ELSE row[j]
    BY <2>0, <1>0, <1>4, UncontestedCommit, RowsWritten DEF RecoverCommit, JobInv, SnapshotsHold
  <2>2. \A j \in S : row[j].status \in Open
    BY <2>0, <1>0 DEF JobInv, SnapshotsHold
  <2>3. \A j \in S : /\ row'[j].status = "failed" /\ row'[j].attempts = row[j].attempts
                     /\ row[j].status \in Open
    BY <1>0, <2>1, <2>2, ColumnsWritten
  <2>4. \A j \in S : StatusOf(j)' = "failed"
    BY <2>3 DEF StatusOf, Exists
  <2>5. \A j \in Jobs \ S : row'[j] = row[j]
    BY <2>1
  <2>6. /\ Shown' = [j \in Jobs |-> IF j \in S THEN "failed" ELSE Shown[j]]
        /\ Counted' = [j \in Jobs |-> IF j \in S THEN row'[j].attempts ELSE Counted[j]]
    BY <1>2, <1>1, <2>4, <2>5, ShownMany
  <2>7. Counted' = Counted
    <3>1. \A j \in Jobs : (IF j \in S THEN row'[j].attempts ELSE Counted[j]) = Counted[j]
      BY <2>3 DEF Counted
    <3>2. Counted = [j \in Jobs |-> Counted[j]]
      BY DEF Counted
    <3> QED
      BY <2>6, <3>1, <3>2
  <2>8. Contract!Reap(S)
    <3>1. \A j \in S : Shown[j] \in Open
      BY <2>3 DEF Shown, StatusOf, Exists, Open
    <3> QED
      BY <2>6, <2>7, <3>1 DEF Contract!Reap, Contract!Open, Open
  <2> QED
    BY <2>8 DEF Contract!CNext
<1>5. ASSUME NEW p \in Parents, DeleteParent(p) PROVE Contract!CNext
  <2>0. PICK S \in SUBSET Jobs : S = {j \in Jobs : p \in ParentsOf[j] /\ Exists(j)}
    OBVIOUS
  <2>1. \A j \in Jobs : row'[j] = IF j \in S THEN NoRow ELSE row[j]
    BY <2>0, <1>0, <1>5 DEF DeleteParent, JobInv, StoryTold, Exists
  <2>2. \A j \in S : row[j].status \in Open \cup Settled /\ api[j] # "idle"
    BY <2>0, <1>0, ColumnsWritten DEF JobInv, RequestOwns, Exists, Row
  <2>3. \A j \in S : row'[j].status = "absent" /\ row'[j].attempts = 0 /\ api'[j] # "idle"
    BY <1>2, <2>1, <2>2, ColumnsWritten
  <2>4. \A j \in S : StatusOf(j)' = "deleted"
    BY <2>3 DEF StatusOf, Exists
  <2>5. \A j \in Jobs \ S : row'[j] = row[j]
    BY <2>1
  <2>6. /\ Shown' = [j \in Jobs |-> IF j \in S THEN "deleted" ELSE Shown[j]]
        /\ Counted' = [j \in Jobs |-> IF j \in S THEN row'[j].attempts ELSE Counted[j]]
    BY <1>2, <1>1, <2>4, <2>5, ShownMany
  <2>7. Counted' = [j \in Jobs |-> IF j \in S THEN 0 ELSE Counted[j]]
    BY <2>3, <2>6
  <2>8. Contract!Remove(S)
    <3>1. \A j \in S : Shown[j] \in Open \cup Settled
      BY <2>2 DEF Shown, StatusOf, Exists, Open, Settled
    <3> QED
      BY <2>6, <2>7, <3>1 DEF Contract!Remove, Contract!Open, Contract!Settled, Open, Settled
  <2> QED
    BY <2>8 DEF Contract!CNext
<1> QED
  BY <1>3, <1>4, <1>5 DEF BootStep, RecoverLoad, RecoverSkip, ApiCrash, Age, DownloadCheck,
     DownloadServe

(* The detailed specification implements the contract a polling client sees. *)
THEOREM ImplementsContract == Undisputed /\ Spec => ContractHolds
<1> SUFFICES ASSUME Undisputed PROVE Spec => ContractHolds
  OBVIOUS
<1>1. Init => Contract!CInit
  BY ColumnsWritten DEF Init, Contract!CInit, Shown, Counted, StatusOf, Exists
<1>2. IInv /\ [Next]_vars => [Contract!CNext]_(Contract!cvars)
  <2>1. CASE UNCHANGED vars
    BY <2>1, ContractStutter DEF vars, requestVars
  <2>2. ASSUME NEW d \in Delivery, NEW e \in Delivery, Duplicate(d, e) PROVE FALSE
    BY <2>2 DEF Duplicate, Undisputed
  <2> QED
    BY <2>1, <2>2, ContractRequest, ContractTask, ContractOther DEF Next
<1> QED
  BY <1>1, <1>2, InvariantHolds, PTL DEF Spec, ContractHolds, Contract!CSpec

\* Whoever keeps the contract lets a polling client conclude from any poll what
\* the next one may say.
THEOREM ContractMakesSense == ContractHolds => Contract!PollsMakeSense
<1> DEFINE P == {"unrequested", "deleted"} \cup Contract!Open \cup Contract!Settled
           Typed == Shown \in [Jobs -> P] /\ Counted \in [Jobs -> 0..MaxAttempts]
           Sense == \A j \in Jobs :
              /\ Shown'[j] # "deleted" => Counted[j] <= Counted'[j]
              /\ Shown[j] \in Contract!Settled => Shown'[j] \in {Shown[j], "deleted"}
              /\ Shown[j] = "deleted" => Shown'[j] = "deleted"
<1> USE AttemptsAssumption DEF Contract!Open, Contract!Settled
<1>1. Contract!CInit => Typed
  BY DEF Contract!CInit
<1>2. Typed /\ [Contract!CNext]_(Contract!cvars) => Typed' /\ Sense
  <2> SUFFICES ASSUME Typed, [Contract!CNext]_(Contract!cvars) PROVE Typed' /\ Sense
    OBVIOUS
  <2>1. ASSUME NEW j \in Jobs, Contract!Request(j) \/ Contract!Succeed(j)
        PROVE  Typed' /\ Sense
    BY <2>1 DEF Contract!Request, Contract!Succeed
  <2>2. ASSUME NEW j \in Jobs, NEW n \in 0..MaxAttempts,
               Contract!Begin(j, n) \/ Contract!Fail(j, n)
        PROVE  Typed' /\ Sense
    BY <2>2 DEF Contract!Begin, Contract!Fail
  <2>3. ASSUME NEW S \in SUBSET Jobs, Contract!Reap(S) PROVE Typed' /\ Sense
    BY <2>3 DEF Contract!Reap
  <2>4. ASSUME NEW S \in SUBSET Jobs, Contract!Remove(S) PROVE Typed' /\ Sense
    BY <2>4 DEF Contract!Remove
  <2>5. CASE UNCHANGED Contract!cvars
    BY <2>5 DEF Contract!cvars
  <2>6. QED
    BY <2>1, <2>2, <2>3, <2>4, <2>5 DEF Contract!CNext
<1>3. Typed /\ [Contract!CNext]_(Contract!cvars) => [Sense]_(Contract!cvars)
  BY <1>2
<1>4. QED
  BY <1>1, <1>2, <1>3, PTL DEF ContractHolds, Contract!CSpec, Contract!PollsMakeSense

-----------------------------------------------------------------------------
(* What holds in every instance, whatever is delivered twice or too late.  *)

RowSound(k) == /\ ~Exists(k) /\ api[k] # "idle" => row'[k] = NoRow
               /\ row'[k].status = "absent" => row'[k] = NoRow

Stays(k) == Exists(k) => row'[k].status # "absent"

(* A commit over a row does not remove it. *)
LEMMA CommitStays ==
    ASSUME row \in [Jobs -> Row], NEW j \in Jobs, NEW s \in Row, NEW w \in Row,
           w.status # "absent", Exists(j), Commit(j, s, w)
    PROVE  /\ row'[j].status # "absent"
           /\ \A k \in Jobs \ {j} : row'[k] = row[k]
<1>1. row' = [row EXCEPT ![j] = Merge(row[j], s, w)]
  BY DEF Commit
<1>2. Merge(row[j], s, w).status # "absent"
  BY DEF Merge, Column, Exists
<1> QED
  BY <1>1, <1>2

(* The rows after a step of request_export. *)
LEMMA RequestRows ==
    ASSUME BudgetInv, NEW j \in Jobs, RequestExport(j) \/ RequestStep(j), NEW k \in Jobs
    PROVE  RowSound(k) /\ Stays(k)
<1> USE DEF RowSound, Stays
<1>1. /\ row \in [Jobs -> Row] /\ apiSeen[j] \in Row
      /\ row[k].status = "absent" => row[k] = NoRow
  BY DEF BudgetInv, TypeOK, NoRevival
<1>2. CASE RequestExport(j)
  BY <1>1, <1>2, ColumnsWritten DEF RequestExport, Exists
<1>3. CASE MarkRejected(j) /\ Exists(j)
  <2>1. Refused(apiSeen[j]) \in Row /\ Refused(apiSeen[j]).status # "absent"
    BY <1>1, RowsWritten, ColumnsWritten
  <2>2. Commit(j, apiSeen[j], Refused(apiSeen[j]))
    BY <1>3 DEF MarkRejected
  <2>3. row'[j].status # "absent" /\ \A i \in Jobs \ {j} : row'[i] = row[i]
    BY <1>1, <1>3, <2>1, <2>2, CommitStays
  <2> QED
    BY <1>1, <1>3, <2>3 DEF Exists
<1>4. CASE row' = row
  BY <1>1, <1>4 DEF Exists
<1> QED
  BY <1>2, <1>3, <1>4 DEF RequestStep, RequestVanishes, Enqueue, EnqueueFails, LoadRejected,
                          MarkRejected

(* The rows after a step of a worker or the broker. *)
LEMMA TaskRows ==
    ASSUME BudgetInv, NEW d \in Delivery, NEW k \in Jobs,
           TaskStep(d) \/ WorkerCrash(d) \/ \E e \in Delivery : Duplicate(d, e)
    PROVE  RowSound(k) /\ Stays(k)
<1> DEFINE j == JobOf(d)
<1> USE DEF RowSound, Stays
<1>1. /\ row \in [Jobs -> Row] /\ j \in Jobs /\ seen[d] \in Row
      /\ retries[d] + 1 \in 0..MaxAttempts
      /\ row[k].status = "absent" => row[k] = NoRow
  BY Deliveries, AttemptRange DEF BudgetInv, TypeOK, NoRevival
<1> HIDE DEF j
<1>2. ASSUME NEW w \in Row, w.status # "absent", Exists(j), Commit(j, seen[d], w)
      PROVE  RowSound(k) /\ Stays(k)
  <2>1. row'[j].status # "absent" /\ \A i \in Jobs \ {j} : row'[i] = row[i]
    BY <1>1, <1>2, CommitStays
  <2> QED
    BY <1>1, <1>2, <2>1 DEF Exists
<1>3. CASE row' = row
  BY <1>1, <1>3 DEF Exists
<1>4. CASE StartRun(d)
  <2>1. Claimed(seen[d], retries[d] + 1) \in Row
        /\ Claimed(seen[d], retries[d] + 1).status # "absent"
    BY <1>1, RowsWritten, ColumnsWritten
  <2> QED
    BY <1>2, <1>3, <1>4, <2>1 DEF StartRun, j
<1>5. CASE Complete(d)
  <2>1. Finished(seen[d]) \in Row /\ Finished(seen[d]).status # "absent"
    BY <1>1, RowsWritten, ColumnsWritten
  <2> QED
    BY <1>2, <1>3, <1>5, <2>1 DEF Complete, j
<1>6. CASE GiveUp(d)
  <2>1. GivenUp(seen[d], retries[d] + 1) \in Row
        /\ GivenUp(seen[d], retries[d] + 1).status # "absent"
    BY <1>1, RowsWritten, ColumnsWritten
  <2> QED
    BY <1>2, <1>3, <1>6, <2>1 DEF GiveUp, j
<1> QED
  BY <1>3, <1>4, <1>5, <1>6
  DEF TaskStep, Fetch, LoadJob, LoadMissing, ReloadJob, OpenCsv, CloseCsv, Raise, Retry,
      RetryLost, GiveUpLoad, Bury, HandlerError, WorkerCrash, Duplicate

(* The rows after a restart, a deletion, a download or a tick; while recovery *)
(* holds rows none is deleted.                                               *)
LEMMA OtherRows ==
    ASSUME BudgetInv, NEW k \in Jobs,
           \/ BootStep \/ ApiCrash
           \/ \E j \in Jobs : Age(j) \/ DownloadCheck(j) \/ DownloadServe(j)
           \/ \E p \in Parents : DeleteParent(p)
    PROVE  RowSound(k) /\ (boot = "serving" \/ Stays(k))
<1> USE DEF RowSound, Stays
<1>1. /\ row \in [Jobs -> Row] /\ reap[k] \in Row /\ NoRevival(k)
  BY DEF BudgetInv, TypeOK
<1>2. CASE row' = row
  BY <1>1, <1>2 DEF NoRevival, Exists
<1>3. CASE RecoverCommit
  <2>1. Abandoned(reap[k]) \in Row /\ Abandoned(reap[k]).status # "absent"
    BY <1>1, RowsWritten, ColumnsWritten
  <2>2. reap[k] # NoRow => Exists(k) /\ row'[k].status # "absent"
    BY <1>1, <1>3, <2>1 DEF RecoverCommit, Merge, Column, NoRevival, Exists
  <2>3. reap[k] = NoRow => row'[k] = row[k]
    BY <1>3 DEF RecoverCommit
  <2> QED
    BY <1>1, <2>2, <2>3 DEF NoRevival, Exists
<1>4. ASSUME NEW p \in Parents, DeleteParent(p) PROVE RowSound(k) /\ boot = "serving"
  BY <1>1, <1>4, ColumnsWritten DEF DeleteParent, NoRevival, Exists
<1> QED
  BY <1>2, <1>3, <1>4 DEF BootStep, RecoverLoad, RecoverSkip, ApiCrash, Age, DownloadCheck,
                          DownloadServe

(* A step that pushes nothing keeps the letters earned. *)
LEMMA LettersStayEarned ==
    ASSUME BudgetInv, TypeOK', dlq' = dlq, \A k \in Jobs : RowSound(k),
           \A k \in Jobs : api[k] # "idle" => api'[k] # "idle",
           \A k \in Jobs : runs'[k] >= runs[k]
    PROVE  \A m \in dlq' : LetterEarned(m)'
<1> SUFFICES ASSUME NEW m \in dlq PROVE LetterEarned(m)'
  OBVIOUS
<1>1. m.job \in Jobs /\ runs[m.job] \in Nat /\ runs'[m.job] \in Nat /\ LetterEarned(m)
  BY DEF BudgetInv, TypeOK
<1> QED
  BY <1>1, AttemptsAssumption, ColumnsWritten DEF LetterEarned, RowSound, Exists

(* The steps of request_export. *)
LEMMA RequestBudget ==
    ASSUME BudgetInv, NEW j \in Jobs, RequestExport(j) \/ RequestStep(j)
    PROVE  BudgetInv'
<1>1. TypeOK /\ TypeOK'
  BY RequestType DEF BudgetInv
<1>2. \A k \in Jobs : RowSound(k) /\ Stays(k)
  BY RequestRows
<1>3. UNCHANGED <<boot, reap, dlq, runs, retries>>
  BY DEF RequestExport, RequestStep, RequestVanishes, Enqueue, EnqueueFails, LoadRejected,
         MarkRejected, Unread, bootVars, taskVars
<1>4. \A k \in Jobs : api[k] # "idle" => api'[k] # "idle"
  BY <1>1 DEF RequestExport, RequestStep, RequestVanishes, Enqueue, EnqueueFails, LoadRejected,
         MarkRejected, RequestEnds, TypeOK
<1>9. \A k \in Jobs : api[k] \notin {"idle", "created"} => api'[k] \notin {"idle", "created"}
  BY <1>1 DEF RequestExport, RequestStep, RequestVanishes, Enqueue, EnqueueFails, LoadRejected,
         MarkRejected, RequestEnds, TypeOK
<1>5. \A d \in Delivery : pc'[d] = pc[d] \/ (pc'[d] = "queued" /\ api'[JobOf(d)] \notin {"idle", "created"})
  BY <1>1, Deliveries DEF RequestExport, RequestStep, RequestVanishes, Enqueue, EnqueueFails,
         LoadRejected, MarkRejected, RequestEnds, taskVars, TypeOK
<1>6. \A k \in Jobs : NoRevival(k)'
  BY <1>2, <1>3 DEF BudgetInv, NoRevival, RowSound, Stays, Exists
<1>7. \A d \in Delivery : RunsCover(d)'
  BY <1>3, <1>5, <1>9, Deliveries
  DEF BudgetInv, RunsCover, InWorker, InTry, InHandler
<1>8. \A m \in dlq' : LetterEarned(m)'
  <2>1. \A k \in Jobs : runs'[k] >= runs[k]
    BY <1>1, <1>3 DEF TypeOK
  <2> QED
    BY <1>1, <1>2, <1>3, <1>4, <2>1, LettersStayEarned
<1> QED
  BY <1>1, <1>6, <1>7, <1>8 DEF BudgetInv

(* What a step of a worker or the broker leaves alone, and what it counts. *)
LEMMA TaskCounts ==
    ASSUME TypeOK, NEW d \in Delivery,
           TaskStep(d) \/ WorkerCrash(d) \/ \E e \in Delivery : Duplicate(d, e)
    PROVE  /\ UNCHANGED <<api, boot, reap>>
           /\ pc[d] # "unsent"
           /\ \A k \in Jobs : runs'[k] >= runs[k]
<1>1. UNCHANGED <<api, boot, reap>>
  BY DEF TaskStep, Fetch, LoadJob, LoadMissing, StartRun, ReloadJob, OpenCsv, CloseCsv, Complete,
         Raise, Retry, RetryLost, GiveUpLoad, GiveUp, Bury, HandlerError, WorkerCrash, Duplicate,
         Elsewhere, requestVars, bootVars
<1>2. pc[d] # "unsent"
  BY TaskSent DEF Duplicate
<1>3. Fetch(d) \/ runs' = runs
  BY DEF TaskStep, LoadJob, LoadMissing, StartRun, ReloadJob, OpenCsv, CloseCsv, Complete,
         Raise, Retry, RetryLost, GiveUpLoad, GiveUp, Bury, HandlerError, WorkerCrash, Duplicate
<1>4. \A k \in Jobs : runs'[k] >= runs[k]
  BY <1>3, Deliveries DEF Fetch, TypeOK
<1> QED
  BY <1>1, <1>2, <1>4

(* The retry counts after it. *)
LEMMA TaskCover ==
    ASSUME BudgetInv, TypeOK', NEW d \in Delivery,
           TaskStep(d) \/ WorkerCrash(d) \/ \E e \in Delivery : Duplicate(d, e)
    PROVE  \A e \in Delivery : RunsCover(e)'
<1> SUFFICES ASSUME NEW e \in Delivery PROVE RunsCover(e)'
  OBVIOUS
<1>1. /\ TypeOK /\ RunsCover(e) /\ RunsCover(d) /\ JobOf(e) \in Jobs /\ JobOf(d) \in Jobs
      /\ runs[JobOf(d)] \in Nat /\ runs[JobOf(e)] \in Nat
      /\ retries[d] \in Nat /\ retries[e] \in Nat
  BY Deliveries, AttemptsAssumption DEF BudgetInv, TypeOK
<1>2. /\ UNCHANGED <<api, boot, reap>> /\ pc[d] # "unsent"
      /\ runs'[JobOf(e)] >= runs[JobOf(e)] /\ runs'[JobOf(e)] \in Nat
  BY <1>1, TaskCounts DEF TypeOK
<1> USE DEF TypeOK, RunsCover, InWorker, InTry, InHandler
<1>3. CASE e # d /\ pc'[e] = pc[e] /\ retries'[e] = retries[e]
  BY <1>1, <1>2, <1>3
<1>4. ASSUME NEW f \in Delivery, Duplicate(d, f) PROVE RunsCover(e)'
  <2>1. CASE e = f
    BY <1>1, <1>2, <1>4, <2>1 DEF Duplicate, To
  <2>2. CASE e # f
    BY <1>1, <1>2, <1>4, <2>2 DEF Duplicate, To
  <2> QED
    BY <2>1, <2>2
<1>5. CASE TaskStep(d) \/ WorkerCrash(d)
  <2>1. CASE e # d
    <3>1. CASE WorkerCrash(d) \/ Fetch(d) \/ LoadJob(d) \/ LoadMissing(d) \/ StartRun(d)
      BY <1>1, <1>3, <2>1, <3>1
      DEF WorkerCrash, Fetch, LoadJob, LoadMissing, StartRun, To, See, Ends, Fails
    <3>2. CASE \/ ReloadJob(d) \/ OpenCsv(d) \/ CloseCsv(d) \/ Complete(d) \/ Raise(d)
               \/ HandlerError(d)
      BY <1>1, <1>3, <2>1, <3>2
      DEF ReloadJob, OpenCsv, CloseCsv, Complete, Raise, HandlerError, To, See, Ends, Fails
    <3>3. CASE Retry(d) \/ RetryLost(d) \/ GiveUpLoad(d) \/ GiveUp(d) \/ Bury(d)
      BY <1>1, <1>3, <2>1, <3>3
      DEF Retry, RetryLost, GiveUpLoad, GiveUp, Bury, To, See, Ends, Fails
    <3>4. QED
      BY <1>5, <3>1, <3>2, <3>3 DEF TaskStep
  <2>2. CASE e = d
    <3> USE <1>1, <1>2, <2>2
    <3>1. CASE retries'[d] = 0 /\ pc'[d] = "ended"
      BY <3>1
    <3>2. CASE Fetch(d)
      BY <3>2 DEF Fetch, To
    <3>3. CASE Retry(d)
      BY <3>3 DEF Retry, To
    <3>4. CASE GiveUpLoad(d)
      BY <3>4 DEF GiveUpLoad, LastAttempt, To
    <3>5. CASE /\ retries'[d] = retries[d] /\ pc[d] \in InWorker
               /\ pc'[d] \in InWorker \ {"giveup", "bury"}
      BY <3>5
    <3>6. CASE pc[d] = "giveup" /\ pc'[d] = "bury" /\ retries'[d] = retries[d]
      BY <3>6
    <3>7. LoadMissing(d) \/ RetryLost(d) \/ Bury(d) \/ HandlerError(d) \/ WorkerCrash(d)
            => retries'[d] = 0 /\ pc'[d] = "ended"
      BY DEF LoadMissing, RetryLost, Bury, HandlerError, WorkerCrash, Ends, To
    <3>8. LoadJob(d) \/ StartRun(d) \/ ReloadJob(d) \/ OpenCsv(d) \/ CloseCsv(d) \/ Raise(d)
            => /\ retries'[d] = retries[d] /\ pc[d] \in InWorker
               /\ pc'[d] \in InWorker \ {"giveup", "bury"}
      BY DEF LoadJob, StartRun, ReloadJob, OpenCsv, CloseCsv, Raise, To, Fails
    <3>9. CASE Complete(d)
      BY <3>1, <3>5, <3>9 DEF Complete, Ends, Fails, To
    <3>10. CASE GiveUp(d)
      BY <3>1, <3>6, <3>10 DEF GiveUp, Ends, To
    <3> QED
      BY <1>5, <3>1, <3>2, <3>3, <3>4, <3>5, <3>7, <3>8, <3>9, <3>10 DEF TaskStep
  <2> QED
    BY <2>1, <2>2
<1> QED
  BY <1>4, <1>5

(* The letters after it: a replayable one follows the last attempt, one that *)
(* cannot be replayed a row that was not found.                              *)
LEMMA TaskLetters ==
    ASSUME BudgetInv, TypeOK', NEW d \in Delivery,
           TaskStep(d) \/ WorkerCrash(d) \/ \E e \in Delivery : Duplicate(d, e)
    PROVE  \A m \in dlq' : LetterEarned(m)'
<1> DEFINE j == JobOf(d)
<1>1. /\ j \in Jobs /\ runs[j] \in Nat /\ retries[d] \in Nat /\ RunsCover(d)
      /\ TypeOK /\ MaxAttempts \in Nat
  BY Deliveries, AttemptsAssumption DEF BudgetInv, TypeOK
<1>2. /\ UNCHANGED <<api, boot, reap>> /\ pc[d] # "unsent"
      /\ \A k \in Jobs : runs'[k] >= runs[k]
  BY <1>1, TaskCounts
<1>3. \A k \in Jobs : RowSound(k)
  BY TaskRows
<1>4. CASE dlq' = dlq
  BY <1>2, <1>3, <1>4, LettersStayEarned
<1>5. ASSUME NEW again \in BOOLEAN, Push(j, again), row' = row, runs' = runs,
             IF again THEN runs[j] >= MaxAttempts ELSE ~Exists(j)
      PROVE  \A m \in dlq' : LetterEarned(m)'
  <2>1. \A m \in dlq : LetterEarned(m)'
    BY <1>2, <1>5 DEF BudgetInv, LetterEarned, Exists
  <2>2. LetterEarned([job |-> j, retryable |-> again])'
    BY <1>1, <1>2, <1>5 DEF LetterEarned, Exists, RunsCover
  <2> QED
    BY <1>5, <2>1, <2>2 DEF Push
<1>6. CASE LoadMissing(d)
  BY <1>5, <1>6 DEF LoadMissing
<1>7. CASE Bury(d)
  <2>1. runs[j] >= MaxAttempts
    BY <1>1, <1>7 DEF Bury, RunsCover, InWorker, InHandler
  <2> QED
    BY <1>4, <1>5, <1>7, <2>1 DEF Bury
<1> QED
  BY <1>4, <1>6, <1>7
  DEF TaskStep, Fetch, LoadJob, StartRun, ReloadJob, OpenCsv, CloseCsv, Complete, Raise, Retry,
      RetryLost, GiveUpLoad, GiveUp, HandlerError, WorkerCrash, Duplicate

(* The steps of a worker or the broker. *)
LEMMA TaskBudget ==
    ASSUME BudgetInv, NEW d \in Delivery,
           TaskStep(d) \/ WorkerCrash(d) \/ \E e \in Delivery : Duplicate(d, e)
    PROVE  BudgetInv'
<1>1. TypeOK /\ TypeOK'
  BY TaskType DEF BudgetInv
<1>2. UNCHANGED <<api, boot, reap>>
  BY <1>1, TaskCounts
<1>3. \A k \in Jobs : NoRevival(k)'
  BY <1>2, TaskRows DEF BudgetInv, NoRevival, RowSound, Stays, Exists
<1> QED
  BY <1>1, <1>3, TaskCover, TaskLetters DEF BudgetInv

(* Restarts, deletions, downloads and the clock. *)
LEMMA OtherBudget ==
    ASSUME BudgetInv,
           \/ BootStep \/ ApiCrash
           \/ \E j \in Jobs : Age(j) \/ DownloadCheck(j) \/ DownloadServe(j)
           \/ \E p \in Parents : DeleteParent(p)
    PROVE  BudgetInv'
<1>1. TypeOK /\ TypeOK'
  BY OtherType DEF BudgetInv
<1>2. UNCHANGED <<pc, retries, dlq, runs>>
  BY DEF BootStep, RecoverLoad, RecoverCommit, RecoverSkip, ApiCrash, Age, DownloadCheck,
     DownloadServe, DeleteParent, taskVars
<1>3. \A k \in Jobs : api[k] # "idle" => api'[k] # "idle"
  BY <1>1 DEF BootStep, RecoverLoad, RecoverCommit, RecoverSkip, ApiCrash, Age, DownloadCheck,
     DownloadServe, DeleteParent, requestVars, TypeOK
<1>8. \A k \in Jobs : api[k] \notin {"idle", "created"} => api'[k] \notin {"idle", "created"}
  BY <1>1 DEF BootStep, RecoverLoad, RecoverCommit, RecoverSkip, ApiCrash, Age, DownloadCheck,
     DownloadServe, DeleteParent, requestVars, TypeOK
<1>4. \A k \in Jobs : RowSound(k) /\ (boot = "serving" \/ Stays(k))
  BY OtherRows
<1>5. ASSUME NEW k \in Jobs PROVE NoRevival(k)'
  <2>1. \/ reap'[k] = NoRow
        \/ reap'[k] = reap[k] /\ boot' = boot
        \/ RecoverLoad /\ reap'[k] = row[k] /\ row[k].status \in Open
    BY <1>1 DEF BootStep, RecoverLoad, RecoverCommit, RecoverSkip, ApiCrash, Age, DownloadCheck,
       DownloadServe, DeleteParent, bootVars, Stranded
  <2>2. NoRevival(k)
    BY DEF BudgetInv
  <2>3. CASE RecoverLoad /\ row[k].status \in Open
    BY <1>4, <2>2, <2>3 DEF RecoverLoad, NoRevival, Open, RowSound, Exists
  <2> QED
    BY <1>4, <2>1, <2>2, <2>3 DEF NoRevival, RowSound, Stays, Exists
<1>6. \A d \in Delivery : RunsCover(d)'
  BY <1>2, <1>8, Deliveries DEF BudgetInv, RunsCover
<1>7. \A m \in dlq' : LetterEarned(m)'
  <2>1. \A k \in Jobs : runs'[k] >= runs[k]
    BY <1>1, <1>2 DEF TypeOK
  <2> QED
    BY <1>1, <1>2, <1>3, <1>4, <2>1, LettersStayEarned
<1> QED
  BY <1>1, <1>5, <1>6, <1>7 DEF BudgetInv

(* The initial state. *)
LEMMA InitBudget == Init => BudgetInv
  BY InitType, Deliveries, AttemptsAssumption
  DEF Init, BudgetInv, NoRevival, RunsCover, TypeOK, InWorker, InTry, InHandler, NoRow

(* Every step, in every instance. *)
LEMMA StepBudget ==
    ASSUME BudgetInv, [Next]_vars
    PROVE  BudgetInv' /\ \A k \in Jobs : ~Exists(k) /\ api[k] # "idle" => row'[k] = NoRow
<1>1. CASE UNCHANGED vars
  <2> USE <1>1 DEF vars, taskVars, requestVars, bootVars
  <2>1. TypeOK'
    BY DEF BudgetInv, TypeOK
  <2>2. BudgetInv'
    BY <2>1 DEF BudgetInv, NoRevival, RunsCover, LetterEarned, Exists
  <2> QED
    BY <2>2 DEF BudgetInv, NoRevival, Exists
<1>2. CASE Next
  <2>1. BudgetInv'
    BY <1>2, RequestBudget, TaskBudget, OtherBudget DEF Next
  <2>2. \A k \in Jobs : RowSound(k)
    BY <1>2, RequestRows, TaskRows, OtherRows DEF Next
  <2> QED
    BY <2>1, <2>2 DEF RowSound
<1> QED
  BY <1>1, <1>2

(* No duplicate, lost reply or slow job spends the retries of a job: what is *)
(* in the list was really tried as often as it may be, or is gone.          *)
THEOREM LettersEarned == Spec => []DeadLetterIsEarned
<1>1. Init => BudgetInv
  BY InitBudget
<1>2. BudgetInv /\ [Next]_vars => BudgetInv'
  BY StepBudget
<1>3. BudgetInv => DeadLetterIsEarned
  BY DEF BudgetInv, LetterEarned, DeadLetterIsEarned
<1> QED
  BY <1>1, <1>2, <1>3, PTL DEF Spec

(* A deleted row is written by nobody any more, in any instance.            *)
THEOREM DeletedFinal == Spec => DeletedStaysDeleted
<1>1. Init => BudgetInv
  BY InitBudget
<1>2. BudgetInv /\ [Next]_vars => BudgetInv'
  BY StepBudget
<1>3. BudgetInv /\ [Next]_vars =>
        [\A j \in Jobs : ~Exists(j) /\ api[j] # "idle" => row'[j] = NoRow]_vars
  BY StepBudget
<1> QED
  BY <1>1, <1>2, <1>3, PTL DEF Spec, DeletedStaysDeleted

-----------------------------------------------------------------------------
(* What competing writers leave of a row, in every instance.               *)

(* A commit by a session that is only behind the row keeps a traced row traced. *)
LEMMA WriteTraced ==
    ASSUME NEW r \in Row, NEW s \in Row, Traced(r), Behind(s, r), NEW w \in Row,
           \/ w \in {Finished(s), Refused(s), Abandoned(s)}
           \/ \E n \in 0..MaxAttempts : w \in {Claimed(s, n), GivenUp(s, n)}
    PROVE  Traced(Merge(r, s, w)) /\ Behind(r, Merge(r, s, w))
<1> USE DEF Traced, Behind, Merge, Column, Settled
<1>1. CASE w = Finished(s)
  BY <1>1, ColumnsWritten
<1>2. CASE w = Refused(s) \/ w = Abandoned(s) \/ \E n \in 0..MaxAttempts : w = GivenUp(s, n)
  <2>1. /\ w.status = "failed" /\ w.file = s.file /\ w.finished
        /\ w.error # "none"
    BY <1>2, ColumnsWritten
  <2> QED
    BY <2>1
<1>3. CASE \E n \in 0..MaxAttempts : w = Claimed(s, n)
  <2>1. w.status = "running" /\ w.file = s.file /\ w.finished = s.finished /\ w.error = s.error
    BY <1>3, ColumnsWritten
  <2> QED
    BY <2>1
<1> QED
  BY <1>1, <1>2, <1>3

(* Being behind is transitive, and an unread row is behind every row. *)
LEMMA BehindMore ==
    /\ \A s \in Row : Behind(NoRow, s) /\ Behind(s, s)
    /\ \A r, s, t \in Row : Behind(r, s) /\ Behind(s, t) => Behind(r, t)
  BY ColumnsWritten DEF Behind

(* What a step may do to a row: nothing, remove it, or write it as a session *)
(* does that was only behind.                                                *)
Grows(k) == \/ row'[k] = row[k] \/ row'[k] = NoRow
            \/ Exists(k) /\ Traced(row'[k]) /\ Behind(row[k], row'[k])

(* A commit to one row. *)
LEMMA CommitGrows ==
    ASSUME TypeOK, NEW j \in Jobs, NEW s \in Row, NEW w \in Row, Traced(row[j]),
           Behind(s, row[j]), Exists(j), Commit(j, s, w),
           \/ w \in {Finished(s), Refused(s), Abandoned(s)}
           \/ \E n \in 0..MaxAttempts : w \in {Claimed(s, n), GivenUp(s, n)}
    PROVE  \A k \in Jobs : Grows(k)
<1>1. row[j] \in Row /\ row \in [Jobs -> Row]
  BY DEF TypeOK
<1>2. row' = [row EXCEPT ![j] = Merge(row[j], s, w)]
  BY DEF Commit
<1>3. Traced(Merge(row[j], s, w)) /\ Behind(row[j], Merge(row[j], s, w))
  BY <1>1, WriteTraced
<1> QED
  BY <1>1, <1>2, <1>3 DEF Grows

(* What a session may hold after a step. *)
Carries(t, s, k) == t \in {s, NoRow, row'[k]}

(* Such a step keeps the traces of a job. *)
LEMMA TracesCarried ==
    ASSUME TypeOK, TypeOK', NEW k \in Jobs, TraceInv(k), Grows(k),
           api[k] # "idle" \/ row'[k] = row[k], NoRevival(k),
           Carries(apiSeen'[k], apiSeen[k], k), Carries(reap'[k], reap[k], k),
           \A d \in Delivery : JobOf(d) = k => Carries(seen'[d], seen[d], k)
    PROVE  Traced(row[k])' /\ (Exists(k)' => SessionsBehind(k)')
<1>1. /\ row[k] \in Row /\ row'[k] \in Row /\ Traced(row[k])
      /\ apiSeen[k] \in Row /\ reap[k] \in Row
      /\ \A d \in Delivery : seen[d] \in Row
  BY DEF TypeOK, TraceInv
<1>2. Traced(row'[k])
  BY <1>1, ColumnsWritten DEF Grows, Traced, Settled
<1>3. ASSUME row'[k].status # "absent", NEW s \in Row, NEW t, Carries(t, s, k), Exists(k) => Behind(s, row[k])
      PROVE  Behind(t, row'[k])
  <2>1. Exists(k) /\ (row'[k] = row[k] \/ Behind(row[k], row'[k]))
    BY <1>1, <1>3, ColumnsWritten DEF Grows, Exists
  <2> QED
    BY <1>1, <1>3, <2>1, BehindMore, RowsWritten DEF Carries
<1> QED
  BY <1>1, <1>2, <1>3 DEF SessionsBehind, TraceInv, Exists

(* The traces after a step of request_export. *)
LEMMA RequestTraces ==
    ASSUME DisputeInv, NEW j \in Jobs, RequestExport(j) \/ RequestStep(j), NEW k \in Jobs
    PROVE  TraceInv(k)' /\ (RequestStep(j) => Grows(k))
<1>1. /\ TypeOK /\ TypeOK' /\ BudgetInv /\ TraceInv(k) /\ TraceInv(j) /\ SettlerInv(k) /\ SettlerInv(j)
      /\ NoRevival(k) /\ NoRevival(j) /\ \A d \in Delivery : RunsCover(d)
  BY RequestType DEF DisputeInv, BudgetInv
<1>2. UNCHANGED <<boot, reap, seen>>
  BY DEF RequestExport, RequestStep, RequestVanishes, Enqueue, EnqueueFails, LoadRejected,
         MarkRejected, Unread, bootVars, taskVars
<1>3. \A d \in Delivery : pc'[d] = "unsent" => pc[d] = "unsent"
  BY <1>1, Deliveries DEF RequestExport, RequestStep, RequestVanishes, Enqueue, EnqueueFails,
         LoadRejected, MarkRejected, RequestEnds, taskVars, TypeOK
<1>4. \A d \in Delivery : JobOf(d) = k /\ pc'[d] = "unsent" => seen'[d] = NoRow
  BY <1>1, <1>2, <1>3 DEF TraceInv
<1>5. CASE RequestExport(j)
  <2>1. /\ row'[k] = (IF k = j THEN FreshRow ELSE row[k])
        /\ apiSeen'[k] = (IF k = j THEN FreshRow ELSE apiSeen[k])
        /\ api'[k] = (IF k = j THEN "created" ELSE api[k])
    BY <1>1, <1>5 DEF RequestExport, TypeOK
  <2>4. ~RequestStep(j)
    BY <1>5 DEF RequestExport, RequestStep, RequestVanishes, Enqueue, EnqueueFails, LoadRejected,
         MarkRejected
  <2>2. CASE k = j
    <3>1. \A d \in Delivery : JobOf(d) = k => seen'[d] = NoRow
      BY <1>1, <1>2, <1>5, <2>2 DEF RequestExport, RunsCover, TraceInv
    <3>2. reap'[k] = NoRow
      BY <1>1, <1>2, <1>5, <2>2 DEF RequestExport, NoRevival
    <3>3. Traced(FreshRow) /\ Behind(FreshRow, FreshRow) /\ Behind(NoRow, FreshRow)
      BY ColumnsWritten DEF Traced, Behind, Settled
    <3>4. SessionsBehind(k)' /\ Traced(row'[k])
      BY <2>1, <2>2, <3>1, <3>2, <3>3 DEF SessionsBehind
    <3> QED
      BY <1>4, <2>1, <2>2, <2>4, <3>4 DEF TraceInv
  <2>3. CASE k # j
    BY <1>1, <1>2, <1>4, <2>1, <2>3, <2>4 DEF TraceInv, SessionsBehind, Exists
  <2> QED
    BY <2>2, <2>3, <2>4
<1>6. CASE RequestStep(j)
  <2>1. Grows(k)
    <3>1. CASE MarkRejected(j) /\ Exists(j)
      <4>1. /\ apiSeen[j] \in Row /\ Refused(apiSeen[j]) \in Row
            /\ Commit(j, apiSeen[j], Refused(apiSeen[j]))
        BY <1>1, <3>1, RowsWritten DEF TypeOK, MarkRejected
      <4>2. Traced(row[j]) /\ Behind(apiSeen[j], row[j])
        BY <1>1, <3>1 DEF TraceInv, SessionsBehind
      <4> QED
        BY <1>1, <3>1, <4>1, <4>2, CommitGrows
    <3>2. CASE row' = row
      BY <3>2 DEF Grows
    <3> QED
      BY <1>6, <3>1, <3>2
      DEF RequestStep, RequestVanishes, Enqueue, EnqueueFails, LoadRejected, MarkRejected
  <2>2. Carries(apiSeen'[k], apiSeen[k], k)
    BY <1>1, <1>6 DEF Carries, RequestStep, RequestVanishes, Enqueue, EnqueueFails, LoadRejected,
       MarkRejected, RequestEnds, TypeOK
  <2>3. api'[k] = "idle" => api[k] = "idle" /\ apiSeen'[k] = apiSeen[k]
    BY <1>1, <1>6 DEF RequestStep, RequestVanishes, Enqueue, EnqueueFails, LoadRejected,
       MarkRejected, RequestEnds, TypeOK
  <2>4. api[k] # "idle" \/ row'[k] = row[k]
    BY <1>1, <1>6 DEF RequestStep, RequestVanishes, Enqueue, EnqueueFails, LoadRejected,
       MarkRejected, Commit, TypeOK
  <2>5. Carries(reap'[k], reap[k], k) /\ \A d \in Delivery : JobOf(d) = k => Carries(seen'[d], seen[d], k)
    BY <1>2 DEF Carries
  <2>6. Traced(row[k])' /\ (Exists(k)' => SessionsBehind(k)')
    BY <1>1, <2>1, <2>2, <2>4, <2>5, TracesCarried
  <2> QED
    BY <1>1, <1>4, <2>1, <2>3, <2>6 DEF TraceInv
<1> QED
  BY <1>5, <1>6

(* What a session of a worker holds after a step of it. *)
LEMMA TaskCarries ==
    ASSUME TypeOK, NEW d \in Delivery,
           TaskStep(d) \/ WorkerCrash(d) \/ \E e \in Delivery : Duplicate(d, e)
    PROVE  /\ UNCHANGED <<apiSeen, stale>>
           /\ \A e \in Delivery :
                 /\ seen'[e] = seen[e] \/ (e = d /\ Carries(seen'[e], seen[e], JobOf(d)))
                 /\ pc'[e] = "unsent" => pc[e] = "unsent" /\ seen'[e] = seen[e]
           /\ \A e \in Delivery : e = d \/ pc'[e] = pc[e] \/ (JobOf(e) = JobOf(d) /\ Duplicate(d, e))
<1> USE DEF TypeOK, Carries, Elsewhere, requestVars, To, See, Ends, Fails
<1>1. CASE Fetch(d) \/ OpenCsv(d) \/ CloseCsv(d)
  BY <1>1 DEF Fetch, OpenCsv, CloseCsv
<1>2. CASE LoadJob(d) \/ ReloadJob(d) \/ GiveUpLoad(d)
  BY <1>2 DEF LoadJob, ReloadJob, GiveUpLoad
<1>3. CASE StartRun(d) \/ Complete(d)
  BY <1>3 DEF StartRun, Complete
<1>4. CASE Retry(d) \/ GiveUp(d)
  BY <1>4 DEF Retry, GiveUp
<1>6. CASE LoadMissing(d) \/ Bury(d)
  BY <1>6 DEF LoadMissing, Bury
<1>7. CASE Raise(d) \/ RetryLost(d) \/ HandlerError(d) \/ WorkerCrash(d)
  BY <1>7 DEF Raise, RetryLost, HandlerError, WorkerCrash
<1>5. ASSUME NEW e \in Delivery, Duplicate(d, e)
      PROVE  /\ UNCHANGED <<apiSeen, stale, seen>>
             /\ \A f \in Delivery : pc'[f] = pc[f] \/ (f = e /\ pc'[f] = "queued" /\ JobOf(e) = JobOf(d))
  BY <1>5 DEF Duplicate
<1> QED
  BY <1>1, <1>2, <1>3, <1>4, <1>5, <1>6, <1>7 DEF TaskStep

(* The traces after a step of a worker or the broker. *)
LEMMA TaskTraces ==
    ASSUME DisputeInv, NEW d \in Delivery, NEW k \in Jobs,
           TaskStep(d) \/ WorkerCrash(d) \/ \E e \in Delivery : Duplicate(d, e)
    PROVE  TraceInv(k)' /\ Grows(k) /\ (k # JobOf(d) => row'[k] = row[k])
<1> DEFINE j == JobOf(d)
<1>1. /\ TypeOK /\ TypeOK' /\ BudgetInv /\ TraceInv(k) /\ TraceInv(j) /\ SettlerInv(k)
      /\ NoRevival(k) /\ RunsCover(d) /\ j \in Jobs /\ seen[d] \in Row
      /\ retries[d] + 1 \in 0..MaxAttempts /\ row \in [Jobs -> Row]
  BY Deliveries, TaskType, AttemptRange DEF DisputeInv, BudgetInv, TypeOK
<1>2. UNCHANGED <<api, reap, apiSeen>> /\ pc[d] # "unsent"
  BY <1>1, TaskCounts, TaskCarries
<1>3. Grows(k) /\ (k # j => row'[k] = row[k])
  <2>1. ASSUME NEW w \in Row, Exists(j), Commit(j, seen[d], w),
               \/ w = Finished(seen[d])
               \/ \E n \in 0..MaxAttempts : w \in {Claimed(seen[d], n), GivenUp(seen[d], n)}
        PROVE  Grows(k) /\ (k # j => row'[k] = row[k])
    <3>1. Traced(row[j]) /\ Behind(seen[d], row[j])
      BY <1>1, <2>1 DEF TraceInv, SessionsBehind
    <3> HIDE DEF j
    <3>2. Grows(k)
      BY <1>1, <2>1, <3>1, CommitGrows
    <3> QED
      BY <1>1, <2>1, <3>2 DEF Commit
  <2>2. CASE row' = row
    BY <2>2 DEF Grows
  <2>3. CASE StartRun(d)
    BY <1>1, <2>1, <2>2, <2>3, RowsWritten DEF StartRun
  <2>4. CASE Complete(d)
    BY <1>1, <2>1, <2>2, <2>4, RowsWritten DEF Complete
  <2>5. CASE GiveUp(d)
    BY <1>1, <2>1, <2>2, <2>5, RowsWritten DEF GiveUp
  <2> QED
    BY <2>2, <2>3, <2>4, <2>5
    DEF TaskStep, Fetch, LoadJob, LoadMissing, ReloadJob, OpenCsv, CloseCsv, Raise, Retry,
        RetryLost, GiveUpLoad, Bury, HandlerError, WorkerCrash, Duplicate
<1>4. \A e \in Delivery : JobOf(e) = k => Carries(seen'[e], seen[e], k)
  BY <1>1, TaskCarries DEF Carries
<1>5. \A e \in Delivery : JobOf(e) = k /\ pc'[e] = "unsent" => seen'[e] = NoRow
  BY <1>1, TaskCarries DEF TraceInv
<1>6. api[k] # "idle" \/ row'[k] = row[k]
  BY <1>1, <1>2, <1>3 DEF RunsCover
<1>7. Carries(apiSeen'[k], apiSeen[k], k) /\ Carries(reap'[k], reap[k], k)
  BY <1>2 DEF Carries
<1>8. Traced(row[k])' /\ (Exists(k)' => SessionsBehind(k)')
  BY <1>1, <1>3, <1>4, <1>6, <1>7, TracesCarried
<1> QED
  BY <1>1, <1>2, <1>3, <1>5, <1>8 DEF TraceInv

(* The traces after a restart, a deletion, a download or a tick. *)
LEMMA OtherTraces ==
    ASSUME DisputeInv, NEW k \in Jobs,
           \/ BootStep \/ ApiCrash
           \/ \E j \in Jobs : Age(j) \/ DownloadCheck(j) \/ DownloadServe(j)
           \/ \E p \in Parents : DeleteParent(p)
    PROVE  TraceInv(k)' /\ Grows(k)
<1>1. /\ TypeOK /\ TypeOK' /\ TraceInv(k) /\ SettlerInv(k) /\ NoRevival(k)
      /\ row[k] \in Row /\ reap[k] \in Row
  BY OtherType DEF DisputeInv, BudgetInv, TypeOK
<1>2. UNCHANGED <<pc, seen>>
  BY DEF BootStep, RecoverLoad, RecoverCommit, RecoverSkip, ApiCrash, Age, DownloadCheck,
     DownloadServe, DeleteParent, taskVars
<1>3. Grows(k) /\ (row[k] = NoRow => row'[k] = row[k])
  <2>1. CASE row' = row
    BY <2>1 DEF Grows
  <2>2. CASE RecoverCommit
    <3>1. CASE reap[k] = NoRow
      BY <2>2, <3>1 DEF RecoverCommit, Grows
    <3>2. CASE reap[k] # NoRow
      <4>1. /\ Exists(k) /\ row'[k] = Merge(row[k], reap[k], Abandoned(reap[k]))
            /\ Abandoned(reap[k]) \in Row /\ row[k] # NoRow
        BY <1>1, <2>2, <3>2, RowsWritten, ColumnsWritten DEF RecoverCommit, NoRevival, Exists
      <4>2. Traced(row[k]) /\ Behind(reap[k], row[k])
        BY <1>1, <4>1 DEF TraceInv, SessionsBehind
      <4>3. Traced(row'[k]) /\ Behind(row[k], row'[k])
        BY <1>1, <4>1, <4>2, WriteTraced
      <4> QED
        BY <4>1, <4>3 DEF Grows
    <3> QED
      BY <3>1, <3>2
  <2>3. ASSUME NEW p \in Parents, DeleteParent(p) PROVE Grows(k) /\ (row[k] = NoRow => row'[k] = row[k])
    BY <2>3 DEF DeleteParent, Grows
  <2> QED
    BY <2>1, <2>2, <2>3 DEF BootStep, RecoverLoad, RecoverSkip, ApiCrash, Age, DownloadCheck,
       DownloadServe
<1>4. /\ Carries(apiSeen'[k], apiSeen[k], k) /\ Carries(reap'[k], reap[k], k)
      /\ api'[k] = "idle" => api[k] = "idle" /\ apiSeen'[k] \in {apiSeen[k], NoRow}
  BY <1>1 DEF BootStep, RecoverLoad, RecoverCommit, RecoverSkip, ApiCrash, Age, DownloadCheck,
     DownloadServe, DeleteParent, requestVars, bootVars, Carries, TypeOK, InRequest
<1>5. \A d \in Delivery : JobOf(d) = k => Carries(seen'[d], seen[d], k)
  BY <1>2 DEF Carries
<1>6. api[k] # "idle" \/ row'[k] = row[k]
  BY <1>1, <1>3 DEF SettlerInv
<1>7. Traced(row[k])' /\ (Exists(k)' => SessionsBehind(k)')
  BY <1>1, <1>3, <1>4, <1>5, <1>6, TracesCarried
<1> QED
  BY <1>1, <1>2, <1>3, <1>4, <1>7 DEF TraceInv

-----------------------------------------------------------------------------
(* Who settles a row.                                                      *)

(* A job nothing happens to keeps its settler. *)
LEMMA SettlerFrame ==
    ASSUME NEW k \in Jobs, SettlerInv(k), row'[k] \in {row[k], NoRow}, api'[k] = api[k],
           apiSeen'[k] = apiSeen[k], reap'[k] \in {reap[k], NoRow}, stale[k] => stale'[k],
           stale' \in [Jobs -> BOOLEAN], stale \in [Jobs -> BOOLEAN],
           \A d \in Delivery : JobOf(d) = k => pc'[d] = pc[d]
    PROVE  SettlerInv(k)'
<1>1. Alone(k)' => Alone(k)
  BY DEF Alone
<1>2. pc'[Primary(k)] = pc[Primary(k)]
  BY Deliveries
<1> QED
  BY <1>1, <1>2, ColumnsWritten DEF SettlerInv, Settled

(* The steps of request_export. *)
LEMMA RequestSettler ==
    ASSUME DisputeInv, NEW j \in Jobs, RequestExport(j) \/ RequestStep(j), NEW k \in Jobs
    PROVE  /\ SettlerInv(k)'
           /\ row[k].status \in Settled /\ ~Overlapping(k) => row'[k] \in {row[k], NoRow}
<1>1. /\ TypeOK /\ TypeOK' /\ SettlerInv(k) /\ Primary(k) \in Delivery /\ JobOf(Primary(k)) = k
      /\ RunsCover(Primary(k)) /\ row[k] \in Row /\ apiSeen[k] \in Row
  BY Deliveries, RequestType DEF DisputeInv, BudgetInv, TypeOK
<1>2. UNCHANGED <<boot, reap, stale>>
  BY DEF RequestExport, RequestStep, RequestVanishes, Enqueue, EnqueueFails, LoadRejected,
         MarkRejected, Unread, bootVars
<1>3. CASE k # j
  <2>1. /\ row'[k] = row[k] /\ api'[k] = api[k] /\ apiSeen'[k] = apiSeen[k]
        /\ \A d \in Delivery : d # Primary(j) => pc'[d] = pc[d]
    BY <1>1, <1>3 DEF RequestExport, RequestStep, RequestVanishes, Enqueue, EnqueueFails,
       LoadRejected, MarkRejected, RequestEnds, Commit, taskVars, TypeOK
  <2>2. \A d \in Delivery : JobOf(d) = k => pc'[d] = pc[d]
    BY <1>3, <2>1, Deliveries
  <2>3. stale' \in [Jobs -> BOOLEAN] /\ stale \in [Jobs -> BOOLEAN]
    BY <1>1 DEF TypeOK
  <2>4. SettlerInv(k)'
    BY <1>1, <1>2, <2>1, <2>2, <2>3, SettlerFrame
  <2> QED
    BY <2>1, <2>4
<1>4. CASE k = j
  <2>1. \A d \in Delivery : d # Primary(k) => pc'[d] = pc[d]
    BY <1>1, <1>4 DEF RequestExport, RequestStep, RequestVanishes, Enqueue, EnqueueFails,
       LoadRejected, MarkRejected, taskVars, TypeOK
  <2>2. Alone(k)' => Alone(k)
    BY <1>2, <2>1 DEF Alone
  <2>3. CASE RequestExport(j)
    <3>1. row'[k] = FreshRow /\ api'[k] = "created" /\ apiSeen'[k] = FreshRow
      BY <1>1, <1>4, <2>3 DEF RequestExport, TypeOK
    <3>2. row[k].status \notin Settled
      BY <1>1, <1>4, <2>3, ColumnsWritten DEF RequestExport, SettlerInv, Settled
    <3> QED
      BY <1>1, <1>2, <3>1, <3>2, ColumnsWritten DEF SettlerInv, Settled
  <2>4. CASE RequestVanishes(j)
    <3>1. row'[k] = row[k] /\ api'[k] = "done" /\ apiSeen'[k] = NoRow /\ pc' = pc
      BY <1>1, <1>4, <2>4 DEF RequestVanishes, RequestEnds, taskVars, TypeOK
    <3> QED
      BY <1>1, <1>2, <2>2, <3>1, ColumnsWritten DEF SettlerInv, InRequest
  <2>5. CASE Enqueue(j) \/ EnqueueFails(j)
    <3>1. /\ row'[k] = row[k] /\ api[k] = "created" /\ api'[k] \in {"done", "rejected"}
          /\ apiSeen'[k] \in {apiSeen[k], NoRow} /\ pc[Primary(k)] = "unsent"
      BY <1>1, <1>4, <2>5 DEF Enqueue, EnqueueFails, RequestEnds, TypeOK, RunsCover
    <3>2. Alone(k)' => row'[k] \in {NoRow, FreshRow}
      BY <1>1, <2>2, <3>1 DEF SettlerInv, InRequest
    <3> QED
      BY <1>1, <1>2, <3>1, <3>2, ColumnsWritten DEF SettlerInv, Settled
  <2>6. CASE LoadRejected(j)
    <3>1. /\ row'[k] = row[k] /\ api[k] = "rejected" /\ api'[k] \in {"done", "marking"}
          /\ apiSeen'[k] \in {row[k], NoRow} /\ pc' = pc
      BY <1>1, <1>4, <2>6 DEF LoadRejected, RequestEnds, taskVars, TypeOK
    <3> QED
      BY <1>1, <1>2, <2>2, <3>1, ColumnsWritten DEF SettlerInv, InRequest
  <2>7. CASE MarkRejected(j)
    <3>1. api[k] = "marking" /\ api'[k] = "done" /\ apiSeen'[k] = NoRow /\ pc' = pc
      BY <1>1, <1>4, <2>7 DEF MarkRejected, RequestEnds, taskVars, TypeOK
    <3>2. row'[k] = row[k] \/ row'[k].error = "queue"
      <4>1. Refused(apiSeen[k]).error = "queue" /\ apiSeen[k].error # "queue"
        BY <1>1, ColumnsWritten DEF SettlerInv
      <4> QED
        BY <1>1, <1>4, <2>7, <4>1 DEF MarkRejected, Commit, Merge, Column, TypeOK
    <3>3. ~Overlapping(k) => Alone(k) /\ pc[Primary(k)] = "unsent"
      BY <1>1, <3>1 DEF Overlapping, Alone, Live, InRequest
    <3>4. ~Overlapping(k) => row[k].status \notin Settled
      BY <1>1, <3>1, <3>3, ColumnsWritten DEF SettlerInv, InRequest, Settled
    <3> QED
      BY <1>1, <1>2, <2>2, <3>1, <3>2, <3>4, ColumnsWritten DEF SettlerInv, InRequest
  <2> QED
    BY <2>3, <2>4, <2>5, <2>6, <2>7 DEF RequestStep
<1> QED
  BY <1>3, <1>4

(* What a step of a worker does to the row of its job, seen from its settler: *)
(* only a session that has loaded writes, none says that the queue refused,   *)
(* and a runner that goes on after its write has not settled the row.         *)
LEMMA TaskSettles ==
    ASSUME TypeOK, NEW d \in Delivery,
           TaskStep(d) \/ WorkerCrash(d) \/ \E e \in Delivery : Duplicate(d, e)
    PROVE  LET j == JobOf(d) IN
           /\ row' = row \/ pc[d] \in {"loaded", "written", "giveup"}
           /\ row'[j].error = "queue" => row[j].error = "queue"
           /\ \/ pc'[d] \in {"bury", "ended"}
              \/ /\ pc[d] \notin {"unsent", "bury", "ended"}
                 /\ row'[j].status \in Settled =>
                       row[j].status \in Settled /\ row'[j].error = row[j].error
<1> DEFINE j == JobOf(d)
<1>1. /\ j \in Jobs /\ seen[d] \in Row /\ retries[d] + 1 \in 0..MaxAttempts
      /\ row \in [Jobs -> Row] /\ pc \in [Delivery -> PCs]
  BY Deliveries, AttemptRange DEF TypeOK
<1> HIDE DEF j
<1>2. ASSUME NEW w \in Row, Commit(j, seen[d], w), w.error \in {seen[d].error, "none", "task"}
      PROVE  row'[j].error = "queue" => row[j].error = "queue"
  BY <1>1, <1>2 DEF Commit, Merge, Column
<1>3. CASE StartRun(d)
  <2> DEFINE w == Claimed(seen[d], retries[d] + 1)
  <2>1. w \in Row /\ w.status = "running" /\ w.error = seen[d].error
    <3>1. PICK n \in 0..MaxAttempts : n = retries[d] + 1
      BY <1>1
    <3>2. Claimed(seen[d], n) \in Row
      BY <1>1, RowsWritten
    <3>3. Claimed(seen[d], n).status = "running" /\ Claimed(seen[d], n).error = seen[d].error
      BY <1>1, ColumnsWritten
    <3> QED
      BY <3>1, <3>2, <3>3
  <2>4. StartRun(d) => (Commit(j, seen[d], w) /\ To(d, "started")) \/ row' = row
    BY DEF StartRun, j
  <2> HIDE DEF w
  <2>2. CASE Commit(j, seen[d], w) /\ To(d, "started")
    BY <1>1, <1>3, <2>1, <2>2 DEF StartRun, Commit, Merge, Column, To, Settled, j
  <2>3. CASE row' = row
    BY <1>1, <1>3, <2>3 DEF StartRun, To, Fails, j
  <2> QED
    BY <1>3, <2>2, <2>3, <2>4
<1>4. CASE Complete(d)
  <2> DEFINE w == Finished(seen[d])
  <2>1. w \in Row /\ w.error = "none"
    BY <1>1, RowsWritten, ColumnsWritten
  <2>4. Complete(d) => (Commit(j, seen[d], w) /\ Ends(d)) \/ (row' = row /\ Fails(d))
    BY DEF Complete, j
  <2> HIDE DEF w
  <2>2. CASE Commit(j, seen[d], w) /\ Ends(d)
    BY <1>1, <1>2, <1>4, <2>1, <2>2 DEF Complete, Ends, To, j
  <2>3. CASE row' = row /\ Fails(d)
    BY <1>1, <1>4, <2>3 DEF Complete, To, Fails, j
  <2> QED
    BY <1>4, <2>2, <2>3, <2>4
<1>5. CASE GiveUp(d)
  <2> DEFINE w == GivenUp(seen[d], retries[d] + 1)
  <2>1. w \in Row /\ w.error = "task"
    <3>1. PICK n \in 0..MaxAttempts : n = retries[d] + 1
      BY <1>1
    <3>2. GivenUp(seen[d], n) \in Row
      BY <1>1, RowsWritten
    <3>3. GivenUp(seen[d], n).error = "task"
      BY <1>1, ColumnsWritten
    <3> QED
      BY <3>1, <3>2, <3>3
  <2>4. GiveUp(d) => Commit(j, seen[d], w) \/ row' = row
    BY DEF GiveUp, j
  <2> HIDE DEF w
  <2>2. pc'[d] \in {"bury", "ended"} /\ pc[d] = "giveup"
    BY <1>1, <1>5 DEF GiveUp, Ends, To
  <2>3. row'[j].error = "queue" => row[j].error = "queue"
    BY <1>2, <1>5, <2>1, <2>4
  <2> QED
    BY <2>2, <2>3 DEF j
<1>6. CASE \/ Fetch(d) \/ LoadJob(d) \/ ReloadJob(d) \/ OpenCsv(d) \/ CloseCsv(d) \/ Raise(d)
           \/ Retry(d) \/ \E e \in Delivery : Duplicate(d, e)
  <2>1. row' = row /\ pc[d] \notin {"unsent", "bury", "ended"}
    BY <1>6 DEF Fetch, LoadJob, ReloadJob, OpenCsv, CloseCsv, Raise, Retry, Duplicate, InTry
  <2> QED
    BY <2>1
<1>7. CASE LoadMissing(d) \/ RetryLost(d) \/ GiveUpLoad(d) \/ Bury(d) \/ HandlerError(d)
           \/ WorkerCrash(d)
  <2>1. row' = row /\ (pc'[d] \in {"bury", "ended"} \/ pc[d] = "except")
    BY <1>1, <1>7 DEF LoadMissing, RetryLost, GiveUpLoad, Bury, HandlerError, WorkerCrash, Ends, To
  <2> QED
    BY <2>1
<1> QED
  BY <1>3, <1>4, <1>5, <1>6, <1>7 DEF TaskStep

(* The steps of a worker or the broker. *)
LEMMA TaskSettler ==
    ASSUME DisputeInv, NEW d \in Delivery, NEW k \in Jobs,
           TaskStep(d) \/ WorkerCrash(d) \/ \E e \in Delivery : Duplicate(d, e)
    PROVE  /\ SettlerInv(k)'
           /\ row[k].status \in Settled /\ ~Overlapping(k) => row'[k] \in {row[k], NoRow}
<1>1. /\ TypeOK /\ TypeOK' /\ SettlerInv(k) /\ RunsCover(d) /\ JobOf(d) \in Jobs
      /\ stale \in [Jobs -> BOOLEAN] /\ stale' \in [Jobs -> BOOLEAN]
  BY Deliveries, TaskType DEF DisputeInv, BudgetInv, TypeOK
<1>2. /\ UNCHANGED <<api, reap, apiSeen, stale>> /\ pc[d] # "unsent"
      /\ \A e \in Delivery : pc'[e] = "unsent" => pc[e] = "unsent"
      /\ \A e \in Delivery : e = d \/ pc'[e] = pc[e] \/ (JobOf(e) = JobOf(d) /\ Duplicate(d, e))
  BY <1>1, TaskCounts, TaskCarries
<1>3. CASE k # JobOf(d)
  <2>1. row'[k] = row[k]
    BY <1>3, TaskTraces
  <2>2. \A e \in Delivery : JobOf(e) = k => pc'[e] = pc[e]
    BY <1>2, <1>3
  <2>3. SettlerInv(k)'
    BY <1>1, <1>2, <2>1, <2>2, SettlerFrame
  <2> QED
    BY <2>1, <2>3
<1>4. CASE k = JobOf(d)
  <2>1. Alone(k)' => Alone(k)
    BY <1>2 DEF Alone
  <2>2. Alone(k) => d = Primary(k)
    BY <1>2, <1>4 DEF Alone
  <2>3. /\ row' = row \/ pc[d] \in {"loaded", "written", "giveup"}
        /\ row'[k].error = "queue" => row[k].error = "queue"
        /\ \/ pc'[d] \in {"bury", "ended"}
           \/ /\ pc[d] \notin {"unsent", "bury", "ended"}
              /\ row'[k].status \in Settled =>
                    row[k].status \in Settled /\ row'[k].error = row[k].error
    BY <1>1, <1>4, TaskSettles
  <2>4. SettlerInv(k)'
    <3>1. Alone(k)' => pc'[Primary(k)] # "unsent" /\ d = Primary(k)
      BY <1>2, <2>1, <2>2
    <3>2. api[k] # "idle"
      BY <1>1, <1>2, <1>4 DEF RunsCover
    <3> QED
      BY <1>1, <1>2, <2>1, <2>3, <3>1, <3>2 DEF SettlerInv
  <2>5. ASSUME row[k].status \in Settled, ~Overlapping(k) PROVE row' = row
    <3>1. \A e \in Delivery : JobOf(e) = k /\ e # Primary(k) => pc[e] = "unsent"
      BY <2>5 DEF Overlapping
    <3>2. d = Primary(k)
      BY <1>2, <1>4, <3>1
    <3>3. pc[d] \in {"loaded", "written", "giveup"} => ~stale[k]
      BY <1>4, <2>5 DEF Overlapping, Live
    <3>4. pc[d] \in {"loaded", "written", "giveup"} => row[k].error = "queue"
      BY <1>1, <2>5, <3>1, <3>2, <3>3 DEF SettlerInv, Alone
    <3> QED
      BY <1>2, <2>3, <2>5, <3>2, <3>4 DEF Overlapping
  <2> QED
    BY <2>4, <2>5
<1> QED
  BY <1>3, <1>4

(* Restarts, deletions, downloads and the clock. *)
LEMMA OtherSettler ==
    ASSUME DisputeInv, NEW k \in Jobs,
           \/ BootStep \/ ApiCrash
           \/ \E j \in Jobs : Age(j) \/ DownloadCheck(j) \/ DownloadServe(j)
           \/ \E p \in Parents : DeleteParent(p)
    PROVE  /\ SettlerInv(k)'
           /\ row[k].status \in Settled /\ ~Overlapping(k) => row'[k] \in {row[k], NoRow}
<1>1. /\ TypeOK /\ TypeOK' /\ SettlerInv(k) /\ NoRevival(k) /\ row[k] \in Row /\ reap[k] \in Row
      /\ stale \in [Jobs -> BOOLEAN] /\ stale' \in [Jobs -> BOOLEAN]
      /\ reap \in [Jobs -> Row]
  BY OtherType DEF DisputeInv, BudgetInv, TypeOK
<1>2. UNCHANGED pc
  BY DEF BootStep, RecoverLoad, RecoverCommit, RecoverSkip, ApiCrash, Age, DownloadCheck,
     DownloadServe, DeleteParent, taskVars
<1>3. CASE RecoverCommit
  <2>1. reap'[k] = NoRow /\ api'[k] = api[k] /\ apiSeen'[k] = apiSeen[k] /\ stale'[k] = stale[k]
    BY <1>3 DEF RecoverCommit, requestVars
  <2>2. CASE reap[k] = NoRow
    <3>1. row'[k] = row[k]
      BY <1>3, <2>2 DEF RecoverCommit
    <3> QED
      BY <1>1, <1>2, <2>1, <3>1, SettlerFrame
  <2>3. CASE reap[k] # NoRow
    <3>1. /\ ~Alone(k)' /\ row[k] # NoRow /\ reap[k].status \in Open /\ stale[k]
      BY <1>1, <2>1, <2>3, ColumnsWritten DEF SettlerInv, Alone, NoRevival, Exists
    <3>2. row'[k].error = "queue" => row[k].error = "queue"
      BY <1>1, <1>3, <2>3, ColumnsWritten DEF RecoverCommit, Merge, Column
    <3>3. Overlapping(k)
      BY <3>1 DEF Overlapping
    <3> QED
      BY <1>1, <2>1, <3>1, <3>2, <3>3 DEF SettlerInv
  <2> QED
    BY <2>2, <2>3
<1>4. CASE RecoverLoad
  <2>1. /\ reap'[k] = (IF Stranded(k) THEN row[k] ELSE NoRow)
        /\ UNCHANGED <<row, api, apiSeen, stale>>
    BY <1>4 DEF RecoverLoad, requestVars
  <2>2. Alone(k)' <=> Alone(k)
    BY <1>2, <2>1 DEF Alone
  <2> QED
    BY <1>1, <1>2, <2>1, <2>2 DEF SettlerInv, Stranded
<1>5. CASE ApiCrash
  <2>1. /\ reap'[k] = NoRow /\ apiSeen'[k] = NoRow /\ UNCHANGED <<row, stale>>
        /\ api'[k] = (IF api[k] \in InRequest THEN "done" ELSE api[k])
    BY <1>5 DEF ApiCrash
  <2>2. Alone(k)' <=> Alone(k)
    BY <1>2, <2>1 DEF Alone
  <2> QED
    BY <1>1, <1>2, <2>1, <2>2, ColumnsWritten DEF SettlerInv, InRequest
<1>6. CASE RecoverSkip \/ (\E j \in Jobs : Age(j) \/ DownloadCheck(j) \/ DownloadServe(j))
           \/ (\E p \in Parents : DeleteParent(p))
  <2>1. /\ row'[k] \in {row[k], NoRow} /\ api'[k] = api[k] /\ apiSeen'[k] = apiSeen[k]
        /\ reap'[k] \in {reap[k], NoRow} /\ (stale[k] => stale'[k])
    BY <1>1, <1>6 DEF RecoverSkip, Age, DownloadCheck, DownloadServe, DeleteParent, requestVars,
       bootVars
  <2>2. SettlerInv(k)'
    BY <1>1, <1>2, <2>1, SettlerFrame
  <2> QED
    BY <2>1, <2>2
<1> QED
  BY <1>3, <1>4, <1>5, <1>6 DEF BootStep, RecoverLoad, ApiCrash

(* The initial state, and every step in every instance. *)
LEMMA InitDispute == Init => DisputeInv
<1>1. ASSUME Init, NEW j \in Jobs PROVE TraceInv(j) /\ SettlerInv(j)
  BY <1>1, ColumnsWritten, Deliveries
  DEF Init, TraceInv, SettlerInv, Traced, Exists, Settled, InRequest
<1> QED
  BY <1>1, InitBudget DEF DisputeInv

LEMMA StepDispute ==
    ASSUME DisputeInv, [Next]_vars
    PROVE  /\ DisputeInv'
           /\ \/ UNCHANGED vars
              \/ \A j \in Jobs : row[j].status \in Settled /\ ~Overlapping(j)
                                  => row'[j] \in {row[j], NoRow}
<1>1. BudgetInv'
  BY StepBudget DEF DisputeInv
<1>2. CASE UNCHANGED vars
  <2> USE <1>2 DEF vars, taskVars, requestVars, bootVars
  <2>1. ASSUME NEW j \in Jobs PROVE TraceInv(j)' /\ SettlerInv(j)'
    <3>1. TraceInv(j) /\ SettlerInv(j)
      BY DEF DisputeInv
    <3>2. TraceInv(j)'
      BY <3>1 DEF TraceInv, SessionsBehind, Exists
    <3>3. Alone(j)' <=> Alone(j)
      BY DEF Alone
    <3> QED
      BY <3>1, <3>2, <3>3 DEF SettlerInv
  <2> QED
    BY <1>1, <2>1 DEF DisputeInv
<1>3. CASE Next
  <2>1. \A j \in Jobs : TraceInv(j)'
    BY <1>3, RequestTraces, TaskTraces, OtherTraces DEF Next
  <2>2. \A j \in Jobs : /\ SettlerInv(j)'
                        /\ row[j].status \in Settled /\ ~Overlapping(j)
                              => row'[j] \in {row[j], NoRow}
    BY <1>3, RequestSettler, TaskSettler, OtherSettler DEF Next
  <2> QED
    BY <1>1, <2>1, <2>2 DEF DisputeInv
<1> QED
  BY <1>2, <1>3

LEMMA DisputeHolds == Spec => []DisputeInv
<1>1. DisputeInv /\ [Next]_vars => DisputeInv'
  BY StepDispute
<1> QED
  BY InitDispute, <1>1, PTL DEF Spec

(* However the sweep, a second delivery, a refused request and the runner   *)
(* write over each other's columns, the end they leave is never blank.       *)
THEOREM TracesKept == Spec => []EndsLeaveTraces
<1>1. DisputeInv => EndsLeaveTraces
  BY DEF DisputeInv, TraceInv, Traced, EndsLeaveTraces
<1> QED
  BY <1>1, DisputeHolds, PTL

(* In every instance a settled row is written again only by the competitors *)
(* Overlapping names: by no retry, no later sweep and no late only runner.   *)
THEOREM SettledFinal == Spec => SettledIsFinal
<1>1. DisputeInv /\ [Next]_vars =>
        [\A j \in Jobs : row[j].status \in Settled /\ ~Overlapping(j)
                            => row'[j] \in {row[j], NoRow}]_vars
  BY StepDispute
<1> QED
  BY <1>1, DisputeHolds, PTL DEF Spec, SettledIsFinal

-----------------------------------------------------------------------------
(* The letters of the jobs given up on.                                    *)

(* Redis answers, and a worker that has begun to give up gets to its end.   *)
HandlerCompletes == Disturbances \cap {"redisDown", "workerCrash", "dbError"} = {}

(* Only a worker that gives up writes its error into a row. *)
LEMMA ErrorWritten ==
    ASSUME BudgetInv, Next, NEW j \in Jobs, row'[j].error = "task"
    PROVE  \/ row[j].error = "task"
           \/ \E d \in Delivery : JobOf(d) = j /\ GiveUp(d) /\ pc'[d] = "bury"
<1>1. /\ row \in [Jobs -> Row] /\ reap[j] \in Row
      /\ \A k \in Jobs : apiSeen[k] \in Row
      /\ \A d \in Delivery : /\ JobOf(d) \in Jobs /\ seen[d] \in Row
                             /\ retries[d] + 1 \in 0..MaxAttempts
      /\ pc \in [Delivery -> PCs]
  BY Deliveries, AttemptRange DEF BudgetInv, TypeOK
<1>2. ASSUME NEW i \in Jobs, NEW s \in Row, NEW w \in Row, Commit(i, s, w),
             w.error \in {s.error, "none", "queue", "abandoned"}
      PROVE  row[j].error = "task"
  <2>1. row' = [row EXCEPT ![i] = Merge(row[i], s, w)]
    BY <1>2 DEF Commit
  <2>2. Merge(row[i], s, w).error = "task" => row[i].error = "task"
    BY <1>2 DEF Merge, Column
  <2> QED
    BY <1>1, <2>1, <2>2
<1>3. CASE row' = row
  BY <1>3
<1>4. ASSUME NEW i \in Jobs, RequestExport(i) \/ RequestStep(i) PROVE row[j].error = "task"
  <2>1. CASE RequestExport(i)
    BY <1>1, <2>1, ColumnsWritten DEF RequestExport
  <2>2. CASE MarkRejected(i)
    <3>0. apiSeen[i] \in Row
      BY <1>1
    <3>1. Refused(apiSeen[i]) \in Row /\ Refused(apiSeen[i]).error = "queue"
      BY <3>0, RowsWritten, ColumnsWritten
    <3> QED
      BY <1>2, <1>3, <2>2, <3>0, <3>1 DEF MarkRejected
  <2> QED
    BY <1>3, <1>4, <2>1, <2>2
    DEF RequestStep, RequestVanishes, Enqueue, EnqueueFails, LoadRejected
<1>5. ASSUME NEW d \in Delivery, TaskStep(d) \/ WorkerCrash(d) \/ \E e \in Delivery : Duplicate(d, e)
      PROVE  row[j].error = "task" \/ (JobOf(d) = j /\ GiveUp(d) /\ pc'[d] = "bury")
  <2>0. /\ JobOf(d) \in Jobs /\ seen[d] \in Row
        /\ retries[d] + 1 \in 0..MaxAttempts /\ pc \in [Delivery -> PCs]
    BY <1>1
  <2>1. CASE StartRun(d)
    <3>1. PICK n \in 0..MaxAttempts : n = retries[d] + 1
      BY <2>0
    <3>2. Claimed(seen[d], n) \in Row
      BY <2>0, RowsWritten
    <3>3. Claimed(seen[d], n).error = seen[d].error
      BY <2>0, ColumnsWritten
    <3> QED
      BY <1>2, <1>3, <2>0, <2>1, <3>1, <3>2, <3>3 DEF StartRun
  <2>2. CASE Complete(d)
    <3>0. seen[d] \in Row
      BY <2>0
    <3>1. Finished(seen[d]) \in Row /\ Finished(seen[d]).error = "none"
      BY <3>0, RowsWritten, ColumnsWritten
    <3> QED
      BY <1>2, <1>3, <2>0, <2>2, <3>1 DEF Complete
  <2>3. CASE GiveUp(d)
    BY <1>1, <1>3, <2>0, <2>3 DEF GiveUp, Commit, To
  <2> QED
    BY <1>3, <1>5, <2>1, <2>2, <2>3
    DEF TaskStep, Fetch, LoadJob, LoadMissing, ReloadJob, OpenCsv, CloseCsv, Raise, Retry,
        RetryLost, GiveUpLoad, Bury, HandlerError, WorkerCrash, Duplicate
<1>6. CASE RecoverCommit
  <2>1. Abandoned(reap[j]).error = "abandoned"
    BY <1>1, ColumnsWritten
  <2> QED
    BY <1>1, <1>6, <2>1 DEF RecoverCommit, Merge, Column
<1>7. ASSUME NEW p \in Parents, DeleteParent(p) PROVE row[j].error = "task"
  BY <1>7, ColumnsWritten DEF DeleteParent
<1> QED
  BY <1>3, <1>4, <1>5, <1>6, <1>7
  DEF Next, BootStep, RecoverLoad, RecoverSkip, ApiCrash, Age, DownloadCheck, DownloadServe

(* Between the commit of a failure and its dead letter there is nothing but  *)
(* the step that pushes it.                                                  *)
LEMMA BuriedInTheEnd ==
    ASSUME BudgetInv, HandlerCompletes, Next, NEW d \in Delivery, pc[d] = "bury",
           Exists(JobOf(d))
    PROVE  pc'[d] = "bury" \/ [job |-> JobOf(d), retryable |-> TRUE] \in dlq'
<1>1. TypeOK
  BY DEF BudgetInv
<1>2. ASSUME NEW i \in Jobs, RequestExport(i) \/ RequestStep(i) PROVE pc'[d] = "bury"
  <2>1. pc'[d] = pc[d] \/ (d = Primary(i) /\ (Enqueue(i) \/ EnqueueFails(i)))
    BY <1>1, <1>2, Deliveries
    DEF RequestExport, RequestStep, RequestVanishes, Enqueue, EnqueueFails, LoadRejected,
        MarkRejected, taskVars, TypeOK
  <2>2. Enqueue(i) \/ EnqueueFails(i) => d # Primary(i)
    BY Deliveries DEF BudgetInv, RunsCover, Enqueue, EnqueueFails
  <2> QED
    BY <2>1, <2>2
<1>3. ASSUME NEW e \in Delivery, TaskStep(e) \/ WorkerCrash(e) \/ \E f \in Delivery : Duplicate(e, f)
      PROVE  pc'[d] = "bury" \/ [job |-> JobOf(d), retryable |-> TRUE] \in dlq'
  <2>1. CASE Bury(e) /\ e = d
    BY <2>1 DEF Bury, Push, HandlerCompletes
  <2>2. CASE e # d
    BY <1>1, <1>3, <2>2
    DEF TypeOK, TaskStep, Fetch, LoadJob, LoadMissing, StartRun, ReloadJob, OpenCsv, CloseCsv,
        Complete, Raise, Retry, RetryLost, GiveUpLoad, GiveUp, Bury, HandlerError, WorkerCrash,
        Duplicate, To, See, Ends, Fails
  <2> QED
    BY <1>3, <2>1, <2>2
    DEF TaskStep, Fetch, LoadJob, LoadMissing, StartRun, ReloadJob, OpenCsv, CloseCsv,
        Complete, Raise, Retry, RetryLost, GiveUpLoad, GiveUp, HandlerError, WorkerCrash,
        Duplicate, InTry, HandlerCompletes
<1>4. CASE BootStep \/ ApiCrash \/ (\E i \in Jobs : Age(i) \/ DownloadCheck(i) \/ DownloadServe(i))
           \/ (\E p \in Parents : DeleteParent(p))
  BY <1>4 DEF BootStep, RecoverLoad, RecoverCommit, RecoverSkip, ApiCrash, Age, DownloadCheck,
              DownloadServe, DeleteParent, taskVars
<1> QED
  BY <1>2, <1>3, <1>4 DEF Next

(* Nothing leaves the list while only exports use it. *)
LEMMA LettersOnlyAdded ==
    ASSUME Next
    PROVE  dlq \subseteq dlq'
  BY DEF Next, RequestExport, RequestStep, RequestVanishes, Enqueue, EnqueueFails, LoadRejected,
     MarkRejected, Unread, TaskStep, Fetch, LoadJob, LoadMissing, StartRun, ReloadJob, OpenCsv,
     CloseCsv, Complete, Raise, Retry, RetryLost, GiveUpLoad, GiveUp, Bury, HandlerError,
     WorkerCrash, Duplicate, Push, BootStep, RecoverLoad, RecoverCommit, RecoverSkip, ApiCrash,
     Age, DownloadCheck, DownloadServe, DeleteParent

(* A job the worker gave up on is in the dead-letter list, or about to be.  *)
THEOREM GivenUpLettered == HandlerCompletes /\ Spec => []GivenUpIsDeadLettered
<1> SUFFICES ASSUME HandlerCompletes PROVE Spec => []GivenUpIsDeadLettered
  OBVIOUS
<1>1. Init => BudgetInv /\ GivenUpIsDeadLettered
  BY InitBudget, ColumnsWritten DEF Init, GivenUpIsDeadLettered
<1>2. BudgetInv /\ GivenUpIsDeadLettered /\ [Next]_vars => BudgetInv' /\ GivenUpIsDeadLettered'
  <2> SUFFICES ASSUME BudgetInv, GivenUpIsDeadLettered, [Next]_vars PROVE GivenUpIsDeadLettered'
    BY StepBudget
  <2>1. CASE UNCHANGED vars
    BY <2>1 DEF vars, taskVars, GivenUpIsDeadLettered
  <2>2. CASE Next
    <3> SUFFICES ASSUME NEW j \in Jobs, row'[j].error = "task"
                 PROVE  \/ [job |-> j, retryable |-> TRUE] \in dlq'
                        \/ \E d \in Delivery : JobOf(d) = j /\ pc'[d] = "bury"
      BY DEF GivenUpIsDeadLettered
    <3>1. CASE row[j].error = "task"
      <4>1. Exists(j)
        BY <3>1, ColumnsWritten DEF BudgetInv, NoRevival, Exists
      <4>2. \/ [job |-> j, retryable |-> TRUE] \in dlq
            \/ \E d \in Delivery : JobOf(d) = j /\ pc[d] = "bury"
        BY <3>1 DEF GivenUpIsDeadLettered
      <4> QED
        BY <2>2, <4>1, <4>2, LettersOnlyAdded, BuriedInTheEnd
    <3> QED
      BY <2>2, <3>1, ErrorWritten
  <2> QED
    BY <2>1, <2>2
<1> QED
  BY <1>1, <1>2, PTL DEF Spec
=============================================================================
