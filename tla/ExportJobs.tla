----------------------------- MODULE ExportJobs -----------------------------
(***************************************************************************)
(* The life of DevTrack's CSV export jobs: the request in the API process, *)
(* the Celery message in the Redis broker, the worker that runs            *)
(* generate_project_export with its retries, the recovery sweep an API     *)
(* start performs, the download, and the deletion of a project or a user   *)
(* that takes the job's row with it.  The processes share the export_jobs  *)
(* table, the CSV file of a job and the dead-letter list, and nothing      *)
(* else; a database session holds what it last loaded (see OrmSession).    *)
(***************************************************************************)
EXTENDS Naturals, OrmSession

CONSTANTS Jobs,          \* export jobs that may be requested
          Copies,        \* how often the broker may deliver one job's message
          MaxAttempts,   \* MAX_ATTEMPTS
          Parents,       \* projects, requesters and owners: rows jobs hang off
          ParentsOf,     \* job -> the parents whose deletion cascades to it
          Disturbances   \* what the environment may do in this instance

DisturbanceKinds ==
    {"workerCrash",  \* the pool child dies or hits task_time_limit
     "apiCrash",     \* the API process dies and starts again
     "taskError",    \* an exception inside the task's try block
     "dbError",      \* an exception outside it: in the handler, in recovery
     "publishError", \* the broker refuses a new job's message
     "retryLost",    \* the broker refuses the message of a retry
     "lostReply",    \* the broker took the message, its answer got lost
     "duplicate",    \* the broker delivers one message twice
     "slow",         \* a live job outlasts STRANDED_JOB_GRACE_SECONDS
     "redisDown",    \* Redis is gone when a dead letter is pushed
     "delete"}       \* a project or a user is deleted

ASSUME CopiesAssumption       == Copies \in Nat \ {0}
ASSUME AttemptsAssumption     == MaxAttempts \in Nat \ {0}
ASSUME ParentsAssumption      == ParentsOf \in [Jobs -> SUBSET Parents]
ASSUME DisturbancesAssumption == Disturbances \subseteq DisturbanceKinds

Delivery   == Jobs \X (1..Copies)
JobOf(d)   == d[1]
Primary(j) == <<j, 1>>

VARIABLES
    row,       \* export_jobs: per job its row, NoRow while there is none
    csv,       \* the file _csv_path(job): "none", "partial" or "whole"
    stale,     \* created_at is older than STRANDED_JOB_GRACE_SECONDS
    parents,   \* the parents not yet deleted
    pc,        \* per delivery: where the message, then the task, is
    retries,   \* self.request.retries
    seen,      \* the row as the task's session last loaded it
    api,       \* per job: where request_export is
    apiSeen,   \* the row as the request's session last loaded it
    boot,      \* "starting", "loaded" (recovery has queried) or "serving"
    reap,      \* per job: the row recovery loaded, NoRow if it did not
    dlq,       \* the dead-letter list
    runs,      \* history: how often a worker ran the job's task
    download   \* GET .../download passed its check, the file is not yet open

requestVars == <<api, apiSeen>>
taskVars    == <<pc, retries, seen>>
bootVars    == <<boot, reap>>
vars == <<row, csv, stale, parents, taskVars, requestVars, bootVars, dlq, runs,
          download>>

-----------------------------------------------------------------------------
(* Rows, and how a session writes them. *)

Open    == {"pending", "running"}
Settled == {"completed", "failed"}

Errors == {"none",
           "task",              \* str(exc) of the last attempt
           "queue",             \* "The export worker queue is unavailable..."
           "abandoned"}         \* "Job was left in '...' state and abandoned"

Row == [status   : Open \cup Settled \cup {"absent"},
        attempts : 0..MaxAttempts,
        file     : BOOLEAN,     \* file_path is set
        error    : Errors,      \* error_message
        finished : BOOLEAN]     \* completed_at is set

NoRow == [status |-> "absent", attempts |-> 0, file |-> FALSE,
          error |-> "none", finished |-> FALSE]

FreshRow == [NoRow EXCEPT !.status = "pending"]

Exists(j) == row[j].status # "absent"

\* The row after a session that loaded s commits the values w over r.
Merge(r, s, w) ==
    [status   |-> Column(r.status,   s.status,   w.status),
     attempts |-> Column(r.attempts, s.attempts, w.attempts),
     file     |-> Column(r.file,     s.file,     w.file),
     error    |-> Column(r.error,    s.error,    w.error),
     finished |-> Column(r.finished, s.finished, w.finished)]

Commit(j, s, w) == row' = [row EXCEPT ![j] = Merge(row[j], s, w)]

\* Faults a change to the code could bring in, each before the definition it
\* would replace: the count of the finished attempts, not of this one; no count;
\* a give-up that sets the status only; a sweep that leaves out completed_at.
ClaimedBefore(s, n)    == [s EXCEPT !.status = "running", !.attempts = n - 1]
ClaimedUncounted(s, n) == [s EXCEPT !.status = "running"]
GivenUpSilently(s, n)  == [s EXCEPT !.status = "failed", !.attempts = n]

AbandonedUntimed(s)    == [s EXCEPT !.status = "failed", !.error = "abandoned"]

Claimed(s, n)   == [s EXCEPT !.status = "running", !.attempts = n]
Finished(s)     == [s EXCEPT !.status = "completed", !.file = TRUE,
                             !.error = "none", !.finished = TRUE]
GivenUp(s, n)   == [s EXCEPT !.status = "failed", !.attempts = n,
                             !.error = "task", !.finished = TRUE]
Refused(s)      == [s EXCEPT !.status = "failed", !.attempts = 0,
                             !.error = "queue", !.finished = TRUE]
Abandoned(s)    == [s EXCEPT !.status = "failed", !.error = "abandoned",
                             !.finished = TRUE]

-----------------------------------------------------------------------------
(* Where the processes are. *)

InTry     == {"fetched", "loaded", "started", "reloaded", "writing", "written"}
InHandler == {"except", "giveup", "bury"}
InWorker  == InTry \cup InHandler
PCs       == {"unsent", "queued", "ended"} \cup InWorker

InRequest == {"created", "rejected", "marking"}

\* Somebody is still going to work on job j.
Live(j) == \/ api[j] \in InRequest
           \/ \E d \in Delivery : JobOf(d) = j /\ pc[d] \notin {"unsent", "ended"}

TypeOK ==
    /\ row      \in [Jobs -> Row]
    /\ csv      \in [Jobs -> {"none", "partial", "whole"}]
    /\ stale    \in [Jobs -> BOOLEAN]
    /\ parents  \subseteq Parents
    /\ pc       \in [Delivery -> PCs]
    /\ retries  \in [Delivery -> 0..(MaxAttempts - 1)]
    /\ seen     \in [Delivery -> Row]
    /\ api      \in [Jobs -> {"idle", "done"} \cup InRequest]
    /\ apiSeen  \in [Jobs -> Row]
    /\ boot     \in {"starting", "loaded", "serving"}
    /\ reap     \in [Jobs -> Row]
    /\ dlq      \subseteq [job : Jobs, retryable : BOOLEAN]
    /\ runs     \in [Jobs -> Nat]
    /\ download \in [Jobs -> BOOLEAN]

Init ==
    /\ row      = [j \in Jobs |-> NoRow]
    /\ csv      = [j \in Jobs |-> "none"]
    /\ stale    = [j \in Jobs |-> FALSE]
    /\ parents  = Parents
    /\ pc       = [d \in Delivery |-> "unsent"]
    /\ retries  = [d \in Delivery |-> 0]
    /\ seen     = [d \in Delivery |-> NoRow]
    /\ api      = [j \in Jobs |-> "idle"]
    /\ apiSeen  = [j \in Jobs |-> NoRow]
    /\ boot     = "starting"
    /\ reap     = [j \in Jobs |-> NoRow]
    /\ dlq      = {}
    /\ runs     = [j \in Jobs |-> 0]
    /\ download = [j \in Jobs |-> FALSE]

-----------------------------------------------------------------------------
(* request_export: the API process. *)

\* The row is committed before anything is sent to the broker.
RequestExport(j) ==
    /\ boot = "serving"
    /\ api[j] = "idle"
    /\ ParentsOf[j] \subseteq parents
    /\ row'     = [row EXCEPT ![j] = FreshRow]
    /\ api'     = [api EXCEPT ![j] = "created"]
    /\ apiSeen' = [apiSeen EXCEPT ![j] = FreshRow]
    /\ UNCHANGED <<csv, stale, parents, taskVars, bootVars, dlq, runs, download>>

RequestEnds(j) ==
    /\ api'     = [api EXCEPT ![j] = "done"]
    /\ apiSeen' = [apiSeen EXCEPT ![j] = NoRow]

Unread == UNCHANGED <<csv, stale, parents, bootVars, dlq, runs, download>>

\* The row was deleted between the commit and db.refresh, which then raises.
RequestVanishes(j) ==
    /\ api[j] = "created"
    /\ ~Exists(j)
    /\ RequestEnds(j)
    /\ UNCHANGED <<row, taskVars>> /\ Unread

Enqueue(j) ==
    /\ api[j] = "created"
    /\ RequestEnds(j)
    /\ pc' = [pc EXCEPT ![Primary(j)] = "queued"]
    /\ UNCHANGED <<row, retries, seen>> /\ Unread

\* delay() raises.  When only the broker's answer got lost, it has the message.
EnqueueFails(j) ==
    /\ api[j] = "created"
    /\ api' = [api EXCEPT ![j] = "rejected"]
    /\ \/ "publishError" \in Disturbances /\ UNCHANGED pc
       \/ "lostReply" \in Disturbances
          /\ pc' = [pc EXCEPT ![Primary(j)] = "queued"]
    /\ UNCHANGED <<row, retries, seen, apiSeen>> /\ Unread

LoadRejected(j) ==
    /\ api[j] = "rejected"
    /\ IF Exists(j) THEN /\ api'     = [api EXCEPT ![j] = "marking"]
                         /\ apiSeen' = [apiSeen EXCEPT ![j] = row[j]]
                    ELSE RequestEnds(j)
    /\ UNCHANGED <<row, taskVars>> /\ Unread

\* An UPDATE that finds no row raises instead of writing.
MarkRejected(j) ==
    /\ api[j] = "marking"
    /\ RequestEnds(j)
    /\ IF Exists(j) THEN Commit(j, apiSeen[j], Refused(apiSeen[j]))
                    ELSE UNCHANGED row
    /\ UNCHANGED taskVars /\ Unread

-----------------------------------------------------------------------------
(* The broker and generate_project_export: a worker process per delivery.  *)

To(d, p)  == pc' = [pc EXCEPT ![d] = p]
See(d, r) == seen' = [seen EXCEPT ![d] = r]
Ends(d)   == /\ To(d, "ended") /\ See(d, NoRow)
             /\ retries' = [retries EXCEPT ![d] = 0]
Fails(d)  == To(d, "except") /\ See(d, NoRow) /\ UNCHANGED retries

Elsewhere == UNCHANGED <<stale, parents, requestVars, bootVars, download>>

\* Fault: the pipeline is built and never executed.
PushForgotten(j, again) == UNCHANGED dlq

\* push_dead_letter never raises: without Redis the entry is dropped.
Push(j, again) ==
    \/ dlq' = dlq \cup {[job |-> j, retryable |-> again]}
    \/ "redisDown" \in Disturbances /\ UNCHANGED dlq

Duplicate(d, e) ==
    /\ "duplicate" \in Disturbances
    /\ pc[d] = "queued" /\ pc[e] = "unsent" /\ JobOf(d) = JobOf(e)
    /\ To(e, "queued")
    /\ retries' = [retries EXCEPT ![e] = retries[d]]
    /\ UNCHANGED <<row, csv, seen, dlq, runs>> /\ Elsewhere

\* A worker takes the message and acknowledges it before it runs the task.
Fetch(d) ==
    /\ pc[d] = "queued"
    /\ To(d, "fetched")
    /\ runs' = [runs EXCEPT ![JobOf(d)] = @ + 1]
    /\ UNCHANGED <<row, csv, retries, seen, dlq>> /\ Elsewhere

LoadJob(d) ==
    /\ pc[d] = "fetched" /\ Exists(JobOf(d))
    /\ To(d, "loaded") /\ See(d, row[JobOf(d)])
    /\ UNCHANGED <<row, csv, retries, dlq, runs>> /\ Elsewhere

LoadMissing(d) ==
    /\ pc[d] = "fetched" /\ ~Exists(JobOf(d))
    /\ Ends(d)
    /\ Push(JobOf(d), FALSE)
    /\ UNCHANGED <<row, csv, runs>> /\ Elsewhere

\* RUNNING and the attempt number are committed; without a change there is no
\* UPDATE to miss the row.
StartRun(d) ==
    LET claim == Claimed(seen[d], retries[d] + 1) IN
    /\ pc[d] = "loaded"
    /\ IF Exists(JobOf(d))
       THEN Commit(JobOf(d), seen[d], claim) /\ To(d, "started")
            /\ UNCHANGED <<seen, retries>>
       ELSE /\ UNCHANGED row
            /\ IF claim = seen[d] THEN To(d, "started") /\ UNCHANGED <<seen, retries>>
                                  ELSE Fails(d)
    /\ UNCHANGED <<csv, dlq, runs>> /\ Elsewhere

\* The commit expired the row: job.project_id reads it again.
ReloadJob(d) ==
    /\ pc[d] = "started"
    /\ IF Exists(JobOf(d)) THEN To(d, "reloaded") /\ See(d, row[JobOf(d)])
                                /\ UNCHANGED retries
                           ELSE Fails(d)
    /\ UNCHANGED <<row, csv, dlq, runs>> /\ Elsewhere

OpenCsv(d) ==
    /\ pc[d] = "reloaded"
    /\ To(d, "writing")
    /\ csv' = [csv EXCEPT ![JobOf(d)] = "partial"]
    /\ UNCHANGED <<row, retries, seen, dlq, runs>> /\ Elsewhere

\* Fault: the commit comes before the file is closed and flushed.
CloseCsvLater(d) ==
    /\ pc[d] = "writing"
    /\ To(d, "written")
    /\ UNCHANGED <<row, csv, retries, seen, dlq, runs>> /\ Elsewhere

\* Two deliveries write one path: it is whole when the last of them is done.
CloseCsv(d) ==
    /\ pc[d] = "writing"
    /\ To(d, "written")
    /\ csv' = [csv EXCEPT ![JobOf(d)] =
                 IF \E e \in Delivery \ {d} : JobOf(e) = JobOf(d) /\ pc[e] = "writing"
                 THEN "partial" ELSE "whole"]
    /\ UNCHANGED <<row, retries, seen, dlq, runs>> /\ Elsewhere

Complete(d) ==
    /\ pc[d] = "written"
    /\ IF Exists(JobOf(d)) THEN Commit(JobOf(d), seen[d], Finished(seen[d])) /\ Ends(d)
                           ELSE UNCHANGED row /\ Fails(d)
    /\ UNCHANGED <<csv, dlq, runs>> /\ Elsewhere

Raise(d) ==
    /\ "taskError" \in Disturbances
    /\ pc[d] \in InTry
    /\ Fails(d)
    /\ UNCHANGED <<row, csv, dlq, runs>> /\ Elsewhere

\* Fault: max_retries counts the tries, and one is left out.
LastAttemptEarly(d) == retries[d] + 2 >= MaxAttempts
LastAttempt(d)      == retries[d] = MaxAttempts - 1

\* Fault: every attempt that fails marks the row failed, as before the rework.
RetryAfterFailing(d) ==
    /\ pc[d] = "except" /\ ~LastAttempt(d)
    /\ To(d, "queued")
    /\ retries' = [retries EXCEPT ![d] = @ + 1]
    /\ row' = [row EXCEPT ![JobOf(d)] = IF @ = NoRow THEN @ ELSE GivenUp(@, retries[d] + 1)]
    /\ UNCHANGED <<csv, seen, dlq, runs>> /\ Elsewhere

\* self.retry: a new message with the next retry count; the row stays as it is.
Retry(d) ==
    /\ pc[d] = "except" /\ ~LastAttempt(d)
    /\ To(d, "queued")
    /\ retries' = [retries EXCEPT ![d] = @ + 1]
    /\ UNCHANGED <<row, csv, seen, dlq, runs>> /\ Elsewhere

\* The broker refuses it: the task is over and nobody marks the row.
RetryLost(d) ==
    /\ "retryLost" \in Disturbances
    /\ pc[d] = "except" /\ ~LastAttempt(d)
    /\ Ends(d)
    /\ UNCHANGED <<row, csv, dlq, runs>> /\ Elsewhere

GiveUpLoad(d) ==
    /\ pc[d] = "except" /\ LastAttempt(d)
    /\ To(d, IF Exists(JobOf(d)) THEN "giveup" ELSE "bury")
    /\ See(d, row[JobOf(d)])
    /\ UNCHANGED <<row, csv, retries, dlq, runs>> /\ Elsewhere

\* Fault: the failure is assigned and not committed.
GiveUpUncommitted(d) ==
    /\ pc[d] = "giveup"
    /\ To(d, "bury")
    /\ UNCHANGED <<row, retries, seen, csv, dlq, runs>> /\ Elsewhere

GiveUp(d) ==
    /\ pc[d] = "giveup"
    /\ IF Exists(JobOf(d))
       THEN /\ Commit(JobOf(d), seen[d], GivenUp(seen[d], retries[d] + 1))
            /\ To(d, "bury") /\ UNCHANGED <<retries, seen>>
       ELSE UNCHANGED row /\ Ends(d)
    /\ UNCHANGED <<csv, dlq, runs>> /\ Elsewhere

\* The payload reads the row once more: gone since the commit, that raises.
Bury(d) ==
    /\ pc[d] = "bury"
    /\ Ends(d)
    /\ IF seen[d] # NoRow /\ ~Exists(JobOf(d)) THEN UNCHANGED dlq
                                               ELSE Push(JobOf(d), TRUE)
    /\ UNCHANGED <<row, csv, runs>> /\ Elsewhere

HandlerError(d) ==
    /\ "dbError" \in Disturbances
    /\ pc[d] \in InHandler
    /\ Ends(d)
    /\ UNCHANGED <<row, csv, dlq, runs>> /\ Elsewhere

\* The acknowledged message dies with the process that runs it.
WorkerCrash(d) ==
    /\ "workerCrash" \in Disturbances
    /\ pc[d] \in InWorker
    /\ Ends(d)
    /\ UNCHANGED <<row, csv, dlq, runs>> /\ Elsewhere

-----------------------------------------------------------------------------
(* The restart of the API, deletions, downloads and the clock. *)

ApiCrash ==
    /\ "apiCrash" \in Disturbances
    /\ boot'     = "starting"
    /\ reap'     = [j \in Jobs |-> NoRow]
    /\ api'      = [j \in Jobs |-> IF api[j] \in InRequest THEN "done" ELSE api[j]]
    /\ apiSeen'  = [j \in Jobs |-> NoRow]
    /\ download' = [j \in Jobs |-> FALSE]
    /\ UNCHANGED <<row, csv, stale, parents, taskVars, dlq, runs>>

\* What the sweep queries.  Faults: every old row; not the pending ones.
StrandedAny(j)     == stale[j] /\ Exists(j)
StrandedRunning(j) == stale[j] /\ row[j].status = "running"
Stranded(j)        == stale[j] /\ row[j].status \in Open

RecoverLoad ==
    /\ boot = "starting"
    /\ boot' = "loaded"
    /\ reap' = [j \in Jobs |-> IF Stranded(j) THEN row[j] ELSE NoRow]
    /\ UNCHANGED <<row, csv, stale, parents, taskVars, requestVars, dlq, runs,
                   download>>

\* One commit for all of them.  None can have been deleted in between: the only
\* API process is this one, and it serves nothing before its startup is over.
RecoverCommit ==
    /\ boot = "loaded"
    /\ boot' = "serving"
    /\ row'  = [j \in Jobs |-> IF reap[j] = NoRow THEN row[j]
                               ELSE Merge(row[j], reap[j], Abandoned(reap[j]))]
    /\ reap' = [j \in Jobs |-> NoRow]
    /\ UNCHANGED <<csv, stale, parents, taskVars, requestVars, dlq, runs, download>>

\* An exception in the sweep is logged and the API starts all the same.
RecoverSkip ==
    /\ "dbError" \in Disturbances
    /\ boot \in {"starting", "loaded"}
    /\ boot' = "serving"
    /\ reap' = [j \in Jobs |-> NoRow]
    /\ UNCHANGED <<row, csv, stale, parents, taskVars, requestVars, dlq, runs,
                   download>>

\* Deleting a project or a user cascades to the jobs; files are left behind.
DeleteParent(p) ==
    /\ "delete" \in Disturbances
    /\ boot = "serving" /\ p \in parents
    /\ parents' = parents \ {p}
    /\ row' = [j \in Jobs |-> IF p \in ParentsOf[j] THEN NoRow ELSE row[j]]
    /\ UNCHANGED <<csv, stale, taskVars, requestVars, bootVars, dlq, runs, download>>

DownloadCheck(j) ==
    /\ boot = "serving"
    /\ row[j].status = "completed" /\ row[j].file
    /\ download' = [download EXCEPT ![j] = TRUE]
    /\ UNCHANGED <<row, csv, stale, parents, taskVars, requestVars, bootVars, dlq,
                   runs>>

DownloadServe(j) ==
    /\ download[j]
    /\ download' = [download EXCEPT ![j] = FALSE]
    /\ UNCHANGED <<row, csv, stale, parents, taskVars, requestVars, bootVars, dlq,
                   runs>>

\* The grace period of a job runs out; unless jobs may be "slow", the period is
\* longer than anything that is still going to happen to the job.
Age(j) ==
    /\ Exists(j) /\ ~stale[j]
    /\ Live(j) => "slow" \in Disturbances
    /\ stale' = [stale EXCEPT ![j] = TRUE]
    /\ UNCHANGED <<row, csv, parents, taskVars, requestVars, bootVars, dlq, runs,
                   download>>

-----------------------------------------------------------------------------
RequestStep(j) == \/ RequestVanishes(j) \/ Enqueue(j) \/ EnqueueFails(j)
                  \/ LoadRejected(j) \/ MarkRejected(j)

\* What a worker does as long as it lives.
TaskStep(d) == \/ Fetch(d) \/ LoadJob(d) \/ LoadMissing(d) \/ StartRun(d)
               \/ ReloadJob(d) \/ OpenCsv(d) \/ CloseCsv(d) \/ Complete(d)
               \/ Raise(d) \/ Retry(d) \/ RetryLost(d) \/ GiveUpLoad(d)
               \/ GiveUp(d) \/ Bury(d) \/ HandlerError(d)

BootStep == RecoverLoad \/ RecoverCommit \/ RecoverSkip

Next == \/ BootStep \/ ApiCrash
        \/ \E j \in Jobs : \/ RequestExport(j) \/ RequestStep(j) \/ Age(j)
                           \/ DownloadCheck(j) \/ DownloadServe(j)
        \/ \E d \in Delivery : TaskStep(d) \/ WorkerCrash(d)
        \/ \E d, e \in Delivery : Duplicate(d, e)
        \/ \E p \in Parents : DeleteParent(p)

Spec == Init /\ [][Next]_vars

\* A request runs to its end, the workers keep consuming, an API that starts
\* finishes starting, and time passes.
Fairness == /\ \A j \in Jobs : WF_vars(RequestStep(j)) /\ WF_vars(Age(j))
            /\ \A d \in Delivery : WF_vars(TaskStep(d))
            /\ WF_vars(BootStep)

FairSpec == Spec /\ Fairness

-----------------------------------------------------------------------------
(* Properties.  The first group is promised as long as nobody competes for a *)
(* job with its one runner, that is, of Undisputed instances only.           *)

\* No live job outlasts the grace period and no message is delivered twice.
Undisputed == Disturbances \cap {"slow", "duplicate", "lostReply"} = {}

\* In an undisputed instance a poll of GET /export-jobs/{id} does not see the
\* columns of two outcomes mixed: completed comes with a file and without an
\* error, failed with a reason, and a job that is still open shows neither.
RowTellsOneStory ==
    \A j \in Jobs :
        /\ row[j].status = "completed" =>
              row[j].error = "none" /\ row[j].file /\ row[j].finished
        /\ row[j].status = "failed" =>
              row[j].error # "none" /\ ~row[j].file /\ row[j].finished
        /\ row[j].status \in Open =>
              row[j].error = "none" /\ ~row[j].file /\ ~row[j].finished

\* While a worker, the broker or the request still holds a job, its row is not
\* settled: no retry shows the client a failure that is still being worked on.
NotSettledWhileLive ==
    \A j \in Jobs :
        row[j].status \in Settled =>
            /\ api[j] = "done"
            /\ \A d \in Delivery :
                  JobOf(d) = j => pc[d] \in {"unsent", "bury", "ended"}

\* Whatever a finished job or an admitted download points at is a complete file,
\* also while the job is being deleted or the API restarts.
WholeFile ==
    \A j \in Jobs : row[j].status = "completed" \/ download[j] => csv[j] = "whole"

\* The attempts column of a job its worker settled is the number of times the
\* task really ran, through every retry and crash.
AttemptsCountRuns ==
    \A j \in Jobs :
        row[j].status = "completed" \/ row[j].error = "task" => row[j].attempts = runs[j]

\* A dead letter that can be replayed belongs to a job that failed after its last
\* attempt and says so, or was deleted since.
DeadLetterMatchesRow ==
    \A m \in dlq : m.retryable => ~Exists(m.job) \/ row[m.job].error = "task"

\* The second group holds in every instance, also while the sweep, a second
\* delivery or a request that was refused competes with the runner of a job.
\*
\* Whichever of them writes last, and over whichever columns, no end is blank:
\* completed has its path, failed a reason or the path of the completion it was
\* written over, both their time; and these are never there without an end.
EndsLeaveTraces ==
    \A j \in Jobs :
        /\ row[j].status = "completed" => row[j].file
        /\ row[j].status = "failed" => row[j].error # "none" \/ row[j].file
        /\ row[j].status \in Settled \/ row[j].error # "none" \/ row[j].file
              => row[j].finished

\* Who may come to write the row of a job that has settled: the sweep that found
\* it open or the runner that outlasted the grace period; a second delivery; a
\* request that was refused although its message got through, or that runner.
Overlapping(j) ==
    \/ stale[j] /\ (Live(j) \/ reap[j].status \in Open)
    \/ \E d \in Delivery : JobOf(d) = j /\ d # Primary(j) /\ pc[d] # "unsent"
    \/ pc[Primary(j)] # "unsent" /\ (api[j] = "marking" \/ row[j].error = "queue")

\* A settled row never changes again but for these; it can only be deleted.  So
\* no retry, no late step of its only runner and no sweep that comes later does.
SettledIsFinal ==
    [][\A j \in Jobs :
          row[j].status \in Settled /\ ~Overlapping(j) => row'[j] \in {row[j], NoRow}
      ]_vars

\* Nothing replayable is dead-lettered before the retry budget is used up, and a
\* dead letter without a replay is about a job that is gone: whatever happens.
DeadLetterIsEarned ==
    \A m \in dlq : IF m.retryable THEN runs[m.job] >= MaxAttempts ELSE ~Exists(m.job)

\* Every job the worker gave up on ends in the dead-letter list (while Redis and
\* the worker survive the handler).
GivenUpIsDeadLettered ==
    \A j \in Jobs :
        row[j].error = "task" => \/ [job |-> j, retryable |-> TRUE] \in dlq
                                \/ \E d \in Delivery : JobOf(d) = j /\ pc[d] = "bury"

\* A deleted job stays deleted: no session still at work on it, in the API, a
\* worker or the recovery, writes its row back.
DeletedStaysDeleted ==
    [][\A j \in Jobs : ~Exists(j) /\ api[j] # "idle" => row'[j] = NoRow]_vars

\* What polls observe is what ExportContract allows.
StatusOf(j) == IF Exists(j) THEN row[j].status
               ELSE IF api[j] = "idle" THEN "unrequested" ELSE "deleted"

Shown   == [j \in Jobs |-> StatusOf(j)]
Counted == [j \in Jobs |-> row[j].attempts]

Contract == INSTANCE ExportContract WITH status <- Shown, attempts <- Counted

ContractHolds == Contract!CSpec

\* Without crashes every requested export ends: polling does not go on for ever.
EverySettles == \A j \in Jobs : row[j].status \in Open ~> row[j].status \notin Open

\* Whatever dies and whoever competes for the row, in the end an export says one
\* thing for good, if the API is started again and again and each time gets
\* through its recovery: a job once settled may be opened again, not for ever.
SettlesForGood ==
    ([]<>(boot = "starting") /\ []<>(boot = "serving")) =>
        \A j \in Jobs : \E s \in Settled \cup {"absent"} : <>[](row[j].status = s)

=============================================================================
