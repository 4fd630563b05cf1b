--------------------------- MODULE ExportInvariant ---------------------------
(***************************************************************************)
(* Why an undisputed export is right: an inductive invariant of ExportJobs *)
(* while no live job outlasts the grace period and no message is doubled.  *)
(* It ties each job's row to the one place that may still write it.        *)
(***************************************************************************)
EXTENDS ExportJobs

\* The broker delivers one message per job.
OneDelivery == \A d \in Delivery : pc[d] # "unsent" => d = Primary(JobOf(d))

\* The request owns the job until it is done; only then is there a message.
RequestOwns(j) ==
    /\ api[j] = "idle"     => row[j] = NoRow /\ ~stale[j] /\ ~download[j]
    /\ api[j] \in InRequest => row[j] \in {NoRow, FreshRow}
    /\ api[j] = "marking"  => apiSeen[j] = FreshRow
    /\ api[j] # "done"     => pc[Primary(j)] = "unsent"

\* A session of the worker holds the row as it is, unless the row was deleted.
SnapshotsHold(j) ==
    LET d == Primary(j) IN
    /\ pc[d] \in {"loaded", "reloaded", "writing", "written", "giveup"} =>
          row[j] \in {NoRow, seen[d]}
    /\ pc[d] \in {"unsent", "queued", "fetched", "except"} => seen[d] = NoRow
    /\ reap[j] # NoRow => /\ boot = "loaded" /\ stale[j]
                          /\ reap[j] = row[j] /\ row[j].status \in Open

\* The attempt number runs behind the task until the claim is committed.
AttemptsFollowRuns(j) ==
    LET d == Primary(j) IN
    /\ pc[d] = "unsent" => row[j].attempts = 0 /\ runs[j] = 0 /\ retries[d] = 0
    /\ pc[d] = "queued" => runs[j] = retries[d]
    /\ pc[d] \in InWorker => runs[j] = retries[d] + 1
    /\ pc[d] \in {"queued", "fetched", "loaded"} => row[j].attempts <= retries[d]
    /\ pc[d] \in {"except", "giveup"} => row[j].attempts <= retries[d] + 1
    /\ pc[d] \in {"started", "reloaded", "writing", "written"} =>
          row[j] = NoRow \/ (row[j].status = "running" /\ row[j].attempts = retries[d] + 1)
    /\ pc[d] \in {"giveup", "bury"} => retries[d] = MaxAttempts - 1

\* A settled row has no writer left, and a stale one no worker.
WriterGone(j) ==
    LET d == Primary(j) IN
    /\ row[j].status \in Settled => api[j] = "done" /\ pc[d] \in {"unsent", "bury", "ended"}
    /\ pc[d] = "bury" => row[j] = NoRow \/ row[j].error = "task"
    /\ stale[j] => api[j] = "done" /\ pc[d] \in {"unsent", "ended"}

\* The file is whole from the end of its writing on.
FileFollows(j) ==
    LET d == Primary(j) IN
    /\ pc[d] = "written" => csv[j] = "whole"
    /\ row[j].status = "completed" \/ download[j] => csv[j] = "whole" /\ pc[d] = "ended"

\* Each status has its columns.
StoryTold(j) ==
    /\ row[j].status = "absent" => row[j] = NoRow
    /\ row[j].status = "completed" =>
          row[j].error = "none" /\ row[j].file /\ row[j].finished
    /\ row[j].status = "failed" =>
          row[j].error # "none" /\ ~row[j].file /\ row[j].finished
    /\ row[j].status \in Open =>
          row[j].error = "none" /\ ~row[j].file /\ ~row[j].finished
    /\ row[j].status = "completed" \/ row[j].error = "task" => row[j].attempts = runs[j]

LettersFollow ==
    \A m \in dlq : /\ api[m.job] = "done"
                   /\ m.retryable => row[m.job] = NoRow \/ row[m.job].error = "task"

JobInv(j) == /\ RequestOwns(j) /\ SnapshotsHold(j) /\ AttemptsFollowRuns(j)
             /\ WriterGone(j) /\ FileFollows(j) /\ StoryTold(j)

\* TLC checks that it holds; ExportJobs_proofs that it is inductive.
IInv == TypeOK /\ OneDelivery /\ LettersFollow /\ \A j \in Jobs : JobInv(j)

-----------------------------------------------------------------------------
(* What survives everything at once, disputed jobs included.               *)

\* An absent row is NoRow, and recovery holds rows only while none can go.
NoRevival(j) == /\ row[j].status = "absent" => row[j] = NoRow
                /\ reap[j] # NoRow => boot = "loaded" /\ Exists(j)

\* A message is sent once; every retry, on whatever copy of it, followed a run.
RunsCover(d) == /\ pc[d] # "unsent" => api[JobOf(d)] \notin {"idle", "created"}
                /\ retries[d] <= runs[JobOf(d)]
                /\ pc[d] \in InWorker => retries[d] < runs[JobOf(d)]
                /\ pc[d] \in {"giveup", "bury"} => retries[d] = MaxAttempts - 1

LetterEarned(m) == /\ api[m.job] # "idle"
                   /\ IF m.retryable THEN runs[m.job] >= MaxAttempts ELSE ~Exists(m.job)

BudgetInv == /\ TypeOK
             /\ \A j \in Jobs : NoRevival(j)
             /\ \A d \in Delivery : RunsCover(d)
             /\ \A m \in dlq : LetterEarned(m)

-----------------------------------------------------------------------------
(* What competing writers cannot lose, disputed jobs included.             *)

\* A session that loaded s is only behind what the row says now: a path and a
\* time stay once they are there, a reason stays or gives way to a path.
Behind(s, r) == /\ s.file     => r.file
                /\ s.finished => r.finished
                /\ s.error # "none" => r.error # "none" \/ r.file

Traced(r) == /\ r.status = "completed" => r.file
             /\ r.status = "failed" => r.error # "none" \/ r.file
             /\ r.status \in Settled \/ r.error # "none" \/ r.file => r.finished

SessionsBehind(j) == /\ Behind(apiSeen[j], row[j]) /\ Behind(reap[j], row[j])
                     /\ \A d \in Delivery : JobOf(d) = j => Behind(seen[d], row[j])

TraceInv(j) == /\ Traced(row[j])
               /\ Exists(j) => SessionsBehind(j)
               /\ api[j] = "idle" => apiSeen[j] = NoRow
               /\ \A d \in Delivery : JobOf(d) = j /\ pc[d] = "unsent" => seen[d] = NoRow

\* One message, and a job too young for the sweep.
Alone(j) == /\ ~stale[j]
            /\ \A d \in Delivery : JobOf(d) = j /\ d # Primary(j) => pc[d] = "unsent"

\* Then the row is settled by the request that finds no broker or by the last
\* step of the runner, and by both only if the refused message got through.
SettlerInv(j) ==
    /\ api[j] = "idle" => row[j] = NoRow
    /\ row[j].error = "queue" => api[j] = "done"
    /\ apiSeen[j].error # "queue"
    /\ reap[j] # NoRow => stale[j] /\ reap[j].status \in Open
    /\ Alone(j) =>
          /\ pc[Primary(j)] = "unsent" /\ api[j] \in InRequest => row[j] \in {NoRow, FreshRow}
          /\ row[j].status \in Settled /\ pc[Primary(j)] \notin {"unsent", "bury", "ended"}
                => row[j].error = "queue"

DisputeInv == BudgetInv /\ \A j \in Jobs : TraceInv(j) /\ SettlerInv(j)
=============================================================================
