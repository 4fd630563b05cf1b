--------------------------- MODULE ExportContract ---------------------------
(***************************************************************************)
(* What DevTrack promises the client that polls GET /export-jobs/{id}: the *)
(* states of a job and the order in which they may be observed.  A job is  *)
(* requested once, is started with an ever growing attempt number, and     *)
(* ends as completed or failed; that end is final, and only the deletion   *)
(* of its project or requester makes the job disappear.                    *)
(***************************************************************************)
EXTENDS Naturals

CONSTANTS Jobs,          \* ids of the export jobs
          MaxAttempts    \* MAX_ATTEMPTS: the first try and its retries

VARIABLES status,        \* what a poll answers, per job
          attempts       \* the attempt counter shown with it

cvars == <<status, attempts>>

Open    == {"pending", "running"}
Settled == {"completed", "failed"}

CInit == /\ status   = [j \in Jobs |-> "unrequested"]
         /\ attempts = [j \in Jobs |-> 0]

Request(j) ==
    /\ status[j] = "unrequested"
    /\ status' = [status EXCEPT ![j] = "pending"]
    /\ UNCHANGED attempts

\* Attempt n begins; a try that died before it was recorded leaves a gap.
Begin(j, n) ==
    /\ status[j] \in Open
    /\ n > attempts[j]
    /\ status'   = [status EXCEPT ![j] = "running"]
    /\ attempts' = [attempts EXCEPT ![j] = n]

Succeed(j) ==
    /\ status[j] = "running"
    /\ status' = [status EXCEPT ![j] = "completed"]
    /\ UNCHANGED attempts

\* One job gives up at attempt n, which may not have been recorded yet.
Fail(j, n) ==
    /\ status[j] \in Open
    /\ n >= attempts[j]
    /\ status'   = [status EXCEPT ![j] = "failed"]
    /\ attempts' = [attempts EXCEPT ![j] = n]

\* A restart of the API reaps a set of abandoned jobs at once.
Reap(S) ==
    /\ \A j \in S : status[j] \in Open
    /\ status' = [j \in Jobs |-> IF j \in S THEN "failed" ELSE status[j]]
    /\ UNCHANGED attempts

\* Deleting a project or a user removes every job that hangs off it.
Remove(S) ==
    /\ \A j \in S : status[j] \in Open \cup Settled
    /\ status'   = [j \in Jobs |-> IF j \in S THEN "deleted" ELSE status[j]]
    /\ attempts' = [j \in Jobs |-> IF j \in S THEN 0 ELSE attempts[j]]

CNext == \/ \E j \in Jobs : Request(j) \/ Succeed(j)
         \/ \E j \in Jobs, n \in 0..MaxAttempts : Begin(j, n) \/ Fail(j, n)
         \/ \E S \in SUBSET Jobs : Reap(S) \/ Remove(S)

CSpec == CInit /\ [][CNext]_cvars

-----------------------------------------------------------------------------
\* What a client may conclude from two polls: the attempts never go down, an end
\* stays that end, and a job that has disappeared does not come back.
PollsMakeSense ==
    [][\A j \in Jobs :
          /\ status'[j] # "deleted" => attempts[j] <= attempts'[j]
          /\ status[j] \in Settled => status'[j] \in {status[j], "deleted"}
          /\ status[j] = "deleted" => status'[j] = "deleted"
      ]_cvars
=============================================================================
