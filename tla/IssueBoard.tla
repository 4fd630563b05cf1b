----------------------------- MODULE IssueBoard -----------------------------
(***************************************************************************)
(* What DevTrack promises of issues, as if every change were made at once  *)
(* and alone: an issue is opened once and in TODO, changes in one column   *)
(* at a time, leaves TODO for IN_PROGRESS only and never returns to it, is *)
(* commented on and told about only while it is there, and goes for good   *)
(* with all that was said of it.  The log alone stays, and grows even when *)
(* the issue is gone.  Of the workflow that is all: an issue that left     *)
(* TODO may go either way between IN_PROGRESS and DONE.                    *)
(***************************************************************************)
CONSTANTS Issues, Requests, Users, Nobody

VARIABLES board,    \* the issues
          remarks,  \* per issue: the requests that have a comment on it
          told,     \* per issue: which request told whom
          record    \* the requests in the activity log

bvars == <<board, remarks, told, record>>

Live(i) == board[i].status \in {"todo", "in_progress", "done"}

BInit ==
    /\ board \in [Issues -> [status : {"unborn", "todo"}, assignee : Users \cup {Nobody}]]
    /\ remarks = [i \in Issues |-> {}]
    /\ told    = [i \in Issues |-> {}]
    /\ record  = {}

Open(i, u) ==
    /\ board[i].status = "unborn"
    /\ board' = [board EXCEPT ![i] = [status |-> "todo", assignee |-> u]]
    /\ UNCHANGED <<remarks, told, record>>

Reassign(i, u) ==
    /\ Live(i)
    /\ board' = [board EXCEPT ![i].assignee = u]
    /\ UNCHANGED <<remarks, told, record>>

\* Out of TODO one goes to IN_PROGRESS; a request that loaded TODO may write
\* IN_PROGRESS over the DONE that others reached meanwhile.
Progress(i, s) ==
    /\ Live(i)
    /\ board[i].status = "todo" => s = "in_progress"
    /\ board' = [board EXCEPT ![i].status = s]
    /\ UNCHANGED <<remarks, told, record>>

Remove(i) ==
    /\ Live(i)
    /\ board' = [board EXCEPT ![i] = [status |-> "deleted", assignee |-> Nobody]]
    /\ remarks' = [remarks EXCEPT ![i] = {}]
    /\ told'    = [told EXCEPT ![i] = {}]
    /\ UNCHANGED record

Remark(i, r) ==
    /\ Live(i)
    /\ remarks' = [remarks EXCEPT ![i] = @ \cup {r}]
    /\ UNCHANGED <<board, told, record>>

Erase(i, r) ==
    /\ remarks' = [remarks EXCEPT ![i] = @ \ {r}]
    /\ UNCHANGED <<board, told, record>>

Tell(i, r, u) ==
    /\ Live(i)
    /\ told' = [told EXCEPT ![i] = @ \cup {[by |-> r, user |-> u]}]
    /\ UNCHANGED <<board, remarks, record>>

\* A change is logged after it was made, maybe after the issue was deleted.
Record(i, r) ==
    /\ board[i].status # "unborn"
    /\ record' = record \cup {r}
    /\ UNCHANGED <<board, remarks, told>>

BNext == \E i \in Issues :
    \/ Remove(i)
    \/ \E u \in Users \cup {Nobody} : Open(i, u) \/ Reassign(i, u)
    \/ \E s \in {"in_progress", "done"} : Progress(i, s)
    \/ \E r \in Requests : \/ Remark(i, r) \/ Erase(i, r) \/ Record(i, r)
                           \/ \E u \in Users : Tell(i, r, u)

BSpec == BInit /\ [][BNext]_bvars

-----------------------------------------------------------------------------
\* Nothing is said of an issue that is not there: a comment or a notification
\* of a deleted issue is never left behind, nor made afterwards.
NothingSaidOfNone ==
    \A i \in Issues : ~Live(i) => remarks[i] = {} /\ told[i] = {}
=============================================================================
