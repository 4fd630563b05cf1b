--------------------------- MODULE DashboardCache ---------------------------
(***************************************************************************)
(* The cached dashboard summary of one project owner.  A dashboard request *)
(* asks Redis, computes the summary from several SELECTs on a miss and     *)
(* stores it; a request that changes the owner's counts commits and then   *)
(* deletes the key.  Nothing ties a SET to the deletions that happened     *)
(* while its summary was computed, and a Redis that does not answer turns  *)
(* every operation into a no-op.                                           *)
(*                                                                         *)
(* A summary is represented by the database version its first SELECT saw:  *)
(* if that is still the current one, so is everything else in it.          *)
(***************************************************************************)
EXTENDS Naturals

CONSTANTS Readers,     \* threads that serve GET /dashboard/summary, repeatedly
          Writers,     \* requests that change the counts, once each
          Rows,        \* the owner's projects and their issues
          Needs,       \* writer -> the rows it reads again after its commit
          Deletes,     \* writer -> the rows its commit deletes
          Faults       \* what may go wrong in an instance

\* No writer reads again what it deletes: delete_issue and delete_project take
\* what they need before they commit.
ASSUME WritersAssumption ==
    /\ Needs   \in [Writers -> SUBSET Rows]
    /\ Deletes \in [Writers -> SUBSET Rows]
    /\ \A w \in Writers : Needs[w] \cap Deletes[w] = {}
ASSUME FaultsAssumption == Faults \subseteq {"redisDown", "crash"}

VARIABLES
    version,   \* how many changes have been committed
    rows,      \* the rows not yet deleted
    cache,     \* the key dashboard:summary:{owner}
    reader,    \* per reader: where it is
    summary,   \* per reader: the summary it is computing
    writer,    \* per writer: where it is
    latest     \* history: the writers that committed the current version

readerVars == <<reader, summary>>
vars == <<version, rows, cache, readerVars, writer, latest>>

\* A summary, with a history of it: late says that the deletion of the key that
\* should have removed this summary happened before it was stored, or never.
Summary == [kind : {"summary"}, seen : Nat, late : BOOLEAN]
NoEntry == [kind |-> "none", seen |-> 0, late |-> FALSE]
Fresh   == [kind |-> "summary", seen |-> version, late |-> FALSE]

TypeOK ==
    /\ version  \in Nat
    /\ rows     \subseteq Rows
    /\ cache    \in Summary \cup {NoEntry}
    /\ reader   \in [Readers -> {"idle", "missed", "counted"}]
    /\ summary  \in [Readers -> Summary \cup {NoEntry}]
    /\ writer   \in [Writers -> {"idle", "committed", "found", "done"}]
    /\ latest   \subseteq Writers

Init ==
    /\ version  = 0
    /\ rows     = Rows
    /\ cache    = NoEntry
    /\ reader   = [r \in Readers |-> "idle"]
    /\ summary  = [r \in Readers |-> NoEntry]
    /\ writer   = [w \in Writers |-> "idle"]
    /\ latest   = {}

-----------------------------------------------------------------------------
(* get_dashboard_summary.  A hit changes nothing. *)

GetMiss(r) ==
    /\ reader[r] = "idle"
    /\ cache = NoEntry \/ "redisDown" \in Faults
    /\ reader' = [reader EXCEPT ![r] = "missed"]
    /\ UNCHANGED <<version, rows, cache, summary, writer, latest>>

\* _compute_summary: the first of its SELECTs.
Count(r) ==
    /\ reader[r] = "missed"
    /\ reader'  = [reader  EXCEPT ![r] = "counted"]
    /\ summary' = [summary EXCEPT ![r] = Fresh]
    /\ UNCHANGED <<version, rows, cache, writer, latest>>

Done(r) ==
    /\ reader[r] = "counted"
    /\ reader'  = [reader  EXCEPT ![r] = "idle"]
    /\ summary' = [summary EXCEPT ![r] = NoEntry]

Set(r) ==
    /\ Done(r)
    /\ cache' = summary[r]
    /\ UNCHANGED <<version, rows, writer, latest>>

SetLost(r) ==
    /\ "redisDown" \in Faults
    /\ Done(r)
    /\ UNCHANGED <<version, rows, cache, writer, latest>>

-----------------------------------------------------------------------------
(* A request that changes the counts. *)

Commit(w) ==
    /\ writer[w] = "idle"
    /\ Needs[w] \cup Deletes[w] \subseteq rows
    /\ writer'  = [writer EXCEPT ![w] = "committed"]
    /\ version' = version + 1
    /\ latest'  = {w}
    /\ rows'    = rows \ Deletes[w]
    /\ UNCHANGED <<cache, readerVars>>

\* A fault: the owner is looked up in the row that was deleted.
OwnerKnownLate(w) == Needs[w] \cup Deletes[w] \subseteq rows

OwnerKnown(w) == Needs[w] \subseteq rows

\* The changed row is refreshed and its project's owner looked up.
FindOwner(w) ==
    /\ writer[w] = "committed"
    /\ OwnerKnown(w)
    /\ writer' = [writer EXCEPT ![w] = "found"]
    /\ UNCHANGED <<version, rows, cache, readerVars, latest>>

\* Another request has deleted the row (the refresh fails, a 500) or the project
\* (no owner): nothing is invalidated.
OwnerGone(w) ==
    /\ writer[w] = "committed"
    /\ ~OwnerKnown(w)
    /\ writer' = [writer EXCEPT ![w] = "done"]
    /\ UNCHANGED <<version, rows, cache, readerVars, latest>>

\* Every summary that was computed before this moment and is not yet stored
\* will be stored although its deletion is over.
PassBy == summary' = [r \in Readers |->
                         IF reader[r] = "counted"
                         THEN [summary[r] EXCEPT !.late = TRUE] ELSE summary[r]]

\* A fault: the key of the user who made the change, who may be an admin.
InvalidateActor(w) ==
    /\ writer[w] = "found"
    /\ writer' = [writer EXCEPT ![w] = "done"]
    /\ PassBy
    /\ UNCHANGED <<version, rows, cache, reader, latest>>

Invalidate(w) ==
    /\ writer[w] = "found"
    /\ writer' = [writer EXCEPT ![w] = "done"]
    /\ cache'  = NoEntry
    /\ PassBy
    /\ UNCHANGED <<version, rows, reader, latest>>

\* delete_cache swallows the error: what it should have removed stays.
InvalidateLost(w) ==
    /\ "redisDown" \in Faults
    /\ writer[w] = "found"
    /\ writer' = [writer EXCEPT ![w] = "done"]
    /\ cache'  = IF cache = NoEntry THEN NoEntry ELSE [cache EXCEPT !.late = TRUE]
    /\ PassBy
    /\ UNCHANGED <<version, rows, reader, latest>>

Answering(w) == writer[w] \in {"committed", "found"}

\* The process dies, and with it what its requests had still to do.
Crash ==
    /\ "crash" \in Faults
    /\ reader'  = [r \in Readers |-> "idle"]
    /\ summary' = [r \in Readers |-> NoEntry]
    /\ writer'  = [w \in Writers |-> IF Answering(w) THEN "done" ELSE writer[w]]
    /\ cache'   = IF cache = NoEntry \/ \A w \in Writers : ~Answering(w)
                  THEN cache ELSE [cache EXCEPT !.late = TRUE]
    /\ UNCHANGED <<version, rows, latest>>

\* A fault: the key is stored without a lifetime.
ExpireNever == FALSE /\ UNCHANGED vars

\* DASHBOARD_CACHE_TTL_SECONDS after the SET.
Expire ==
    /\ cache # NoEntry
    /\ cache' = NoEntry
    /\ UNCHANGED <<version, rows, readerVars, writer, latest>>

ReaderStep(r) == GetMiss(r) \/ Count(r) \/ Set(r) \/ SetLost(r)
WriterStep(w) == \/ Commit(w) \/ FindOwner(w) \/ OwnerGone(w)
                 \/ Invalidate(w) \/ InvalidateLost(w)

Next == \/ \E r \in Readers : ReaderStep(r)
        \/ \E w \in Writers : WriterStep(w)
        \/ Expire \/ Crash

Spec == Init /\ [][Next]_vars

\* A request that is being served goes on; Redis expires keys.  A writer need
\* not come, and a reader need not ask.
Fairness ==
    /\ WF_vars(Expire)
    /\ \A r \in Readers : WF_vars(Count(r)) /\ WF_vars(Set(r) \/ SetLost(r))

FairSpec == Spec /\ Fairness

-----------------------------------------------------------------------------
(* Properties. *)

Outdated(e) == e.kind = "summary" /\ e.seen # version

WillDelete(w) == writer[w] = "found" \/ (writer[w] = "committed" /\ OwnerKnown(w))

\* An outdated summary is in the cache only while the request that outdated it
\* has still to delete the key, or when that deletion came before the SET or
\* got lost.  A deletion left out because the row or the project has gone never matters.
StaleHasReason ==
    Outdated(cache) =>
        cache.late \/ \E w \in Writers : WillDelete(w)

\* However an outdated summary got into the cache, it goes: when the counts
\* change no more, the cache ends up with the current summary or none.
EventuallyCurrent ==
    <>[](~Outdated(cache))

\* The same for the summaries being computed, and who is to delete them: the
\* writer that committed last cannot have found its owner gone.
Excused(e) == Outdated(e) => e.late \/ \E w \in latest : Answering(w)

LatestKnows ==
    /\ version # 0 => latest # {}
    /\ \A w \in latest : OwnerKnown(w)

Counting ==
    \A r \in Readers :
        /\ reader[r] = "counted" <=> summary[r] # NoEntry
        /\ summary[r].seen <= version

CacheInv == /\ TypeOK /\ LatestKnows /\ Counting
            /\ cache.seen <= version
            /\ Excused(cache) /\ \A r \in Readers : Excused(summary[r])

=============================================================================
