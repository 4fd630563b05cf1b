----------------------- MODULE DashboardCache_proofs -----------------------
(***************************************************************************)
(* Proofs about DashboardCache, for any readers, writers and rows, and *)
(* whatever fails.                                                         *)
(***************************************************************************)
EXTENDS DashboardCache, TLAPS

USE DEF readerVars

LEMMA InitCache == Init => CacheInv
  BY DEF Init, CacheInv, TypeOK, LatestKnows, Counting, Excused, Outdated, NoEntry

\* What is NoEntry needs no excuse.
LEMMA NoEntryExcused == Excused(NoEntry)
  BY DEF Excused, Outdated, NoEntry

\* A summary marked late is excused, and differs in nothing else.
LEMMA LateSummary ==
    ASSUME NEW e \in Summary
    PROVE  LET f == [e EXCEPT !.late = TRUE]
           IN  f \in Summary /\ f # NoEntry /\ f.seen = e.seen /\ f.late
  BY DEF Summary, NoEntry

LEMMA ReaderKeeps ==
    ASSUME CacheInv, NEW r \in Readers, ReaderStep(r) PROVE CacheInv'
<1> USE DEF CacheInv, TypeOK
<1>1. version' = version /\ rows' = rows /\ writer' = writer /\ latest' = latest
  BY DEF ReaderStep, GetMiss, Count, Set, SetLost
<1>2. LatestKnows'
  BY <1>1 DEF LatestKnows, OwnerKnown
<1>4. Fresh \in Summary /\ Fresh # NoEntry /\ Fresh.seen = version /\ Excused(Fresh)
  BY DEF Fresh, Summary, NoEntry, Excused, Outdated
<1>5. NoEntry.seen <= version
  BY DEF NoEntry
<1>6. CASE GetMiss(r)
  <2>1. TypeOK' /\ Counting' /\ cache' = cache /\ summary' = summary
    BY <1>6 DEF GetMiss, Counting
  <2>2. Excused(cache)' /\ \A q \in Readers : Excused(summary[q])'
    BY <2>1, <1>1 DEF Excused, Outdated, Answering
  <2>3. QED
    BY <1>1, <1>2, <2>1, <2>2
<1>7. CASE Count(r)
  <2>1. TypeOK' /\ Counting' /\ cache' = cache
    BY <1>7, <1>4 DEF Count, Counting
  <2>2. Excused(cache)' /\ \A q \in Readers : Excused(summary[q])'
    BY <2>1, <1>1, <1>4, <1>7 DEF Count, Excused, Outdated, Answering
  <2>3. QED
    BY <1>1, <1>2, <2>1, <2>2
<1>8. CASE Set(r) \/ SetLost(r)
  <2>1. TypeOK' /\ Counting' /\ cache'.seen <= version'
    BY <1>8, <1>1, <1>5 DEF Set, SetLost, Done, Counting
  <2>2. Excused(cache)' /\ \A q \in Readers : Excused(summary[q])'
    BY <1>8, <1>1, NoEntryExcused DEF Set, SetLost, Done, Excused, Outdated, Answering
  <2>3. QED
    BY <1>2, <2>1, <2>2
<1>9. QED
  BY <1>6, <1>7, <1>8 DEF ReaderStep

LEMMA WriterKeeps ==
    ASSUME CacheInv, NEW w \in Writers, WriterStep(w) PROVE CacheInv'
<1> USE DEF CacheInv, TypeOK
<1>1. CASE Commit(w)
  <2>1. TypeOK' /\ Counting' /\ cache'.seen <= version'
    <3>1. version' \in Nat /\ version <= version'
      BY <1>1 DEF Commit
    <3>2. cache.seen \in Nat /\ \A r \in Readers : summary[r].seen \in Nat
      BY DEF Summary, NoEntry
    <3>3. TypeOK'
      BY <1>1, <3>1 DEF Commit
    <3>4. QED
      BY <1>1, <3>1, <3>2, <3>3 DEF Commit, Counting
  <2>2. LatestKnows'
    BY <1>1, WritersAssumption DEF Commit, LatestKnows, OwnerKnown
  \* The writer itself is the excuse of all there is.
  <2>3. Excused(cache)' /\ \A r \in Readers : Excused(summary[r])'
    BY <1>1 DEF Commit, Excused, Answering
  <2>4. QED
    BY <2>1, <2>2, <2>3
<1>2. CASE Invalidate(w) \/ InvalidateLost(w)
  <2>1. version' = version /\ rows' = rows /\ latest' = latest /\ reader' = reader
    BY <1>2 DEF Invalidate, InvalidateLost
  <2>2. PassBy /\ writer' \in [Writers -> {"idle", "committed", "found", "done"}]
    BY <1>2 DEF Invalidate, InvalidateLost
  <2>3. LatestKnows'
    BY <2>1 DEF LatestKnows, OwnerKnown
  <2>4. /\ cache' \in Summary \cup {NoEntry}
        /\ cache'.seen <= version
        /\ cache' = NoEntry \/ cache'.late
    <3>1. CASE cache' = NoEntry
      BY <3>1 DEF NoEntry
    <3>2. CASE cache # NoEntry /\ cache' = [cache EXCEPT !.late = TRUE]
      BY <3>2, LateSummary
    <3>3. QED
      BY <1>2, <3>1, <3>2 DEF Invalidate, InvalidateLost
  <2>5. Excused(cache)'
    BY <2>4 DEF Excused, Outdated, NoEntry
  <2>6. ASSUME NEW r \in Readers
        PROVE  /\ summary'[r] \in Summary \cup {NoEntry}
               /\ summary'[r].seen = summary[r].seen
               /\ reader[r] = "counted" <=> summary'[r] # NoEntry
               /\ summary'[r] = NoEntry \/ summary'[r].late
    BY <2>2, LateSummary DEF PassBy, Counting
  <2>7. \A r \in Readers : Excused(summary[r])'
    BY <2>6 DEF Excused, Outdated, NoEntry
  <2>8. summary' \in [Readers -> Summary \cup {NoEntry}]
    BY <2>2, <2>6 DEF PassBy
  <2>9. TypeOK' /\ Counting'
    BY <2>1, <2>2, <2>4, <2>6, <2>8 DEF Counting
  <2>10. QED
    BY <2>1, <2>3, <2>4, <2>5, <2>7, <2>9
<1>3. CASE FindOwner(w)
  <2>1. TypeOK' /\ Counting' /\ cache'.seen <= version'
    BY <1>3 DEF FindOwner, Counting
  <2>2. LatestKnows'
    BY <1>3 DEF FindOwner, LatestKnows, OwnerKnown
  <2>3. Excused(cache)' /\ \A r \in Readers : Excused(summary[r])'
    BY <1>3 DEF FindOwner, Excused, Outdated, Answering
  <2>4. QED
    BY <2>1, <2>2, <2>3
\* The writer that finds its owner gone is no excuse of anything.
<1>4. CASE OwnerGone(w)
  <2>1. TypeOK' /\ Counting' /\ cache'.seen <= version'
    BY <1>4 DEF OwnerGone, Counting
  <2>2. LatestKnows' /\ w \notin latest
    BY <1>4 DEF OwnerGone, LatestKnows, OwnerKnown
  <2>3. Excused(cache)' /\ \A r \in Readers : Excused(summary[r])'
    BY <1>4, <2>2 DEF OwnerGone, Excused, Outdated, Answering
  <2>4. QED
    BY <2>1, <2>2, <2>3
<1>5. QED
  BY <1>1, <1>2, <1>3, <1>4 DEF WriterStep

LEMMA ExpireKeeps == ASSUME CacheInv, Expire PROVE CacheInv'
  BY NoEntryExcused
  DEF CacheInv, TypeOK, Expire, LatestKnows, OwnerKnown, Counting, Excused,
      Outdated, Answering, NoEntry

LEMMA CrashKeeps == ASSUME CacheInv, Crash PROVE CacheInv'
<1> USE DEF CacheInv, TypeOK, Crash
<1>1. /\ cache' \in Summary \cup {NoEntry}
      /\ cache'.seen <= version
  BY LateSummary
<1>2. Excused(cache)'
  <2>1. CASE cache = NoEntry
    BY <2>1 DEF Excused, Outdated, NoEntry
  <2>2. CASE cache # NoEntry /\ \A w \in Writers : ~Answering(w)
    BY <2>2 DEF Excused, Outdated
  <2>3. CASE cache # NoEntry /\ \E w \in Writers : Answering(w)
    BY <2>3, LateSummary DEF Excused
  <2>4. QED
    BY <2>1, <2>2, <2>3
<1>3. LatestKnows'
  BY DEF LatestKnows, OwnerKnown
<1>4. TypeOK' /\ Counting'
  BY <1>1 DEF Counting, NoEntry
<1>5. \A r \in Readers : Excused(summary[r])'
  BY DEF Excused, Outdated, NoEntry
<1>6. QED
  BY <1>1, <1>2, <1>3, <1>4, <1>5

LEMMA StepKeeps == CacheInv /\ [Next]_vars => CacheInv'
<1> SUFFICES ASSUME CacheInv, [Next]_vars PROVE CacheInv'
  OBVIOUS
<1>1. CASE UNCHANGED vars
  BY <1>1
  DEF vars, CacheInv, TypeOK, LatestKnows, OwnerKnown, Counting, Excused,
      Outdated, Answering
<1>2. CASE Next
  BY <1>2, ReaderKeeps, WriterKeeps, ExpireKeeps, CrashKeeps DEF Next
<1>3. QED
  BY <1>1, <1>2

\* The inductive invariant: a summary that is outdated, cached or about to be,
\* was passed by its deletion, or the writer that committed last has still to
\* delete the key and knows which.
THEOREM CacheInvariant == Spec => []CacheInv
<1>1. QED
  BY InitCache, StepKeeps, PTL DEF Spec

\* An outdated summary stays in the cache only until the change that outdated
\* it deletes the key, unless the deletion came first or was lost.
THEOREM StaleHasReasonHolds == Spec => []StaleHasReason
<1>1. CacheInv => StaleHasReason
  BY DEF CacheInv, TypeOK, LatestKnows, Excused, StaleHasReason, Answering, WillDelete
<1>2. QED
  BY <1>1, CacheInvariant, PTL
=============================================================================
