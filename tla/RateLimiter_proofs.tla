------------------------- MODULE RateLimiter_proofs -------------------------
(***************************************************************************)
(* Proofs about RateLimiter, for any number of calls, any limit and any    *)
(* window length, with or without late calls, outages and lost counters.   *)
(***************************************************************************)
EXTENDS RateLimiter, TLAPS

USE NumbersAssumption, SwitchAssumption DEF NumbersAssumption, SwitchAssumption

LEMMA BudgetGrows ==
    ASSUME NEW n \in Nat
    PROVE  /\ Limit * n \in Nat
           /\ Limit * (n + 1) = Limit * n + Limit
  OBVIOUS

LEMMA BudgetType ==
    ASSUME TypeOK
    PROVE  /\ Limit * lost \in Nat
           /\ Budget = Limit * lost + Limit
           /\ Budget \in Nat
  BY BudgetGrows DEF TypeOK, Budget

LEMMA InitLimiter == Init => LimiterInv
<1> SUFFICES ASSUME Init PROVE LimiterInv
  OBVIOUS
<1>1. Limit * lost = 0 /\ Budget = Limit
  BY DEF Init, Budget
<1>2. QED
  BY <1>1
     DEF Init, LimiterInv, TypeOK, CallsInTime, CountersLast, Quota, Windows, Seconds

LEMMA WindowsAreNumbers ==
    /\ Windows \subseteq Nat
    /\ 0 \in Seconds
    /\ \A w \in Windows : w < LastWindow => w + 1 \in Windows
    /\ \A s \in Seconds : s < Window - 1 => s + 1 \in Seconds
  BY DEF Windows, Seconds

-----------------------------------------------------------------------------
(* Redis. *)

LEMMA ValueType == ASSUME TypeOK, NEW w \in Windows PROVE Value(w) \in Nat
  BY DEF TypeOK, Value

\* A counter that let a call through in this window of the clock since the last
\* loss has not expired.
LEMMA CountedIsAlive ==
    ASSUME LimiterInv, NEW w \in Windows, admitted[w] > Limit * lost
    PROVE  Value(w) = count[w] /\ admitted[w] <= Limit * lost + Value(w)
  BY DEF LimiterInv, TypeOK, CountersLast, Value, Alive

LEMMA IncrementType ==
    ASSUME TypeOK, NEW w \in Windows, Increment(w)
    PROVE  /\ count' \in [Windows -> Nat]
           /\ renewed' \in [Windows -> Windows \X Seconds]
  BY ValueType DEF TypeOK, Increment, Renew, clock

\* An INCR that lets nothing through takes no counter below what it admitted.
LEMMA IncrementLasts ==
    ASSUME LimiterInv, NEW w \in Windows, Increment(w),
           UNCHANGED <<clock, lost, admitted>>
    PROVE  CountersLast'
<1> SUFFICES ASSUME NEW v \in Windows, admitted[v] > Limit * lost
             PROVE  /\ renewed'[v][1] = win
                    /\ admitted[v] <= Limit * lost + count'[v]
  BY DEF CountersLast, clock
<1>1. CASE v = w
  <2>1. Limit * lost \in Nat
    BY BudgetType DEF LimiterInv
  <2>2. QED
    BY <1>1, <2>1, CountedIsAlive, ValueType
       DEF Increment, Renew, clock, LimiterInv, TypeOK
<1>2. CASE v # w
  BY <1>2 DEF Increment, Renew, LimiterInv, TypeOK, CountersLast
<1>3. QED
  BY <1>1, <1>2

-----------------------------------------------------------------------------
(* The steps. *)

LEMMA CallKeeps ==
    ASSUME LimiterInv, NEW c \in Calls, CallStep(c) PROVE LimiterInv'
<1> USE DEF LimiterInv
<1>1. CASE ReadClock(c)
  <2>1. TypeOK' /\ CallsInTime'
    BY <1>1, WindowsAreNumbers DEF ReadClock, Goes, clock, redis, TypeOK, CallsInTime
  <2>2. CountersLast' /\ Quota'
    BY <1>1 DEF ReadClock, clock, redis, CountersLast, Quota, Budget
  <2>3. QED
    BY <2>1, <2>2
<1>2. CASE Admit(c)
  <2> DEFINE w == window[c]
  <2>1. /\ w \in Windows
        /\ w = win \/ (Straddle /\ w = win - 1)
        /\ Value(w) + 1 <= Limit
        /\ admitted[w] <= Limit * lost + Value(w)
    <3>1. w \in Windows
      BY DEF TypeOK
    <3>2. /\ Value(w) \in Nat /\ Limit * lost \in Nat
          /\ admitted[w] > Limit * lost => admitted[w] <= Limit * lost + Value(w)
      BY <3>1, ValueType, BudgetType, CountedIsAlive
    <3>3. QED
      BY <1>2, <3>1, <3>2 DEF Admit, Goes, Full, TypeOK, CallsInTime
  <2>2. TypeOK'
    BY <1>2, <2>1, IncrementType DEF Admit, Goes, clock, TypeOK
  <2>3. CallsInTime'
    BY <1>2 DEF Admit, Goes, clock, TypeOK, CallsInTime
  <2>4. CountersLast'
    <3> SUFFICES ASSUME NEW v \in Windows, admitted'[v] > Limit * lost
                 PROVE  /\ renewed'[v][1] = win'
                        /\ admitted'[v] <= Limit * lost + count'[v]
      BY <1>2 DEF CountersLast, Admit
    <3> Limit * lost \in Nat
      BY BudgetType
    <3>1. CASE v = w
      BY <3>1, <1>2, <2>1, ValueType DEF Admit, Increment, Renew, clock, TypeOK
    <3>2. CASE v # w
      BY <3>2, <1>2, <2>1
         DEF Admit, Increment, Renew, clock, TypeOK, CountersLast
    <3>3. QED
      BY <3>1, <3>2
  <2>5. Quota'
    <3>1. Budget' = Budget
      BY <1>2 DEF Admit, Budget
    <3>2. QED
      BY <1>2, <2>1, <3>1, BudgetType, ValueType DEF Admit, clock, TypeOK, Quota
  <2>6. QED
    BY <2>2, <2>3, <2>4, <2>5
<1>3. CASE Exceed(c) \/ FailOpen(c)
  <2>1. window[c] \in Windows /\ UNCHANGED <<clock, lost, window, retryIn, admitted>>
    BY <1>3 DEF Exceed, FailOpen, TypeOK
  <2>2. \E p \in {"full", "open"} : Goes(c, "timed", p)
    BY <1>3 DEF Exceed, FailOpen
  <2>3. Increment(window[c]) \/ UNCHANGED redis
    BY <1>3 DEF Exceed, FailOpen
  <2>4. TypeOK'
    BY <2>1, <2>2, <2>3, IncrementType DEF Goes, clock, redis, TypeOK
  <2>5. CallsInTime'
    BY <2>1, <2>2 DEF Goes, clock, TypeOK, CallsInTime
  <2>6. CountersLast'
    BY <2>1, <2>3, IncrementLasts DEF clock, redis, CountersLast
  <2>7. Quota'
    BY <2>1 DEF clock, Quota, Budget
  <2>8. QED
    BY <2>4, <2>5, <2>6, <2>7
<1>4. CASE Deny(c)
  <2>1. WindowIn(RetryAfter) \in Nat
    BY DEF WindowIn, RetryAfter, TypeOK, Windows, Seconds
  <2>2. QED
    BY <1>4, <2>1 DEF Deny, Goes, clock, redis, TypeOK, CallsInTime, CountersLast, Quota, Budget
<1>5. QED
  BY <1>1, <1>2, <1>3, <1>4 DEF CallStep

LEMMA TimeKeeps == ASSUME LimiterInv, Second \/ RollOver PROVE LimiterInv'
<1> USE DEF LimiterInv
<1>1. CASE Second
  BY <1>1, WindowsAreNumbers
     DEF Second, redis, TypeOK, CallsInTime, CountersLast, Quota, Budget
<1>2. CASE RollOver
  <2>1. /\ win' = win + 1 /\ sec' = 0
        /\ lost' = 0 /\ admitted' = [w \in Windows |-> 0]
        /\ UNCHANGED <<count, renewed, pc, window, retryIn>>
    BY <1>2 DEF RollOver, redis
  <2>2. TypeOK'
    BY <1>2, <2>1, WindowsAreNumbers DEF RollOver, TypeOK
  <2>3. CallsInTime'
    <3> SUFFICES ASSUME NEW c \in Calls PROVE CallsInTime!(c)'
      BY DEF CallsInTime
    <3>1. win \in Nat /\ window[c] \in Nat
      BY WindowsAreNumbers DEF TypeOK
    <3>2. pc[c] = "timed" => Straddle /\ window[c] = win
      BY <1>2 DEF RollOver
    <3>3. QED
      BY <2>1, <3>1, <3>2 DEF CallsInTime
  <2>4. (Limit * lost)' = 0 /\ Budget' = Limit
    BY <2>1 DEF Budget
  <2>5. QED
    BY <2>1, <2>2, <2>3, <2>4 DEF CountersLast, Quota
<1>3. QED
  BY <1>1, <1>2

\* What was admitted so far is within what the counters that are lost may have
\* admitted; the next ones start from nothing.
LEMMA LossKeeps == ASSUME LimiterInv, LoseCounters PROVE LimiterInv'
<1> USE DEF LimiterInv
<1>1. /\ lost' = lost + 1 /\ lost < MaxLosses
      /\ count' = [w \in Windows |-> 0]
      /\ UNCHANGED <<win, sec, renewed, pc, window, retryIn, admitted>>
  BY DEF LoseCounters, clock
<1>2. TypeOK' /\ CallsInTime'
  BY <1>1 DEF TypeOK, CallsInTime
<1>3. (Limit * lost)' = Budget
  BY <1>1, BudgetGrows, BudgetType DEF TypeOK
<1>4. CountersLast' /\ Quota'
  <2>1. \A w \in Windows : admitted[w] <= Budget /\ admitted[w] \in Nat
    BY DEF Quota, TypeOK
  <2>2. Budget' = Budget + Limit
    BY <1>3, BudgetType DEF Budget
  <2>3. CountersLast'
    BY <1>1, <1>3, <2>1, BudgetType DEF CountersLast
  <2>4. \A w \in Windows :
           admitted'[w] # 0 => w = win' \/ (Straddle /\ w = win' - 1)
    BY <1>1 DEF Quota
  <2>5. \A w \in Windows : admitted'[w] <= Budget'
    BY <1>1, <2>1, <2>2, BudgetType
  <2>6. QED
    BY <2>3, <2>4, <2>5 DEF Quota
<1>5. QED
  BY <1>2, <1>4

LEMMA LimiterInductive == LimiterInv /\ [Next]_vars => LimiterInv'
<1> SUFFICES ASSUME LimiterInv, [Next]_vars PROVE LimiterInv'
  OBVIOUS
<1>1. CASE UNCHANGED vars
  BY <1>1 DEF vars, clock, redis, LimiterInv, TypeOK, CallsInTime, CountersLast, Quota,
              Budget
<1>2. CASE Next
  BY <1>2, CallKeeps, TimeKeeps, LossKeeps DEF Next
<1>3. QED
  BY <1>1, <1>2

\* The limiter's calls and counters are always as LimiterInv says: no call is
\* behind the clock by more than a border, and a counter that has let a call
\* through in this window lasts to its end.
THEOREM LimiterInvariant == Spec => []LimiterInv
<1>1. QED
  BY InitLimiter, LimiterInductive, PTL DEF Spec

\* No counter admits more than the limit, once for each time Redis lost its data and
\* once more, while the clock is in one window, and none admits but its own and, for
\* late calls, the one before it (is_allowed, line 72).
THEOREM QuotaHolds == Spec => []Quota
<1>1. LimiterInv => Quota
  BY DEF LimiterInv
<1>2. QED
  BY <1>1, LimiterInvariant, PTL

-----------------------------------------------------------------------------
(* Waiting. *)

\* Waiting out retry_after takes the clock to the next window and no further.
LEMMA WaitReachesNext == ASSUME TypeOK PROVE WindowIn(RetryAfter) = win + 1
<1>1. sec + RetryAfter = Window
  BY DEF TypeOK, Seconds, RetryAfter
<1>2. Window \div Window = 1
  OBVIOUS
<1>3. QED
  BY <1>1, <1>2 DEF WindowIn

LEMMA WaitStep ==
    LimiterInv /\ WaitIsEnough /\ [Next]_vars => WaitIsEnough'
<1> SUFFICES ASSUME LimiterInv, WaitIsEnough, [Next]_vars PROVE WaitIsEnough'
  OBVIOUS
<1> USE DEF LimiterInv, TypeOK, WaitIsEnough
<1>1. CASE Second \/ RollOver \/ LoseCounters \/ UNCHANGED vars
  BY <1>1 DEF Second, RollOver, LoseCounters, vars
<1>2. ASSUME NEW c \in Calls, CallStep(c) PROVE WaitIsEnough'
  <2>1. CASE Deny(c)
    <3>1. window[c] < WindowIn(RetryAfter)
      <4>1. pc[c] # "idle" /\ win \in Nat /\ window[c] \in Nat
        BY <2>1, WindowsAreNumbers DEF Deny, Goes
      <4>2. window[c] <= win
        BY <4>1 DEF CallsInTime
      <4>3. QED
        BY <4>1, <4>2, WaitReachesNext
    <3>2. QED
      BY <2>1, <3>1 DEF Deny, Goes
  <2>2. CASE ReadClock(c)
    BY <2>2 DEF ReadClock, Goes
  <2>3. CASE Admit(c) \/ Exceed(c) \/ FailOpen(c)
    BY <2>3 DEF Admit, Exceed, FailOpen, Goes
  <2>4. QED
    BY <1>2, <2>1, <2>2, <2>3 DEF CallStep
<1>3. QED
  BY <1>1, <1>2 DEF Next

\* A denied client that waits retry_after seconds returns in a later window than
\* the one its call counted in, even if the clock was read again in a later one
\* (is_allowed, line 74).
THEOREM WaitIsEnoughHolds == Spec => []WaitIsEnough
<1>1. Init => WaitIsEnough
  BY DEF Init, WaitIsEnough
<1>2. QED
  BY <1>1, WaitStep, LimiterInvariant, PTL DEF Spec
=============================================================================
