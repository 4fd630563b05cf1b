---------------------------- MODULE RateLimiter ----------------------------
(***************************************************************************)
(* is_allowed for one caller and one action.  A call reads the clock to    *)
(* find the window it counts in, and only then increments that window's    *)
(* counter in Redis and renews the counter's lifetime; a call that finds   *)
(* it full reads the clock again to tell the client how long to wait.      *)
(*                                                                         *)
(* The clock is kept as a window number and the seconds gone in it:        *)
(* int(time.time()) // window_seconds and int(time.time()) % window_seconds.*)
(***************************************************************************)
EXTENDS Integers

CONSTANTS Calls,        \* calls of is_allowed, each made once
          Limit,
          Window,       \* window_seconds
          LastWindow,   \* bound: the clock stops at the end of this window
          Straddle,     \* whether a window may end between a call's clock
                        \* reading and its INCR
          Outages,      \* whether Redis may fail to answer
          MaxLosses     \* bound: restarts of Redis without its data in one window

ASSUME NumbersAssumption == /\ Limit \in Nat \ {0}
                            /\ Window \in Nat \ {0}
                            /\ LastWindow \in Nat
                            /\ MaxLosses \in Nat
ASSUME SwitchAssumption  == Straddle \in BOOLEAN /\ Outages \in BOOLEAN

Windows == 0..LastWindow
Seconds == 0..(Window - 1)

VARIABLES
    win,       \* the clock: the window it is in,
    sec,       \* and the seconds of it that are gone
    count,     \* per window: the counter in Redis, as the last INCR left it
    renewed,   \* per window: the clock at its last EXPIRE, as <<window, second>>
    pc,        \* per call: where it is
    window,    \* per call: the window it counts in
    lost,      \* history: how often Redis lost the counters in this window
    retryIn,   \* per denied call: the window in which its wait is over
    admitted   \* history: calls counted and let through in this window of the
               \* clock, by the window they counted in

clock == <<win, sec>>
redis == <<count, renewed>>
vars  == <<clock, redis, lost, pc, window, retryIn, admitted>>

TypeOK ==
    /\ win      \in Windows
    /\ sec      \in Seconds
    /\ count    \in [Windows -> Nat]
    /\ renewed  \in [Windows -> Windows \X Seconds]
    /\ lost     \in 0..MaxLosses
    /\ pc       \in [Calls -> {"idle", "timed", "full", "allowed", "open", "denied"}]
    /\ window   \in [Calls -> Windows]
    /\ retryIn  \in [Calls -> Nat]
    /\ admitted \in [Windows -> Nat]

Init ==
    /\ win = 0 /\ sec = 0
    /\ count    = [w \in Windows |-> 0]
    /\ renewed  = [w \in Windows |-> <<0, 0>>]
    /\ lost     = 0
    /\ pc       = [c \in Calls |-> "idle"]
    /\ window   = [c \in Calls |-> 0]
    /\ retryIn  = [c \in Calls |-> 0]
    /\ admitted = [w \in Windows |-> 0]

-----------------------------------------------------------------------------
(* Redis. *)

\* A fault: the lifetime is set by the first INCR of a window only.
RenewOnce(w) == renewed' = IF count[w] = 0 THEN [renewed EXCEPT ![w] = clock]
                                           ELSE renewed

Renew(w) == renewed' = [renewed EXCEPT ![w] = clock]

\* The key lives for window_seconds from its last EXPIRE.
Alive(w) == \/ win = renewed[w][1]
            \/ win = renewed[w][1] + 1 /\ sec < renewed[w][2]

Value(w) == IF Alive(w) THEN count[w] ELSE 0

\* MULTI INCR EXPIRE EXEC
Increment(w) == /\ count' = [count EXCEPT ![w] = Value(w) + 1]
                /\ Renew(w)

\* Redis restarts without its data, which it saves now and then only.
LoseCounters ==
    /\ lost < MaxLosses
    /\ lost' = lost + 1
    /\ count' = [w \in Windows |-> 0]
    /\ UNCHANGED <<clock, renewed, pc, window, retryIn, admitted>>

-----------------------------------------------------------------------------
(* The call. *)

Goes(c, from, to) == pc[c] = from /\ pc' = [pc EXCEPT ![c] = to]

ReadClock(c) ==
    /\ Goes(c, "idle", "timed")
    /\ window' = [window EXCEPT ![c] = win]
    /\ UNCHANGED <<clock, redis, lost, retryIn, admitted>>

\* A fault: the call after the last one is let through.
FullLate(w) == Value(w) > Limit

\* count > limit, for the count that INCR is about to return.
Full(w) == Value(w) + 1 > Limit

Admit(c) ==
    /\ Goes(c, "timed", "allowed")
    /\ ~Full(window[c])
    /\ Increment(window[c])
    /\ admitted' = [admitted EXCEPT ![window[c]] = @ + 1]
    /\ UNCHANGED <<clock, lost, window, retryIn>>

Exceed(c) ==
    /\ Goes(c, "timed", "full")
    /\ Full(window[c])
    /\ Increment(window[c])
    /\ UNCHANGED <<clock, lost, window, retryIn, admitted>>

\* Redis does not answer, whether it has counted the call or not: the call is
\* allowed.
FailOpen(c) ==
    /\ Outages
    /\ Goes(c, "timed", "open")
    /\ Increment(window[c]) \/ UNCHANGED redis
    /\ UNCHANGED <<clock, lost, window, retryIn, admitted>>

\* A fault: the seconds gone in place of those that remain.
RetryAfterGone == sec

RetryAfter == Window - sec

\* The window the clock is in once s seconds from now have passed.
WindowIn(s) == win + (sec + s) \div Window

Deny(c) ==
    /\ Goes(c, "full", "denied")
    /\ retryIn' = [retryIn EXCEPT ![c] = WindowIn(RetryAfter)]
    /\ UNCHANGED <<clock, redis, lost, window, admitted>>

-----------------------------------------------------------------------------
(* Time. *)

Second ==
    /\ sec < Window - 1
    /\ sec' = sec + 1
    /\ UNCHANGED <<win, redis, lost, pc, window, retryIn, admitted>>

\* Redis answers within a second or not at all, so at most one border passes
\* between a call's reading and its INCR.
RollOver ==
    /\ sec = Window - 1
    /\ win < LastWindow
    /\ \A c \in Calls : pc[c] = "timed" => Straddle /\ window[c] = win
    /\ win' = win + 1 /\ sec' = 0
    /\ lost' = 0
    /\ admitted' = [w \in Windows |-> 0]
    /\ UNCHANGED <<redis, pc, window, retryIn>>

CallStep(c) == ReadClock(c) \/ Admit(c) \/ Exceed(c) \/ FailOpen(c) \/ Deny(c)

Next == Second \/ RollOver \/ LoseCounters \/ \E c \in Calls : CallStep(c)

Spec == Init /\ [][Next]_vars

-----------------------------------------------------------------------------
(* Properties. *)

\* What the counters admit in one window of the clock at most: the limit, once more
\* for each time Redis has lost them in it.
Budget == Limit + Limit * lost

\* No counter lets more than that through while the clock is in one window,
\* although counters expire and are counted up again; and only that window's own
\* counter does, or the one before it, if a call may straddle the border.  So a
\* window of the clock in which Redis keeps its data sees at most the limit, or
\* twice the limit, of calls that Redis has answered.
Quota ==
    \A w \in Windows :
        /\ admitted[w] <= Budget
        /\ admitted[w] # 0 => w = win \/ (Straddle /\ w = win - 1)

\* A denied client that waits as it was told to comes back to a counter that its
\* denied call has not counted in, whenever the second clock reading was.
WaitIsEnough ==
    \A c \in Calls : pc[c] = "denied" => retryIn[c] > window[c]

\* Why: a counter that let a call through in this window of the clock, since the
\* counters were last lost, lives to the end of it.
CountersLast ==
    \A w \in Windows :
        admitted[w] > Limit * lost =>
            renewed[w][1] = win /\ admitted[w] <= Limit * lost + count[w]

CallsInTime ==
    \A c \in Calls :
        /\ pc[c] # "idle" => window[c] <= win
        /\ pc[c] = "timed" => window[c] = win \/ (Straddle /\ window[c] = win - 1)

LimiterInv == TypeOK /\ CallsInTime /\ CountersLast /\ Quota
=============================================================================
