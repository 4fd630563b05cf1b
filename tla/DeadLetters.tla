----------------------------- MODULE DeadLetters -----------------------------
(***************************************************************************)
(* The dead-letter list in Redis as its users see it: Celery workers push  *)
(* jobs that were given up, an operator looks at the newest of them,       *)
(* counts them, replays them by hand and clears the list when he likes.  A *)
(* push is one transaction of LPUSH, LTRIM and EXPIRE: the list is capped, *)
(* and its lifetime starts anew with every push.  Redis may be away, may   *)
(* lose an answer, and may come back empty.                                *)
(***************************************************************************)
EXTENDS Integers, Sequences

CONSTANTS Letters,   \* the jobs given up in a behaviour, each pushed once
          Cap,       \* MAX_DEAD_LETTERS
          Lifetime,  \* DEAD_LETTER_TTL_SECONDS
          Limit,     \* what the operator passes to peek_dead_letters
          MaxNow     \* bound: the last moment of a behaviour

ASSUME CapAssumption   == Cap \in Nat \ {0}
ASSUME TimeAssumption  == Lifetime \in Nat \ {0} /\ MaxNow \in Nat
ASSUME LimitAssumption == Limit \in Nat

VARIABLES
    list,      \* the key in Redis, newest first
    expires,   \* the moment at which Redis drops it, 0 for never
    now,       \* the clock of Redis
    redisUp,
    pc,        \* per letter: "new", "stored" and not answered, then the answer
    read,      \* what the operator got from the last peek_dead_letters
    counted,   \* what he got from dead_letter_count since, -1 if nothing yet
    stores,    \* history: how many letters have been stored
    place,     \* history: the how-manieth a letter was, 0 if it was not stored
    since,     \* history: when it was stored
    base,      \* history: stores when the list was last emptied
    cleared,   \* history: stores when it was last cleared, or lost by Redis
    seenAt     \* history: stores when the operator last looked

redis   == <<list, expires>>
history == <<stores, place, since, base, cleared>>
vars    == <<redis, now, redisUp, pc, read, counted, seenAt, history>>

InList == {list[i] : i \in 1..Len(list)}

\* The key goes, and its lifetime with it.
Empties == list' = <<>> /\ expires' = 0 /\ base' = stores

TypeOK ==
    /\ list \in Seq(Letters) /\ expires \in Nat /\ now \in Nat /\ redisUp \in BOOLEAN
    /\ pc \in [Letters -> {"new", "stored", "true", "false"}]
    /\ read \in Seq(Letters) /\ counted \in Nat \cup {-1}
    /\ stores \in Nat /\ base \in Nat /\ cleared \in Nat /\ seenAt \in Nat
    /\ place \in [Letters -> Nat] /\ since \in [Letters -> Nat]

Init ==
    /\ list = <<>> /\ expires = 0 /\ now = 0 /\ redisUp = TRUE
    /\ pc = [l \in Letters |-> "new"]
    /\ read = <<>> /\ counted = -1
    /\ stores = 0 /\ base = 0 /\ cleared = 0 /\ seenAt = 0
    /\ place = [l \in Letters |-> 0] /\ since = [l \in Letters |-> 0]

-----------------------------------------------------------------------------
(* The workers. *)

Least(m, n) == IF m <= n THEN m ELSE n
Most(m, n)  == IF m <= n THEN n ELSE m

Answers(l, a) == pc' = [pc EXCEPT ![l] = a]

\* Fault: one letter less is kept.
TrimShort(s) == SubSeq(s, 1, Least(Cap - 1, Len(s)))

\* LTRIM 0 Cap-1
Trim(s) == SubSeq(s, 1, Least(Cap, Len(s)))

\* Fault: only the push that makes the list sets its lifetime.
ExpireOnce == expires' = IF list = <<>> THEN now + Lifetime ELSE expires

Expire == expires' = now + Lifetime

Store(l) ==
    /\ pc[l] = "new" /\ redisUp
    /\ list' = Trim(<<l>> \o list)
    /\ Expire
    /\ stores' = stores + 1
    /\ place' = [place EXCEPT ![l] = stores + 1]
    /\ since' = [since EXCEPT ![l] = now]
    /\ Answers(l, "stored")
    /\ UNCHANGED <<now, redisUp, read, counted, seenAt, base, cleared>>

\* The answer of Redis reaches the worker, or times out after a second.
Return(l) ==
    /\ pc[l] = "stored"
    /\ Answers(l, "true") \/ Answers(l, "false")
    /\ UNCHANGED <<redis, now, redisUp, read, counted, seenAt, history>>

\* Redis is away: the letter is dropped, the worker goes on.
Dropped(l) ==
    /\ pc[l] = "new" /\ ~redisUp
    /\ Answers(l, "false")
    /\ UNCHANGED <<redis, now, redisUp, read, counted, seenAt, history>>

-----------------------------------------------------------------------------
(* The operator. *)

\* LRANGE 0 max(limit - 1, 0)
LooksAt == SubSeq(list, 1, Least(Most(Limit - 1, 0) + 1, Len(list)))

\* peek_dead_letters: Redis away or its answer lost, the result is that of an
\* empty list.
Peek ==
    /\ \/ redisUp /\ read' = LooksAt
       \/ read' = <<>>
    /\ counted' = -1 /\ seenAt' = stores
    /\ UNCHANGED <<redis, now, redisUp, pc, history>>

\* Fault: an outage is reported as an empty list.
CountZero ==
    /\ \/ redisUp /\ counted' = Len(list)
       \/ counted' = 0
    /\ UNCHANGED <<redis, now, redisUp, pc, read, seenAt, history>>

\* dead_letter_count: -1 if there is no answer.
Count ==
    /\ \/ redisUp /\ counted' = Len(list)
       \/ counted' = -1
    /\ UNCHANGED <<redis, now, redisUp, pc, read, seenAt, history>>

\* clear_dead_letters: nothing guards it, and the key goes also when the answer
\* is lost.  What it answers changes nothing here; without Redis nothing goes.
Clear ==
    /\ redisUp
    /\ Empties /\ cleared' = stores
    /\ UNCHANGED <<now, redisUp, pc, read, counted, seenAt, stores, place, since>>

-----------------------------------------------------------------------------
(* Redis. *)

Tick ==
    /\ now < MaxNow
    /\ now' = now + 1
    /\ IF expires # 0 /\ now' >= expires THEN Empties
       ELSE UNCHANGED <<redis, base>>
    /\ UNCHANGED <<redisUp, pc, read, counted, seenAt, stores, place, since, cleared>>

\* A restart that keeps the data, or does not.
RedisDown ==
    /\ redisUp
    /\ redisUp' = FALSE
    /\ \/ UNCHANGED <<redis, base, cleared>>
       \/ Empties /\ cleared' = stores
    /\ UNCHANGED <<now, pc, read, counted, seenAt, stores, place, since>>

RedisUp ==
    /\ ~redisUp
    /\ redisUp' = TRUE
    /\ UNCHANGED <<redis, now, pc, read, counted, seenAt, history>>

Next == \/ \E l \in Letters : Store(l) \/ Return(l) \/ Dropped(l)
        \/ Peek \/ Count \/ Clear
        \/ Tick \/ RedisDown \/ RedisUp

Spec == Init /\ [][Next]_vars

-----------------------------------------------------------------------------
(* Properties. *)

\* A letter is gone only because as many newer ones as the list holds have come,
\* because it was cleared, or because it is old; never because an older one was
\* about to expire, or because others were pushed, cleared or expired in between.
FreshLettersSurvive ==
    \A l \in Letters :
        place[l] > cleared /\ stores - place[l] < Cap /\ now < since[l] + Lifetime
            => l \in InList

\* A list that can be read is current: its newest letter is younger than the
\* lifetime, so a backlog disappears once nothing has failed for that long.
BacklogIsCurrent == list # <<>> => now < since[list[1]] + Lifetime

Unread == InList \ {read[i] : i \in 1..Len(read)}

\* An operator who looks and then counts as many as he has read has missed
\* nothing: what he has not read came after the look, so a clearing costs him only
\* that.  It holds although a look that failed reads like an empty list, because a
\* count that failed does not: -1 is never the number of letters read.  Without
\* the count nothing of the kind holds.
CountConfirmsLook ==
    counted = Len(read) => \A l \in Unread : place[l] > seenAt

-----------------------------------------------------------------------------
(* Why they hold. *)

\* The list is the newest letters since it was last emptied, newest first.
ListIsRecent ==
    /\ Len(list) = Least(Cap, stores - base)
    /\ \A i \in 1..Len(list) : place[list[i]] = stores + 1 - i

\* Each letter has a place of its own, and places follow the clock.
Places ==
    /\ cleared <= base /\ base <= stores /\ seenAt <= stores
    /\ \A l \in Letters : /\ place[l] <= stores /\ since[l] <= now
                          /\ pc[l] = "new" => place[l] = 0
    /\ \A l, m \in Letters :
          /\ place[l] = place[m] /\ place[l] # 0 => l = m
          /\ 0 < place[l] /\ place[l] <= place[m] => since[l] <= since[m]

\* The lifetime of the list is that of its newest letter; what was in it when it
\* was emptied was cleared or is old.
Lifetimes ==
    /\ IF list = <<>> THEN expires = 0
       ELSE expires = since[list[1]] + Lifetime /\ now < expires
    /\ \A l \in Letters : 0 < place[l] /\ place[l] <= base
          => place[l] <= cleared \/ now >= since[l] + Lifetime

\* What a look leaves unread is deeper in the list than it reached.
LookReach ==
    \A l \in Unread : place[l] > seenAt \/ seenAt - place[l] >= Len(read)

LettersInv ==
    TypeOK /\ ListIsRecent /\ Places /\ Lifetimes /\ LookReach /\ CountConfirmsLook
=============================================================================
