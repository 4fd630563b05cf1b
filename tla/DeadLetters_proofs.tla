-------------------------- MODULE DeadLetters_proofs --------------------------
(***************************************************************************)
(* Proofs about DeadLetters, for every number of letters, every cap,       *)
(* lifetime and limit, and no bound on the time.                           *)
(***************************************************************************)
EXTENDS DeadLetters, SequenceTheorems, TLAPS

USE CapAssumption, TimeAssumption, LimitAssumption

\* What LPUSH and LTRIM make of the list.
LEMMA PushedList ==
    ASSUME NEW s \in Seq(Letters), NEW l \in Letters
    PROVE  /\ Trim(<<l>> \o s) \in Seq(Letters)
           /\ Len(Trim(<<l>> \o s)) = Least(Cap, Len(s) + 1)
           /\ Trim(<<l>> \o s)[1] = l
           /\ \A i \in 2..Least(Cap, Len(s) + 1) : Trim(<<l>> \o s)[i] = s[i - 1]
<1> DEFINE t == <<l>> \o s
           n == Least(Cap, Len(t))
<1>1. /\ t \in Seq(Letters) /\ Len(t) = Len(s) + 1 /\ Len(s) \in Nat
      /\ \A i \in 1..Len(t) : t[i] = IF i = 1 THEN l ELSE s[i - 1]
  <2>1. <<l>> \in Seq(Letters) /\ Len(<<l>>) = 1 /\ <<l>>[1] = l
    OBVIOUS
  <2>2. Len(s) \in Nat
    BY LenProperties
  <2>3. t \in Seq(Letters) /\ Len(t) = Len(<<l>>) + Len(s)
    BY <2>1, ConcatProperties
  <2>4. \A i \in 1..Len(t) : t[i] = IF i <= Len(<<l>>) THEN <<l>>[i] ELSE s[i - Len(<<l>>)]
    BY <2>1, ConcatProperties
  <2>5. QED
    BY <2>1, <2>2, <2>3, <2>4
<1>2. n \in 1..Len(t)
  BY <1>1 DEF Least
<1>3. /\ SubSeq(t, 1, n) \in Seq(Letters)
      /\ Len(SubSeq(t, 1, n)) = n
      /\ \A i \in 1..n : SubSeq(t, 1, n)[i] = t[i]
  <2>1. \A i \in 1..n : i \in 1..Len(t)
    BY <1>1, <1>2
  <2>2. SubSeq(t, 1, n) = [i \in 1..n |-> t[i]]
    BY <1>1, <1>2
  <2>3. QED
    BY <1>1, <1>2, <2>1, <2>2
<1>4. Trim(t) = SubSeq(t, 1, n)
  BY DEF Trim
<1>5. n = Least(Cap, Len(s) + 1)
  BY <1>1
<1>6. \A i \in 2..n : SubSeq(t, 1, n)[i] = s[i - 1]
  BY <1>1, <1>2, <1>3
<1>7. SubSeq(t, 1, n)[1] = l
  BY <1>1, <1>2, <1>3
<1>8. QED
  BY <1>3, <1>4, <1>5, <1>6, <1>7

LEMMA LeastMost ==
    ASSUME NEW m \in Nat, NEW n \in Nat
    PROVE  /\ Least(m, n) \in Nat /\ Least(m, n) <= m /\ Least(m, n) <= n
           /\ Least(m, n) = m \/ Least(m, n) = n
  BY DEF Least

LEMMA InitInv == Init => LettersInv
<1> SUFFICES ASSUME Init PROVE LettersInv
  OBVIOUS
<1>1. TypeOK
  <2>1. list \in Seq(Letters) /\ read \in Seq(Letters)
    BY EmptySeq DEF Init
  <2>2. QED
    BY <2>1 DEF Init, TypeOK
<1>2. ListIsRecent /\ Places /\ Lifetimes
  BY EmptySeq DEF Init, ListIsRecent, Places, Lifetimes, Least
<1>3. LookReach /\ CountConfirmsLook
  <2>1. InList = {}
    BY EmptySeq DEF Init, InList
  <2>2. QED
    BY <2>1 DEF LookReach, CountConfirmsLook, Unread
<1>4. QED
  BY <1>1, <1>2, <1>3 DEF LettersInv

\* What is in the list has a place that tells where.
LEMMA Listed ==
    ASSUME LettersInv
    PROVE  /\ Len(list) \in Nat /\ Len(list) <= Cap /\ Len(list) <= stores - base
           /\ \A i \in 1..Len(list) :
                 list[i] \in Letters /\ place[list[i]] = stores + 1 - i
           /\ list # <<>> <=> stores > base
           /\ list # <<>> => /\ list[1] \in Letters /\ place[list[1]] = stores
                             /\ expires = since[list[1]] + Lifetime /\ now < expires
<1> USE DEF LettersInv
<1>1. stores - base \in Nat /\ Len(list) \in Nat
  BY LenProperties DEF TypeOK, Places
<1>2. Len(list) = Least(Cap, stores - base)
  BY DEF ListIsRecent
<1>3. /\ Len(list) <= Cap /\ Len(list) <= stores - base
      /\ Len(list) = 0 <=> stores = base
  BY <1>1, <1>2 DEF Least, TypeOK
<1>4. \A i \in 1..Len(list) : list[i] \in Letters
  BY ElementOfSeq DEF TypeOK
<1>5. list = <<>> <=> Len(list) = 0
  BY EmptySeq DEF TypeOK
<1>6. list # <<>> <=> stores > base
  BY <1>3, <1>5 DEF TypeOK, Places
<1>7. list # <<>> => /\ list[1] \in Letters /\ place[list[1]] = stores + 1 - 1
                     /\ expires = since[list[1]] + Lifetime /\ now < expires
  BY <1>1, <1>4, <1>5 DEF ListIsRecent, Lifetimes
<1>8. QED
  BY <1>1, <1>3, <1>4, <1>6, <1>7 DEF ListIsRecent, TypeOK

LEMMA StoreKeeps ==
    ASSUME LettersInv, NEW l \in Letters, Store(l) PROVE LettersInv'
<1> USE DEF LettersInv
<1>1. /\ pc[l] = "new" /\ place[l] = 0
      /\ list' = Trim(<<l>> \o list) /\ expires' = now + Lifetime
      /\ stores' = stores + 1 /\ place' = [place EXCEPT ![l] = stores + 1]
      /\ since' = [since EXCEPT ![l] = now] /\ pc' = [pc EXCEPT ![l] = "stored"]
      /\ UNCHANGED <<now, redisUp, read, counted, seenAt, base, cleared>>
  BY DEF Store, Expire, Answers, Places
<1>2. /\ list' \in Seq(Letters) /\ Len(list') = Least(Cap, Len(list) + 1)
      /\ list'[1] = l
      /\ \A i \in 2..Len(list') : list'[i] = list[i - 1]
  <2>1. list \in Seq(Letters)
    BY DEF TypeOK
  <2> DEFINE t == Trim(<<l>> \o list)
  <2>2. /\ t \in Seq(Letters) /\ Len(t) = Least(Cap, Len(list) + 1) /\ t[1] = l
        /\ \A i \in 2..Least(Cap, Len(list) + 1) : t[i] = list[i - 1]
    BY <2>1, PushedList
  <2>3. list' = t
    BY <1>1
  <2> HIDE DEF t
  <2>4. QED
    BY <2>2, <2>3
<1>3. /\ place'[l] = stores + 1 /\ since'[l] = now
      /\ \A m \in Letters \ {l} : place'[m] = place[m] /\ since'[m] = since[m]
      /\ \A m \in Letters : place[m] \in Nat /\ since[m] \in Nat
                            /\ place[m] <= stores /\ since[m] <= now
      /\ stores \in Nat /\ base \in Nat /\ now \in Nat /\ seenAt \in Nat /\ cleared \in Nat
      /\ cleared <= base /\ base <= stores /\ seenAt <= stores
  BY <1>1 DEF TypeOK, Places
<1>4. /\ Len(list) \in Nat /\ Len(list) = Least(Cap, stores - base)
      /\ \A i \in 1..Len(list) : list[i] \in Letters /\ place[list[i]] = stores + 1 - i
  BY Listed DEF ListIsRecent
<1>5. Len(list') \in Nat \ {0} /\ Len(list') <= Len(list) + 1 /\ list' # <<>>
  <2>1. Len(list') \in Nat \ {0} /\ Len(list') <= Len(list) + 1
    BY <1>2, <1>4 DEF Least
  <2>2. QED
    BY <2>1, EmptySeq
<1>6. TypeOK'
  BY <1>1, <1>2, <1>3 DEF TypeOK
<1>7. ListIsRecent'
  <2>1. Len(list') = Least(Cap, stores' - base')
    BY <1>1, <1>2, <1>3, <1>4 DEF Least
  <2>2. ASSUME NEW i \in 1..Len(list') PROVE place'[list'[i]] = stores' + 1 - i
    <3>1. CASE i = 1
      BY <1>1, <1>2, <1>3, <3>1
    <3>2. CASE i # 1
      <4>1. i \in 2..Len(list') /\ i - 1 \in 1..Len(list)
        BY <1>5, <1>4, <3>2
      <4>2. place[list[i - 1]] = stores + 1 - (i - 1) /\ list[i - 1] \in Letters
        BY <1>4, <4>1
      <4>3. list[i - 1] # l
        BY <1>1, <1>3, <1>4, <4>1, <4>2, Listed
      <4>4. list'[i] = list[i - 1]
        BY <1>2, <4>1
      <4>5. place'[list[i - 1]] = place[list[i - 1]]
        BY <1>3, <4>2, <4>3
      <4>6. stores' = stores + 1 /\ stores \in Nat /\ i \in Nat
        BY <1>1, <1>3
      <4>7. stores + 1 - (i - 1) = stores' + 1 - i
        BY <4>6
      <4>8. QED
        BY <4>2, <4>4, <4>5, <4>7
    <3>3. QED
      BY <3>1, <3>2
  <2>3. QED
    BY <2>1, <2>2 DEF ListIsRecent
<1>8. Places'
  <2>1. cleared' <= base' /\ base' <= stores' /\ seenAt' <= stores'
    BY <1>1, <1>3
  <2>2. \A m \in Letters : /\ place'[m] <= stores' /\ since'[m] <= now'
                           /\ pc'[m] = "new" => place'[m] = 0
    BY <1>1, <1>3 DEF Places, TypeOK
  <2>3. \A m, k \in Letters : place'[m] = place'[k] /\ place'[m] # 0 => m = k
    BY <1>1, <1>3 DEF Places
  <2>4. \A m, k \in Letters :
           0 < place'[m] /\ place'[m] <= place'[k] => since'[m] <= since'[k]
    BY <1>1, <1>3 DEF Places
  <2>5. QED
    BY <2>1, <2>2, <2>3, <2>4 DEF Places
<1>9. Lifetimes'
  <2>1. expires' = since'[list'[1]] + Lifetime /\ now' < expires'
    BY <1>1, <1>2, <1>3
  <2>2. \A m \in Letters : 0 < place'[m] /\ place'[m] <= base'
           => place'[m] <= cleared' \/ now' >= since'[m] + Lifetime
    BY <1>1, <1>3 DEF Lifetimes
  <2>3. QED
    BY <1>5, <2>1, <2>2 DEF Lifetimes
<1>10. LookReach' /\ CountConfirmsLook'
  <2>1. ASSUME NEW m \in Unread'
        PROVE  place'[m] > seenAt \/ (m \in Unread /\ place'[m] = place[m])
    <3>1. PICK i \in 1..Len(list') : m = list'[i]
      BY DEF Unread, InList
    <3>2. CASE i = 1
      BY <1>2, <1>3, <3>1, <3>2
    <3>3. CASE i # 1
      <4>1. i \in 2..Len(list') /\ i - 1 \in 1..Len(list)
        BY <1>5, <1>4, <3>3
      <4>2. m = list[i - 1] /\ m \in InList /\ m \in Letters
        BY <1>2, <1>4, <3>1, <4>1 DEF InList
      <4>3. place[m] # 0
        BY <1>3, <1>4, <4>1, <4>2, Listed
      <4>4. place'[m] = place[m]
        BY <1>1, <1>3, <4>2, <4>3
      <4>5. m \in Unread
        BY <1>1, <4>2 DEF Unread
      <4>6. QED
        BY <4>4, <4>5
    <3>4. QED
      BY <3>2, <3>3
  <2>2. QED
    BY <1>1, <2>1 DEF LookReach, CountConfirmsLook
<1>11. QED
  BY <1>6, <1>7, <1>8, <1>9, <1>10

\* What leaves the list, the places and the operator alone.
LEMMA LookKept ==
    ASSUME LettersInv, UNCHANGED <<list, place, read, counted, seenAt>>
    PROVE  LookReach' /\ CountConfirmsLook'
<1>1. Unread' = Unread
  BY DEF Unread, InList
<1>2. QED
  BY <1>1 DEF LettersInv, LookReach, CountConfirmsLook

\* The list is emptied, by whatever; what was in it has been cleared or is old.
LEMMA EmptyingKeeps ==
    ASSUME LettersInv, Empties, TypeOK', UNCHANGED <<stores, place, since, pc, seenAt>>,
           now <= now', now' \in Nat, cleared <= cleared', cleared' <= stores,
           \A l \in Letters : base < place[l]
               => place[l] <= cleared' \/ now' >= since[l] + Lifetime
    PROVE  LettersInv'
<1> USE DEF LettersInv
<1>1. list' = <<>> /\ expires' = 0 /\ base' = stores /\ InList' = {}
  <2>1. list' = <<>> /\ expires' = 0 /\ base' = stores
    BY DEF Empties
  <2>2. InList' = {}
    BY <2>1, EmptySeq DEF InList
  <2>3. QED
    BY <2>1, <2>2
<1>2. ListIsRecent'
  BY <1>1, EmptySeq DEF ListIsRecent, Least, TypeOK
<1>3. Places'
  BY <1>1 DEF Places, TypeOK
<1>4. Lifetimes'
  <2>1. ASSUME NEW l \in Letters, 0 < place[l]
        PROVE  place[l] <= cleared' \/ now' >= since[l] + Lifetime
    <3>1. /\ place[l] \in Nat /\ since[l] \in Nat /\ now \in Nat /\ base \in Nat
          /\ cleared \in Nat /\ cleared' \in Nat
      BY DEF TypeOK
    <3>2. CASE base < place[l]
      BY <3>2
    <3>3. CASE place[l] <= base
      BY <2>1, <3>1, <3>3 DEF Lifetimes
    <3>4. QED
      BY <3>1, <3>2, <3>3
  <2>2. QED
    BY <1>1, <2>1 DEF Lifetimes
<1>5. LookReach' /\ CountConfirmsLook'
  BY <1>1 DEF LookReach, CountConfirmsLook, Unread
<1>6. QED
  BY <1>2, <1>3, <1>4, <1>5

LEMMA PeekKeeps ==
    ASSUME LettersInv, Peek PROVE LettersInv'
<1> USE DEF LettersInv, Peek, redis, history
<1>1. /\ list \in Seq(Letters) /\ Len(list) \in Nat
      /\ \A i \in 1..Len(list) : list[i] \in Letters /\ place[list[i]] = stores + 1 - i
  BY Listed DEF TypeOK
<1>2. stores \in Nat /\ \A l \in Letters : place[l] \in Nat /\ place[l] <= stores
  BY DEF TypeOK, Places
<1>3. ListIsRecent' /\ Lifetimes' /\ Places'
  BY DEF ListIsRecent, Lifetimes, Places, TypeOK
<1>4. CASE read' = <<>>
  <2>1. read' \in Seq(Letters) /\ Len(read') = 0
    BY <1>4, EmptySeq
  <2>2. TypeOK'
    BY <2>1 DEF TypeOK
  <2>3. Unread' \subseteq Letters
    BY <1>1 DEF Unread, InList
  <2>4. LookReach' /\ CountConfirmsLook'
    BY <1>2, <2>1, <2>3 DEF LookReach, CountConfirmsLook
  <2>5. QED
    BY <1>3, <2>2, <2>4
<1>5. CASE redisUp /\ read' = LooksAt
  <2> DEFINE n == Least(Most(Limit - 1, 0) + 1, Len(list))
  <2>1. n \in Nat /\ n <= Len(list)
    BY <1>1 DEF Least, Most
  <2> HIDE DEF n
  <2>2. /\ SubSeq(list, 1, n) \in Seq(Letters) /\ Len(SubSeq(list, 1, n)) = n
        /\ \A i \in 1..n : SubSeq(list, 1, n)[i] = list[i]
    <3>1. \A i \in 1..n : list[i] \in Letters
      BY <1>1, <2>1
    <3>2. QED
      BY <1>1, <2>1, <3>1
  <2>3. read' = SubSeq(list, 1, n)
    BY <1>5 DEF LooksAt, n
  <2>4. read' \in Seq(Letters) /\ Len(read') = n /\ \A i \in 1..n : read'[i] = list[i]
    BY <2>2, <2>3
  <2>5. TypeOK'
    BY <2>4 DEF TypeOK
  <2>6. ASSUME NEW l \in Unread' PROVE stores - place[l] >= n
    <3>1. PICK i \in 1..Len(list) : l = list[i]
      BY DEF Unread, InList
    <3>2. i \notin 1..n
      BY <2>4, <3>1 DEF Unread
    <3>3. place[l] = stores + 1 - i
      BY <1>1, <3>1
    <3>4. QED
      BY <1>2, <2>1, <3>2, <3>3
  <2>7. LookReach' /\ CountConfirmsLook'
    BY <2>1, <2>4, <2>6 DEF LookReach, CountConfirmsLook
  <2>8. QED
    BY <1>3, <2>5, <2>7
<1>6. QED
  BY <1>4, <1>5

\* As many as were read are in the list: none of them lies deeper than the look
\* reached, so those that were not read are newer.
LEMMA CountKeeps ==
    ASSUME LettersInv, Count PROVE LettersInv'
<1> USE DEF LettersInv, Count, redis, history
<1>1. /\ Len(list) \in Nat
      /\ \A i \in 1..Len(list) : list[i] \in Letters /\ place[list[i]] = stores + 1 - i
  BY Listed
<1>2. /\ stores \in Nat /\ seenAt \in Nat /\ seenAt <= stores
      /\ \A l \in Letters : place[l] \in Nat
  BY DEF TypeOK, Places
<1>3. TypeOK' /\ ListIsRecent' /\ Lifetimes' /\ Places'
  BY <1>1 DEF TypeOK, ListIsRecent, Lifetimes, Places
<1>4. Unread' = Unread
  BY DEF Unread, InList
<1>5. LookReach'
  BY <1>4 DEF LookReach
<1>6. CountConfirmsLook'
  <2> SUFFICES ASSUME counted' = Len(read), NEW l \in Unread PROVE place[l] > seenAt
    BY <1>4 DEF CountConfirmsLook
  <2>1. Len(read) \in Nat
    BY LenProperties DEF TypeOK
  <2>2. Len(read) = Len(list)
    BY <2>1
  <2>3. PICK i \in 1..Len(list) : l = list[i]
    BY DEF Unread, InList
  <2>4. place[l] = stores + 1 - i /\ place[l] \in Nat
    BY <1>1, <1>2, <2>3
  <2>5. place[l] > seenAt \/ seenAt - place[l] >= Len(list)
    BY <2>2 DEF LookReach
  <2>6. QED
    BY <1>1, <1>2, <2>4, <2>5
<1>7. QED
  BY <1>3, <1>5, <1>6

LEMMA ClearKeeps ==
    ASSUME LettersInv, Clear PROVE LettersInv'
<1> USE DEF LettersInv, Clear
<1>1. TypeOK'
  BY EmptySeq DEF TypeOK, Empties
<1>2. /\ UNCHANGED <<stores, place, since, pc, seenAt, now>> /\ cleared' = stores /\ Empties
      /\ cleared <= stores /\ now \in Nat /\ stores \in Nat
      /\ \A l \in Letters : place[l] <= stores
  BY DEF Places, TypeOK
<1>3. QED
  BY <1>1, <1>2, EmptyingKeeps

LEMMA TickKeeps ==
    ASSUME LettersInv, Tick PROVE LettersInv'
<1> USE DEF LettersInv, Tick, redis
<1>1. /\ now' = now + 1 /\ now \in Nat /\ stores \in Nat
      /\ UNCHANGED <<stores, place, since, pc, seenAt, cleared, redisUp, read, counted>>
      /\ cleared <= base /\ base <= stores
      /\ \A l \in Letters : place[l] \in Nat /\ place[l] <= stores /\ since[l] \in Nat
  BY DEF TypeOK, Places
<1>2. CASE expires # 0 /\ now' >= expires
  <2>1. Empties
    BY <1>2
  <2>2. TypeOK'
    BY <1>1, <2>1, EmptySeq DEF TypeOK, Empties
  <2>3. list # <<>>
    BY <1>2 DEF Lifetimes
  <2>4. list[1] \in Letters /\ place[list[1]] = stores /\ expires = since[list[1]] + Lifetime
    BY <2>3, Listed
  <2>5. \A l \in Letters : base < place[l] => since[l] <= since[list[1]]
    BY <1>1, <2>4 DEF Places, TypeOK
  <2>6. \A l \in Letters : base < place[l] => now' >= since[l] + Lifetime
    BY <1>1, <1>2, <2>4, <2>5
  <2>7. cleared \in Nat /\ base \in Nat
    BY DEF TypeOK
  <2>8. cleared <= cleared' /\ cleared' <= stores /\ now <= now' /\ now' \in Nat
    BY <1>1, <2>7
  <2>9. QED
    BY <1>1, <2>1, <2>2, <2>6, <2>8, EmptyingKeeps
<1>3. CASE ~(expires # 0 /\ now' >= expires)
  <2>1. UNCHANGED <<list, expires, base>>
    BY <1>3
  <2>2. TypeOK'
    BY <1>1, <2>1 DEF TypeOK
  <2>3. ListIsRecent' /\ Places' /\ LookReach' /\ CountConfirmsLook'
    BY <1>1, <2>1, LookKept DEF ListIsRecent, Places
  <2>4. Lifetimes'
    <3>1. IF list = <<>> THEN expires = 0
          ELSE expires = since[list[1]] + Lifetime /\ now' < expires
      BY <1>1, <1>3, Listed DEF Lifetimes, TypeOK
    <3>2. \A l \in Letters : 0 < place[l] /\ place[l] <= base
              => place[l] <= cleared \/ now' >= since[l] + Lifetime
      BY <1>1 DEF Lifetimes
    <3>3. QED
      BY <1>1, <2>1, <3>1, <3>2 DEF Lifetimes
  <2>5. QED
    BY <2>2, <2>3, <2>4
<1>4. QED
  BY <1>2, <1>3

LEMMA RedisDownKeeps ==
    ASSUME LettersInv, RedisDown PROVE LettersInv'
<1> USE DEF LettersInv, RedisDown, redis
<1>1. CASE UNCHANGED <<redis, base, cleared>>
  <2>1. TypeOK' /\ ListIsRecent'
    BY <1>1 DEF TypeOK, ListIsRecent
  <2>2. Places' /\ Lifetimes'
    BY <1>1 DEF Places, Lifetimes
  <2>3. LookReach' /\ CountConfirmsLook'
    BY <1>1, LookKept DEF history
  <2>4. QED
    BY <2>1, <2>2, <2>3
<1>2. CASE Empties /\ cleared' = stores
  <2>1. TypeOK'
    BY <1>2, EmptySeq DEF TypeOK, Empties
  <2>2. /\ UNCHANGED <<stores, place, since, pc, seenAt, now>> /\ Empties
        /\ cleared' = stores /\ cleared <= stores /\ now \in Nat /\ stores \in Nat
        /\ \A l \in Letters : place[l] <= stores
    BY <1>2 DEF Places, TypeOK
  <2>3. QED
    BY <2>1, <2>2, EmptyingKeeps
<1>3. QED
  BY <1>1, <1>2

LEMMA OthersKeep ==
    ASSUME LettersInv,
           (\E l \in Letters : Return(l) \/ Dropped(l)) \/ RedisUp \/ UNCHANGED vars
    PROVE  LettersInv'
<1>1. /\ UNCHANGED <<list, expires, now, read, counted, seenAt, stores, place, since, base,
                     cleared>>
      /\ redisUp' \in BOOLEAN
  BY DEF Return, Dropped, RedisUp, vars, redis, history, LettersInv, TypeOK
<1>2. /\ pc' \in [Letters -> {"new", "stored", "true", "false"}]
      /\ \A l \in Letters : pc'[l] = "new" => pc[l] = "new"
  BY DEF Return, Dropped, RedisUp, vars, Answers, LettersInv, TypeOK
<1>3. TypeOK' /\ Places'
  BY <1>1, <1>2 DEF LettersInv, TypeOK, Places
<1>4. ListIsRecent' /\ Lifetimes' /\ LookReach' /\ CountConfirmsLook'
  BY <1>1, LookKept DEF LettersInv, ListIsRecent, Lifetimes
<1>5. QED
  BY <1>3, <1>4 DEF LettersInv

-----------------------------------------------------------------------------
(* The theorems. *)

LEMMA StepKeeps ==
    ASSUME LettersInv, [Next]_vars PROVE LettersInv'
  BY StoreKeeps, PeekKeeps, CountKeeps, ClearKeeps, TickKeeps, RedisDownKeeps, OthersKeep DEF Next

\* What the list holds at any moment: the newest letters since it was last
\* emptied, newest first, with the lifetime of the newest.
THEOREM LettersInvariant == Spec => []LettersInv
  BY InitInv, StepKeeps, PTL DEF Spec

\* A letter that is neither old, nor pushed out, nor cleared can be read.
THEOREM FreshLetters == Spec => []FreshLettersSurvive
<1>1. LettersInv => FreshLettersSurvive
  <2> SUFFICES ASSUME LettersInv, NEW l \in Letters, place[l] > cleared,
                      stores - place[l] < Cap, now < since[l] + Lifetime
               PROVE  l \in InList
    BY DEF FreshLettersSurvive
  <2> DEFINE i == stores + 1 - place[l]
  <2>1. /\ place[l] \in Nat /\ stores \in Nat /\ cleared \in Nat /\ base \in Nat
        /\ now \in Nat /\ since[l] \in Nat /\ place[l] <= stores
    BY DEF LettersInv, TypeOK, Places
  <2>2. place[l] > base
    <3>1. ~(place[l] <= cleared \/ now >= since[l] + Lifetime)
      BY <2>1, TimeAssumption
    <3>2. ~(0 < place[l] /\ place[l] <= base)
      BY <3>1 DEF LettersInv, Lifetimes
    <3>3. QED
      BY <2>1, <3>2
  <2>3. i \in 1..Len(list)
    <3>1. Len(list) = Least(Cap, stores - base) /\ Len(list) \in Nat
      BY Listed DEF LettersInv, ListIsRecent
    <3>2. i \in Nat \ {0} /\ i <= Cap /\ i <= stores - base
      BY <2>1, <2>2, CapAssumption
    <3>3. i <= Len(list)
      BY <3>1, <3>2 DEF Least
    <3> HIDE DEF i
    <3>4. QED
      BY <3>1, <3>2, <3>3
  <2>4. list[i] \in Letters /\ place[list[i]] = place[l]
    <3>1. list[i] \in Letters /\ place[list[i]] = stores + 1 - i
      BY <2>3, Listed
    <3>2. stores + 1 - i = place[l]
      BY <2>1
    <3>3. QED
      BY <3>1, <3>2
  <2>5. list[i] = l
    <3>1. place[list[i]] # 0
      BY <2>1, <2>2, <2>4
    <3>2. \A m, n \in Letters : place[m] = place[n] /\ place[n] # 0 => m = n
      BY DEF LettersInv, Places
    <3>3. QED
      BY <2>4, <3>1, <3>2
  <2>6. QED
    BY <2>3, <2>5 DEF InList
<1>2. QED
  BY <1>1, LettersInvariant, PTL

\* A list that can be read has had a letter within its lifetime.
THEOREM CurrentBacklog == Spec => []BacklogIsCurrent
<1>1. LettersInv => BacklogIsCurrent
  BY Listed DEF BacklogIsCurrent
<1>2. QED
  BY <1>1, LettersInvariant, PTL

\* Who counts as many as he has read can clear the list and lose unread only what
\* came after his look, whichever answers were lost.
THEOREM CountThenClear == Spec => []CountConfirmsLook
<1>1. LettersInv => CountConfirmsLook
  BY DEF LettersInv
<1>2. QED
  BY <1>1, LettersInvariant, PTL
=============================================================================
