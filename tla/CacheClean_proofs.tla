-------------------------- MODULE CacheClean_proofs --------------------------
(***************************************************************************)
(* What CacheClean guarantees for every set of threads and any number of   *)
(* modifications of the code.                                              *)
(***************************************************************************)
EXTENDS CacheClean, TLAPS, SequenceTheorems

\* Whether a thread's cache is on the list.
Alive(t) == pc[t] \notin {"new", "gone"}
Listed(t) == \E i \in DOMAIN caches : caches[i] = t

\* Types, without the bounds of TypeOK that hold by counting.
CleanTypes ==
  /\ caches \in Seq(Threads)
  /\ ll_mutex \in Threads \cup {NoThread}
  /\ is_cache_clean_need \in {0, 1}
  /\ clean \in [Threads -> {0, 1}]
  /\ code \in Nat
  /\ tb \in [Threads -> Nat]
  /\ jitBuffer \in [Threads -> Nat]
  /\ pc \in [Threads -> PCs]
  /\ cursor \in [Threads -> Nat]
  /\ asked \in Nat
  /\ floor \in [Threads -> Nat]
  /\ raced \in BOOLEAN

\* Nobody is asked for a version that does not exist yet.
Versions == asked <= code /\ \A t \in Threads : floor[t] <= asked

\* A thread has an old translation: in its cache, or disassembled and not yet
\* appended.
OldHeld(t) ==
  \/ tb[t] # 0 /\ tb[t] < asked
  \/ pc[t] = "append" /\ jitBuffer[t] < asked

\* The cache of a thread with an old translation that is not marked will be: the flag is
\* up, no walk over the list has ended, and one that goes on has not yet
\* passed it.
WillBeMarked(t) ==
  /\ is_cache_clean_need = 1
  /\ \A s \in Threads :
       /\ pc[s] # "lower"
       /\ pc[s] = "walk" => \E i \in DOMAIN caches : cursor[s] <= i /\ caches[i] = t
StaleIsMarked ==
  ~raced => \A t \in Threads :
    Alive(t) /\ OldHeld(t) /\ clean[t] = 0 => WillBeMarked(t)

\* The lookup of a thread has done with the requests made before it.
OwnIsKnown ==
  ~raced => \A t \in Threads :
    pc[t] = "own" => clean[t] = 1 \/ tb[t] = 0 \/ tb[t] >= floor[t]

\* What a thread disassembles is no older than the requests made before its
\* lookup.
BufferIsKnown ==
  \A t \in Threads : pc[t] = "append" => jitBuffer[t] >= floor[t]

CleanInv ==
  /\ CleanTypes /\ ListIntact /\ Versions /\ BufferIsKnown
  /\ StaleIsMarked /\ OwnIsKnown /\ CleanWorksUnraced

-----------------------------------------------------------------------------
\* Membership of a list, and a list without repetition.
Holds(s, x) == \E i \in 1..Len(s) : s[i] = x
NoRepeat(s) == \A i, j \in 1..Len(s) : s[i] = s[j] => i = j

\* What ListIntact says, in these terms.
LEMMA IntactParts ==
  ASSUME caches \in Seq(Threads)
  PROVE  ListIntact <=>
           /\ \A t \in Threads : (pc[t] \notin {"new", "gone"}) <=> Holds(caches, t)
           /\ NoRepeat(caches)
           /\ \A t \in Threads : pc[t] = "walk" =>
                ll_mutex = t /\ cursor[t] \in 1..(Len(caches) + 1)
<1>1. DOMAIN caches = 1..Len(caches)
  BY LenProperties
<1> QED
  BY <1>1 DEF ListIntact, Holds, NoRepeat

\* A new element in front.
LEMMA Prepended ==
  ASSUME NEW S, NEW s \in Seq(S), NEW x \in S, NEW r, r = <<x>> \o s
  PROVE  /\ r \in Seq(S)
         /\ \A y : Holds(r, y) <=> y = x \/ Holds(s, y)
         /\ NoRepeat(s) /\ ~Holds(s, x) => NoRepeat(r)
<1>1. <<x>> \in Seq(S) /\ Len(<<x>>) = 1 /\ <<x>>[1] = x
  OBVIOUS
<1>2. /\ r \in Seq(S) /\ Len(r) = 1 + Len(s)
      /\ \A i \in 1..(1 + Len(s)) : r[i] = IF i <= 1 THEN <<x>>[i] ELSE s[i - 1]
  BY <1>1, ConcatProperties
<1>3. Len(s) \in Nat
  BY LenProperties
<1> DEFINE n == Len(s)
<1>4. Len(r) = n + 1 /\ r[1] = x /\ \A i \in 1..n : r[i + 1] = s[i]
  BY <1>1, <1>2, <1>3
<1>5. n \in Nat
  BY <1>3
<1> HIDE DEF n
<1>6. \A i \in 1..(n + 1) : i = 1 \/ (i - 1 \in 1..n /\ r[i] = s[i - 1])
  <2> SUFFICES ASSUME NEW i \in 1..(n + 1), i # 1
               PROVE  i - 1 \in 1..n /\ r[i] = s[i - 1]
    OBVIOUS
  <2>1. i - 1 \in 1..n /\ (i - 1) + 1 = i
    BY <1>5
  <2>2. r[(i - 1) + 1] = s[i - 1]
    BY <2>1, <1>4
  <2> QED
    BY <2>1, <2>2
<1>7. \A y : Holds(r, y) <=> y = x \/ Holds(s, y)
  <2> SUFFICES ASSUME NEW y PROVE Holds(r, y) <=> y = x \/ Holds(s, y)
    OBVIOUS
  <2>1. ASSUME NEW i \in 1..(n + 1), r[i] = y PROVE y = x \/ \E j \in 1..n : s[j] = y
    BY <2>1, <1>4, <1>6
  <2>2. y = x => \E i \in 1..(n + 1) : r[i] = y
    BY <1>4, <1>5
  <2>3. ASSUME NEW j \in 1..n, s[j] = y PROVE \E i \in 1..(n + 1) : r[i] = y
    <3>1. j + 1 \in 1..(n + 1) /\ r[j + 1] = y
      BY <2>3, <1>4, <1>5
    <3> QED
      BY <3>1
  <2> QED
    BY <2>1, <2>2, <2>3, <1>4 DEF Holds, n
<1>8. ASSUME NoRepeat(s), ~Holds(s, x) PROVE NoRepeat(r)
  <2> SUFFICES ASSUME NEW i \in 1..(n + 1), NEW j \in 1..(n + 1), r[i] = r[j] PROVE i = j
    BY <1>4 DEF NoRepeat
  <2>1. \A k, l \in 1..n : s[k] = s[l] => k = l
    BY <1>8 DEF NoRepeat, n
  <2>2. \A k \in 1..n : s[k] # x
    BY <1>8 DEF Holds, n
  <2>3. CASE i = 1 \/ j = 1
    BY <2>2, <2>3, <1>4, <1>6
  <2>4. CASE i # 1 /\ j # 1
    <3>1. i - 1 \in 1..n /\ j - 1 \in 1..n /\ s[i - 1] = s[j - 1]
      BY <2>4, <1>6
    <3>2. i - 1 = j - 1
      BY <3>1, <2>1
    <3> QED
      BY <3>2, <1>5
  <2> QED
    BY <2>3, <2>4
<1> QED
  BY <1>2, <1>7, <1>8

\* The element at p taken out.
TakeOut(s, p) == [i \in 1..(Len(s) - 1) |-> IF i < p THEN s[i] ELSE s[i + 1]]

\* What is left is the other elements, once each.
LEMMA TakenOut ==
  ASSUME NEW S, NEW s \in Seq(S), NEW p \in 1..Len(s), NoRepeat(s)
  PROVE  /\ TakeOut(s, p) \in Seq(S)
         /\ \A y : Holds(TakeOut(s, p), y) <=> y # s[p] /\ Holds(s, y)
         /\ NoRepeat(TakeOut(s, p))
<1> DEFINE n == Len(s)
           r == TakeOut(s, p)
           f(i) == IF i < p THEN i ELSE i + 1
<1>1. n \in Nat /\ p \in 1..n /\ n - 1 \in Nat
  BY LenProperties
<1>2. \A i \in 1..n : s[i] \in S
  BY ElementOfSeq
<1>3. \A i \in 1..(n - 1) : f(i) \in 1..n /\ f(i) # p /\ r[i] = s[f(i)]
  BY <1>1 DEF TakeOut
<1>4. r \in Seq(S) /\ Len(r) = n - 1
  <2>1. r \in [1..(n - 1) -> S]
    <3>1. \A i \in 1..(n - 1) : (IF i < p THEN s[i] ELSE s[i + 1]) \in S
      BY <1>1, <1>2
    <3> QED
      BY <3>1 DEF TakeOut
  <2> HIDE DEF r
  <2> QED
    BY <2>1, <1>1
<1>5. \A i, j \in 1..(n - 1) : f(i) = f(j) => i = j
  BY <1>1
<1>6. \A k \in 1..n : k # p => \E i \in 1..(n - 1) : f(i) = k
  <2> SUFFICES ASSUME NEW k \in 1..n, k # p PROVE \E i \in 1..(n - 1) : f(i) = k
    OBVIOUS
  <2>1. CASE k < p
    <3>1. k \in 1..(n - 1) /\ f(k) = k
      BY <2>1, <1>1
    <3> QED
      BY <3>1
  <2>2. CASE k > p
    <3>1. k - 1 \in 1..(n - 1) /\ f(k - 1) = k
      BY <2>2, <1>1
    <3> QED
      BY <3>1
  <2> QED
    BY <2>1, <2>2, <1>1
<1>7. \A k, l \in 1..n : s[k] = s[l] => k = l
  BY DEF NoRepeat
<1>8. Len(r) = n - 1 /\ Len(s) = n
  BY <1>4
<1> HIDE DEF n, f, r
<1>9. \A y : Holds(r, y) <=> y # s[p] /\ Holds(s, y)
  <2> SUFFICES ASSUME NEW y PROVE Holds(r, y) <=> y # s[p] /\ Holds(s, y)
    OBVIOUS
  <2>1. ASSUME NEW i \in 1..(n - 1), r[i] = y PROVE y # s[p] /\ \E k \in 1..n : s[k] = y
    BY <2>1, <1>1, <1>3, <1>7
  <2>2. ASSUME NEW k \in 1..n, s[k] = y, y # s[p] PROVE \E i \in 1..(n - 1) : r[i] = y
    <3>1. PICK i \in 1..(n - 1) : f(i) = k
      BY <2>2, <1>6
    <3>2. r[i] = y
      BY <3>1, <2>2, <1>3
    <3> QED
      BY <3>2
  <2> QED
    BY <2>1, <2>2, <1>8 DEF Holds
<1>10. NoRepeat(r)
  <2> SUFFICES ASSUME NEW i \in 1..(n - 1), NEW j \in 1..(n - 1), r[i] = r[j] PROVE i = j
    BY <1>8 DEF NoRepeat
  <2>1. f(i) \in 1..n /\ f(j) \in 1..n /\ s[f(i)] = s[f(j)]
    BY <1>3
  <2> QED
    BY <2>1, <1>5, <1>7
<1> QED
  BY <1>4, <1>9, <1>10 DEF r

\* The list is empty at the start, and nobody runs.
LEMMA CleanInit == Init => CleanInv
<1> SUFFICES ASSUME Init PROVE CleanInv
  OBVIOUS
<1> USE DEF Init
<1>1. CleanTypes
  <2>1. caches \in Seq(Threads) /\ raced \in BOOLEAN
    BY Zenon, EmptySeq
  <2>2. /\ is_cache_clean_need \in {0, 1} /\ clean \in [Threads -> {0, 1}]
        /\ code \in Nat /\ tb \in [Threads -> Nat] /\ jitBuffer \in [Threads -> Nat]
        /\ cursor \in [Threads -> Nat] /\ asked \in Nat /\ floor \in [Threads -> Nat]
    OBVIOUS
  <2>3. ll_mutex \in Threads \cup {NoThread} /\ pc \in [Threads -> PCs]
    BY DEF PCs
  <2> QED
    BY <2>1, <2>2, <2>3 DEF CleanTypes
<1>2. ListIntact
  BY DEF ListIntact
<1>3. Versions
  BY DEF Versions
<1>4. StaleIsMarked /\ OwnIsKnown /\ BufferIsKnown /\ CleanWorksUnraced
  BY DEF StaleIsMarked, OldHeld, Alive, OwnIsKnown, BufferIsKnown, CleanWorksUnraced
<1> QED
  BY <1>1, <1>2, <1>3, <1>4 DEF CleanInv

\* createCache puts the cache at the front of the list, while nobody walks.
LEMMA CleanCreate ==
  ASSUME CleanInv, NEW t \in Threads, createCache(t)
  PROVE  CleanInv'
<1> USE DEF CleanInv, CleanTypes
<1>0. /\ pc[t] = "new" /\ pc' = [pc EXCEPT ![t] = "top"] /\ ll_mutex = NoThread
      /\ caches' = <<t>> \o caches
      /\ clean' = [clean EXCEPT ![t] = 0] /\ tb' = [tb EXCEPT ![t] = 0]
      /\ UNCHANGED <<ll_mutex, is_cache_clean_need, code, jitBuffer, cursor, asked, floor, raced>>
  BY DEF createCache, Goto, history
<1>1. /\ caches' \in Seq(Threads)
      /\ \A s : Holds(caches', s) <=> s = t \/ Holds(caches, s)
      /\ NoRepeat(caches')
  <2>1. NoRepeat(caches) /\ ~Holds(caches, t)
    BY <1>0, IntactParts
  <2> HIDE DEF CleanInv
  <2>2. caches \in Seq(Threads) /\ caches' = <<t>> \o caches
    BY <1>0 DEF CleanInv
  <2> QED
    BY ONLY <2>1, <2>2, t \in Threads, Prepended, Zenon
<1>2. CleanTypes'
  BY <1>0, <1>1 DEF PCs
<1>3. \A s \in Threads : pc[s] # "walk" /\ pc'[s] # "walk"
  BY <1>0, NoThreadAssumption, IntactParts
<1>4. ListIntact'
  <2>1. \A s \in Threads : (pc'[s] \notin {"new", "gone"}) <=> Holds(caches', s)
    BY <1>0, <1>1, IntactParts
  <2>2. ListIntact' <=>
           /\ \A s \in Threads : (pc'[s] \notin {"new", "gone"}) <=> Holds(caches', s)
           /\ NoRepeat(caches')
           /\ \A s \in Threads : pc'[s] = "walk" =>
                ll_mutex' = s /\ cursor'[s] \in 1..(Len(caches') + 1)
    <3>1. DOMAIN caches' = 1..Len(caches')
      BY ONLY <1>1, LenProperties, Zenon
    <3> QED
      BY ONLY <3>1 DEF ListIntact, Holds, NoRepeat
  <2> QED
    BY <2>1, <2>2, <1>1, <1>3
<1>5. Versions'
  BY <1>0 DEF Versions
<1>6. StaleIsMarked'
  BY <1>0, <1>3 DEF StaleIsMarked, OldHeld, WillBeMarked, Alive
<1>7. OwnIsKnown' /\ BufferIsKnown' /\ CleanWorksUnraced'
  BY <1>0 DEF OwnIsKnown, BufferIsKnown, CleanWorksUnraced
<1> QED
  BY <1>2, <1>4, <1>5, <1>6, <1>7

\* removeCache takes it out of the list, while nobody walks.
LEMMA CleanRemove ==
  ASSUME CleanInv, NEW t \in Threads, removeCache(t)
  PROVE  CleanInv'
<1> USE DEF CleanInv, CleanTypes
<1>0. /\ pc[t] = "remove" /\ pc' = [pc EXCEPT ![t] = "gone"] /\ ll_mutex = NoThread
      /\ caches' = Without(t)
      /\ UNCHANGED <<ll_mutex, is_cache_clean_need, clean, code, tb, jitBuffer, cursor, asked, floor, raced>>
  BY DEF removeCache, Goto, history
<1> DEFINE p == Position(t)
<1>1. p \in 1..Len(caches) /\ caches[p] = t
  <2>1. \E i \in DOMAIN caches : caches[i] = t
    BY <1>0 DEF ListIntact
  <2>2. DOMAIN caches = 1..Len(caches)
    BY LenProperties
  <2> QED
    BY <2>1, <2>2 DEF Position
<1>2. caches' = TakeOut(caches, p)
  BY <1>0 DEF Without, TakeOut
<1> HIDE DEF p
<1>3. /\ caches' \in Seq(Threads)
      /\ \A s : Holds(caches', s) <=> s # t /\ Holds(caches, s)
      /\ NoRepeat(caches')
  <2>1. NoRepeat(caches)
    BY IntactParts
  <2>2. caches \in Seq(Threads)
    OBVIOUS
  <2>3. /\ caches' \in Seq(Threads)
        /\ \A s : Holds(caches', s) <=> s # caches[p] /\ Holds(caches, s)
        /\ NoRepeat(caches')
    BY <1>1, <1>2, <2>1, <2>2, TakenOut, Zenon
  <2> QED
    BY ONLY <1>1, <2>3, Zenon
<1>4. CleanTypes'
  BY <1>0, <1>3 DEF PCs
<1>5. \A s \in Threads : pc[s] # "walk" /\ pc'[s] # "walk"
  BY <1>0, NoThreadAssumption, IntactParts
<1>6. ListIntact'
  <2>1. \A s \in Threads : (pc'[s] \notin {"new", "gone"}) <=> Holds(caches', s)
    BY <1>0, <1>3, IntactParts
  <2>2. ListIntact' <=>
           /\ \A s \in Threads : (pc'[s] \notin {"new", "gone"}) <=> Holds(caches', s)
           /\ NoRepeat(caches')
           /\ \A s \in Threads : pc'[s] = "walk" =>
                ll_mutex' = s /\ cursor'[s] \in 1..(Len(caches') + 1)
    <3>1. DOMAIN caches' = 1..Len(caches')
      BY ONLY <1>3, LenProperties, Zenon
    <3> QED
      BY ONLY <3>1 DEF ListIntact, Holds, NoRepeat
  <2> QED
    BY <2>1, <2>2, <1>3, <1>5
<1>7. Versions'
  BY <1>0 DEF Versions
<1>8. StaleIsMarked'
  BY <1>0, <1>5 DEF StaleIsMarked, OldHeld, WillBeMarked, Alive
<1>9. OwnIsKnown' /\ BufferIsKnown' /\ CleanWorksUnraced'
  BY <1>0 DEF OwnIsKnown, BufferIsKnown, CleanWorksUnraced
<1> QED
  BY <1>4, <1>6, <1>7, <1>8, <1>9

\* A step that leaves the list alone keeps what ListIntact says of it.
LEMMA SameList ==
  ASSUME CleanInv, NEW t \in Threads, NEW q \in PCs \ {"new", "gone"},
         pc[t] \notin {"new", "gone"}, pc' = [pc EXCEPT ![t] = q], caches' = caches,
         \A s \in Threads : pc'[s] = "walk" =>
            ll_mutex' = s /\ cursor'[s] \in 1..(Len(caches) + 1)
  PROVE  ListIntact'
<1>1. pc \in [Threads -> PCs]
  BY DEF CleanInv, CleanTypes
<1>2. \A s \in Threads : pc'[s] \notin {"new", "gone"} <=> pc[s] \notin {"new", "gone"}
  BY <1>1
<1> QED
  BY <1>2 DEF CleanInv, ListIntact

\* The walk over the list: taking the mutex, one cache, giving it back.
LEMMA CleanWalk ==
  ASSUME CleanInv, NEW t \in Threads, LockList(t) \/ ll_clean_cache(t) \/ UnlockList(t)
  PROVE  CleanInv'
<1> USE DEF CleanInv
<1>1. CASE LockList(t)
  <2>0. /\ pc[t] = "lock" /\ pc' = [pc EXCEPT ![t] = "walk"]
        /\ ll_mutex = NoThread /\ ll_mutex' = t /\ cursor' = [cursor EXCEPT ![t] = 1]
        /\ UNCHANGED <<caches, is_cache_clean_need, clean, code, tb, jitBuffer, asked, floor, raced>>
    BY <1>1 DEF LockList, Goto, history
  <2>1. CleanTypes'
    BY <2>0 DEF CleanTypes, PCs
  <2>2. \A s \in Threads : pc[s] # "walk"
    BY <2>0, NoThreadAssumption DEF ListIntact
  <2>3. Len(caches) \in Nat
    BY LenProperties DEF CleanTypes
  <2>4. ListIntact'
    <3>1. \A s \in Threads : pc'[s] = "walk" => s = t
      BY <2>0, <2>2 DEF CleanTypes
    <3>2. ll_mutex' = t /\ cursor'[t] \in 1..(Len(caches) + 1)
      BY <2>0, <2>3 DEF CleanTypes
    <3>3. "walk" \in PCs \ {"new", "gone"}
      BY DEF PCs
    <3> QED
      BY <2>0, <3>1, <3>2, <3>3, SameList
  <2>5. Versions'
    BY <2>0 DEF Versions
  <2>6. StaleIsMarked'
    <3> SUFFICES ASSUME ~raced, NEW s \in Threads, Alive(s), OldHeld(s), clean[s] = 0
                 PROVE  WillBeMarked(s)'
      BY <2>0 DEF StaleIsMarked, OldHeld, Alive, CleanTypes
    <3>1. WillBeMarked(s)
      BY DEF StaleIsMarked
    <3>2. PICK i \in DOMAIN caches : caches[i] = s
      BY DEF ListIntact, Alive
    <3>3. i \in Nat /\ 1 <= i
      <4>1. DOMAIN caches = 1..Len(caches)
        BY LenProperties DEF CleanTypes
      <4> QED
        BY <4>1, <2>3
    <3> QED
      BY <3>1, <3>2, <3>3, <2>0, <2>2 DEF WillBeMarked, CleanTypes
  <2>7. OwnIsKnown' /\ BufferIsKnown' /\ CleanWorksUnraced'
    BY <2>0 DEF OwnIsKnown, BufferIsKnown, CleanWorksUnraced, CleanTypes
  <2> QED
    BY <2>1, <2>4, <2>5, <2>6, <2>7
<1>2. CASE ll_clean_cache(t)
  <2>0. /\ pc[t] = "walk" /\ cursor[t] <= Len(caches)
        /\ clean' = [clean EXCEPT ![caches[cursor[t]]] = 1]
        /\ cursor' = [cursor EXCEPT ![t] = cursor[t] + 1]
        /\ UNCHANGED <<caches, ll_mutex, is_cache_clean_need, code, tb, jitBuffer, pc, asked, floor, raced>>
    BY <1>2 DEF ll_clean_cache, history
  <2>1. DOMAIN caches = 1..Len(caches) /\ Len(caches) \in Nat
    BY LenProperties DEF CleanTypes
  <2>2. /\ cursor[t] \in 1..Len(caches) /\ caches[cursor[t]] \in Threads
        /\ \A s \in Threads : pc[s] = "walk" => s = t
    <3>1. cursor[t] \in 1..Len(caches)
      BY <2>0, <2>1 DEF ListIntact, CleanTypes
    <3>2. caches[cursor[t]] \in Threads
      BY <3>1, ElementOfSeq DEF CleanTypes
    <3> QED
      BY <3>1, <3>2, <2>0 DEF ListIntact
  <2>3. CleanTypes'
    <3>1. clean' \in [Threads -> {0, 1}]
      BY <2>0, <2>2 DEF CleanTypes
    <3>2. cursor' \in [Threads -> Nat]
      BY <2>0 DEF CleanTypes
    <3> QED
      BY <2>0, <3>1, <3>2 DEF CleanTypes
  <2>4. ListIntact'
    <3>1. \A s \in Threads : pc[s] = "walk" => ll_mutex = s /\ cursor'[s] \in 1..(Len(caches) + 1)
      <4> SUFFICES ASSUME NEW s \in Threads, pc[s] = "walk"
                   PROVE  ll_mutex = s /\ cursor'[s] \in 1..(Len(caches) + 1)
        OBVIOUS
      <4>1. s = t /\ ll_mutex = s
        BY <2>2 DEF ListIntact
      <4>2. cursor'[s] = cursor[t] + 1
        BY <4>1, <2>0 DEF CleanTypes
      <4> QED
        BY <4>1, <4>2, <2>1, <2>2
    <3> QED
      BY <2>0, <3>1 DEF ListIntact
  <2>5. Versions'
    BY <2>0 DEF Versions
  <2>6. \A s \in Threads : clean[s] = 1 => clean'[s] = 1
    BY <2>0, <2>2 DEF CleanTypes
  <2>7. StaleIsMarked'
    <3> SUFFICES ASSUME ~raced, NEW s \in Threads, Alive(s), OldHeld(s), clean'[s] = 0
                 PROVE  WillBeMarked(s)'
      BY <2>0 DEF StaleIsMarked, OldHeld, Alive
    <3>1. clean[s] = 0 /\ WillBeMarked(s)
      BY <2>6 DEF StaleIsMarked, CleanTypes
    <3>2. PICK i \in DOMAIN caches : cursor[t] <= i /\ caches[i] = s
      BY <3>1, <2>0 DEF WillBeMarked
    <3>3. i # cursor[t]
      BY <3>2, <2>0, <2>2 DEF CleanTypes
    <3>4. cursor'[t] <= i
      BY <3>2, <3>3, <2>0, <2>1, <2>2 DEF CleanTypes
    <3> QED
      BY <3>1, <3>2, <3>4, <2>0, <2>2 DEF WillBeMarked
  <2>8. OwnIsKnown' /\ BufferIsKnown' /\ CleanWorksUnraced'
    BY <2>0, <2>6 DEF OwnIsKnown, BufferIsKnown, CleanWorksUnraced
  <2> QED
    BY <2>3, <2>4, <2>5, <2>7, <2>8
<1>3. CASE UnlockList(t)
  <2>0. /\ pc[t] = "walk" /\ pc' = [pc EXCEPT ![t] = "lower"] /\ cursor[t] > Len(caches)
        /\ ll_mutex' = NoThread /\ cursor' = [cursor EXCEPT ![t] = 0]
        /\ UNCHANGED <<caches, is_cache_clean_need, clean, code, tb, jitBuffer, asked, floor, raced>>
    BY <1>3 DEF UnlockList, Goto, history
  <2>1. CleanTypes'
    BY <2>0 DEF CleanTypes, PCs
  <2>2. \A s \in Threads : pc'[s] # "walk"
    BY <2>0 DEF ListIntact, CleanTypes
  <2>3. ListIntact'
    <3>1. "lower" \in PCs \ {"new", "gone"}
      BY DEF PCs
    <3> QED
      BY <2>0, <2>2, <3>1, SameList
  <2>4. Versions'
    BY <2>0 DEF Versions
  <2>5. StaleIsMarked'
    <3> SUFFICES ASSUME ~raced, NEW s \in Threads, Alive(s), OldHeld(s), clean[s] = 0
                 PROVE  FALSE
      BY <2>0 DEF StaleIsMarked, OldHeld, Alive, CleanTypes
    <3>1. PICK i \in DOMAIN caches : cursor[t] <= i
      BY <2>0 DEF StaleIsMarked, WillBeMarked
    <3> QED
      BY <3>1, <2>0, LenProperties DEF CleanTypes
  <2>6. OwnIsKnown' /\ BufferIsKnown' /\ CleanWorksUnraced'
    BY <2>0 DEF OwnIsKnown, BufferIsKnown, CleanWorksUnraced, CleanTypes
  <2> QED
    BY <2>1, <2>3, <2>4, <2>5, <2>6
<1> QED
  BY <1>1, <1>2, <1>3

\* The rest of a turn of the loop.
LEMMA CleanLoop ==
  ASSUME CleanInv, NEW t \in Threads,
         \/ ReadFlag(t) \/ LowerFlag(t) \/ CheckOwn(t)
         \/ disassemble(t) \/ append(t) \/ Execute(t) \/ Stop(t)
  PROVE  CleanInv'
<1> USE DEF CleanInv
<1>a. /\ UNCHANGED <<caches, ll_mutex, code, cursor, asked>>
      /\ pc[t] \notin {"new", "gone", "walk"}
      /\ \E q \in PCs \ {"new", "gone", "walk", "lower"} : pc' = [pc EXCEPT ![t] = q]
  BY DEF ReadFlag, LowerFlag, CheckOwn, disassemble, append, Execute, Stop, Goto, history, PCs
<1>b. PICK q \in PCs \ {"new", "gone", "walk", "lower"} : pc' = [pc EXCEPT ![t] = q]
  BY <1>a
<1>c. ListIntact'
  <2>1. \A s \in Threads : pc'[s] = "walk" => ll_mutex' = s /\ cursor'[s] \in 1..(Len(caches) + 1)
    BY <1>a, <1>b DEF ListIntact, CleanTypes
  <2> QED
    BY <1>a, <1>b, <2>1, SameList
<1>d. \A s \in Threads : WillBeMarked(s) /\ is_cache_clean_need' = 1 => WillBeMarked(s)'
  BY <1>a, <1>b DEF WillBeMarked, CleanTypes
<1>1. CASE ReadFlag(t)
  <2>0. /\ pc[t] = "top"
        /\ pc' = [pc EXCEPT ![t] = IF is_cache_clean_need = 1 THEN "lock" ELSE "own"]
        /\ floor' = [floor EXCEPT ![t] = asked]
        /\ UNCHANGED <<is_cache_clean_need, clean, tb, jitBuffer, raced>>
    BY <1>1 DEF ReadFlag, Goto
  <2>1. CleanTypes'
    BY <2>0, <1>a DEF CleanTypes, PCs
  <2>2. Versions'
    BY <2>0, <1>a DEF Versions, CleanTypes
  <2>3. StaleIsMarked'
    <3> SUFFICES ASSUME ~raced, NEW s \in Threads, Alive(s), OldHeld(s), clean[s] = 0
                 PROVE  WillBeMarked(s)'
      BY <2>0, <1>a DEF StaleIsMarked, OldHeld, Alive, CleanTypes
    <3>1. WillBeMarked(s)
      BY DEF StaleIsMarked
    <3> QED
      BY <3>1, <2>0, <1>d DEF WillBeMarked
  <2>4. OwnIsKnown'
    <3> SUFFICES ASSUME ~raced, NEW s \in Threads, pc'[s] = "own"
                 PROVE  clean[s] = 1 \/ tb[s] = 0 \/ tb[s] >= floor'[s]
      BY <2>0, <1>a DEF OwnIsKnown
    <3>1. CASE s # t
      BY <3>1, <2>0 DEF OwnIsKnown, CleanTypes
    <3>2. CASE s = t
      <4>1. is_cache_clean_need # 1 /\ floor'[t] = asked /\ Alive(t)
        BY <3>2, <2>0 DEF CleanTypes, Alive
      <4>2. tb[t] # 0 /\ tb[t] < asked => clean[t] # 0
        BY <4>1 DEF StaleIsMarked, OldHeld, WillBeMarked
      <4> QED
        BY <3>2, <4>1, <4>2 DEF CleanTypes
    <3> QED
      BY <3>1, <3>2
  <2>5. CleanWorksUnraced' /\ BufferIsKnown'
    BY <2>0, <1>a DEF CleanWorksUnraced, BufferIsKnown, CleanTypes
  <2> QED
    BY <2>1, <2>2, <2>3, <2>4, <2>5, <1>c
<1>2. CASE LowerFlag(t)
  <2>0. /\ pc[t] = "lower" /\ pc' = [pc EXCEPT ![t] = "own"] /\ is_cache_clean_need' = 0
        /\ UNCHANGED <<clean, tb, jitBuffer, floor, raced>>
    BY <1>2 DEF LowerFlag, Goto, history
  <2>1. CleanTypes'
    BY <2>0, <1>a DEF CleanTypes, PCs
  <2>2. Versions'
    BY <2>0, <1>a DEF Versions
  <2>3. ~raced => \A s \in Threads : Alive(s) => ~OldHeld(s) \/ clean[s] = 1
    <3> SUFFICES ASSUME ~raced, NEW s \in Threads, Alive(s)
                 PROVE  ~OldHeld(s) \/ clean[s] = 1
      OBVIOUS
    <3>1. ~WillBeMarked(s)
      BY <2>0 DEF WillBeMarked
    <3> QED
      BY <3>1 DEF StaleIsMarked, CleanTypes
  <2>4. StaleIsMarked'
    <3> SUFFICES ASSUME ~raced, NEW s \in Threads, Alive(s)', OldHeld(s), clean[s] = 0
                 PROVE  FALSE
      BY <2>0, <1>a DEF StaleIsMarked, OldHeld, CleanTypes
    <3>1. Alive(s)
      BY <2>0 DEF Alive, CleanTypes
    <3> QED
      BY <2>3, <3>1
  <2>5. OwnIsKnown'
    <3> SUFFICES ASSUME ~raced, NEW s \in Threads, pc'[s] = "own"
                 PROVE  clean[s] = 1 \/ tb[s] = 0 \/ tb[s] >= floor[s]
      BY <2>0, <1>a DEF OwnIsKnown
    <3>1. Alive(s)
      BY <2>0 DEF Alive, CleanTypes
    <3>2. tb[s] \in Nat /\ asked \in Nat /\ floor[s] \in Nat /\ floor[s] <= asked
      BY DEF CleanTypes, Versions
    <3> QED
      BY <2>3, <3>1, <3>2 DEF OldHeld
  <2>6. CleanWorksUnraced' /\ BufferIsKnown'
    BY <2>0, <1>a DEF CleanWorksUnraced, BufferIsKnown, CleanTypes
  <2> QED
    BY <2>1, <2>2, <2>4, <2>5, <2>6, <1>c
<1>3. CASE CheckOwn(t)
  <2>0. /\ pc[t] = "own"
        /\ pc' = [pc EXCEPT ![t] = IF clean[t] = 1 \/ tb[t] = 0 THEN "jit" ELSE "run"]
        /\ clean' = [clean EXCEPT ![t] = 0]
        /\ tb' = IF clean[t] = 1 THEN [tb EXCEPT ![t] = 0] ELSE tb
        /\ UNCHANGED <<is_cache_clean_need, jitBuffer, floor, raced>>
    BY <1>3 DEF CheckOwn, Goto, history
  <2>1. CleanTypes'
    BY <2>0, <1>a DEF CleanTypes, PCs
  <2>2. Versions'
    BY <2>0, <1>a DEF Versions
  <2>3. \A s \in Threads : /\ clean'[s] = 0 /\ tb'[s] # 0 => clean[s] = 0
                           /\ tb'[s] # 0 => tb'[s] = tb[s]
                           /\ s # t => clean'[s] = clean[s] /\ tb'[s] = tb[s] /\ pc'[s] = pc[s]
    BY <2>0 DEF CleanTypes
  <2>4. StaleIsMarked'
    <3> SUFFICES ASSUME ~raced, NEW s \in Threads, Alive(s), OldHeld(s)', clean'[s] = 0
                 PROVE  WillBeMarked(s)'
      BY <2>0, <1>a DEF StaleIsMarked, OldHeld, Alive, CleanTypes
    <3>1. OldHeld(s) /\ clean[s] = 0
      BY <2>0, <2>3, <1>a DEF OldHeld, CleanTypes
    <3>2. WillBeMarked(s)
      BY <3>1 DEF StaleIsMarked
    <3> QED
      BY <3>2, <2>0, <1>d DEF WillBeMarked
  <2>5. OwnIsKnown' /\ BufferIsKnown'
    BY <2>0, <2>3, <1>a DEF OwnIsKnown, BufferIsKnown, CleanTypes
  <2>6. CleanWorksUnraced'
    <3> SUFFICES ASSUME ~raced, NEW s \in Threads, pc'[s] = "run" PROVE tb'[s] >= floor[s]
      BY <2>0, <1>a DEF CleanWorksUnraced
    <3>1. CASE s # t
      BY <3>1, <2>3 DEF CleanWorksUnraced
    <3>2. CASE s = t
      BY <3>2, <2>0 DEF OwnIsKnown, CleanTypes
    <3> QED
      BY <3>1, <3>2
  <2> QED
    BY <2>1, <2>2, <2>4, <2>5, <2>6, <1>c
<1>4. CASE disassemble(t)
  <2>0. /\ pc[t] = "jit" /\ pc' = [pc EXCEPT ![t] = "append"]
        /\ jitBuffer' = [jitBuffer EXCEPT ![t] = code]
        /\ UNCHANGED <<is_cache_clean_need, clean, tb, floor, raced>>
    BY <1>4 DEF disassemble, Goto, history
  <2>1. CleanTypes'
    BY <2>0, <1>a DEF CleanTypes, PCs
  <2>2. Versions'
    BY <2>0, <1>a DEF Versions
  <2>3. StaleIsMarked'
    <3> SUFFICES ASSUME ~raced, NEW s \in Threads, Alive(s), OldHeld(s)', clean[s] = 0
                 PROVE  WillBeMarked(s)'
      BY <2>0, <1>a DEF StaleIsMarked, Alive, CleanTypes
    <3>1. OldHeld(s)
      BY <2>0, <1>a DEF OldHeld, Versions, CleanTypes
    <3>2. WillBeMarked(s)
      BY <3>1 DEF StaleIsMarked
    <3> QED
      BY <3>2, <2>0, <1>d DEF WillBeMarked
  <2>4. OwnIsKnown' /\ CleanWorksUnraced'
    BY <2>0, <1>a DEF OwnIsKnown, CleanWorksUnraced, CleanTypes
  <2>5. BufferIsKnown'
    BY <2>0, <1>a DEF BufferIsKnown, Versions, CleanTypes
  <2> QED
    BY <2>1, <2>2, <2>3, <2>4, <2>5, <1>c
<1>5. CASE append(t)
  <2>0. /\ pc[t] = "append" /\ pc' = [pc EXCEPT ![t] = "run"]
        /\ tb' = [tb EXCEPT ![t] = jitBuffer[t]]
        /\ UNCHANGED <<is_cache_clean_need, jitBuffer, floor>>
    BY <1>5 DEF append, Goto
  <2>1. PICK full \in BOOLEAN :
           /\ clean' = IF full THEN [clean EXCEPT ![t] = 0] ELSE clean
           /\ raced' = (raced \/ (full /\ clean[t] = 1))
    BY <1>5 DEF append
  <2>2. raced => raced'
    BY <2>1, Zenon
  <2>3. ~raced' => clean' = clean
    <3>1. ~raced' => ~full \/ clean[t] # 1
      BY <2>1, Zenon
    <3>2. clean[t] \in {0, 1} /\ clean \in [Threads -> {0, 1}]
      BY DEF CleanTypes
    <3>3. clean[t] = 0 => [clean EXCEPT ![t] = 0] = clean
      BY <3>2
    <3> QED
      BY <2>1, <3>1, <3>2, <3>3
  <2>4. CleanTypes'
    <3>1. raced' \in BOOLEAN
      BY <2>1, Zenon
    <3>2. clean' \in [Threads -> {0, 1}]
      BY <2>1 DEF CleanTypes
    <3> QED
      BY <2>0, <3>1, <3>2, <1>a DEF CleanTypes, PCs
  <2>5. Versions'
    BY <2>0, <1>a DEF Versions
  <2>6. StaleIsMarked'
    <3> SUFFICES ASSUME ~raced', NEW s \in Threads, Alive(s), OldHeld(s)', clean'[s] = 0
                 PROVE  WillBeMarked(s)'
      BY <2>0, <1>a DEF StaleIsMarked, Alive, CleanTypes
    <3>1. ~raced /\ clean[s] = 0
      BY <2>2, <2>3
    <3>2. OldHeld(s)
      BY <2>0, <1>a DEF OldHeld, CleanTypes
    <3>3. WillBeMarked(s)
      BY <3>1, <3>2 DEF StaleIsMarked
    <3> QED
      BY <3>3, <2>0, <1>d DEF WillBeMarked
  <2>7. OwnIsKnown' /\ BufferIsKnown'
    BY <2>0, <2>2, <2>3, <1>a DEF OwnIsKnown, BufferIsKnown, CleanTypes
  <2>8. CleanWorksUnraced'
    BY <2>0, <2>2, <1>a DEF CleanWorksUnraced, BufferIsKnown, CleanTypes
  <2> QED
    BY <2>4, <2>5, <2>6, <2>7, <2>8, <1>c
<1>6. CASE Execute(t) \/ Stop(t)
  <2>0. /\ \E q2 \in {"top", "remove"} : pc' = [pc EXCEPT ![t] = q2]
        /\ pc[t] \in {"run", "top"}
        /\ UNCHANGED <<is_cache_clean_need, clean, tb, jitBuffer, floor, raced>>
    BY <1>6 DEF Execute, Stop, Goto, history
  <2>1. CleanTypes'
    BY <2>0, <1>a DEF CleanTypes, PCs
  <2>2. Versions'
    BY <2>0, <1>a DEF Versions
  <2>3. StaleIsMarked'
    <3> SUFFICES ASSUME ~raced, NEW s \in Threads, Alive(s), OldHeld(s), clean[s] = 0
                 PROVE  WillBeMarked(s)'
      BY <2>0, <1>a DEF StaleIsMarked, OldHeld, Alive, CleanTypes
    <3>1. WillBeMarked(s)
      BY DEF StaleIsMarked
    <3> QED
      BY <3>1, <2>0, <1>d DEF WillBeMarked
  <2>4. OwnIsKnown' /\ BufferIsKnown' /\ CleanWorksUnraced'
    BY <2>0, <1>a DEF OwnIsKnown, BufferIsKnown, CleanWorksUnraced, CleanTypes
  <2> QED
    BY <2>1, <2>2, <2>3, <2>4, <1>c
<1> QED
  BY <1>1, <1>2, <1>3, <1>4, <1>5, <1>6

\* The code changes, and cleanCaches asks for its old translations to go.
LEMMA CleanRequests ==
  ASSUME CleanInv, NEW t \in Threads, ModifyCode(t) \/ cleanCaches(t)
  PROVE  CleanInv'
<1> USE DEF CleanInv
<1>1. CASE ModifyCode(t)
  <2>0. /\ code' = code + 1
        /\ UNCHANGED <<caches, ll_mutex, is_cache_clean_need, clean, tb, jitBuffer, pc, cursor, asked, floor, raced>>
    BY <1>1 DEF ModifyCode, history
  <2> QED
    BY <2>0 DEF CleanTypes, ListIntact, Versions, StaleIsMarked, OldHeld, WillBeMarked,
                Alive, OwnIsKnown, BufferIsKnown, CleanWorksUnraced
<1>2. CASE cleanCaches(t)
  <2>0. /\ is_cache_clean_need' = 1 /\ asked < code /\ asked' = code
        /\ raced' = (raced \/ \E s \in Threads : pc[s] \in {"lock", "walk", "lower"})
        /\ UNCHANGED <<caches, ll_mutex, clean, code, tb, jitBuffer, pc, cursor, floor>>
    BY <1>2 DEF cleanCaches
  <2>1. CleanTypes'
    <3>1. raced' \in BOOLEAN
      BY <2>0, Zenon
    <3> QED
      BY <3>1, <2>0 DEF CleanTypes
  <2>2. ListIntact' /\ Versions'
    BY <2>0 DEF ListIntact, Versions, CleanTypes
  <2>3. raced => raced'
    BY <2>0, Zenon
  <2>4. ~raced' => \A s \in Threads : pc[s] \notin {"lock", "walk", "lower"}
    BY <2>0, Zenon
  <2>5. StaleIsMarked'
    BY <2>0, <2>4 DEF StaleIsMarked, WillBeMarked
  <2>6. OwnIsKnown' /\ BufferIsKnown' /\ CleanWorksUnraced'
    BY <2>0, <2>3 DEF OwnIsKnown, BufferIsKnown, CleanWorksUnraced
  <2> QED
    BY <2>1, <2>2, <2>5, <2>6
<1> QED
  BY <1>1, <1>2

\* Every step of every thread keeps the invariant.
LEMMA CleanStep == CleanInv /\ [Next]_vars => CleanInv'
<1> SUFFICES ASSUME CleanInv, [Next]_vars PROVE CleanInv'
  OBVIOUS
<1>1. CASE UNCHANGED vars
  BY <1>1 DEF vars, CleanInv, CleanTypes, ListIntact, Versions, StaleIsMarked, OldHeld,
              WillBeMarked, Alive, OwnIsKnown, BufferIsKnown, CleanWorksUnraced
<1>2. ASSUME NEW t \in Threads,
             \/ createCache(t) \/ Step(t) \/ Stop(t) \/ removeCache(t)
             \/ ModifyCode(t) \/ cleanCaches(t)
      PROVE  CleanInv'
  BY <1>2, CleanCreate, CleanRemove, CleanWalk, CleanLoop, CleanRequests DEF Step
<1> QED
  BY <1>1, <1>2 DEF Next

\* For any set of threads: the list of caches holds exactly the caches of the
\* running threads, and a walk never leaves it (ll_append_cache,
\* ll_remove_cache, ll_clean_caches).
THEOREM CleanListIntact == Spec => []ListIntact
<1>1. CleanInv => ListIntact
  BY DEF CleanInv
<1> QED
  BY <1>1, CleanInit, CleanStep, PTL DEF Spec

\* For any set of threads and any number of changes of the code: a request
\* that does not meet the lowering of the flag, and whose mark no append of a
\* full area takes down, reaches every cache before it is searched again
\* (cleanCaches, lookup, append).
THEOREM CleanUnracedWorks == Spec => []CleanWorksUnraced
<1>1. CleanInv => CleanWorksUnraced
  BY DEF CleanInv
<1> QED
  BY <1>1, CleanInit, CleanStep, PTL DEF Spec
=============================================================================
