------------------------- MODULE VmaManager_proofs -------------------------
(***************************************************************************)
(* Proofs about the guest address space, in three layers:                  *)
(*   Shape    the list is a chain of descriptors from the first byte of    *)
(*            the space to the last, all on page addresses, whatever the   *)
(*            arguments are;                                               *)
(*   Sound    the list, the host's mappings, the segments, the pending     *)
(*            unmaps and the stacks of threads agree;                      *)
(*   Stocked  no descriptor is lost, and enough are left at every moment   *)
(*            for what the end of a call does.                             *)
(* Each layer has a lemma per operator of the code (Laid..., Works...),    *)
(* over the lemmas on what insert_area does to the type of each byte.      *)
(***************************************************************************)
EXTENDS VmaManager, SequenceTheorems, FiniteSetTheorems, WellFoundedInduction, TLAPS

-----------------------------------------------------------------------------
(* Descriptors in order.                                                   *)

Desc == [type : {VMA_UNMAP, VMA_MAP}, start : Nat, end : Nat]

Chain(l) ==
  /\ l \in Seq(Desc)
  /\ Len(l) > 0
  /\ \A i \in 1..Len(l) : l[i].start <= l[i].end
  /\ \A i \in 1..(Len(l) - 1) : l[i].end = l[i + 1].start
  /\ \A i, j \in 1..Len(l) : i < j => l[i].end <= l[j].start

\* A descriptor of this type owns a.
Has(l, a, type) ==
  \E i \in 1..Len(l) : l[i].type = type /\ l[i].start <= a /\ a < l[i].end

\* The elements of a chain are descriptors.
LEMMA ElementOfDesc ==
  ASSUME NEW l \in Seq(Desc), NEW i \in 1..Len(l)
  PROVE  /\ l[i] \in Desc
         /\ l[i].type \in {VMA_UNMAP, VMA_MAP}
         /\ l[i].start \in Nat
         /\ l[i].end \in Nat
<1>1. l[i] \in Desc
  BY ElementOfSeq, Zenon
<1> QED BY <1>1 DEF Desc

\* What Splice returns.
LEMMA SpliceIs ==
  ASSUME NEW l \in Seq(Desc), NEW mid \in Seq(Desc),
         NEW i \in 1..Len(l), NEW j \in i..Len(l)
  PROVE  LET s == Splice(l, i, j, mid) IN
         /\ s \in Seq(Desc)
         /\ Len(s) = Len(l) - (j - i + 1) + Len(mid)
         /\ \A k \in 1..Len(s) :
              s[k] = IF k < i THEN l[k]
                     ELSE IF k < i + Len(mid) THEN mid[k - i + 1]
                     ELSE l[k - Len(mid) + (j - i + 1)]
<1> DEFINE a == SubSeq(l, 1, i - 1)
           b == SubSeq(l, j + 1, Len(l))
<1>0. Len(l) \in Nat /\ Len(mid) \in Nat /\ i \in Int /\ j \in Int
  BY LenProperties
<1>1. /\ a \in Seq(Desc)
      /\ Len(a) = i - 1
      /\ \A k \in 1..(i - 1) : a[k] = l[k]
  <2>1. \A k \in 1..(i - 1) : l[k] \in Desc
    BY <1>0, ElementOfSeq
  <2>2. /\ SubSeq(l, 1, i - 1) \in Seq(Desc)
        /\ Len(SubSeq(l, 1, i - 1)) = IF 1 <= i - 1 THEN (i - 1) - 1 + 1 ELSE 0
        /\ \A k \in 1..((i - 1) - 1 + 1) : SubSeq(l, 1, i - 1)[k] = l[1 + k - 1]
    BY <1>0, <2>1, SubSeqProperties
  <2> QED BY <2>2, <1>0
<1>2. /\ b \in Seq(Desc)
      /\ Len(b) = Len(l) - j
      /\ \A k \in 1..(Len(l) - j) : b[k] = l[j + k]
  <2>1. \A k \in (j + 1)..Len(l) : l[k] \in Desc
    BY <1>0, ElementOfSeq
  <2>2. /\ SubSeq(l, j + 1, Len(l)) \in Seq(Desc)
        /\ Len(SubSeq(l, j + 1, Len(l))) = IF j + 1 <= Len(l) THEN Len(l) - (j + 1) + 1 ELSE 0
        /\ \A k \in 1..(Len(l) - (j + 1) + 1) : SubSeq(l, j + 1, Len(l))[k] = l[(j + 1) + k - 1]
    BY <1>0, <2>1, SubSeqProperties
  <2> QED BY <2>2, <1>0
<1> HIDE DEF a, b
<1>3. /\ a \o mid \in Seq(Desc)
      /\ Len(a \o mid) = (i - 1) + Len(mid)
      /\ \A k \in 1..((i - 1) + Len(mid)) :
            (a \o mid)[k] = IF k <= i - 1 THEN a[k] ELSE mid[k - (i - 1)]
  BY <1>1, ConcatProperties, SMTT(30)
<1> DEFINE c == a \o mid
<1>4. /\ c \in Seq(Desc)
      /\ Len(c) = (i - 1) + Len(mid)
      /\ \A k \in 1..((i - 1) + Len(mid)) :
            c[k] = IF k <= i - 1 THEN l[k] ELSE mid[k - (i - 1)]
  BY <1>3, <1>1, <1>0
<1> HIDE DEF c
<1>5. /\ c \o b \in Seq(Desc)
      /\ Len(c \o b) = (i - 1) + Len(mid) + (Len(l) - j)
      /\ \A k \in 1..((i - 1) + Len(mid) + (Len(l) - j)) :
            (c \o b)[k] = IF k <= (i - 1) + Len(mid) THEN c[k] ELSE b[k - ((i - 1) + Len(mid))]
  <2>1. /\ c \o b \in Seq(Desc)
        /\ Len(c \o b) = Len(c) + Len(b)
        /\ \A k \in 1..(Len(c) + Len(b)) :
            (c \o b)[k] = IF k <= Len(c) THEN c[k] ELSE b[k - Len(c)]
    BY <1>4, <1>2, ConcatProperties
  <2> QED BY <2>1, <1>4, <1>2
<1> DEFINE s == c \o b
<1>6. Splice(l, i, j, mid) = s
  BY DEF Splice, s, c, a, b
<1>7. /\ s \in Seq(Desc)
      /\ Len(s) = Len(l) - (j - i + 1) + Len(mid)
  BY <1>5, <1>0
<1>8. ASSUME NEW k \in 1..Len(s)
      PROVE  s[k] = IF k < i THEN l[k]
                    ELSE IF k < i + Len(mid) THEN mid[k - i + 1]
                    ELSE l[k - Len(mid) + (j - i + 1)]
  <2>0. k \in 1..((i - 1) + Len(mid) + (Len(l) - j))
    BY <1>5
  <2>1. s[k] = IF k <= (i - 1) + Len(mid) THEN c[k] ELSE b[k - ((i - 1) + Len(mid))]
    BY <1>5, <2>0
  <2> HIDE DEF s
  <2>2. CASE k < i
    BY <2>0, <2>1, <2>2, <1>4, <1>0
  <2>3. CASE k >= i /\ k < i + Len(mid)
    <3>0. k \in 1..((i - 1) + Len(mid)) /\ k <= (i - 1) + Len(mid) /\ ~(k <= i - 1)
      BY <2>3, <1>0
    <3>1. s[k] = c[k] /\ c[k] = mid[k - (i - 1)]
      BY <3>0, <2>1, <1>4
    <3>2. k - (i - 1) = k - i + 1
      BY <1>0
    <3> QED BY <3>1, <3>2, <2>3, <1>0
  <2>4. CASE k >= i + Len(mid)
    <3>1. s[k] = b[k - ((i - 1) + Len(mid))]
      BY <2>0, <2>1, <2>4, <1>0
    <3>2. k - ((i - 1) + Len(mid)) \in 1..(Len(l) - j)
      BY <2>0, <2>4, <1>0
    <3>3. b[k - ((i - 1) + Len(mid))] = l[j + (k - ((i - 1) + Len(mid)))]
      BY <3>2, <1>2
    <3>4. j + (k - ((i - 1) + Len(mid))) = k - Len(mid) + (j - i + 1)
      BY <1>0
    <3> QED BY <3>1, <3>3, <3>4, <2>4, <1>0
  <2> QED BY <2>2, <2>3, <2>4, <1>0
<1> HIDE DEF s
<1> QED BY <1>6, <1>7, <1>8

\* The length of a splice.
LEMMA SpliceLength ==
  ASSUME NEW l \in Seq(Desc), NEW mid \in Seq(Desc),
         NEW i \in 1..Len(l), NEW j \in i..Len(l)
  PROVE  /\ Splice(l, i, j, mid) \in Seq(Desc)
         /\ Len(Splice(l, i, j, mid)) = Len(l) - (j - i + 1) + Len(mid)
BY SpliceIs

\* A chain stays one when a part of it is replaced by a chain that covers the
\* same bytes.
LEMMA SpliceChain ==
  ASSUME NEW l, NEW mid, Chain(l), Chain(mid),
         NEW i \in 1..Len(l), NEW j \in i..Len(l),
         mid[1].start = l[i].start, mid[Len(mid)].end = l[j].end
  PROVE  LET s == Splice(l, i, j, mid) IN
         /\ Chain(s)
         /\ s[1].start = l[1].start
         /\ s[Len(s)].end = l[Len(l)].end
         /\ \A a \in Nat : \A t : Has(s, a, t) <=>
              IF l[i].start <= a /\ a < l[j].end THEN Has(mid, a, t)
              ELSE Has(l, a, t)
<1> DEFINE s == Splice(l, i, j, mid)
           n == Len(mid)
           d == (j - i + 1)
<1>0. /\ l \in Seq(Desc) /\ mid \in Seq(Desc)
      /\ Len(l) \in Nat /\ n \in Nat /\ n > 0 /\ i \in Nat /\ j \in Nat
      /\ i >= 1 /\ i <= j /\ j <= Len(l)
  BY LenProperties DEF Chain
<1>1. /\ s \in Seq(Desc)
      /\ Len(s) = Len(l) - d + n
      /\ \A k \in 1..Len(s) :
              s[k] = IF k < i THEN l[k]
                     ELSE IF k < i + n THEN mid[k - i + 1]
                     ELSE l[k - n + d]
  BY <1>0, SpliceIs
<1>c. /\ \A k \in 1..Len(s) : k < i => s[k] = l[k]
      /\ \A k \in 1..Len(s) : k >= i /\ k < i + n => s[k] = mid[k - i + 1]
      /\ \A k \in 1..Len(s) : k >= i + n => s[k] = l[k - n + d]
  <2>1. \A k \in 1..Len(s) : k \in Int
    OBVIOUS
  <2> HIDE DEF s, n, d
  <2>2. ASSUME NEW k \in 1..Len(s), k < i PROVE s[k] = l[k]
    BY <1>1, <2>2
  <2>3. ASSUME NEW k \in 1..Len(s), k >= i, k < i + n PROVE s[k] = mid[k - i + 1]
    <3>1. ~(k < i)
      BY <2>3, <1>0
    <3> QED BY <1>1, <2>3, <3>1
  <2>4. ASSUME NEW k \in 1..Len(s), k >= i + n PROVE s[k] = l[k - n + d]
    <3>1. ~(k < i) /\ ~(k < i + n)
      BY <2>4, <1>0
    <3> QED BY <1>1, <2>4, <3>1
  <2> QED BY <2>2, <2>3, <2>4
<1>2. \A k \in 1..Len(l) : l[k].start \in Nat /\ l[k].end \in Nat /\ l[k].start <= l[k].end
  BY <1>0, ElementOfDesc DEF Chain
<1>3. \A k \in 1..n : mid[k].start \in Nat /\ mid[k].end \in Nat /\ mid[k].start <= mid[k].end
  BY <1>0, ElementOfDesc DEF Chain
<1>4. /\ \A k \in 1..(Len(l) - 1) : l[k].end = l[k + 1].start
      /\ \A k, h \in 1..Len(l) : k < h => l[k].end <= l[h].start
  BY DEF Chain
<1>5. /\ \A k \in 1..(n - 1) : mid[k].end = mid[k + 1].start
      /\ \A k, h \in 1..n : k < h => mid[k].end <= mid[h].start
  BY DEF Chain
<1>6. \A k \in 1..n : l[i].start <= mid[k].start /\ mid[k].end <= l[j].end
  <2> SUFFICES ASSUME NEW k \in 1..n
               PROVE  l[i].start <= mid[k].start /\ mid[k].end <= l[j].end
    OBVIOUS
  <2>1. 1 \in 1..n /\ n \in 1..n /\ i \in 1..Len(l) /\ j \in 1..Len(l)
    BY <1>0
  <2>2. k = 1 \/ mid[1].end <= mid[k].start
    BY <1>5, <2>1
  <2>3. k = n \/ mid[k].end <= mid[n].start
    BY <1>5, <2>1
  <2>4. /\ mid[1].start = l[i].start /\ mid[n].end = l[j].end
        /\ mid[1].start \in Nat /\ mid[1].end \in Nat /\ mid[1].start <= mid[1].end
        /\ mid[n].start \in Nat /\ mid[n].end \in Nat /\ mid[n].start <= mid[n].end
        /\ mid[k].start \in Nat /\ mid[k].end \in Nat
    BY <2>1, <1>3
  <2> DEFINE p1 == mid[1].start
             q1 == mid[1].end
             pn == mid[n].start
             qn == mid[n].end
             pk == mid[k].start
             qk == mid[k].end
  <2>5. /\ p1 \in Nat /\ q1 \in Nat /\ pn \in Nat /\ qn \in Nat /\ pk \in Nat /\ qk \in Nat
        /\ p1 <= q1 /\ pn <= qn
        /\ pk = p1 \/ q1 <= pk
        /\ qk = qn \/ qk <= pn
    BY <2>2, <2>3, <2>4
  <2> HIDE DEF p1, q1, pn, qn, pk, qk
  <2>6. p1 <= pk /\ qk <= qn
    BY <2>5
  <2> QED BY <2>4, <2>6 DEF p1, qn, pk, qk
<1> HIDE DEF s, n, d
<1>b. Len(s) \in Nat /\ d \in Nat /\ d >= 1 /\ d <= Len(l) /\ Len(s) > 0 /\ Len(s) = Len(l) - d + n
  <2>1. d \in Nat /\ d >= 1 /\ d <= Len(l)
    BY <1>0 DEF d
  <2> QED BY <1>0, <1>1, <2>1
<1>a. /\ \A k \in 1..(i - 1) : k \in 1..Len(s) /\ k \in 1..Len(l) /\ s[k] = l[k]
      /\ \A k \in 1..n : k + i - 1 \in 1..Len(s) /\ s[k + i - 1] = mid[k]
      /\ \A k \in (j + 1)..Len(l) : k - d + n \in 1..Len(s) /\ s[k - d + n] = l[k]
      /\ \A k \in 1..Len(s) : \/ k \in 1..(i - 1)
                              \/ k - i + 1 \in 1..n /\ (k - i + 1) + i - 1 = k
                              \/ k - n + d \in (j + 1)..Len(l) /\ (k - n + d) - d + n = k
  <2>0. Len(s) \in Nat /\ d \in Nat /\ Len(s) = Len(l) - d + n
    BY <1>b
  <2>1. ASSUME NEW k \in 1..(i - 1)
        PROVE  k \in 1..Len(s) /\ k \in 1..Len(l) /\ s[k] = l[k]
    <3>1. k \in 1..Len(s) /\ k \in 1..Len(l) /\ k < i
      <4> DEFINE z == Len(s)
                 y == Len(l)
      <4>1. /\ z \in Nat /\ y \in Nat /\ z = y - (j - i + 1) + n /\ n \in Nat
            /\ i \in Nat /\ j \in Nat /\ j <= y /\ i <= j /\ k \in Int /\ 1 <= k /\ k <= i - 1
        BY <1>0, <2>0, <2>1 DEF d
      <4> HIDE DEF z, y
      <4>2. k \in 1..z /\ k \in 1..y /\ k < i
        BY <4>1
      <4> QED BY <4>2 DEF z, y
    <3> QED BY <3>1, <1>c
  <2>2. ASSUME NEW k \in 1..n
        PROVE  k + i - 1 \in 1..Len(s) /\ s[k + i - 1] = mid[k]
    <3>1. k + i - 1 \in 1..Len(s)
      BY <1>0, <2>0 DEF d
    <3>2. ~(k + i - 1 < i) /\ k + i - 1 < i + n /\ (k + i - 1) - i + 1 = k
      BY <1>0
    <3> QED BY <3>1, <3>2, <1>c
  <2>3. ASSUME NEW k \in (j + 1)..Len(l)
        PROVE  k - d + n \in 1..Len(s) /\ s[k - d + n] = l[k]
    <3>1. k - d + n \in 1..Len(s)
      BY <1>0, <2>0 DEF d
    <3>2. k - d + n >= i + n /\ (k - d + n) - n + d = k
      BY <1>0, <2>0 DEF d
    <3> QED BY <3>1, <3>2, <1>c
  <2>4. ASSUME NEW k \in 1..Len(s)
        PROVE \/ k \in 1..(i - 1)
              \/ k - i + 1 \in 1..n /\ (k - i + 1) + i - 1 = k
              \/ k - n + d \in (j + 1)..Len(l) /\ (k - n + d) - d + n = k
    BY <1>0, <2>0 DEF d
  <2> QED BY <2>1, <2>2, <2>3, <2>4
<1>d. \A k \in 1..Len(s) :
        \/ k < i /\ k \in 1..Len(l) /\ s[k] = l[k]
        \/ \E u \in 1..n : k = u + i - 1 /\ s[k] = mid[u]
        \/ \E u \in 1..Len(l) : u > j /\ k = u - d + n /\ s[k] = l[u]
  <2> TAKE k \in 1..Len(s)
  <2>1. CASE k \in 1..(i - 1)
    BY <2>1, <1>a, <1>0
  <2>2. CASE k - i + 1 \in 1..n /\ (k - i + 1) + i - 1 = k
    BY <2>2, <1>a
  <2>3. CASE k - n + d \in (j + 1)..Len(l) /\ (k - n + d) - d + n = k
    <3>1. k - n + d \in 1..Len(l) /\ k - n + d > j
      BY <2>3, <1>0
    <3> QED BY <2>3, <3>1, <1>a
  <2> QED BY <2>1, <2>2, <2>3, <1>a
<1>7. \A k \in 1..Len(s) : s[k].start <= s[k].end
  BY <1>d, <1>2, <1>3
<1>8. \A k \in 1..(Len(s) - 1) : s[k].end = s[k + 1].start
  <2> SUFFICES ASSUME NEW k \in 1..(Len(s) - 1) PROVE s[k].end = s[k + 1].start
    OBVIOUS
  <2>0. k \in 1..Len(s) /\ k + 1 \in 1..Len(s)
    BY <1>b
  <2>1. CASE k + 1 < i
    BY <2>0, <2>1, <1>c, <1>4, <1>0
  <2>2. CASE k + 1 = i
    <3>0. k = i - 1 /\ k < i /\ k + 1 >= i /\ k + 1 < i + n /\ (k + 1) - i + 1 = 1
      BY <2>0, <2>2, <1>0
    <3>1. s[k] = l[i - 1] /\ s[k + 1] = mid[1]
      BY <3>0, <2>0, <1>c
    <3>2. i - 1 \in 1..(Len(l) - 1) /\ (i - 1) + 1 = i
      BY <2>2, <1>0
    <3> QED BY <3>1, <3>2, <1>4
  <2>3. CASE k >= i /\ k + 1 < i + n
    <3>1. k - i + 1 \in 1..(n - 1) /\ (k + 1) - i + 1 = (k - i + 1) + 1
      BY <2>0, <2>3, <1>0
    <3>2. s[k] = mid[k - i + 1] /\ s[k + 1] = mid[(k - i + 1) + 1]
      BY <2>0, <2>3, <1>c, <1>0, <3>1
    <3> QED BY <3>1, <3>2, <1>5
  <2>4. CASE k >= i /\ k + 1 = i + n
    <3>0. k < i + n /\ k - i + 1 = n
      BY <2>0, <2>4, <1>0
    <3>1. s[k] = mid[n]
      BY <3>0, <2>0, <2>4, <1>c
    <3>2. s[k + 1] = l[j + 1] /\ j \in 1..(Len(l) - 1)
      <4>1. (k + 1) - n + d = j + 1
        BY <2>4, <1>0 DEF d
      <4>2. j + 1 <= Len(l)
        BY <2>0, <2>4, <1>0, <1>b DEF d
      <4>3. s[k + 1] = l[(k + 1) - n + d]
        <5>1. k + 1 \in 1..Len(s) /\ k + 1 >= i + n
          BY <2>0, <2>4, <1>0
        <5> QED BY <5>1, <1>c
      <4>4. j \in 1..(Len(l) - 1)
        BY <4>2, <1>0
      <4> QED BY <4>1, <4>3, <4>4
    <3> QED BY <3>1, <3>2, <1>4 DEF n
  <2>5. CASE k >= i + n
    <3>1. s[k] = l[k - n + d] /\ s[k + 1] = l[(k + 1) - n + d]
      BY <2>0, <2>5, <1>c, <1>0
    <3>2. k - n + d \in 1..(Len(l) - 1) /\ (k + 1) - n + d = (k - n + d) + 1
      BY <2>0, <2>5, <1>0, <1>b DEF d
    <3> QED BY <3>1, <3>2, <1>4
  <2> QED BY <2>1, <2>2, <2>3, <2>4, <2>5, <1>0
<1>9. \A k, h \in 1..Len(s) : k < h => s[k].end <= s[h].start
  <2> SUFFICES ASSUME NEW k \in 1..Len(s), NEW h \in 1..Len(s), k < h
               PROVE  s[k].end <= s[h].start
    OBVIOUS
  <2>0. /\ i \in 1..Len(l) /\ j \in 1..Len(l)
    BY <1>c, <1>0
  <2>1. CASE k < i /\ k \in 1..Len(l) /\ s[k] = l[k]
    <3>1. l[k].end <= l[i].start
      BY <2>0, <2>1, <1>4
    <3>2. CASE h < i /\ h \in 1..Len(l) /\ s[h] = l[h]
      BY <3>2, <2>1, <1>4
    <3>3. CASE \E u \in 1..n : h = u + i - 1 /\ s[h] = mid[u]
      BY <3>1, <3>3, <2>0, <2>1, <1>6, <1>2, <1>3, SMTT(30)
    <3>4. CASE \E u \in 1..Len(l) : u > j /\ h = u - d + n /\ s[h] = l[u]
      <4>1. PICK u \in 1..Len(l) : u > j /\ s[h] = l[u]
        BY <3>4
      <4>2. k < u
        BY <4>1, <2>1, <1>0
      <4> QED BY <4>1, <4>2, <2>1, <1>4
    <3> QED BY <3>2, <3>3, <3>4, <1>d
  <2>2. CASE \E u \in 1..n : k = u + i - 1 /\ s[k] = mid[u]
    <3>1. PICK u \in 1..n : k = u + i - 1 /\ s[k] = mid[u]
      BY <2>2
    <3>2. CASE h < i
      BY <3>1, <3>2, <1>0
    <3>3. CASE \E v \in 1..n : h = v + i - 1 /\ s[h] = mid[v]
      <4>1. PICK v \in 1..n : h = v + i - 1 /\ s[h] = mid[v]
        BY <3>3
      <4>2. u < v
        BY <4>1, <3>1, <1>0
      <4> QED BY <4>1, <4>2, <3>1, <1>5
    <3>4. CASE \E v \in 1..Len(l) : v > j /\ h = v - d + n /\ s[h] = l[v]
      <4>1. PICK v \in 1..Len(l) : v > j /\ s[h] = l[v]
        BY <3>4
      <4>2. l[j].end <= l[v].start
        BY <4>1, <1>4, <2>0
      <4>3. mid[u].end <= l[j].end
        BY <1>6
      <4>4. /\ mid[u].end \in Nat /\ l[v].start \in Nat /\ l[j].end \in Nat
        BY <1>2, <1>3, <2>0
      <4>5. mid[u].end <= l[v].start
        BY <4>2, <4>3, <4>4, SMTT(30)
      <4> QED BY <4>1, <4>5, <3>1
    <3> QED BY <3>2, <3>3, <3>4, <1>d
  <2>3. CASE \E u \in 1..Len(l) : u > j /\ k = u - d + n /\ s[k] = l[u]
    <3>1. PICK u \in 1..Len(l) : u > j /\ k = u - d + n /\ s[k] = l[u]
      BY <2>3
    <3>2. ~(h < i) /\ ~\E v \in 1..n : h = v + i - 1
      BY <3>1, <1>0, <1>b DEF d
    <3>3. PICK v \in 1..Len(l) : v > j /\ h = v - d + n /\ s[h] = l[v]
      BY <3>2, <1>d
    <3>4. u < v
      BY <3>1, <3>3, <1>0, <1>b
    <3> QED BY <3>1, <3>3, <3>4, <1>4
  <2> QED BY <2>1, <2>2, <2>3, <1>d
<1>10. Chain(s)
  BY <1>1, <1>b, <1>7, <1>8, <1>9 DEF Chain
<1>11. s[1].start = l[1].start
  <2>1. 1 \in 1..Len(s)
    BY <1>b
  <2>2. CASE i = 1
    BY <2>1, <2>2, <1>c, <1>0
  <2>3. CASE i > 1
    BY <2>1, <2>3, <1>c, <1>0
  <2> QED BY <2>2, <2>3, <1>0
<1>12. s[Len(s)].end = l[Len(l)].end
  <2>1. Len(s) \in 1..Len(s)
    BY <1>b
  <2>2. CASE j = Len(l)
    <3>1. Len(s) = i - 1 + n
      BY <2>2, <1>b, <1>0 DEF d
    <3>2. s[Len(s)] = mid[n]
      BY <3>1, <2>1, <1>c, <1>0
    <3> QED BY <3>2, <2>2 DEF n
  <2>3. CASE j < Len(l)
    <3>1. Len(s) >= i + n /\ Len(s) - n + d = Len(l)
      BY <2>3, <1>b, <1>0 DEF d
    <3>2. s[Len(s)] = l[Len(l)]
      BY <3>1, <2>1, <1>c, <1>0
    <3> QED BY <3>2
  <2> QED BY <2>2, <2>3, <1>0
<1>13. ASSUME NEW a \in Nat, NEW t
       PROVE  Has(s, a, t) <=> IF l[i].start <= a /\ a < l[j].end THEN Has(mid, a, t)
                               ELSE Has(l, a, t)
  <2>0. i \in 1..Len(l) /\ j \in 1..Len(l) /\ l[i].start <= l[j].end
    <3>1. i = j \/ l[i].end <= l[j].start
      BY <1>0, <1>4
    <3> QED BY <3>1, <1>0, <1>2
  <2>1. CASE l[i].start <= a /\ a < l[j].end
    <3>1. ASSUME Has(mid, a, t) PROVE Has(s, a, t)
      <4>1. PICK k \in 1..n : mid[k].type = t /\ mid[k].start <= a /\ a < mid[k].end
        BY <3>1 DEF Has, n
      <4> QED BY <4>1, <1>a DEF Has
    <3>2. ASSUME Has(s, a, t) PROVE Has(mid, a, t)
      <4>1. PICK k \in 1..Len(s) : s[k].type = t /\ s[k].start <= a /\ a < s[k].end
        BY <3>2 DEF Has
      <4>2. CASE k < i
        <5>1. s[k] = l[k] /\ k \in 1..Len(l) /\ l[k].end <= l[i].start
          BY <4>2, <1>c, <1>4, <1>0, <2>0
        <5> QED BY <5>1, <4>1, <2>1, <1>2, <2>0
      <4>3. CASE k >= i /\ k < i + n
        <5>1. k - i + 1 \in 1..n /\ s[k] = mid[k - i + 1]
          BY <4>3, <1>c, <1>0
        <5> QED BY <5>1, <4>1 DEF Has, n
      <4>4. CASE k >= i + n
        <5>1. k - n + d \in 1..Len(l) /\ s[k] = l[k - n + d] /\ j < k - n + d
          BY <4>4, <1>c, <1>0, <1>b DEF d
        <5>2. l[j].end <= s[k].start
          BY <5>1, <1>4, <2>0
        <5> QED BY <5>1, <5>2, <4>1, <2>1, <1>2, <2>0
      <4> QED BY <4>2, <4>3, <4>4, <1>0
    <3> QED BY <2>1, <3>1, <3>2
  <2>2. CASE ~(l[i].start <= a /\ a < l[j].end)
    <3>1. ASSUME Has(l, a, t) PROVE Has(s, a, t)
      <4>1. PICK k \in 1..Len(l) : l[k].type = t /\ l[k].start <= a /\ a < l[k].end
        BY <3>1 DEF Has
      <4>2. CASE k < i
        <5>1. k \in 1..(i - 1)
          BY <4>2
        <5> QED BY <5>1, <4>1, <1>a DEF Has
      <4>3. CASE k > j
        <5>1. k \in (j + 1)..Len(l)
          BY <4>3, <1>0
        <5> QED BY <5>1, <4>1, <1>a DEF Has
      <4>4. CASE k >= i /\ k <= j
        <5>1. k = i \/ l[i].end <= l[k].start
          BY <4>4, <1>4, <2>0, <1>0
        <5>2. k = j \/ l[k].end <= l[j].start
          BY <4>4, <1>4, <2>0, <1>0
        <5> QED BY <5>1, <5>2, <4>1, <1>2, <2>0, <2>2, SMTT(30)
      <4> QED BY <4>2, <4>3, <4>4, <1>0
    <3>2. ASSUME Has(s, a, t) PROVE Has(l, a, t)
      <4>1. PICK k \in 1..Len(s) : s[k].type = t /\ s[k].start <= a /\ a < s[k].end
        BY <3>2 DEF Has
      <4>2. CASE k < i
        <5>1. s[k] = l[k] /\ k \in 1..Len(l)
          BY <4>2, <1>c, <1>0
        <5> QED BY <5>1, <4>1 DEF Has
      <4>3. CASE k >= i /\ k < i + n
        <5>1. k - i + 1 \in 1..n /\ s[k] = mid[k - i + 1]
          BY <4>3, <1>c, <1>0
        <5>2. PICK u \in 1..n : s[k] = mid[u]
          BY <5>1
        <5>3. l[i].start <= mid[u].start /\ mid[u].end <= l[j].end
          BY <1>6
        <5>4. /\ mid[u].start \in Nat /\ mid[u].end \in Nat
              /\ l[i].start \in Nat /\ l[j].end \in Nat
          BY <1>2, <1>3, <2>0
        <5> QED BY <5>2, <5>3, <5>4, <4>1, <2>2, SMTT(30)
      <4>4. CASE k >= i + n
        <5>1. k - n + d \in 1..Len(l) /\ s[k] = l[k - n + d]
          BY <4>4, <1>c, <1>0, <1>b DEF d
        <5> QED BY <5>1, <4>1 DEF Has
      <4> QED BY <4>2, <4>3, <4>4, <1>0
    <3> QED BY <2>2, <3>1, <3>2
  <2> QED BY <2>1, <2>2
<1> QED BY <1>10, <1>11, <1>12, <1>13 DEF s

\* The least of a set of numbers.
LEMMA MinIs ==
  ASSUME NEW S \in SUBSET Nat, S # {}
  PROVE  Min(S) \in S /\ \A y \in S : Min(S) <= y
<1> DEFINE R == {p \in Nat \X Nat : p[1] < p[2]}
<1>1. IsWellFoundedOn(R, Nat)
  BY NatLessThanWellFounded, Zenon DEF OpToRel
<1>2. PICK h \in S : \A g \in S : ~(<<g, h>> \in R)
  <2> HIDE DEF R
  <2> QED BY <1>1, WFMin
<1>3. ASSUME NEW g \in S PROVE h <= g
  <2>1. h \in Nat /\ g \in Nat
    OBVIOUS
  <2>2. g < h => <<g, h>> \in R
    BY <2>1
  <2>3. ~(g < h)
    BY <1>2, <2>2
  <2> QED BY <2>1, <2>3
<1> QED BY <1>3 DEF Min

-----------------------------------------------------------------------------
(* Who owns a byte.                                                        *)

\* find_address_owner: the descriptor that has the byte, when there is one.
LEMMA OwnerIs ==
  ASSUME NEW l \in Seq(Desc), NEW a \in Nat
  PROVE  /\ Owner(l, a) \in 0..Len(l)
         /\ Owner(l, a) # 0 => /\ Owner(l, a) \in 1..Len(l)
                               /\ l[Owner(l, a)].start <= a
                               /\ a < l[Owner(l, a)].end
         /\ Owner(l, a) = 0 =>
              \A i \in 1..Len(l) : ~(l[i].start <= a /\ a < l[i].end)
<1> DEFINE I == {i \in 1..Len(l) : l[i].start <= a /\ a < l[i].end}
<1>0. Len(l) \in Nat
  BY LenProperties
<1>1. Owner(l, a) = IF I # {} THEN Min(I) ELSE 0
  BY DEF Owner, SelectInSeq
<1>2. I \in SUBSET Nat
  BY <1>0
<1>3. CASE I # {}
  <2>1. Min(I) \in I
    <3> HIDE DEF I
    <3> QED BY <1>2, <1>3, MinIs
  <2>2. Owner(l, a) = Min(I)
    <3> HIDE DEF I
    <3> QED BY <1>1, <1>3
  <2>3. Owner(l, a) \in I
    BY <2>1, <2>2
  <2> QED BY <2>3, <1>0
<1>4. CASE I = {}
  <2>2. Owner(l, a) = 0
    <3> HIDE DEF I
    <3> QED BY <1>1, <1>4
  <2> QED BY <2>2, <1>4, <1>0
<1> QED BY <1>3, <1>4

\* No byte between the first and the last of a chain is without an owner.
LEMMA OwnerExists ==
  ASSUME NEW l, Chain(l), NEW a \in Nat,
         l[1].start <= a, a < l[Len(l)].end
  PROVE  Owner(l, a) # 0
<1> DEFINE S == {k \in 1..Len(l) : a < l[k].end}
<1>0. /\ l \in Seq(Desc) /\ Len(l) \in Nat /\ Len(l) > 0
      /\ Len(l) \in 1..Len(l) /\ 1 \in 1..Len(l)
  BY LenProperties DEF Chain
<1>1. S \in SUBSET Nat /\ S # {}
  BY <1>0
<1>2. PICK k \in S : \A h \in S : k <= h
  <2> HIDE DEF S
  <2> QED BY <1>1, MinIs
<1>3. k \in 1..Len(l) /\ a < l[k].end
  OBVIOUS
<1>4. l[k].start <= a
  <2>1. CASE k = 1
    BY <2>1
  <2>2. CASE k > 1
    <3>1. k - 1 \in 1..(Len(l) - 1) /\ k - 1 \in 1..Len(l) /\ (k - 1) + 1 = k
      BY <1>0, <1>3, <2>2
    <3>2. ~(a < l[k - 1].end)
      BY <1>2, <3>1, <1>3
    <3>3. l[k - 1].end = l[k].start
      BY <3>1 DEF Chain
    <3>4. l[k].start \in Nat
      BY <1>0, <1>3, ElementOfDesc
    <3> QED BY <3>2, <3>3, <3>4
  <2> QED BY <1>3, <2>1, <2>2
<1> QED BY <1>0, <1>3, <1>4, OwnerIs

\* ... and none has two.
LEMMA OwnerIsUnique ==
  ASSUME NEW l, Chain(l), NEW a \in Nat, NEW i \in 1..Len(l), NEW j \in 1..Len(l),
         l[i].start <= a, a < l[i].end, l[j].start <= a, a < l[j].end
  PROVE  i = j
<1>0. /\ l \in Seq(Desc) /\ Len(l) \in Nat
  BY LenProperties DEF Chain
<1>1. /\ l[i].start \in Nat /\ l[i].end \in Nat
      /\ l[j].start \in Nat /\ l[j].end \in Nat
  BY <1>0, ElementOfDesc
<1>2. ~(i < j)
  <2>1. i < j => l[i].end <= l[j].start
    BY DEF Chain
  <2> QED BY <1>1, <2>1
<1>3. ~(j < i)
  <2>1. j < i => l[j].end <= l[i].start
    BY DEF Chain
  <2> QED BY <1>1, <2>1
<1> QED BY <1>2, <1>3

\* A byte has one type.
LEMMA HasOneType ==
  ASSUME NEW l, Chain(l), NEW a \in Nat, NEW t, NEW u, Has(l, a, t), Has(l, a, u)
  PROVE  t = u
<1>1. PICK i \in 1..Len(l) : l[i].type = t /\ l[i].start <= a /\ a < l[i].end
  BY DEF Has
<1>2. PICK j \in 1..Len(l) : l[j].type = u /\ l[j].start <= a /\ a < l[j].end
  BY DEF Has
<1>3. i = j
  BY <1>1, <1>2, OwnerIsUnique
<1> QED BY <1>1, <1>2, <1>3

-----------------------------------------------------------------------------
(* Rounding.                                                               *)

\* Remainders and multiples.
LEMMA Multiple ==
  ASSUME NEW x \in Nat, NEW u \in Nat \ {0}
  PROVE  x % u = 0 <=> \E q \in Nat : x = u * q
<1> DEFINE d == x \div u
           r == x % u
<1>1. d \in Nat /\ r \in 0..(u - 1) /\ x = u * d + r
  BY SMT
<1>2. ASSUME r = 0 PROVE \E q \in Nat : x = u * q
  <2> HIDE DEF d, r
  <2>1. u * d \in Nat
    BY <1>1
  <2>2. x = u * d
    BY <1>1, <1>2, <2>1
  <2> QED BY <1>1, <2>2
<1>3. ASSUME NEW q \in Nat, x = u * q PROVE r = 0
  <2> HIDE DEF d, r
  <2>1. u * q = u * d + r
    BY <1>1, <1>3
  <2>2. u * q - u * d = u * (q - d)
    BY <1>1
  <2>3. u * (q - d) = r
    BY <2>1, <2>2, <1>1
  <2>4. q - d < 1
    <3> SUFFICES ASSUME q - d >= 1 PROVE FALSE
      BY <1>1
    <3>1. u * (q - d) >= u
      BY <1>1
    <3> QED BY <3>1, <2>3, <1>1
  <2>5. q - d > -1
    <3> SUFFICES ASSUME q - d <= -1 PROVE FALSE
      BY <1>1
    <3>1. u * (q - d) <= -u
      BY <1>1
    <3> QED BY <3>1, <2>3, <1>1
  <2>6. q - d = 0
    BY <2>4, <2>5, <1>1
  <2> QED BY <2>3, <2>6, <1>1
<1> QED BY <1>2, <1>3

\* Sums of multiples are multiples.
LEMMA MultipleSum ==
  ASSUME NEW x \in Nat, NEW y \in Nat, NEW u \in Nat \ {0}, x % u = 0, y % u = 0
  PROVE  (x + y) % u = 0
<1>1. PICK p \in Nat : x = u * p
  BY Multiple
<1>2. PICK q \in Nat : y = u * q
  BY Multiple
<1>3. x + y = u * (p + q) /\ p + q \in Nat /\ x + y \in Nat
  BY <1>1, <1>2
<1> QED BY <1>3, Multiple

\* Between a multiple and the next one there is no other.
LEMMA MultipleGap ==
  ASSUME NEW x \in Nat, NEW y \in Nat, NEW u \in Nat \ {0}, x % u = 0, y % u = 0,
         x < y
  PROVE  x + u <= y
<1>1. PICK p \in Nat : x = u * p
  BY Multiple
<1>2. PICK q \in Nat : y = u * q
  BY Multiple
<1>3. q >= p + 1
  <2> SUFFICES ASSUME q <= p PROVE FALSE
    OBVIOUS
  <2>1. u * q <= u * p
    OBVIOUS
  <2> QED BY <2>1, <1>1, <1>2
<1>4. u * q >= u * (p + 1)
  BY <1>3
<1>5. u * (p + 1) = u * p + u
  OBVIOUS
<1> QED BY <1>1, <1>2, <1>4, <1>5

\* So are differences.
LEMMA MultipleDifference ==
  ASSUME NEW x \in Nat, NEW y \in Nat, NEW u \in Nat \ {0}, x % u = 0, y % u = 0,
         x <= y
  PROVE  (y - x) \in Nat /\ (y - x) % u = 0
<1>1. PICK p \in Nat : x = u * p
  BY Multiple
<1>2. PICK q \in Nat : y = u * q
  BY Multiple
<1>3. q >= p
  <2> SUFFICES ASSUME q + 1 <= p PROVE FALSE
    OBVIOUS
  <2>1. u * (q + 1) <= u * p
    OBVIOUS
  <2>2. u * (q + 1) = u * q + u
    OBVIOUS
  <2> QED BY <2>1, <2>2, <1>1, <1>2
<1>4. y - x = u * (q - p) /\ q - p \in Nat /\ y - x \in Nat
  BY <1>1, <1>2, <1>3
<1> QED BY <1>4, Multiple

\* AlignUp(a, u) is the least multiple of u that is not below a.
LEMMA AlignUpIs ==
  ASSUME NEW a \in Nat, NEW u \in Nat \ {0}
  PROVE  /\ AlignUp(a, u) \in Nat
         /\ AlignUp(a, u) % u = 0
         /\ a <= AlignUp(a, u)
         /\ AlignUp(a, u) < a + u
         /\ \A b \in Nat : b % u = 0 /\ a <= b => AlignUp(a, u) <= b
         /\ \A b \in Nat : b % u = 0 /\ b < AlignUp(a, u) => b < a
<1> DEFINE q == (a + u - 1) \div u
           r == (a + u - 1) % u
           v == AlignUp(a, u)
<1>1. q \in Nat /\ r \in 0..(u - 1) /\ a + u - 1 = u * q + r
  <2>1. a + u - 1 \in Nat
    OBVIOUS
  <2> QED BY <2>1, SMT
<1>2. v = u * q
  <2>1. v = q * u
    BY DEF AlignUp
  <2> HIDE DEF q, v
  <2> QED BY <2>1, <1>1
<1> HIDE DEF q, r, v
<1>3. v \in Nat
  BY <1>1, <1>2
<1>4. v % u = 0
  BY <1>1, <1>2, <1>3, Multiple
<1>5. a <= v /\ v < a + u
  BY <1>1, <1>2, <1>3
<1>6. ASSUME NEW b \in Nat, b % u = 0, a <= b PROVE v <= b
  <2> SUFFICES ASSUME b < v PROVE FALSE
    BY <1>3
  <2>1. b + u <= v
    BY <1>3, <1>4, <1>6, MultipleGap
  <2> QED BY <2>1, <1>5, <1>6, <1>3
<1>7. ASSUME NEW b \in Nat, b % u = 0, b < v PROVE b < a
  <2>1. b + u <= v
    BY <1>3, <1>4, <1>7, MultipleGap
  <2> QED BY <2>1, <1>5, <1>3
<1> QED BY <1>3, <1>4, <1>5, <1>6, <1>7 DEF v

\* PAGE_ALIGN_DOWN gives the page of a byte.
LEMMA AlignDownIs ==
  ASSUME NEW a \in Nat
  PROVE  /\ PAGE_ALIGN_DOWN(a) \in Nat
         /\ PAGE_ALIGN_DOWN(a) <= a
         /\ PAGE_ALIGN_DOWN(a) % PAGE_SIZE = 0
         /\ a % PAGE_SIZE = 0 => PAGE_ALIGN_DOWN(a) = a
<1> DEFINE q == a \div PAGE_SIZE
           r == a % PAGE_SIZE
           v == PAGE_ALIGN_DOWN(a)
<1>0. PAGE_SIZE \in Nat \ {0}
  BY LayoutAssumption
<1>1. q \in Nat /\ r \in 0..(PAGE_SIZE - 1) /\ a = PAGE_SIZE * q + r
  BY <1>0, SMT
<1>2. v = PAGE_SIZE * q
  <2>1. v = q * PAGE_SIZE
    BY DEF PAGE_ALIGN_DOWN
  <2> HIDE DEF q, v
  <2> QED BY <2>1, <1>1, <1>0
<1>a. r = 0 <=> a % PAGE_SIZE = 0
  OBVIOUS
<1> HIDE DEF q, r, v
<1>3. v \in Nat
  BY <1>0, <1>1, <1>2
<1>4. v % PAGE_SIZE = 0
  BY <1>0, <1>1, <1>2, <1>3, Multiple
<1>5. v <= a /\ (r = 0 => v = a)
  BY <1>0, <1>1, <1>2, <1>3
<1> QED BY <1>3, <1>4, <1>5, <1>a DEF v

\* kernel_cursor is on a page.
LEMMA ForceAlignedIsPage ==
  ASSUME NEW x \in Nat, x % FORCE_ALIGNMENT = 0
  PROVE  x % PAGE_SIZE = 0
<1>0. /\ PAGE_SIZE \in Nat \ {0} /\ FORCE_ALIGNMENT \in Nat \ {0}
      /\ FORCE_ALIGNMENT % PAGE_SIZE = 0
  BY LayoutAssumption
<1>1. PICK p \in Nat : x = FORCE_ALIGNMENT * p
  BY <1>0, Multiple
<1>2. PICK q \in Nat : FORCE_ALIGNMENT = PAGE_SIZE * q
  BY <1>0, Multiple
<1>3. x = PAGE_SIZE * (q * p) /\ q * p \in Nat
  BY <1>0, <1>1, <1>2
<1> QED BY <1>0, <1>3, Multiple

-----------------------------------------------------------------------------
(* Managers, and what it takes to get descriptors.                         *)

ShmEntry == [start : Nat, end : Nat]
OngoingEntry == [by : Threads, start : Nat, end : Nat, done : BOOLEAN]
Fails == {"none", "no owner", "no descriptor", "no room", "no stack"}

Manager ==
  [list : Seq(Desc), nfree : Nat, ndesc : Nat, next : BOOLEAN, cursor : Nat,
   eov : BOOLEAN, fail : Fails, shm : Seq(ShmEntry), nshm : Nat,
   ongoing : Seq(OngoingEntry), host : [Pages -> Contents]]

\* Descriptors that can be had without mapping memory for them.
Spare(m) == m.nfree + (IF m.next THEN DESC_PER_PAGE ELSE 0)

\* What free_vma_list holds of the descriptors ever made.
Balance(m) == m.nfree - m.ndesc

\* The part of a manager that the list of areas has nothing to do with.
SameRest(m, n) ==
  /\ n.host = m.host
  /\ n.shm = m.shm /\ n.nshm = m.nshm /\ n.ongoing = m.ongoing

\* From m to n it takes at most k descriptors, and none is lost.
Costs(m, n, k) ==
  /\ Spare(m) >= k => n.fail = m.fail /\ Spare(n) >= Spare(m) - k
  /\ n.fail = "none" =>
       /\ m.fail = "none"
       /\ Len(n.list) + Balance(n) = Len(m.list) + Balance(m)

\* Types of the fields of a manager.
LEMMA ManagerFields ==
  ASSUME NEW m \in Manager
  PROVE  /\ m.list \in Seq(Desc) /\ Len(m.list) \in Nat
         /\ m.nfree \in Nat /\ m.ndesc \in Nat
         /\ m.next \in BOOLEAN /\ m.cursor \in Nat /\ m.eov \in BOOLEAN /\ m.fail \in Fails
         /\ m.shm \in Seq(ShmEntry) /\ m.nshm \in Nat /\ m.ongoing \in Seq(OngoingEntry)
         /\ m.host \in [Pages -> Contents]
         /\ Spare(m) \in Nat /\ Balance(m) \in Int
<1>1. /\ m.list \in Seq(Desc)
      /\ m.nfree \in Nat /\ m.ndesc \in Nat
      /\ m.next \in BOOLEAN /\ m.cursor \in Nat /\ m.eov \in BOOLEAN /\ m.fail \in Fails
      /\ m.shm \in Seq(ShmEntry) /\ m.nshm \in Nat /\ m.ongoing \in Seq(OngoingEntry)
      /\ m.host \in [Pages -> Contents]
  BY DEF Manager
<1>2. Len(m.list) \in Nat
  BY <1>1, LenProperties
<1>3. Spare(m) \in Nat /\ Balance(m) \in Int
  BY <1>1, DescAssumption DEF Spare, Balance
<1> QED BY <1>1, <1>2, <1>3

\* A manager with another list.
LEMMA WithList ==
  ASSUME NEW m \in Manager, NEW l \in Seq(Desc)
  PROVE  LET n == [m EXCEPT !.list = l] IN
         /\ n \in Manager
         /\ n.list = l /\ n.nfree = m.nfree /\ n.ndesc = m.ndesc /\ n.next = m.next
         /\ n.cursor = m.cursor /\ n.eov = m.eov /\ n.fail = m.fail
         /\ n.shm = m.shm /\ n.nshm = m.nshm /\ n.ongoing = m.ongoing /\ n.host = m.host
BY DEF Manager

\* A manager that has stopped.
LEMMA StopIs ==
  ASSUME NEW m \in Manager, NEW why \in Fails
  PROVE  LET n == Stop(m, why) IN
         /\ n \in Manager
         /\ n.list = m.list /\ n.nfree = m.nfree /\ n.ndesc = m.ndesc /\ n.next = m.next
         /\ n.cursor = m.cursor /\ n.eov = m.eov /\ n.fail = why
         /\ n.shm = m.shm /\ n.nshm = m.nshm /\ n.ongoing = m.ongoing /\ n.host = m.host
BY DEF Manager, Stop

\* A manager with another number of free descriptors.
LEMMA WithFree ==
  ASSUME NEW m \in Manager, NEW x \in Nat
  PROVE  LET n == [m EXCEPT !.nfree = x] IN
         /\ n \in Manager
         /\ n.list = m.list /\ n.nfree = x /\ n.ndesc = m.ndesc /\ n.next = m.next
         /\ n.cursor = m.cursor /\ n.eov = m.eov /\ n.fail = m.fail
         /\ n.shm = m.shm /\ n.nshm = m.nshm /\ n.ongoing = m.ongoing /\ n.host = m.host
BY DEF Manager

\* Descriptors given back.
LEMMA FreeDescs ==
  ASSUME NEW m \in Manager, NEW k \in Nat
  PROVE  LET n == free_descs(m, k) IN
         /\ n \in Manager
         /\ n.list = m.list /\ n.nfree = m.nfree + k /\ n.ndesc = m.ndesc /\ n.next = m.next
         /\ n.cursor = m.cursor /\ n.eov = m.eov /\ n.fail = m.fail
         /\ n.shm = m.shm /\ n.nshm = m.nshm /\ n.ongoing = m.ongoing /\ n.host = m.host
         /\ Spare(n) = Spare(m) + k
<1> DEFINE n == free_descs(m, k)
<1>0. m.nfree \in Nat /\ m.nfree + k \in Nat
  BY ManagerFields
<1>1. n = [m EXCEPT !.nfree = m.nfree + k]
  BY DEF free_descs
<1> HIDE DEF n
<1>2. /\ n \in Manager
      /\ n.list = m.list /\ n.nfree = m.nfree + k /\ n.ndesc = m.ndesc /\ n.next = m.next
      /\ n.cursor = m.cursor /\ n.eov = m.eov /\ n.fail = m.fail
      /\ n.shm = m.shm /\ n.nshm = m.nshm /\ n.ongoing = m.ongoing /\ n.host = m.host
  BY <1>0, <1>1, WithFree
<1>3. Spare(n) = Spare(m) + k
  <2> DEFINE u == IF m.next THEN DESC_PER_PAGE ELSE 0
             a == m.nfree
  <2>1. a \in Nat /\ u \in Nat
    BY <1>0, DescAssumption
  <2>2. Spare(m) = a + u /\ Spare(n) = (a + k) + u
    BY <1>2 DEF Spare
  <2> HIDE DEF u, a
  <2>3. (a + k) + u = (a + u) + k
    BY <2>1
  <2> QED BY <2>2, <2>3
<1> QED BY <1>2, <1>3 DEF n

\* arm64_get_free_desc takes one, or stops.
LEMMA GetFreeDesc ==
  ASSUME NEW m \in Manager
  PROVE  LET n == get_free_desc(m) IN
         /\ n \in Manager
         /\ n.list = m.list /\ n.cursor = m.cursor /\ n.eov = m.eov
         /\ SameRest(m, n)
         /\ Spare(m) >= 1 => /\ n.fail = m.fail
                             /\ Spare(n) = Spare(m) - 1
                             /\ Balance(n) = Balance(m) - 1
         /\ Spare(m) = 0 => n.fail # "none" /\ Spare(n) = 0
<1> DEFINE n == get_free_desc(m)
<1>0. m.nfree \in Nat /\ m.ndesc \in Nat /\ m.next \in BOOLEAN /\ DESC_PER_PAGE \in Nat /\ DESC_PER_PAGE > 1
  BY ManagerFields, DescAssumption
<1> SUFFICES /\ n \in Manager
             /\ n.list = m.list /\ n.cursor = m.cursor /\ n.eov = m.eov
             /\ SameRest(m, n)
             /\ Spare(m) >= 1 => /\ n.fail = m.fail
                                 /\ Spare(n) = Spare(m) - 1
                                 /\ Balance(n) = Balance(m) - 1
             /\ Spare(m) = 0 => n.fail # "none" /\ Spare(n) = 0
  BY Zenon
<1>1. CASE m.nfree > 0
  <2>0. m.nfree - 1 \in Nat
    BY <1>0, <1>1
  <2>1. n = [m EXCEPT !.nfree = m.nfree - 1]
    BY <1>1 DEF get_free_desc
  <2> HIDE DEF n
  <2>2. /\ n \in Manager
        /\ n.list = m.list /\ n.cursor = m.cursor /\ n.eov = m.eov
        /\ SameRest(m, n) /\ n.fail = m.fail
        /\ n.nfree = m.nfree - 1 /\ n.ndesc = m.ndesc /\ n.next = m.next
    BY <2>0, <2>1, WithFree DEF SameRest
  <2>3. Spare(m) >= 1 /\ Spare(n) = Spare(m) - 1 /\ Balance(n) = Balance(m) - 1
    BY <1>0, <1>1, <2>2 DEF Spare, Balance
  <2>4. Spare(m) # 0
    BY <1>0, <1>1 DEF Spare
  <2> QED BY <2>2, <2>3, <2>4
<1>2. CASE ~(m.nfree > 0) /\ m.next
  <2> DEFINE x == DESC_PER_PAGE - 1
             y == m.ndesc + DESC_PER_PAGE
  <2>0. x \in Nat /\ y \in Nat
    BY <1>0
  <2>1. n = [m EXCEPT !.nfree = x, !.ndesc = y, !.next = FALSE]
    BY <1>2 DEF get_free_desc
  <2> HIDE DEF n, x, y
  <2>a. /\ n \in Manager
        /\ n.list = m.list /\ n.cursor = m.cursor /\ n.eov = m.eov
        /\ n.shm = m.shm /\ n.nshm = m.nshm /\ n.ongoing = m.ongoing /\ n.host = m.host
        /\ n.fail = m.fail /\ n.nfree = x /\ n.ndesc = y
    BY <2>0, <2>1 DEF Manager
  <2>b. ~n.next
    BY <2>0, <2>1 DEF Manager
  <2>2. /\ n \in Manager
        /\ n.list = m.list /\ n.cursor = m.cursor /\ n.eov = m.eov
        /\ SameRest(m, n) /\ n.fail = m.fail
        /\ n.nfree = DESC_PER_PAGE - 1 /\ n.ndesc = m.ndesc + DESC_PER_PAGE /\ ~n.next
    BY <2>a, <2>b DEF SameRest, x, y
  <2>3. Spare(m) >= 1 /\ Spare(n) = Spare(m) - 1 /\ Balance(n) = Balance(m) - 1
    BY <1>0, <1>2, <2>2 DEF Spare, Balance
  <2>4. Spare(m) # 0
    BY <1>0, <1>2 DEF Spare
  <2> QED BY <2>2, <2>3, <2>4
<1>3. CASE ~(m.nfree > 0) /\ ~m.next
  <2>1. n = Stop(m, "no descriptor")
    BY <1>3 DEF get_free_desc
  <2>2. "no descriptor" \in Fails
    BY DEF Fails
  <2> HIDE DEF n
  <2>3. /\ n \in Manager
        /\ n.list = m.list /\ n.cursor = m.cursor /\ n.eov = m.eov
        /\ SameRest(m, n) /\ n.fail = "no descriptor"
    BY <2>1, <2>2, StopIs DEF SameRest
  <2>a. n.nfree = m.nfree /\ n.next = m.next
    BY <2>1, <2>2, StopIs
  <2>4. ~(Spare(m) >= 1) /\ Spare(n) = 0
    BY <1>0, <1>3, <2>a DEF Spare
  <2> QED BY <2>3, <2>4
<1> QED BY <1>1, <1>2, <1>3

\* d descriptors more on the list, and d fewer in reserve.
LEMMA CostsIs ==
  ASSUME NEW m \in Manager, NEW n \in Manager, NEW d \in Int, NEW k \in Nat,
         n.fail = m.fail, Len(n.list) = Len(m.list) + d,
         Balance(n) = Balance(m) - d, Spare(n) = Spare(m) - d, d <= k
  PROVE  Costs(m, n, k)
<1>1. Spare(m) \in Nat /\ Balance(m) \in Int /\ Len(m.list) \in Nat
  BY ManagerFields
<1>2. Len(n.list) + Balance(n) = Len(m.list) + Balance(m) /\ Spare(n) >= Spare(m) - k
  BY <1>1
<1> QED BY <1>2 DEF Costs

\* Costs add up.
LEMMA CostsAdd ==
  ASSUME NEW m \in Manager, NEW n \in Manager, NEW o \in Manager,
         NEW j \in Nat, NEW k \in Nat, Costs(m, n, j), Costs(n, o, k)
  PROVE  Costs(m, o, j + k)
<1>1. Spare(m) \in Nat /\ Spare(n) \in Nat /\ Spare(o) \in Nat
  BY ManagerFields
<1>2. ASSUME Spare(m) >= j + k PROVE o.fail = m.fail /\ Spare(o) >= Spare(m) - (j + k)
  <2>1. Spare(m) >= j
    BY <1>1, <1>2
  <2>2. n.fail = m.fail /\ Spare(n) >= Spare(m) - j
    BY <2>1 DEF Costs
  <2>3. Spare(n) >= k
    BY <1>1, <1>2, <2>2
  <2>4. o.fail = n.fail /\ Spare(o) >= Spare(n) - k
    BY <2>3 DEF Costs
  <2> QED BY <1>1, <2>2, <2>4
<1>3. ASSUME o.fail = "none" 
      PROVE  /\ m.fail = "none"
             /\ Len(o.list) + Balance(o) = Len(m.list) + Balance(m)
  <2>1. n.fail = "none" /\ Len(o.list) + Balance(o) = Len(n.list) + Balance(n)
    BY <1>3 DEF Costs
  <2>2. m.fail = "none" /\ Len(n.list) + Balance(n) = Len(m.list) + Balance(m)
    BY <2>1 DEF Costs
  <2> QED BY <2>1, <2>2
<1> QED BY <1>2, <1>3 DEF Costs

-----------------------------------------------------------------------------
(* insert_area.                                                            *)

Aligned(x) == x % PAGE_SIZE = 0
ListAligned(l) == \A i \in 1..Len(l) : Aligned(l[i].start) /\ Aligned(l[i].end)

\* l2 is l with [start, end[ of that type.
Painted(l, l2, start, end, type) ==
  /\ Chain(l2)
  /\ l2[1].start = l[1].start
  /\ l2[Len(l2)].end = l[Len(l)].end
  /\ \A a \in Nat : \A t : Has(l2, a, t) <=> IF start <= a /\ a < end THEN t = type
                                         ELSE Has(l, a, t)
  /\ ListAligned(l) /\ Aligned(start) /\ Aligned(end) => ListAligned(l2)

\* One descriptor is a chain.
LEMMA ChainOfOne ==
  ASSUME NEW x \in Desc, x.start <= x.end
  PROVE  /\ Chain(<<x>>) /\ Len(<<x>>) = 1 /\ <<x>>[1] = x
         /\ \A a, t : Has(<<x>>, a, t) <=> x.type = t /\ x.start <= a /\ a < x.end
<1>1. <<x>> \in Seq(Desc) /\ Len(<<x>>) = 1 /\ <<x>>[1] = x
  OBVIOUS
<1> DEFINE l == <<x>>
<1> HIDE DEF l
<1>2. l \in Seq(Desc) /\ Len(l) = 1 /\ l[1] = x
  BY <1>1 DEF l
<1>3. \A i \in 1..Len(l) : i = 1
  BY <1>2
<1>4. Chain(l)
  BY <1>2, <1>3 DEF Chain
<1>5. ASSUME NEW a, NEW t
      PROVE  Has(l, a, t) <=> x.type = t /\ x.start <= a /\ a < x.end
  BY <1>2, <1>3 DEF Has
<1> QED BY <1>2, <1>4, <1>5 DEF l

\* Two descriptors that meet are a chain.
LEMMA ChainOfTwo ==
  ASSUME NEW x \in Desc, NEW y \in Desc, x.start <= x.end, y.start <= y.end,
         x.end = y.start
  PROVE  /\ Chain(<<x, y>>) /\ Len(<<x, y>>) = 2
         /\ <<x, y>>[1] = x /\ <<x, y>>[2] = y
         /\ \A a, t : Has(<<x, y>>, a, t) <=> \/ x.type = t /\ x.start <= a /\ a < x.end
                                              \/ y.type = t /\ y.start <= a /\ a < y.end
<1>1. <<x, y>> \in Seq(Desc) /\ Len(<<x, y>>) = 2 /\ <<x, y>>[1] = x /\ <<x, y>>[2] = y
  OBVIOUS
<1> DEFINE l == <<x, y>>
<1> HIDE DEF l
<1>2. l \in Seq(Desc) /\ Len(l) = 2 /\ l[1] = x /\ l[2] = y
  BY <1>1 DEF l
<1>3. \A i \in 1..Len(l) : i = 1 \/ i = 2
  BY <1>2
<1>a. x.start \in Nat /\ x.end \in Nat /\ y.start \in Nat /\ y.end \in Nat
  BY DEF Desc
<1>4. Chain(l)
  <2>1. \A i \in 1..Len(l) : l[i].start <= l[i].end
    BY <1>2, <1>3
  <2>2. \A i \in 1..(Len(l) - 1) : l[i].end = l[i + 1].start
    <3>1. \A i \in 1..(Len(l) - 1) : i = 1 /\ i + 1 = 2
      BY <1>2
    <3> QED BY <3>1, <1>2
  <2>3. \A i, j \in 1..Len(l) : i < j => l[i].end <= l[j].start
    <3>1. \A i, j \in 1..Len(l) : i < j => i = 1 /\ j = 2
      BY <1>3
    <3> QED BY <3>1, <1>2, <1>a
  <2> QED BY <1>2, <2>1, <2>2, <2>3 DEF Chain
<1>5. ASSUME NEW a, NEW t
      PROVE  Has(l, a, t) <=> \/ x.type = t /\ x.start <= a /\ a < x.end
                              \/ y.type = t /\ y.start <= a /\ a < y.end
  <2>1. 1 \in 1..Len(l) /\ 2 \in 1..Len(l)
    BY <1>2
  <2> QED BY <1>2, <1>3, <2>1, Zenon DEF Has
<1> QED BY <1>2, <1>4, <1>5 DEF l

\* So are three.
LEMMA ChainOfThree ==
  ASSUME NEW x \in Desc, NEW y \in Desc, NEW z \in Desc,
         x.start <= x.end, y.start <= y.end, z.start <= z.end,
         x.end = y.start, y.end = z.start
  PROVE  /\ Chain(<<x, y, z>>) /\ Len(<<x, y, z>>) = 3
         /\ <<x, y, z>>[1] = x /\ <<x, y, z>>[2] = y /\ <<x, y, z>>[3] = z
         /\ \A a, t : Has(<<x, y, z>>, a, t) <=>
              \/ x.type = t /\ x.start <= a /\ a < x.end
              \/ y.type = t /\ y.start <= a /\ a < y.end
              \/ z.type = t /\ z.start <= a /\ a < z.end
<1>1. /\ <<x, y, z>> \in Seq(Desc) /\ Len(<<x, y, z>>) = 3
      /\ <<x, y, z>>[1] = x /\ <<x, y, z>>[2] = y /\ <<x, y, z>>[3] = z
  OBVIOUS
<1> DEFINE l == <<x, y, z>>
<1> HIDE DEF l
<1>2. l \in Seq(Desc) /\ Len(l) = 3 /\ l[1] = x /\ l[2] = y /\ l[3] = z
  BY <1>1 DEF l
<1>3. \A i \in 1..Len(l) : i = 1 \/ i = 2 \/ i = 3
  BY <1>2
<1>a. /\ x.start \in Nat /\ x.end \in Nat /\ y.start \in Nat /\ y.end \in Nat
      /\ z.start \in Nat /\ z.end \in Nat
  BY DEF Desc
<1>4. Chain(l)
  <2>1. \A i \in 1..Len(l) : l[i].start <= l[i].end
    BY <1>2, <1>3
  <2>2. \A i \in 1..(Len(l) - 1) : l[i].end = l[i + 1].start
    <3>1. \A i \in 1..(Len(l) - 1) : (i = 1 /\ i + 1 = 2) \/ (i = 2 /\ i + 1 = 3)
      BY <1>2
    <3> QED BY <3>1, <1>2
  <2>3. \A i, j \in 1..Len(l) : i < j => l[i].end <= l[j].start
    <3>1. \A i, j \in 1..Len(l) : i < j => \/ i = 1 /\ j = 2
                                           \/ i = 1 /\ j = 3
                                           \/ i = 2 /\ j = 3
      BY <1>3
    <3> QED BY <3>1, <1>2, <1>a
  <2> QED BY <1>2, <2>1, <2>2, <2>3 DEF Chain
<1>5. ASSUME NEW a, NEW t
      PROVE  Has(l, a, t) <=> \/ x.type = t /\ x.start <= a /\ a < x.end
                              \/ y.type = t /\ y.start <= a /\ a < y.end
                              \/ z.type = t /\ z.start <= a /\ a < z.end
  <2>1. 1 \in 1..Len(l) /\ 2 \in 1..Len(l) /\ 3 \in 1..Len(l)
    BY <1>2
  <2> QED BY <1>2, <1>3, <2>1, Zenon DEF Has
<1> QED BY <1>2, <1>4, <1>5 DEF l

\* Splice paints when what it puts in does.
LEMMA SplicePaints ==
  ASSUME NEW l, NEW mid, Chain(l), Chain(mid),
         NEW i \in 1..Len(l), NEW j \in i..Len(l),
         NEW start \in Nat, NEW end \in Nat, NEW type,
         mid[1].start = l[i].start, mid[Len(mid)].end = l[j].end,
         l[i].start <= start, end <= l[j].end,
         \A a \in Nat : \A t : l[i].start <= a /\ a < l[j].end =>
           (Has(mid, a, t) <=> IF start <= a /\ a < end THEN t = type
                               ELSE Has(l, a, t)),
         ListAligned(l) /\ Aligned(start) /\ Aligned(end) => ListAligned(mid)
  PROVE  Painted(l, Splice(l, i, j, mid), start, end, type)
<1> DEFINE s == Splice(l, i, j, mid)
<1>0. l \in Seq(Desc) /\ mid \in Seq(Desc) /\ Len(l) \in Nat /\ Len(mid) \in Nat
  BY LenProperties DEF Chain
<1>1. /\ Chain(s)
      /\ s[1].start = l[1].start
      /\ s[Len(s)].end = l[Len(l)].end
      /\ \A a \in Nat : \A t : Has(s, a, t) <=>
              IF l[i].start <= a /\ a < l[j].end THEN Has(mid, a, t)
              ELSE Has(l, a, t)
  BY SpliceChain
<1>2. l[i].start \in Nat /\ l[j].end \in Nat
  BY <1>0, ElementOfDesc
<1>3. ASSUME NEW a \in Nat, NEW t
      PROVE  Has(s, a, t) <=> IF start <= a /\ a < end THEN t = type ELSE Has(l, a, t)
  <2>1. CASE l[i].start <= a /\ a < l[j].end
    BY <1>1, <2>1
  <2>2. CASE ~(l[i].start <= a /\ a < l[j].end)
    <3>1. ~(start <= a /\ a < end)
      BY <1>2, <2>2
    <3> QED BY <1>1, <2>2, <3>1
  <2> QED BY <2>1, <2>2
<1>4. ASSUME ListAligned(l), Aligned(start), Aligned(end) PROVE ListAligned(s)
  <2>0. ListAligned(mid)
    BY <1>4
  <2>1. /\ Len(s) = Len(l) - (j - i + 1) + Len(mid)
        /\ \A k \in 1..Len(s) :
              s[k] = IF k < i THEN l[k]
                     ELSE IF k < i + Len(mid) THEN mid[k - i + 1]
                     ELSE l[k - Len(mid) + (j - i + 1)]
    BY <1>0, SpliceIs
  <2> HIDE DEF s
  <2> SUFFICES ASSUME NEW k \in 1..Len(s)
               PROVE  Aligned(s[k].start) /\ Aligned(s[k].end)
    BY DEF ListAligned
  <2>2. CASE k < i
    <3>1. s[k] = l[k] /\ k \in 1..Len(l)
      BY <2>1, <2>2, <1>0
    <3> QED BY <3>1, <1>4 DEF ListAligned
  <2>3. CASE ~(k < i) /\ k < i + Len(mid)
    <3>1. s[k] = mid[k - i + 1]
      BY <2>1, <2>3
    <3>2. k - i + 1 \in 1..Len(mid)
      BY <2>3, <1>0
    <3> QED BY <3>1, <3>2, <2>0 DEF ListAligned
  <2>4. CASE ~(k < i) /\ ~(k < i + Len(mid))
    <3>1. s[k] = l[k - Len(mid) + (j - i + 1)]
      BY <2>1, <2>4
    <3>2. k - Len(mid) + (j - i + 1) \in 1..Len(l)
      BY <2>1, <2>4, <1>0
    <3> QED BY <3>1, <3>2, <1>4 DEF ListAligned
  <2> QED BY <2>2, <2>3, <2>4
<1> QED BY <1>1, <1>3, <1>4 DEF Painted

\* The type of the bytes of one descriptor.
LEMMA HasIn ==
  ASSUME NEW l, Chain(l), NEW i \in 1..Len(l), NEW a \in Nat,
         l[i].start <= a, a < l[i].end, NEW t
  PROVE  Has(l, a, t) <=> t = l[i].type
<1>1. Has(l, a, l[i].type)
  BY DEF Has
<1> QED BY <1>1, HasOneType

\* There are two types.
LEMMA TypeIsOther ==
  ASSUME NEW x \in {VMA_UNMAP, VMA_MAP}, NEW y \in {VMA_UNMAP, VMA_MAP}, x # y
  PROVE  x = 1 - y /\ 1 - y \in {VMA_UNMAP, VMA_MAP}
BY DEF VMA_UNMAP, VMA_MAP

\* n is m after [start, end[ has become an area of that type.
Inserts(m, n, start, end, type) ==
  /\ n \in Manager
  /\ Painted(m.list, n.list, start, end, type)
  /\ SameRest(m, n)
  /\ n.cursor = m.cursor /\ n.eov = m.eov
  /\ Costs(m, n, 2)

\* SplitInTwo gives the area its type, for one descriptor.
LEMMA SplitInTwoIs ==
  ASSUME NEW m \in Manager, Chain(m.list), NEW i \in 1..Len(m.list),
         NEW start \in Nat, NEW end \in Nat, start <= end,
         NEW type \in {VMA_UNMAP, VMA_MAP}, m.list[i].type # type,
         m.list[i].start = start, end < m.list[i].end
  PROVE  Inserts(m, SplitInTwo(m, i, start, end, type), start, end, type)
<1> DEFINE l == m.list
           x == Vma(type, start, end)
           y == [l[i] EXCEPT !.start = end]
           mid == <<x, y>>
           g == get_free_desc(m)
           s == Splice(l, i, i, mid)
           n == SplitInTwo(m, i, start, end, type)
<1>0. /\ l \in Seq(Desc) /\ Len(l) \in Nat /\ l[i] \in Desc
      /\ l[i].type \in {VMA_UNMAP, VMA_MAP} /\ l[i].start \in Nat /\ l[i].end \in Nat
  BY ElementOfDesc, LenProperties DEF Chain
<1>1. /\ x \in Desc /\ x.type = type /\ x.start = start /\ x.end = end
      /\ y \in Desc /\ y.type = l[i].type /\ y.start = end /\ y.end = l[i].end
  BY <1>0 DEF Vma, Desc
<1>2. n = [g EXCEPT !.list = s]
  BY DEF SplitInTwo
<1> HIDE DEF x, y
<1>3. /\ Chain(mid) /\ Len(mid) = 2 /\ mid[1] = x /\ mid[2] = y
      /\ \A a, t : Has(mid, a, t) <=> \/ x.type = t /\ x.start <= a /\ a < x.end
                                      \/ y.type = t /\ y.start <= a /\ a < y.end
  BY <1>0, <1>1, ChainOfTwo
<1> HIDE DEF mid
<1>4. ASSUME NEW a \in Nat, NEW t, l[i].start <= a, a < l[i].end
      PROVE  Has(mid, a, t) <=> IF start <= a /\ a < end THEN t = type ELSE Has(l, a, t)
  <2>1. Has(l, a, t) <=> t = l[i].type
    BY <1>4, HasIn
  <2>2. Has(mid, a, t) <=> \/ x.type = t /\ x.start <= a /\ a < x.end
                           \/ y.type = t /\ y.start <= a /\ a < y.end
    BY <1>3
  <2> QED BY <2>1, <2>2, <1>0, <1>1, <1>4
<1>5. ListAligned(l) /\ Aligned(start) /\ Aligned(end) => ListAligned(mid)
  <2>1. \A k \in 1..Len(mid) : k = 1 \/ k = 2
    BY <1>3
  <2> QED BY <2>1, <1>1, <1>3 DEF ListAligned
<1>6. Painted(l, s, start, end, type)
  <2>1. i \in i..Len(l)
    BY <1>0
  <2>2. mid[1].start = l[i].start /\ mid[Len(mid)].end = l[i].end
    BY <1>1, <1>3
  <2>3. l[i].start <= start /\ end <= l[i].end
    BY <1>0
  <2> HIDE DEF l
  <2> QED BY <1>3, <1>4, <1>5, <2>1, <2>2, <2>3, SplicePaints DEF l
<1>7. s \in Seq(Desc) /\ Len(s) = Len(l) + 1
  <2>1. mid \in Seq(Desc) /\ i \in i..Len(l)
    BY <1>3, <1>0 DEF Chain
  <2>2. s \in Seq(Desc) /\ Len(s) = Len(l) - (i - i + 1) + Len(mid)
    BY <2>1, <1>0, SpliceIs, ZenonT(30)
  <2> QED BY <2>2, <1>0, <1>3
<1> HIDE DEF s, l
<1>8. /\ g \in Manager /\ g.list = l /\ g.cursor = m.cursor /\ g.eov = m.eov
      /\ SameRest(m, g)
      /\ Spare(m) >= 1 => /\ g.fail = m.fail
                          /\ Spare(g) = Spare(m) - 1
                          /\ Balance(g) = Balance(m) - 1
      /\ Spare(m) = 0 => g.fail # "none"
  BY GetFreeDesc DEF l
<1> HIDE DEF g, n
<1>9. /\ n \in Manager
      /\ n.list = s /\ n.nfree = g.nfree /\ n.ndesc = g.ndesc /\ n.next = g.next
      /\ n.cursor = g.cursor /\ n.eov = g.eov /\ n.fail = g.fail
      /\ n.shm = g.shm /\ n.nshm = g.nshm /\ n.ongoing = g.ongoing /\ n.host = g.host
  <2>1. g \in Manager
    BY <1>8
  <2> QED BY <1>2, <1>7, <2>1, WithList
<1>10. SameRest(m, n)
  BY <1>8, <1>9 DEF SameRest
<1>11. Costs(m, n, 2)
  <2>0. /\ Spare(m) \in Nat /\ Balance(m) \in Int /\ Balance(g) \in Int /\ Spare(g) \in Nat
    BY <1>8, ManagerFields
  <2>1. Spare(n) = Spare(g) /\ Balance(n) = Balance(g)
    BY <1>9 DEF Spare, Balance
  <2>2. CASE Spare(m) = 0
    BY <2>2, <1>8, <1>9 DEF Costs
  <2>3. CASE Spare(m) >= 1
    <3>1. n.fail = m.fail /\ Spare(n) = Spare(m) - 1 /\ Balance(n) = Balance(m) - 1
      BY <2>1, <2>3, <1>8, <1>9
    <3>2. Len(n.list) = Len(m.list) + 1
      BY <1>7, <1>9 DEF l
    <3>3. m \in Manager /\ n \in Manager /\ 1 \in Int /\ 2 \in Nat /\ 1 <= 2
      BY <1>9
    <3> QED BY <3>1, <3>2, <3>3, CostsIs
  <2> QED BY <2>0, <2>2, <2>3
<1> QED BY <1>6, <1>8, <1>9, <1>10, <1>11 DEF Inserts, l, n

\* SplitInThree gives the area its type, for two descriptors.
LEMMA SplitInThreeIs ==
  ASSUME NEW m \in Manager, Chain(m.list), NEW i \in 1..Len(m.list),
         NEW start \in Nat, NEW end \in Nat, start <= end,
         NEW type \in {VMA_UNMAP, VMA_MAP}, m.list[i].type # type,
         m.list[i].start <= start, end < m.list[i].end
  PROVE  Inserts(m, SplitInThree(m, i, start, end, type), start, end, type)
<1> DEFINE l == m.list
           x == [l[i] EXCEPT !.end = start]
           y == Vma(type, start, end)
           z == Vma(1 - type, end, l[i].end)
           mid == <<x, y, z>>
           h == get_free_desc(m)
           g == get_free_desc(h)
           s == Splice(l, i, i, mid)
           n == SplitInThree(m, i, start, end, type)
<1>0. /\ l \in Seq(Desc) /\ Len(l) \in Nat /\ l[i] \in Desc
      /\ l[i].type \in {VMA_UNMAP, VMA_MAP} /\ l[i].start \in Nat /\ l[i].end \in Nat
      /\ l[i].type = 1 - type /\ 1 - type \in {VMA_UNMAP, VMA_MAP}
  <2>1. /\ l \in Seq(Desc) /\ Len(l) \in Nat /\ l[i] \in Desc
        /\ l[i].type \in {VMA_UNMAP, VMA_MAP} /\ l[i].start \in Nat /\ l[i].end \in Nat
    BY ElementOfDesc, LenProperties DEF Chain
  <2> QED BY <2>1, TypeIsOther
<1>1. /\ x \in Desc /\ x.type = l[i].type /\ x.start = l[i].start /\ x.end = start
      /\ y \in Desc /\ y.type = type /\ y.start = start /\ y.end = end
      /\ z \in Desc /\ z.type = l[i].type /\ z.start = end /\ z.end = l[i].end
  BY <1>0 DEF Vma, Desc
<1>2. n = [g EXCEPT !.list = s]
  BY DEF SplitInThree
<1> HIDE DEF x, y, z
<1>3. /\ Chain(mid) /\ Len(mid) = 3 /\ mid[1] = x /\ mid[2] = y /\ mid[3] = z
      /\ \A a, t : Has(mid, a, t) <=> \/ x.type = t /\ x.start <= a /\ a < x.end
                                      \/ y.type = t /\ y.start <= a /\ a < y.end
                                      \/ z.type = t /\ z.start <= a /\ a < z.end
  BY <1>0, <1>1, ChainOfThree, SMTT(30)
<1> HIDE DEF mid
<1>4. ASSUME NEW a \in Nat, NEW t, l[i].start <= a, a < l[i].end
      PROVE  Has(mid, a, t) <=> IF start <= a /\ a < end THEN t = type ELSE Has(l, a, t)
  <2>1. Has(l, a, t) <=> t = l[i].type
    BY <1>4, HasIn
  <2>2. Has(mid, a, t) <=> \/ x.type = t /\ x.start <= a /\ a < x.end
                           \/ y.type = t /\ y.start <= a /\ a < y.end
                           \/ z.type = t /\ z.start <= a /\ a < z.end
    BY <1>3
  <2> QED BY <2>1, <2>2, <1>0, <1>1, <1>4
<1>5. ListAligned(l) /\ Aligned(start) /\ Aligned(end) => ListAligned(mid)
  <2>1. \A k \in 1..Len(mid) : k = 1 \/ k = 2 \/ k = 3
    BY <1>3
  <2> QED BY <2>1, <1>1, <1>3 DEF ListAligned
<1>6. Painted(l, s, start, end, type)
  <2>1. i \in i..Len(l)
    BY <1>0
  <2>2. mid[1].start = l[i].start /\ mid[Len(mid)].end = l[i].end
    BY <1>1, <1>3
  <2>3. l[i].start <= start /\ end <= l[i].end
    BY <1>0
  <2> HIDE DEF l
  <2> QED BY <1>3, <1>4, <1>5, <2>1, <2>2, <2>3, SplicePaints DEF l
<1>7. s \in Seq(Desc) /\ Len(s) = Len(l) + 2
  <2>1. mid \in Seq(Desc) /\ i \in i..Len(l)
    BY <1>3, <1>0 DEF Chain
  <2>2. s \in Seq(Desc) /\ Len(s) = Len(l) - (i - i + 1) + Len(mid)
    BY <2>1, <1>0, SpliceIs, ZenonT(30)
  <2> QED BY <2>2, <1>0, <1>3
<1> HIDE DEF s, l
<1>a. /\ h \in Manager /\ h.list = l /\ h.cursor = m.cursor /\ h.eov = m.eov
      /\ SameRest(m, h)
      /\ Spare(m) >= 1 => /\ h.fail = m.fail
                          /\ Spare(h) = Spare(m) - 1
                          /\ Balance(h) = Balance(m) - 1
      /\ Spare(m) = 0 => h.fail # "none" /\ Spare(h) = 0
  BY GetFreeDesc DEF l
<1> HIDE DEF h
<1>8. /\ g \in Manager /\ g.list = l /\ g.cursor = h.cursor /\ g.eov = h.eov
      /\ SameRest(h, g)
      /\ Spare(h) >= 1 => /\ g.fail = h.fail
                          /\ Spare(g) = Spare(h) - 1
                          /\ Balance(g) = Balance(h) - 1
      /\ Spare(h) = 0 => g.fail # "none"
  BY <1>a, GetFreeDesc
<1> HIDE DEF g, n
<1>9. /\ n \in Manager
      /\ n.list = s /\ n.nfree = g.nfree /\ n.ndesc = g.ndesc /\ n.next = g.next
      /\ n.cursor = g.cursor /\ n.eov = g.eov /\ n.fail = g.fail
      /\ n.shm = g.shm /\ n.nshm = g.nshm /\ n.ongoing = g.ongoing /\ n.host = g.host
  <2>1. g \in Manager
    BY <1>8
  <2> QED BY <1>2, <1>7, <2>1, WithList
<1>10. SameRest(m, n)
  BY <1>a, <1>8, <1>9 DEF SameRest
<1>11. Costs(m, n, 2)
  <2>0. /\ Spare(m) \in Nat /\ Balance(m) \in Int /\ Balance(g) \in Int /\ Spare(g) \in Nat
        /\ Spare(h) \in Nat /\ Balance(h) \in Int
    BY <1>a, <1>8, ManagerFields
  <2>1. Spare(n) = Spare(g) /\ Balance(n) = Balance(g)
    BY <1>9 DEF Spare, Balance
  <2>2. CASE Spare(m) < 2
    <3>1. Spare(h) = 0
      BY <2>0, <2>2, <1>a
    <3>2. n.fail # "none"
      BY <3>1, <1>8, <1>9
    <3> QED BY <2>0, <2>2, <3>2 DEF Costs
  <2>3. CASE Spare(m) >= 2
    <3>0. h.fail = m.fail /\ Spare(h) = Spare(m) - 1 /\ Balance(h) = Balance(m) - 1
      BY <2>0, <2>3, <1>a
    <3>a. Spare(h) >= 1
      BY <2>0, <2>3, <3>0
    <3>1. n.fail = m.fail /\ Spare(n) = Spare(m) - 2 /\ Balance(n) = Balance(m) - 2
      BY <2>0, <2>1, <3>0, <3>a, <1>8, <1>9
    <3>2. Len(n.list) = Len(m.list) + 2
      BY <1>7, <1>9 DEF l
    <3>3. m \in Manager /\ n \in Manager /\ 2 \in Int /\ 2 \in Nat /\ 2 <= 2
      BY <1>9
    <3> QED BY <3>1, <3>2, <3>3, CostsIs
  <2> QED BY <2>0, <2>2, <2>3
<1>12. n.cursor = m.cursor /\ n.eov = m.eov
  BY <1>a, <1>8, <1>9
<1> QED BY <1>6, <1>9, <1>10, <1>11, <1>12 DEF Inserts, l, n

\* What Span puts together, written out.
LEMMA Joined ==
  ASSUME NEW S, NEW x \in S, NEW y \in S, NEW z \in S
  PROVE  /\ <<>> \o <<x>> \o <<>> = <<x>>
         /\ <<x>> \o <<y>> \o <<>> = <<x, y>>
         /\ <<>> \o <<x>> \o <<y>> = <<x, y>>
         /\ <<x>> \o <<y>> \o <<z>> = <<x, y, z>>
<1>1. /\ <<>> \in Seq(S) /\ <<x>> \in Seq(S) /\ <<y>> \in Seq(S) /\ <<z>> \in Seq(S)
      /\ <<x, y>> \in Seq(S) /\ <<x, y, z>> \in Seq(S)
  OBVIOUS
<1>2. <<>> \o <<x>> = <<x>> /\ <<x>> \o <<>> = <<x>> /\ <<x, y>> \o <<>> = <<x, y>>
  BY <1>1, ConcatEmptySeq
<1>3. <<x>> \o <<y>> = <<x, y>>
  <2> DEFINE c == <<x>> \o <<y>>
  <2>1. /\ c \in Seq(S) /\ Len(c) = 1 + 1
        /\ \A i \in 1..(1 + 1) : c[i] = IF i <= 1 THEN <<x>>[i] ELSE <<y>>[i - 1]
    <3>1. Len(<<x>>) = 1 /\ Len(<<y>>) = 1
      OBVIOUS
    <3> QED BY <1>1, <3>1, ConcatProperties
  <2> HIDE DEF c
  <2>2. c[1] = x /\ c[2] = y /\ Len(c) = 2
    BY <2>1
  <2> DEFINE d == <<x, y>>
  <2>3. d \in Seq(S) /\ Len(d) = 2 /\ d[1] = x /\ d[2] = y
    BY <1>1
  <2> HIDE DEF d
  <2>4. \A i \in 1..Len(c) : i = 1 \/ i = 2
    BY <2>2
  <2>5. c = d
    BY <2>1, <2>2, <2>3, <2>4, SeqEqual
  <2> QED BY <2>5 DEF c, d
<1>4. <<x, y>> \o <<z>> = <<x, y, z>>
  <2> DEFINE c == <<x, y>> \o <<z>>
  <2>1. /\ c \in Seq(S) /\ Len(c) = 2 + 1
        /\ \A i \in 1..(2 + 1) : c[i] = IF i <= 2 THEN <<x, y>>[i] ELSE <<z>>[i - 2]
    <3>1. Len(<<x, y>>) = 2 /\ Len(<<z>>) = 1
      OBVIOUS
    <3> QED BY <1>1, <3>1, ConcatProperties
  <2> HIDE DEF c
  <2>2. c[1] = x /\ c[2] = y /\ c[3] = z /\ Len(c) = 3
    BY <2>1
  <2> DEFINE d == <<x, y, z>>
  <2>3. d \in Seq(S) /\ Len(d) = 3 /\ d[1] = x /\ d[2] = y /\ d[3] = z
    BY <1>1
  <2> HIDE DEF d
  <2>4. \A i \in 1..Len(c) : i = 1 \/ i = 2 \/ i = 3
    BY <2>2
  <2>5. c = d
    BY <2>1, <2>2, <2>3, <2>4, SeqEqual
  <2> QED BY <2>5 DEF c, d
<1> QED BY <1>2, <1>3, <1>4, Zenon

\* The area reaches from descriptor i to descriptor j.
LEMMA SpanIs ==
  ASSUME NEW m \in Manager, Chain(m.list), NEW i \in 1..Len(m.list), NEW j \in 1..Len(m.list),
         NEW start \in Nat, NEW end \in Nat, i < j,
         NEW type \in {VMA_UNMAP, VMA_MAP},
         m.list[i].start <= start, start < m.list[i].end,
         m.list[j].start <= end, end < m.list[j].end
  PROVE  Inserts(m, Span(m, i, j, start, end, type), start, end, type)
<1> DEFINE l == m.list
           shrink == l[i].type # type
           absorb == l[j].type = type
           stop   == IF absorb THEN l[j].end
                     ELSE IF l[j].start # end THEN end
                     ELSE l[j - 1].end
           x == [l[i] EXCEPT !.end = start]
           y == Vma(type, IF shrink THEN start ELSE l[i].start, stop)
           z == [l[j] EXCEPT !.start = end]
           left   == IF shrink THEN <<x>> ELSE <<>>
           right  == IF absorb THEN <<>> ELSE <<z>>
           mid == left \o <<y>> \o right
           k == (j - i - 1) + (IF absorb THEN 1 ELSE 0)
           h == IF shrink THEN get_free_desc(m) ELSE m
           g == free_descs(h, k)
           s == Splice(l, i, j, mid)
           n == Span(m, i, j, start, end, type)
<1>0. /\ l \in Seq(Desc) /\ Len(l) \in Nat
      /\ l[i] \in Desc /\ l[i].start \in Nat /\ l[i].end \in Nat
      /\ l[i].type \in {VMA_UNMAP, VMA_MAP}
      /\ l[j] \in Desc /\ l[j].start \in Nat /\ l[j].end \in Nat
      /\ l[j].type \in {VMA_UNMAP, VMA_MAP}
      /\ l[i].end <= l[j].start
  BY ElementOfDesc, LenProperties DEF Chain
<1>1. n = [g EXCEPT !.list = s]
  BY DEF Span
<1>2. stop = IF absorb THEN l[j].end ELSE end
  <2>1. j - 1 \in 1..(Len(l) - 1) /\ (j - 1) + 1 = j
    BY <1>0
  <2>2. l[j - 1].end = l[j].start
    BY <2>1 DEF Chain
  <2> QED BY <2>2
<1>3. /\ x \in Desc /\ x.type = l[i].type /\ x.start = l[i].start /\ x.end = start
      /\ z \in Desc /\ z.type = l[j].type /\ z.start = end /\ z.end = l[j].end
  BY <1>0 DEF Desc
<1> HIDE DEF stop, shrink, absorb
<1>4. /\ y \in Desc /\ y.type = type /\ y.start = IF shrink THEN start ELSE l[i].start
      /\ y.end = IF absorb THEN l[j].end ELSE end
  BY <1>0, <1>2 DEF Vma, Desc
<1>5. y.start <= start /\ start < end /\ end <= y.end
  BY <1>0, <1>4, SMTT(30)
<1> HIDE DEF x, y, z
\* The four outcomes.
<1>6. /\ Chain(mid)
      /\ Len(mid) = 1 + (IF shrink THEN 1 ELSE 0) + (IF absorb THEN 0 ELSE 1)
      /\ mid[1].start = l[i].start /\ mid[Len(mid)].end = l[j].end
      /\ \A a, t : Has(mid, a, t) <=>
           \/ shrink /\ x.type = t /\ x.start <= a /\ a < x.end
           \/ y.type = t /\ y.start <= a /\ a < y.end
           \/ ~absorb /\ z.type = t /\ z.start <= a /\ a < z.end
      /\ ListAligned(l) /\ Aligned(start) /\ Aligned(end) => ListAligned(mid)
  <2>0. /\ x.start \in Nat /\ x.end \in Nat /\ y.start \in Nat /\ y.end \in Nat
        /\ z.start \in Nat /\ z.end \in Nat
    BY <1>3, <1>4, ElementOfDesc DEF Desc
  <2>a. ASSUME ListAligned(l), Aligned(start), Aligned(end)
        PROVE  /\ Aligned(x.start) /\ Aligned(x.end) /\ Aligned(y.start) /\ Aligned(y.end)
               /\ Aligned(z.start) /\ Aligned(z.end)
    BY <2>a, <1>3, <1>4 DEF ListAligned
  <2>1. CASE shrink /\ ~absorb
    <3>0. mid = <<x>> \o <<y>> \o <<z>>
      BY <2>1, Zenon
    <3>1. mid = <<x, y, z>>
      BY <3>0, <1>3, <1>4, Joined
    <3> HIDE DEF mid
    <3>2. x.start <= x.end /\ y.start <= y.end /\ z.start <= z.end /\ x.end = y.start /\ y.end = z.start
      BY <2>1, <1>0, <1>3, <1>4, <1>5
    <3>3. /\ Chain(mid) /\ Len(mid) = 3 /\ mid[1] = x /\ mid[2] = y /\ mid[3] = z
          /\ \A a, t : Has(mid, a, t) <=>
              \/ x.type = t /\ x.start <= a /\ a < x.end
              \/ y.type = t /\ y.start <= a /\ a < y.end
              \/ z.type = t /\ z.start <= a /\ a < z.end
      BY <3>1, <3>2, <1>3, <1>4, ChainOfThree, ZenonT(30)
    <3>4. \A u \in 1..Len(mid) : u = 1 \/ u = 2 \/ u = 3
      BY <3>3
    <3>5. ListAligned(l) /\ Aligned(start) /\ Aligned(end) => ListAligned(mid)
      BY <2>a, <3>3, <3>4 DEF ListAligned
    <3> QED BY <2>1, <3>3, <3>5, <1>3
  <2>2. CASE shrink /\ absorb
    <3>0. mid = <<x>> \o <<y>> \o <<>>
      BY <2>2, Zenon
    <3>1. mid = <<x, y>>
      BY <3>0, <1>3, <1>4, Joined
    <3> HIDE DEF mid
    <3>2. x.start <= x.end /\ y.start <= y.end /\ x.end = y.start
      BY <2>2, <1>0, <1>3, <1>4, <1>5
    <3>3. /\ Chain(mid) /\ Len(mid) = 2 /\ mid[1] = x /\ mid[2] = y
          /\ \A a, t : Has(mid, a, t) <=>
              \/ x.type = t /\ x.start <= a /\ a < x.end
              \/ y.type = t /\ y.start <= a /\ a < y.end
      BY <3>1, <3>2, <1>3, <1>4, ChainOfTwo
    <3>4. \A u \in 1..Len(mid) : u = 1 \/ u = 2
      BY <3>3
    <3>5. ListAligned(l) /\ Aligned(start) /\ Aligned(end) => ListAligned(mid)
      BY <2>a, <3>3, <3>4 DEF ListAligned
    <3> QED BY <2>2, <3>3, <3>5, <1>3, <1>4
  <2>3. CASE ~shrink /\ ~absorb
    <3>0. mid = <<>> \o <<y>> \o <<z>>
      BY <2>3, Zenon
    <3>1. mid = <<y, z>>
      BY <3>0, <1>3, <1>4, Joined
    <3> HIDE DEF mid
    <3>2. y.start <= y.end /\ z.start <= z.end /\ y.end = z.start
      BY <2>3, <1>0, <1>3, <1>4, <1>5
    <3>3. /\ Chain(mid) /\ Len(mid) = 2 /\ mid[1] = y /\ mid[2] = z
          /\ \A a, t : Has(mid, a, t) <=>
              \/ y.type = t /\ y.start <= a /\ a < y.end
              \/ z.type = t /\ z.start <= a /\ a < z.end
      BY <3>1, <3>2, <1>3, <1>4, ChainOfTwo
    <3>4. \A u \in 1..Len(mid) : u = 1 \/ u = 2
      BY <3>3
    <3>5. ListAligned(l) /\ Aligned(start) /\ Aligned(end) => ListAligned(mid)
      BY <2>a, <3>3, <3>4 DEF ListAligned
    <3> QED BY <2>3, <3>3, <3>5, <1>3, <1>4
  <2>4. CASE ~shrink /\ absorb
    <3>0. mid = <<>> \o <<y>> \o <<>>
      BY <2>4, Zenon
    <3>1. mid = <<y>>
      BY <3>0, <1>3, <1>4, Joined
    <3> HIDE DEF mid
    <3>2. y.start <= y.end
      BY <2>4, <1>0, <1>3, <1>4, <1>5
    <3>3. /\ Chain(mid) /\ Len(mid) = 1 /\ mid[1] = y
          /\ \A a, t : Has(mid, a, t) <=> y.type = t /\ y.start <= a /\ a < y.end
      BY <3>1, <3>2, <1>4, ChainOfOne
    <3>4. \A u \in 1..Len(mid) : u = 1
      BY <3>3
    <3>5. ListAligned(l) /\ Aligned(start) /\ Aligned(end) => ListAligned(mid)
      BY <2>a, <3>3, <3>4 DEF ListAligned
    <3> QED BY <2>4, <3>3, <3>5, <1>4
  <2> QED BY <2>1, <2>2, <2>3, <2>4
<1> HIDE DEF mid
<1>7. ASSUME NEW a \in Nat, NEW t, l[i].start <= a, a < l[j].end
      PROVE  Has(mid, a, t) <=> IF start <= a /\ a < end THEN t = type ELSE Has(l, a, t)
  <2>1. Has(mid, a, t) <=>
           \/ shrink /\ x.type = t /\ x.start <= a /\ a < x.end
           \/ y.type = t /\ y.start <= a /\ a < y.end
           \/ ~absorb /\ z.type = t /\ z.start <= a /\ a < z.end
    BY <1>6
  <2>2. CASE a < start
    <3>1. Has(l, a, t) <=> t = l[i].type
      <4>1. l[i].start <= a /\ a < l[i].end
        BY <2>2, <1>0, <1>7
      <4> QED BY <4>1, HasIn
    <3>2. CASE shrink
      <4>1. y.start = start /\ x.start <= a /\ a < x.end /\ ~(z.start <= a)
        BY <2>2, <3>2, <1>0, <1>3, <1>4, <1>5, <1>7
      <4> QED BY <2>1, <2>2, <3>1, <3>2, <4>1, <1>3, <1>0
    <3>3. CASE ~shrink
      <4>1. y.start <= a /\ a < y.end /\ y.type = l[i].type /\ ~(z.start <= a)
        BY <2>2, <3>3, <1>0, <1>3, <1>4, <1>5, <1>7 DEF shrink
      <4> QED BY <2>1, <2>2, <3>1, <3>3, <4>1, <1>0
    <3> QED BY <3>2, <3>3
  <2>3. CASE start <= a /\ a < end
    BY <2>1, <2>3, <1>0, <1>3, <1>4, <1>5
  <2>4. CASE end <= a
    <3>1. Has(l, a, t) <=> t = l[j].type
      <4>1. l[j].start <= a /\ a < l[j].end
        BY <2>4, <1>0, <1>7
      <4> QED BY <4>1, HasIn
    <3>2. ~(a < x.end)
      BY <2>4, <1>0, <1>3, <1>5
    <3>3. CASE absorb
      <4>1. y.start <= a /\ a < y.end /\ y.type = l[j].type
        BY <2>4, <3>3, <1>0, <1>3, <1>4, <1>5, <1>7 DEF absorb
      <4> QED BY <2>1, <2>4, <3>1, <3>2, <3>3, <4>1, <1>0
    <3>4. CASE ~absorb
      <4>1. y.end = end /\ z.start <= a /\ a < z.end /\ z.type = l[j].type
        BY <2>4, <3>4, <1>0, <1>3, <1>4, <1>5, <1>7
      <4> QED BY <2>1, <2>4, <3>1, <3>2, <3>4, <4>1, <1>0
    <3> QED BY <3>3, <3>4
  <2> QED BY <2>2, <2>3, <2>4
<1>8. Painted(l, s, start, end, type)
  <2>1. j \in i..Len(l)
    BY <1>0
  <2>3. l[i].start <= start /\ end <= l[j].end
    BY <1>0
  <2> HIDE DEF l
  <2> QED BY <1>6, <1>7, <2>1, <2>3, SplicePaints DEF l
<1>9. s \in Seq(Desc) /\ Len(s) = Len(l) - (j - i + 1) + Len(mid)
  <2>1. mid \in Seq(Desc) /\ i \in 1..Len(l) /\ j \in i..Len(l)
    BY <1>6, <1>0 DEF Chain
  <2> HIDE DEF l, mid
  <2>2. /\ Splice(l, i, j, mid) \in Seq(Desc)
        /\ Len(Splice(l, i, j, mid)) = Len(l) - (j - i + 1) + Len(mid)
    <3>1. l \in Seq(Desc)
      BY <1>0
    <3> QED BY <2>1, <3>1, SpliceLength
  <2> QED BY <2>2
<1> HIDE DEF s, l
<1>10. /\ h \in Manager /\ h.list = l /\ h.cursor = m.cursor /\ h.eov = m.eov
       /\ SameRest(m, h)
       /\ ~shrink => h = m
       /\ shrink => /\ Spare(m) >= 1 => /\ h.fail = m.fail
                                        /\ Spare(h) = Spare(m) - 1
                                        /\ Balance(h) = Balance(m) - 1
                    /\ Spare(m) = 0 => h.fail # "none"
  <2>1. CASE shrink
    BY <2>1, GetFreeDesc DEF l
  <2>2. CASE ~shrink
    BY <2>2 DEF l, SameRest
  <2> QED BY <2>1, <2>2
<1>11. k \in Nat
  BY <1>0
<1> HIDE DEF h, k
<1>12. /\ g \in Manager
       /\ g.cursor = h.cursor /\ g.eov = h.eov /\ g.fail = h.fail
       /\ g.shm = h.shm /\ g.nshm = h.nshm /\ g.ongoing = h.ongoing /\ g.host = h.host
       /\ Spare(g) = Spare(h) + k
       /\ g.nfree = h.nfree + k /\ g.ndesc = h.ndesc
  BY <1>10, <1>11, FreeDescs
<1> HIDE DEF g, n
<1>13. /\ n \in Manager
       /\ n.list = s /\ n.nfree = g.nfree /\ n.ndesc = g.ndesc /\ n.next = g.next
       /\ n.cursor = g.cursor /\ n.eov = g.eov /\ n.fail = g.fail
       /\ n.shm = g.shm /\ n.nshm = g.nshm /\ n.ongoing = g.ongoing /\ n.host = g.host
  <2>1. g \in Manager
    BY <1>12
  <2> QED BY <1>1, <1>9, <2>1, WithList
<1>14. SameRest(m, n) /\ n.cursor = m.cursor /\ n.eov = m.eov
  BY <1>10, <1>12, <1>13 DEF SameRest
<1>15. Costs(m, n, 2)
  <2>0. /\ Spare(m) \in Nat /\ Balance(m) \in Int /\ Balance(h) \in Int /\ Spare(h) \in Nat
        /\ h.nfree \in Nat /\ h.ndesc \in Nat
    BY <1>10, ManagerFields
  <2>1. Spare(n) = Spare(h) + k /\ Balance(n) = Balance(h) + k
    <3>1. Spare(n) = Spare(g) /\ Balance(n) = Balance(g)
      BY <1>13 DEF Spare, Balance
    <3>2. Balance(g) = Balance(h) + k
      BY <1>12, <1>11, <2>0 DEF Balance
    <3> QED BY <3>1, <3>2, <1>12
  <2>2. n.fail = h.fail
    BY <1>12, <1>13
  <2> DEFINE d == IF shrink THEN 1 ELSE 0
  <2>3. Len(n.list) = Len(m.list) + (d - k)
    <3>1. Len(mid) = 1 + d + (IF absorb THEN 0 ELSE 1)
      BY <1>6
    <3>2. Len(n.list) = Len(m.list) - (j - i + 1) + Len(mid) /\ Len(m.list) \in Nat
      BY <1>9, <1>13, <1>0 DEF l
    <3>3. d \in Nat
      OBVIOUS
    <3> DEFINE e == IF absorb THEN 1 ELSE 0
    <3>4. e \in Nat /\ k = (j - i - 1) + e /\ Len(mid) = 1 + d + (1 - e)
      BY <3>1 DEF k
    <3>5. i \in Nat /\ j \in Nat
      BY <1>0
    <3> DEFINE a == Len(m.list)
               b == Len(n.list)
    <3>6. a \in Nat /\ b = a - (j - i + 1) + (1 + d + (1 - e))
      BY <3>2, <3>4
    <3> HIDE DEF a, b, d, e
    <3>7. b = a + (d - ((j - i - 1) + e))
      BY <3>3, <3>4, <3>5, <3>6
    <3>8. b = a + (d - k)
      BY <3>7, <3>4
    <3> QED BY <3>8 DEF a, b
  <2>4. CASE shrink /\ Spare(m) = 0
    BY <2>0, <2>2, <2>4, <1>10 DEF Costs
  <2>5. CASE ~shrink \/ Spare(m) >= 1
    <3>1. Spare(h) = Spare(m) - d /\ Balance(h) = Balance(m) - d /\ h.fail = m.fail
      BY <2>0, <2>5, <1>10
    <3>2. d \in Nat /\ d <= 1
      OBVIOUS
    <3> HIDE DEF d
    <3>3. /\ d - k \in Int /\ d - k <= 2 /\ 2 \in Nat
          /\ Spare(n) = Spare(m) - (d - k) /\ Balance(n) = Balance(m) - (d - k)
      <4> DEFINE a == Spare(n)
                 b == Spare(m)
                 spareH == Spare(h)
                 e == Balance(n)
                 f == Balance(m)
                 balanceH == Balance(h)
      <4>1. /\ b \in Nat /\ f \in Int /\ a = spareH + k /\ e = balanceH + k
            /\ spareH = b - d /\ balanceH = f - d
            /\ k \in Nat /\ d \in Nat /\ d <= 1
        BY <2>0, <2>1, <3>1, <3>2, <1>11
      <4> HIDE DEF a, b, spareH, e, f, balanceH
      <4>2. d - k \in Int /\ d - k <= 2 /\ 2 \in Nat /\ a = b - (d - k) /\ e = f - (d - k)
        BY <4>1
      <4> QED BY <4>2 DEF a, b, e, f
    <3>4. n.fail = m.fail
      BY <2>2, <3>1
    <3>5. n \in Manager
      BY <1>13
    <3> QED BY <2>3, <3>3, <3>4, <3>5, CostsIs
  <2> QED BY <2>0, <2>4, <2>5
<1> QED BY <1>8, <1>13, <1>14, <1>15 DEF Inserts, l, n

\* Merging with the descriptor before changes no byte, when the byte at start
\* has the type that is merged.
LEMMA MergePrevIs ==
  ASSUME NEW m \in Manager, Chain(m.list), NEW start \in Nat, NEW type,
         Owner(m.list, start) # 0
  PROVE  LET n == MergePrev(m, start, type) IN
         /\ n \in Manager
         /\ Chain(n.list)
         /\ n.list[1].start = m.list[1].start
         /\ n.list[Len(n.list)].end = m.list[Len(m.list)].end
         /\ Has(m.list, start, type) =>
              \A a \in Nat : \A t : Has(n.list, a, t) <=> Has(m.list, a, t)
         /\ ListAligned(m.list) => ListAligned(n.list)
         /\ SameRest(m, n)
         /\ n.cursor = m.cursor /\ n.eov = m.eov
         /\ Costs(m, n, 0)
<1> DEFINE l == m.list
           f == Owner(l, start)
           n == MergePrev(m, start, type)
<1>0. /\ l \in Seq(Desc) /\ Len(l) \in Nat
      /\ f \in 1..Len(l) /\ l[f].start <= start /\ start < l[f].end
  <2>1. l \in Seq(Desc) /\ Len(l) \in Nat
    BY LenProperties DEF Chain
  <2> QED BY <2>1, OwnerIs
<1> SUFFICES /\ n \in Manager
             /\ Chain(n.list)
             /\ n.list[1].start = l[1].start
             /\ n.list[Len(n.list)].end = l[Len(l)].end
             /\ Has(l, start, type) =>
                  \A a \in Nat : \A t : Has(n.list, a, t) <=> Has(l, a, t)
             /\ ListAligned(l) => ListAligned(n.list)
             /\ SameRest(m, n)
             /\ n.cursor = m.cursor /\ n.eov = m.eov
             /\ Costs(m, n, 0)
  BY Zenon
<1>1. CASE f > 1 /\ l[f - 1].type = type
  <2> DEFINE y == [l[f - 1] EXCEPT !.end = l[f].end]
             mid == <<y>>
             s == Splice(l, f - 1, f, mid)
             g == free_descs(m, 1)
  <2>1. n = [g EXCEPT !.list = s]
    BY <1>0, <1>1 DEF MergePrev
  <2>2. f - 1 \in 1..Len(l) /\ f - 1 \in 1..(Len(l) - 1) /\ (f - 1) + 1 = f /\ f \in (f - 1)..Len(l)
        /\ f - 1 < f
    BY <1>0, <1>1
  <2>3. /\ l[f] \in Desc /\ l[f].start \in Nat /\ l[f].end \in Nat
        /\ l[f - 1] \in Desc /\ l[f - 1].start \in Nat /\ l[f - 1].end \in Nat
        /\ l[f].start <= l[f].end /\ l[f - 1].start <= l[f - 1].end
        /\ l[f - 1].end = l[f].start
    <3>1. /\ l[f] \in Desc /\ l[f].start \in Nat /\ l[f].end \in Nat
      BY <1>0, ElementOfDesc
    <3>2. /\ l[f - 1] \in Desc /\ l[f - 1].start \in Nat /\ l[f - 1].end \in Nat
      BY <1>0, <2>2, ElementOfDesc
    <3>3. l[f].start <= l[f].end /\ l[f - 1].start <= l[f - 1].end
      BY <1>0, <2>2 DEF Chain
    <3>4. l[f - 1].end = l[f].start
      BY <2>2 DEF Chain
    <3> QED BY <3>1, <3>2, <3>3, <3>4
  <2> HIDE DEF l, f
  <2>4. /\ y \in Desc /\ y.type = type /\ y.start = l[f - 1].start /\ y.end = l[f].end
        /\ y.start <= y.end
    BY <1>1, <2>3 DEF Desc
  <2> HIDE DEF y
  <2>5. /\ Chain(mid) /\ Len(mid) = 1 /\ mid[1] = y
        /\ \A a, t : Has(mid, a, t) <=> y.type = t /\ y.start <= a /\ a < y.end
    BY <2>4, ChainOfOne
  <2> HIDE DEF mid
  <2>a. mid \in Seq(Desc) /\ mid[1].start = l[f - 1].start /\ mid[Len(mid)].end = l[f].end
    BY <2>4, <2>5 DEF Chain
  <2>b. Chain(l)
    BY DEF l
  <2>6. /\ Chain(s)
        /\ s[1].start = l[1].start
        /\ s[Len(s)].end = l[Len(l)].end
        /\ \A a \in Nat : \A t : Has(s, a, t) <=>
              IF l[f - 1].start <= a /\ a < l[f].end THEN Has(mid, a, t)
              ELSE Has(l, a, t)
    BY <2>2, <2>5, <2>a, <2>b, SpliceChain
  <2>7. ASSUME Has(l, start, type), NEW a \in Nat, NEW t
        PROVE  Has(s, a, t) <=> Has(l, a, t)
    <3>1. type = l[f].type
      BY <2>7, <2>b, <1>0, HasIn
    <3>2. CASE l[f - 1].start <= a /\ a < l[f].end
      <4>1. Has(s, a, t) <=> t = type
        BY <3>2, <2>4, <2>5, <2>6
      <4>2. CASE a < l[f].start
        <5>1. Has(l, a, t) <=> t = l[f - 1].type
          BY <4>2, <3>2, <2>b, <2>2, <2>3, HasIn
        <5> QED BY <4>1, <5>1, <1>1
      <4>3. CASE l[f].start <= a
        <5>1. Has(l, a, t) <=> t = l[f].type
          BY <4>3, <3>2, <2>b, <1>0, HasIn
        <5> QED BY <4>1, <5>1, <3>1
      <4> QED BY <4>2, <4>3, <2>3
    <3>3. CASE ~(l[f - 1].start <= a /\ a < l[f].end)
      BY <3>3, <2>6
    <3> QED BY <3>2, <3>3
  <2>8. s \in Seq(Desc) /\ Len(s) = Len(l) - 1
    <3>1. /\ s \in Seq(Desc)
          /\ Len(s) = Len(l) - (f - (f - 1) + 1) + Len(mid)
      BY <1>0, <2>2, <2>a, SpliceLength
    <3>2. f - (f - 1) + 1 = 2
      BY <1>0
    <3>3. Len(mid) = 1
      BY <2>5
    <3>4. Len(s) = Len(l) - 2 + 1
      BY <3>1, <3>2, <3>3
    <3>5. Len(l) - 2 + 1 = Len(l) - 1
      BY <1>0
    <3> QED BY <3>1, <3>4, <3>5
  <2>9. ASSUME ListAligned(l) PROVE ListAligned(s)
    <3>1. \A k \in 1..Len(s) :
              s[k] = IF k < f - 1 THEN l[k]
                     ELSE IF k < (f - 1) + Len(mid) THEN mid[k - (f - 1) + 1]
                     ELSE l[k - Len(mid) + (f - (f - 1) + 1)]
      BY <1>0, <2>2, <2>a, SpliceIs, SMTT(30)
    <3> HIDE DEF s
    <3> SUFFICES ASSUME NEW k \in 1..Len(s)
                 PROVE  Aligned(s[k].start) /\ Aligned(s[k].end)
      BY DEF ListAligned
    <3>0. k \in Nat /\ k >= 1 /\ k <= Len(l) - 1
      BY <2>8, <1>0
    <3>u. Len(mid) = 1 /\ f \in Nat
      BY <2>5, <1>0
    <3>2. CASE k < f - 1
      <4>1. s[k] = l[k] /\ k \in 1..Len(l)
        BY <3>0, <3>1, <3>2, <1>0
      <4> QED BY <4>1, <2>9 DEF ListAligned
    <3>3. CASE k = f - 1
      <4>1. ~(k < f - 1) /\ k < (f - 1) + Len(mid) /\ k - (f - 1) + 1 = 1
        BY <3>3, <3>u
      <4>2. s[k] = y
        BY <4>1, <3>1, <2>5
      <4> QED BY <4>2, <2>4, <2>9, <1>0, <2>2 DEF ListAligned
    <3>4. CASE k > f - 1
      <4>1. ~(k < f - 1) /\ ~(k < (f - 1) + Len(mid)) /\ k - Len(mid) + (f - (f - 1) + 1) = k + 1
        BY <3>0, <3>4, <3>u
      <4>2. s[k] = l[k + 1] /\ k + 1 \in 1..Len(l)
        BY <4>1, <3>0, <3>1, <1>0
      <4> QED BY <4>2, <2>9 DEF ListAligned
    <3> QED BY <3>0, <3>2, <3>3, <3>4, <1>0
  <2>10. /\ g \in Manager
         /\ g.list = l /\ g.nfree = m.nfree + 1 /\ g.ndesc = m.ndesc /\ g.next = m.next
         /\ g.cursor = m.cursor /\ g.eov = m.eov /\ g.fail = m.fail
         /\ g.shm = m.shm /\ g.nshm = m.nshm /\ g.ongoing = m.ongoing /\ g.host = m.host
         /\ Spare(g) = Spare(m) + 1
    BY FreeDescs DEF l
  <2> HIDE DEF g, s, n
  <2>11. /\ n \in Manager
         /\ n.list = s /\ n.nfree = g.nfree /\ n.ndesc = g.ndesc /\ n.next = g.next
         /\ n.cursor = g.cursor /\ n.eov = g.eov /\ n.fail = g.fail
         /\ n.shm = g.shm /\ n.nshm = g.nshm /\ n.ongoing = g.ongoing /\ n.host = g.host
    <3>1. g \in Manager
      BY <2>10
    <3> QED BY <2>1, <2>8, <3>1, WithList
  <2>12. SameRest(m, n) /\ n.cursor = m.cursor /\ n.eov = m.eov
    BY <2>10, <2>11 DEF SameRest
  <2>13. Costs(m, n, 0)
    <3>0. m.nfree \in Nat /\ m.ndesc \in Nat /\ Spare(m) \in Nat /\ Balance(m) \in Int
      BY ManagerFields
    <3>1. Spare(n) = Spare(g) /\ Balance(n) = Balance(g)
      BY <2>11 DEF Spare, Balance
    <3>2. Balance(g) = Balance(m) + 1
      BY <3>0, <2>10 DEF Balance
    <3>3. Spare(n) = Spare(m) - (-1) /\ Balance(n) = Balance(m) - (-1)
      BY <3>0, <3>1, <3>2, <2>10
    <3>4. Len(n.list) = Len(m.list) + (-1)
      <4>1. Len(n.list) = Len(l) - 1
        BY <2>8, <2>11
      <4>2. Len(l) - 1 = Len(l) + (-1)
        BY <1>0
      <4> QED BY <4>1, <4>2 DEF l
    <3>5. n.fail = m.fail /\ n \in Manager /\ -1 \in Int /\ 0 \in Nat /\ -1 <= 0
      BY <2>10, <2>11
    <3> QED BY <3>3, <3>4, <3>5, CostsIs
  <2> QED BY <2>6, <2>7, <2>9, <2>11, <2>12, <2>13
<1>2. CASE ~(f > 1 /\ l[f - 1].type = type)
  <2>1. n = m
    BY <1>0, <1>2 DEF MergePrev
  <2>2. Costs(m, m, 0)
    <3>1. Spare(m) \in Nat
      BY ManagerFields
    <3> QED BY <3>1 DEF Costs
  <2> HIDE DEF n
  <2> QED BY <2>1, <2>2 DEF SameRest
<1> QED BY <1>1, <1>2

\* What every insertion preserves, whatever its area.
Shaped(m, n) ==
  /\ n \in Manager
  /\ Chain(n.list)
  /\ n.list[1].start = m.list[1].start
  /\ n.list[Len(n.list)].end = m.list[Len(m.list)].end
  /\ SameRest(m, n)
  /\ n.cursor = m.cursor /\ n.eov = m.eov

\* insert_area keeps the list a chain between the same ends and, when the area
\* is not empty and lies in the list, makes that area and nothing else of the
\* type that is asked for, with at most two descriptors.
LEMMA InsertArea ==
  ASSUME NEW m \in Manager, Chain(m.list), NEW start \in Nat, NEW end \in Nat,
         start <= end, NEW type \in {VMA_UNMAP, VMA_MAP}
  PROVE  LET n == insert_area(m, start, end, type) IN
         /\ Shaped(m, n)
         /\ m.list[1].start <= start /\ start < end /\ end < m.list[Len(m.list)].end
              => Inserts(m, n, start, end, type)
<1> DEFINE l == m.list
           i == Owner(l, start)
           j == Owner(l, end)
           n == insert_area(m, start, end, type)
<1> SUFFICES /\ Shaped(m, n)
             /\ l[1].start <= start /\ start < end /\ end < l[Len(l)].end
                  => Inserts(m, n, start, end, type)
  BY Zenon
<1>0. /\ l \in Seq(Desc) /\ Len(l) \in Nat
      /\ i \in 0..Len(l) /\ j \in 0..Len(l)
      /\ i # 0 => i \in 1..Len(l) /\ l[i].start <= start /\ start < l[i].end
      /\ j # 0 => j \in 1..Len(l) /\ l[j].start <= end /\ end < l[j].end
  <2>1. l \in Seq(Desc) /\ Len(l) \in Nat
    BY LenProperties DEF Chain
  <2> QED BY <2>1, OwnerIs
<1>1. CASE i = 0 \/ j = 0
  <2>1. n = Stop(m, "no owner")
    BY <1>1 DEF insert_area
  <2>2. "no owner" \in Fails
    BY DEF Fails
  <2> HIDE DEF n
  <2>3. Shaped(m, n)
    BY <2>1, <2>2, StopIs DEF Shaped, SameRest
  <2>4. ~(l[1].start <= start /\ start < end /\ end < l[Len(l)].end)
    <3> SUFFICES ASSUME l[1].start <= start, start < end, end < l[Len(l)].end
                 PROVE  FALSE
      OBVIOUS
    <3>1. 1 \in 1..Len(l) /\ Len(l) \in 1..Len(l)
      BY <1>0 DEF Chain
    <3>2. l[1].start \in Nat /\ l[Len(l)].end \in Nat
      BY <1>0, <3>1, ElementOfDesc
    <3>3. l[1].start <= end /\ start < l[Len(l)].end
      BY <3>2
    <3> QED BY <3>3, <1>1, OwnerExists
  <2> QED BY <2>3, <2>4
<1>2. CASE i # 0 /\ j # 0 /\ i = j /\ l[i].type = type
  <2>1. n = m
    BY <1>2 DEF insert_area
  <2> HIDE DEF n
  <2>2. Shaped(m, n)
    BY <2>1 DEF Shaped, SameRest
  <2>3. Inserts(m, n, start, end, type)
    <3>1. ASSUME NEW a \in Nat, NEW t, start <= a, a < end
          PROVE  Has(l, a, t) <=> t = type
      <4>1. i \in 1..Len(l) /\ l[i].start \in Nat /\ l[i].end \in Nat
        BY <1>0, <1>2, ElementOfDesc
      <4>2. l[i].start <= a /\ a < l[i].end
        BY <1>0, <1>2, <3>1, <4>1
      <4> QED BY <1>2, <4>1, <4>2, HasIn
    <3>2. Costs(m, m, 2)
      <4>1. Spare(m) \in Nat
        BY ManagerFields
      <4> QED BY <4>1 DEF Costs
    <3>3. Painted(l, l, start, end, type)
      BY <3>1 DEF Painted
    <3> QED BY <2>1, <3>2, <3>3 DEF Inserts, SameRest
  <2> QED BY <2>2, <2>3
<1>3. CASE i # 0 /\ j # 0 /\ ~(i = j /\ l[i].type = type)
  <2> DEFINE p == IF i # j THEN Span(m, i, j, start, end, type)
                  ELSE IF l[i].start = start
                       THEN SplitInTwo(m, i, start, end, type)
                       ELSE SplitInThree(m, i, start, end, type)
  <2>1. n = MergePrev(p, start, type)
    BY <1>3 DEF insert_area
  <2>2. i \in 1..Len(l) /\ j \in 1..Len(l)
    BY <1>0, <1>3
  <2>3. /\ l[i].start \in Nat /\ l[i].end \in Nat
        /\ l[j].start \in Nat /\ l[j].end \in Nat
    BY <1>0, <2>2, ElementOfDesc
  <2>4. i # j => i < j
    <3> SUFFICES ASSUME j < i PROVE FALSE
      BY <2>2
    <3>1. l[j].end <= l[i].start
      BY <2>2 DEF Chain
    <3> QED BY <3>1, <2>3, <1>0, <1>3
  <2>5. Inserts(m, p, start, end, type)
    <3>1. CASE i # j
      <4>1. i < j
        BY <3>1, <2>4
      <4> QED BY <4>1, <3>1, <1>0, <1>3, <2>2, SpanIs
    <3>2. CASE i = j /\ l[i].start = start
      <4>1. p = SplitInTwo(m, i, start, end, type)
        BY <3>2
      <4>2. l[i].type # type /\ end < l[i].end
        BY <3>2, <1>0, <1>3
      <4> HIDE DEF p
      <4> QED BY <4>1, <4>2, <3>2, <2>2, SplitInTwoIs
    <3>3. CASE i = j /\ l[i].start # start
      <4>1. p = SplitInThree(m, i, start, end, type)
        BY <3>3
      <4>2. l[i].type # type /\ end < l[i].end /\ l[i].start <= start
        BY <3>3, <1>0, <1>3
      <4> HIDE DEF p
      <4> QED BY <4>1, <4>2, <2>2, SplitInThreeIs
    <3> QED BY <3>1, <3>2, <3>3
  <2> HIDE DEF p, n
  <2>6. /\ p \in Manager /\ Chain(p.list)
        /\ p.list[1].start = l[1].start
        /\ p.list[Len(p.list)].end = l[Len(l)].end
        /\ SameRest(m, p) /\ p.cursor = m.cursor /\ p.eov = m.eov
        /\ Costs(m, p, 2)
    BY <2>5 DEF Inserts, Painted
  <2>7. l[1].start <= start /\ start < l[Len(l)].end
    <3>1. 1 \in 1..Len(l) /\ Len(l) \in 1..Len(l)
      BY <1>0, <2>2
    <3>2. l[1].start \in Nat /\ l[1].end \in Nat /\ l[Len(l)].start \in Nat /\ l[Len(l)].end \in Nat
      BY <1>0, <3>1, ElementOfDesc
    <3>3. l[1].start <= l[1].end /\ l[Len(l)].start <= l[Len(l)].end
      BY <3>1 DEF Chain
    <3>4. i = 1 \/ l[1].end <= l[i].start
      BY <2>2, <3>1 DEF Chain
    <3>5. i = Len(l) \/ l[i].end <= l[Len(l)].start
      BY <2>2, <3>1 DEF Chain
    <3>6. l[i].start <= start /\ start < l[i].end
      BY <1>0, <1>3
    <3>7. l[1].start <= l[i].start
      BY <3>2, <3>3, <3>4, <2>3, SMTT(30)
    <3>8. l[i].end <= l[Len(l)].end
      BY <3>2, <3>3, <3>5, <2>3, SMTT(30)
    <3>9. l[1].start <= start
      BY <3>2, <3>6, <3>7, <2>3
    <3>10. start < l[Len(l)].end
      BY <3>2, <3>6, <3>8, <2>3, SMTT(30)
    <3> QED BY <3>9, <3>10
  <2>8. Owner(p.list, start) # 0
    BY <2>6, <2>7, OwnerExists
  <2>9. /\ n \in Manager
        /\ Chain(n.list)
        /\ n.list[1].start = p.list[1].start
        /\ n.list[Len(n.list)].end = p.list[Len(p.list)].end
        /\ Has(p.list, start, type) =>
             \A a \in Nat : \A t : Has(n.list, a, t) <=> Has(p.list, a, t)
        /\ ListAligned(p.list) => ListAligned(n.list)
        /\ SameRest(p, n)
        /\ n.cursor = p.cursor /\ n.eov = p.eov
        /\ Costs(p, n, 0)
    BY <2>1, <2>6, <2>8, MergePrevIs, ZenonT(30)
  <2>10. SameRest(m, n)
    BY <2>6, <2>9 DEF SameRest
  <2>11. Shaped(m, n)
    BY <2>6, <2>9, <2>10 DEF Shaped
  <2>12. ASSUME start < end PROVE Inserts(m, n, start, end, type)
    <3>1. Has(p.list, start, type)
      BY <2>5, <2>12 DEF Inserts, Painted
    <3>2. ASSUME NEW a \in Nat, NEW t
          PROVE  Has(n.list, a, t) <=> IF start <= a /\ a < end THEN t = type
                                       ELSE Has(l, a, t)
      <4>1. Has(n.list, a, t) <=> Has(p.list, a, t)
        BY <2>9, <3>1
      <4> QED BY <4>1, <2>5 DEF Inserts, Painted
    <3>3. Painted(l, n.list, start, end, type)
      BY <2>5, <2>9, <3>2 DEF Inserts, Painted
    <3>4. Costs(m, n, 2 + 0)
      BY <2>6, <2>9, CostsAdd
    <3> QED BY <3>3, <3>4, <2>6, <2>9, <2>10 DEF Inserts
  <2> QED BY <2>11, <2>12
<1> QED BY <1>1, <1>2, <1>3

-----------------------------------------------------------------------------
(* Managers whose list is a partition, whatever the calls.                 *)

Ordered(s) == \A k \in 1..Len(s) : s[k].start <= s[k].end

Laid(m) ==
  /\ m \in Manager
  /\ Chain(m.list)
  /\ m.list[1].start = MAPPING_START
  /\ m.list[Len(m.list)].end = ListEnd
  /\ Ordered(m.shm) /\ Ordered(m.ongoing)

\* A list that is laid out is a partition.
LEMMA LaidIsPartition ==
  ASSUME NEW m, Laid(m)
  PROVE  IsPartition(m.list)
<1>1. m.list # <<>>
  <2> SUFFICES ASSUME m.list = <<>> PROVE FALSE
    OBVIOUS
  <2>1. Len(m.list) > 0
    BY DEF Laid, Chain
  <2>2. Len(m.list) = 0
    OBVIOUS
  <2> QED BY <2>1, <2>2
<1> QED BY <1>1 DEF Laid, Chain, IsPartition

\* n differs from m in its list, in how far the searches have come and in its
\* descriptors only.
LEMMA LaidInsert ==
  ASSUME NEW m, Laid(m), NEW start \in Nat, NEW end \in Nat, start <= end,
         NEW type \in {VMA_UNMAP, VMA_MAP}
  PROVE  LET n == insert_area(m, start, end, type) IN
         /\ Laid(n) /\ SameRest(m, n)
         /\ n.cursor = m.cursor /\ n.eov = m.eov
<1> DEFINE n == insert_area(m, start, end, type)
<1>1. m \in Manager /\ Chain(m.list)
  BY DEF Laid
<1>2. Shaped(m, n)
  BY <1>1, InsertArea
<1> HIDE DEF n
<1>3. Laid(n) /\ SameRest(m, n) /\ n.cursor = m.cursor /\ n.eov = m.eov
  BY <1>2 DEF Shaped, Laid, SameRest
<1> QED BY <1>3 DEF n

\* The same for the two names the code uses.
LEMMA LaidMap ==
  ASSUME NEW m, Laid(m), NEW start \in Nat, NEW end \in Nat, start <= end
  PROVE  /\ Laid(insert_map_area(m, start, end))
         /\ SameRest(m, insert_map_area(m, start, end))
         /\ insert_map_area(m, start, end).cursor = m.cursor
         /\ Laid(insert_unmap_area(m, start, end))
         /\ SameRest(m, insert_unmap_area(m, start, end))
         /\ insert_unmap_area(m, start, end).cursor = m.cursor
<1>1. VMA_MAP \in {VMA_UNMAP, VMA_MAP} /\ VMA_UNMAP \in {VMA_UNMAP, VMA_MAP}
  OBVIOUS
<1> QED BY <1>1, LaidInsert DEF insert_map_area, insert_unmap_area

\* What SetHost returns.
LEMMA SetHostIs ==
  ASSUME NEW m \in Manager, NEW ps, NEW what \in Contents
  PROVE  LET n == SetHost(m, ps, what) IN
         /\ n \in Manager
         /\ n.list = m.list /\ n.nfree = m.nfree /\ n.ndesc = m.ndesc /\ n.next = m.next
         /\ n.cursor = m.cursor /\ n.eov = m.eov /\ n.fail = m.fail
         /\ n.shm = m.shm /\ n.nshm = m.nshm /\ n.ongoing = m.ongoing
         /\ \A p \in Pages : n.host[p] = IF p \in ps THEN what ELSE m.host[p]
<1> DEFINE h == [p \in Pages |-> IF p \in ps THEN what ELSE m.host[p]]
           n == SetHost(m, ps, what)
<1>1. m.host \in [Pages -> Contents]
  BY ManagerFields
<1>2. h \in [Pages -> Contents]
  BY <1>1
<1>3. n = [m EXCEPT !.host = h]
  BY DEF SetHost
<1>4. \A p \in Pages : h[p] = IF p \in ps THEN what ELSE m.host[p]
  OBVIOUS
<1> HIDE DEF h, n
<1>5. /\ n \in Manager
      /\ n.list = m.list /\ n.nfree = m.nfree /\ n.ndesc = m.ndesc /\ n.next = m.next
      /\ n.cursor = m.cursor /\ n.eov = m.eov /\ n.fail = m.fail
      /\ n.shm = m.shm /\ n.nshm = m.nshm /\ n.ongoing = m.ongoing /\ n.host = h
  BY <1>2, <1>3 DEF Manager
<1>6. \A p \in Pages : n.host[p] = IF p \in ps THEN what ELSE m.host[p]
  BY <1>4, <1>5
<1> QED BY <1>5, <1>6 DEF n

\* What the host maps does not concern the list.
LEMMA LaidSetHost ==
  ASSUME NEW m, Laid(m), NEW ps, NEW what \in Contents
  PROVE  Laid(SetHost(m, ps, what))
<1> DEFINE n == SetHost(m, ps, what)
<1>1. m \in Manager
  BY DEF Laid
<1>2. /\ n \in Manager /\ n.list = m.list /\ n.shm = m.shm /\ n.ongoing = m.ongoing
  BY <1>1, SetHostIs
<1> HIDE DEF n
<1>3. Laid(n)
  BY <1>2 DEF Laid
<1> QED BY <1>3 DEF n

\* Neither does an assertion.
LEMMA LaidStop ==
  ASSUME NEW m, Laid(m), NEW why \in Fails
  PROVE  Laid(Stop(m, why)) /\ Stop(m, why).cursor = m.cursor
<1> DEFINE n == Stop(m, why)
<1>1. m \in Manager
  BY DEF Laid
<1>2. /\ n \in Manager /\ n.list = m.list /\ n.shm = m.shm /\ n.ongoing = m.ongoing
      /\ n.cursor = m.cursor
  BY <1>1, StopIs
<1> HIDE DEF n
<1>3. Laid(n) /\ n.cursor = m.cursor
  BY <1>2 DEF Laid
<1> QED BY <1>3 DEF n

\* The searches start again from the beginning of the space.
LEMMA WithCursor ==
  ASSUME NEW m \in Manager, NEW e \in BOOLEAN, NEW c \in Nat
  PROVE  LET n == [m EXCEPT !.eov = e, !.cursor = c] IN
         /\ n \in Manager
         /\ n.list = m.list /\ n.nfree = m.nfree /\ n.ndesc = m.ndesc /\ n.next = m.next
         /\ n.cursor = c /\ n.fail = m.fail
         /\ n.shm = m.shm /\ n.nshm = m.nshm /\ n.ongoing = m.ongoing /\ n.host = m.host
BY DEF Manager

\* A new cursor inside the space.
LEMMA CursorTo ==
  ASSUME NEW m \in Manager, NEW c \in Nat
  PROVE  LET n == [m EXCEPT !.cursor = c] IN
         /\ n \in Manager
         /\ n.list = m.list /\ n.nfree = m.nfree /\ n.ndesc = m.ndesc /\ n.next = m.next
         /\ n.cursor = c /\ n.fail = m.fail /\ n.eov = m.eov
         /\ n.shm = m.shm /\ n.nshm = m.nshm /\ n.ongoing = m.ongoing /\ n.host = m.host
BY DEF Manager

\* The length of a call, in pages.
LEMMA PageUp ==
  ASSUME NEW a \in Nat
  PROVE  /\ PAGE_ALIGN_UP(a) \in Nat
         /\ Aligned(PAGE_ALIGN_UP(a))
         /\ a <= PAGE_ALIGN_UP(a)
         /\ PAGE_ALIGN_UP(a) < a + PAGE_SIZE
         /\ \A b \in Nat : Aligned(b) /\ a <= b => PAGE_ALIGN_UP(a) <= b
         /\ \A b \in Nat : Aligned(b) /\ b < PAGE_ALIGN_UP(a) => b < a
         /\ Aligned(a) => PAGE_ALIGN_UP(a) = a
<1>0. PAGE_SIZE \in Nat \ {0}
  BY LayoutAssumption
<1>1. /\ PAGE_ALIGN_UP(a) \in Nat
      /\ Aligned(PAGE_ALIGN_UP(a))
      /\ a <= PAGE_ALIGN_UP(a)
      /\ PAGE_ALIGN_UP(a) < a + PAGE_SIZE
      /\ \A b \in Nat : Aligned(b) /\ a <= b => PAGE_ALIGN_UP(a) <= b
      /\ \A b \in Nat : Aligned(b) /\ b < PAGE_ALIGN_UP(a) => b < a
  BY <1>0, AlignUpIs DEF PAGE_ALIGN_UP, Aligned
<1>2. Aligned(a) => PAGE_ALIGN_UP(a) = a
  BY <1>1
<1> QED BY <1>1, <1>2

-----------------------------------------------------------------------------
(* Searching for room.                                                     *)

\* The list is in pages, what follows the space is taken, and the cursor is
\* in the space.
Orderly(m) ==
  /\ Laid(m)
  /\ ListAligned(m.list)
  /\ Has(m.list, MAPPING_RESERVE_IN_SIGNAL_START, VMA_MAP)
  /\ Aligned(m.cursor)
  /\ KERNEL_CHOOSE_START_ADDR <= m.cursor
  /\ m.cursor <= MAPPING_RESERVE_IN_SIGNAL_START

\* [start, start + length[ is free in m.
IsFree(m, start, length) ==
  /\ Aligned(start) /\ MAPPING_START <= start
  /\ start + length <= MAPPING_RESERVE_IN_SIGNAL_START
  /\ \A a \in Nat : start <= a /\ a < start + length => Has(m.list, a, VMA_UNMAP)

\* r is the outcome of a search for that length: nothing but the list and the
\* cursor has changed, and what was found was free.
Finds(m, r, length) ==
  /\ Orderly(r.m) /\ SameRest(m, r.m) /\ Costs(m, r.m, 2)
  /\ r.addr \in Nat
  /\ r.addr = ENOMEM_64 => r.m.list = m.list
  /\ r.addr # ENOMEM_64 =>
       /\ IsFree(m, r.addr, length)
       /\ Painted(m.list, r.m.list, r.addr, r.addr + length, VMA_MAP)

\* Page addresses add up to page addresses.
LEMMA PageSum ==
  ASSUME NEW x \in Nat, NEW y \in Nat, Aligned(x), Aligned(y)
  PROVE  Aligned(x + y)
<1>1. PAGE_SIZE \in Nat \ {0}
  BY LayoutAssumption
<1>2. x % PAGE_SIZE = 0 /\ y % PAGE_SIZE = 0
  BY DEF Aligned
<1>3. (x + y) % PAGE_SIZE = 0
  BY <1>1, <1>2, MultipleSum
<1> QED BY <1>3 DEF Aligned

\* A page lies between different page addresses.
LEMMA PageGap ==
  ASSUME NEW x \in Nat, NEW y \in Nat, Aligned(x), Aligned(y), x < y
  PROVE  x + PAGE_SIZE <= y
<1>1. PAGE_SIZE \in Nat \ {0}
  BY LayoutAssumption
<1>2. x % PAGE_SIZE = 0 /\ y % PAGE_SIZE = 0
  BY DEF Aligned
<1> QED BY <1>1, <1>2, MultipleGap

\* Page addresses differ by whole pages.
LEMMA PageDifference ==
  ASSUME NEW x \in Nat, NEW y \in Nat, Aligned(x), Aligned(y), x <= y
  PROVE  y - x \in Nat /\ Aligned(y - x)
<1>1. PAGE_SIZE \in Nat \ {0}
  BY LayoutAssumption
<1>2. x % PAGE_SIZE = 0 /\ y % PAGE_SIZE = 0
  BY DEF Aligned
<1>3. y - x \in Nat /\ (y - x) % PAGE_SIZE = 0
  BY <1>1, <1>2, MultipleDifference
<1> QED BY <1>3 DEF Aligned

\* The constants of the layout are page addresses.
LEMMA Layout ==
  /\ PAGE_SIZE \in Nat /\ PAGE_SIZE > 0
  /\ MAPPING_START \in Nat /\ MAPPING_START > 0
  /\ KERNEL_CHOOSE_START_ADDR \in Nat /\ MAPPING_START <= KERNEL_CHOOSE_START_ADDR
  /\ MAPPING_RESERVE_IN_SIGNAL_START \in Nat
  /\ KERNEL_CHOOSE_START_ADDR <= MAPPING_RESERVE_IN_SIGNAL_START
  /\ FORCE_ALIGNMENT \in Nat /\ FORCE_ALIGNMENT > 0
  /\ ListEnd \in Nat /\ ListEnd = MAPPING_RESERVE_IN_SIGNAL_START + PAGE_SIZE
  /\ Aligned(MAPPING_START) /\ Aligned(KERNEL_CHOOSE_START_ADDR)
  /\ Aligned(MAPPING_RESERVE_IN_SIGNAL_START) /\ Aligned(ListEnd) /\ Aligned(PAGE_SIZE)
<1>1. /\ PAGE_SIZE \in Nat /\ PAGE_SIZE > 0
      /\ MAPPING_START \in Nat /\ MAPPING_START > 0
      /\ MAPPING_RESERVE_IN_SIGNAL_START \in Nat
      /\ FORCE_ALIGNMENT \in Nat /\ FORCE_ALIGNMENT > 0
  BY LayoutAssumption
<1>2. /\ KERNEL_CHOOSE_START_ADDR \in Nat /\ MAPPING_START <= KERNEL_CHOOSE_START_ADDR
      /\ KERNEL_CHOOSE_START_ADDR <= MAPPING_RESERVE_IN_SIGNAL_START
  BY <1>1, LayoutAssumption
<1>3. /\ Aligned(MAPPING_START) /\ Aligned(KERNEL_CHOOSE_START_ADDR)
      /\ Aligned(MAPPING_RESERVE_IN_SIGNAL_START)
  BY LayoutAssumption DEF Aligned
<1>4. Aligned(PAGE_SIZE)
  BY <1>1 DEF Aligned
<1>5. ListEnd \in Nat /\ ListEnd = MAPPING_RESERVE_IN_SIGNAL_START + PAGE_SIZE
  BY <1>1 DEF ListEnd
<1>6. Aligned(ListEnd)
  BY <1>1, <1>3, <1>4, <1>5, PageSum
<1> QED BY <1>1, <1>2, <1>3, <1>4, <1>5, <1>6

\* A chain lies between its ends.
LEMMA Between ==
  ASSUME NEW l, Chain(l), NEW k \in 1..Len(l)
  PROVE  /\ l[1].start <= l[k].start /\ l[k].start <= l[k].end
         /\ l[k].end <= l[Len(l)].end
         /\ l[k].start \in Nat /\ l[k].end \in Nat
         /\ l[1].start \in Nat /\ l[Len(l)].end \in Nat
<1>0. l \in Seq(Desc) /\ Len(l) \in Nat /\ 1 \in 1..Len(l) /\ Len(l) \in 1..Len(l)
  BY LenProperties DEF Chain
<1>1. /\ l[k].start \in Nat /\ l[k].end \in Nat
      /\ l[1].start \in Nat /\ l[1].end \in Nat
      /\ l[Len(l)].start \in Nat /\ l[Len(l)].end \in Nat
  BY <1>0, ElementOfDesc
<1>2. /\ l[k].start <= l[k].end /\ l[1].start <= l[1].end
      /\ l[Len(l)].start <= l[Len(l)].end
  BY <1>0 DEF Chain
<1>3. k = 1 \/ l[1].end <= l[k].start
  BY <1>0 DEF Chain
<1>4. k = Len(l) \/ l[k].end <= l[Len(l)].start
  BY <1>0 DEF Chain
<1>5. l[1].start <= l[k].start
  BY <1>1, <1>2, <1>3
<1>6. l[k].end <= l[Len(l)].end
  BY <1>1, <1>2, <1>4
<1> QED BY <1>1, <1>2, <1>5, <1>6

\* A free descriptor that is not empty ends before the reserve.
LEMMA FreeEndsInSpace ==
  ASSUME NEW m, Orderly(m), NEW k \in 1..Len(m.list),
         m.list[k].type = VMA_UNMAP, m.list[k].start < m.list[k].end
  PROVE  m.list[k].end <= MAPPING_RESERVE_IN_SIGNAL_START
<1> DEFINE l == m.list
           s == l[k].start
           e == l[k].end
           R == MAPPING_RESERVE_IN_SIGNAL_START
<1>1. Chain(l) /\ l[Len(l)].end = ListEnd
  BY DEF Orderly, Laid
<1>2. s \in Nat /\ e \in Nat /\ e <= ListEnd
  BY <1>1, Between
<1>3. Aligned(s) /\ Aligned(e)
  BY DEF Orderly, ListAligned
<1>4. Has(l, R, VMA_MAP)
  BY DEF Orderly
<1> SUFFICES ASSUME e > R PROVE FALSE
  BY <1>2, Layout
<1>5. CASE s <= R
  <2>1. VMA_MAP = l[k].type
    BY <1>1, <1>4, <1>5, <1>2, HasIn, Layout
  <2> QED BY <2>1 DEF VMA_MAP, VMA_UNMAP
<1>6. CASE R < s
  <2>1. R + PAGE_SIZE <= s
    BY <1>2, <1>3, <1>6, Layout, PageGap
  <2> HIDE DEF s, e
  <2>2. s < e
    BY DEF s, e
  <2> QED BY <2>1, <2>2, <1>2, Layout
<1> QED BY <1>5, <1>6, <1>2, Layout

\* Taking the area [start, start + length[ of a free descriptor.
LEMMA TakesArea ==
  ASSUME NEW m, Orderly(m), NEW k \in 1..Len(m.list), m.list[k].type = VMA_UNMAP,
         NEW start \in Nat, NEW length \in Nat, length > 0,
         Aligned(start), Aligned(length),
         m.list[k].start <= start, start + length <= m.list[k].end
  PROVE  LET n == insert_map_area(m, start, start + length) IN
         /\ Inserts(m, n, start, start + length, VMA_MAP)
         /\ Orderly(n)
         /\ IsFree(m, start, length)
<1> DEFINE n == insert_map_area(m, start, start + length)
           l == m.list
           end == start + length
           R == MAPPING_RESERVE_IN_SIGNAL_START
<1>0. m \in Manager /\ Chain(l) /\ l[1].start = MAPPING_START /\ l[Len(l)].end = ListEnd
  BY DEF Orderly, Laid
<1>1. /\ l[k].start \in Nat /\ l[k].end \in Nat /\ MAPPING_START <= l[k].start
  BY <1>0, Between
<1>2. l[k].start < l[k].end
  BY <1>1
<1>3. l[k].end <= R
  BY <1>2, FreeEndsInSpace
<1>4. /\ end \in Nat /\ start < end /\ end <= R /\ MAPPING_START <= start
      /\ end < ListEnd
  <2> DEFINE lo == l[k].start
             hi == l[k].end
  <2>1. /\ lo \in Nat /\ hi \in Nat /\ MAPPING_START <= lo /\ hi <= R
        /\ lo <= start /\ start + length <= hi
    BY <1>1, <1>3
  <2> HIDE DEF lo, hi
  <2>2. R \in Nat /\ R < ListEnd /\ MAPPING_START \in Nat /\ ListEnd \in Nat
    BY Layout
  <2> HIDE DEF R
  <2> QED BY <2>1, <2>2
<1>5. Aligned(end)
  BY PageSum
<1>6. VMA_MAP \in {VMA_UNMAP, VMA_MAP}
  OBVIOUS
<1>7. n = insert_area(m, start, end, VMA_MAP)
  BY DEF insert_map_area
<1> HIDE DEF n, end
<1>8. Inserts(m, n, start, end, VMA_MAP)
  BY <1>0, <1>4, <1>6, <1>7, InsertArea
<1>9. Laid(n) /\ n.cursor = m.cursor
  <2>1. Laid(m) /\ start <= end
    BY <1>4 DEF Orderly
  <2> QED BY <2>1, <1>4, <1>6, <1>7, LaidInsert
<1>10. ListAligned(n.list)
  BY <1>8, <1>5 DEF Inserts, Painted, Orderly
<1>11. Has(n.list, R, VMA_MAP)
  <2>1. ~(start <= R /\ R < end)
    BY <1>4, Layout
  <2>2. R \in Nat /\ Has(l, R, VMA_MAP)
    BY Layout DEF Orderly
  <2> QED BY <1>8, <2>1, <2>2 DEF Inserts, Painted
<1>12. Orderly(n)
  BY <1>9, <1>10, <1>11 DEF Orderly
<1>13. ASSUME NEW a \in Nat, start <= a, a < end
       PROVE  Has(l, a, VMA_UNMAP)
  <2>1. l[k].start <= a /\ a < l[k].end
    BY <1>1, <1>13, <1>4 DEF end
  <2> QED BY <2>1, <1>0, HasIn
<1>14. IsFree(m, start, length)
  BY <1>4, <1>13 DEF IsFree, end
<1> QED BY <1>8, <1>12, <1>14 DEF n, end

\* A step that leaves the descriptors alone costs nothing.
LEMMA CostsNothing ==
  ASSUME NEW m \in Manager, NEW n \in Manager, n.list = m.list, n.nfree = m.nfree,
         n.ndesc = m.ndesc, n.next = m.next, n.fail = m.fail, NEW k \in Nat
  PROVE  Costs(m, n, k)
<1>1. Spare(m) \in Nat /\ Balance(m) \in Int /\ Len(m.list) \in Nat
  BY ManagerFields
<1>2. Spare(n) = Spare(m) /\ Balance(n) = Balance(m)
  BY DEF Spare, Balance
<1>3. Len(n.list) = Len(m.list) + 0 /\ Spare(n) = Spare(m) - 0 /\ Balance(n) = Balance(m) - 0
  BY <1>1, <1>2
<1>4. 0 \in Int /\ 0 <= k
  OBVIOUS
<1> QED BY <1>3, <1>4, CostsIs

\* find_vma keeps the layout, and what it returns was free.
LEMMA LaidFindVma ==
  ASSUME NEW m, Laid(m), NEW len \in Nat
  PROVE  LET r == find_vma(m, len) IN
         /\ Laid(r.m) /\ SameRest(m, r.m) /\ r.addr \in Nat
         /\ Orderly(m) /\ len > 0 => Finds(m, r, PAGE_ALIGN_UP(len))
<1> DEFINE l == m.list
           length == PAGE_ALIGN_UP(len)
           S == {i \in 1..Len(l) : l[i].type = VMA_UNMAP /\ l[i].end - l[i].start >= length}
           r == find_vma(m, len)
<1> SUFFICES /\ Laid(r.m) /\ SameRest(m, r.m) /\ r.addr \in Nat
             /\ Orderly(m) /\ len > 0 => Finds(m, r, length)
  BY Zenon
<1>0. m \in Manager /\ Chain(l) /\ l \in Seq(Desc) /\ Len(l) \in Nat
  BY LenProperties DEF Laid, Chain
<1>1. length \in Nat /\ (len > 0 => length > 0) /\ Aligned(length)
  BY PageUp
<1>2. r = IF S = {} THEN Placed(m, ENOMEM_64)
          ELSE LET k == Min(S)
                   start == l[k].start
               IN Placed(insert_map_area(m, start, start + length), start)
  <2>1. SelectInSeq(l, LAMBDA d : d.type = VMA_UNMAP /\ d.end - d.start >= length)
          = IF S # {} THEN Min(S) ELSE 0
    BY DEF SelectInSeq
  <2>2. S # {} => Min(S) # 0
    <3>1. S \in SUBSET Nat /\ \A i \in S : i # 0
      BY <1>0
    <3> HIDE DEF S
    <3> QED BY <3>1, MinIs
  <2> QED BY <2>1, <2>2 DEF find_vma
<1>3. CASE S = {}
  <2>1. r = [m |-> m, addr |-> 0]
    BY <1>2, <1>3 DEF Placed, ENOMEM_64
  <2> HIDE DEF r
  <2>2. r.m = m /\ r.addr = 0
    BY <2>1
  <2>3. Costs(m, m, 2)
    BY <1>0, CostsNothing
  <2>4. SameRest(m, r.m) /\ Laid(r.m) /\ r.addr \in Nat
    BY <2>2 DEF SameRest
  <2> QED BY <2>2, <2>3, <2>4 DEF Finds, ENOMEM_64
<1>4. CASE S # {}
  <2> DEFINE k == Min(S)
             start == l[k].start
             n == insert_map_area(m, start, start + length)
  <2>1. k \in S
    <3>1. S \in SUBSET Nat
      BY <1>0
    <3> HIDE DEF S
    <3> QED BY <3>1, <1>4, MinIs
  <2>2. k \in 1..Len(l) /\ l[k].type = VMA_UNMAP /\ l[k].end - l[k].start >= length
    BY <2>1
  <2>3. r = [m |-> n, addr |-> start]
    BY <1>2, <1>4 DEF Placed
  <2> HIDE DEF k, r, S
  <2>4. start \in Nat /\ l[k].end \in Nat /\ l[1].start <= start
    BY <2>2, <1>0, Between
  <2>5. start + length \in Nat /\ start <= start + length
        /\ start + length <= l[k].end
    <3> HIDE DEF start
    <3>1. l[k].end - start >= length
      BY <2>2 DEF start
    <3> QED BY <3>1, <2>4, <1>1
  <2>6. Laid(n) /\ SameRest(m, n)
    BY <2>4, <2>5, LaidMap
  <2>7. r.m = n /\ r.addr = start
    BY <2>3
  <2>8. ASSUME Orderly(m), len > 0 PROVE Finds(m, r, length)
    <3>1. Aligned(start)
      BY <2>8, <2>2 DEF Orderly, ListAligned
    <3>2. l[k].start <= start
      BY <2>4
    <3>3. /\ Inserts(m, n, start, start + length, VMA_MAP)
          /\ Orderly(n)
          /\ IsFree(m, start, length)
      <4>1. length > 0
        BY <1>1, <2>8
      <4> HIDE DEF n, length, start
      <4> QED BY <4>1, <3>1, <3>2, <2>2, <2>4, <2>5, <2>8, <1>1, TakesArea DEF n
    <3>4. start # 0
      <4>1. l[1].start = MAPPING_START
        BY DEF Laid
      <4> QED BY <4>1, <2>4, Layout
    <3> HIDE DEF n, length, start
    <3> QED BY <2>4, <2>6, <2>7, <3>3, <3>4 DEF Finds, Inserts, ENOMEM_64
  <2> HIDE DEF n
  <2> QED BY <2>4, <2>6, <2>7, <2>8
<1> QED BY <1>3, <1>4

\* What a search finds in m is found in a manager with the same areas.
LEMMA FindsFrom ==
  ASSUME NEW m \in Manager, NEW m1 \in Manager, NEW r, NEW length \in Nat,
         m1.list = m.list, m1.nfree = m.nfree, m1.ndesc = m.ndesc, m1.next = m.next,
         m1.fail = m.fail, SameRest(m, m1), Finds(m1, r, length)
  PROVE  Finds(m, r, length)
<1>1. Costs(m, m1, 0)
  BY CostsNothing
<1>2. r.m \in Manager
  BY DEF Finds, Orderly, Laid
<1>3. Costs(m1, r.m, 2)
  BY DEF Finds
<1>4. Costs(m, r.m, 0 + 2)
  BY <1>1, <1>2, <1>3, CostsAdd
<1>5. SameRest(m, r.m)
  BY DEF Finds, SameRest
<1>6. IsFree(m1, r.addr, length) => IsFree(m, r.addr, length)
  BY DEF IsFree
<1> QED BY <1>4, <1>5, <1>6 DEF Finds

\* find_vma_with_kernel_choose does, whatever the cursor is.
LEMMA LaidKernelChoose ==
  ASSUME NEW m, Laid(m), NEW len \in Nat
  PROVE  LET r == find_vma_with_kernel_choose(m, len) IN
         /\ Laid(r.m) /\ SameRest(m, r.m) /\ r.addr \in Nat
         /\ Orderly(m) /\ len > 0 => Finds(m, r, PAGE_ALIGN_UP(len))
<1> DEFINE l == m.list
           length == PAGE_ALIGN_UP(len)
           o == Owner(l, m.cursor)
           fits == {k \in o..Len(l) : /\ l[k].type = VMA_UNMAP
                                      /\ l[k].end - UsableFrom(m, l[k]) >= length}
           r == find_vma_with_kernel_choose(m, len)
<1> SUFFICES /\ Laid(r.m) /\ SameRest(m, r.m) /\ r.addr \in Nat
             /\ Orderly(m) /\ len > 0 => Finds(m, r, length)
  BY Zenon
<1>0. m \in Manager /\ Chain(l) /\ l \in Seq(Desc) /\ Len(l) \in Nat /\ m.cursor \in Nat
  BY LenProperties, ManagerFields DEF Laid, Chain
<1>1. length \in Nat /\ (len > 0 => length > 0) /\ Aligned(length)
  BY PageUp
<1>2. CASE o = 0
  <2>1. r = [m |-> Stop(m, "no owner"), addr |-> 0]
    BY <1>2 DEF find_vma_with_kernel_choose, Placed, ENOMEM_64
  <2>2. "no owner" \in Fails
    BY DEF Fails
  <2> DEFINE w == Stop(m, "no owner")
  <2>a. Laid(w) /\ w.host = m.host /\ w.shm = m.shm /\ w.nshm = m.nshm /\ w.ongoing = m.ongoing
    BY <2>2, <1>0, StopIs, LaidStop
  <2> HIDE DEF r, w
  <2>3. r.m = w /\ r.addr = 0
    BY <2>1 DEF w
  <2>4. Laid(r.m)
    BY <2>3, <2>a
  <2>5. SameRest(m, r.m) /\ r.addr \in Nat
    BY <2>a, <2>3 DEF SameRest
  <2>6. ~Orderly(m)
    <3> SUFFICES ASSUME Orderly(m) PROVE FALSE
      OBVIOUS
    <3>1. l[1].start <= m.cursor /\ m.cursor < l[Len(l)].end
      BY <1>0, Layout DEF Orderly, Laid
    <3> QED BY <3>1, <1>0, <1>2, OwnerExists
  <2> HIDE DEF l, length
  <2> QED BY <2>4, <2>5, <2>6
<1>3. CASE o # 0 /\ fits = {}
  <2> DEFINE m1 == [m EXCEPT !.eov = TRUE, !.cursor = KERNEL_CHOOSE_START_ADDR]
  <2>1. r = find_vma(m1, length)
    BY <1>3 DEF find_vma_with_kernel_choose
  <2>2. TRUE \in BOOLEAN /\ KERNEL_CHOOSE_START_ADDR \in Nat
    BY Layout
  <2>3. /\ m1 \in Manager
        /\ m1.list = l /\ m1.nfree = m.nfree /\ m1.ndesc = m.ndesc /\ m1.next = m.next
        /\ m1.cursor = KERNEL_CHOOSE_START_ADDR /\ m1.fail = m.fail
        /\ m1.shm = m.shm /\ m1.nshm = m.nshm /\ m1.ongoing = m.ongoing /\ m1.host = m.host
    BY <1>0, <2>2, WithCursor
  <2> HIDE DEF m1, r, length
  <2>4. Laid(m1)
    BY <2>3 DEF Laid
  <2>5. SameRest(m, m1)
    BY <2>3 DEF SameRest
  <2>6. /\ Laid(r.m) /\ SameRest(m1, r.m) /\ r.addr \in Nat
        /\ Orderly(m1) /\ length > 0 => Finds(m1, r, PAGE_ALIGN_UP(length))
    BY <2>1, <2>4, <1>1, LaidFindVma
  <2>7. SameRest(m, r.m)
    BY <2>5, <2>6 DEF SameRest
  <2>8. ASSUME Orderly(m), len > 0 PROVE Finds(m, r, length)
    <3>1. Orderly(m1)
      BY <2>3, <2>4, <2>8, Layout DEF Orderly
    <3>2. PAGE_ALIGN_UP(length) = length
      BY <1>1, PageUp
    <3>3. Finds(m1, r, length)
      BY <3>1, <3>2, <2>6, <2>8, <1>1
    <3> QED BY <3>3, <2>3, <2>5, <1>0, <1>1, FindsFrom
  <2> QED BY <2>6, <2>7, <2>8
<1>4. CASE o # 0 /\ fits # {}
  <2> DEFINE k == Min(fits)
             start == UsableFrom(m, l[k])
             end == start + length
             n == insert_map_area(m, start, end)
             c == AlignUp(end, FORCE_ALIGNMENT)
             q == [n EXCEPT !.cursor = c]
  <2>0. o \in 1..Len(l)
    BY <1>0, <1>4, OwnerIs
  <2>1. k \in fits
    <3>1. fits \in SUBSET Nat
      BY <1>0, <2>0
    <3> HIDE DEF fits
    <3> QED BY <3>1, <1>4, MinIs
  <2>2. k \in 1..Len(l) /\ l[k].type = VMA_UNMAP /\ l[k].end - start >= length
    BY <2>0, <2>1, <1>0
  <2>3. r = [m |-> q, addr |-> start]
    BY <1>4 DEF find_vma_with_kernel_choose, Placed
  <2> HIDE DEF k, r, fits, o
  <2>4. l[k].start \in Nat /\ l[k].end \in Nat /\ l[1].start <= l[k].start /\ l[1].start \in Nat
    BY <2>2, <1>0, Between
  <2>5. /\ start \in Nat /\ l[k].start <= start /\ m.cursor <= start
        /\ l[1].start <= start
        /\ start = l[k].start \/ start = m.cursor
    BY <2>4, <1>0 DEF UsableFrom
  <2> HIDE DEF start
  <2>6. end \in Nat /\ start <= end /\ end <= l[k].end
    BY <2>2, <2>4, <2>5, <1>1
  <2> HIDE DEF n
  <2>7. Laid(n) /\ SameRest(m, n) /\ n.cursor = m.cursor
    BY <2>5, <2>6, LaidMap DEF n
  <2>8. /\ c \in Nat /\ c % FORCE_ALIGNMENT = 0 /\ end <= c
        /\ \A b \in Nat : b % FORCE_ALIGNMENT = 0 /\ end <= b => c <= b
    BY <2>6, LayoutAssumption, AlignUpIs
  <2> HIDE DEF c, q
  <2>9. /\ q \in Manager
        /\ q.list = n.list /\ q.nfree = n.nfree /\ q.ndesc = n.ndesc /\ q.next = n.next
        /\ q.cursor = c /\ q.fail = n.fail
        /\ q.shm = n.shm /\ q.nshm = n.nshm /\ q.ongoing = n.ongoing /\ q.host = n.host
    BY <2>7, <2>8, CursorTo DEF q, Laid
  <2>10. Laid(q) /\ SameRest(m, q)
    BY <2>7, <2>9 DEF Laid, SameRest
  <2>11. r.m = q /\ r.addr = start
    BY <2>3
  <2>12. ASSUME Orderly(m), len > 0 PROVE Finds(m, r, length)
    <3>1. Aligned(start)
      BY <2>12, <2>2, <2>5 DEF Orderly, ListAligned
    <3>2. length > 0
      BY <1>1, <2>12
    <3> HIDE DEF length
    <3>3. /\ Inserts(m, n, start, end, VMA_MAP)
          /\ Orderly(n)
          /\ IsFree(m, start, length)
      BY <3>1, <3>2, <2>2, <2>5, <2>6, <2>12, <1>1, TakesArea DEF n
    <3>4. start # 0
      BY <2>5, Layout DEF Laid
    <3>5. end <= MAPPING_RESERVE_IN_SIGNAL_START
      BY <3>3 DEF IsFree
    <3>6. c <= MAPPING_RESERVE_IN_SIGNAL_START
      <4>1. MAPPING_RESERVE_IN_SIGNAL_START % FORCE_ALIGNMENT = 0
            /\ MAPPING_RESERVE_IN_SIGNAL_START \in Nat
        BY LayoutAssumption
      <4> QED BY <4>1, <3>5, <2>8
    <3>7. Aligned(c)
      BY <2>8, ForceAlignedIsPage DEF Aligned
    <3>8. KERNEL_CHOOSE_START_ADDR <= c
      <4>1. KERNEL_CHOOSE_START_ADDR <= m.cursor
        BY <2>12 DEF Orderly
      <4> QED BY <4>1, <2>5, <2>6, <2>8, <1>0, Layout
    <3>9. Orderly(q)
      BY <3>3, <3>6, <3>7, <3>8, <2>9, <2>10 DEF Orderly
    <3>10. Costs(m, q, 2)
      <4>1. Costs(m, n, 2) /\ n \in Manager
        BY <3>3 DEF Inserts
      <4>2. Costs(n, q, 0)
        BY <4>1, <2>9, CostsNothing
      <4>3. Costs(m, q, 2 + 0)
        BY <4>1, <4>2, <2>9, <1>0, CostsAdd
      <4> QED BY <4>3
    <3>11. Painted(l, q.list, start, start + length, VMA_MAP)
      BY <3>3, <2>9 DEF Inserts
    <3> HIDE DEF end
    <3> QED BY <2>5, <2>10, <2>11, <3>3, <3>4, <3>9, <3>10, <3>11 DEF Finds, ENOMEM_64
  <2> QED BY <2>5, <2>10, <2>11, <2>12
<1> QED BY <1>2, <1>3, <1>4

\* find_vma_with_hint does, whatever the hint is.
LEMMA LaidHint ==
  ASSUME NEW m, Laid(m), NEW len \in Nat, NEW hint \in Nat
  PROVE  LET r == find_vma_with_hint(m, len, hint) IN
         /\ Laid(r.m) /\ SameRest(m, r.m) /\ r.addr \in Nat
         /\ Orderly(m) /\ len > 0 => Finds(m, r, PAGE_ALIGN_UP(len))
<1> DEFINE l == m.list
           length == PAGE_ALIGN_UP(len)
           start == PAGE_ALIGN_DOWN(hint)
           end == PAGE_ALIGN_UP(start + length)
           o == Owner(l, start)
           r == find_vma_with_hint(m, len, hint)
<1> SUFFICES /\ Laid(r.m) /\ SameRest(m, r.m) /\ r.addr \in Nat
             /\ Orderly(m) /\ len > 0 => Finds(m, r, length)
  BY Zenon
<1>0. m \in Manager /\ Chain(l) /\ l \in Seq(Desc) /\ Len(l) \in Nat
  BY LenProperties DEF Laid, Chain
<1>1. length \in Nat /\ (len > 0 => length > 0) /\ Aligned(length)
  BY PageUp
<1>2. start \in Nat /\ Aligned(start)
  BY AlignDownIs DEF Aligned
<1>r. r = IF o # 0 /\ l[o].type = VMA_UNMAP /\ end <= l[o].end
          THEN Placed(insert_map_area(m, start, end), start)
          ELSE find_vma(m, length)
  BY DEF find_vma_with_hint
<1> HIDE DEF start, r, length, o
<1>3. start + length \in Nat /\ Aligned(start + length)
  BY <1>1, <1>2, PageSum
<1>4. end = start + length
  BY <1>3, PageUp
<1> HIDE DEF end
<1>5. CASE o # 0 /\ l[o].type = VMA_UNMAP /\ end <= l[o].end
  <2> DEFINE n == insert_map_area(m, start, end)
  <2>1. r = [m |-> n, addr |-> start]
    BY <1>5, <1>r DEF Placed
  <2>2. o \in 1..Len(l) /\ l[o].start <= start
    BY <1>0, <1>2, <1>5, OwnerIs DEF o
  <2>3. l[o].start \in Nat /\ l[1].start <= l[o].start /\ l[1].start \in Nat
    BY <1>0, <2>2, Between
  <2>4. end \in Nat /\ start <= end
    BY <1>1, <1>2, <1>4
  <2>5. Laid(n) /\ SameRest(m, n)
    BY <2>4, <1>2, LaidMap
  <2> HIDE DEF n
  <2>6. r.m = n /\ r.addr = start
    BY <2>1
  <2>7. ASSUME Orderly(m), len > 0 PROVE Finds(m, r, length)
    <3>1. length > 0 /\ start + length <= l[o].end
      BY <1>1, <1>4, <1>5, <2>7
    <3>2. /\ Inserts(m, n, start, start + length, VMA_MAP)
          /\ Orderly(n)
          /\ IsFree(m, start, length)
      BY <3>1, <2>2, <2>7, <1>1, <1>2, <1>4, <1>5, TakesArea DEF n
    <3>3. start # 0
      BY <2>2, <2>3, <1>2, Layout DEF Laid
    <3> QED BY <2>5, <2>6, <3>2, <3>3, <1>2 DEF Finds, Inserts, ENOMEM_64
  <2> QED BY <2>5, <2>6, <2>7, <1>2
<1>6. CASE ~(o # 0 /\ l[o].type = VMA_UNMAP /\ end <= l[o].end)
  <2>1. r = find_vma(m, length)
    BY <1>6, <1>r
  <2>2. PAGE_ALIGN_UP(length) = length
    BY <1>1, PageUp
  <2>3. /\ Laid(r.m) /\ SameRest(m, r.m) /\ r.addr \in Nat
        /\ Orderly(m) /\ length > 0 => Finds(m, r, length)
    BY <2>1, <2>2, <1>1, LaidFindVma
  <2> QED BY <2>3, <1>1
<1> QED BY <1>5, <1>6

-----------------------------------------------------------------------------
(* The lists of segments and of pending unmaps.                            *)

\* A sequence with one element less.
LEMMA RemoveAtIs ==
  ASSUME NEW S, NEW s \in Seq(S), NEW k \in 1..Len(s)
  PROVE  LET r == RemoveAt(s, k) IN
         /\ r \in Seq(S) /\ Len(r) = Len(s) - 1 /\ Len(s) \in Nat
         /\ \A i \in 1..Len(r) : r[i] = s[IF i < k THEN i ELSE i + 1]
<1> DEFINE a == SubSeq(s, 1, k - 1)
           b == SubSeq(s, k + 1, Len(s))
           r == RemoveAt(s, k)
<1>0. Len(s) \in Nat /\ k \in Nat /\ k >= 1 /\ k <= Len(s)
  BY LenProperties
<1>1. \A i \in 1..Len(s) : s[i] \in S
  BY ElementOfSeq
<1>2. /\ a \in Seq(S) /\ Len(a) = k - 1
      /\ \A i \in 1..(k - 1) : a[i] = s[i]
  <2>1. \A i \in 1..(k - 1) : s[i] \in S
    BY <1>0, <1>1
  <2>2. /\ SubSeq(s, 1, k - 1) \in Seq(S)
        /\ Len(SubSeq(s, 1, k - 1)) = IF 1 <= k - 1 THEN (k - 1) - 1 + 1 ELSE 0
        /\ \A i \in 1..((k - 1) - 1 + 1) : SubSeq(s, 1, k - 1)[i] = s[1 + i - 1]
    BY <1>0, <2>1, SubSeqProperties
  <2> QED BY <2>2, <1>0
<1>3. /\ b \in Seq(S) /\ Len(b) = Len(s) - k
      /\ \A i \in 1..(Len(s) - k) : b[i] = s[k + i]
  <2>1. \A i \in (k + 1)..Len(s) : s[i] \in S
    BY <1>0, <1>1
  <2>2. /\ SubSeq(s, k + 1, Len(s)) \in Seq(S)
        /\ Len(SubSeq(s, k + 1, Len(s))) = IF k + 1 <= Len(s) THEN Len(s) - (k + 1) + 1 ELSE 0
        /\ \A i \in 1..(Len(s) - (k + 1) + 1) : SubSeq(s, k + 1, Len(s))[i] = s[(k + 1) + i - 1]
    BY <1>0, <2>1, SubSeqProperties
  <2> QED BY <2>2, <1>0
<1> HIDE DEF a, b
<1>4. r = a \o b
  BY DEF RemoveAt, a, b
<1>5. /\ a \o b \in Seq(S) /\ Len(a \o b) = Len(a) + Len(b)
      /\ \A i \in 1..(Len(a) + Len(b)) :
           (a \o b)[i] = IF i <= Len(a) THEN a[i] ELSE b[i - Len(a)]
  BY <1>2, <1>3, ConcatProperties
<1> HIDE DEF r
<1>6. Len(r) = Len(s) - 1
  BY <1>0, <1>2, <1>3, <1>4, <1>5
<1>7. ASSUME NEW i \in 1..Len(r) PROVE r[i] = s[IF i < k THEN i ELSE i + 1]
  <2>0. i \in Nat /\ 1 <= i /\ i <= Len(s) - 1
    BY <1>0, <1>6
  <2>1. r[i] = IF i <= k - 1 THEN a[i] ELSE b[i - (k - 1)]
    BY <1>2, <1>3, <1>4, <1>5, <1>6, <1>0, <2>0
  <2>2. CASE i < k
    BY <2>0, <2>1, <2>2, <1>0, <1>2
  <2>3. CASE ~(i < k)
    <3>1. i - (k - 1) \in 1..(Len(s) - k) /\ k + (i - (k - 1)) = i + 1 /\ ~(i <= k - 1)
      BY <2>0, <2>3, <1>0
    <3>2. b[i - (k - 1)] = s[k + (i - (k - 1))]
      BY <3>1, <1>3
    <3> QED BY <2>1, <2>3, <3>1, <3>2
  <2> QED BY <2>2, <2>3
<1> QED BY <1>0, <1>4, <1>5, <1>6, <1>7 DEF r

\* A sequence with a new head.
LEMMA ConsIs ==
  ASSUME NEW S, NEW s \in Seq(S), NEW e \in S
  PROVE  LET r == <<e>> \o s IN
         /\ r \in Seq(S) /\ Len(r) = Len(s) + 1 /\ Len(s) \in Nat
         /\ r[1] = e
         /\ \A i \in 1..Len(r) : i # 1 => i - 1 \in 1..Len(s) /\ r[i] = s[i - 1]
<1>0. Len(s) \in Nat
  BY LenProperties
<1>1. <<e>> \in Seq(S) /\ Len(<<e>>) = 1 /\ <<e>>[1] = e
  OBVIOUS
<1>2. /\ <<e>> \o s \in Seq(S) /\ Len(<<e>> \o s) = Len(<<e>>) + Len(s)
      /\ \A i \in 1..(Len(<<e>>) + Len(s)) :
           (<<e>> \o s)[i] = IF i <= Len(<<e>>) THEN <<e>>[i] ELSE s[i - Len(<<e>>)]
  BY <1>1, ConcatProperties
<1> DEFINE r == <<e>> \o s
           o == <<e>>
<1> HIDE DEF r, o
<1>3. /\ r \in Seq(S) /\ Len(r) = Len(o) + Len(s) /\ Len(o) = 1 /\ o[1] = e
      /\ \A i \in 1..(Len(o) + Len(s)) : r[i] = IF i <= Len(o) THEN o[i] ELSE s[i - Len(o)]
  BY <1>1, <1>2 DEF r, o
<1>4. /\ Len(r) = Len(s) + 1 /\ r[1] = e
      /\ \A i \in 1..Len(r) : i # 1 => i - 1 \in 1..Len(s) /\ r[i] = s[i - 1]
  BY <1>0, <1>3
<1> QED BY <1>0, <1>3, <1>4 DEF r

\* The entries left stay in order.
LEMMA OrderedRemove ==
  ASSUME NEW S, NEW s \in Seq(S), NEW k \in 1..Len(s), Ordered(s)
  PROVE  Ordered(RemoveAt(s, k))
<1> DEFINE r == RemoveAt(s, k)
<1>1. /\ Len(r) = Len(s) - 1 /\ Len(s) \in Nat
      /\ \A i \in 1..Len(r) : r[i] = s[IF i < k THEN i ELSE i + 1]
  BY RemoveAtIs
<1> HIDE DEF r
<1>2. ASSUME NEW i \in 1..Len(r) PROVE r[i].start <= r[i].end
  <2> DEFINE j == IF i < k THEN i ELSE i + 1
  <2>1. j \in 1..Len(s)
    BY <1>1
  <2>2. r[i] = s[j]
    BY <1>1
  <2> HIDE DEF j
  <2> QED BY <2>1, <2>2 DEF Ordered
<1> QED BY <1>2 DEF Ordered, r

\* A new entry in order.
LEMMA OrderedCons ==
  ASSUME NEW S, NEW s \in Seq(S), NEW e \in S, Ordered(s), e.start <= e.end
  PROVE  Ordered(<<e>> \o s)
<1> DEFINE r == <<e>> \o s
<1>1. /\ r[1] = e
      /\ \A i \in 1..Len(r) : i # 1 => i - 1 \in 1..Len(s) /\ r[i] = s[i - 1]
  BY ConsIs
<1> HIDE DEF r
<1>2. ASSUME NEW i \in 1..Len(r) PROVE r[i].start <= r[i].end
  <2>1. CASE i = 1
    BY <2>1, <1>1
  <2>2. CASE i # 1
    <3>1. i - 1 \in 1..Len(s) /\ r[i] = s[i - 1]
      BY <2>2, <1>1
    <3>2. s[i - 1].start <= s[i - 1].end
      BY <3>1 DEF Ordered
    <3> QED BY <3>1, <3>2
  <2> QED BY <2>1, <2>2
<1> QED BY <1>2 DEF Ordered, r

\* A manager with another list of pending unmaps.
LEMMA WithOngoing ==
  ASSUME NEW m \in Manager, NEW o \in Seq(OngoingEntry)
  PROVE  LET n == [m EXCEPT !.ongoing = o] IN
         /\ n \in Manager
         /\ n.list = m.list /\ n.nfree = m.nfree /\ n.ndesc = m.ndesc /\ n.next = m.next
         /\ n.cursor = m.cursor /\ n.eov = m.eov /\ n.fail = m.fail
         /\ n.shm = m.shm /\ n.nshm = m.nshm /\ n.ongoing = o /\ n.host = m.host
BY DEF Manager

\* A manager with a new page in reserve.
LEMMA WithNext ==
  ASSUME NEW m \in Manager
  PROVE  LET n == [m EXCEPT !.next = TRUE] IN
         /\ n \in Manager
         /\ n.list = m.list /\ n.nfree = m.nfree /\ n.ndesc = m.ndesc /\ n.next
         /\ n.cursor = m.cursor /\ n.eov = m.eov /\ n.fail = m.fail
         /\ n.shm = m.shm /\ n.nshm = m.nshm /\ n.ongoing = m.ongoing /\ n.host = m.host
<1> DEFINE n == [m EXCEPT !.next = TRUE]
<1>1. /\ n \in Manager
      /\ n.list = m.list /\ n.nfree = m.nfree /\ n.ndesc = m.ndesc
      /\ n.cursor = m.cursor /\ n.eov = m.eov /\ n.fail = m.fail
      /\ n.shm = m.shm /\ n.nshm = m.nshm /\ n.ongoing = m.ongoing /\ n.host = m.host
  BY DEF Manager
<1>2. n.next
  BY DEF Manager
<1> QED BY <1>1, <1>2

-----------------------------------------------------------------------------
(* Every operation keeps the list a partition.                             *)

\* What a page may hold.
LEMMA ContentsAre ==
  /\ "free" \in Contents /\ "guest" \in Contents /\ "shm" \in Contents /\ "umeq" \in Contents
  /\ Threads \subseteq Contents
BY DEF Contents

\* The layout after the second half of internal_mmap.
LEMMA LaidMmapPlaced ==
  ASSUME NEW r, Laid(r.m), r.addr \in Nat, NEW len \in Nat, NEW what \in Contents,
         NEW ok \in BOOLEAN
  PROVE  Laid(MmapPlaced(r, len, what, ok))
<1>1. /\ r.addr + len \in Nat /\ r.addr <= PAGE_ALIGN_UP(r.addr + len)
      /\ PAGE_ALIGN_UP(r.addr + len) \in Nat
  <2>1. r.addr + len \in Nat /\ r.addr <= r.addr + len
    OBVIOUS
  <2>2. PAGE_ALIGN_UP(r.addr + len) \in Nat /\ r.addr + len <= PAGE_ALIGN_UP(r.addr + len)
    BY <2>1, PageUp
  <2> QED BY <2>1, <2>2
<1>2. Laid(SetHost(r.m, PagesOf(r.addr, len), what))
  BY LaidSetHost
<1>3. Laid(insert_unmap_area(r.m, r.addr, PAGE_ALIGN_UP(r.addr + len)))
  BY <1>1, LaidMap
<1> QED BY <1>2, <1>3 DEF MmapPlaced

\* The layout after umeq has mapped a page for itself.
LEMMA LaidOwnPage ==
  ASSUME NEW m, Laid(m)
  PROVE  Laid(OwnPage(m))
<1> DEFINE r == find_vma_with_kernel_choose(m, PAGE_SIZE)
<1>1. Laid(r.m) /\ r.addr \in Nat
  BY Layout, LaidKernelChoose
<1>2. OwnPage(m) = IF r.addr = ENOMEM_64 THEN Stop(r.m, "no room")
                   ELSE MmapPlaced(r, PAGE_SIZE, "umeq", TRUE)
  BY DEF OwnPage
<1> HIDE DEF r
<1>3. Laid(Stop(r.m, "no room"))
  BY <1>1, LaidStop DEF Fails
<1>4. Laid(MmapPlaced(r, PAGE_SIZE, "umeq", TRUE))
  <2>1. "umeq" \in Contents /\ TRUE \in BOOLEAN /\ PAGE_SIZE \in Nat
    BY ContentsAre, Layout
  <2> QED BY <1>1, <2>1, LaidMmapPlaced
<1> QED BY <1>2, <1>3, <1>4

\* The layout after allocate_more_desc_memory.
LEMMA LaidAllocate ==
  ASSUME NEW m, Laid(m)
  PROVE  Laid(allocate_more_desc_memory(m))
<1> DEFINE p == OwnPage(m)
           n == allocate_more_desc_memory(m)
<1>1. Laid(p)
  BY LaidOwnPage
<1>2. n = [p EXCEPT !.next = TRUE]
  BY DEF allocate_more_desc_memory
<1> HIDE DEF p, n
<1>3. /\ n \in Manager /\ n.list = p.list /\ n.shm = p.shm /\ n.ongoing = p.ongoing
  BY <1>1, <1>2, WithNext DEF Laid
<1>4. Laid(n)
  BY <1>1, <1>3 DEF Laid
<1> QED BY <1>4 DEF n

\* The layout after a turn of collect_ongoing_unmap.
LEMMA LaidCollect ==
  ASSUME NEW m, Laid(m), NEW k \in 1..Len(m.ongoing)
  PROVE  Laid(Collect(m, k))
<1> DEFINE d == m.ongoing[k]
           h == SetHost(m, PagesOf(d.start, d.end - d.start), "free")
           o == RemoveAt(h.ongoing, k)
           h1 == [h EXCEPT !.ongoing = o]
           u == insert_unmap_area(h1, d.start, d.end)
           n == Collect(m, k)
<1>0. m \in Manager /\ m.ongoing \in Seq(OngoingEntry) /\ Ordered(m.ongoing)
  BY ManagerFields DEF Laid
<1>1. d.start \in Nat /\ d.end \in Nat /\ d.start <= d.end
  <2>1. d \in OngoingEntry
    BY <1>0, ElementOfSeq
  <2> QED BY <2>1, <1>0 DEF OngoingEntry, Ordered
<1>2. h \in Manager /\ Laid(h) /\ h.ongoing = m.ongoing
  BY <1>0, ContentsAre, SetHostIs, LaidSetHost
<1>3. n = free_descs(u, 1)
  BY DEF Collect
<1> HIDE DEF h, n, d
<1>4. o \in Seq(OngoingEntry) /\ Ordered(o)
  BY <1>0, <1>2, RemoveAtIs, OrderedRemove
<1> HIDE DEF o
<1>5. /\ h1 \in Manager /\ h1.list = h.list /\ h1.shm = h.shm /\ h1.ongoing = o
  BY <1>2, <1>4, WithOngoing
<1> HIDE DEF h1
<1>6. Laid(h1)
  BY <1>2, <1>4, <1>5 DEF Laid
<1>7. Laid(u) /\ u \in Manager
  BY <1>1, <1>6, LaidMap DEF Laid
<1> HIDE DEF u
<1>8. /\ n \in Manager /\ n.list = u.list /\ n.shm = u.shm /\ n.ongoing = u.ongoing
  BY <1>3, <1>7, FreeDescs
<1>9. Laid(n)
  BY <1>7, <1>8 DEF Laid
<1> QED BY <1>9 DEF n

\* The layout after internal_munmap_ongoing.
LEMMA LaidOngoing ==
  ASSUME NEW m, Laid(m), NEW t \in Threads, NEW start \in Nat, NEW len \in Nat
  PROVE  Laid(internal_munmap_ongoing(m, t, start, len))
<1> DEFINE g == get_free_desc(m)
           end == PAGE_ALIGN_UP(start + len)
           e == [by |-> t, start |-> start, end |-> end, done |-> FALSE]
           o == <<e>> \o g.ongoing
           n == internal_munmap_ongoing(m, t, start, len)
<1>0. m \in Manager /\ m.ongoing \in Seq(OngoingEntry) /\ Ordered(m.ongoing)
  BY ManagerFields DEF Laid
<1>1. end \in Nat /\ start <= end
  <2>1. start + len \in Nat /\ start <= start + len
    OBVIOUS
  <2>2. end \in Nat /\ start + len <= end
    BY <2>1, PageUp
  <2> HIDE DEF end
  <2> QED BY <2>1, <2>2
<1>2. g \in Manager /\ g.list = m.list /\ g.shm = m.shm /\ g.ongoing = m.ongoing
  BY <1>0, GetFreeDesc DEF SameRest
<1>3. n = [g EXCEPT !.ongoing = o]
  BY DEF internal_munmap_ongoing
<1> HIDE DEF g, end, n
<1>4. e \in OngoingEntry /\ e.start <= e.end
  BY <1>1 DEF OngoingEntry
<1> HIDE DEF e
<1>5. o \in Seq(OngoingEntry) /\ Ordered(o)
  BY <1>0, <1>2, <1>4, ConsIs, OrderedCons
<1> HIDE DEF o
<1>6. /\ n \in Manager /\ n.list = g.list /\ n.shm = g.shm /\ n.ongoing = o
  BY <1>2, <1>3, <1>5, WithOngoing
<1>7. Laid(n)
  BY <1>2, <1>5, <1>6 DEF Laid
<1> QED BY <1>7 DEF n

\* The end of a range, and its rounded end.
LEMMA RangeUp ==
  ASSUME NEW a \in Nat, NEW len \in Nat
  PROVE  /\ a + len \in Nat /\ PAGE_ALIGN_UP(a + len) \in Nat
         /\ a <= PAGE_ALIGN_UP(a + len)
         /\ a + len <= PAGE_ALIGN_UP(a + len)
<1>1. a + len \in Nat /\ a <= a + len
  OBVIOUS
<1>2. PAGE_ALIGN_UP(a + len) \in Nat /\ a + len <= PAGE_ALIGN_UP(a + len)
  BY <1>1, PageUp
<1> QED BY <1>1, <1>2

\* The layout after an mmap with MAP_FIXED.
LEMMA LaidMmapFixed ==
  ASSUME NEW m, Laid(m), NEW addr \in Nat, NEW len \in Nat, NEW ok \in BOOLEAN
  PROVE  Laid(MmapFixed(m, addr, len, ok))
<1> DEFINE h == SetHost(m, PagesOf(addr, len), "guest")
<1>1. Laid(h)
  BY LaidSetHost, ContentsAre
<1> HIDE DEF h
<1>2. Laid(insert_map_area(h, addr, PAGE_ALIGN_UP(addr + len)))
  BY <1>1, RangeUp, LaidMap
<1> QED BY <1>2 DEF MmapFixed, h

\* The layout after a munmap.
LEMMA LaidMunmap ==
  ASSUME NEW m, Laid(m), NEW addr \in Nat, NEW len \in Nat
  PROVE  Laid(internal_munmap(m, addr, len))
<1> DEFINE h == SetHost(m, PagesOf(addr, len), "free")
<1>1. Laid(h)
  BY LaidSetHost, ContentsAre
<1> HIDE DEF h
<1>2. Laid(insert_unmap_area(h, addr, PAGE_ALIGN_UP(addr + len)))
  BY <1>1, RangeUp, LaidMap
<1> QED BY <1>2 DEF internal_munmap, h

\* The layout after the kernel's part of mremap.
LEMMA LaidHostRemap ==
  ASSUME NEW m, Laid(m), NEW old, NEW oldlen, NEW new, NEW newlen
  PROVE  Laid(HostRemap(m, old, oldlen, new, newlen))
BY LaidSetHost, ContentsAre DEF HostRemap

\* The layout after an mremap to an address.
LEMMA LaidRemapFixed ==
  ASSUME NEW m, Laid(m), NEW old \in Nat, NEW oldlen \in Nat, NEW new \in Nat, NEW newlen \in Nat
  PROVE  Laid(RemapFixed(m, old, oldlen, new, newlen))
<1> DEFINE h == HostRemap(m, old, oldlen, new, newlen)
           u == insert_unmap_area(h, old, PAGE_ALIGN_UP(old + oldlen))
<1>1. Laid(h)
  BY LaidHostRemap
<1> HIDE DEF h
<1>2. Laid(u)
  BY <1>1, RangeUp, LaidMap
<1> HIDE DEF u
<1>3. Laid(insert_map_area(u, new, PAGE_ALIGN_UP(new + newlen)))
  BY <1>2, RangeUp, LaidMap
<1> QED BY <1>3 DEF RemapFixed, h, u

\* The layout after an mremap to a smaller size.
LEMMA LaidRemapShrink ==
  ASSUME NEW m, Laid(m), NEW old \in Nat, NEW oldlen \in Nat, NEW newlen \in Nat,
         PAGE_ALIGN_UP(newlen) <= PAGE_ALIGN_UP(oldlen)
  PROVE  Laid(RemapShrink(m, old, oldlen, newlen))
<1> DEFINE h == HostRemap(m, old, oldlen, old, newlen)
           a == old + PAGE_ALIGN_UP(newlen)
           b == old + PAGE_ALIGN_UP(oldlen)
<1>1. Laid(h)
  BY LaidHostRemap
<1> HIDE DEF h
<1>2. a \in Nat /\ b \in Nat /\ a <= b
  <2>1. PAGE_ALIGN_UP(newlen) \in Nat /\ PAGE_ALIGN_UP(oldlen) \in Nat
    BY PageUp
  <2> QED BY <2>1
<1> HIDE DEF a, b
<1>3. Laid(insert_unmap_area(h, a, b))
  BY <1>1, <1>2, LaidMap
<1> QED BY <1>1, <1>3 DEF RemapShrink, h, a, b

\* The layout after an mremap that grows in place.
LEMMA LaidRemapGrow ==
  ASSUME NEW m, Laid(m), NEW old \in Nat, NEW oldlen \in Nat, NEW newlen \in Nat,
         PAGE_ALIGN_UP(newlen) > PAGE_ALIGN_UP(oldlen)
  PROVE  Laid(RemapGrow(m, old, oldlen, newlen))
<1> DEFINE h == HostRemap(m, old, oldlen, old, newlen)
           a == old + PAGE_ALIGN_UP(oldlen)
           b == old + PAGE_ALIGN_UP(newlen)
<1>1. Laid(h)
  BY LaidHostRemap
<1> HIDE DEF h
<1>2. a \in Nat /\ b \in Nat /\ a <= b
  <2>1. PAGE_ALIGN_UP(newlen) \in Nat /\ PAGE_ALIGN_UP(oldlen) \in Nat
    BY PageUp
  <2> QED BY <2>1
<1> HIDE DEF a, b
<1>3. Laid(insert_map_area(h, a, b))
  BY <1>1, <1>2, LaidMap
<1> QED BY <1>1, <1>3 DEF RemapGrow, h, a, b

\* The layout after an mremap that moves.
LEMMA LaidRemapMove ==
  ASSUME NEW m, Laid(m), NEW old \in Nat, NEW oldlen \in Nat, NEW newlen \in Nat,
         NEW ok \in BOOLEAN
  PROVE  Laid(RemapMove(m, old, oldlen, newlen, ok))
<1> DEFINE r == find_vma_with_kernel_choose(m, newlen)
           h == HostRemap(r.m, old, oldlen, r.addr, newlen)
           n == RemapMove(m, old, oldlen, newlen, ok)
<1>1. Laid(r.m) /\ r.addr \in Nat
  BY LaidKernelChoose
<1>2. n = IF r.addr = ENOMEM_64 THEN r.m
          ELSE IF ok THEN insert_unmap_area(h, old, old + oldlen)
          ELSE insert_unmap_area(r.m, r.addr, r.addr + PAGE_ALIGN_UP(newlen))
  BY DEF RemapMove
<1> HIDE DEF r, n
<1>3. Laid(h)
  BY <1>1, LaidHostRemap
<1> HIDE DEF h
<1>4. Laid(insert_unmap_area(h, old, old + oldlen))
  <2>1. old + oldlen \in Nat /\ old <= old + oldlen
    OBVIOUS
  <2> QED BY <2>1, <1>3, LaidMap
<1>5. Laid(insert_unmap_area(r.m, r.addr, r.addr + PAGE_ALIGN_UP(newlen)))
  <2> DEFINE e == r.addr + PAGE_ALIGN_UP(newlen)
  <2>1. PAGE_ALIGN_UP(newlen) \in Nat
    BY PageUp
  <2>2. e \in Nat /\ r.addr <= e
    BY <1>1, <2>1
  <2> HIDE DEF e
  <2>3. Laid(insert_unmap_area(r.m, r.addr, e))
    BY <1>1, <2>2, LaidMap
  <2> QED BY <2>3 DEF e
<1>6. Laid(n)
  BY <1>1, <1>2, <1>4, <1>5
<1> QED BY <1>6 DEF n

\* shm_insert, on a manager that has descriptors for segments or not.
LEMMA LaidShmInsert ==
  ASSUME NEW m, Laid(m), NEW start \in Nat, NEW end \in Nat, start <= end
  PROVE  Laid(shm_insert(m, start, end))
<1> DEFINE w == OwnPage(m)
           p == IF m.nshm > 0 THEN m ELSE [w EXCEPT !.nshm = SHMAT_DESC_PER_PAGE]
           e == [start |-> start, end |-> end]
           s == <<e>> \o p.shm
           x == p.nshm - 1
           n == shm_insert(m, start, end)
<1>0. m \in Manager /\ m.nshm \in Nat
  BY ManagerFields DEF Laid
<1>1. Laid(w) /\ w \in Manager
  BY LaidOwnPage DEF Laid
<1>2. n = [p EXCEPT !.nshm = x, !.shm = s]
  BY DEF shm_insert
<1> HIDE DEF w, n
<1>3. Laid(p) /\ p.nshm \in Nat /\ p.nshm > 0
  <2>1. CASE m.nshm > 0
    BY <2>1, <1>0
  <2>2. CASE ~(m.nshm > 0)
    <3> DEFINE q == [w EXCEPT !.nshm = SHMAT_DESC_PER_PAGE]
    <3>1. p = q
      BY <2>2
    <3>2. SHMAT_DESC_PER_PAGE \in Nat /\ SHMAT_DESC_PER_PAGE > 0
      BY ShmDescAssumption
    <3>3. /\ q \in Manager /\ q.list = w.list /\ q.shm = w.shm /\ q.ongoing = w.ongoing
          /\ q.nshm = SHMAT_DESC_PER_PAGE
      BY <1>1, <3>2 DEF Manager
    <3> HIDE DEF p, q
    <3>4. Laid(q)
      BY <1>1, <3>3 DEF Laid
    <3> QED BY <3>1, <3>2, <3>3, <3>4
  <2> QED BY <2>1, <2>2
<1> HIDE DEF p
<1>4. e \in ShmEntry /\ e.start <= e.end
  BY DEF ShmEntry
<1> HIDE DEF e
<1>5. p \in Manager /\ p.shm \in Seq(ShmEntry) /\ Ordered(p.shm)
  BY <1>3, ManagerFields DEF Laid
<1>6. s \in Seq(ShmEntry) /\ Ordered(s) /\ x \in Nat
  BY <1>3, <1>4, <1>5, ConsIs, OrderedCons
<1> HIDE DEF s, x
<1>7. /\ n \in Manager /\ n.list = p.list /\ n.shm = s /\ n.ongoing = p.ongoing
  BY <1>2, <1>5, <1>6 DEF Manager
<1>8. Laid(n)
  BY <1>3, <1>6, <1>7 DEF Laid
<1> QED BY <1>8 DEF n

\* The layout after a shmat.
LEMMA LaidShmat ==
  ASSUME NEW m, Laid(m), NEW addr \in Nat, NEW len \in Nat, NEW ok \in BOOLEAN
  PROVE  Laid(internal_shmat(m, addr, len, ok))
<1> DEFINE length == PAGE_ALIGN_UP(len)
           start == PAGE_ALIGN_DOWN(addr)
           r == IF addr = 0 THEN find_vma_with_kernel_choose(m, length)
                ELSE Placed(insert_map_area(m, start, start + length), start)
           e == r.addr + length
           h == SetHost(r.m, PagesOf(r.addr, len), "shm")
           n == internal_shmat(m, addr, len, ok)
<1>1. length \in Nat
  BY PageUp
<1>2. start \in Nat
  BY AlignDownIs
<1>3. n = IF r.addr = ENOMEM_64 THEN r.m
          ELSE IF ok THEN shm_insert(h, r.addr, e)
          ELSE insert_unmap_area(r.m, r.addr, e)
  BY DEF internal_shmat
<1> HIDE DEF n, length, start
<1>4. Laid(r.m) /\ r.addr \in Nat
  <2>1. CASE addr = 0
    BY <2>1, <1>1, LaidKernelChoose
  <2>2. CASE addr # 0
    <3> DEFINE i == insert_map_area(m, start, start + length)
    <3>1. start + length \in Nat /\ start <= start + length
      BY <1>1, <1>2
    <3>2. Laid(i)
      BY <3>1, <1>2, LaidMap
    <3>3. r = [m |-> i, addr |-> start]
      BY <2>2 DEF Placed
    <3> HIDE DEF i, r
    <3> QED BY <3>2, <3>3, <1>2
  <2> QED BY <2>1, <2>2
<1> HIDE DEF r
<1>5. e \in Nat /\ r.addr <= e
  BY <1>1, <1>4
<1> HIDE DEF e
<1>6. Laid(h)
  BY <1>4, LaidSetHost, ContentsAre
<1> HIDE DEF h
<1>7. Laid(shm_insert(h, r.addr, e)) /\ Laid(insert_unmap_area(r.m, r.addr, e))
  BY <1>4, <1>5, <1>6, LaidShmInsert, LaidMap
<1>8. Laid(n)
  BY <1>3, <1>4, <1>7
<1> QED BY <1>8 DEF n

\* The layout after a shmdt.
LEMMA LaidShmRemove ==
  ASSUME NEW m, Laid(m), NEW k \in 1..Len(m.shm)
  PROVE  Laid(shm_remove(m, k))
<1> DEFINE d == m.shm[k]
           h == SetHost(m, {p \in PagesOf(d.start, d.end - d.start) : m.host[p] = "shm"}, "free")
           u == insert_unmap_area(h, d.start, d.end)
           s == RemoveAt(u.shm, k)
           x == u.nshm + 1
           n == shm_remove(m, k)
<1>0. m \in Manager /\ m.shm \in Seq(ShmEntry) /\ Ordered(m.shm)
  BY ManagerFields DEF Laid
<1>1. d.start \in Nat /\ d.end \in Nat /\ d.start <= d.end
  <2>1. d \in ShmEntry
    BY <1>0, ElementOfSeq
  <2> QED BY <2>1, <1>0 DEF ShmEntry, Ordered
<1>2. h \in Manager /\ Laid(h) /\ h.shm = m.shm
  BY <1>0, ContentsAre, SetHostIs, LaidSetHost
<1>3. n = [u EXCEPT !.nshm = x, !.shm = s]
  BY DEF shm_remove
<1> HIDE DEF h, n, d
<1>4. Laid(u) /\ u \in Manager /\ SameRest(h, u)
  BY <1>1, <1>2, LaidMap DEF Laid
<1>5. u.shm = m.shm /\ u.nshm \in Nat
  BY <1>2, <1>4, ManagerFields DEF SameRest
<1> HIDE DEF u
<1>6. s \in Seq(ShmEntry) /\ Ordered(s) /\ x \in Nat
  BY <1>0, <1>5, RemoveAtIs, OrderedRemove
<1> HIDE DEF s, x
<1>7. /\ n \in Manager /\ n.list = u.list /\ n.shm = s /\ n.ongoing = u.ongoing
  BY <1>3, <1>4, <1>6 DEF Manager
<1>8. Laid(n)
  BY <1>4, <1>6, <1>7 DEF Laid
<1> QED BY <1>8 DEF n

-----------------------------------------------------------------------------
(* The list is a partition in every reachable state, whatever the guest    *)
(* passes to its calls.                                                    *)

ThreadState == [at : {"none", "runs", "leaves", "marks"}, stack : Nat]

Shape ==
  /\ Laid(vm)
  /\ thread \in [Threads -> ThreadState]
  /\ collecting \in BOOLEAN
  /\ taken \in BOOLEAN

\* What the guest passes are numbers.
LEMMA Arguments ==
  /\ FixedAddrs \subseteq Nat /\ HintAddrs \subseteq Nat /\ MmapLengths \subseteq Nat
  /\ MunmapAddrs \subseteq Nat /\ MunmapLengths \subseteq Nat /\ SignalAddrs \subseteq Nat
  /\ RemapAddrs \subseteq Nat /\ RemapLengths \subseteq Nat /\ ShmAddrs \subseteq Nat
  /\ ShmLengths \subseteq Nat /\ StackSize \in Nat
BY ArgumentsAssumption, StackAssumption

\* The shape at the start.
LEMMA ShapeInit ==
  ASSUME Init
  PROVE  Shape
<1> DEFINE R == MAPPING_RESERVE_IN_SIGNAL_START
           x == Vma(VMA_UNMAP, MAPPING_START, R)
           y == Vma(VMA_MAP, R, ListEnd)
           l == <<x, y>>
<1>1. /\ x \in Desc /\ x.start = MAPPING_START /\ x.end = R
      /\ y \in Desc /\ y.start = R /\ y.end = ListEnd
  BY Layout DEF Vma, Desc
<1>2. x.start <= x.end /\ y.start <= y.end /\ x.end = y.start
  BY <1>1, Layout
<1>3. vm.list = l
  BY DEF Init, InitialList
<1> HIDE DEF x, y
<1>4. Chain(l) /\ Len(l) = 2 /\ l[1] = x /\ l[2] = y
  BY <1>1, <1>2, ChainOfTwo
<1> HIDE DEF l
<1>5. l \in Seq(Desc)
  BY <1>4 DEF Chain
<1>6. vm \in Manager
  <2>1. DESC_PER_PAGE - 2 \in Nat /\ DESC_PER_PAGE \in Nat /\ KERNEL_CHOOSE_START_ADDR \in Nat
    BY DescAssumption, Layout
  <2>2. [p \in Pages |-> "free"] \in [Pages -> Contents]
    BY ContentsAre
  <2>3. "none" \in Fails /\ <<>> \in Seq(ShmEntry) /\ <<>> \in Seq(OngoingEntry)
    BY DEF Fails
  <2>4. vm.list \in Seq(Desc)
    BY <1>3, <1>5
  <2> QED BY <2>1, <2>2, <2>3, <2>4 DEF Init, Manager
<1>7. vm.shm = <<>> /\ vm.ongoing = <<>>
  BY DEF Init
<1>8. Ordered(vm.shm) /\ Ordered(vm.ongoing)
  BY <1>7 DEF Ordered
<1>9. Laid(vm)
  BY <1>1, <1>3, <1>4, <1>6, <1>8 DEF Laid
<1>10. thread \in [Threads -> ThreadState] /\ collecting \in BOOLEAN /\ taken \in BOOLEAN
  BY DEF Init, ThreadState
<1> QED BY <1>9, <1>10 DEF Shape

\* Every step keeps the shape, one case per action.
LEMMA ShapeNext ==
  ASSUME Shape, [Next]_vars
  PROVE  Shape'
<1>0. /\ Laid(vm) /\ vm \in Manager /\ thread \in [Threads -> ThreadState]
      /\ collecting \in BOOLEAN /\ taken \in BOOLEAN
  BY DEF Shape, Laid
<1>s. \A t \in Threads : thread[t].stack \in Nat
  BY <1>0 DEF ThreadState
<1>b. ASSUME NEW m, NEW asked, Laid(m), Becomes(m, asked)
      PROVE  Laid(vm)' /\ taken' \in BOOLEAN
  <2>1. vm' = m
    BY <1>b DEF Becomes
  <2>2. taken' \in BOOLEAN
    BY <1>0, <1>b DEF Becomes
  <2>3. Laid(vm')
    BY <1>b, <2>1
  <2> QED BY <2>2, <2>3
<1>e. ASSUME NEW m, NEW asked, Laid(m), Ends(m, asked) \/ EndsIfShort(m, asked)
      PROVE  Laid(vm)' /\ taken' \in BOOLEAN /\ collecting' \in BOOLEAN
  <2>1. Becomes(m, asked)
    BY <1>e DEF Ends, EndsIfShort
  <2>2. collecting' \in BOOLEAN
    BY <1>e DEF Ends, EndsIfShort
  <2> QED BY <2>1, <2>2, <1>b, <1>e
<1>c. ASSUME NEW m, NEW asked, Laid(m), Ends(m, asked) \/ EndsIfShort(m, asked),
             UNCHANGED thread
      PROVE  Shape'
  <2>1. Laid(vm)' /\ taken' \in BOOLEAN /\ collecting' \in BOOLEAN
    BY <1>e, <1>c
  <2>2. thread' = thread
    BY <1>c
  <2> QED BY <1>0, <2>1, <2>2 DEF Shape
<1>1. CASE mmap_fixed
  <2>1. PICK addr \in FixedAddrs, len \in MmapLengths, ok \in BOOLEAN :
          EndsIfShort(MmapFixed(vm, addr, len, ok), PagesOf(addr, len))
    BY <1>1 DEF mmap_fixed, MmapResults
  <2>2. Laid(MmapFixed(vm, addr, len, ok))
    BY <1>0, Arguments, LaidMmapFixed
  <2>3. UNCHANGED thread
    BY <1>1 DEF mmap_fixed
  <2> QED BY <2>1, <2>2, <2>3, <1>c
<1>2. CASE mmap
  <2>1. PICK addr \in HintAddrs, len \in MmapLengths, ok \in BOOLEAN :
          EndsIfShort(MmapPlaced(Place(vm, addr, len), len, "guest", ok), {})
    BY <1>2 DEF mmap, MmapResults
  <2> DEFINE r == Place(vm, addr, len)
  <2>2. Laid(r.m) /\ r.addr \in Nat
    <3>1. addr \in Nat /\ len \in Nat
      BY Arguments
    <3>2. CASE addr = 0
      <4>1. r = find_vma_with_kernel_choose(vm, len)
        BY <3>2 DEF Place
      <4> HIDE DEF r
      <4> QED BY <4>1, <3>1, <1>0, LaidKernelChoose
    <3>3. CASE addr # 0
      <4>1. r = find_vma_with_hint(vm, len, addr)
        BY <3>3 DEF Place
      <4> HIDE DEF r
      <4> QED BY <4>1, <3>1, <1>0, LaidHint
    <3> QED BY <3>2, <3>3
  <2>3. Laid(MmapPlaced(r, len, "guest", ok))
    <3> HIDE DEF r
    <3>1. "guest" \in Contents /\ len \in Nat
      BY ContentsAre, Arguments
    <3> QED BY <2>2, <3>1, LaidMmapPlaced
  <2>4. UNCHANGED thread
    BY <1>2 DEF mmap
  <2> QED BY <2>1, <2>3, <2>4, <1>c
<1>3. CASE munmap
  <2>1. PICK addr \in MunmapAddrs, len \in MunmapLengths :
          EndsIfShort(internal_munmap(vm, addr, len), PagesOf(addr, len))
    BY <1>3 DEF munmap
  <2>2. Laid(internal_munmap(vm, addr, len))
    BY <1>0, Arguments, LaidMunmap
  <2>3. UNCHANGED thread
    BY <1>3 DEF munmap
  <2> QED BY <2>1, <2>2, <2>3, <1>c
<1>4. CASE munmap_in_signal
  <2>1. PICK addr \in SignalAddrs, len \in MunmapLengths :
          Becomes(SetHost(vm, PagesOf(addr, len), "free"), PagesOf(addr, len))
    BY <1>4 DEF munmap_in_signal
  <2>2. Laid(SetHost(vm, PagesOf(addr, len), "free"))
    BY <1>0, ContentsAre, LaidSetHost
  <2>3. UNCHANGED <<thread, collecting>>
    BY <1>4 DEF munmap_in_signal
  <2>4. Laid(vm)' /\ taken' \in BOOLEAN
    BY <2>1, <2>2, <1>b
  <2> QED BY <1>0, <2>3, <2>4 DEF Shape
<1>5. CASE mremap_fixed
  <2>1. PICK old \in RemapAddrs, new \in RemapAddrs, oldlen \in RemapLengths, newlen \in RemapLengths :
          mremap(old, oldlen, RemapFixed(vm, old, oldlen, new, newlen),
                 PagesOf(old, oldlen) \cup PagesOf(new, newlen))
    BY <1>5 DEF mremap_fixed
  <2>2. Laid(RemapFixed(vm, old, oldlen, new, newlen))
    BY <1>0, Arguments, LaidRemapFixed
  <2> QED BY <2>1, <2>2, <1>c DEF mremap
<1>6. CASE mremap_shrink
  <2>1. PICK old \in RemapAddrs, oldlen \in RemapLengths, newlen \in RemapLengths :
          /\ PAGE_ALIGN_UP(newlen) <= PAGE_ALIGN_UP(oldlen)
          /\ mremap(old, oldlen, RemapShrink(vm, old, oldlen, newlen), PagesOf(old, oldlen))
    BY <1>6 DEF mremap_shrink
  <2>2. Laid(RemapShrink(vm, old, oldlen, newlen))
    BY <2>1, <1>0, Arguments, LaidRemapShrink
  <2> QED BY <2>1, <2>2, <1>c DEF mremap
<1>7. CASE mremap_grow
  <2>1. PICK old \in RemapAddrs, oldlen \in RemapLengths, newlen \in RemapLengths :
          /\ PAGE_ALIGN_UP(newlen) > PAGE_ALIGN_UP(oldlen)
          /\ mremap(old, oldlen, RemapGrow(vm, old, oldlen, newlen), PagesOf(old, oldlen))
    BY <1>7 DEF mremap_grow
  <2>2. Laid(RemapGrow(vm, old, oldlen, newlen))
    BY <2>1, <1>0, Arguments, LaidRemapGrow
  <2> QED BY <2>1, <2>2, <1>c DEF mremap
<1>8. CASE mremap_move
  <2>1. PICK old \in RemapAddrs, oldlen \in RemapLengths, newlen \in RemapLengths, ok \in BOOLEAN :
          mremap(old, oldlen, RemapMove(vm, old, oldlen, newlen, ok), PagesOf(old, oldlen))
    BY <1>8 DEF mremap_move
  <2>2. Laid(RemapMove(vm, old, oldlen, newlen, ok))
    BY <1>0, Arguments, LaidRemapMove
  <2> QED BY <2>1, <2>2, <1>c DEF mremap
<1>9. CASE shmat
  <2>1. PICK addr \in ShmAddrs, len \in ShmLengths, ok \in BOOLEAN :
          Ends(internal_shmat(vm, addr, len, ok),
               IF ok /\ addr # 0 THEN PagesOf(addr, len) ELSE {})
    BY <1>9 DEF shmat
  <2>2. Laid(internal_shmat(vm, addr, len, ok))
    BY <1>0, Arguments, LaidShmat
  <2>3. UNCHANGED thread
    BY <1>9 DEF shmat
  <2> QED BY <2>1, <2>2, <2>3, <1>c
<1>10. CASE shmdt
  <2>1. PICK k \in 1..Len(vm.shm) :
          Ends(shm_remove(vm, k), PagesOf(vm.shm[k].start, vm.shm[k].end - vm.shm[k].start))
    BY <1>10 DEF shmdt
  <2>2. Laid(shm_remove(vm, k))
    BY <1>0, LaidShmRemove
  <2>3. UNCHANGED thread
    BY <1>10 DEF shmdt
  <2> QED BY <2>1, <2>2, <2>3, <1>c
<1>11. CASE call_refused
  BY <1>0, <1>11, <1>c DEF call_refused
<1>12. CASE collect_ongoing_unmap
  <2>1. PICK k \in Marked(vm) : Becomes(Collect(vm, k), {})
    BY <1>12 DEF collect_ongoing_unmap
  <2>2. Laid(Collect(vm, k))
    BY <1>0, LaidCollect DEF Marked
  <2>3. Laid(vm)' /\ taken' \in BOOLEAN
    BY <2>1, <2>2, <1>b
  <2> QED BY <1>0, <1>12, <2>3 DEF Shape, collect_ongoing_unmap
<1>13. CASE allocate_more_desc_memory_if_needed
  <2> DEFINE m == IF vm.next THEN vm ELSE allocate_more_desc_memory(vm)
  <2>1. Becomes(m, {})
    BY <1>13 DEF allocate_more_desc_memory_if_needed
  <2>2. Laid(m)
    BY <1>0, LaidAllocate
  <2> HIDE DEF m
  <2>3. Laid(vm)' /\ taken' \in BOOLEAN
    BY <2>1, <2>2, <1>b
  <2> QED BY <1>0, <1>13, <2>3 DEF Shape, allocate_more_desc_memory_if_needed
<1>14. ASSUME NEW t \in Threads, clone_thread(t) PROVE Shape'
  <2> DEFINE r == find_vma_with_kernel_choose(vm, StackSize)
             m == MmapPlaced(r, StackSize, t, TRUE)
  <2>1. Laid(r.m) /\ r.addr \in Nat
    BY <1>0, Arguments, LaidKernelChoose
  <2>2. IF r.addr = ENOMEM_64
        THEN /\ Becomes(Stop(r.m, "no stack"), {})
             /\ UNCHANGED <<thread, collecting>>
        ELSE /\ Ends(m, {})
             /\ thread' = [thread EXCEPT ![t] = [at |-> "runs", stack |-> r.addr]]
    BY <1>14 DEF clone_thread
  <2> HIDE DEF r
  <2>3. CASE r.addr = ENOMEM_64
    <3>1. Laid(Stop(r.m, "no stack"))
      BY <2>1, LaidStop DEF Fails
    <3>2. Laid(vm)' /\ taken' \in BOOLEAN
      BY <2>2, <2>3, <3>1, <1>b
    <3> QED BY <1>0, <2>2, <2>3, <3>2 DEF Shape
  <2>4. CASE r.addr # ENOMEM_64
    <3>1. t \in Contents /\ TRUE \in BOOLEAN /\ StackSize \in Nat
      BY ContentsAre, Arguments
    <3>2. Laid(m)
      BY <2>1, <3>1, LaidMmapPlaced
    <3> HIDE DEF m
    <3>3. Laid(vm)' /\ taken' \in BOOLEAN /\ collecting' \in BOOLEAN
      BY <2>2, <2>4, <3>2, <1>e
    <3>4. thread' \in [Threads -> ThreadState]
      <4>1. [at |-> "runs", stack |-> r.addr] \in ThreadState
        BY <2>1 DEF ThreadState
      <4> QED BY <4>1, <2>2, <2>4, <1>0
    <3> QED BY <3>3, <3>4 DEF Shape
  <2> QED BY <2>3, <2>4
<1>15. ASSUME NEW t \in Threads, munmap_guest_ongoing(t) PROVE Shape'
  <2> DEFINE m == internal_munmap_ongoing(vm, t, thread[t].stack, StackSize)
  <2>1. Laid(m)
    BY <1>0, <1>s, Arguments, LaidOngoing
  <2> HIDE DEF m
  <2>2. Laid(vm)' /\ taken' \in BOOLEAN /\ collecting' \in BOOLEAN
    BY <1>15, <2>1, <1>e DEF munmap_guest_ongoing, m
  <2>3. thread' \in [Threads -> ThreadState]
    BY <1>0, <1>15 DEF munmap_guest_ongoing, ThreadState
  <2> QED BY <2>2, <2>3 DEF Shape
<1>16. ASSUME NEW t \in Threads, exit_munmap(t) PROVE Shape'
  <2> DEFINE m == SetHost(vm, PagesOf(thread[t].stack, StackSize), "free")
  <2>1. Laid(m)
    BY <1>0, ContentsAre, LaidSetHost
  <2> HIDE DEF m
  <2>2. Laid(vm)' /\ taken' \in BOOLEAN
    BY <1>16, <2>1, <1>b DEF exit_munmap, m
  <2>3. thread' \in [Threads -> ThreadState] /\ collecting' = collecting
    BY <1>0, <1>16 DEF exit_munmap, ThreadState
  <2> QED BY <1>0, <2>2, <2>3 DEF Shape
<1>17. ASSUME NEW t \in Threads, exit_mark(t) PROVE Shape'
  <2> DEFINE f == vm.ongoing
             o == [k \in 1..Len(f) |-> IF f[k].by = t THEN [f[k] EXCEPT !.done = TRUE] ELSE f[k]]
  <2>1. vm' = [vm EXCEPT !.ongoing = o]
    BY <1>17 DEF exit_mark
  <2>2. f \in Seq(OngoingEntry) /\ Len(f) \in Nat /\ Ordered(f)
    BY <1>0, ManagerFields, LenProperties DEF Laid
  <2> HIDE DEF f
  <2>3. \A k \in 1..Len(f) : o[k] \in OngoingEntry /\ o[k].start = f[k].start /\ o[k].end = f[k].end
    <3>1. \A k \in 1..Len(f) : f[k] \in OngoingEntry
      BY <2>2, ElementOfSeq
    <3> QED BY <3>1 DEF OngoingEntry
  <2>4. o \in Seq(OngoingEntry) /\ Len(o) = Len(f)
    BY <2>2, <2>3, SeqDef, IsASeq
  <2> HIDE DEF o
  <2>5. Ordered(o)
    BY <2>2, <2>3, <2>4 DEF Ordered
  <2>6. /\ vm' \in Manager /\ vm'.list = vm.list /\ vm'.shm = vm.shm /\ vm'.ongoing = o
    BY <2>1, <2>4, <1>0, WithOngoing
  <2>7. Laid(vm')
    BY <1>0, <2>5, <2>6 DEF Laid
  <2>8. thread' \in [Threads -> ThreadState] /\ collecting' = collecting /\ taken' = taken
    BY <1>0, <1>17 DEF exit_mark, ThreadState
  <2> QED BY <1>0, <2>7, <2>8 DEF Shape
<1>18. CASE UNCHANGED vars
  BY <1>18, <1>0 DEF vars, Shape
<1> QED BY <1>1, <1>2, <1>3, <1>4, <1>5, <1>6, <1>7, <1>8, <1>9, <1>10, <1>11, <1>12,
           <1>13, <1>14, <1>15, <1>16, <1>17, <1>18 DEF Next

\* Whatever the guest maps, moves and unmaps, with any addresses and lengths,
\* and whatever the kernel refuses, insert_area keeps the list a partition of
\* the address space.
THEOREM VmaListIsPartition == Spec => []ListIsPartition
<1>1. Init => Shape
  BY ShapeInit
<1>2. Shape /\ [Next]_vars => Shape'
  BY ShapeNext
<1>3. Shape => ListIsPartition
  BY LaidIsPartition DEF Shape, ListIsPartition
<1> QED BY <1>1, <1>2, <1>3, PTL DEF Spec

-----------------------------------------------------------------------------
(* Managers that agree with the host, for calls that are well formed.      *)

\* A page of the area d.
In(p, d) == d.start <= p /\ p < d.end

\* d is a range of whole pages, in the space.
InSpace(d) ==
  /\ Aligned(d.start) /\ Aligned(d.end)
  /\ MAPPING_START <= d.start /\ d.start < d.end
  /\ d.end <= MAPPING_RESERVE_IN_SIGNAL_START

NoCommonPage(s) ==
  \A i, j \in 1..Len(s) : i # j => \A p \in Pages : ~(In(p, s[i]) /\ In(p, s[j]))

\* What the host has mapped is marked.
HostIsTracked(m) ==
  \A p \in Pages : m.host[p] # "free" => Has(m.list, p, VMA_MAP)

\* An area whose unmap is pending stays marked until it is collected; nobody
\* has mapped anything there once its thread has marked it, and before that
\* the thread is at the end of its life.
PendingIsKept(m, th) ==
  \A k \in 1..Len(m.ongoing) :
    /\ InSpace(m.ongoing[k])
    /\ \A p \in Pages : In(p, m.ongoing[k]) => Has(m.list, p, VMA_MAP)
    /\ m.ongoing[k].done =>
         \A p \in Pages : In(p, m.ongoing[k]) => m.host[p] = "free"
    /\ ~m.ongoing[k].done =>
         /\ th[m.ongoing[k].by].at \in {"leaves", "marks"}
         /\ m.ongoing[k].start = th[m.ongoing[k].by].stack
         /\ m.ongoing[k].end = th[m.ongoing[k].by].stack + StackSize

\* A thread has its stack until it unmaps it, and its descriptor is listed
\* while it leaves.
StacksAreHeld(m, th) ==
  \A t \in Threads :
    /\ th[t].at \in {"runs", "leaves"} =>
         /\ Aligned(th[t].stack) /\ MAPPING_START <= th[t].stack
         /\ th[t].stack + StackSize <= MAPPING_RESERVE_IN_SIGNAL_START
         /\ \A p \in PagesOf(th[t].stack, StackSize) : m.host[p] = t
    /\ th[t].at = "marks" =>
         \A p \in PagesOf(th[t].stack, StackSize) : m.host[p] = "free"
    /\ th[t].at \in {"leaves", "marks"} =>
         \E k \in 1..Len(m.ongoing) : m.ongoing[k].by = t /\ ~m.ongoing[k].done

\* The pages of an attached segment are the segment's.
SegmentsAreHeld(m) ==
  \A k \in 1..Len(m.shm) :
    /\ InSpace(m.shm[k])
    /\ \A p \in Pages : In(p, m.shm[k]) => m.host[p] = "shm"

Sound(m, th) ==
  /\ Orderly(m)
  /\ HostIsTracked(m)
  /\ PendingIsKept(m, th) /\ NoCommonPage(m.ongoing)
  /\ StacksAreHeld(m, th)
  /\ SegmentsAreHeld(m) /\ NoCommonPage(m.shm)

\* A page that no thread, no segment and no pending unmap holds.
Loose(m, p) ==
  /\ m.host[p] \notin Threads
  /\ \A k \in 1..Len(m.shm) : ~In(p, m.shm[k])
  /\ \A k \in 1..Len(m.ongoing) : ~In(p, m.ongoing[k])

\* A page is a multiple of its size inside the space.
LEMMA PageIs ==
  ASSUME NEW p \in Pages
  PROVE  /\ p \in Nat /\ Aligned(p) /\ MAPPING_START <= p
         /\ p < MAPPING_RESERVE_IN_SIGNAL_START
BY Layout DEF Pages, Aligned

\* Which pages a range has.
LEMMA PageOf ==
  ASSUME NEW p, NEW start, NEW len
  PROVE  p \in PagesOf(start, len) <=> p \in Pages /\ start <= p /\ p < start + len
BY DEF PagesOf

\* The name of a thread is none of the other contents.
LEMMA ThreadNames ==
  ASSUME NEW t \in Threads
  PROVE  t # "free" /\ t # "guest" /\ t # "shm" /\ t # "umeq"
BY ThreadsAssumption

\* Steps that leave alone all that is held.
LEMMA Undisturbed ==
  ASSUME NEW m, NEW th, NEW n, NEW Q, Sound(m, th), th \in [Threads -> ThreadState],
         Orderly(n), n.ongoing = m.ongoing, n.shm = m.shm,
         \A p \in Pages : p \notin Q =>
           /\ n.host[p] = m.host[p]
           /\ Has(m.list, p, VMA_MAP) => Has(n.list, p, VMA_MAP),
         \A p \in Pages : p \in Q =>
           /\ Loose(m, p)
           /\ n.host[p] # "free" => Has(n.list, p, VMA_MAP)
  PROVE  Sound(n, th)
<1>0. m \in Manager /\ m.ongoing \in Seq(OngoingEntry) /\ m.shm \in Seq(ShmEntry)
  BY ManagerFields DEF Sound, Orderly, Laid
<1>1. HostIsTracked(n)
  <2> SUFFICES ASSUME NEW p \in Pages, n.host[p] # "free" PROVE Has(n.list, p, VMA_MAP)
    BY DEF HostIsTracked
  <2>1. m.host[p] # "free" => Has(m.list, p, VMA_MAP)
    BY DEF Sound, HostIsTracked
  <2> QED BY <2>1
<1>2. PendingIsKept(n, th)
  <2> SUFFICES ASSUME NEW k \in 1..Len(m.ongoing)
               PROVE  /\ InSpace(m.ongoing[k])
                      /\ \A p \in Pages : In(p, m.ongoing[k]) => Has(n.list, p, VMA_MAP)
                      /\ m.ongoing[k].done =>
                           \A p \in Pages : In(p, m.ongoing[k]) => n.host[p] = "free"
                      /\ ~m.ongoing[k].done =>
                           /\ th[m.ongoing[k].by].at \in {"leaves", "marks"}
                           /\ m.ongoing[k].start = th[m.ongoing[k].by].stack
                           /\ m.ongoing[k].end = th[m.ongoing[k].by].stack + StackSize
    BY DEF PendingIsKept
  <2>1. \A p \in Pages : In(p, m.ongoing[k]) => p \notin Q
    BY DEF Loose
  <2> QED BY <2>1 DEF Sound, PendingIsKept
<1>3. StacksAreHeld(n, th)
  <2> SUFFICES ASSUME NEW t \in Threads
               PROVE  /\ th[t].at \in {"runs", "leaves"} =>
                           /\ Aligned(th[t].stack) /\ MAPPING_START <= th[t].stack
                           /\ th[t].stack + StackSize <= MAPPING_RESERVE_IN_SIGNAL_START
                           /\ \A p \in PagesOf(th[t].stack, StackSize) : n.host[p] = t
                      /\ th[t].at = "marks" =>
                           \A p \in PagesOf(th[t].stack, StackSize) : n.host[p] = "free"
                      /\ th[t].at \in {"leaves", "marks"} =>
                           \E k \in 1..Len(m.ongoing) : m.ongoing[k].by = t /\ ~m.ongoing[k].done
    BY DEF StacksAreHeld
  <2>1. ASSUME th[t].at \in {"runs", "leaves"}, NEW p \in PagesOf(th[t].stack, StackSize)
        PROVE  n.host[p] = t
    <3>1. m.host[p] = t /\ p \in Pages
      BY <2>1, PageOf DEF Sound, StacksAreHeld
    <3>2. p \notin Q
      BY <3>1 DEF Loose
    <3> QED BY <3>1, <3>2
  <2>2. ASSUME th[t].at = "marks", NEW p \in PagesOf(th[t].stack, StackSize)
        PROVE  n.host[p] = "free"
    <3>1. m.host[p] = "free" /\ p \in Pages /\ th[t].stack <= p /\ p < th[t].stack + StackSize
      BY <2>2, PageOf DEF Sound, StacksAreHeld
    <3>2. PICK k \in 1..Len(m.ongoing) : m.ongoing[k].by = t /\ ~m.ongoing[k].done
      BY <2>2 DEF Sound, StacksAreHeld
    <3>3. In(p, m.ongoing[k])
      BY <3>1, <3>2 DEF Sound, PendingIsKept, In
    <3>4. p \notin Q
      BY <3>1, <3>3 DEF Loose
    <3> QED BY <3>1, <3>4
  <2> QED BY <2>1, <2>2 DEF Sound, StacksAreHeld
<1>4. SegmentsAreHeld(n)
  <2> SUFFICES ASSUME NEW k \in 1..Len(m.shm)
               PROVE  /\ InSpace(m.shm[k])
                      /\ \A p \in Pages : In(p, m.shm[k]) => n.host[p] = "shm"
    BY DEF SegmentsAreHeld
  <2>1. ASSUME NEW p \in Pages, In(p, m.shm[k]) PROVE n.host[p] = "shm"
    <3>1. m.host[p] = "shm"
      BY <2>1 DEF Sound, SegmentsAreHeld
    <3>2. p \notin Q
      BY <2>1 DEF Loose
    <3> QED BY <3>1, <3>2
  <2> QED BY <2>1 DEF Sound, SegmentsAreHeld
<1>5. NoCommonPage(n.ongoing) /\ NoCommonPage(n.shm)
  BY DEF Sound
<1> QED BY <1>1, <1>2, <1>3, <1>4, <1>5 DEF Sound

\* Sound says nothing of the descriptors.
LEMMA SoundSame ==
  ASSUME NEW m, NEW th, NEW n, Sound(m, th), n \in Manager,
         n.list = m.list, n.cursor = m.cursor, n.ongoing = m.ongoing, n.shm = m.shm,
         n.host = m.host
  PROVE  Sound(n, th)
<1>1. Orderly(n)
  BY DEF Sound, Orderly, Laid
<1>2. /\ HostIsTracked(n) /\ PendingIsKept(n, th) /\ NoCommonPage(n.ongoing)
      /\ StacksAreHeld(n, th) /\ SegmentsAreHeld(n) /\ NoCommonPage(n.shm)
  BY DEF Sound, HostIsTracked, PendingIsKept, StacksAreHeld, SegmentsAreHeld
<1> QED BY <1>1, <1>2 DEF Sound

\* What the list says is free is free.
LEMMA FreeIsLoose ==
  ASSUME NEW m, NEW th, Sound(m, th), NEW p \in Pages, Has(m.list, p, VMA_UNMAP)
  PROVE  Loose(m, p) /\ m.host[p] = "free"
<1>0. Chain(m.list) /\ p \in Nat
  BY PageIs DEF Sound, Orderly, Laid
<1>1. ~Has(m.list, p, VMA_MAP)
  <2>1. VMA_MAP # VMA_UNMAP
    BY DEF VMA_MAP, VMA_UNMAP
  <2> QED BY <1>0, <2>1, HasOneType
<1>2. m.host[p] = "free"
  BY <1>1 DEF Sound, HostIsTracked
<1>3. \A k \in 1..Len(m.ongoing) : ~In(p, m.ongoing[k])
  BY <1>1 DEF Sound, PendingIsKept
<1>4. "free" \notin Threads /\ "free" # "shm"
  BY ThreadNames
<1>5. \A k \in 1..Len(m.shm) : ~In(p, m.shm[k])
  BY <1>2, <1>4 DEF Sound, SegmentsAreHeld
<1> QED BY <1>2, <1>3, <1>4, <1>5 DEF Loose

-----------------------------------------------------------------------------
(* What the operations do to managers that agree with the host.            *)

\* From m to n only pages of asked have been unmapped or replaced.
Takes(m, n, asked) ==
  \A p \in Pages : p \notin asked /\ m.host[p] # "free" => n.host[p] = m.host[p]

\* An operation that keeps the manager sound, takes nothing that it was not
\* asked for, and needs at most k descriptors.
Works(m, n, th, asked, k) ==
  /\ Sound(n, th)
  /\ Takes(m, n, asked)
  /\ Costs(m, n, k)
  /\ n.ongoing = m.ongoing

\* A bound on the cost may be raised.
LEMMA CostsMore ==
  ASSUME NEW m \in Manager, NEW n \in Manager, NEW j \in Nat, NEW k \in Nat, j <= k,
         Costs(m, n, j)
  PROVE  Costs(m, n, k)
<1>1. Spare(m) \in Nat /\ Spare(n) \in Nat
  BY ManagerFields
<1>2. ASSUME Spare(m) >= k PROVE n.fail = m.fail /\ Spare(n) >= Spare(m) - k
  <2>1. Spare(m) >= j
    BY <1>1, <1>2
  <2>2. n.fail = m.fail /\ Spare(n) >= Spare(m) - j
    BY <2>1 DEF Costs
  <2> QED BY <1>1, <2>2
<1> QED BY <1>2 DEF Costs

\* insert_area, for an area of whole pages in the space.
LEMMA Repaint ==
  ASSUME NEW m, Orderly(m), NEW start \in Nat, NEW end \in Nat, Aligned(start), Aligned(end),
         MAPPING_START <= start, start < end, end <= MAPPING_RESERVE_IN_SIGNAL_START,
         NEW type \in {VMA_UNMAP, VMA_MAP}
  PROVE  LET n == insert_area(m, start, end, type) IN
         /\ Orderly(n) /\ n \in Manager /\ m \in Manager
         /\ SameRest(m, n) /\ Costs(m, n, 2)
         /\ \A p \in Pages : Has(n.list, p, VMA_MAP) <=>
              IF start <= p /\ p < end THEN VMA_MAP = type ELSE Has(m.list, p, VMA_MAP)
<1> DEFINE n == insert_area(m, start, end, type)
           l == m.list
           R == MAPPING_RESERVE_IN_SIGNAL_START
<1>0. m \in Manager /\ Laid(m) /\ Chain(l) /\ l[1].start = MAPPING_START /\ l[Len(l)].end = ListEnd
  BY DEF Orderly, Laid
<1>1. end < ListEnd /\ start <= end
  BY Layout
<1>2. Inserts(m, n, start, end, type)
  BY <1>0, <1>1, InsertArea
<1>3. Laid(n) /\ n.cursor = m.cursor
  BY <1>0, <1>1, LaidInsert
<1> HIDE DEF n
<1>4. ListAligned(n.list)
  BY <1>2 DEF Inserts, Painted, Orderly
<1>5. Has(n.list, R, VMA_MAP)
  <2>1. ~(start <= R /\ R < end)
    BY Layout
  <2>2. R \in Nat /\ Has(l, R, VMA_MAP)
    BY Layout DEF Orderly
  <2> QED BY <1>2, <2>1, <2>2 DEF Inserts, Painted
<1>6. Orderly(n)
  BY <1>3, <1>4, <1>5 DEF Orderly
<1>7. \A p \in Pages : Has(n.list, p, VMA_MAP) <=>
        IF start <= p /\ p < end THEN VMA_MAP = type ELSE Has(l, p, VMA_MAP)
  BY <1>2, PageIs DEF Inserts, Painted
<1> QED BY <1>0, <1>2, <1>6, <1>7 DEF Inserts, n

\* SetHost changes nothing but what the host has mapped.
LEMMA HostOnly ==
  ASSUME NEW m, Orderly(m), NEW ps, NEW what \in Contents
  PROVE  LET n == SetHost(m, ps, what) IN
         /\ Orderly(n) /\ n \in Manager /\ m \in Manager
         /\ n.list = m.list /\ n.ongoing = m.ongoing /\ n.shm = m.shm /\ n.nshm = m.nshm
         /\ Costs(m, n, 0)
         /\ \A p \in Pages : n.host[p] = IF p \in ps THEN what ELSE m.host[p]
<1> DEFINE n == SetHost(m, ps, what)
<1>0. m \in Manager /\ Laid(m)
  BY DEF Orderly, Laid
<1>1. /\ n \in Manager
      /\ n.list = m.list /\ n.nfree = m.nfree /\ n.ndesc = m.ndesc /\ n.next = m.next
      /\ n.cursor = m.cursor /\ n.fail = m.fail
      /\ n.shm = m.shm /\ n.nshm = m.nshm /\ n.ongoing = m.ongoing
      /\ \A p \in Pages : n.host[p] = IF p \in ps THEN what ELSE m.host[p]
  BY <1>0, SetHostIs
<1>2. Laid(n)
  BY <1>0, LaidSetHost
<1> HIDE DEF n
<1>3. Orderly(n)
  BY <1>1, <1>2 DEF Orderly
<1>4. Costs(m, n, 0)
  BY <1>0, <1>1, CostsNothing
<1> QED BY <1>0, <1>1, <1>3, <1>4 DEF n

\* The range a guest passes, in whole pages.
LEMMA GuestRange ==
  ASSUME NEW addr \in Nat, NEW len \in Nat, Aligned(addr), MAPPING_START <= addr, len > 0,
         addr + len <= MAPPING_RESERVE_IN_SIGNAL_START
  PROVE  LET end == PAGE_ALIGN_UP(addr + len) IN
         /\ end \in Nat /\ Aligned(end) /\ addr < end
         /\ end <= MAPPING_RESERVE_IN_SIGNAL_START
         /\ \A p : p \in PagesOf(addr, len) <=> p \in Pages /\ addr <= p /\ p < end
<1> DEFINE end == PAGE_ALIGN_UP(addr + len)
<1> SUFFICES /\ end \in Nat /\ Aligned(end) /\ addr < end
             /\ end <= MAPPING_RESERVE_IN_SIGNAL_START
             /\ \A p : p \in PagesOf(addr, len) <=> p \in Pages /\ addr <= p /\ p < end
  BY Zenon
<1>0. addr + len \in Nat /\ addr < addr + len
  OBVIOUS
<1>1. /\ end \in Nat /\ Aligned(end) /\ addr + len <= end
      /\ end <= MAPPING_RESERVE_IN_SIGNAL_START
      /\ \A b \in Nat : Aligned(b) /\ b < end => b < addr + len
  BY <1>0, PageUp, Layout
<1> HIDE DEF end
<1>2. addr < end
  BY <1>0, <1>1
<1>3. ASSUME NEW p
      PROVE  p \in PagesOf(addr, len) <=> p \in Pages /\ addr <= p /\ p < end
  <2>1. ASSUME p \in Pages, addr <= p, p < addr + len PROVE p < end
    <3>1. p \in Nat
      BY <2>1, PageIs
    <3> QED BY <3>1, <2>1, <1>0, <1>1
  <2>2. ASSUME p \in Pages, addr <= p, p < end PROVE p < addr + len
    BY <2>2, <1>1, PageIs
  <2> QED BY <2>1, <2>2, PageOf
<1> QED BY <1>1, <1>2, <1>3

\* mmap with MAP_FIXED.
LEMMA WorksMmapFixed ==
  ASSUME NEW m, NEW th \in [Threads -> ThreadState], Sound(m, th),
         NEW addr \in Nat, NEW len \in Nat, Aligned(addr), MAPPING_START <= addr, len > 0,
         addr + len <= MAPPING_RESERVE_IN_SIGNAL_START,
         \A p \in PagesOf(addr, len) : Loose(m, p), NEW ok \in BOOLEAN
  PROVE  Works(m, MmapFixed(m, addr, len, ok), th, PagesOf(addr, len), 2)
<1> DEFINE end == PAGE_ALIGN_UP(addr + len)
           Q == PagesOf(addr, len)
           h == SetHost(m, Q, "guest")
           i == insert_area(h, addr, end, VMA_MAP)
           n == MmapFixed(m, addr, len, ok)
<1>0. Orderly(m) /\ m \in Manager
  BY DEF Sound, Orderly, Laid
<1>1. /\ end \in Nat /\ Aligned(end) /\ addr < end
      /\ end <= MAPPING_RESERVE_IN_SIGNAL_START
      /\ \A p : p \in Q <=> p \in Pages /\ addr <= p /\ p < end
  BY GuestRange
<1>2. n = IF ok THEN i ELSE m
  BY DEF MmapFixed, insert_map_area
<1> HIDE DEF end, n, Q
<1>3. CASE ~ok
  <2>1. Costs(m, m, 2)
    BY <1>0, CostsNothing
  <2> QED BY <1>2, <1>3, <2>1 DEF Works, Takes, n, Q
<1>4. CASE ok
  <2>1. /\ Orderly(h) /\ h \in Manager
        /\ h.list = m.list /\ h.ongoing = m.ongoing /\ h.shm = m.shm
        /\ Costs(m, h, 0)
        /\ \A p \in Pages : h.host[p] = IF p \in Q THEN "guest" ELSE m.host[p]
    BY <1>0, ContentsAre, HostOnly
  <2> HIDE DEF h
  <2>2. /\ Orderly(i) /\ i \in Manager
        /\ SameRest(h, i) /\ Costs(h, i, 2)
        /\ \A p \in Pages : Has(i.list, p, VMA_MAP) <=>
             IF addr <= p /\ p < end THEN VMA_MAP = VMA_MAP ELSE Has(h.list, p, VMA_MAP)
    BY <1>1, <2>1, Repaint
  <2> HIDE DEF i
  <2>3. Costs(m, i, 0 + 2)
    BY <1>0, <2>1, <2>2, CostsAdd
  <2>4. \A p \in Pages : /\ Has(i.list, p, VMA_MAP) <=> (p \in Q \/ Has(m.list, p, VMA_MAP))
                         /\ i.host[p] = IF p \in Q THEN "guest" ELSE m.host[p]
    BY <1>1, <2>1, <2>2 DEF SameRest
  <2>5. i.ongoing = m.ongoing /\ i.shm = m.shm
    BY <2>1, <2>2 DEF SameRest
  <2>6. Sound(i, th)
    <3>1. \A p \in Pages : p \in Q => Loose(m, p)
      BY DEF Q
    <3> QED BY <2>2, <2>4, <2>5, <3>1, Undisturbed
  <2>7. Takes(m, i, Q)
    BY <2>4 DEF Takes
  <2> QED BY <1>2, <1>4, <2>3, <2>5, <2>6, <2>7 DEF Works, n, Q
<1> QED BY <1>3, <1>4

\* munmap.
LEMMA WorksMunmap ==
  ASSUME NEW m, NEW th \in [Threads -> ThreadState], Sound(m, th),
         NEW addr \in Nat, NEW len \in Nat, Aligned(addr), MAPPING_START <= addr, len > 0,
         addr + len <= MAPPING_RESERVE_IN_SIGNAL_START,
         \A p \in PagesOf(addr, len) : Loose(m, p)
  PROVE  Works(m, internal_munmap(m, addr, len), th, PagesOf(addr, len), 2)
<1> DEFINE end == PAGE_ALIGN_UP(addr + len)
           Q == PagesOf(addr, len)
           h == SetHost(m, Q, "free")
           i == insert_area(h, addr, end, VMA_UNMAP)
<1>0. Orderly(m) /\ m \in Manager
  BY DEF Sound, Orderly, Laid
<1>1. /\ end \in Nat /\ Aligned(end) /\ addr < end
      /\ end <= MAPPING_RESERVE_IN_SIGNAL_START
      /\ \A p : p \in Q <=> p \in Pages /\ addr <= p /\ p < end
  BY GuestRange
<1>2. internal_munmap(m, addr, len) = i
  BY DEF internal_munmap, insert_unmap_area
<1> HIDE DEF end, Q
<1>3. /\ Orderly(h) /\ h \in Manager
      /\ h.list = m.list /\ h.ongoing = m.ongoing /\ h.shm = m.shm
      /\ Costs(m, h, 0)
      /\ \A p \in Pages : h.host[p] = IF p \in Q THEN "free" ELSE m.host[p]
  BY <1>0, ContentsAre, HostOnly
<1> HIDE DEF h
<1>4. /\ Orderly(i) /\ i \in Manager
      /\ SameRest(h, i) /\ Costs(h, i, 2)
      /\ \A p \in Pages : Has(i.list, p, VMA_MAP) <=>
           IF addr <= p /\ p < end THEN VMA_MAP = VMA_UNMAP ELSE Has(h.list, p, VMA_MAP)
  BY <1>1, <1>3, Repaint
<1> HIDE DEF i
<1>5. Costs(m, i, 0 + 2)
  BY <1>0, <1>3, <1>4, CostsAdd
<1>6. \A p \in Pages : /\ p \notin Q => (Has(i.list, p, VMA_MAP) <=> Has(m.list, p, VMA_MAP))
                       /\ i.host[p] = IF p \in Q THEN "free" ELSE m.host[p]
  BY <1>1, <1>3, <1>4 DEF SameRest
<1>7. i.ongoing = m.ongoing /\ i.shm = m.shm
  BY <1>3, <1>4 DEF SameRest
<1>8. Sound(i, th)
  <2>1. \A p \in Pages : p \in Q => Loose(m, p)
    BY DEF Q
  <2> QED BY <1>4, <1>6, <1>7, <2>1, Undisturbed
<1>9. Takes(m, i, Q)
  BY <1>6 DEF Takes
<1> QED BY <1>2, <1>5, <1>7, <1>8, <1>9 DEF Works, Q

\* munmap in a signal handler.
LEMMA WorksHostMunmap ==
  ASSUME NEW m, NEW th \in [Threads -> ThreadState], Sound(m, th),
         NEW Q \in SUBSET Pages, \A p \in Q : Loose(m, p)
  PROVE  /\ Works(m, SetHost(m, Q, "free"), th, Q, 0)
         /\ SetHost(m, Q, "free").nfree = m.nfree
         /\ SetHost(m, Q, "free").next = m.next
         /\ SetHost(m, Q, "free").fail = m.fail
<1> DEFINE h == SetHost(m, Q, "free")
<1>0. Orderly(m) /\ m \in Manager
  BY DEF Sound, Orderly, Laid
<1>1. /\ Orderly(h) /\ h \in Manager
      /\ h.list = m.list /\ h.ongoing = m.ongoing /\ h.shm = m.shm
      /\ Costs(m, h, 0)
      /\ \A p \in Pages : h.host[p] = IF p \in Q THEN "free" ELSE m.host[p]
  BY <1>0, ContentsAre, HostOnly
<1>2. h.nfree = m.nfree /\ h.next = m.next /\ h.fail = m.fail
  BY <1>0, ContentsAre, SetHostIs
<1> HIDE DEF h
<1>3. Sound(h, th)
  BY <1>1, Undisturbed
<1>4. Takes(m, h, Q)
  BY <1>1 DEF Takes
<1> QED BY <1>1, <1>2, <1>3, <1>4 DEF Works, h

\* Rounding up commutes with a shift by whole pages.
LEMMA AlignUpShift ==
  ASSUME NEW addr \in Nat, NEW len \in Nat, Aligned(addr)
  PROVE  PAGE_ALIGN_UP(addr + len) = addr + PAGE_ALIGN_UP(len)
<1> DEFINE u == PAGE_ALIGN_UP(addr + len)
           v == PAGE_ALIGN_UP(len)
<1>0. addr + len \in Nat
  OBVIOUS
<1>1. /\ u \in Nat /\ Aligned(u) /\ addr + len <= u
      /\ \A b \in Nat : Aligned(b) /\ addr + len <= b => u <= b
  BY <1>0, PageUp
<1>2. /\ v \in Nat /\ Aligned(v) /\ len <= v
      /\ \A b \in Nat : Aligned(b) /\ len <= b => v <= b
  BY PageUp
<1> HIDE DEF u, v
<1>3. u <= addr + v
  <2>1. addr + v \in Nat /\ addr + len <= addr + v
    BY <1>2
  <2>2. Aligned(addr + v)
    BY <1>2, PageSum
  <2> QED BY <2>1, <2>2, <1>1
<1>4. v <= u - addr
  <2>0. addr <= u
    BY <1>1
  <2>1. u - addr \in Nat /\ Aligned(u - addr)
    BY <2>0, <1>1, PageDifference
  <2>2. len <= u - addr
    BY <1>1
  <2> QED BY <2>1, <2>2, <1>2
<1> QED BY <1>1, <1>2, <1>3, <1>4 DEF u, v

\* A search that finds no room.
LEMMA FoundNothing ==
  ASSUME NEW m, NEW th \in [Threads -> ThreadState], Sound(m, th), NEW r, NEW length \in Nat,
         Finds(m, r, length), r.addr = ENOMEM_64
  PROVE  Works(m, r.m, th, {}, 2)
<1>1. /\ Orderly(r.m) /\ SameRest(m, r.m) /\ Costs(m, r.m, 2) /\ r.m.list = m.list
  BY DEF Finds
<1>2. r.m.ongoing = m.ongoing /\ r.m.shm = m.shm /\ r.m.host = m.host
  BY <1>1 DEF SameRest
<1>3. Sound(r.m, th)
  <2> DEFINE n == r.m
             Q == {}
  <2>1. /\ Orderly(n) /\ n.ongoing = m.ongoing /\ n.shm = m.shm
        /\ \A p \in Pages : p \notin Q =>
             /\ n.host[p] = m.host[p]
             /\ Has(m.list, p, VMA_MAP) => Has(n.list, p, VMA_MAP)
    BY <1>1, <1>2
  <2>2. \A p \in Pages : p \in Q =>
           /\ Loose(m, p)
           /\ n.host[p] # "free" => Has(n.list, p, VMA_MAP)
    OBVIOUS
  <2> HIDE DEF n, Q
  <2>3. Sound(n, th)
    BY <2>1, <2>2, Undisturbed
  <2> QED BY <2>3 DEF n
<1>4. Takes(m, r.m, {})
  BY <1>2 DEF Takes
<1> QED BY <1>1, <1>2, <1>3, <1>4 DEF Works

\* What a search has found, page by page.
LEMMA FoundPages ==
  ASSUME NEW m, NEW th, Sound(m, th), NEW r, NEW length \in Nat,
         Finds(m, r, length), r.addr # ENOMEM_64
  PROVE  /\ r.addr \in Nat /\ Aligned(r.addr) /\ MAPPING_START <= r.addr
         /\ r.addr + length \in Nat
         /\ r.addr + length <= MAPPING_RESERVE_IN_SIGNAL_START
         /\ m \in Manager /\ r.m \in Manager /\ Orderly(r.m)
         /\ SameRest(m, r.m) /\ Costs(m, r.m, 2)
         /\ \A p \in Pages :
              /\ Has(r.m.list, p, VMA_MAP) <=>
                   (r.addr <= p /\ p < r.addr + length) \/ Has(m.list, p, VMA_MAP)
              /\ r.addr <= p /\ p < r.addr + length => /\ Loose(m, p) /\ m.host[p] = "free"
                                                        /\ ~Has(m.list, p, VMA_MAP)
<1>1. /\ r.addr \in Nat /\ Orderly(r.m) /\ r.m \in Manager /\ m \in Manager /\ SameRest(m, r.m)
      /\ Costs(m, r.m, 2)
  BY DEF Finds, Sound, Orderly, Laid
<1>2. /\ IsFree(m, r.addr, length)
      /\ Painted(m.list, r.m.list, r.addr, r.addr + length, VMA_MAP)
  BY DEF Finds
<1>3. r.addr + length \in Nat
  BY <1>1
<1>4. ASSUME NEW p \in Pages, r.addr <= p, p < r.addr + length
      PROVE  Loose(m, p) /\ m.host[p] = "free" /\ ~Has(m.list, p, VMA_MAP)
  <2>1. Has(m.list, p, VMA_UNMAP) /\ p \in Nat
    BY <1>2, <1>4, PageIs DEF IsFree
  <2>2. Chain(m.list)
    BY DEF Sound, Orderly, Laid
  <2>3. VMA_MAP # VMA_UNMAP
    BY DEF VMA_MAP, VMA_UNMAP
  <2>4. ~Has(m.list, p, VMA_MAP)
    BY <2>1, <2>2, <2>3, HasOneType
  <2> QED BY <2>1, <2>4, FreeIsLoose
<1>5. ASSUME NEW p \in Pages
      PROVE  Has(r.m.list, p, VMA_MAP) <=>
               (r.addr <= p /\ p < r.addr + length) \/ Has(m.list, p, VMA_MAP)
  <2>1. p \in Nat
    BY PageIs
  <2> QED BY <2>1, <1>2 DEF Painted
<1> QED BY <1>1, <1>2, <1>3, <1>4, <1>5 DEF IsFree

\* The kernel maps what was found.
LEMMA FoundAndMapped ==
  ASSUME NEW m, NEW th \in [Threads -> ThreadState], Sound(m, th), NEW r, NEW length \in Nat,
         Finds(m, r, length), r.addr # ENOMEM_64,
         NEW len \in Nat, len <= length, NEW what \in Contents
  PROVE  LET n == SetHost(r.m, PagesOf(r.addr, len), what) IN
         /\ Works(m, n, th, {}, 2)
         /\ n.shm = m.shm /\ n.nshm = m.nshm
         /\ \A p \in Pages : n.host[p] = IF p \in PagesOf(r.addr, len) THEN what ELSE m.host[p]
<1> DEFINE Q == PagesOf(r.addr, len)
           n == SetHost(r.m, Q, what)
<1>0. /\ r.addr \in Nat /\ r.addr + length \in Nat
      /\ m \in Manager /\ r.m \in Manager /\ Orderly(r.m)
      /\ SameRest(m, r.m) /\ Costs(m, r.m, 2)
      /\ \A p \in Pages :
           /\ Has(r.m.list, p, VMA_MAP) <=>
                (r.addr <= p /\ p < r.addr + length) \/ Has(m.list, p, VMA_MAP)
           /\ r.addr <= p /\ p < r.addr + length => /\ Loose(m, p) /\ m.host[p] = "free"
                                                     /\ ~Has(m.list, p, VMA_MAP)
  BY FoundPages
<1>1. \A p \in Q : p \in Pages /\ r.addr <= p /\ p < r.addr + length
  <2> TAKE p \in Q
  <2>1. p \in Pages /\ r.addr <= p /\ p < r.addr + len
    BY PageOf
  <2>2. p \in Nat
    BY <2>1, PageIs
  <2> QED BY <2>1, <2>2, <1>0
<1> HIDE DEF Q
<1>2. /\ Orderly(n) /\ n \in Manager
      /\ n.list = r.m.list /\ n.ongoing = r.m.ongoing /\ n.shm = r.m.shm /\ n.nshm = r.m.nshm
      /\ Costs(r.m, n, 0)
      /\ \A p \in Pages : n.host[p] = IF p \in Q THEN what ELSE r.m.host[p]
  BY <1>0, HostOnly
<1> HIDE DEF n
<1>3. /\ n.ongoing = m.ongoing /\ n.shm = m.shm /\ n.nshm = m.nshm
      /\ \A p \in Pages : n.host[p] = IF p \in Q THEN what ELSE m.host[p]
  BY <1>0, <1>2 DEF SameRest
<1>4. Sound(n, th)
  <2>1. \A p \in Pages : p \notin Q =>
           /\ n.host[p] = m.host[p]
           /\ Has(m.list, p, VMA_MAP) => Has(n.list, p, VMA_MAP)
    BY <1>0, <1>2, <1>3
  <2>2. \A p \in Pages : p \in Q =>
           /\ Loose(m, p)
           /\ n.host[p] # "free" => Has(n.list, p, VMA_MAP)
    BY <1>0, <1>1, <1>2
  <2> QED BY <1>2, <1>3, <2>1, <2>2, Undisturbed
<1>5. Takes(m, n, {})
  BY <1>0, <1>1, <1>3 DEF Takes
<1>6. Costs(m, n, 2 + 0)
  BY <1>0, <1>2, CostsAdd
<1> QED BY <1>3, <1>4, <1>5, <1>6 DEF Works, n, Q

\* The kernel refuses, and what was found is given back.
LEMMA FoundAndGivenBack ==
  ASSUME NEW m, NEW th \in [Threads -> ThreadState], Sound(m, th), NEW r, NEW length \in Nat,
         Finds(m, r, length), r.addr # ENOMEM_64, length > 0, Aligned(length)
  PROVE  Works(m, insert_unmap_area(r.m, r.addr, r.addr + length), th, {}, 4)
<1> DEFINE end == r.addr + length
           n == insert_area(r.m, r.addr, end, VMA_UNMAP)
           Q == {p \in Pages : r.addr <= p /\ p < end}
<1>0. /\ r.addr \in Nat /\ Aligned(r.addr) /\ MAPPING_START <= r.addr
      /\ end \in Nat
      /\ end <= MAPPING_RESERVE_IN_SIGNAL_START
      /\ m \in Manager /\ r.m \in Manager /\ Orderly(r.m)
      /\ SameRest(m, r.m) /\ Costs(m, r.m, 2)
      /\ \A p \in Pages :
           /\ Has(r.m.list, p, VMA_MAP) <=>
                (r.addr <= p /\ p < end) \/ Has(m.list, p, VMA_MAP)
           /\ r.addr <= p /\ p < end => /\ Loose(m, p) /\ m.host[p] = "free"
                                        /\ ~Has(m.list, p, VMA_MAP)
  BY FoundPages
<1>1. Aligned(end) /\ r.addr < end
  BY <1>0, PageSum
<1>2. insert_unmap_area(r.m, r.addr, r.addr + length) = n
  BY DEF insert_unmap_area
<1> HIDE DEF end
<1>3. /\ Orderly(n) /\ n \in Manager
      /\ SameRest(r.m, n) /\ Costs(r.m, n, 2)
      /\ \A p \in Pages : Has(n.list, p, VMA_MAP) <=>
           IF r.addr <= p /\ p < end THEN VMA_MAP = VMA_UNMAP ELSE Has(r.m.list, p, VMA_MAP)
  BY <1>0, <1>1, Repaint
<1> HIDE DEF n
<1>4. n.ongoing = m.ongoing /\ n.shm = m.shm /\ n.host = m.host
  BY <1>0, <1>3 DEF SameRest
<1>5. Sound(n, th)
  <2>1. \A p \in Pages : p \notin Q =>
           /\ n.host[p] = m.host[p]
           /\ Has(m.list, p, VMA_MAP) => Has(n.list, p, VMA_MAP)
    BY <1>0, <1>3, <1>4
  <2>2. \A p \in Pages : p \in Q =>
           /\ Loose(m, p)
           /\ n.host[p] # "free" => Has(n.list, p, VMA_MAP)
    BY <1>0, <1>4
  <2> HIDE DEF Q
  <2> QED BY <1>3, <1>4, <2>1, <2>2, Undisturbed
<1>6. Takes(m, n, {})
  BY <1>4 DEF Takes
<1>7. Costs(m, n, 2 + 2)
  BY <1>0, <1>3, CostsAdd
<1> QED BY <1>2, <1>4, <1>5, <1>6, <1>7 DEF Works

\* The second half of internal_mmap.
LEMMA WorksMmapPlaced ==
  ASSUME NEW m, NEW th \in [Threads -> ThreadState], Sound(m, th), NEW r,
         NEW len \in Nat, len > 0, Finds(m, r, PAGE_ALIGN_UP(len)),
         NEW what \in Contents, NEW ok \in BOOLEAN
  PROVE  Works(m, MmapPlaced(r, len, what, ok), th, {}, 4)
<1> DEFINE length == PAGE_ALIGN_UP(len)
           n == MmapPlaced(r, len, what, ok)
<1>0. length \in Nat /\ Aligned(length) /\ len <= length /\ length > 0
  BY PageUp
<1>m. m \in Manager /\ r.m \in Manager
  BY DEF Sound, Finds, Orderly, Laid
<1>1. CASE r.addr = ENOMEM_64
  <2>1. n = r.m
    BY <1>1 DEF MmapPlaced
  <2>2. Works(m, r.m, th, {}, 2)
    BY <1>0, <1>1, FoundNothing
  <2>3. Costs(m, r.m, 4)
    BY <1>m, <2>2, CostsMore DEF Works
  <2> QED BY <2>1, <2>2, <2>3 DEF Works
<1>2. CASE r.addr # ENOMEM_64 /\ ok
  <2> DEFINE q == SetHost(r.m, PagesOf(r.addr, len), what)
  <2>1. n = q
    BY <1>2 DEF MmapPlaced
  <2>2. Works(m, q, th, {}, 2)
    BY <1>0, <1>2, FoundAndMapped
  <2> HIDE DEF q, n
  <2>3. q \in Manager
    BY <2>2 DEF Works, Sound, Orderly, Laid
  <2>4. Costs(m, q, 4)
    BY <1>m, <2>2, <2>3, CostsMore DEF Works
  <2> QED BY <2>1, <2>2, <2>4 DEF Works, n
<1>3. CASE r.addr # ENOMEM_64 /\ ~ok
  <2>1. r.addr \in Nat /\ Aligned(r.addr)
    BY <1>0, <1>3, FoundPages
  <2>2. PAGE_ALIGN_UP(r.addr + len) = r.addr + length
    BY <2>1, AlignUpShift
  <2>3. n = insert_unmap_area(r.m, r.addr, r.addr + length)
    BY <1>3, <2>2 DEF MmapPlaced, ENOMEM_64
  <2> HIDE DEF n, length
  <2> QED BY <2>3, <1>0, <1>3, FoundAndGivenBack DEF n, length
<1> QED BY <1>1, <1>2, <1>3

\* ... or finds no room for a page of descriptors, which ends the program.
WorksOrStops(m, n, th, asked, k) ==
  /\ Sound(n, th)
  /\ Takes(m, n, asked)
  /\ n.fail = "no room" \/ Costs(m, n, k)
  /\ n.ongoing = m.ongoing

\* A page umeq maps for itself.
LEMMA WorksOwnPage ==
  ASSUME NEW m, NEW th \in [Threads -> ThreadState], Sound(m, th)
  PROVE  /\ WorksOrStops(m, OwnPage(m), th, {}, 2)
         /\ OwnPage(m).shm = m.shm
<1> DEFINE n == OwnPage(m)
           r == find_vma_with_kernel_choose(m, PAGE_SIZE)
<1>0. Laid(m) /\ Orderly(m) /\ m \in Manager
  BY DEF Sound, Orderly, Laid
<1>1. PAGE_ALIGN_UP(PAGE_SIZE) = PAGE_SIZE
  BY Layout, PageUp
<1>2. Finds(m, r, PAGE_SIZE)
  BY <1>0, <1>1, Layout, LaidKernelChoose
<1>3. n = IF r.addr = ENOMEM_64 THEN Stop(r.m, "no room")
          ELSE MmapPlaced(r, PAGE_SIZE, "umeq", TRUE)
  BY DEF OwnPage
<1> HIDE DEF n, r
<1>4. CASE r.addr = ENOMEM_64
  <2> DEFINE q == Stop(r.m, "no room")
  <2>1. Works(m, r.m, th, {}, 2)
    BY <1>2, <1>4, Layout, FoundNothing
  <2>2. r.m \in Manager /\ Laid(r.m) /\ Orderly(r.m)
    BY <1>2 DEF Finds, Orderly, Laid
  <2>3. "no room" \in Fails
    BY DEF Fails
  <2>4. /\ q \in Manager
        /\ q.list = r.m.list /\ q.cursor = r.m.cursor /\ q.fail = "no room"
        /\ q.shm = r.m.shm /\ q.ongoing = r.m.ongoing /\ q.host = r.m.host
        /\ Laid(q)
    BY <2>2, <2>3, StopIs, LaidStop
  <2>5. n = q
    BY <1>3, <1>4
  <2> HIDE DEF q
  <2>6. Orderly(q)
    BY <2>2, <2>4 DEF Orderly
  <2>7. Sound(q, th)
    <3> DEFINE o == r.m
    <3>1. Sound(o, th)
      BY <2>1 DEF Works
    <3> HIDE DEF o
    <3> QED BY <2>4, <3>1, SoundSame DEF o
  <2>8. Takes(m, q, {})
    BY <2>1, <2>4 DEF Works, Takes
  <2>9. q.ongoing = m.ongoing /\ q.shm = m.shm
    <3>1. SameRest(m, r.m)
      BY <1>2 DEF Finds
    <3> QED BY <3>1, <2>4 DEF SameRest
  <2> QED BY <2>4, <2>5, <2>7, <2>8, <2>9 DEF WorksOrStops, n
<1>5. CASE r.addr # ENOMEM_64
  <2> DEFINE q == SetHost(r.m, PagesOf(r.addr, PAGE_SIZE), "umeq")
  <2>1. n = q
    BY <1>3, <1>5 DEF MmapPlaced
  <2>2. "umeq" \in Contents /\ PAGE_SIZE \in Nat /\ PAGE_SIZE <= PAGE_SIZE
    BY ContentsAre, Layout
  <2>3. Works(m, q, th, {}, 2) /\ q.shm = m.shm
    BY <1>2, <1>5, <2>2, FoundAndMapped
  <2> HIDE DEF q
  <2> QED BY <2>1, <2>3 DEF Works, WorksOrStops, n
<1> QED BY <1>4, <1>5

\* What the host has mapped after mremap.
LEMMA HostRemapIs ==
  ASSUME NEW m, Orderly(m), NEW old, NEW oldlen, NEW new, NEW newlen
  PROVE  LET n == HostRemap(m, old, oldlen, new, newlen) IN
         /\ Orderly(n) /\ n \in Manager /\ m \in Manager
         /\ n.list = m.list /\ n.ongoing = m.ongoing /\ n.shm = m.shm
         /\ Costs(m, n, 0)
         /\ \A p \in Pages : n.host[p] = IF p \in PagesOf(new, newlen) THEN "guest"
                                         ELSE IF p \in PagesOf(old, oldlen) THEN "free"
                                         ELSE m.host[p]
<1> DEFINE Q == PagesOf(old, oldlen)
           N == PagesOf(new, newlen)
           h == SetHost(m, Q, "free")
           n == SetHost(h, N, "guest")
<1>1. /\ Orderly(h) /\ h \in Manager /\ m \in Manager
      /\ h.list = m.list /\ h.ongoing = m.ongoing /\ h.shm = m.shm
      /\ Costs(m, h, 0)
      /\ \A p \in Pages : h.host[p] = IF p \in Q THEN "free" ELSE m.host[p]
  BY ContentsAre, HostOnly
<1> HIDE DEF h, Q, N
<1>2. /\ Orderly(n) /\ n \in Manager
      /\ n.list = h.list /\ n.ongoing = h.ongoing /\ n.shm = h.shm
      /\ Costs(h, n, 0)
      /\ \A p \in Pages : n.host[p] = IF p \in N THEN "guest" ELSE h.host[p]
  BY <1>1, ContentsAre, HostOnly
<1>3. HostRemap(m, old, oldlen, new, newlen) = n
  BY DEF HostRemap, h, Q, N
<1> HIDE DEF n
<1>4. Costs(m, n, 0 + 0)
  BY <1>1, <1>2, CostsAdd
<1>5. \A p \in Pages : n.host[p] = IF p \in N THEN "guest"
                                   ELSE IF p \in Q THEN "free" ELSE m.host[p]
  BY <1>1, <1>2
<1> QED BY <1>1, <1>2, <1>3, <1>4, <1>5 DEF Q, N

\* mremap to an address.
LEMMA WorksRemapFixed ==
  ASSUME NEW m, NEW th \in [Threads -> ThreadState], Sound(m, th),
         NEW old \in Nat, NEW oldlen \in Nat, Aligned(old), MAPPING_START <= old, oldlen > 0,
         old + oldlen <= MAPPING_RESERVE_IN_SIGNAL_START,
         NEW new \in Nat, NEW newlen \in Nat, Aligned(new), MAPPING_START <= new, newlen > 0,
         new + newlen <= MAPPING_RESERVE_IN_SIGNAL_START,
         \A p \in PagesOf(old, oldlen) : Loose(m, p),
         \A p \in PagesOf(new, newlen) : Loose(m, p)
  PROVE  Works(m, RemapFixed(m, old, oldlen, new, newlen), th,
               PagesOf(old, oldlen) \cup PagesOf(new, newlen), 4)
<1> DEFINE Q == PagesOf(old, oldlen)
           N == PagesOf(new, newlen)
           a == PAGE_ALIGN_UP(old + oldlen)
           b == PAGE_ALIGN_UP(new + newlen)
           h == HostRemap(m, old, oldlen, new, newlen)
           u == insert_area(h, old, a, VMA_UNMAP)
           n == insert_area(u, new, b, VMA_MAP)
<1>0. Orderly(m) /\ m \in Manager
  BY DEF Sound, Orderly, Laid
<1>1. /\ a \in Nat /\ Aligned(a) /\ old < a /\ a <= MAPPING_RESERVE_IN_SIGNAL_START
      /\ \A p : p \in Q <=> p \in Pages /\ old <= p /\ p < a
  BY GuestRange
<1>2. /\ b \in Nat /\ Aligned(b) /\ new < b /\ b <= MAPPING_RESERVE_IN_SIGNAL_START
      /\ \A p : p \in N <=> p \in Pages /\ new <= p /\ p < b
  BY GuestRange
<1>3. RemapFixed(m, old, oldlen, new, newlen) = n
  BY DEF RemapFixed, insert_map_area, insert_unmap_area
<1>4. /\ Orderly(h) /\ h \in Manager
      /\ h.list = m.list /\ h.ongoing = m.ongoing /\ h.shm = m.shm
      /\ Costs(m, h, 0)
      /\ \A p \in Pages : h.host[p] = IF p \in N THEN "guest"
                                      ELSE IF p \in Q THEN "free" ELSE m.host[p]
  BY <1>0, HostRemapIs
<1> HIDE DEF a, b, Q, N, h
<1>5. /\ Orderly(u) /\ u \in Manager
      /\ SameRest(h, u) /\ Costs(h, u, 2)
      /\ \A p \in Pages : Has(u.list, p, VMA_MAP) <=>
           IF old <= p /\ p < a THEN VMA_MAP = VMA_UNMAP ELSE Has(h.list, p, VMA_MAP)
  BY <1>1, <1>4, Repaint
<1> HIDE DEF u
<1>6. /\ Orderly(n) /\ n \in Manager
      /\ SameRest(u, n) /\ Costs(u, n, 2)
      /\ \A p \in Pages : Has(n.list, p, VMA_MAP) <=>
           IF new <= p /\ p < b THEN VMA_MAP = VMA_MAP ELSE Has(u.list, p, VMA_MAP)
  BY <1>2, <1>5, Repaint
<1> HIDE DEF n
<1>7. /\ n.ongoing = m.ongoing /\ n.shm = m.shm
      /\ \A p \in Pages : n.host[p] = IF p \in N THEN "guest"
                                      ELSE IF p \in Q THEN "free" ELSE m.host[p]
  BY <1>4, <1>5, <1>6 DEF SameRest
<1>8. \A p \in Pages : /\ p \in N => Has(n.list, p, VMA_MAP)
                       /\ p \notin N /\ p \notin Q =>
                            (Has(m.list, p, VMA_MAP) => Has(n.list, p, VMA_MAP))
  BY <1>1, <1>2, <1>4, <1>5, <1>6
<1>9. Sound(n, th)
  <2> DEFINE B == Q \cup N
  <2>1. \A p \in Pages : p \notin B =>
           /\ n.host[p] = m.host[p]
           /\ Has(m.list, p, VMA_MAP) => Has(n.list, p, VMA_MAP)
    BY <1>7, <1>8
  <2>2. \A p \in Pages : p \in B =>
           /\ Loose(m, p)
           /\ n.host[p] # "free" => Has(n.list, p, VMA_MAP)
    <3>1. \A p \in Pages : p \in B => Loose(m, p)
      BY DEF Q, N
    <3> QED BY <1>7, <1>8, <3>1
  <2> HIDE DEF B
  <2> QED BY <1>6, <1>7, <2>1, <2>2, Undisturbed
<1>10. Takes(m, n, Q \cup N)
  BY <1>7 DEF Takes
<1>11. Costs(m, n, 4)
  <2>1. Costs(m, u, 0 + 2)
    BY <1>0, <1>4, <1>5, CostsAdd
  <2>2. Costs(m, u, 2)
    BY <2>1
  <2>3. Costs(m, n, 2 + 2)
    BY <2>2, <1>0, <1>5, <1>6, CostsAdd
  <2> QED BY <2>3
<1> QED BY <1>3, <1>7, <1>9, <1>10, <1>11 DEF Works, Q, N

\* mremap to a smaller size in place: the tail becomes free.
LEMMA WorksRemapShrink ==
  ASSUME NEW m, NEW th \in [Threads -> ThreadState], Sound(m, th),
         NEW old \in Nat, NEW oldlen \in Nat, NEW newlen \in Nat, Aligned(old),
         Aligned(oldlen), Aligned(newlen),
         MAPPING_START <= old, oldlen > 0, newlen > 0, newlen <= oldlen,
         old + oldlen <= MAPPING_RESERVE_IN_SIGNAL_START,
         \A p \in PagesOf(old, oldlen) : Loose(m, p) /\ m.host[p] = "guest"
  PROVE  Works(m, RemapShrink(m, old, oldlen, newlen), th, PagesOf(old, oldlen), 4)
<1> DEFINE Q == PagesOf(old, oldlen)
           N == PagesOf(old, newlen)
           a == old + newlen
           b == old + oldlen
           h == HostRemap(m, old, oldlen, old, newlen)
           i == insert_area(h, a, b, VMA_UNMAP)
           n == RemapShrink(m, old, oldlen, newlen)
<1>0. Orderly(m) /\ m \in Manager
  BY DEF Sound, Orderly, Laid
<1>1. PAGE_ALIGN_UP(oldlen) = oldlen /\ PAGE_ALIGN_UP(newlen) = newlen
  BY PageUp
<1>2. n = IF oldlen = newlen THEN h ELSE i
  BY <1>1 DEF RemapShrink, insert_unmap_area
<1>3. /\ Orderly(h) /\ h \in Manager
      /\ h.list = m.list /\ h.ongoing = m.ongoing /\ h.shm = m.shm
      /\ Costs(m, h, 0)
      /\ \A p \in Pages : h.host[p] = IF p \in N THEN "guest"
                                      ELSE IF p \in Q THEN "free" ELSE m.host[p]
  BY <1>0, HostRemapIs
<1>4. /\ a \in Nat /\ b \in Nat /\ Aligned(a) /\ Aligned(b) /\ a <= b /\ MAPPING_START <= a
  <2>1. Aligned(a) /\ Aligned(b)
    BY PageSum
  <2> QED BY <2>1, Layout
<1>5. \A p \in Pages : /\ p \in N <=> old <= p /\ p < a
                       /\ p \in Q <=> old <= p /\ p < b
  BY PageOf
<1>6. \A p \in Pages : p \in N => p \in Q
  BY <1>4, <1>5, PageIs
<1>7. \A p \in Pages : p \in Q => Loose(m, p) /\ Has(m.list, p, VMA_MAP)
  <2>1. "guest" # "free"
    OBVIOUS
  <2> QED BY <2>1 DEF Sound, HostIsTracked
<1> HIDE DEF Q, N, h, n, a, b
<1>8. /\ Orderly(n) /\ n \in Manager /\ SameRest(h, n) /\ Costs(h, n, 2)
      /\ \A p \in Pages : Has(n.list, p, VMA_MAP) <=>
           IF a <= p /\ p < b THEN FALSE ELSE Has(m.list, p, VMA_MAP)
  <2>1. CASE oldlen = newlen
    <3>1. n = h /\ a = b
      BY <1>2, <2>1 DEF a, b
    <3>2. Costs(h, h, 2)
      BY <1>3, CostsNothing
    <3>3. \A p \in Pages : ~(a <= p /\ p < b)
      BY <1>4, <3>1, PageIs
    <3> QED BY <1>3, <3>1, <3>2, <3>3 DEF SameRest
  <2>2. CASE oldlen # newlen
    <3>1. n = i /\ a < b
      BY <1>2, <1>4, <2>2 DEF a, b
    <3>2. b <= MAPPING_RESERVE_IN_SIGNAL_START /\ VMA_MAP # VMA_UNMAP
      BY DEF b, VMA_MAP, VMA_UNMAP
    <3>3. /\ Orderly(i) /\ i \in Manager
          /\ SameRest(h, i) /\ Costs(h, i, 2)
          /\ \A p \in Pages : Has(i.list, p, VMA_MAP) <=>
               IF a <= p /\ p < b THEN VMA_MAP = VMA_UNMAP ELSE Has(h.list, p, VMA_MAP)
      BY <1>3, <1>4, <3>1, <3>2, Repaint
    <3> HIDE DEF i
    <3> QED BY <1>3, <3>1, <3>2, <3>3
  <2> QED BY <2>1, <2>2
<1>9. /\ n.ongoing = m.ongoing /\ n.shm = m.shm
      /\ \A p \in Pages : n.host[p] = IF p \in N THEN "guest"
                                      ELSE IF p \in Q THEN "free" ELSE m.host[p]
  BY <1>3, <1>8 DEF SameRest
<1>10. Sound(n, th)
  <2>1. \A p \in Pages : p \notin Q =>
           /\ n.host[p] = m.host[p]
           /\ Has(m.list, p, VMA_MAP) => Has(n.list, p, VMA_MAP)
    <3>1. \A p \in Pages : a <= p /\ p < b => p \in Q
      <4> TAKE p \in Pages
      <4>1. p \in Nat /\ a \in Nat
        BY PageIs, <1>4
      <4>2. a <= p => old <= p
        BY <4>1 DEF a
      <4> QED BY <4>2, <1>5
    <3> QED BY <1>6, <1>8, <1>9, <3>1
  <2>2. \A p \in Pages : p \in Q =>
           /\ Loose(m, p)
           /\ n.host[p] # "free" => Has(n.list, p, VMA_MAP)
    <3>1. \A p \in Pages : p \in N => ~(a <= p /\ p < b)
      BY <1>4, <1>5, PageIs
    <3> QED BY <1>6, <1>7, <1>8, <1>9, <3>1
  <2> QED BY <1>8, <1>9, <2>1, <2>2, Undisturbed
<1>11. Takes(m, n, Q)
  BY <1>6, <1>9 DEF Takes
<1>12. Costs(m, n, 4)
  <2>1. Costs(m, n, 0 + 2)
    BY <1>0, <1>3, <1>8, CostsAdd
  <2>2. Costs(m, n, 2)
    BY <2>1
  <2> QED BY <2>2, <1>0, <1>8, CostsMore
<1> QED BY <1>9, <1>10, <1>11, <1>12 DEF Works, Q, n

\* The kernel and is_area_unmap agree that the mapping can grow where it is.
LEMMA WorksRemapGrow ==
  ASSUME NEW m, NEW th \in [Threads -> ThreadState], Sound(m, th),
         NEW old \in Nat, NEW oldlen \in Nat, NEW newlen \in Nat, Aligned(old),
         Aligned(oldlen), Aligned(newlen),
         MAPPING_START <= old, oldlen > 0, oldlen < newlen,
         old + oldlen <= MAPPING_RESERVE_IN_SIGNAL_START,
         CanGrow(m, old, oldlen, newlen),
         \A p \in PagesOf(old, oldlen) : Loose(m, p) /\ m.host[p] = "guest"
  PROVE  Works(m, RemapGrow(m, old, oldlen, newlen), th, PagesOf(old, oldlen), 4)
<1> DEFINE l == m.list
           Q == PagesOf(old, oldlen)
           N == PagesOf(old, newlen)
           a == old + oldlen
           b == old + newlen
           c == newlen - oldlen
           k == Owner(l, a)
           h == HostRemap(m, old, oldlen, old, newlen)
           n == insert_area(h, a, b, VMA_MAP)
<1>0. Orderly(m) /\ m \in Manager /\ l \in Seq(Desc)
  BY DEF Sound, Orderly, Laid, Chain
<1>1. PAGE_ALIGN_UP(oldlen) = oldlen /\ PAGE_ALIGN_UP(newlen) = newlen
  BY PageUp
<1>2. RemapGrow(m, old, oldlen, newlen) = n
  BY <1>1 DEF RemapGrow, insert_map_area
<1>3. /\ Orderly(h) /\ h \in Manager
      /\ h.list = l /\ h.ongoing = m.ongoing /\ h.shm = m.shm
      /\ Costs(m, h, 0)
      /\ \A p \in Pages : h.host[p] = IF p \in N THEN "guest"
                                      ELSE IF p \in Q THEN "free" ELSE m.host[p]
  BY <1>0, HostRemapIs
<1>4. /\ a \in Nat /\ b \in Nat /\ c \in Nat /\ c > 0 /\ Aligned(a) /\ Aligned(b) /\ Aligned(c)
      /\ a < b /\ MAPPING_START <= a /\ a + c = b
  <2>1. Aligned(a) /\ Aligned(b)
    BY PageSum
  <2>2. Aligned(c)
    BY PageDifference
  <2> QED BY <2>1, <2>2, Layout
<1>5. PAGE_ALIGN_DOWN(a) = a /\ PAGE_ALIGN_UP(b) = b
  BY <1>4, AlignDownIs, PageUp DEF Aligned
<1>6. k # 0 /\ l[k].type = VMA_UNMAP /\ b <= l[k].end
  BY <1>1, <1>5 DEF CanGrow, IsArea
<1> HIDE DEF n, Q, N, h
<1>7. k \in 1..Len(l) /\ l[k].start <= a
  BY <1>0, <1>4, <1>6, OwnerIs
<1>8. IsFree(m, a, c)
  <2> HIDE DEF a, b, c, k
  <2>1. a + c <= l[k].end
    BY <1>4, <1>6
  <2> QED BY <1>0, <1>4, <1>6, <1>7, <2>1, TakesArea
<1>9. b <= MAPPING_RESERVE_IN_SIGNAL_START
  BY <1>4, <1>8 DEF IsFree
<1>10. ASSUME NEW p \in Pages, a <= p, p < b PROVE Loose(m, p) /\ m.host[p] = "free"
  <2>1. p \in Nat
    BY PageIs
  <2>2. Has(l, p, VMA_UNMAP)
    BY <1>4, <1>8, <1>10, <2>1 DEF IsFree
  <2> QED BY <2>2, FreeIsLoose
<1>11. \A p \in Pages : /\ p \in N <=> old <= p /\ p < b
                        /\ p \in Q <=> old <= p /\ p < a
  BY PageOf DEF Q, N
<1>12. \A p \in Pages : /\ p \in N <=> p \in Q \/ (a <= p /\ p < b)
  <2> TAKE p \in Pages
  <2>1. p \in Nat
    BY PageIs
  <2>2. p \in N <=> old <= p /\ p < b
    BY <1>11
  <2>3. p \in Q <=> old <= p /\ p < a
    BY <1>11
  <2>4. old <= a /\ a \in Nat /\ b \in Nat /\ a < b
    BY <1>4
  <2> HIDE DEF a, b
  <2> QED BY <2>1, <2>2, <2>3, <2>4
<1>13. \A p \in Pages : p \in Q => Loose(m, p) /\ Has(l, p, VMA_MAP)
  <2>1. "guest" # "free"
    OBVIOUS
  <2> QED BY <2>1 DEF Sound, HostIsTracked, Q
<1> HIDE DEF a, b, c, k
<1>14. /\ Orderly(n) /\ n \in Manager
       /\ SameRest(h, n) /\ Costs(h, n, 2)
       /\ \A p \in Pages : Has(n.list, p, VMA_MAP) <=>
            IF a <= p /\ p < b THEN VMA_MAP = VMA_MAP ELSE Has(h.list, p, VMA_MAP)
  BY <1>3, <1>4, <1>9, Repaint DEF n
<1>15. /\ n.ongoing = m.ongoing /\ n.shm = m.shm
       /\ \A p \in Pages : n.host[p] = IF p \in N THEN "guest" ELSE m.host[p]
  BY <1>3, <1>12, <1>14 DEF SameRest
<1>16. \A p \in Pages : /\ p \in N => Has(n.list, p, VMA_MAP) /\ Loose(m, p)
                        /\ Has(l, p, VMA_MAP) => Has(n.list, p, VMA_MAP)
  BY <1>3, <1>10, <1>12, <1>13, <1>14
<1>17. Sound(n, th)
  BY <1>14, <1>15, <1>16, Undisturbed
<1>18. Takes(m, n, Q)
  BY <1>10, <1>12, <1>15 DEF Takes
<1>19. Costs(m, n, 4)
  <2>1. Costs(m, n, 0 + 2)
    BY <1>0, <1>3, <1>14, CostsAdd
  <2>2. Costs(m, n, 2)
    BY <2>1
  <2> QED BY <2>2, <1>0, <1>14, CostsMore
<1> QED BY <1>2, <1>15, <1>17, <1>18, <1>19 DEF Works, Q

\* The mapping moves to a place umeq has found.
LEMMA WorksRemapMove ==
  ASSUME NEW m, NEW th \in [Threads -> ThreadState], Sound(m, th),
         NEW old \in Nat, NEW oldlen \in Nat, NEW newlen \in Nat, Aligned(old),
         Aligned(oldlen), Aligned(newlen),
         MAPPING_START <= old, oldlen > 0, newlen > 0,
         old + oldlen <= MAPPING_RESERVE_IN_SIGNAL_START, NEW ok \in BOOLEAN,
         \A p \in PagesOf(old, oldlen) : Loose(m, p),
         ok => \A p \in PagesOf(old, oldlen) : m.host[p] = "guest"
  PROVE  Works(m, RemapMove(m, old, oldlen, newlen, ok), th, PagesOf(old, oldlen), 4)
<1> DEFINE r == find_vma_with_kernel_choose(m, newlen)
           Q == PagesOf(old, oldlen)
           n == RemapMove(m, old, oldlen, newlen, ok)
<1>0. Orderly(m) /\ m \in Manager /\ Laid(m)
  BY DEF Sound, Orderly, Laid
<1>1. PAGE_ALIGN_UP(newlen) = newlen
  BY PageUp
<1>2. Finds(m, r, newlen)
  BY <1>0, <1>1, LaidKernelChoose
<1>3. n = IF r.addr = ENOMEM_64 THEN r.m
          ELSE IF ok
               THEN insert_unmap_area(HostRemap(r.m, old, oldlen, r.addr, newlen), old, old + oldlen)
               ELSE insert_unmap_area(r.m, r.addr, r.addr + newlen)
  BY <1>1 DEF RemapMove
<1> HIDE DEF r, n
<1>4. ASSUME NEW q, NEW j \in Nat, j <= 4, Works(m, q, th, {}, j) PROVE Works(m, q, th, Q, 4)
  <2>1. q \in Manager
    BY <1>4 DEF Works, Sound, Orderly, Laid
  <2>2. Costs(m, q, 4)
    BY <1>0, <1>4, <2>1, CostsMore DEF Works
  <2> QED BY <1>4, <2>2 DEF Works, Takes
<1>5. CASE r.addr = ENOMEM_64
  <2>1. Works(m, r.m, th, {}, 2)
    BY <1>2, <1>5, FoundNothing
  <2>2. n = r.m
    BY <1>3, <1>5
  <2> HIDE DEF Q
  <2> QED BY <2>1, <2>2, <1>4 DEF n, Q
<1>6. CASE r.addr # ENOMEM_64 /\ ~ok
  <2>1. Works(m, n, th, {}, 4)
    BY <1>2, <1>3, <1>6, FoundAndGivenBack
  <2> HIDE DEF Q
  <2> QED BY <2>1, <1>4 DEF n, Q
<1>7. CASE r.addr # ENOMEM_64 /\ ok
  <2> DEFINE e == r.addr + newlen
             a == old + oldlen
             N == PagesOf(r.addr, newlen)
             h == HostRemap(r.m, old, oldlen, r.addr, newlen)
             i == insert_area(h, old, a, VMA_UNMAP)
  <2>1. /\ r.addr \in Nat /\ e \in Nat
        /\ r.m \in Manager /\ Orderly(r.m)
        /\ SameRest(m, r.m) /\ Costs(m, r.m, 2)
        /\ \A p \in Pages :
             /\ Has(r.m.list, p, VMA_MAP) <=>
                  (r.addr <= p /\ p < e) \/ Has(m.list, p, VMA_MAP)
             /\ r.addr <= p /\ p < e => /\ Loose(m, p) /\ m.host[p] = "free"
                                        /\ ~Has(m.list, p, VMA_MAP)
    BY <1>2, <1>7, FoundPages
  <2>2. \A p \in Pages : /\ p \in N <=> r.addr <= p /\ p < e
                         /\ p \in Q <=> old <= p /\ p < a
    BY PageOf
  <2>3. a \in Nat /\ Aligned(a) /\ old < a
    BY PageSum
  <2>4. n = i
    BY <1>3, <1>7 DEF insert_unmap_area
  <2>5. /\ Orderly(h) /\ h \in Manager
        /\ h.list = r.m.list /\ h.ongoing = r.m.ongoing /\ h.shm = r.m.shm
        /\ Costs(r.m, h, 0)
        /\ \A p \in Pages : h.host[p] = IF p \in N THEN "guest"
                                        ELSE IF p \in Q THEN "free" ELSE r.m.host[p]
    BY <2>1, HostRemapIs
  <2>a. a <= MAPPING_RESERVE_IN_SIGNAL_START
    OBVIOUS
  <2>6. \A p \in Pages : p \in Q => Loose(m, p) /\ Has(m.list, p, VMA_MAP)
    <3>1. \A p \in Q : m.host[p] = "guest" /\ Loose(m, p)
      BY <1>7
    <3>2. "guest" # "free"
      OBVIOUS
    <3> QED BY <3>1, <3>2 DEF Sound, HostIsTracked
  <2> HIDE DEF e, a, N, h, Q
  <2>7. /\ Orderly(i) /\ i \in Manager
        /\ SameRest(h, i) /\ Costs(h, i, 2)
        /\ \A p \in Pages : Has(i.list, p, VMA_MAP) <=>
             IF old <= p /\ p < a THEN VMA_MAP = VMA_UNMAP ELSE Has(h.list, p, VMA_MAP)
    BY <2>3, <2>5, <2>a, Repaint
  <2> HIDE DEF i
  <2>8. /\ i.ongoing = m.ongoing /\ i.shm = m.shm
        /\ \A p \in Pages : i.host[p] = IF p \in N THEN "guest"
                                        ELSE IF p \in Q THEN "free" ELSE m.host[p]
    BY <2>1, <2>5, <2>7 DEF SameRest
  <2>9. \A p \in Pages : /\ p \in N => Has(i.list, p, VMA_MAP) /\ Loose(m, p) /\ m.host[p] = "free"
                         /\ p \notin Q =>
                              (Has(m.list, p, VMA_MAP) => Has(i.list, p, VMA_MAP))
    BY <2>1, <2>2, <2>5, <2>6, <2>7
  <2>10. Sound(i, th)
    <3> DEFINE B == Q \cup N
    <3>1. \A p \in Pages : p \notin B =>
             /\ i.host[p] = m.host[p]
             /\ Has(m.list, p, VMA_MAP) => Has(i.list, p, VMA_MAP)
      BY <2>8, <2>9
    <3>2. \A p \in Pages : p \in B =>
             /\ Loose(m, p)
             /\ i.host[p] # "free" => Has(i.list, p, VMA_MAP)
      BY <2>6, <2>8, <2>9
    <3> HIDE DEF B
    <3> QED BY <2>7, <2>8, <3>1, <3>2, Undisturbed
  <2>11. Takes(m, i, Q)
    BY <2>8, <2>9 DEF Takes
  <2>12. Costs(m, i, 4)
    <3>1. Costs(m, h, 2 + 0)
      BY <1>0, <2>1, <2>5, CostsAdd
    <3>2. Costs(m, h, 2)
      BY <3>1
    <3>3. Costs(m, i, 2 + 2)
      BY <3>2, <1>0, <2>5, <2>7, CostsAdd
    <3> QED BY <3>3
  <2> QED BY <2>4, <2>8, <2>10, <2>11, <2>12 DEF Works, n, Q
<1> QED BY <1>5, <1>6, <1>7

-----------------------------------------------------------------------------
(* Segments and pending unmaps come and go.                                *)

\* r is s without its k-th element.
Without(r, s, k) ==
  /\ Len(r) \in Nat /\ Len(r) = Len(s) - 1 /\ Len(s) \in Nat
  /\ \A i \in 1..Len(r) : \E j \in 1..Len(s) :
       j # k /\ r[i] = s[j] /\ j = IF i < k THEN i ELSE i + 1
  /\ \A j \in 1..Len(s) : j # k => \E i \in 1..Len(r) : r[i] = s[j]

\* The elements that are left when one is removed.
LEMMA RemoveAtElements ==
  ASSUME NEW S, NEW s \in Seq(S), NEW k \in 1..Len(s)
  PROVE  RemoveAt(s, k) \in Seq(S) /\ Without(RemoveAt(s, k), s, k)
<1> DEFINE r == RemoveAt(s, k)
<1>1. /\ r \in Seq(S) /\ Len(r) = Len(s) - 1 /\ Len(s) \in Nat
      /\ \A i \in 1..Len(r) : r[i] = s[IF i < k THEN i ELSE i + 1]
  BY RemoveAtIs
<1>2. Len(r) \in Nat
  BY <1>1, LenProperties
<1> HIDE DEF r
<1>3. ASSUME NEW i \in 1..Len(r)
      PROVE  \E j \in 1..Len(s) : j # k /\ r[i] = s[j] /\ j = IF i < k THEN i ELSE i + 1
  <2> DEFINE j == IF i < k THEN i ELSE i + 1
  <2>1. j \in 1..Len(s) /\ j # k
    BY <1>1, <1>2
  <2>2. r[i] = s[j]
    BY <1>1
  <2> QED BY <2>1, <2>2
<1>4. ASSUME NEW j \in 1..Len(s), j # k PROVE \E i \in 1..Len(r) : r[i] = s[j]
  <2> DEFINE i == IF j < k THEN j ELSE j - 1
  <2>1. i \in 1..Len(r) /\ (IF i < k THEN i ELSE i + 1) = j
    BY <1>1, <1>2, <1>4
  <2>2. r[i] = s[IF i < k THEN i ELSE i + 1]
    BY <1>1, <2>1
  <2>3. r[i] = s[j]
    BY <2>1, <2>2
  <2> QED BY <2>1, <2>3
<1> QED BY <1>1, <1>2, <1>3, <1>4 DEF Without, r

\* Entries without common pages stay so when one is removed.
LEMMA NoCommonRemove ==
  ASSUME NEW S, NEW s \in Seq(S), NEW k \in 1..Len(s), NoCommonPage(s)
  PROVE  NoCommonPage(RemoveAt(s, k))
<1> DEFINE r == RemoveAt(s, k)
<1>a. r = RemoveAt(s, k)
  OBVIOUS
<1> HIDE DEF r
<1>b. Without(r, s, k)
  BY <1>a, RemoveAtElements
<1>1. /\ Len(r) \in Nat
      /\ \A i \in 1..Len(r) : \E j \in 1..Len(s) :
           j # k /\ r[i] = s[j] /\ j = IF i < k THEN i ELSE i + 1
  BY <1>b DEF Without
<1>2. ASSUME NEW g \in 1..Len(r), NEW h \in 1..Len(r), g # h, NEW p \in Pages
      PROVE  ~(In(p, r[g]) /\ In(p, r[h]))
  <2>1. PICK i \in 1..Len(s) : r[g] = s[i] /\ i = IF g < k THEN g ELSE g + 1
    BY <1>1
  <2>2. PICK j \in 1..Len(s) : r[h] = s[j] /\ j = IF h < k THEN h ELSE h + 1
    BY <1>1
  <2>3. i # j
    BY <1>1, <1>2, <2>1, <2>2
  <2>4. ~(In(p, s[i]) /\ In(p, s[j]))
    BY <2>3 DEF NoCommonPage
  <2> QED BY <2>1, <2>2, <2>4
<1> QED BY <1>2 DEF NoCommonPage, r

\* And when one is added that shares no page with them.
LEMMA NoCommonCons ==
  ASSUME NEW S, NEW s \in Seq(S), NEW e \in S, NoCommonPage(s),
         \A j \in 1..Len(s) : \A p \in Pages : ~(In(p, e) /\ In(p, s[j]))
  PROVE  NoCommonPage(<<e>> \o s)
<1> DEFINE r == <<e>> \o s
<1>1. /\ Len(r) = Len(s) + 1 /\ Len(s) \in Nat /\ r[1] = e
      /\ \A i \in 1..Len(r) : i # 1 => i - 1 \in 1..Len(s) /\ r[i] = s[i - 1]
  BY ConsIs
<1> HIDE DEF r
<1>2. ASSUME NEW g \in 1..Len(r), NEW h \in 1..Len(r), g # h, NEW p \in Pages
      PROVE  ~(In(p, r[g]) /\ In(p, r[h]))
  <2>1. CASE g = 1
    <3>1. h - 1 \in 1..Len(s) /\ r[h] = s[h - 1] /\ r[g] = e
      BY <1>1, <1>2, <2>1
    <3> QED BY <3>1
  <2>2. CASE h = 1
    <3>1. g - 1 \in 1..Len(s) /\ r[g] = s[g - 1] /\ r[h] = e
      BY <1>1, <1>2, <2>2
    <3> QED BY <3>1
  <2>3. CASE g # 1 /\ h # 1
    <3>1. /\ g - 1 \in 1..Len(s) /\ r[g] = s[g - 1] /\ h - 1 \in 1..Len(s) /\ r[h] = s[h - 1]
      BY <1>1, <2>3
    <3>2. g - 1 # h - 1
      BY <1>1, <1>2
    <3>3. ~(In(p, s[g - 1]) /\ In(p, s[h - 1]))
      BY <3>1, <3>2 DEF NoCommonPage
    <3> QED BY <3>1, <3>3
  <2> QED BY <2>1, <2>2, <2>3
<1> QED BY <1>2 DEF NoCommonPage, r

\* What the host has at a page of a pending unmap.
LEMMA PendingHost ==
  ASSUME NEW m, NEW th \in [Threads -> ThreadState], Sound(m, th), NEW k \in 1..Len(m.ongoing),
         NEW p \in Pages, In(p, m.ongoing[k])
  PROVE  /\ m.host[p] # "shm"
         /\ m.host[p] # "free" => /\ ~m.ongoing[k].done /\ m.host[p] = m.ongoing[k].by
                                  /\ th[m.ongoing[k].by].at = "leaves"
<1> DEFINE d == m.ongoing[k]
           t == d.by
<1>0. d \in OngoingEntry /\ t \in Threads /\ d.done \in BOOLEAN
  <2>1. m.ongoing \in Seq(OngoingEntry)
    BY ManagerFields DEF Sound, Orderly, Laid
  <2>2. d \in OngoingEntry
    BY <2>1, ElementOfSeq
  <2> QED BY <2>2 DEF OngoingEntry
<1>1. "free" # "shm" /\ t # "shm"
  BY <1>0, ThreadNames
<1>2. CASE d.done
  <2>1. m.host[p] = "free"
    BY <1>2 DEF Sound, PendingIsKept
  <2> QED BY <1>1, <2>1
<1>3. CASE ~d.done
  <2>1. th[t].at \in {"leaves", "marks"} /\ d.start = th[t].stack /\ d.end = th[t].stack + StackSize
    BY <1>3 DEF Sound, PendingIsKept
  <2>2. p \in PagesOf(th[t].stack, StackSize)
    BY <2>1, PageOf DEF In
  <2>3. CASE th[t].at = "leaves"
    <3>1. m.host[p] = t
      BY <1>0, <2>2, <2>3 DEF Sound, StacksAreHeld
    <3> QED BY <1>1, <1>3, <2>3, <3>1
  <2>4. CASE th[t].at = "marks"
    <3>1. m.host[p] = "free"
      BY <1>0, <2>2, <2>4 DEF Sound, StacksAreHeld
    <3> QED BY <1>1, <3>1
  <2> QED BY <2>1, <2>3, <2>4
<1> QED BY <1>0, <1>2, <1>3

\* A new segment, on pages that are no other segment's.
LEMMA WorksShmInsert ==
  ASSUME NEW m, NEW th \in [Threads -> ThreadState], Sound(m, th),
         NEW start \in Nat, NEW end \in Nat,
         NEW e, e = [start |-> start, end |-> end], InSpace(e),
         \A p \in Pages : In(p, e) =>
           m.host[p] = "shm" /\ \A k \in 1..Len(m.shm) : ~In(p, m.shm[k])
  PROVE  WorksOrStops(m, shm_insert(m, start, end), th, {}, 2)
<1> DEFINE w == OwnPage(m)
           p == IF m.nshm > 0 THEN m ELSE [w EXCEPT !.nshm = SHMAT_DESC_PER_PAGE]
           s == <<e>> \o p.shm
           x == p.nshm - 1
           n == shm_insert(m, start, end)
<1>0. m \in Manager /\ m.nshm \in Nat /\ Laid(m)
  BY ManagerFields DEF Sound, Orderly, Laid
<1>1. WorksOrStops(m, w, th, {}, 2) /\ w.shm = m.shm
  BY WorksOwnPage
<1>2. n = [p EXCEPT !.nshm = x, !.shm = s]
  BY DEF shm_insert
<1> HIDE DEF w, n
<1>3. WorksOrStops(m, p, th, {}, 2) /\ p.shm = m.shm /\ p.nshm \in Nat /\ p.nshm > 0
  <2>1. CASE m.nshm > 0
    <3>1. Costs(m, m, 2)
      BY <1>0, CostsNothing
    <3>2. Takes(m, m, {})
      BY DEF Takes
    <3> QED BY <1>0, <2>1, <3>1, <3>2 DEF WorksOrStops
  <2>2. CASE ~(m.nshm > 0)
    <3> DEFINE q == [w EXCEPT !.nshm = SHMAT_DESC_PER_PAGE]
    <3>1. p = q
      BY <2>2
    <3>2. SHMAT_DESC_PER_PAGE \in Nat /\ SHMAT_DESC_PER_PAGE > 0
      BY ShmDescAssumption
    <3>3. w \in Manager
      BY <1>1 DEF WorksOrStops, Sound, Orderly, Laid
    <3>4. /\ q \in Manager /\ q.list = w.list /\ q.shm = w.shm /\ q.ongoing = w.ongoing
          /\ q.nshm = SHMAT_DESC_PER_PAGE /\ q.host = w.host /\ q.cursor = w.cursor
          /\ q.nfree = w.nfree /\ q.ndesc = w.ndesc /\ q.next = w.next /\ q.fail = w.fail
      BY <3>2, <3>3 DEF Manager
    <3> HIDE DEF p, q
    <3>5. Sound(q, th)
      BY <1>1, <3>4, SoundSame DEF WorksOrStops
    <3>6. Takes(m, q, {})
      BY <1>1, <3>4 DEF WorksOrStops, Takes
    <3>7. q.fail = "no room" \/ Costs(m, q, 2)
      <4>1. Spare(q) = Spare(w) /\ Balance(q) = Balance(w)
        BY <3>4 DEF Spare, Balance
      <4> QED BY <1>1, <3>4, <4>1 DEF WorksOrStops, Costs
    <3>8. q.ongoing = m.ongoing
      BY <1>1, <3>4 DEF WorksOrStops
    <3> QED BY <1>1, <3>1, <3>2, <3>4, <3>5, <3>6, <3>7, <3>8 DEF WorksOrStops
  <2> QED BY <2>1, <2>2
<1> HIDE DEF p
<1>4. Sound(p, th) /\ p \in Manager /\ p.shm \in Seq(ShmEntry) /\ p.ongoing = m.ongoing
  BY <1>3, ManagerFields DEF WorksOrStops, Sound, Orderly, Laid
<1>5. e \in ShmEntry /\ e.start <= e.end
  BY DEF ShmEntry, InSpace
<1>6. /\ s \in Seq(ShmEntry) /\ Ordered(s) /\ x \in Nat
      /\ Len(s) = Len(p.shm) + 1 /\ Len(p.shm) \in Nat /\ s[1] = e
      /\ \A i \in 1..Len(s) : i # 1 => i - 1 \in 1..Len(p.shm) /\ s[i] = p.shm[i - 1]
  <2>1. Ordered(p.shm)
    BY <1>4 DEF Sound, Orderly, Laid
  <2> QED BY <1>3, <1>4, <1>5, <2>1, ConsIs, OrderedCons
<1>7. NoCommonPage(s)
  <2>1. NoCommonPage(p.shm)
    BY <1>4 DEF Sound
  <2> QED BY <1>3, <1>4, <1>5, <2>1, NoCommonCons
<1> HIDE DEF s, x
<1>8. /\ n \in Manager /\ n.list = p.list /\ n.shm = s /\ n.ongoing = p.ongoing
      /\ n.host = p.host /\ n.cursor = p.cursor
      /\ n.nfree = p.nfree /\ n.ndesc = p.ndesc /\ n.next = p.next /\ n.fail = p.fail
  BY <1>2, <1>4, <1>6 DEF Manager
<1>9. SegmentsAreHeld(n)
  <2> SUFFICES ASSUME NEW k \in 1..Len(s)
               PROVE  /\ InSpace(s[k])
                      /\ \A q \in Pages : In(q, s[k]) => p.host[q] = "shm"
    BY <1>8 DEF SegmentsAreHeld
  <2>1. CASE k = 1
    <3>1. \A q \in Pages : In(q, e) => p.host[q] = "shm"
      <4> TAKE q \in Pages
      <4>1. "shm" # "free"
        OBVIOUS
      <4>2. m.host[q] # "free" => p.host[q] = m.host[q]
        BY <1>3 DEF WorksOrStops, Takes
      <4> QED BY <4>1, <4>2
    <3> QED BY <2>1, <3>1, <1>6
  <2>2. CASE k # 1
    <3>1. k - 1 \in 1..Len(p.shm) /\ s[k] = p.shm[k - 1]
      BY <2>2, <1>6
    <3> QED BY <3>1, <1>4 DEF Sound, SegmentsAreHeld
  <2> QED BY <2>1, <2>2
<1>10. Laid(n)
  BY <1>4, <1>6, <1>8 DEF Sound, Orderly, Laid
<1>11. Orderly(n)
  BY <1>4, <1>8, <1>10 DEF Sound, Orderly
<1>12. HostIsTracked(n) /\ PendingIsKept(n, th) /\ NoCommonPage(n.ongoing) /\ StacksAreHeld(n, th)
  BY <1>4, <1>8 DEF Sound, HostIsTracked, PendingIsKept, StacksAreHeld
<1>13. Sound(n, th)
  BY <1>7, <1>8, <1>9, <1>11, <1>12 DEF Sound
<1>14. Takes(m, n, {})
  BY <1>3, <1>8 DEF WorksOrStops, Takes
<1>15. n.fail = "no room" \/ Costs(m, n, 2)
  <2>1. Spare(n) = Spare(p) /\ Balance(n) = Balance(p)
    BY <1>8 DEF Spare, Balance
  <2> QED BY <1>3, <1>8, <2>1 DEF WorksOrStops, Costs
<1> QED BY <1>4, <1>8, <1>13, <1>14, <1>15 DEF WorksOrStops, n

\* The cost of two steps.
LEMMA CostsTwice ==
  ASSUME NEW m \in Manager, NEW n \in Manager, NEW o \in Manager, Costs(m, n, 2), Costs(n, o, 2)
  PROVE  Costs(m, o, 4)
<1>1. Costs(m, o, 2 + 2)
  BY CostsAdd
<1> QED BY <1>1

\* shmat without an address.
LEMMA WorksShmat ==
  ASSUME NEW m, NEW th \in [Threads -> ThreadState], Sound(m, th),
         NEW len \in Nat, len > 0, NEW ok \in BOOLEAN
  PROVE  WorksOrStops(m, internal_shmat(m, 0, len, ok), th, {}, 4)
<1> DEFINE length == PAGE_ALIGN_UP(len)
           r == find_vma_with_kernel_choose(m, length)
           end == r.addr + length
           Q == PagesOf(r.addr, len)
           h == SetHost(r.m, Q, "shm")
           n == internal_shmat(m, 0, len, ok)
<1>0. Orderly(m) /\ m \in Manager /\ Laid(m)
  BY DEF Sound, Orderly, Laid
<1>1. length \in Nat /\ Aligned(length) /\ len <= length /\ length > 0
  BY PageUp
<1>2. PAGE_ALIGN_UP(length) = length
  BY <1>1, PageUp
<1>3. Finds(m, r, length)
  BY <1>0, <1>1, <1>2, LaidKernelChoose
<1>4. n = IF r.addr = ENOMEM_64 THEN r.m
          ELSE IF ok THEN shm_insert(h, r.addr, end)
          ELSE insert_unmap_area(r.m, r.addr, end)
  BY DEF internal_shmat
<1>5. ASSUME NEW q, NEW j \in Nat, j <= 4, Works(m, q, th, {}, j)
      PROVE  WorksOrStops(m, q, th, {}, 4)
  <2>1. q \in Manager
    BY <1>5 DEF Works, Sound, Orderly, Laid
  <2>2. Costs(m, q, 4)
    BY <1>0, <1>5, <2>1, CostsMore DEF Works
  <2> QED BY <1>5, <2>2 DEF Works, WorksOrStops
<1> HIDE DEF r, n, length
<1>6. CASE r.addr = ENOMEM_64
  <2>1. Works(m, r.m, th, {}, 2)
    BY <1>1, <1>3, <1>6, FoundNothing
  <2>2. n = r.m
    BY <1>4, <1>6
  <2> QED BY <2>1, <2>2, <1>5 DEF n
<1>7. CASE r.addr # ENOMEM_64 /\ ~ok
  <2>1. Works(m, n, th, {}, 4)
    BY <1>1, <1>3, <1>4, <1>7, FoundAndGivenBack
  <2> QED BY <2>1, <1>5 DEF n
<1>8. CASE r.addr # ENOMEM_64 /\ ok
  <2>1. /\ r.addr \in Nat /\ Aligned(r.addr) /\ MAPPING_START <= r.addr
        /\ end \in Nat /\ end <= MAPPING_RESERVE_IN_SIGNAL_START
        /\ \A p \in Pages : r.addr <= p /\ p < end => m.host[p] = "free"
    BY <1>1, <1>3, <1>8, FoundPages
  <2>2. /\ Works(m, h, th, {}, 2) /\ h.shm = m.shm
        /\ \A p \in Pages : h.host[p] = IF p \in Q THEN "shm" ELSE m.host[p]
    BY <1>1, <1>3, <1>8, ContentsAre, FoundAndMapped
  <2>3. \A p \in Pages : p \in Q <=> r.addr <= p /\ p < end
    <3>1. r.addr + len <= MAPPING_RESERVE_IN_SIGNAL_START
      BY <1>1, <2>1, Layout
    <3>2. PAGE_ALIGN_UP(r.addr + len) = end
      BY <2>1, AlignUpShift DEF length
    <3> QED BY <2>1, <3>1, <3>2, GuestRange
  <2> DEFINE e == [start |-> r.addr, end |-> end]
  <2>4. e.start = r.addr /\ e.end = end
    OBVIOUS
  <2>5. InSpace(e)
    <3>1. Aligned(end) /\ r.addr < end
      BY <1>1, <2>1, PageSum
    <3> HIDE DEF e, end
    <3> QED BY <2>1, <2>4, <3>1 DEF InSpace
  <2> HIDE DEF e, end, h, Q
  <2>6. \A p \in Pages : In(p, e) =>
          h.host[p] = "shm" /\ \A k \in 1..Len(h.shm) : ~In(p, h.shm[k])
    <3> SUFFICES ASSUME NEW p \in Pages, In(p, e)
                 PROVE  h.host[p] = "shm" /\ \A k \in 1..Len(m.shm) : ~In(p, m.shm[k])
      BY <2>2
    <3>1. r.addr <= p /\ p < end
      BY <2>4 DEF In
    <3>2. m.host[p] = "free" /\ h.host[p] = "shm"
      BY <2>1, <2>2, <2>3, <3>1
    <3>3. "free" # "shm"
      OBVIOUS
    <3> QED BY <3>2, <3>3 DEF Sound, SegmentsAreHeld
  <2> DEFINE q == shm_insert(h, r.addr, end)
  <2>7. WorksOrStops(h, q, th, {}, 2)
    <3>1. Sound(h, th)
      BY <2>2 DEF Works
    <3>2. e = [start |-> r.addr, end |-> end]
      BY DEF e
    <3> QED BY <2>1, <2>5, <2>6, <3>1, <3>2, WorksShmInsert
  <2>8. n = q
    BY <1>4, <1>8
  <2> HIDE DEF q
  <2>9. h \in Manager /\ q \in Manager
    BY <2>2, <2>7 DEF Works, WorksOrStops, Sound, Orderly, Laid
  <2>10. q.fail = "no room" \/ Costs(m, q, 4)
    <3> SUFFICES ASSUME q.fail # "no room" PROVE Costs(m, q, 4)
      OBVIOUS
    <3>1. Costs(m, h, 2) /\ Costs(h, q, 2)
      BY <2>2, <2>7 DEF Works, WorksOrStops
    <3> QED BY <1>0, <2>9, <3>1, CostsTwice
  <2>11. Takes(m, q, {})
    BY <2>2, <2>7 DEF Works, WorksOrStops, Takes
  <2> QED BY <2>2, <2>7, <2>8, <2>10, <2>11 DEF Works, WorksOrStops, n
<1> QED BY <1>6, <1>7, <1>8

\* A pending unmap or a segment less.
LEMMA WithoutSegment ==
  ASSUME NEW m, NEW th \in [Threads -> ThreadState], Sound(m, th), NEW k \in 1..Len(m.shm)
  PROVE  LET n == [m EXCEPT !.nshm = m.nshm, !.shm = RemoveAt(m.shm, k)] IN
         /\ Sound(n, th)
         /\ n.shm = RemoveAt(m.shm, k) /\ n.ongoing = m.ongoing /\ n.host = m.host /\ n.list = m.list
         /\ \A p \in Pages : In(p, m.shm[k]) => Loose(n, p)
<1> DEFINE s == RemoveAt(m.shm, k)
           n == [m EXCEPT !.nshm = m.nshm, !.shm = s]
<1> SUFFICES /\ Sound(n, th)
             /\ n.shm = s /\ n.ongoing = m.ongoing /\ n.host = m.host /\ n.list = m.list
             /\ \A p \in Pages : In(p, m.shm[k]) => Loose(n, p)
  BY Zenon
<1>0. m \in Manager /\ m.shm \in Seq(ShmEntry) /\ m.nshm \in Nat /\ Ordered(m.shm) /\ NoCommonPage(m.shm)
  BY ManagerFields DEF Sound, Orderly, Laid
<1>a. s = RemoveAt(m.shm, k)
  OBVIOUS
<1> HIDE DEF s
<1>b. s \in Seq(ShmEntry) /\ Without(s, m.shm, k)
  BY <1>0, <1>a, RemoveAtElements
<1>1. /\ s \in Seq(ShmEntry) /\ Len(s) \in Nat
      /\ \A i \in 1..Len(s) : \E j \in 1..Len(m.shm) :
           j # k /\ s[i] = m.shm[j] /\ j = IF i < k THEN i ELSE i + 1
  BY <1>b DEF Without
<1>2. Ordered(s) /\ NoCommonPage(s)
  BY <1>0, <1>a, OrderedRemove, NoCommonRemove
<1>3. /\ n \in Manager
      /\ n.list = m.list /\ n.cursor = m.cursor /\ n.shm = s /\ n.ongoing = m.ongoing
      /\ n.host = m.host
  BY <1>0, <1>1 DEF Manager
<1> HIDE DEF n
<1>4. SegmentsAreHeld(n)
  <2> SUFFICES ASSUME NEW i \in 1..Len(s)
               PROVE  /\ InSpace(s[i])
                      /\ \A p \in Pages : In(p, s[i]) => m.host[p] = "shm"
    BY <1>3 DEF SegmentsAreHeld
  <2>1. PICK j \in 1..Len(m.shm) : s[i] = m.shm[j]
    BY <1>1
  <2> QED BY <2>1 DEF Sound, SegmentsAreHeld
<1>5. Laid(n)
  BY <1>2, <1>3 DEF Sound, Orderly, Laid
<1>6. Orderly(n)
  BY <1>3, <1>5 DEF Sound, Orderly
<1>7. HostIsTracked(n) /\ PendingIsKept(n, th) /\ NoCommonPage(n.ongoing) /\ StacksAreHeld(n, th)
  BY <1>3 DEF Sound, HostIsTracked, PendingIsKept, StacksAreHeld
<1>8. Sound(n, th)
  BY <1>2, <1>3, <1>4, <1>6, <1>7 DEF Sound
<1>9. ASSUME NEW p \in Pages, In(p, m.shm[k]) PROVE Loose(n, p)
  <2>1. m.host[p] = "shm"
    BY <1>9 DEF Sound, SegmentsAreHeld
  <2>2. "shm" \notin Threads
    BY ThreadNames
  <2>3. \A i \in 1..Len(m.ongoing) : ~In(p, m.ongoing[i])
    BY <2>1, PendingHost
  <2>4. ASSUME NEW i \in 1..Len(s) PROVE ~In(p, s[i])
    <3>1. PICK j \in 1..Len(m.shm) : j # k /\ s[i] = m.shm[j]
      BY <1>1
    <3> QED BY <1>0, <1>9, <3>1 DEF NoCommonPage
  <2> QED BY <1>3, <2>1, <2>2, <2>3, <2>4 DEF Loose
<1> QED BY <1>3, <1>8, <1>9

\* shmdt: the segment goes, and with it its pages only.
LEMMA WorksShmRemove ==
  ASSUME NEW m, NEW th \in [Threads -> ThreadState], Sound(m, th), NEW k \in 1..Len(m.shm)
  PROVE  Works(m, shm_remove(m, k), th, PagesOf(m.shm[k].start, m.shm[k].end - m.shm[k].start), 2)
<1> DEFINE d == m.shm[k]
           Q == PagesOf(d.start, d.end - d.start)
           h == SetHost(m, {p \in Q : m.host[p] = "shm"}, "free")
           u == insert_unmap_area(h, d.start, d.end)
           s == RemoveAt(m.shm, k)
           x == m.nshm + 1
           n == shm_remove(m, k)
           m1 == [m EXCEPT !.nshm = m.nshm, !.shm = s]
<1>0. m \in Manager /\ m.shm \in Seq(ShmEntry) /\ m.nshm \in Nat /\ Ordered(m.shm) /\ Orderly(m)
  BY ManagerFields DEF Sound, Orderly, Laid
<1>1. d.start \in Nat /\ d.end \in Nat /\ InSpace(d)
  <2>1. d \in ShmEntry
    BY <1>0, ElementOfSeq
  <2> QED BY <2>1 DEF ShmEntry, Sound, SegmentsAreHeld
<1>2. /\ Orderly(h) /\ h \in Manager
      /\ h.list = m.list /\ h.ongoing = m.ongoing /\ h.shm = m.shm /\ h.nshm = m.nshm
      /\ Costs(m, h, 0)
      /\ \A p \in Pages : h.host[p] = IF p \in {q \in Q : m.host[q] = "shm"} THEN "free" ELSE m.host[p]
  BY <1>0, ContentsAre, HostOnly
<1>3. /\ Sound(m1, th)
      /\ m1.shm = s /\ m1.ongoing = m.ongoing /\ m1.host = m.host /\ m1.list = m.list
      /\ \A p \in Pages : In(p, d) => Loose(m1, p)
  BY WithoutSegment
<1>4. n = [u EXCEPT !.nshm = u.nshm + 1, !.shm = RemoveAt(u.shm, k)]
  BY DEF shm_remove
<1>5. s \in Seq(ShmEntry) /\ Ordered(s)
  BY <1>0, RemoveAtIs, OrderedRemove
<1> HIDE DEF m1, s, n, h
<1>6. \A p \in Pages : p \in Q <=> In(p, d)
  <2> TAKE p \in Pages
  <2>1. p \in Nat
    BY PageIs
  <2> QED BY <1>1, <2>1, PageOf DEF In
<1>7. \A p \in Pages : h.host[p] = IF In(p, d) THEN "free" ELSE m.host[p]
  <2>1. \A p \in Pages : In(p, d) => m.host[p] = "shm"
    BY DEF Sound, SegmentsAreHeld
  <2> QED BY <1>2, <1>6, <2>1
<1> HIDE DEF Q, d
<1>8. /\ Orderly(u) /\ u \in Manager /\ SameRest(h, u) /\ Costs(h, u, 2)
      /\ \A p \in Pages : Has(u.list, p, VMA_MAP) <=>
           IF d.start <= p /\ p < d.end THEN VMA_MAP = VMA_UNMAP ELSE Has(h.list, p, VMA_MAP)
  <2>1. VMA_UNMAP \in {VMA_UNMAP, VMA_MAP}
    OBVIOUS
  <2> QED BY <1>1, <1>2, <2>1, Repaint DEF InSpace, insert_unmap_area
<1> HIDE DEF u
<1>9. u.shm = m.shm /\ u.nshm = m.nshm /\ u.ongoing = m.ongoing /\ u.host = h.host
  BY <1>2, <1>8 DEF SameRest
<1>10. n = [u EXCEPT !.nshm = x, !.shm = s] /\ x \in Nat
  BY <1>0, <1>4, <1>9 DEF s
<1> HIDE DEF x
<1>11. /\ n \in Manager /\ n.list = u.list /\ n.shm = s /\ n.ongoing = u.ongoing
       /\ n.host = u.host /\ n.cursor = u.cursor
       /\ n.nfree = u.nfree /\ n.ndesc = u.ndesc /\ n.next = u.next /\ n.fail = u.fail
  BY <1>5, <1>8, <1>10 DEF Manager
<1>12. Orderly(n)
  <2>1. Laid(n)
    BY <1>5, <1>8, <1>11 DEF Orderly, Laid
  <2> QED BY <1>8, <1>11, <2>1 DEF Orderly
<1>13. Sound(n, th)
  <2> DEFINE P == {p \in Pages : In(p, d)}
  <2>1. \A p \in Pages : p \notin P =>
           /\ n.host[p] = m1.host[p]
           /\ Has(m1.list, p, VMA_MAP) => Has(n.list, p, VMA_MAP)
    BY <1>2, <1>3, <1>7, <1>8, <1>9, <1>11 DEF In
  <2>2. \A p \in Pages : p \in P =>
           /\ Loose(m1, p)
           /\ n.host[p] # "free" => Has(n.list, p, VMA_MAP)
    BY <1>3, <1>7, <1>9, <1>11
  <2>3. n.ongoing = m1.ongoing /\ n.shm = m1.shm
    BY <1>3, <1>9, <1>11
  <2> HIDE DEF P
  <2> QED BY <1>3, <1>12, <2>1, <2>2, <2>3, Undisturbed
<1>14. Takes(m, n, Q)
  BY <1>6, <1>7, <1>9, <1>11 DEF Takes
<1>15. Costs(m, n, 2)
  <2>1. Costs(m, u, 0 + 2)
    BY <1>0, <1>2, <1>8, CostsAdd
  <2>2. Spare(n) = Spare(u) /\ Balance(n) = Balance(u)
    BY <1>11 DEF Spare, Balance
  <2>3. 0 + 2 = 2
    OBVIOUS
  <2> QED BY <1>11, <2>1, <2>2, <2>3 DEF Costs
<1> QED BY <1>9, <1>11, <1>13, <1>14, <1>15 DEF Works, n, Q, d

\* A marked entry may leave the list: nobody relies on its pages.
LEMMA WithoutPending ==
  ASSUME NEW m, NEW th \in [Threads -> ThreadState], Sound(m, th),
         NEW k \in 1..Len(m.ongoing), m.ongoing[k].done
  PROVE  LET n == [m EXCEPT !.ongoing = RemoveAt(m.ongoing, k)] IN
         /\ Sound(n, th)
         /\ n.shm = m.shm /\ n.ongoing = RemoveAt(m.ongoing, k) /\ n.host = m.host /\ n.list = m.list
         /\ \A p \in Pages : In(p, m.ongoing[k]) => Loose(n, p)
<1> DEFINE f == m.ongoing
           s == RemoveAt(f, k)
           n == [m EXCEPT !.ongoing = s]
<1> SUFFICES /\ Sound(n, th)
             /\ n.shm = m.shm /\ n.ongoing = s /\ n.host = m.host /\ n.list = m.list
             /\ \A p \in Pages : In(p, f[k]) => Loose(n, p)
  BY Zenon
<1>0. m \in Manager /\ f \in Seq(OngoingEntry) /\ Ordered(f) /\ NoCommonPage(f)
  BY ManagerFields DEF Sound, Orderly, Laid
<1>a. s = RemoveAt(f, k)
  OBVIOUS
<1> HIDE DEF s
<1>b. s \in Seq(OngoingEntry) /\ Without(s, f, k)
  BY <1>0, <1>a, RemoveAtElements
<1>1. /\ s \in Seq(OngoingEntry) /\ Len(s) \in Nat
      /\ \A i \in 1..Len(s) : \E j \in 1..Len(f) :
           j # k /\ s[i] = f[j] /\ j = IF i < k THEN i ELSE i + 1
      /\ \A j \in 1..Len(f) : j # k => \E i \in 1..Len(s) : s[i] = f[j]
  BY <1>b DEF Without
<1>2. Ordered(s) /\ NoCommonPage(s)
  BY <1>0, <1>a, OrderedRemove, NoCommonRemove
<1>3. /\ n \in Manager
      /\ n.list = m.list /\ n.cursor = m.cursor /\ n.shm = m.shm /\ n.ongoing = s
      /\ n.host = m.host
  BY <1>0, <1>1, WithOngoing
<1> HIDE DEF n
<1>4. PendingIsKept(n, th)
  <2> SUFFICES ASSUME NEW i \in 1..Len(s)
               PROVE  /\ InSpace(s[i])
                      /\ \A p \in Pages : In(p, s[i]) => Has(m.list, p, VMA_MAP)
                      /\ s[i].done => \A p \in Pages : In(p, s[i]) => m.host[p] = "free"
                      /\ ~s[i].done => /\ th[s[i].by].at \in {"leaves", "marks"}
                                       /\ s[i].start = th[s[i].by].stack
                                       /\ s[i].end = th[s[i].by].stack + StackSize
    BY <1>3 DEF PendingIsKept
  <2>1. PICK j \in 1..Len(f) : s[i] = f[j]
    BY <1>1
  <2> QED BY <2>1 DEF Sound, PendingIsKept
<1>5. StacksAreHeld(n, th)
  <2> SUFFICES ASSUME NEW t \in Threads, th[t].at \in {"leaves", "marks"}
               PROVE  \E i \in 1..Len(s) : s[i].by = t /\ ~s[i].done
    BY <1>3 DEF Sound, StacksAreHeld
  <2>1. PICK j \in 1..Len(f) : f[j].by = t /\ ~f[j].done
    BY DEF Sound, StacksAreHeld
  <2>2. j # k
    BY <2>1
  <2> QED BY <1>1, <2>1, <2>2
<1>6. Laid(n)
  BY <1>2, <1>3 DEF Sound, Orderly, Laid
<1>7. Orderly(n)
  BY <1>3, <1>6 DEF Sound, Orderly
<1>8. HostIsTracked(n) /\ SegmentsAreHeld(n) /\ NoCommonPage(n.shm)
  BY <1>3 DEF Sound, HostIsTracked, SegmentsAreHeld
<1>9. Sound(n, th)
  BY <1>2, <1>3, <1>4, <1>5, <1>7, <1>8 DEF Sound
<1>10. ASSUME NEW p \in Pages, In(p, f[k]) PROVE Loose(n, p)
  <2>1. m.host[p] = "free"
    BY <1>10 DEF Sound, PendingIsKept
  <2>2. "free" \notin Threads /\ "free" # "shm"
    BY ThreadNames
  <2>3. \A i \in 1..Len(m.shm) : ~In(p, m.shm[i])
    BY <2>1, <2>2 DEF Sound, SegmentsAreHeld
  <2>4. ASSUME NEW i \in 1..Len(s) PROVE ~In(p, s[i])
    <3>1. PICK j \in 1..Len(f) : j # k /\ s[i] = f[j]
      BY <1>1
    <3> QED BY <1>0, <1>10, <3>1 DEF NoCommonPage
  <2> QED BY <1>3, <2>1, <2>2, <2>3, <2>4 DEF Loose
<1> QED BY <1>3, <1>9, <1>10

\* A turn of collect_ongoing_unmap: an area whose thread has gone is free
\* again, and its descriptor is back.
LEMMA WorksCollect ==
  ASSUME NEW m, NEW th \in [Threads -> ThreadState], Sound(m, th),
         NEW k \in 1..Len(m.ongoing), m.ongoing[k].done
  PROVE  LET n == Collect(m, k) IN
         /\ Sound(n, th) /\ Takes(m, n, {})
         /\ n.ongoing = RemoveAt(m.ongoing, k)
         /\ Spare(m) >= 2 => n.fail = m.fail /\ Spare(n) >= Spare(m) - 1
         /\ n.fail = "none" =>
              /\ m.fail = "none"
              /\ Len(n.list) + Balance(n) = Len(m.list) + Balance(m) + 1
<1> DEFINE d == m.ongoing[k]
           Q == PagesOf(d.start, d.end - d.start)
           s == RemoveAt(m.ongoing, k)
           h == SetHost(m, Q, "free")
           h1 == [h EXCEPT !.ongoing = s]
           u == insert_unmap_area(h1, d.start, d.end)
           n == Collect(m, k)
           m1 == [m EXCEPT !.ongoing = s]
<1> SUFFICES /\ Sound(n, th) /\ Takes(m, n, {})
             /\ n.ongoing = s
             /\ Spare(m) >= 2 => n.fail = m.fail /\ Spare(n) >= Spare(m) - 1
             /\ n.fail = "none" =>
                  /\ m.fail = "none"
                  /\ Len(n.list) + Balance(n) = Len(m.list) + Balance(m) + 1
  BY Zenon
<1>0. m \in Manager /\ m.ongoing \in Seq(OngoingEntry) /\ Ordered(m.ongoing) /\ Orderly(m)
  BY ManagerFields DEF Sound, Orderly, Laid
<1>1. d.start \in Nat /\ d.end \in Nat /\ InSpace(d)
  <2>1. d \in OngoingEntry
    BY <1>0, ElementOfSeq
  <2> QED BY <2>1 DEF OngoingEntry, Sound, PendingIsKept
<1>2. /\ Orderly(h) /\ h \in Manager
      /\ h.list = m.list /\ h.ongoing = m.ongoing /\ h.shm = m.shm
      /\ Costs(m, h, 0)
      /\ \A p \in Pages : h.host[p] = IF p \in Q THEN "free" ELSE m.host[p]
  BY <1>0, ContentsAre, HostOnly
<1>3. /\ Sound(m1, th)
      /\ m1.shm = m.shm /\ m1.ongoing = s /\ m1.host = m.host /\ m1.list = m.list
      /\ \A p \in Pages : In(p, d) => Loose(m1, p)
  BY WithoutPending
<1>4. n = free_descs(u, 1)
  BY <1>2 DEF Collect
<1>5. s \in Seq(OngoingEntry) /\ Ordered(s)
  BY <1>0, RemoveAtIs, OrderedRemove
<1> HIDE DEF m1, s, n, h
<1>6. \A p \in Pages : p \in Q <=> In(p, d)
  <2> TAKE p \in Pages
  <2>1. p \in Nat
    BY PageIs
  <2> QED BY <1>1, <2>1, PageOf DEF In
<1>7. \A p \in Pages : h.host[p] = m.host[p] /\ (In(p, d) => m.host[p] = "free")
  <2>1. \A p \in Pages : In(p, d) => m.host[p] = "free"
    BY DEF Sound, PendingIsKept
  <2> QED BY <1>2, <1>6, <2>1
<1> HIDE DEF Q, d
<1>8. /\ h1 \in Manager /\ h1.list = h.list /\ h1.cursor = h.cursor /\ h1.ongoing = s
      /\ h1.shm = h.shm /\ h1.host = h.host
      /\ h1.nfree = h.nfree /\ h1.ndesc = h.ndesc /\ h1.next = h.next /\ h1.fail = h.fail
  BY <1>2, <1>5, WithOngoing
<1> HIDE DEF h1
<1>9. Orderly(h1)
  <2>1. Laid(h1)
    BY <1>2, <1>5, <1>8 DEF Orderly, Laid
  <2> QED BY <1>2, <1>8, <2>1 DEF Orderly
<1>10. /\ Orderly(u) /\ u \in Manager /\ SameRest(h1, u) /\ Costs(h1, u, 2)
       /\ \A p \in Pages : Has(u.list, p, VMA_MAP) <=>
            IF d.start <= p /\ p < d.end THEN VMA_MAP = VMA_UNMAP ELSE Has(h1.list, p, VMA_MAP)
  <2>1. VMA_UNMAP \in {VMA_UNMAP, VMA_MAP}
    OBVIOUS
  <2> QED BY <1>1, <1>9, <2>1, Repaint DEF InSpace, insert_unmap_area
<1> HIDE DEF u
<1>11. /\ n \in Manager
       /\ n.list = u.list /\ n.nfree = u.nfree + 1 /\ n.ndesc = u.ndesc /\ n.next = u.next
       /\ n.cursor = u.cursor /\ n.fail = u.fail
       /\ n.shm = u.shm /\ n.ongoing = u.ongoing /\ n.host = u.host
       /\ Spare(n) = Spare(u) + 1
  BY <1>4, <1>10, FreeDescs
<1>12. n.shm = m.shm /\ n.ongoing = s /\ n.host = h.host
  BY <1>2, <1>8, <1>10, <1>11 DEF SameRest
<1>13. Orderly(n)
  <2>1. Laid(n)
    BY <1>10, <1>11 DEF Orderly, Laid
  <2> QED BY <1>10, <1>11, <2>1 DEF Orderly
<1>14. Sound(n, th)
  <2> DEFINE P == {p \in Pages : In(p, d)}
  <2>1. \A p \in Pages : p \notin P =>
           /\ n.host[p] = m1.host[p]
           /\ Has(m1.list, p, VMA_MAP) => Has(n.list, p, VMA_MAP)
    BY <1>2, <1>3, <1>7, <1>8, <1>10, <1>11, <1>12 DEF In
  <2>2. \A p \in Pages : p \in P =>
           /\ Loose(m1, p)
           /\ n.host[p] # "free" => Has(n.list, p, VMA_MAP)
    BY <1>3, <1>7, <1>12
  <2>3. n.ongoing = m1.ongoing /\ n.shm = m1.shm
    BY <1>3, <1>12
  <2> HIDE DEF P
  <2> QED BY <1>3, <1>13, <2>1, <2>2, <2>3, Undisturbed
<1>15. Takes(m, n, {})
  BY <1>7, <1>12 DEF Takes
<1>16. Costs(m, u, 2)
  <2>1. Spare(h1) = Spare(h) /\ Balance(h1) = Balance(h)
    BY <1>8 DEF Spare, Balance
  <2>2. Costs(m, h1, 0)
    BY <1>2, <1>8, <2>1 DEF Costs
  <2>3. Costs(m, u, 0 + 2)
    BY <1>0, <1>8, <1>10, <2>2, CostsAdd
  <2>4. 0 + 2 = 2
    OBVIOUS
  <2> QED BY <2>3, <2>4
<1>17. Spare(m) \in Nat /\ Spare(u) \in Nat /\ Balance(u) \in Int /\ u.nfree \in Nat /\ u.ndesc \in Nat
  BY <1>0, <1>10, ManagerFields
<1>18. Spare(m) >= 2 => n.fail = m.fail /\ Spare(n) >= Spare(m) - 1
  <2> SUFFICES ASSUME Spare(m) >= 2 PROVE n.fail = m.fail /\ Spare(n) >= Spare(m) - 1
    OBVIOUS
  <2>1. u.fail = m.fail /\ Spare(u) >= Spare(m) - 2
    BY <1>16 DEF Costs
  <2> QED BY <1>11, <1>17, <2>1
<1>19. ASSUME n.fail = "none"
       PROVE  /\ m.fail = "none"
              /\ Len(n.list) + Balance(n) = Len(m.list) + Balance(m) + 1
  <2>1. m.fail = "none" /\ Len(u.list) + Balance(u) = Len(m.list) + Balance(m)
    BY <1>11, <1>16, <1>19 DEF Costs
  <2>2. Balance(n) = Balance(u) + 1
    BY <1>11, <1>17 DEF Balance
  <2>3. Len(n.list) = Len(u.list)
    BY <1>11
  <2> DEFINE a == Len(u.list)
             b == Balance(u)
             c == Len(m.list) + Balance(m)
  <2>4. a \in Nat /\ b \in Int /\ a + b = c
    BY <1>10, <2>1, ManagerFields
  <2> HIDE DEF a, b, c
  <2>5. a + (b + 1) = c + 1
    BY <2>4
  <2> QED BY <2>1, <2>2, <2>3, <2>5 DEF a, b, c
<1> QED BY <1>12, <1>14, <1>15, <1>18, <1>19

\* The new list o has one entry more than f, for a stack of thread t.
Adds(o, f, t) == \E x \in OngoingEntry : x.by = t /\ ~x.done /\ o = <<x>> \o f

\* munmap_guest_ongoing: the area of a stack is listed for a later unmap.
LEMMA WorksOngoing ==
  ASSUME NEW m, NEW th \in [Threads -> ThreadState], Sound(m, th),
         NEW t \in Threads, th[t].at = "runs",
         NEW th2, th2 = [th EXCEPT ![t].at = "leaves"]
  PROVE  LET n == internal_munmap_ongoing(m, t, th[t].stack, StackSize) IN
         /\ Sound(n, th2) /\ n.host = m.host
         /\ Adds(n.ongoing, m.ongoing, t)
         /\ Spare(m) >= 1 => n.fail = m.fail /\ Spare(n) >= Spare(m) - 1
         /\ n.fail = "none" =>
              /\ m.fail = "none"
              /\ Len(n.list) + Balance(n) = Len(m.list) + Balance(m) - 1
<1> DEFINE g == get_free_desc(m)
           start == th[t].stack
           end == PAGE_ALIGN_UP(start + StackSize)
           e == [by |-> t, start |-> start, end |-> end, done |-> FALSE]
           f == m.ongoing
           o == <<e>> \o f
           n == internal_munmap_ongoing(m, t, start, StackSize)
<1> SUFFICES /\ Sound(n, th2) /\ n.host = m.host
             /\ Adds(n.ongoing, m.ongoing, t)
             /\ Spare(m) >= 1 => n.fail = m.fail /\ Spare(n) >= Spare(m) - 1
             /\ n.fail = "none" =>
                  /\ m.fail = "none"
                  /\ Len(n.list) + Balance(n) = Len(m.list) + Balance(m) - 1
  BY Zenon
<1>0. m \in Manager /\ f \in Seq(OngoingEntry) /\ Ordered(f) /\ Orderly(m) /\ NoCommonPage(f)
  BY ManagerFields DEF Sound, Orderly, Laid
<1>1. /\ start \in Nat /\ Aligned(start) /\ MAPPING_START <= start
      /\ start + StackSize <= MAPPING_RESERVE_IN_SIGNAL_START
      /\ \A p \in PagesOf(start, StackSize) : m.host[p] = t
  <2>1. start \in Nat
    BY DEF ThreadState
  <2> QED BY <2>1 DEF Sound, StacksAreHeld
<1>2. StackSize \in Nat /\ StackSize > 0 /\ Aligned(StackSize)
  BY StackAssumption DEF Aligned
<1>3. end = start + StackSize /\ Aligned(end)
  <2>1. start + StackSize \in Nat /\ Aligned(start + StackSize)
    BY <1>1, <1>2, PageSum
  <2> QED BY <2>1, PageUp
<1>4. /\ g \in Manager /\ g.list = m.list /\ g.cursor = m.cursor
      /\ SameRest(m, g)
      /\ Spare(m) >= 1 => /\ g.fail = m.fail
                          /\ Spare(g) = Spare(m) - 1
                          /\ Balance(g) = Balance(m) - 1
      /\ Spare(m) = 0 => g.fail # "none" /\ Spare(g) = 0
  BY <1>0, GetFreeDesc
<1>5. n = [g EXCEPT !.ongoing = <<e>> \o g.ongoing]
  BY DEF internal_munmap_ongoing
<1>6. g.ongoing = f /\ g.shm = m.shm /\ g.host = m.host
  BY <1>4 DEF SameRest
<1> HIDE DEF g, n, start, end
<1>7. /\ e \in OngoingEntry /\ e.by = t /\ e.start = start /\ e.end = start + StackSize
      /\ e.done = FALSE
  BY <1>1, <1>2, <1>3 DEF OngoingEntry
<1> HIDE DEF e
<1>8. InSpace(e) /\ e.start <= e.end
  BY <1>1, <1>2, <1>3, <1>7 DEF InSpace
<1>9. \A p \in Pages : In(p, e) => p \in PagesOf(start, StackSize) /\ m.host[p] = t
  <2> TAKE p \in Pages
  <2>1. In(p, e) => p \in PagesOf(start, StackSize)
    BY <1>7, PageOf DEF In
  <2> QED BY <1>1, <2>1
<1>10. ASSUME NEW k \in 1..Len(f), NEW p \in Pages PROVE ~(In(p, e) /\ In(p, f[k]))
  <2> SUFFICES ASSUME In(p, e), In(p, f[k]) PROVE FALSE
    OBVIOUS
  <2>1. m.host[p] = t /\ t # "free"
    BY <1>9, ThreadNames
  <2>2. t = f[k].by /\ th[f[k].by].at = "leaves"
    BY <2>1, PendingHost
  <2> QED BY <2>2
<1>11. NoCommonPage(o) /\ Ordered(o)
  BY <1>0, <1>7, <1>8, <1>10, NoCommonCons, OrderedCons
<1>12. /\ o \in Seq(OngoingEntry) /\ Len(o) = Len(f) + 1 /\ Len(f) \in Nat
       /\ o[1] = e
       /\ \A i \in 1..Len(o) : i # 1 => i - 1 \in 1..Len(f) /\ o[i] = f[i - 1]
  BY <1>0, <1>7, ConsIs
<1>13. n = [g EXCEPT !.ongoing = o]
  BY <1>5, <1>6
<1> HIDE DEF o
<1>14. /\ n \in Manager /\ n.list = m.list /\ n.cursor = m.cursor /\ n.shm = m.shm
       /\ n.ongoing = o /\ n.host = m.host
       /\ n.nfree = g.nfree /\ n.ndesc = g.ndesc /\ n.next = g.next /\ n.fail = g.fail
  BY <1>4, <1>6, <1>12, <1>13, WithOngoing
<1>15. /\ th2 \in [Threads -> ThreadState] /\ th2[t].at = "leaves" /\ th2[t].stack = start
       /\ \A q \in Threads : q # t => th2[q] = th[q]
  BY DEF ThreadState, start
<1>16. PendingIsKept(n, th2)
  <2> SUFFICES ASSUME NEW i \in 1..Len(o)
               PROVE  /\ InSpace(o[i])
                      /\ \A p \in Pages : In(p, o[i]) => Has(m.list, p, VMA_MAP)
                      /\ o[i].done => \A p \in Pages : In(p, o[i]) => m.host[p] = "free"
                      /\ ~o[i].done => /\ th2[o[i].by].at \in {"leaves", "marks"}
                                       /\ o[i].start = th2[o[i].by].stack
                                       /\ o[i].end = th2[o[i].by].stack + StackSize
    BY <1>14 DEF PendingIsKept
  <2>1. CASE i = 1
    <3>1. ASSUME NEW p \in Pages, In(p, e) PROVE Has(m.list, p, VMA_MAP)
      <4>1. m.host[p] # "free"
        BY <1>9, <3>1, ThreadNames
      <4> QED BY <4>1 DEF Sound, HostIsTracked
    <3> QED BY <2>1, <3>1, <1>7, <1>8, <1>12, <1>15
  <2>2. CASE i # 1
    <3>1. i - 1 \in 1..Len(f) /\ o[i] = f[i - 1]
      BY <2>2, <1>12
    <3> DEFINE j == i - 1
    <3>2. j \in 1..Len(f) /\ o[i] = f[j]
      BY <3>1
    <3> HIDE DEF j
    <3>a. f[j] \in OngoingEntry
      BY <1>0, <3>2, ElementOfSeq
    <3>3. f[j].by \in Threads
      BY <3>a DEF OngoingEntry
    <3>4. ~f[j].done => f[j].by # t
      BY <3>2 DEF Sound, PendingIsKept
    <3> QED BY <1>15, <3>2, <3>3, <3>4 DEF Sound, PendingIsKept
  <2> QED BY <2>1, <2>2
<1>17. StacksAreHeld(n, th2)
  <2> SUFFICES ASSUME NEW q \in Threads
               PROVE  /\ th2[q].at \in {"runs", "leaves"} =>
                           /\ Aligned(th2[q].stack) /\ MAPPING_START <= th2[q].stack
                           /\ th2[q].stack + StackSize <= MAPPING_RESERVE_IN_SIGNAL_START
                           /\ \A p \in PagesOf(th2[q].stack, StackSize) : m.host[p] = q
                      /\ th2[q].at = "marks" =>
                           \A p \in PagesOf(th2[q].stack, StackSize) : m.host[p] = "free"
                      /\ th2[q].at \in {"leaves", "marks"} =>
                           \E k \in 1..Len(o) : o[k].by = q /\ ~o[k].done
    BY <1>14 DEF StacksAreHeld
  <2>1. CASE q = t
    <3>1. 1 \in 1..Len(o)
      BY <1>12
    <3> QED BY <2>1, <3>1, <1>1, <1>7, <1>12, <1>15
  <2>2. CASE q # t
    <3>1. ASSUME th[q].at \in {"leaves", "marks"}
          PROVE  \E k \in 1..Len(o) : o[k].by = q /\ ~o[k].done
      <4>1. PICK j \in 1..Len(f) : f[j].by = q /\ ~f[j].done
        BY <3>1 DEF Sound, StacksAreHeld
      <4>2. j + 1 \in 1..Len(o) /\ j + 1 # 1 /\ (j + 1) - 1 = j
        BY <1>12
      <4>3. o[j + 1] = f[(j + 1) - 1]
        BY <1>12, <4>2
      <4> QED BY <4>1, <4>2, <4>3
    <3> QED BY <2>2, <3>1, <1>15 DEF Sound, StacksAreHeld
  <2> QED BY <2>1, <2>2
<1>18. Laid(n)
  BY <1>11, <1>14, <1>0 DEF Orderly, Laid
<1>19. Orderly(n)
  BY <1>0, <1>14, <1>18 DEF Orderly
<1>20. HostIsTracked(n) /\ SegmentsAreHeld(n) /\ NoCommonPage(n.shm)
  BY <1>14 DEF Sound, HostIsTracked, SegmentsAreHeld
<1>21. Sound(n, th2)
  BY <1>11, <1>14, <1>16, <1>17, <1>19, <1>20 DEF Sound
<1>22. Spare(n) = Spare(g) /\ Balance(n) = Balance(g)
  BY <1>14 DEF Spare, Balance
<1>23. Spare(m) \in Nat /\ Balance(m) \in Int /\ Len(m.list) \in Nat
  BY <1>0, ManagerFields
<1>24. Spare(m) >= 1 => n.fail = m.fail /\ Spare(n) >= Spare(m) - 1
  BY <1>4, <1>14, <1>22, <1>23
<1>25. ASSUME n.fail = "none"
       PROVE  /\ m.fail = "none"
              /\ Len(n.list) + Balance(n) = Len(m.list) + Balance(m) - 1
  <2>1. g.fail = "none"
    BY <1>14, <1>25
  <2>2. Spare(m) >= 1
    BY <1>4, <1>23, <2>1
  <2>3. m.fail = "none" /\ Balance(g) = Balance(m) - 1
    BY <1>4, <2>1, <2>2
  <2> QED BY <1>14, <1>22, <1>23, <2>3
<1>26. n.ongoing = <<e>> \o m.ongoing
  BY <1>14 DEF o
<1>27. Adds(n.ongoing, m.ongoing, t)
  BY <1>7, <1>26 DEF Adds
<1> QED BY <1>14, <1>21, <1>24, <1>25, <1>27

\* The pages of a thread's stack that are still the thread's.
Own(m, th, t) == {p \in PagesOf(th[t].stack, StackSize) : m.host[p] = t}

\* m, when t has marked its pending unmap.
MarkedBy(m, t) ==
  [m EXCEPT !.ongoing = [k \in 1..Len(m.ongoing) |->
                           IF m.ongoing[k].by = t THEN [m.ongoing[k] EXCEPT !.done = TRUE]
                           ELSE m.ongoing[k]]]

\* clone_exit_asm unmaps the stack it stood on.
LEMMA WorksExitMunmap ==
  ASSUME NEW m, NEW th \in [Threads -> ThreadState], Sound(m, th),
         NEW t \in Threads, th[t].at = "leaves",
         NEW th2, th2 = [th EXCEPT ![t].at = "marks"]
  PROVE  LET Q == PagesOf(th[t].stack, StackSize)
             n == SetHost(m, Q, "free")
         IN /\ Sound(n, th2) /\ Takes(m, n, Own(m, th, t))
            /\ n.list = m.list /\ n.nfree = m.nfree /\ n.ndesc = m.ndesc /\ n.next = m.next
            /\ n.fail = m.fail /\ n.ongoing = m.ongoing
<1> DEFINE Q == PagesOf(th[t].stack, StackSize)
           n == SetHost(m, Q, "free")
<1> SUFFICES /\ Sound(n, th2) /\ Takes(m, n, Own(m, th, t))
             /\ n.list = m.list /\ n.nfree = m.nfree /\ n.ndesc = m.ndesc /\ n.next = m.next
             /\ n.fail = m.fail /\ n.ongoing = m.ongoing
  BY Zenon
<1>0. m \in Manager /\ Orderly(m) /\ m.ongoing \in Seq(OngoingEntry)
  BY ManagerFields DEF Sound, Orderly, Laid
<1>1. /\ n \in Manager
      /\ n.list = m.list /\ n.nfree = m.nfree /\ n.ndesc = m.ndesc /\ n.next = m.next
      /\ n.cursor = m.cursor /\ n.fail = m.fail
      /\ n.shm = m.shm /\ n.ongoing = m.ongoing
      /\ \A p \in Pages : n.host[p] = IF p \in Q THEN "free" ELSE m.host[p]
  BY <1>0, ContentsAre, SetHostIs
<1>2. Orderly(n)
  BY <1>0, ContentsAre, HostOnly
<1>3. \A p \in Q : p \in Pages /\ m.host[p] = t
  BY PageOf DEF Sound, StacksAreHeld
<1>4. /\ th2[t].at = "marks" /\ th2[t].stack = th[t].stack
      /\ \A q \in Threads : q # t => th2[q] = th[q]
  BY DEF ThreadState
<1> HIDE DEF n
<1>5. HostIsTracked(n)
  BY <1>1 DEF Sound, HostIsTracked
<1>6. PendingIsKept(n, th2)
  <2> SUFFICES ASSUME NEW k \in 1..Len(m.ongoing)
               PROVE  /\ InSpace(m.ongoing[k])
                      /\ \A p \in Pages : In(p, m.ongoing[k]) => Has(m.list, p, VMA_MAP)
                      /\ m.ongoing[k].done =>
                           \A p \in Pages : In(p, m.ongoing[k]) => n.host[p] = "free"
                      /\ ~m.ongoing[k].done =>
                           /\ th2[m.ongoing[k].by].at \in {"leaves", "marks"}
                           /\ m.ongoing[k].start = th2[m.ongoing[k].by].stack
                           /\ m.ongoing[k].end = th2[m.ongoing[k].by].stack + StackSize
    BY <1>1 DEF PendingIsKept
  <2>a. m.ongoing[k] \in OngoingEntry
    BY <1>0, ElementOfSeq
  <2>1. m.ongoing[k].by \in Threads
    BY <2>a DEF OngoingEntry
  <2> QED BY <1>1, <1>4, <2>1 DEF Sound, PendingIsKept
<1>7. StacksAreHeld(n, th2)
  <2> SUFFICES ASSUME NEW q \in Threads
               PROVE  /\ th2[q].at \in {"runs", "leaves"} =>
                           /\ Aligned(th2[q].stack) /\ MAPPING_START <= th2[q].stack
                           /\ th2[q].stack + StackSize <= MAPPING_RESERVE_IN_SIGNAL_START
                           /\ \A p \in PagesOf(th2[q].stack, StackSize) : n.host[p] = q
                      /\ th2[q].at = "marks" =>
                           \A p \in PagesOf(th2[q].stack, StackSize) : n.host[p] = "free"
                      /\ th2[q].at \in {"leaves", "marks"} =>
                           \E k \in 1..Len(m.ongoing) : m.ongoing[k].by = q /\ ~m.ongoing[k].done
    BY <1>1 DEF StacksAreHeld
  <2>1. CASE q = t
    <3>1. \A p \in Q : n.host[p] = "free"
      BY <1>1, <1>3
    <3> QED BY <1>4, <2>1, <3>1 DEF Sound, StacksAreHeld
  <2>2. CASE q # t
    <3>1. ASSUME th[q].at \in {"runs", "leaves"}, NEW p \in PagesOf(th[q].stack, StackSize)
          PROVE  n.host[p] = q
      <4>1. m.host[p] = q /\ p \in Pages
        BY <3>1, PageOf DEF Sound, StacksAreHeld
      <4>2. p \notin Q
        BY <1>3, <2>2, <4>1
      <4> QED BY <1>1, <4>1, <4>2
    <3>2. ASSUME th[q].at = "marks", NEW p \in PagesOf(th[q].stack, StackSize)
          PROVE  n.host[p] = "free"
      BY <1>1, <3>2, PageOf DEF Sound, StacksAreHeld
    <3> QED BY <1>4, <2>2, <3>1, <3>2 DEF Sound, StacksAreHeld
  <2> QED BY <2>1, <2>2
<1>8. SegmentsAreHeld(n)
  <2> SUFFICES ASSUME NEW k \in 1..Len(m.shm)
               PROVE  /\ InSpace(m.shm[k])
                      /\ \A p \in Pages : In(p, m.shm[k]) => n.host[p] = "shm"
    BY <1>1 DEF SegmentsAreHeld
  <2>1. \A p \in Pages : In(p, m.shm[k]) => m.host[p] = "shm"
    BY DEF Sound, SegmentsAreHeld
  <2>2. "shm" # t
    BY ThreadNames
  <2>3. \A p \in Pages : In(p, m.shm[k]) => n.host[p] = "shm"
    BY <1>1, <1>3, <2>1, <2>2
  <2> QED BY <2>3 DEF Sound, SegmentsAreHeld
<1>9. NoCommonPage(n.ongoing) /\ NoCommonPage(n.shm)
  BY <1>1 DEF Sound
<1>10. Sound(n, th2)
  BY <1>2, <1>5, <1>6, <1>7, <1>8, <1>9 DEF Sound
<1>11. Takes(m, n, Own(m, th, t))
  BY <1>1, <1>3 DEF Takes, Own
<1> QED BY <1>1, <1>10, <1>11

\* ... and marks the descriptor, from where on others may collect it.
LEMMA WorksExitMark ==
  ASSUME NEW m, NEW th \in [Threads -> ThreadState], Sound(m, th),
         NEW t \in Threads, th[t].at = "marks",
         NEW th2, th2 = [th EXCEPT ![t] = [at |-> "none", stack |-> 0]]
  PROVE  LET n == MarkedBy(m, t)
         IN /\ Sound(n, th2)
            /\ n.list = m.list /\ n.nfree = m.nfree /\ n.ndesc = m.ndesc /\ n.next = m.next
            /\ n.fail = m.fail /\ n.host = m.host
            /\ Len(n.ongoing) = Len(m.ongoing)
            /\ \A k \in 1..Len(n.ongoing) : n.ongoing[k].by = m.ongoing[k].by
<1> DEFINE f == m.ongoing
           o == [k \in 1..Len(f) |-> IF f[k].by = t THEN [f[k] EXCEPT !.done = TRUE] ELSE f[k]]
           n == MarkedBy(m, t)
<1> SUFFICES /\ Sound(n, th2)
             /\ n.list = m.list /\ n.nfree = m.nfree /\ n.ndesc = m.ndesc /\ n.next = m.next
             /\ n.fail = m.fail /\ n.host = m.host
             /\ Len(n.ongoing) = Len(m.ongoing)
             /\ \A k \in 1..Len(n.ongoing) : n.ongoing[k].by = m.ongoing[k].by
  BY Zenon
<1>0. m \in Manager /\ Orderly(m) /\ f \in Seq(OngoingEntry) /\ Len(f) \in Nat /\ Ordered(f)
  BY ManagerFields, LenProperties DEF Sound, Orderly, Laid
<1>1. o = [k \in 1..Len(f) |-> IF f[k].by = t THEN [f[k] EXCEPT !.done = TRUE] ELSE f[k]]
  OBVIOUS
<1>n. n = [m EXCEPT !.ongoing = o]
  BY DEF MarkedBy
<1> HIDE DEF f, o, n
<1>2. \A k \in 1..Len(f) : f[k] \in OngoingEntry
  BY <1>0, ElementOfSeq
<1>3. \A k \in 1..Len(f) : /\ o[k] \in OngoingEntry /\ o[k].start = f[k].start /\ o[k].end = f[k].end
                           /\ o[k].by = f[k].by
  BY <1>1, <1>2 DEF OngoingEntry
<1>4. \A k \in 1..Len(f) : f[k].by # t => o[k] = f[k]
  BY <1>1
<1>5. \A k \in 1..Len(f) : f[k].by = t => o[k].done
  BY <1>1, <1>2 DEF OngoingEntry
<1>6. o \in Seq(OngoingEntry) /\ Len(o) = Len(f)
  <2>1. o \in [1..Len(f) -> OngoingEntry]
    BY <1>1, <1>3
  <2>2. o \in Seq(OngoingEntry)
    BY <1>0, <2>1, SeqDef, Zenon
  <2>3. DOMAIN o = 1..Len(f)
    BY <1>1
  <2>4. Len(o) = Len(f)
    BY <1>0, <2>2, <2>3, LenProperties
  <2> QED BY <2>2, <2>4
<1>7. /\ n \in Manager /\ n.list = m.list /\ n.nfree = m.nfree /\ n.ndesc = m.ndesc
      /\ n.next = m.next /\ n.fail = m.fail /\ n.ongoing = o /\ n.host = m.host
      /\ n.cursor = m.cursor /\ n.shm = m.shm
  BY <1>0, <1>n, <1>6, WithOngoing
<1>8. /\ th2[t].at = "none" /\ \A q \in Threads : q # t => th2[q] = th[q]
  OBVIOUS
<1>9. PendingIsKept(n, th2)
  <2> SUFFICES ASSUME NEW k \in 1..Len(o)
               PROVE  /\ InSpace(o[k])
                      /\ \A p \in Pages : In(p, o[k]) => Has(m.list, p, VMA_MAP)
                      /\ o[k].done => \A p \in Pages : In(p, o[k]) => m.host[p] = "free"
                      /\ ~o[k].done => /\ th2[o[k].by].at \in {"leaves", "marks"}
                                       /\ o[k].start = th2[o[k].by].stack
                                       /\ o[k].end = th2[o[k].by].stack + StackSize
    BY <1>7 DEF PendingIsKept
  <2>0. k \in 1..Len(f)
    BY <1>6
  <2>1. /\ InSpace(f[k])
        /\ \A p \in Pages : In(p, f[k]) => Has(m.list, p, VMA_MAP)
        /\ f[k].done => \A p \in Pages : In(p, f[k]) => m.host[p] = "free"
        /\ ~f[k].done => /\ th[f[k].by].at \in {"leaves", "marks"}
                         /\ f[k].start = th[f[k].by].stack
                         /\ f[k].end = th[f[k].by].stack + StackSize
    BY <2>0 DEF Sound, PendingIsKept, f
  <2>2. CASE f[k].by = t
    <3>1. \A p \in Pages : In(p, o[k]) <=> In(p, f[k])
      BY <1>3, <2>0 DEF In
    <3>2. InSpace(o[k])
      BY <1>3, <2>0, <2>1 DEF InSpace
    <3>3. ASSUME ~f[k].done, NEW p \in Pages, In(p, f[k]) PROVE m.host[p] = "free"
      <4>1. p \in PagesOf(th[t].stack, StackSize)
        BY <2>1, <2>2, <3>3, PageOf DEF In
      <4> QED BY <4>1 DEF Sound, StacksAreHeld
    <3> QED BY <1>5, <2>0, <2>1, <2>2, <3>1, <3>2, <3>3
  <2>3. CASE f[k].by # t
    <3>1. f[k].by \in Threads
      BY <1>2, <2>0 DEF OngoingEntry
    <3> QED BY <1>4, <1>8, <2>0, <2>1, <2>3, <3>1
  <2> QED BY <2>2, <2>3
<1>10. StacksAreHeld(n, th2)
  <2> SUFFICES ASSUME NEW q \in Threads
               PROVE  /\ th2[q].at \in {"runs", "leaves"} =>
                           /\ Aligned(th2[q].stack) /\ MAPPING_START <= th2[q].stack
                           /\ th2[q].stack + StackSize <= MAPPING_RESERVE_IN_SIGNAL_START
                           /\ \A p \in PagesOf(th2[q].stack, StackSize) : m.host[p] = q
                      /\ th2[q].at = "marks" =>
                           \A p \in PagesOf(th2[q].stack, StackSize) : m.host[p] = "free"
                      /\ th2[q].at \in {"leaves", "marks"} =>
                           \E k \in 1..Len(o) : o[k].by = q /\ ~o[k].done
    BY <1>7 DEF StacksAreHeld
  <2>1. CASE q = t
    BY <1>8, <2>1
  <2>2. CASE q # t
    <3>1. ASSUME th[q].at \in {"leaves", "marks"}
          PROVE  \E k \in 1..Len(o) : o[k].by = q /\ ~o[k].done
      <4>1. PICK k \in 1..Len(f) : f[k].by = q /\ ~f[k].done
        BY <3>1 DEF Sound, StacksAreHeld, f
      <4> QED BY <1>4, <1>6, <2>2, <4>1
    <3> QED BY <1>8, <2>2, <3>1 DEF Sound, StacksAreHeld
  <2> QED BY <2>1, <2>2
<1>11. Ordered(o) /\ NoCommonPage(o)
  <2>1. NoCommonPage(f)
    BY DEF Sound, f
  <2>2. Ordered(o)
    BY <1>0, <1>3, <1>6 DEF Ordered
  <2>3. ASSUME NEW i \in 1..Len(o), NEW j \in 1..Len(o), i # j, NEW p \in Pages
        PROVE  ~(In(p, o[i]) /\ In(p, o[j]))
    <3>1. i \in 1..Len(f) /\ j \in 1..Len(f)
      BY <1>6
    <3>2. ~(In(p, f[i]) /\ In(p, f[j]))
      BY <2>1, <2>3, <3>1 DEF NoCommonPage
    <3>3. (In(p, o[i]) <=> In(p, f[i])) /\ (In(p, o[j]) <=> In(p, f[j]))
      BY <1>3, <3>1 DEF In
    <3> QED BY <3>2, <3>3
  <2> QED BY <2>2, <2>3 DEF NoCommonPage
<1>12. Laid(n)
  BY <1>0, <1>7, <1>11 DEF Orderly, Laid
<1>13. Orderly(n)
  BY <1>0, <1>7, <1>12 DEF Orderly
<1>14. HostIsTracked(n) /\ SegmentsAreHeld(n) /\ NoCommonPage(n.shm)
  BY <1>7 DEF Sound, HostIsTracked, SegmentsAreHeld
<1>15. Sound(n, th2)
  BY <1>7, <1>9, <1>10, <1>11, <1>13, <1>14 DEF Sound
<1> QED BY <1>3, <1>6, <1>7, <1>15 DEF f

\* The stack of a new thread.
LEMMA WorksClone ==
  ASSUME NEW m, NEW th \in [Threads -> ThreadState], Sound(m, th),
         NEW t \in Threads, th[t].at = "none", NEW r,
         r = find_vma_with_kernel_choose(m, StackSize), r.addr # ENOMEM_64,
         NEW th2, th2 = [th EXCEPT ![t] = [at |-> "runs", stack |-> r.addr]]
  PROVE  /\ Works(m, MmapPlaced(r, StackSize, t, TRUE), th2, {}, 2)
         /\ th2 \in [Threads -> ThreadState]
<1> DEFINE n == SetHost(r.m, PagesOf(r.addr, StackSize), t)
<1>0. m \in Manager /\ Orderly(m) /\ Laid(m) /\ m.ongoing \in Seq(OngoingEntry)
  BY ManagerFields DEF Sound, Orderly, Laid
<1>1. StackSize \in Nat /\ StackSize > 0 /\ PAGE_ALIGN_UP(StackSize) = StackSize
  BY StackAssumption, PageUp DEF Aligned
<1>2. Finds(m, r, StackSize)
  BY <1>0, <1>1, LaidKernelChoose
<1>3. /\ r.addr \in Nat /\ Aligned(r.addr) /\ MAPPING_START <= r.addr
      /\ r.addr + StackSize <= MAPPING_RESERVE_IN_SIGNAL_START
  BY <1>1, <1>2, FoundPages
<1>4. /\ Works(m, n, th, {}, 2)
      /\ \A p \in Pages : n.host[p] = IF p \in PagesOf(r.addr, StackSize) THEN t ELSE m.host[p]
  <2>1. t \in Contents /\ StackSize <= StackSize
    BY <1>1, ContentsAre
  <2> QED BY <1>1, <1>2, <2>1, FoundAndMapped
<1>5. MmapPlaced(r, StackSize, t, TRUE) = n
  BY DEF MmapPlaced
<1> HIDE DEF n
<1>6. /\ th2 \in [Threads -> ThreadState] /\ th2[t].at = "runs" /\ th2[t].stack = r.addr
      /\ \A q \in Threads : q # t => th2[q] = th[q]
  BY <1>3 DEF ThreadState
<1>7. Sound(n, th) /\ n.ongoing = m.ongoing
  BY <1>4 DEF Works
<1>8. PendingIsKept(n, th2)
  <2> SUFFICES ASSUME NEW k \in 1..Len(m.ongoing), ~m.ongoing[k].done
               PROVE  /\ th2[m.ongoing[k].by].at \in {"leaves", "marks"}
                      /\ m.ongoing[k].start = th2[m.ongoing[k].by].stack
                      /\ m.ongoing[k].end = th2[m.ongoing[k].by].stack + StackSize
    BY <1>7 DEF Sound, PendingIsKept
  <2>a. m.ongoing[k] \in OngoingEntry
    BY <1>0, ElementOfSeq
  <2>1. m.ongoing[k].by \in Threads
    BY <2>a DEF OngoingEntry
  <2>2. m.ongoing[k].by # t
    BY <1>7 DEF Sound, PendingIsKept
  <2> QED BY <1>6, <1>7, <2>1, <2>2 DEF Sound, PendingIsKept
<1>9. StacksAreHeld(n, th2)
  <2>1. \A p \in PagesOf(r.addr, StackSize) : n.host[p] = t
    BY <1>4, PageOf
  <2> QED BY <1>3, <1>6, <1>7, <2>1 DEF Sound, StacksAreHeld
<1>10. Sound(n, th2)
  BY <1>7, <1>8, <1>9 DEF Sound
<1>11. Works(m, n, th2, {}, 2)
  BY <1>4, <1>10 DEF Works
<1> QED BY <1>5, <1>6, <1>11

\* There is no room for the stack, which ends the program.
LEMMA WorksCloneFails ==
  ASSUME NEW m, NEW th \in [Threads -> ThreadState], Sound(m, th), NEW r,
         r = find_vma_with_kernel_choose(m, StackSize), r.addr = ENOMEM_64
  PROVE  LET n == Stop(r.m, "no stack") IN
         /\ Sound(n, th) /\ Takes(m, n, {}) /\ n.ongoing = m.ongoing /\ n.fail = "no stack"
<1> DEFINE n == Stop(r.m, "no stack")
           o == r.m
<1>0. m \in Manager /\ Orderly(m) /\ Laid(m)
  BY DEF Sound, Orderly, Laid
<1>1. StackSize \in Nat /\ StackSize > 0 /\ PAGE_ALIGN_UP(StackSize) = StackSize
  BY StackAssumption, PageUp DEF Aligned
<1>2. Finds(m, r, StackSize)
  BY <1>0, <1>1, LaidKernelChoose
<1>3. Works(m, o, th, {}, 2)
  BY <1>1, <1>2, FoundNothing
<1>4. n = Stop(o, "no stack")
  OBVIOUS
<1> HIDE DEF o, n
<1>5. o \in Manager /\ Sound(o, th)
  BY <1>3 DEF Works, Sound, Orderly, Laid
<1>6. "no stack" \in Fails
  BY DEF Fails
<1>7. /\ n \in Manager
      /\ n.list = o.list /\ n.cursor = o.cursor /\ n.fail = "no stack"
      /\ n.shm = o.shm /\ n.ongoing = o.ongoing /\ n.host = o.host
  BY <1>4, <1>5, <1>6, StopIs
<1>8. Sound(n, th)
  BY <1>5, <1>7, SoundSame
<1>9. Takes(m, n, {}) /\ n.ongoing = m.ongoing
  BY <1>3, <1>7 DEF Works, Takes
<1> QED BY <1>7, <1>8, <1>9 DEF n, o

\* A page of descriptors in reserve.
LEMMA WorksAllocate ==
  ASSUME NEW m, NEW th \in [Threads -> ThreadState], Sound(m, th)
  PROVE  LET n == allocate_more_desc_memory(m) IN
         /\ Sound(n, th) /\ Takes(m, n, {}) /\ n.ongoing = m.ongoing /\ n.next
         /\ Spare(m) >= 2 => n.fail \in {m.fail, "no room"}
         /\ n.fail = "none" =>
              /\ m.fail = "none"
              /\ Len(n.list) + Balance(n) = Len(m.list) + Balance(m)
<1> DEFINE w == OwnPage(m)
           n == allocate_more_desc_memory(m)
<1>1. WorksOrStops(m, w, th, {}, 2)
  BY WorksOwnPage
<1>2. n = [w EXCEPT !.next = TRUE]
  BY DEF allocate_more_desc_memory
<1> HIDE DEF w, n
<1>3. w \in Manager /\ Sound(w, th)
  BY <1>1 DEF WorksOrStops, Sound, Orderly, Laid
<1>4. /\ n \in Manager
      /\ n.list = w.list /\ n.nfree = w.nfree /\ n.ndesc = w.ndesc /\ n.next
      /\ n.cursor = w.cursor /\ n.fail = w.fail
      /\ n.shm = w.shm /\ n.ongoing = w.ongoing /\ n.host = w.host
  BY <1>2, <1>3, WithNext
<1>5. Sound(n, th)
  BY <1>3, <1>4, SoundSame
<1>6. Takes(m, n, {}) /\ n.ongoing = m.ongoing
  BY <1>1, <1>4 DEF WorksOrStops, Takes
<1>7. Balance(n) = Balance(w)
  BY <1>4 DEF Balance
<1>8. w.fail = "no room" \/ Costs(m, w, 2)
  BY <1>1 DEF WorksOrStops
<1>9. Spare(m) >= 2 => n.fail \in {m.fail, "no room"}
  BY <1>4, <1>8 DEF Costs
<1>10. ASSUME n.fail = "none"
       PROVE  m.fail = "none" /\ Len(n.list) + Balance(n) = Len(m.list) + Balance(m)
  <2>1. Costs(m, w, 2)
    BY <1>4, <1>8, <1>10
  <2> QED BY <1>4, <1>7, <1>10, <2>1 DEF Costs
<1> QED BY <1>4, <1>5, <1>6, <1>9, <1>10 DEF n

-----------------------------------------------------------------------------
(* Every step of the specification, for calls that are well formed.        *)

\* A range the guest may pass holds nothing but its own.
LEMMA NamedIsLoose ==
  ASSUME Sound(vm, thread), NEW start \in Nat, NEW len \in Nat, Names(start, len)
  PROVE  /\ start + len <= MAPPING_RESERVE_IN_SIGNAL_START
         /\ \A p \in PagesOf(start, len) : Loose(vm, p)
<1>0. vm \in Manager /\ vm.ongoing \in Seq(OngoingEntry)
  BY ManagerFields DEF Sound, Orderly, Laid
<1>1. ASSUME NEW p \in PagesOf(start, len) PROVE Loose(vm, p)
  <2>0. p \in Pages /\ p \notin Private /\ p \notin Segments
    BY <1>1, PageOf DEF Names
  <2>1. vm.host[p] \notin Threads /\ vm.host[p] # "shm"
    BY <2>0 DEF Private, Segments
  <2>2. \A k \in 1..Len(vm.shm) : ~In(p, vm.shm[k])
    BY <2>0, <2>1 DEF Sound, SegmentsAreHeld
  <2>3. ASSUME NEW k \in 1..Len(vm.ongoing), In(p, vm.ongoing[k]) PROVE FALSE
    <3> DEFINE d == vm.ongoing[k]
    <3>a. d \in OngoingEntry
      BY <1>0, ElementOfSeq
    <3>1. d.start \in Nat /\ d.end \in Nat
      BY <3>a DEF OngoingEntry
    <3>2. p \in Nat
      BY <2>0, PageIs
    <3>3. p \in PagesOf(d.start, d.end - d.start)
      BY <2>0, <2>3, <3>1, <3>2, PageOf DEF In
    <3>4. PagesOf(d.start, d.end - d.start) \subseteq Private
      BY DEF Private
    <3> QED BY <2>0, <3>3, <3>4
  <2> QED BY <2>1, <2>2, <2>3 DEF Loose
<1> QED BY <1>1 DEF Names

\* The arguments of calls that are well formed.
LEMMA WellFormed ==
  ASSUME WellFormedCalls
  PROVE  /\ \A a \in FixedAddrs \cup MunmapAddrs \cup RemapAddrs :
              a \in Nat /\ Aligned(a) /\ MAPPING_START <= a
         /\ \A len \in MmapLengths \cup MunmapLengths \cup RemapLengths \cup ShmLengths :
              len \in Nat /\ len > 0
         /\ \A len \in RemapLengths : Aligned(len) /\ PAGE_ALIGN_UP(len) = len
         /\ \A a \in ShmAddrs : a = 0
<1>1. \A a \in FixedAddrs \cup MunmapAddrs \cup RemapAddrs :
        a \in Nat /\ Aligned(a) /\ MAPPING_START <= a
  BY PageIs DEF WellFormedCalls
<1>2. ASSUME NEW len \in MmapLengths \cup MunmapLengths \cup RemapLengths \cup ShmLengths
      PROVE  len \in Nat /\ len > 0
  <2>1. len \in Nat /\ len # 0
    BY Arguments DEF WellFormedCalls
  <2> QED BY <2>1
<1>3. ASSUME NEW len \in RemapLengths PROVE Aligned(len) /\ PAGE_ALIGN_UP(len) = len
  <2>1. Aligned(len) /\ len \in Nat
    BY Arguments DEF WellFormedCalls, Aligned
  <2> QED BY <2>1, PageUp
<1> QED BY <1>1, <1>2, <1>3 DEF WellFormedCalls

\* The calls of the guest outside of signals.
Calls ==
  \/ mmap_fixed \/ mmap \/ munmap
  \/ mremap_fixed \/ mremap_shrink \/ mremap_grow \/ mremap_move
  \/ shmat \/ shmdt \/ call_refused

\* The work of a call that leads to m.
CallTo(m, asked) ==
  /\ WorksOrStops(vm, m, thread, asked, 4)
  /\ Ends(m, asked) \/ EndsIfShort(m, asked)

\* A call of the guest, once its work is known.
LEMMA CallIs ==
  ASSUME NEW m, NEW asked, NEW k \in {2, 4}, Sound(vm, thread), Works(vm, m, thread, asked, k),
         Ends(m, asked) \/ EndsIfShort(m, asked)
  PROVE  CallTo(m, asked)
<1>1. vm \in Manager /\ m \in Manager
  BY DEF Works, Sound, Orderly, Laid
<1>2. Costs(vm, m, k) /\ k \in Nat /\ 4 \in Nat /\ k <= 4
  BY DEF Works
<1>3. Costs(vm, m, 4)
  BY <1>1, <1>2, CostsMore
<1> QED BY <1>3 DEF Works, WorksOrStops, CallTo

\* Each of them keeps the manager sound, takes only what it was asked for and
\* needs at most four descriptors.
LEMMA CallsWork ==
  ASSUME WellFormedCalls, Sound(vm, thread), thread \in [Threads -> ThreadState], Calls
  PROVE  /\ Idle /\ thread' = thread
         /\ \E m, asked : CallTo(m, asked)
<1>0. vm \in Manager /\ Orderly(vm) /\ Laid(vm)
  BY DEF Sound, Orderly, Laid
<1>t. 2 \in {2, 4} /\ 4 \in {2, 4}
  OBVIOUS
<1>1. CASE mmap_fixed
  <2>1. PICK addr \in FixedAddrs, len \in MmapLengths, ok \in BOOLEAN :
          /\ Names(addr, len)
          /\ EndsIfShort(MmapFixed(vm, addr, len, ok), PagesOf(addr, len))
    BY <1>1 DEF mmap_fixed, MmapResults
  <2>2. addr \in Nat /\ len \in Nat /\ Aligned(addr) /\ MAPPING_START <= addr /\ len > 0
    BY WellFormed
  <2>3. Works(vm, MmapFixed(vm, addr, len, ok), thread, PagesOf(addr, len), 2)
    BY <2>1, <2>2, NamedIsLoose, WorksMmapFixed
  <2> DEFINE n == MmapFixed(vm, addr, len, ok)
             Q == PagesOf(addr, len)
  <2> HIDE DEF n, Q
  <2>4. CallTo(n, Q)
    BY <2>1, <2>3, <1>t, CallIs DEF n, Q
  <2> QED BY <1>1, <2>4 DEF mmap_fixed
<1>2. CASE mmap
  <2>1. PICK addr \in HintAddrs, len \in MmapLengths, ok \in BOOLEAN :
          EndsIfShort(MmapPlaced(Place(vm, addr, len), len, "guest", ok), {})
    BY <1>2 DEF mmap, MmapResults
  <2> DEFINE r == Place(vm, addr, len)
  <2>2. addr \in Nat /\ len \in Nat /\ len > 0
    BY Arguments, WellFormed
  <2>3. Finds(vm, r, PAGE_ALIGN_UP(len))
    <3>1. CASE addr = 0
      <4>1. r = find_vma_with_kernel_choose(vm, len)
        BY <3>1 DEF Place
      <4> HIDE DEF r
      <4> QED BY <4>1, <2>2, <1>0, LaidKernelChoose
    <3>2. CASE addr # 0
      <4>1. r = find_vma_with_hint(vm, len, addr)
        BY <3>2 DEF Place
      <4> HIDE DEF r
      <4> QED BY <4>1, <2>2, <1>0, LaidHint
    <3> QED BY <3>1, <3>2
  <2> DEFINE n == MmapPlaced(r, len, "guest", ok)
  <2>4. Works(vm, n, thread, {}, 4)
    <3> HIDE DEF r
    <3> QED BY <2>2, <2>3, ContentsAre, WorksMmapPlaced
  <2>5. EndsIfShort(n, {})
    BY <2>1
  <2> HIDE DEF n
  <2>6. CallTo(n, {})
    BY <2>4, <2>5, <1>t, CallIs
  <2> QED BY <1>2, <2>6 DEF mmap
<1>3. CASE munmap
  <2>1. PICK addr \in MunmapAddrs, len \in MunmapLengths :
          /\ Names(addr, len)
          /\ EndsIfShort(internal_munmap(vm, addr, len), PagesOf(addr, len))
    BY <1>3 DEF munmap
  <2>2. addr \in Nat /\ len \in Nat /\ Aligned(addr) /\ MAPPING_START <= addr /\ len > 0
    BY WellFormed
  <2> DEFINE n == internal_munmap(vm, addr, len)
             Q == PagesOf(addr, len)
  <2>3. Works(vm, n, thread, Q, 2)
    BY <2>1, <2>2, NamedIsLoose, WorksMunmap
  <2>4. EndsIfShort(n, Q)
    BY <2>1
  <2> HIDE DEF n, Q
  <2>5. CallTo(n, Q)
    BY <2>3, <2>4, <1>t, CallIs
  <2> QED BY <1>3, <2>5 DEF munmap
<1>4. CASE mremap_fixed
  <2>1. PICK old \in RemapAddrs, new \in RemapAddrs, oldlen \in RemapLengths, newlen \in RemapLengths :
          /\ Names(new, newlen)
          /\ mremap(old, oldlen, RemapFixed(vm, old, oldlen, new, newlen),
                    PagesOf(old, oldlen) \cup PagesOf(new, newlen))
    BY <1>4 DEF mremap_fixed
  <2>2. /\ old \in Nat /\ Aligned(old) /\ MAPPING_START <= old
        /\ new \in Nat /\ Aligned(new) /\ MAPPING_START <= new
        /\ oldlen \in Nat /\ newlen \in Nat /\ oldlen > 0 /\ newlen > 0
    BY WellFormed
  <2> DEFINE n == RemapFixed(vm, old, oldlen, new, newlen)
             Q == PagesOf(old, oldlen) \cup PagesOf(new, newlen)
  <2>3. Names(old, oldlen) /\ Ends(n, Q) /\ Idle /\ thread' = thread
    BY <2>1 DEF mremap
  <2>4. Works(vm, n, thread, Q, 4)
    BY <2>1, <2>2, <2>3, NamedIsLoose, WorksRemapFixed
  <2> HIDE DEF n, Q
  <2>5. CallTo(n, Q)
    BY <2>3, <2>4, <1>t, CallIs
  <2> QED BY <2>3, <2>5
<1>5. CASE mremap_shrink
  <2>1. PICK old \in RemapAddrs, oldlen \in RemapLengths, newlen \in RemapLengths :
          /\ PAGE_ALIGN_UP(newlen) <= PAGE_ALIGN_UP(oldlen)
          /\ Remappable(old, oldlen)
          /\ mremap(old, oldlen, RemapShrink(vm, old, oldlen, newlen), PagesOf(old, oldlen))
    BY <1>5 DEF mremap_shrink
  <2>2. /\ old \in Nat /\ Aligned(old) /\ MAPPING_START <= old
        /\ oldlen \in Nat /\ newlen \in Nat /\ oldlen > 0 /\ newlen > 0
        /\ Aligned(oldlen) /\ Aligned(newlen) /\ newlen <= oldlen
    BY <2>1, WellFormed
  <2> DEFINE n == RemapShrink(vm, old, oldlen, newlen)
             Q == PagesOf(old, oldlen)
  <2>3. Names(old, oldlen) /\ Ends(n, Q) /\ Idle /\ thread' = thread
    BY <2>1 DEF mremap
  <2>4. Works(vm, n, thread, Q, 4)
    BY <2>1, <2>2, <2>3, NamedIsLoose, WorksRemapShrink DEF Remappable
  <2> HIDE DEF n, Q
  <2>5. CallTo(n, Q)
    BY <2>3, <2>4, <1>t, CallIs
  <2> QED BY <2>3, <2>5
<1>6. CASE mremap_grow
  <2>1. PICK old \in RemapAddrs, oldlen \in RemapLengths, newlen \in RemapLengths :
          /\ PAGE_ALIGN_UP(newlen) > PAGE_ALIGN_UP(oldlen)
          /\ CanGrow(vm, old, oldlen, newlen)
          /\ Remappable(old, oldlen)
          /\ mremap(old, oldlen, RemapGrow(vm, old, oldlen, newlen), PagesOf(old, oldlen))
    BY <1>6 DEF mremap_grow
  <2>2. /\ old \in Nat /\ Aligned(old) /\ MAPPING_START <= old
        /\ oldlen \in Nat /\ newlen \in Nat /\ oldlen > 0
        /\ Aligned(oldlen) /\ Aligned(newlen) /\ oldlen < newlen
    BY <2>1, WellFormed
  <2> DEFINE n == RemapGrow(vm, old, oldlen, newlen)
             Q == PagesOf(old, oldlen)
  <2>3. Names(old, oldlen) /\ Ends(n, Q) /\ Idle /\ thread' = thread
    BY <2>1 DEF mremap
  <2>4. Works(vm, n, thread, Q, 4)
    BY <2>1, <2>2, <2>3, NamedIsLoose, WorksRemapGrow DEF Remappable
  <2> HIDE DEF n, Q
  <2>5. CallTo(n, Q)
    BY <2>3, <2>4, <1>t, CallIs
  <2> QED BY <2>3, <2>5
<1>7. CASE mremap_move
  <2>1. PICK old \in RemapAddrs, oldlen \in RemapLengths, newlen \in RemapLengths, ok \in BOOLEAN :
          /\ ok => Remappable(old, oldlen)
          /\ mremap(old, oldlen, RemapMove(vm, old, oldlen, newlen, ok), PagesOf(old, oldlen))
    BY <1>7 DEF mremap_move
  <2>2. /\ old \in Nat /\ Aligned(old) /\ MAPPING_START <= old
        /\ oldlen \in Nat /\ newlen \in Nat /\ oldlen > 0 /\ newlen > 0
        /\ Aligned(oldlen) /\ Aligned(newlen)
    BY WellFormed
  <2> DEFINE n == RemapMove(vm, old, oldlen, newlen, ok)
             Q == PagesOf(old, oldlen)
  <2>3. Names(old, oldlen) /\ Ends(n, Q) /\ Idle /\ thread' = thread
    BY <2>1 DEF mremap
  <2>4. Works(vm, n, thread, Q, 4)
    BY <2>1, <2>2, <2>3, NamedIsLoose, WorksRemapMove DEF Remappable
  <2> HIDE DEF n, Q
  <2>5. CallTo(n, Q)
    BY <2>3, <2>4, <1>t, CallIs
  <2> QED BY <2>3, <2>5
<1>8. CASE shmat
  <2>1. PICK addr \in ShmAddrs, len \in ShmLengths, ok \in BOOLEAN :
          Ends(internal_shmat(vm, addr, len, ok),
               IF ok /\ addr # 0 THEN PagesOf(addr, len) ELSE {})
    BY <1>8 DEF shmat
  <2>2. addr = 0 /\ len \in Nat /\ len > 0
    BY WellFormed
  <2> DEFINE n == internal_shmat(vm, 0, len, ok)
  <2>3. Ends(n, {})
    BY <2>1, <2>2
  <2>4. WorksOrStops(vm, n, thread, {}, 4)
    BY <2>2, WorksShmat
  <2> HIDE DEF n
  <2>5. CallTo(n, {})
    BY <2>3, <2>4 DEF CallTo
  <2> QED BY <1>8, <2>5 DEF shmat
<1>9. CASE shmdt
  <2>1. PICK k \in 1..Len(vm.shm) :
          Ends(shm_remove(vm, k), PagesOf(vm.shm[k].start, vm.shm[k].end - vm.shm[k].start))
    BY <1>9 DEF shmdt
  <2> DEFINE n == shm_remove(vm, k)
             Q == PagesOf(vm.shm[k].start, vm.shm[k].end - vm.shm[k].start)
  <2>2. Works(vm, n, thread, Q, 2)
    BY WorksShmRemove
  <2>3. Ends(n, Q)
    BY <2>1
  <2> HIDE DEF n, Q
  <2>4. CallTo(n, Q)
    BY <2>2, <2>3, <1>t, CallIs
  <2> QED BY <1>9, <2>4 DEF shmdt
<1>10. CASE call_refused
  <2>1. Costs(vm, vm, 4)
    BY <1>0, CostsNothing
  <2>2. Takes(vm, vm, {})
    BY DEF Takes
  <2>3. CallTo(vm, {})
    BY <1>10, <2>1, <2>2 DEF CallTo, WorksOrStops, call_refused
  <2> QED BY <1>10, <2>3 DEF call_refused
<1> QED BY <1>1, <1>2, <1>3, <1>4, <1>5, <1>6, <1>7, <1>8, <1>9, <1>10 DEF Calls

-----------------------------------------------------------------------------
(* The manager agrees with the host in every reachable state.              *)

SoundInv == Shape /\ Sound(vm, thread) /\ ~taken

\* The space is sound at the start.
LEMMA SoundInit ==
  ASSUME Init
  PROVE  SoundInv
<1> DEFINE R == MAPPING_RESERVE_IN_SIGNAL_START
           x == Vma(VMA_UNMAP, MAPPING_START, R)
           y == Vma(VMA_MAP, R, ListEnd)
           l == <<x, y>>
<1>1. Shape
  BY ShapeInit
<1>2. /\ x.start = MAPPING_START /\ x.end = R
      /\ y.type = VMA_MAP /\ y.start = R /\ y.end = ListEnd
  BY DEF Vma
<1>3. vm.list = l
  BY DEF Init, InitialList
<1> HIDE DEF x, y
<1>4. Len(l) = 2 /\ l[1] = x /\ l[2] = y
  OBVIOUS
<1> HIDE DEF l
<1>5. Aligned(MAPPING_START) /\ Aligned(R) /\ Aligned(ListEnd) /\ R < ListEnd /\ R \in Nat
  <2>1. /\ Aligned(MAPPING_START) /\ Aligned(R) /\ R \in Nat
        /\ PAGE_SIZE \in Nat /\ PAGE_SIZE > 0
    BY LayoutAssumption DEF Aligned
  <2>2. Aligned(PAGE_SIZE)
    BY <2>1 DEF Aligned
  <2>3. Aligned(R + PAGE_SIZE)
    BY <2>1, <2>2, PageSum
  <2>4. ListEnd = R + PAGE_SIZE
    BY DEF ListEnd
  <2> QED BY <2>1, <2>3, <2>4
<1>6. ListAligned(l)
  <2> SUFFICES ASSUME NEW i \in 1..Len(l) PROVE Aligned(l[i].start) /\ Aligned(l[i].end)
    BY DEF ListAligned
  <2>1. i = 1 \/ i = 2
    BY <1>4
  <2> QED BY <1>2, <1>4, <1>5, <2>1
<1>7. Has(l, R, VMA_MAP)
  <2>1. 2 \in 1..Len(l)
    BY <1>4
  <2>2. l[2].type = VMA_MAP /\ l[2].start <= R /\ R < l[2].end
    BY <1>2, <1>4, <1>5
  <2> QED BY <2>1, <2>2 DEF Has
<1>8. vm.cursor = KERNEL_CHOOSE_START_ADDR /\ vm.shm = <<>> /\ vm.ongoing = <<>> /\ ~taken
  BY DEF Init
<1>9. /\ Aligned(vm.cursor) /\ KERNEL_CHOOSE_START_ADDR <= vm.cursor
      /\ vm.cursor <= R
  BY <1>8, LayoutAssumption DEF Aligned
<1>10. Orderly(vm)
  BY <1>1, <1>3, <1>6, <1>7, <1>9 DEF Orderly, Shape
<1>11. \A p \in Pages : vm.host[p] = "free"
  BY DEF Init
<1>12. \A t \in Threads : thread[t].at = "none"
  BY DEF Init
<1>13. HostIsTracked(vm)
  BY <1>11 DEF HostIsTracked
<1>14. /\ PendingIsKept(vm, thread) /\ NoCommonPage(vm.ongoing)
       /\ SegmentsAreHeld(vm) /\ NoCommonPage(vm.shm)
  <2>1. Len(vm.ongoing) = 0 /\ Len(vm.shm) = 0
    BY <1>8
  <2> QED BY <2>1 DEF PendingIsKept, NoCommonPage, SegmentsAreHeld
<1>15. StacksAreHeld(vm, thread)
  BY <1>12 DEF StacksAreHeld
<1> QED BY <1>1, <1>8, <1>10, <1>13, <1>14, <1>15 DEF Sound, SoundInv

\* Nothing was taken by a step that takes only what it was asked for.
LEMMA NothingTaken ==
  ASSUME NEW m, NEW asked, ~taken, Becomes(m, asked), Takes(vm, m, asked)
  PROVE  vm' = m /\ ~taken'
<1>1. ~\E p \in Pages \ asked : vm.host[p] # "free" /\ m.host[p] # vm.host[p]
  BY DEF Takes
<1> QED BY <1>1 DEF Becomes

\* A munmap in a signal handler.
LEMMA SignalWorks ==
  ASSUME Sound(vm, thread), thread \in [Threads -> ThreadState], munmap_in_signal
  PROVE  \E m, asked : /\ Becomes(m, asked) /\ Works(vm, m, thread, asked, 0)
                       /\ m.nfree = vm.nfree /\ m.next = vm.next /\ m.fail = vm.fail
<1>1. PICK addr \in SignalAddrs, len \in MunmapLengths :
        /\ Names(addr, len)
        /\ Becomes(SetHost(vm, PagesOf(addr, len), "free"), PagesOf(addr, len))
  BY DEF munmap_in_signal
<1> DEFINE Q == PagesOf(addr, len)
           n == SetHost(vm, Q, "free")
<1>2. addr \in Nat /\ len \in Nat
  BY Arguments
<1>3. \A p \in Q : Loose(vm, p)
  BY <1>1, <1>2, NamedIsLoose
<1>4. Q \in SUBSET Pages
  BY DEF PagesOf
<1>5. Becomes(n, Q)
  BY <1>1
<1> HIDE DEF Q
<1>6. /\ Works(vm, n, thread, Q, 0)
      /\ n.nfree = vm.nfree /\ n.next = vm.next /\ n.fail = vm.fail
  BY <1>3, <1>4, WorksHostMunmap
<1> HIDE DEF n
<1> QED BY <1>5, <1>6

\* Every step keeps it sound, one case per action.
LEMMA SoundNext ==
  ASSUME WellFormedCalls, SoundInv, [Next]_vars
  PROVE  SoundInv'
<1>0. Sound(vm, thread) /\ thread \in [Threads -> ThreadState] /\ ~taken
  BY DEF SoundInv, Shape
<1>s. Shape'
  BY ShapeNext DEF SoundInv
<1> SUFFICES Sound(vm', thread') /\ ~taken'
  BY <1>s DEF SoundInv
<1>1. CASE Calls
  <2>1. thread' = thread
    BY <1>0, <1>1, CallsWork
  <2>2. PICK m, asked : CallTo(m, asked)
    BY <1>0, <1>1, CallsWork
  <2>3. Becomes(m, asked) /\ Takes(vm, m, asked) /\ Sound(m, thread)
    BY <2>2 DEF CallTo, Ends, EndsIfShort, WorksOrStops
  <2> QED BY <1>0, <2>1, <2>3, NothingTaken
<1>2. CASE munmap_in_signal
  <2>1. PICK m, asked : Becomes(m, asked) /\ Works(vm, m, thread, asked, 0)
    BY <1>0, <1>2, SignalWorks
  <2>2. Takes(vm, m, asked) /\ Sound(m, thread)
    BY <2>1 DEF Works
  <2>3. thread' = thread
    BY <1>2 DEF munmap_in_signal
  <2> QED BY <1>0, <2>1, <2>2, <2>3, NothingTaken
<1>3. CASE collect_ongoing_unmap
  <2>1. PICK k \in Marked(vm) : Becomes(Collect(vm, k), {})
    BY <1>3 DEF collect_ongoing_unmap
  <2>2. k \in 1..Len(vm.ongoing) /\ vm.ongoing[k].done
    BY DEF Marked
  <2> DEFINE n == Collect(vm, k)
  <2>3. Sound(n, thread) /\ Takes(vm, n, {})
    BY <1>0, <2>2, WorksCollect
  <2>4. Becomes(n, {})
    BY <2>1
  <2>5. thread' = thread
    BY <1>3 DEF collect_ongoing_unmap
  <2> HIDE DEF n
  <2> QED BY <1>0, <2>3, <2>4, <2>5, NothingTaken
<1>4. CASE allocate_more_desc_memory_if_needed
  <2> DEFINE a == allocate_more_desc_memory(vm)
             n == IF vm.next THEN vm ELSE a
  <2>1. Sound(a, thread) /\ Takes(vm, a, {})
    BY <1>0, WorksAllocate
  <2>2. Takes(vm, vm, {})
    BY DEF Takes
  <2>3. Becomes(n, {}) /\ thread' = thread
    BY <1>4 DEF allocate_more_desc_memory_if_needed
  <2> HIDE DEF a
  <2>4. Sound(n, thread) /\ Takes(vm, n, {})
    BY <1>0, <2>1, <2>2
  <2> HIDE DEF n
  <2> QED BY <1>0, <2>3, <2>4, NothingTaken
<1>5. ASSUME NEW t \in Threads, clone_thread(t) PROVE Sound(vm', thread') /\ ~taken'
  <2> DEFINE r == find_vma_with_kernel_choose(vm, StackSize)
             n == IF r.addr = ENOMEM_64 THEN Stop(r.m, "no stack") ELSE MmapPlaced(r, StackSize, t, TRUE)
  <2>1. CASE r.addr = ENOMEM_64
    <3>1. Becomes(Stop(r.m, "no stack"), {}) /\ thread' = thread
      BY <1>5, <2>1 DEF clone_thread
    <3> DEFINE q == Stop(r.m, "no stack")
    <3>2. Sound(q, thread) /\ Takes(vm, q, {})
      BY <1>0, <2>1, WorksCloneFails
    <3>3. Becomes(q, {})
      BY <3>1
    <3> HIDE DEF q
    <3> QED BY <1>0, <3>1, <3>2, <3>3, NothingTaken
  <2>2. CASE r.addr # ENOMEM_64
    <3> DEFINE q == MmapPlaced(r, StackSize, t, TRUE)
               th == [thread EXCEPT ![t] = [at |-> "runs", stack |-> r.addr]]
    <3>1. Ends(q, {}) /\ thread' = th /\ thread[t].at = "none"
      BY <1>5, <2>2 DEF clone_thread
    <3>2. Works(vm, q, th, {}, 2)
      BY <1>0, <2>2, <3>1, WorksClone
    <3> HIDE DEF q, th
    <3>3. Becomes(q, {}) /\ Sound(q, th) /\ Takes(vm, q, {})
      BY <3>1, <3>2 DEF Ends, Works
    <3> QED BY <1>0, <3>1, <3>3, NothingTaken
  <2> QED BY <2>1, <2>2
<1>6. ASSUME NEW t \in Threads, munmap_guest_ongoing(t) PROVE Sound(vm', thread') /\ ~taken'
  <2> DEFINE n == internal_munmap_ongoing(vm, t, thread[t].stack, StackSize)
             th == [thread EXCEPT ![t].at = "leaves"]
  <2>1. Ends(n, {}) /\ thread' = th /\ thread[t].at = "runs"
    BY <1>6 DEF munmap_guest_ongoing
  <2>2. Sound(n, th) /\ n.host = vm.host
    BY <1>0, <2>1, WorksOngoing
  <2> HIDE DEF n, th
  <2>3. Becomes(n, {}) /\ Takes(vm, n, {})
    BY <2>1, <2>2 DEF Ends, Takes
  <2> QED BY <1>0, <2>1, <2>2, <2>3, NothingTaken
<1>7. ASSUME NEW t \in Threads, exit_munmap(t) PROVE Sound(vm', thread') /\ ~taken'
  <2> DEFINE Q == PagesOf(thread[t].stack, StackSize)
             n == SetHost(vm, Q, "free")
             P == Own(vm, thread, t)
             th == [thread EXCEPT ![t].at = "marks"]
  <2>1. Becomes(n, P) /\ thread' = th /\ thread[t].at = "leaves"
    BY <1>7 DEF exit_munmap, Own
  <2>2. Sound(n, th) /\ Takes(vm, n, P)
    BY <1>0, <2>1, WorksExitMunmap
  <2> HIDE DEF n, th, P
  <2> QED BY <1>0, <2>1, <2>2, NothingTaken
<1>8. ASSUME NEW t \in Threads, exit_mark(t) PROVE Sound(vm', thread') /\ ~taken'
  <2> DEFINE n == MarkedBy(vm, t)
             th == [thread EXCEPT ![t] = [at |-> "none", stack |-> 0]]
  <2>1. vm' = n /\ thread' = th /\ thread[t].at = "marks" /\ taken' = taken
    BY <1>8 DEF exit_mark, MarkedBy
  <2>2. Sound(n, th)
    BY <1>0, <2>1, WorksExitMark
  <2> HIDE DEF n, th
  <2> QED BY <1>0, <2>1, <2>2
<1>9. CASE UNCHANGED vars
  BY <1>0, <1>9 DEF vars
<1> QED BY <1>1, <1>2, <1>3, <1>4, <1>5, <1>6, <1>7, <1>8, <1>9 DEF Next, Calls

\* A page that the list marks is tracked: descriptors hold whole pages.
LEMMA SoundIsTracked ==
  ASSUME SoundInv
  PROVE  MappedIsTracked
<1> SUFFICES ASSUME NEW p \in Pages, vm.host[p] # "free" PROVE Tracked(p)
  BY DEF MappedIsTracked
<1>1. Has(vm.list, p, VMA_MAP) /\ ListAligned(vm.list) /\ vm.list \in Seq(Desc)
  BY ManagerFields DEF SoundInv, Sound, HostIsTracked, Orderly, Laid
<1>2. PICK i \in 1..Len(vm.list) :
        vm.list[i].type = VMA_MAP /\ vm.list[i].start <= p /\ p < vm.list[i].end
  BY <1>1 DEF Has
<1>3. vm.list[i].end \in Nat /\ Aligned(vm.list[i].end)
  BY <1>1, ElementOfDesc DEF ListAligned
<1>4. p \in Nat /\ Aligned(p)
  BY PageIs
<1>5. p + PAGE_SIZE <= vm.list[i].end
  BY <1>2, <1>3, <1>4, PageGap
<1> QED BY <1>2, <1>5 DEF Tracked

\* Memory that the host has mapped is marked VMA_MAP in every reachable state,
\* for every space, number of threads, stack size and set of well formed calls:
\* find_vma never proposes live memory, whatever a signal handler unmaps and
\* wherever the threads that leave are.
THEOREM VmaMappedIsTracked ==
  ASSUME WellFormedCalls
  PROVE  Spec => []MappedIsTracked
<1>1. Init => SoundInv
  BY SoundInit
<1>2. SoundInv /\ [Next]_vars => SoundInv'
  BY SoundNext
<1>3. SoundInv => MappedIsTracked
  BY SoundIsTracked
<1> QED BY <1>1, <1>2, <1>3, PTL DEF Spec

\* No step unmaps or replaces a page that it was not asked to: what umeq places
\* by itself never lands on live memory, and collecting a pending unmap takes
\* nothing from anyone.
THEOREM VmaTakesOnlyWhatIsAsked ==
  ASSUME WellFormedCalls
  PROVE  Spec => []TakesOnlyWhatIsAsked
<1>1. Init => SoundInv
  BY SoundInit
<1>2. SoundInv /\ [Next]_vars => SoundInv'
  BY SoundNext
<1>3. SoundInv => TakesOnlyWhatIsAsked
  BY DEF SoundInv, TakesOnlyWhatIsAsked
<1> QED BY <1>1, <1>2, <1>3, PTL DEF Spec

-----------------------------------------------------------------------------
(* No call ends on an empty list of descriptors.                           *)

\* A page of descriptors is enough for a call and for the pending unmaps that
\* are collected before the page is replaced.
EnoughDescriptors == DESC_PER_PAGE >= Cardinality(Threads) + 6

OnePerThread(o) ==
  \A i, j \in 1..Len(o) : o[i].by = o[j].by => i = j

\* Threads that have a pending unmap have left.
NoneRuns(m, th) == \A k \in 1..Len(m.ongoing) : th[m.ongoing[k].by].at # "runs"

\* Between calls a page of descriptors is in reserve; at the end of a call
\* there are enough left to collect what is pending and map another page.
Stocked(m, th, c) ==
  /\ OnePerThread(m.ongoing)
  /\ m.fail = "none" =>
       /\ ~c => m.next /\ NoneRuns(m, th)
       /\ c => Spare(m) >= Len(m.ongoing) + 2
       /\ Len(m.list) + Balance(m) + Len(m.ongoing) = 0
  /\ m.fail \notin {"no owner", "no descriptor"}

DescInv == Stocked(vm, thread, collecting)

\* There are no more pending unmaps than threads.
LEMMA FewPending ==
  ASSUME NEW o \in Seq(OngoingEntry), OnePerThread(o)
  PROVE  Len(o) \in Nat /\ Cardinality(Threads) \in Nat /\ Len(o) <= Cardinality(Threads)
<1>0. Len(o) \in Nat
  BY LenProperties
<1>1. IsFiniteSet(Threads) /\ Cardinality(Threads) \in Nat
  BY ThreadsAssumption, FS_CardinalityType
<1> DEFINE f == [k \in 1..Len(o) |-> o[k].by]
<1>2. f \in [1..Len(o) -> Threads]
  <2> SUFFICES ASSUME NEW k \in 1..Len(o) PROVE o[k].by \in Threads
    OBVIOUS
  <2>1. o[k] \in OngoingEntry
    BY ElementOfSeq
  <2> QED BY <2>1 DEF OngoingEntry
<1>3. \A i, j \in 1..Len(o) : f[i] = f[j] => i = j
  BY DEF OnePerThread
<1> HIDE DEF f
<1>4. f \in Injection(1..Len(o), Threads)
  BY <1>2, <1>3 DEF Injection, IsInjective
<1>5. Cardinality(1..Len(o)) <= Cardinality(Threads)
  BY <1>1, <1>4, FS_Injection
<1>6. Cardinality(1..Len(o)) = IF 1 > Len(o) THEN 0 ELSE Len(o) - 1 + 1
  BY <1>0, FS_Interval, SMTT(30)
<1>7. Cardinality(1..Len(o)) = Len(o)
  BY <1>0, <1>6
<1> QED BY <1>0, <1>1, <1>5, <1>7

\* What is not marked belongs to a thread on its way out.
LEMMA UnmarkedIsLeaving ==
  ASSUME NEW m, NEW th, Sound(m, th), Marked(m) = {}
  PROVE  NoneRuns(m, th)
<1> SUFFICES ASSUME NEW k \in 1..Len(m.ongoing) PROVE th[m.ongoing[k].by].at # "runs"
  BY DEF NoneRuns
<1>1. ~m.ongoing[k].done
  BY DEF Marked
<1>2. th[m.ongoing[k].by].at \in {"leaves", "marks"}
  BY <1>1 DEF Sound, PendingIsKept
<1> QED BY <1>2

\* Between calls.
LEMMA ReserveIsThere ==
  ASSUME EnoughDescriptors, NEW m \in Manager, NEW th, Stocked(m, th, FALSE), m.fail = "none"
  PROVE  /\ Spare(m) \in Nat /\ Spare(m) >= Cardinality(Threads) + 6
         /\ Spare(m) >= 4
<1>1. m.next /\ m.nfree \in Nat /\ DESC_PER_PAGE \in Nat
  BY ManagerFields, DescAssumption DEF Stocked
<1>2. Spare(m) \in Nat /\ Spare(m) >= DESC_PER_PAGE
  BY <1>1 DEF Spare
<1>3. Cardinality(Threads) \in Nat
  BY ThreadsAssumption, FS_CardinalityType
<1> QED BY <1>1, <1>2, <1>3 DEF EnoughDescriptors

\* Four descriptors of the six above the number of threads.
LEMMA FourOfSix ==
  ASSUME NEW a \in Nat, NEW b \in Nat, NEW d \in Nat, NEW e \in Nat,
         b >= e + 6, a >= b - 4, d <= e
  PROVE  a >= d + 2
OBVIOUS

\* After a call that has taken at most four, what is left is enough for the end
\* of the call.
LEMMA ReserveLasts ==
  ASSUME EnoughDescriptors, NEW m \in Manager, NEW n \in Manager, NEW th,
         Stocked(m, th, FALSE), m.fail = "none",
         OnePerThread(n.ongoing), Spare(n) >= Spare(m) - 4
  PROVE  Spare(n) >= Len(n.ongoing) + 2
<1> DEFINE a == Spare(n)
           b == Spare(m)
           d == Len(n.ongoing)
           e == Cardinality(Threads)
<1>1. b \in Nat /\ b >= e + 6
  BY ReserveIsThere
<1>2. a \in Nat /\ a >= b - 4
  BY ManagerFields
<1>3. d \in Nat /\ e \in Nat /\ d <= e
  BY ManagerFields, FewPending
<1> HIDE DEF a, b, d, e
<1>4. a >= d + 2
  BY <1>1, <1>2, <1>3, FourOfSix
<1> QED BY <1>4 DEF a, d

\* The descriptors at the start: two on the list, a page in reserve.
LEMMA DescInit ==
  ASSUME Init
  PROVE  DescInv
<1>1. Len(vm.ongoing) = 0 /\ Len(vm.list) = 2 /\ vm.next = TRUE /\ vm.fail = "none" /\ collecting = FALSE
  BY DEF Init, InitialList
<1>2. vm.nfree = DESC_PER_PAGE - 2 /\ vm.ndesc = DESC_PER_PAGE /\ DESC_PER_PAGE \in Nat
  BY DescAssumption DEF Init
<1>3. Balance(vm) = 0 - 2
  BY <1>2 DEF Balance
<1>4. Len(vm.list) + Balance(vm) + Len(vm.ongoing) = 0
  BY <1>1, <1>3
<1>5. OnePerThread(vm.ongoing) /\ NoneRuns(vm, thread)
  BY <1>1 DEF OnePerThread, NoneRuns
<1> QED BY <1>1, <1>4, <1>5 DEF DescInv, Stocked

\* Every step keeps the reserve, one case per action.
LEMMA DescNext ==
  ASSUME WellFormedCalls, EnoughDescriptors, SoundInv, DescInv, [Next]_vars
  PROVE  DescInv'
<1>0. /\ Sound(vm, thread) /\ thread \in [Threads -> ThreadState] /\ vm \in Manager
      /\ vm.ongoing \in Seq(OngoingEntry) /\ collecting \in BOOLEAN
  BY ManagerFields DEF SoundInv, Shape, Sound, Orderly, Laid
<1>s. Stocked(vm, thread, collecting) /\ OnePerThread(vm.ongoing)
  BY DEF DescInv, Stocked
<1>n. Spare(vm) \in Nat /\ Balance(vm) \in Int /\ Len(vm.list) \in Nat /\ Len(vm.ongoing) \in Nat
  BY <1>0, ManagerFields, LenProperties
<1>i. ASSUME Idle PROVE /\ Stocked(vm, thread, FALSE) /\ vm.fail = "none" /\ Spare(vm) >= 4
                        /\ vm.next /\ NoneRuns(vm, thread)
                        /\ Len(vm.list) + Balance(vm) + Len(vm.ongoing) = 0
  <2>1. collecting = FALSE /\ vm.fail = "none"
    BY <1>0, <1>i DEF Idle, Running
  <2>2. Stocked(vm, thread, FALSE)
    BY <1>s, <2>1
  <2>3. Spare(vm) >= 4
    BY <1>0, <2>1, <2>2, ReserveIsThere
  <2> QED BY <2>1, <2>2, <2>3 DEF Stocked
<1>c. ASSUME Running, collecting
      PROVE  /\ vm.fail = "none" /\ Spare(vm) >= Len(vm.ongoing) + 2 /\ Spare(vm) >= 2
             /\ Len(vm.list) + Balance(vm) + Len(vm.ongoing) = 0
  <2>1. /\ vm.fail = "none" /\ Spare(vm) >= Len(vm.ongoing) + 2
        /\ Len(vm.list) + Balance(vm) + Len(vm.ongoing) = 0
    BY <1>c, <1>s DEF Running, Stocked
  <2> DEFINE a == Spare(vm)
             b == Len(vm.ongoing)
  <2>2. a \in Nat /\ b \in Nat /\ a >= b + 2
    BY <1>n, <2>1
  <2> HIDE DEF a, b
  <2>3. a >= 2
    BY <2>2
  <2> QED BY <2>1, <2>3 DEF a
<1> SUFFICES Stocked(vm', thread', collecting')
  BY DEF DescInv
<1>1. CASE Calls
  <2>1. Idle /\ thread' = thread
    BY <1>0, <1>1, CallsWork
  <2>2. PICK m, asked : CallTo(m, asked)
    BY <1>0, <1>1, CallsWork
  <2>3. /\ vm' = m /\ collecting' \in BOOLEAN
        /\ m.fail = "none" /\ ~collecting' => m.next
    BY <2>2 DEF CallTo, Ends, EndsIfShort, Becomes
  <2>4. /\ m \in Manager /\ m.ongoing = vm.ongoing
        /\ m.fail = "no room" \/ Costs(vm, m, 4)
    BY <2>2 DEF CallTo, WorksOrStops, Sound, Orderly, Laid
  <2>5. m.fail \in {"none", "no room"} /\ (m.fail = "none" => Costs(vm, m, 4))
    BY <1>i, <2>1, <2>4 DEF Costs
  <2>6. ASSUME m.fail = "none"
        PROVE  /\ Spare(m) >= Spare(vm) - 4
               /\ Len(m.list) + Balance(m) + Len(m.ongoing) = 0
    <3>1. Spare(m) >= Spare(vm) - 4 /\ Len(m.list) + Balance(m) = Len(vm.list) + Balance(vm)
      BY <1>i, <2>1, <2>5, <2>6 DEF Costs
    <3> QED BY <1>i, <2>1, <2>4, <3>1
  <2>7. NoneRuns(m, thread)
    BY <1>i, <2>1, <2>4 DEF NoneRuns
  <2>a. OnePerThread(m.ongoing)
    BY <1>s, <2>4
  <2>b. m.fail = "none" => Spare(m) >= Len(m.ongoing) + 2
    BY <1>0, <1>i, <2>1, <2>4, <2>6, <2>a, ReserveLasts
  <2>8. Stocked(m, thread, collecting')
    BY <2>3, <2>5, <2>6, <2>7, <2>a, <2>b DEF Stocked
  <2> QED BY <2>1, <2>3, <2>8
<1>2. CASE munmap_in_signal
  <2>1. PICK m, asked : /\ Becomes(m, asked) /\ Works(vm, m, thread, asked, 0)
                        /\ m.nfree = vm.nfree /\ m.next = vm.next /\ m.fail = vm.fail
    BY <1>0, <1>2, SignalWorks
  <2>2. vm' = m /\ thread' = thread /\ collecting' = collecting
    BY <1>2, <2>1 DEF munmap_in_signal, Becomes
  <2>3. m.ongoing = vm.ongoing /\ Costs(vm, m, 0)
    BY <2>1 DEF Works
  <2>4. Spare(m) = Spare(vm)
    BY <2>1 DEF Spare
  <2>5. m.fail = "none" => Len(m.list) + Balance(m) = Len(vm.list) + Balance(vm)
    BY <2>3 DEF Costs
  <2> QED BY <1>s, <2>1, <2>2, <2>3, <2>4, <2>5 DEF Stocked, NoneRuns
<1>3. CASE collect_ongoing_unmap
  <2>1. PICK k \in Marked(vm) : Becomes(Collect(vm, k), {})
    BY <1>3 DEF collect_ongoing_unmap
  <2>2. k \in 1..Len(vm.ongoing) /\ vm.ongoing[k].done
    BY DEF Marked
  <2>3. Running /\ collecting /\ thread' = thread /\ collecting' = collecting
    BY <1>3 DEF collect_ongoing_unmap
  <2> DEFINE n == Collect(vm, k)
             s == RemoveAt(vm.ongoing, k)
  <2>4. /\ n.ongoing = s
        /\ Spare(vm) >= 2 => n.fail = vm.fail /\ Spare(n) >= Spare(vm) - 1
        /\ n.fail = "none" => Len(n.list) + Balance(n) = Len(vm.list) + Balance(vm) + 1
        /\ Sound(n, thread)
    BY <1>0, <2>2, WorksCollect
  <2>5. vm' = n
    BY <2>1 DEF Becomes
  <2> HIDE DEF n
  <2>6. s \in Seq(OngoingEntry) /\ Without(s, vm.ongoing, k)
    BY <1>0, <2>2, RemoveAtElements
  <2>7. OnePerThread(s)
    <3> SUFFICES ASSUME NEW i \in 1..Len(s), NEW j \in 1..Len(s), s[i].by = s[j].by PROVE i = j
      BY DEF OnePerThread
    <3> HIDE DEF s
    <3>1. PICK g \in 1..Len(vm.ongoing) : s[i] = vm.ongoing[g] /\ g = IF i < k THEN i ELSE i + 1
      BY <2>6 DEF Without
    <3>2. PICK h \in 1..Len(vm.ongoing) : s[j] = vm.ongoing[h] /\ h = IF j < k THEN j ELSE j + 1
      BY <2>6 DEF Without
    <3>3. g = h
      BY <1>s, <3>1, <3>2 DEF OnePerThread
    <3>4. Len(s) \in Nat /\ k \in Nat
      BY <1>n, <2>2, <2>6 DEF Without
    <3> QED BY <3>1, <3>2, <3>3, <3>4
  <2>8. /\ vm.fail = "none" /\ Spare(vm) >= Len(vm.ongoing) + 2 /\ Spare(vm) >= 2
        /\ Len(vm.list) + Balance(vm) + Len(vm.ongoing) = 0
    BY <1>c, <2>3
  <2>9. n.fail = "none" /\ Spare(n) >= Spare(vm) - 1
    BY <2>4, <2>8
  <2>10. Len(s) = Len(vm.ongoing) - 1
    BY <2>6 DEF Without
  <2>11. Spare(n) >= Len(n.ongoing) + 2 /\ Len(n.list) + Balance(n) + Len(n.ongoing) = 0
    <3> DEFINE a == Spare(n)
               b == Spare(vm)
               d == Len(vm.ongoing)
               e == Len(n.list) + Balance(n)
               f == Len(vm.list) + Balance(vm)
               g == Len(n.ongoing)
    <3>1. /\ b \in Nat /\ d \in Nat /\ f \in Int /\ a >= b - 1 /\ b >= d + 2 /\ e = f + 1 /\ f + d = 0
          /\ g = d - 1
      BY <1>n, <2>4, <2>8, <2>9, <2>10
    <3>2. a \in Nat
      BY <2>4, ManagerFields DEF Sound, Orderly, Laid
    <3> HIDE DEF a, b, d, e, f, g
    <3>3. a >= g + 2 /\ e + g = 0
      BY <3>1, <3>2
    <3> QED BY <3>3 DEF a, e, g
  <2> QED BY <2>3, <2>4, <2>5, <2>7, <2>9, <2>11 DEF Stocked
<1>4. CASE allocate_more_desc_memory_if_needed
  <2> DEFINE a == allocate_more_desc_memory(vm)
  <2>1. /\ Sound(a, thread) /\ a.ongoing = vm.ongoing /\ a.next
        /\ Spare(vm) >= 2 => a.fail \in {vm.fail, "no room"}
        /\ a.fail = "none" => Len(a.list) + Balance(a) = Len(vm.list) + Balance(vm)
    BY <1>0, WorksAllocate
  <2>2. /\ Running /\ collecting /\ Marked(vm) = {} /\ thread' = thread /\ collecting' = FALSE
        /\ vm' = IF vm.next THEN vm ELSE a
    BY <1>4 DEF allocate_more_desc_memory_if_needed, Becomes
  <2> HIDE DEF a
  <2>3. NoneRuns(vm, thread)
    BY <1>0, <2>2, UnmarkedIsLeaving
  <2>4. /\ vm.fail = "none" /\ Spare(vm) >= 2
        /\ Len(vm.list) + Balance(vm) + Len(vm.ongoing) = 0
    BY <1>c, <2>2
  <2>5. CASE vm.next
    BY <1>s, <2>2, <2>3, <2>4, <2>5 DEF Stocked
  <2>6. CASE ~vm.next
    <3>1. vm' = a /\ a.fail \in {"none", "no room"} /\ NoneRuns(a, thread)
      BY <2>1, <2>2, <2>3, <2>4, <2>6 DEF NoneRuns
    <3>2. a.fail = "none" => Len(a.list) + Balance(a) + Len(a.ongoing) = 0
      BY <2>1, <2>4
    <3> QED BY <1>s, <2>1, <2>2, <3>1, <3>2 DEF Stocked
  <2> QED BY <2>5, <2>6
<1>5. ASSUME NEW t \in Threads, clone_thread(t) PROVE Stocked(vm', thread', collecting')
  <2> DEFINE r == find_vma_with_kernel_choose(vm, StackSize)
  <2>0. Idle /\ thread[t].at = "none"
    BY <1>5 DEF clone_thread
  <2>1. CASE r.addr = ENOMEM_64
    <3> DEFINE q == Stop(r.m, "no stack")
    <3>1. Becomes(q, {})
      BY <1>5, <2>1 DEF clone_thread
    <3>2. q.ongoing = vm.ongoing /\ q.fail = "no stack"
      BY <1>0, <2>1, WorksCloneFails
    <3> HIDE DEF q
    <3>3. vm' = q
      BY <3>1 DEF Becomes
    <3> QED BY <1>s, <3>2, <3>3 DEF Stocked
  <2>2. CASE r.addr # ENOMEM_64
    <3> DEFINE q == MmapPlaced(r, StackSize, t, TRUE)
               th == [thread EXCEPT ![t] = [at |-> "runs", stack |-> r.addr]]
    <3>1. Ends(q, {}) /\ thread' = th
      BY <1>5, <2>2 DEF clone_thread
    <3>2. Works(vm, q, th, {}, 2)
      BY <1>0, <2>0, <2>2, WorksClone
    <3> HIDE DEF q, th
    <3>3. /\ vm' = q /\ collecting' \in BOOLEAN
          /\ q.fail = "none" /\ ~collecting' => q.next /\ Marked(q) = {}
      BY <3>1 DEF Ends, Becomes
    <3>4. Sound(q, th) /\ q \in Manager /\ q.ongoing = vm.ongoing /\ Costs(vm, q, 4)
      <4>1. Sound(q, th) /\ q \in Manager /\ q.ongoing = vm.ongoing /\ Costs(vm, q, 2)
        BY <3>2 DEF Works, Sound, Orderly, Laid
      <4>2. 2 \in Nat /\ 4 \in Nat /\ 2 <= 4
        OBVIOUS
      <4> QED BY <1>0, <4>1, <4>2, CostsMore
    <3>5. q.fail = "none" /\ Spare(q) >= Spare(vm) - 4
          /\ Len(q.list) + Balance(q) = Len(vm.list) + Balance(vm)
      BY <1>i, <2>0, <3>4 DEF Costs
    <3>6. Len(q.list) + Balance(q) + Len(q.ongoing) = 0
      BY <1>i, <2>0, <3>4, <3>5
    <3>7. ~collecting' => q.next /\ NoneRuns(q, th)
      BY <3>3, <3>4, <3>5, UnmarkedIsLeaving
    <3>a. OnePerThread(q.ongoing)
      BY <1>s, <3>4
    <3>b. Spare(q) >= Len(q.ongoing) + 2
      BY <1>0, <1>i, <2>0, <3>4, <3>5, <3>a, ReserveLasts
    <3>8. Stocked(q, th, collecting')
      BY <3>5, <3>6, <3>7, <3>a, <3>b DEF Stocked
    <3> QED BY <3>1, <3>3, <3>8
  <2> QED BY <2>1, <2>2
<1>6. ASSUME NEW t \in Threads, munmap_guest_ongoing(t) PROVE Stocked(vm', thread', collecting')
  <2> DEFINE n == internal_munmap_ongoing(vm, t, thread[t].stack, StackSize)
             th == [thread EXCEPT ![t].at = "leaves"]
  <2>1. Ends(n, {}) /\ thread' = th /\ thread[t].at = "runs" /\ Idle
    BY <1>6 DEF munmap_guest_ongoing
  <2>2. /\ Sound(n, th)
        /\ Adds(n.ongoing, vm.ongoing, t)
        /\ Spare(vm) >= 1 => n.fail = vm.fail /\ Spare(n) >= Spare(vm) - 1
        /\ n.fail = "none" =>
             /\ vm.fail = "none"
             /\ Len(n.list) + Balance(n) = Len(vm.list) + Balance(vm) - 1
    BY <1>0, <2>1, WorksOngoing
  <2> HIDE DEF n, th
  <2>3. /\ vm' = n /\ collecting' \in BOOLEAN
        /\ n.fail = "none" /\ ~collecting' => n.next /\ Marked(n) = {}
    BY <2>1 DEF Ends, Becomes
  <2>4. n \in Manager
    BY <2>2 DEF Sound, Orderly, Laid
  <2>5. PICK e \in OngoingEntry : e.by = t /\ n.ongoing = <<e>> \o vm.ongoing
    BY <2>2 DEF Adds
  <2> DEFINE f == vm.ongoing
             o == <<e>> \o f
  <2>6. /\ Len(o) = Len(f) + 1 /\ Len(f) \in Nat /\ o[1] = e
        /\ \A i \in 1..Len(o) : i # 1 => i - 1 \in 1..Len(f) /\ o[i] = f[i - 1]
    BY <1>0, ConsIs
  <2>7. n.ongoing = o
    BY <2>5
  <2>8. \A k \in 1..Len(f) : f[k].by # t
    BY <1>i, <2>1 DEF NoneRuns
  <2>a. OnePerThread(f)
    BY <1>s
  <2> HIDE DEF f, o
  <2>9. OnePerThread(o)
    <3> SUFFICES ASSUME NEW i \in 1..Len(o), NEW j \in 1..Len(o), o[i].by = o[j].by PROVE i = j
      BY DEF OnePerThread
    <3>1. CASE i = 1 \/ j = 1
      BY <2>5, <2>6, <2>8, <3>1
    <3>2. CASE i # 1 /\ j # 1
      <4>1. i - 1 \in 1..Len(f) /\ o[i] = f[i - 1] /\ j - 1 \in 1..Len(f) /\ o[j] = f[j - 1]
        BY <2>6, <3>2
      <4>2. i - 1 = j - 1
        BY <2>a, <4>1 DEF OnePerThread
      <4> QED BY <4>2
    <3> QED BY <3>1, <3>2
  <2>10. n.fail = "none" /\ Spare(n) >= Spare(vm) - 4 /\ Len(n.list) + Balance(n) + Len(n.ongoing) = 0
    <3>1. vm.fail = "none" /\ Spare(vm) >= 4 /\ Len(vm.list) + Balance(vm) + Len(f) = 0
      BY <1>i, <2>1 DEF f
    <3> DEFINE a == Spare(n)
               b == Spare(vm)
               d == Len(f)
               g == Len(n.list) + Balance(n)
               h == Len(vm.list) + Balance(vm)
               l == Len(n.ongoing)
    <3>2. b \in Nat /\ b >= 4 /\ d \in Nat /\ h \in Int /\ h + d = 0 /\ l = d + 1
      BY <1>n, <2>6, <2>7, <3>1
    <3>3. Spare(vm) >= 1
      <4> HIDE DEF a, d, g, h, l
      <4>1. b >= 1
        BY <3>2
      <4> QED BY <4>1
    <3>n. n.fail = "none" /\ Spare(n) >= Spare(vm) - 1
      BY <2>2, <3>1, <3>3
    <3>b. Len(n.list) + Balance(n) = Len(vm.list) + Balance(vm) - 1
      BY <2>2, <3>n
    <3>c. g = h - 1
      <4> DEFINE u == Len(vm.list)
                 v == Balance(vm)
      <4>1. u \in Nat /\ v \in Int /\ g = u + v - 1
        BY <1>n, <3>b
      <4> HIDE DEF g, u, v
      <4>2. g = (u + v) - 1
        BY <4>1
      <4> QED BY <4>2 DEF u, v
    <3>4. n.fail = "none" /\ a >= b - 1 /\ g = h - 1
      BY <3>n, <3>c
    <3>5. a \in Nat
      BY <2>4, ManagerFields
    <3> HIDE DEF a, b, d, g, h, l
    <3>6. a >= b - 4 /\ g + l = 0
      BY <3>2, <3>4, <3>5
    <3> QED BY <3>4, <3>6 DEF a, b, g, l
  <2>11. ~collecting' => n.next /\ NoneRuns(n, th)
    BY <2>2, <2>3, <2>10, UnmarkedIsLeaving
  <2>b. OnePerThread(n.ongoing)
    BY <2>7, <2>9
  <2>c. Spare(n) >= Len(n.ongoing) + 2
    BY <1>0, <1>i, <2>1, <2>4, <2>10, <2>b, ReserveLasts
  <2>12. Stocked(n, th, collecting')
    BY <2>10, <2>11, <2>b, <2>c DEF Stocked
  <2> QED BY <2>1, <2>3, <2>12
<1>7. ASSUME NEW t \in Threads, exit_munmap(t) PROVE Stocked(vm', thread', collecting')
  <2> DEFINE Q == PagesOf(thread[t].stack, StackSize)
             n == SetHost(vm, Q, "free")
             th == [thread EXCEPT ![t].at = "marks"]
  <2>1. vm' = n /\ thread' = th /\ thread[t].at = "leaves" /\ collecting' = collecting
    BY <1>7 DEF exit_munmap, Becomes
  <2>2. /\ n.list = vm.list /\ n.nfree = vm.nfree /\ n.ndesc = vm.ndesc /\ n.next = vm.next
        /\ n.fail = vm.fail /\ n.ongoing = vm.ongoing
    BY <1>0, <2>1, WorksExitMunmap
  <2>3. \A q \in Threads : th[q].at = "runs" => thread[q].at = "runs"
    BY <1>0 DEF ThreadState
  <2> HIDE DEF n, th
  <2>4. Spare(n) = Spare(vm) /\ Balance(n) = Balance(vm)
    BY <2>2 DEF Spare, Balance
  <2>5. NoneRuns(vm, thread) => NoneRuns(n, th)
    <3>1. \A k \in 1..Len(vm.ongoing) : vm.ongoing[k] \in OngoingEntry
      BY <1>0, ElementOfSeq
    <3>2. \A k \in 1..Len(vm.ongoing) : vm.ongoing[k].by \in Threads
      BY <3>1 DEF OngoingEntry
    <3> QED BY <2>2, <2>3, <3>2 DEF NoneRuns
  <2> QED BY <1>s, <2>1, <2>2, <2>4, <2>5 DEF Stocked
<1>8. ASSUME NEW t \in Threads, exit_mark(t) PROVE Stocked(vm', thread', collecting')
  <2> DEFINE n == MarkedBy(vm, t)
             th == [thread EXCEPT ![t] = [at |-> "none", stack |-> 0]]
  <2>1. vm' = n /\ thread' = th /\ thread[t].at = "marks" /\ collecting' = collecting
    BY <1>8 DEF exit_mark, MarkedBy
  <2>2. /\ n.list = vm.list /\ n.nfree = vm.nfree /\ n.ndesc = vm.ndesc /\ n.next = vm.next
        /\ n.fail = vm.fail
        /\ Len(n.ongoing) = Len(vm.ongoing)
        /\ \A k \in 1..Len(n.ongoing) : n.ongoing[k].by = vm.ongoing[k].by
    BY <1>0, <2>1, WorksExitMark
  <2>3. \A q \in Threads : th[q].at = "runs" => thread[q].at = "runs"
    BY <1>0
  <2> HIDE DEF n, th
  <2>4. Spare(n) = Spare(vm) /\ Balance(n) = Balance(vm)
    BY <2>2 DEF Spare, Balance
  <2>5. NoneRuns(vm, thread) => NoneRuns(n, th)
    <3>1. \A k \in 1..Len(vm.ongoing) : vm.ongoing[k] \in OngoingEntry
      BY <1>0, ElementOfSeq
    <3>2. \A k \in 1..Len(vm.ongoing) : vm.ongoing[k].by \in Threads
      BY <3>1 DEF OngoingEntry
    <3> QED BY <2>2, <2>3, <3>2 DEF NoneRuns
  <2>6. OnePerThread(n.ongoing)
    BY <1>s, <2>2 DEF OnePerThread
  <2> QED BY <1>s, <2>1, <2>2, <2>4, <2>5, <2>6 DEF Stocked
<1>9. CASE UNCHANGED vars
  BY <1>s, <1>9 DEF vars
<1> QED BY <1>1, <1>2, <1>3, <1>4, <1>5, <1>6, <1>7, <1>8, <1>9 DEF Next, Calls

\* No descriptor is missing.
LEMMA StockedIsConserved ==
  ASSUME SoundInv, DescInv
  PROVE  DescriptorsConserved
<1>0. vm \in Manager /\ vm.ongoing \in Seq(OngoingEntry)
  BY ManagerFields DEF SoundInv, Sound, Orderly, Laid
<1>1. /\ vm.nfree \in Nat /\ vm.ndesc \in Nat /\ Len(vm.list) \in Nat /\ Len(vm.ongoing) \in Nat
  BY <1>0, ManagerFields, LenProperties
<1>2. ASSUME Running PROVE Len(vm.list) + vm.nfree + Len(vm.ongoing) = vm.ndesc
  <2>1. Len(vm.list) + (vm.nfree - vm.ndesc) + Len(vm.ongoing) = 0
    BY <1>2 DEF DescInv, Stocked, Running, Balance
  <2> DEFINE a == Len(vm.list)
             b == Len(vm.ongoing)
             c == vm.nfree
             d == vm.ndesc
  <2>2. a \in Nat /\ b \in Nat /\ c \in Nat /\ d \in Nat /\ a + (c - d) + b = 0
    BY <1>1, <2>1
  <2> HIDE DEF a, b, c, d
  <2>3. a + c + b = d
    BY <2>2
  <2> QED BY <2>3 DEF a, b, c, d
<1>3. vm.fail \notin {"no owner", "no descriptor"}
  BY DEF DescInv, Stocked
<1> QED BY <1>2, <1>3 DEF DescriptorsConserved

\* Every descriptor is on exactly one list, and no call ends umeq on an empty
\* list of descriptors or on an address without owner, when a page holds six
\* descriptors more than there are threads: the page in reserve lasts until
\* allocate_more_desc_memory_if_needed replaces it, whatever is collected
\* before.
THEOREM VmaDescriptorsConserved ==
  ASSUME WellFormedCalls, EnoughDescriptors
  PROVE  Spec => []DescriptorsConserved
<1>1. Init => SoundInv /\ DescInv
  BY SoundInit, DescInit
<1>2. SoundInv /\ DescInv /\ [Next]_vars => SoundInv' /\ DescInv'
  BY SoundNext, DescNext
<1>3. SoundInv /\ DescInv => DescriptorsConserved
  BY StockedIsConserved
<1> QED BY <1>1, <1>2, <1>3, PTL DEF Spec

=============================================================================
