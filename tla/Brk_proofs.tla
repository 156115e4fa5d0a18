----------------------------- MODULE Brk_proofs -----------------------------
(***************************************************************************)
(* Threads that call brk at the same time never make the break, nor the    *)
(* memset of new memory, go beyond what is mapped for the heap, whatever   *)
(* their number, the size of a page and the breaks they ask for.           *)
(***************************************************************************)
EXTENDS Brk, TLAPS

\* What a call knows of the heap at each of its steps.  A call that got its
\* memory somewhere else ends before it uses it, unless the end of the heap
\* has moved there in between: then what it got begins above what it asked.
CallInv(t) ==
    /\ pc[t] \in {"map", "mapped", "zero", "memset", "set"} => new_brk[t] >= StartBrk
    /\ pc[t] = "map" => at[t] \in StartBrk..new_brk[t] /\ Range(StartBrk, at[t]) \subseteq heap
    /\ pc[t] = "mapped" /\ at[t] # ERROR =>
          /\ AlignUp(new_brk[t]) <= LastAddr
          /\ at[t] < StartBrk \/ Range(at[t], AlignUp(new_brk[t])) \subseteq heap
    /\ pc[t] \in {"zero", "memset", "set"} => Range(StartBrk, new_brk[t]) \subseteq heap

HeapInv ==
    /\ TypeOK
    /\ Range(StartBrk, mapbrk) \subseteq heap /\ Range(StartBrk, curbrk) \subseteq heap
    /\ \A t \in Threads : CallInv(t)

\* The end of the mapped heap is always above the break it is mapped for.
LEMMA AlignUpAbove ==
    ASSUME NEW a \in Nat
    PROVE  AlignUp(a) \in Nat /\ AlignUp(a) > a
<1>1. PageSize \in Nat /\ PageSize > 0
  BY BrkAssumption
<1> DEFINE q == (a + PageSize) \div PageSize
           r == (a + PageSize) % PageSize
<1>2. q \in Nat /\ r \in 0..(PageSize - 1) /\ a + PageSize = PageSize * q + r
  BY <1>1, SMT
<1>3. AlignUp(a) = q * PageSize
  BY DEF AlignUp
<1>4. q * PageSize = PageSize * q
  BY <1>1, <1>2
<1> HIDE DEF q, r
<1>5. PageSize * q \in Nat
  BY <1>1, <1>2
<1> QED
  BY <1>1, <1>2, <1>3, <1>4, <1>5

LEMMA HeapInit == Init => HeapInv
<1> SUFFICES ASSUME Init PROVE HeapInv
  OBVIOUS
<1> USE BrkAssumption
<1>1. MinPages * PageSize \in Nat
  OBVIOUS
<1>2. TypeOK
  <2>1. /\ curbrk \in StartBrk..LastAddr /\ mapbrk \in StartBrk..LastAddr
        /\ heap \subseteq Addr /\ others \subseteq Addr /\ data \subseteq Addr
    BY <1>1 DEF Init, Range, Addr
  <2>2. /\ pc \in [Threads -> {"idle", "map", "mapped", "zero", "memset", "set", "out"}]
        /\ new_brk \in [Threads -> 0..LastAddr] /\ at \in [Threads -> 0..ERROR]
    BY DEF Init, ERROR
  <2>3. clean \in [Threads -> BOOLEAN] /\ wrong \in BOOLEAN
    BY Zenon DEF Init
  <2> QED
    BY <2>1, <2>2, <2>3 DEF TypeOK
<1> QED
  BY <1>1, <1>2 DEF Init, HeapInv, CallInv, Range, Addr

(* The steps keep the invariant.  heap only grows, so it is enough to look  *)
(* at the call that moves.                                                  *)
LEMMA OtherCalls ==
    ASSUME NEW t \in Threads, NEW u \in Threads, u # t, HeapInv, heap \subseteq heap',
           pc'[u] = pc[u], new_brk'[u] = new_brk[u], at'[u] = at[u]
    PROVE  CallInv(u)'
  BY DEF HeapInv, CallInv, Range, AlignUp, ERROR, Addr

(* Types, apart from those of the history variables.                        *)
Types ==
    /\ curbrk \in StartBrk..LastAddr /\ mapbrk \in StartBrk..LastAddr
    /\ heap \subseteq Addr /\ others \subseteq Addr /\ data \subseteq Addr
    /\ pc \in [Threads -> {"idle", "map", "mapped", "zero", "memset", "set", "out"}]
    /\ new_brk \in [Threads -> 0..LastAddr] /\ at \in [Threads -> 0..ERROR]

LEMMA HistoryTypes == TypeOK /\ [Next]_vars => (clean \in [Threads -> BOOLEAN] /\ wrong \in BOOLEAN)'
<1> SUFFICES ASSUME TypeOK, [Next]_vars
             PROVE  clean' \in [Threads -> BOOLEAN] /\ wrong' \in BOOLEAN
  OBVIOUS
<1>1. clean \in [Threads -> BOOLEAN] /\ wrong \in BOOLEAN
  BY DEF TypeOK
<1>2. ASSUME NEW t \in Threads, NEW b \in Breaks, arm64_brk(t, b)
      PROVE  clean' \in [Threads -> BOOLEAN] /\ wrong' \in BOOLEAN
  BY <1>1, <1>2, Zenon DEF arm64_brk
<1>3. ASSUME NEW t \in Threads, memset(t) \/ SetBreak(t)
      PROVE  clean' \in [Threads -> BOOLEAN] /\ wrong' \in BOOLEAN
  BY <1>1, <1>3, Zenon DEF memset, SetBreak
<1>4. ASSUME UNCHANGED <<clean, wrong>>
      PROVE  clean' \in [Threads -> BOOLEAN] /\ wrong' \in BOOLEAN
  BY <1>1, <1>4
<1> QED
  BY <1>2, <1>3, <1>4 DEF Next, Step, mmap_guest, Mapped, Compare, Return, GuestStore, OtherMmap, vars

LEMMA HeapStep == HeapInv /\ [Next]_vars => HeapInv'
<1> SUFFICES ASSUME HeapInv, [Next]_vars PROVE HeapInv'
  OBVIOUS
<1>c. StartBrk \in Nat /\ LastAddr \in Nat /\ Breaks \subseteq 0..LastAddr
  BY BrkAssumption
<1> USE <1>c
<1>t. Types
  BY DEF HeapInv, TypeOK, Types
\* What every step shows: the types, and that the heap still holds what it must.
<1> DEFINE Kept == Types' /\ heap \subseteq heap'
                   /\ Range(StartBrk, mapbrk)' \subseteq heap' /\ Range(StartBrk, curbrk)' \subseteq heap'
<1>s. ASSUME NEW t \in Threads, Kept, CallInv(t)',
             \A u \in Threads \ {t} : pc'[u] = pc[u] /\ new_brk'[u] = new_brk[u] /\ at'[u] = at[u]
      PROVE  HeapInv'
  <2>1. \A u \in Threads : CallInv(u)'
    BY <1>s, OtherCalls
  <2>2. TypeOK'
    BY <1>s, HistoryTypes DEF Types, TypeOK, HeapInv
  <2> QED
    BY <1>s, <2>1, <2>2 DEF HeapInv
<1>1. ASSUME NEW t \in Threads, NEW b \in Breaks, arm64_brk(t, b) PROVE HeapInv'
  <2>1. Kept
    BY <1>1, <1>t DEF arm64_brk, Types, Goto, HeapInv, ERROR, Range, Addr
  <2>2. CallInv(t)'
    BY <1>1, <1>t DEF arm64_brk, Types, Goto, HeapInv, CallInv, Range, Addr
  <2>3. \A u \in Threads \ {t} : pc'[u] = pc[u] /\ new_brk'[u] = new_brk[u] /\ at'[u] = at[u]
    BY <1>1, <1>t DEF arm64_brk, Types, Goto
  <2> QED
    BY <2>1, <2>2, <2>3, <1>s
<1>2. ASSUME NEW t \in Threads, mmap_guest(t) PROVE HeapInv'
  <2> DEFINE end == AlignUp(new_brk[t])
  <2>a. end \in Nat /\ end > new_brk[t] /\ new_brk[t] \in Nat
    BY <1>t, AlignUpAbove DEF Types
  <2>b. pc[t] = "map" /\ at[t] \in StartBrk..new_brk[t] /\ Range(StartBrk, at[t]) \subseteq heap
    BY <1>2 DEF mmap_guest, HeapInv, CallInv
  <2>c. pc' = [pc EXCEPT ![t] = "mapped"] /\ UNCHANGED <<curbrk, mapbrk, others, data, new_brk>>
    BY <1>2 DEF mmap_guest, Goto
  <2> HIDE DEF end
  <2>1. ASSUME NEW a \in Addr, end <= LastAddr, a + (end - at[t]) <= LastAddr,
               Range(a, a + (end - at[t])) \cap heap = {},
               heap' = heap \cup Range(a, a + (end - at[t])), at' = [at EXCEPT ![t] = a]
        PROVE  HeapInv'
    <3>1. a < StartBrk \/ a >= at[t]
      <4>1. a \in Range(a, a + (end - at[t]))
        BY <2>a, <2>b DEF Range, Addr
      <4>2. a \notin Range(StartBrk, at[t])
        BY <4>1, <2>1, <2>b
      <4> QED
        BY <4>2, <2>b DEF Range, Addr
    <3>2. a < StartBrk \/ Range(a, end) \subseteq heap'
      BY <2>1, <2>a, <2>b, <3>1 DEF Range, Addr
    <3>3. Kept
      <4>1. heap \subseteq heap' /\ heap' \subseteq Addr
        BY <2>1, <1>t DEF Types, Range
      <4>2. at' \in [Threads -> 0..ERROR]
        BY <2>1, <1>t DEF Types, Addr, ERROR
      <4> QED
        BY <4>1, <4>2, <2>c, <1>t DEF Types, HeapInv, Range
    <3>4. CallInv(t)'
      BY <2>1, <2>a, <2>b, <2>c, <3>2, <1>t DEF Types, CallInv, HeapInv, Range, Addr, end, AlignUp
    <3>5. \A u \in Threads \ {t} : pc'[u] = pc[u] /\ new_brk'[u] = new_brk[u] /\ at'[u] = at[u]
      BY <2>1, <2>c, <1>t DEF Types
    <3> QED
      BY <3>3, <3>4, <3>5, <1>s
  <2>2. ASSUME heap' = heap, at' = [at EXCEPT ![t] = ERROR] PROVE HeapInv'
    <3>1. Kept
      BY <2>2, <2>c, <1>t DEF Types, HeapInv, Range, Addr, ERROR
    <3>2. CallInv(t)'
      BY <2>2, <2>a, <2>b, <2>c, <1>t DEF Types, CallInv, HeapInv, ERROR
    <3>3. \A u \in Threads \ {t} : pc'[u] = pc[u] /\ new_brk'[u] = new_brk[u] /\ at'[u] = at[u]
      BY <2>2, <2>c, <1>t DEF Types
    <3> QED
      BY <3>1, <3>2, <3>3, <1>s
  <2>3. CASE /\ end <= LastAddr /\ Range(at[t], end) \cap (heap \cup others) = {}
             /\ heap' = heap \cup Range(at[t], at[t] + (end - at[t]))
             /\ at' = [at EXCEPT ![t] = at[t]]
    <3>1. at[t] \in Addr /\ at[t] + (end - at[t]) = end
      BY <2>3, <2>a, <2>b DEF Addr
    <3> QED
      BY <2>1, <2>3, <3>1
  <2>4. CASE /\ end <= LastAddr
             /\ \E a \in {x \in Addr : x % PageSize = 0 /\ x + (end - at[t]) <= LastAddr} :
                   /\ Range(a, a + (end - at[t])) \cap (heap \cup others) = {}
                   /\ heap' = heap \cup Range(a, a + (end - at[t]))
                   /\ at' = [at EXCEPT ![t] = a]
    BY <2>1, <2>4
  <2> QED
    BY <1>2, <2>2, <2>3, <2>4 DEF mmap_guest, end
<1>3. ASSUME NEW t \in Threads, Mapped(t) PROVE HeapInv'
  <2> DEFINE end == AlignUp(new_brk[t])
  <2>a. end \in Nat /\ end > new_brk[t] /\ new_brk[t] \in Nat
    BY <1>t, AlignUpAbove DEF Types
  <2>b. /\ pc[t] = "mapped" /\ new_brk[t] >= StartBrk
        /\ at[t] # ERROR => end <= LastAddr /\ (at[t] < StartBrk \/ Range(at[t], end) \subseteq heap)
    BY <1>3 DEF Mapped, HeapInv, CallInv
  <2> HIDE DEF end
  <2>c. UNCHANGED <<curbrk, heap, others, data, new_brk, at>>
    BY <1>3 DEF Mapped
  <2>1. CASE at[t] # mapbrk
    <3>1. pc' = [pc EXCEPT ![t] = "out"] /\ mapbrk' = mapbrk
      BY <1>3, <2>1 DEF Mapped, Goto
    <3>2. Kept
      BY <3>1, <2>c, <1>t DEF Types, HeapInv, Range, Addr
    <3>3. CallInv(t)'
      BY <3>1, <1>t DEF Types, CallInv
    <3>4. \A u \in Threads \ {t} : pc'[u] = pc[u] /\ new_brk'[u] = new_brk[u] /\ at'[u] = at[u]
      BY <3>1, <2>c, <1>t DEF Types
    <3> QED
      BY <3>2, <3>3, <3>4, <1>s
  <2>2. CASE at[t] = mapbrk
    <3>1. pc' = [pc EXCEPT ![t] = "zero"] /\ mapbrk' = end
      BY <1>3, <2>2 DEF Mapped, Goto, end
    <3>2. end <= LastAddr /\ Range(StartBrk, end) \subseteq heap
      BY <2>2, <2>b, <1>t DEF Types, ERROR, HeapInv, Range, Addr
    <3>3. Kept
      BY <3>1, <3>2, <2>a, <2>b, <2>c, <1>t DEF Types, HeapInv, Range, Addr
    <3>4. CallInv(t)'
      BY <3>1, <3>2, <2>a, <2>b, <2>c, <1>t DEF Types, CallInv, Range, Addr
    <3>5. \A u \in Threads \ {t} : pc'[u] = pc[u] /\ new_brk'[u] = new_brk[u] /\ at'[u] = at[u]
      BY <3>1, <2>c, <1>t DEF Types
    <3> QED
      BY <3>3, <3>4, <3>5, <1>s
  <2> QED
    BY <2>1, <2>2
<1>4. ASSUME NEW t \in Threads, Compare(t) \/ memset(t) \/ Return(t) PROVE HeapInv'
  <2>a. UNCHANGED <<curbrk, mapbrk, heap, others, new_brk>> /\ data' \subseteq data
    BY <1>4 DEF Compare, memset, Return
  <2>b. Types'
    BY <1>4, <2>a, <1>t DEF Compare, memset, Return, Types, Goto, ERROR
  <2>1. Kept
    BY <2>a, <2>b DEF HeapInv, Range
  <2>2. CallInv(t)'
    BY <1>4, <1>t DEF Compare, memset, Return, Types, Goto, HeapInv, CallInv, Range, Addr
  <2>3. \A u \in Threads \ {t} : pc'[u] = pc[u] /\ new_brk'[u] = new_brk[u] /\ at'[u] = at[u]
    BY <1>4, <1>t DEF Compare, memset, Return, Types, Goto
  <2> QED
    BY <2>1, <2>2, <2>3, <1>s
<1>5. ASSUME NEW t \in Threads, SetBreak(t) PROVE HeapInv'
  <2>1. Kept
    BY <1>5, <1>t DEF SetBreak, Types, Goto, HeapInv, CallInv, Range, Addr
  <2>2. CallInv(t)'
    BY <1>5, <1>t DEF SetBreak, Types, Goto, CallInv
  <2>3. \A u \in Threads \ {t} : pc'[u] = pc[u] /\ new_brk'[u] = new_brk[u] /\ at'[u] = at[u]
    BY <1>5, <1>t DEF SetBreak, Types, Goto
  <2> QED
    BY <2>1, <2>2, <2>3, <1>s
\* The steps of the guest and of other mappings concern no call.
<1>6. ASSUME UNCHANGED <<curbrk, mapbrk, heap, pc, new_brk, at>>, others' \subseteq Addr, data' \subseteq Addr
      PROVE  HeapInv'
  <2>1. TypeOK'
    BY <1>6, <1>t, HistoryTypes DEF Types, TypeOK, HeapInv
  <2> QED
    BY <1>6, <2>1 DEF HeapInv, CallInv, Range, AlignUp
<1>7. ASSUME NEW a \in Addr, GuestStore(a) \/ OtherMmap(a) PROVE HeapInv'
  BY <1>6, <1>7, <1>t DEF GuestStore, OtherMmap, Types, Range
<1>8. CASE UNCHANGED vars
  BY <1>6, <1>8, <1>t DEF vars, Types
<1> QED
  BY <1>1, <1>2, <1>3, <1>4, <1>5, <1>7, <1>8 DEF Next, Step

(* The break and every memset of arm64_brk stay within the memory mapped    *)
(* for the heap, although calls race on curbrk and mapbrk.                  *)
THEOREM BrkBreakIsMapped == Spec => []BreakIsMapped
<1>1. HeapInv => BreakIsMapped
  BY DEF HeapInv, CallInv, BreakIsMapped
<1> QED
  BY HeapInit, HeapStep, <1>1, PTL DEF Spec

(* Type correctness: the break and the end of the heap never leave the      *)
(* address space and never go below the start of the heap.                  *)
THEOREM BrkTypeOK == Spec => []TypeOK
<1>1. HeapInv => TypeOK
  BY DEF HeapInv
<1> QED
  BY HeapInit, HeapStep, <1>1, PTL DEF Spec

-----------------------------------------------------------------------------
(* A call that no other call overlapped.                                    *)

\* While such a call runs, nobody else is in arm64_brk: the break is the one
\* it has read, and what it has cleared stays cleared, because the guest
\* stores below the break only.
LonelyCall(t) ==
    /\ clean[t] /\ pc[t] # "idle" => \A u \in Threads \ {t} : pc[u] = "idle"
    /\ clean[t] /\ pc[t] = "memset" => at[t] = curbrk
    /\ clean[t] /\ pc[t] = "set" => data \cap Range(curbrk, new_brk[t]) = {}

ClearInv ==
    /\ ~wrong
    /\ \A t \in Threads : LonelyCall(t)

\* A step of one call that leaves its history alone.
LEMMA LonelyStep ==
    ASSUME NEW t \in Threads, TypeOK, ClearInv, UNCHANGED clean, pc[t] # "idle",
           NEW place, pc' = [pc EXCEPT ![t] = place],
           curbrk' = curbrk \/ pc[t] = "set",
           data' \subseteq data, new_brk' = new_brk,
           \A u \in Threads \ {t} : at'[u] = at[u],
           clean[t] => /\ place = "memset" => at'[t] = curbrk'
                       /\ place = "set" => data' \cap Range(curbrk', new_brk[t]) = {},
           ~wrong'
    PROVE  ClearInv'
<1> SUFFICES ASSUME NEW u \in Threads PROVE LonelyCall(u)'
  BY DEF ClearInv
<1>1. pc \in [Threads -> {"idle", "map", "mapped", "zero", "memset", "set", "out"}]
  BY DEF TypeOK
<1>2. LonelyCall(t) /\ LonelyCall(u)
  BY DEF ClearInv
<1>3. CASE u = t
  <2>1. pc'[t] = place
    BY <1>1
  <2> QED
    BY <1>1, <1>2, <1>3, <2>1 DEF LonelyCall, Range
<1>4. CASE u # t
  <2>1. pc'[u] = pc[u]
    BY <1>1, <1>4
  <2>2. ~clean[u] \/ pc[u] = "idle"
    BY <1>2, <1>4 DEF LonelyCall
  <2> QED
    BY <1>4, <2>1, <2>2 DEF LonelyCall
<1> QED
  BY <1>3, <1>4

LEMMA ClearStep == HeapInv /\ ClearInv /\ [Next]_vars => ClearInv'
<1> SUFFICES ASSUME HeapInv, ClearInv, [Next]_vars PROVE ClearInv'
  OBVIOUS
<1>t. TypeOK
  BY DEF HeapInv
<1>n. curbrk \in Nat /\ new_brk \in [Threads -> Nat]
  BY <1>t, BrkAssumption DEF TypeOK
<1>1. ASSUME NEW t \in Threads, NEW b \in Breaks, arm64_brk(t, b) PROVE ClearInv'
  <2> SUFFICES ASSUME NEW u \in Threads PROVE LonelyCall(u)'
    BY <1>1 DEF arm64_brk, ClearInv
  <2>1. pc'[t] \in {"out", "map", "zero"} /\ \A v \in Threads \ {t} : pc'[v] = pc[v]
    BY <1>1, <1>t DEF arm64_brk, Goto, TypeOK
  <2>2. clean'[t] = (Busy = {})
    BY <1>1 DEF arm64_brk
  <2>3. CASE u = t
    BY <2>1, <2>2, <2>3 DEF LonelyCall, Busy
  <2>4. CASE u # t
    <3>1. clean'[u] = (clean[u] /\ u \notin Busy)
      BY <1>1, <2>4 DEF arm64_brk
    <3>2. clean'[u] => pc'[u] = "idle"
      BY <3>1, <2>1, <2>4 DEF Busy
    <3> QED
      BY <3>2 DEF LonelyCall
  <2> QED
    BY <2>3, <2>4
<1>2. ASSUME NEW t \in Threads, mmap_guest(t) \/ Mapped(t) \/ Return(t) PROVE ClearInv'
  <2>1. /\ UNCHANGED <<clean, curbrk, data, new_brk, wrong>> /\ pc[t] # "idle"
        /\ \E place \in {"mapped", "out", "zero", "idle"} : pc' = [pc EXCEPT ![t] = place]
    BY <1>2 DEF mmap_guest, Mapped, Return, Goto
  <2>2. \A u \in Threads \ {t} : at'[u] = at[u]
    BY <1>2, <1>t DEF mmap_guest, Mapped, Return, TypeOK
  <2> QED
    BY <2>1, <2>2, <1>t, LonelyStep DEF ClearInv
<1>3. ASSUME NEW t \in Threads, Compare(t) PROVE ClearInv'
  <2> DEFINE place == IF new_brk[t] > curbrk THEN "memset" ELSE "set"
  <2>1. /\ UNCHANGED <<clean, curbrk, data, new_brk, wrong>> /\ pc[t] = "zero"
        /\ at' = [at EXCEPT ![t] = curbrk] /\ pc' = [pc EXCEPT ![t] = place]
    BY <1>3 DEF Compare, Goto
  <2>2. at'[t] = curbrk /\ \A u \in Threads \ {t} : at'[u] = at[u]
    BY <2>1, <1>t DEF TypeOK
  <2>3. place = "set" => data' \cap Range(curbrk', new_brk[t]) = {}
    BY <2>1, <1>n DEF Range, Addr
  <2> HIDE DEF place
  <2> QED
    BY <2>1, <2>2, <2>3, <1>t, LonelyStep DEF ClearInv
\* memset begins at the break: it takes nothing that was granted.
<1>4. ASSUME NEW t \in Threads, memset(t) PROVE ClearInv'
  <2>1. /\ UNCHANGED <<clean, curbrk, at, new_brk>> /\ pc[t] = "memset"
        /\ pc' = [pc EXCEPT ![t] = "set"] /\ data' = data \ Range(at[t], new_brk[t])
        /\ wrong' = (wrong \/ (clean[t] /\ data \cap Granted \cap Range(at[t], new_brk[t]) # {}))
    BY <1>4 DEF memset, Goto
  <2>2. clean[t] => at[t] = curbrk
    BY <2>1 DEF ClearInv, LonelyCall
  <2>3. clean[t] => data' \cap Range(curbrk', new_brk[t]) = {}
    BY <2>1, <2>2
  <2>4. Granted \cap Range(curbrk, new_brk[t]) = {}
    BY <1>n, BrkAssumption DEF Granted, Range, Addr
  <2>5. ~wrong'
    BY <2>1, <2>2, <2>4 DEF ClearInv
  <2>6. data' \subseteq data
    BY <2>1
  <2> QED
    BY <2>1, <2>3, <2>5, <2>6, <1>t, LonelyStep
<1>5. ASSUME NEW t \in Threads, SetBreak(t) PROVE ClearInv'
  <2>1. /\ UNCHANGED <<clean, data, at, new_brk>> /\ pc[t] = "set"
        /\ pc' = [pc EXCEPT ![t] = "out"]
        /\ wrong' = (wrong \/ (clean[t] /\ data \cap Range(curbrk, new_brk[t]) # {}))
    BY <1>5 DEF SetBreak, Goto
  <2>2. ~wrong'
    BY <2>1 DEF ClearInv, LonelyCall
  <2> QED
    BY <2>1, <2>2, <1>t, LonelyStep
<1>6. ASSUME NEW a \in Addr, GuestStore(a) PROVE ClearInv'
  <2>1. UNCHANGED <<clean, wrong, curbrk, at, new_brk, pc>> /\ data' = data \cup {a} /\ a \in Granted
    BY <1>6 DEF GuestStore
  <2>2. \A u \in Threads : a \notin Range(curbrk, new_brk[u])
    BY <2>1, <1>n, BrkAssumption DEF Granted, Range, Addr
  <2>3. \A u \in Threads : LonelyCall(u)'
    BY <2>1, <2>2 DEF ClearInv, LonelyCall, Range
  <2> QED
    BY <2>1, <2>3 DEF ClearInv
<1>7. ASSUME UNCHANGED <<clean, wrong, curbrk, at, new_brk, pc, data>> PROVE ClearInv'
  BY <1>7 DEF ClearInv, LonelyCall, Range
<1>8. ASSUME NEW a \in Addr, OtherMmap(a) PROVE ClearInv'
  BY <1>7, <1>8 DEF OtherMmap
<1>9. CASE UNCHANGED vars
  BY <1>7, <1>9 DEF vars
<1> QED
  BY <1>1, <1>2, <1>3, <1>4, <1>5, <1>6, <1>8, <1>9 DEF Next, Step

(* A call of brk that no other call overlaps loses nothing below the break  *)
(* and hands out cleared memory, whatever calls that did overlap have done  *)
(* to curbrk and mapbrk before.                                             *)
THEOREM BrkAloneClearsWhatIsNew == Spec => []AloneClearsWhatIsNew
<1>1. Init => ClearInv
  BY DEF Init, ClearInv, LonelyCall
<1>2. ClearInv => AloneClearsWhatIsNew
  BY DEF ClearInv, AloneClearsWhatIsNew
<1> QED
  BY HeapInit, HeapStep, ClearStep, <1>1, <1>2, PTL DEF Spec
=============================================================================
