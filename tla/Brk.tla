--------------------------------- MODULE Brk ---------------------------------
(***************************************************************************)
(* The program break (target/arm64/syscall/arm64_brk.c, and arm_brk.c).    *)
(* curbrk and mapbrk are shared by all threads, and arm64_brk takes no     *)
(* lock: a call is modelled step by step, with the mapping of new memory   *)
(* (mmap_guest, see VmaManager) as one step.  Pages have PageSize          *)
(* addresses; the guest uses the memory below a break it was granted.      *)
(***************************************************************************)
EXTENDS Integers

CONSTANTS
    Threads,
    PageSize,
    MinPages,     \* MIN_BRK_SIZE in pages
    StartBrk,     \* startbrk_64_aligned
    LastAddr,     \* addresses end here
    Stored,       \* addresses the guest stores to
    Breaks        \* breaks it asks for

ASSUME BrkAssumption ==
    /\ PageSize \in Nat \ {0} /\ MinPages \in Nat \ {0}
    /\ StartBrk \in Nat \ {0} /\ StartBrk % PageSize = 0
    /\ Breaks \subseteq 0..LastAddr
    /\ LastAddr \in Nat /\ StartBrk + MinPages * PageSize <= LastAddr

VARIABLES
    curbrk, mapbrk,
    heap,         \* addresses mapped by calls of brk
    others,       \* addresses mapped by somebody else
    data,         \* addresses whose content is not zero
    pc,           \* per thread: place in arm64_brk
    new_brk,      \* per thread: argument
    at,           \* per thread: mapbrk as passed to mmap_guest, its result, start of memset
    clean,        \* history, per thread: no other call of arm64_brk overlapped
    wrong         \* history: a call that was alone cleared too much or too little

vars == <<curbrk, mapbrk, heap, others, data, pc, new_brk, at, clean, wrong>>

Addr == 0..(LastAddr - 1)
Range(a, b) == {x \in Addr : a <= x /\ x < b}
\* Slip: rounded down.
AlignDown(a) == (a \div PageSize) * PageSize

AlignUp(a) == ((a + PageSize) \div PageSize) * PageSize
ERROR == LastAddr + 1
\* What the guest may use.
Granted == Range(StartBrk, curbrk)

Goto(t, place) == pc' = [pc EXCEPT ![t] = place]
Busy == {t \in Threads : pc[t] # "idle"}

\* Entry, sanity check and the test for new memory.
arm64_brk(t, b) ==
    /\ pc[t] = "idle"
    /\ new_brk' = [new_brk EXCEPT ![t] = b]
    /\ at' = [at EXCEPT ![t] = mapbrk]
    /\ clean' = [u \in Threads |->
                    IF u = t THEN Busy = {} ELSE clean[u] /\ u \notin Busy]
    /\ Goto(t, IF b < StartBrk THEN "out"
               ELSE IF b >= mapbrk THEN "map" ELSE "zero")
    /\ UNCHANGED <<curbrk, mapbrk, heap, others, data, wrong>>

\* mmap_guest with mapbrk as a hint: there if that is free, elsewhere or not
\* at all otherwise.  The memory is new, so it reads as zero.
mmap_guest(t) ==
    LET end  == AlignUp(new_brk[t])
        want == Range(at[t], end)
        Place(a) ==
            /\ heap' = heap \cup Range(a, a + (end - at[t]))
            /\ at' = [at EXCEPT ![t] = a]
    IN /\ pc[t] = "map"
       /\ \/ /\ end <= LastAddr /\ want \cap (heap \cup others) = {}
             /\ Place(at[t])
          \/ /\ end <= LastAddr /\ want \cap (heap \cup others) # {}
             /\ \E a \in {x \in Addr : x % PageSize = 0 /\ x + (end - at[t]) <= LastAddr} :
                   /\ Range(a, a + (end - at[t])) \cap (heap \cup others) = {}
                   /\ Place(a)
          \/ /\ at' = [at EXCEPT ![t] = ERROR]
             /\ UNCHANGED heap
       /\ Goto(t, "mapped")
       /\ UNCHANGED <<curbrk, mapbrk, others, data, new_brk, clean, wrong>>

\* map_result is compared with mapbrk as it is now.
Mapped(t) ==
    /\ pc[t] = "mapped"
    /\ \/ /\ at[t] # mapbrk /\ Goto(t, "out")
          /\ UNCHANGED mapbrk
       \/ /\ at[t] = mapbrk /\ Goto(t, "zero")
          /\ mapbrk' = AlignUp(new_brk[t])
    /\ UNCHANGED <<curbrk, heap, others, data, new_brk, at, clean, wrong>>

\* Slip: the rest of the last page is taken to be zero already.
CompareFromNextPage(t) ==
    /\ pc[t] = "zero"
    /\ at' = [at EXCEPT ![t] = AlignUp(curbrk)]
    /\ Goto(t, IF new_brk[t] > curbrk THEN "memset" ELSE "set")
    /\ UNCHANGED <<curbrk, mapbrk, heap, others, data, new_brk, clean, wrong>>

\* What lies between the old break and the new one is cleared, if anything.
Compare(t) ==
    /\ pc[t] = "zero"
    /\ at' = [at EXCEPT ![t] = curbrk]
    /\ Goto(t, IF new_brk[t] > curbrk THEN "memset" ELSE "set")
    /\ UNCHANGED <<curbrk, mapbrk, heap, others, data, new_brk, clean, wrong>>

memset(t) ==
    /\ pc[t] = "memset"
    /\ data' = data \ Range(at[t], new_brk[t])
    /\ wrong' = (wrong \/ (clean[t] /\ data \cap Granted \cap Range(at[t], new_brk[t]) # {}))
    /\ Goto(t, "set")
    /\ UNCHANGED <<curbrk, mapbrk, heap, others, new_brk, at, clean>>

SetBreak(t) ==
    /\ pc[t] = "set"
    /\ curbrk' = new_brk[t]
    /\ wrong' = (wrong \/ (clean[t] /\ data \cap Range(curbrk, new_brk[t]) # {}))
    /\ Goto(t, "out")
    /\ UNCHANGED <<mapbrk, heap, others, data, new_brk, at, clean>>

Return(t) ==
    /\ pc[t] = "out"
    /\ Goto(t, "idle")
    /\ UNCHANGED <<curbrk, mapbrk, heap, others, data, new_brk, at, clean, wrong>>

\* The guest stores below the break it was granted.
GuestStore(a) ==
    /\ a \in Stored \cap Granted /\ a \notin data
    /\ data' = data \cup {a}
    /\ UNCHANGED <<curbrk, mapbrk, heap, others, pc, new_brk, at, clean, wrong>>

\* Another mapping takes a page.
OtherMmap(a) ==
    /\ a % PageSize = 0 /\ Range(a, a + PageSize) \cap (heap \cup others) = {}
    /\ others' = others \cup Range(a, a + PageSize)
    /\ UNCHANGED <<curbrk, mapbrk, heap, data, pc, new_brk, at, clean, wrong>>

\* After arm64_setup_brk.
Init ==
    /\ curbrk = StartBrk
    /\ mapbrk = StartBrk + MinPages * PageSize
    /\ heap = Range(StartBrk, StartBrk + MinPages * PageSize)
    /\ others = {} /\ data = {}
    /\ pc = [t \in Threads |-> "idle"]
    /\ new_brk = [t \in Threads |-> 0] /\ at = [t \in Threads |-> 0]
    /\ clean = [t \in Threads |-> TRUE] /\ wrong = FALSE

Step(t) ==
    \/ \E b \in Breaks : arm64_brk(t, b)
    \/ mmap_guest(t) \/ Mapped(t) \/ Compare(t) \/ memset(t) \/ SetBreak(t) \/ Return(t)

Next ==
    \/ \E t \in Threads : Step(t)
    \/ \E a \in Addr : GuestStore(a) \/ OtherMmap(a)

Spec == Init /\ [][Next]_vars
-----------------------------------------------------------------------------
\* Type correctness.
TypeOK ==
    /\ curbrk \in StartBrk..LastAddr /\ mapbrk \in StartBrk..LastAddr
    /\ heap \subseteq Addr /\ others \subseteq Addr /\ data \subseteq Addr
    /\ pc \in [Threads -> {"idle", "map", "mapped", "zero", "memset", "set", "out"}]
    /\ new_brk \in [Threads -> 0..LastAddr] /\ at \in [Threads -> 0..ERROR]
    /\ clean \in [Threads -> BOOLEAN] /\ wrong \in BOOLEAN

\* Memory below the break, and what memset writes, is mapped for the heap,
\* even when threads race.
BreakIsMapped ==
    /\ Range(StartBrk, curbrk) \subseteq heap
    /\ \A t \in Threads : pc[t] \in {"zero", "memset", "set"} => Range(StartBrk, new_brk[t]) \subseteq heap

\* A call of brk that no other call overlaps keeps the data below the break,
\* and what it adds to the heap reads as zero, whatever earlier calls that
\* raced have left behind (memset from the old break to the new one).
AloneClearsWhatIsNew == ~wrong

\* Data below the break is never lost: "Not re-entrant but should be ok since
\* higher lock level is certainly taken".
DataKept == [][data \cap Granted \subseteq data']_vars
=============================================================================
