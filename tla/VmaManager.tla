----------------------------- MODULE VmaManager -----------------------------
(***************************************************************************)
(* The guest address space: the memory system calls of the guest           *)
(* (src/src/target/memory/mmap_common.c and                                *)
(* src/src/target/arm64/syscall/arm64_mmap.c) and the stacks umeq gives to *)
(* the threads it creates (arm64_clone.c, clone_asm.S).                    *)
(*                                                                         *)
(* A call runs under ll_big_mutex, so a call is one action, except for     *)
(* allocate_more_desc_memory_if_needed at its end: its loop runs while     *)
(* other threads mark what it collects, and each turn is an action.  Two   *)
(* things escape the mutex: the munmap of a signal handler, which goes     *)
(* straight to the host, and the end of a thread, which unmaps its own     *)
(* stack and then marks the descriptor of the pending unmap for others to  *)
(* collect.                                                                *)
(*                                                                         *)
(* vm holds the fields VmaList describes, and                              *)
(*   shm      shmat_list, attached segments (most recent first)            *)
(*   nshm     number of descriptors on free_shmat_list                     *)
(*   ongoing  ongoing_vma_list (most recent first)                         *)
(*   host     what the host kernel has mapped at each page                 *)
(* A guest is assumed not to name pages that umeq took for itself, and to  *)
(* give a segment back as a whole, with shmdt.                             *)
(***************************************************************************)
EXTENDS VmaList, FiniteSets

CONSTANTS
  SHMAT_DESC_PER_PAGE,
  Threads,       \* threads the guest may create
  StackSize,     \* mmap_size[memory_profile]
  \* What the guest passes to its calls: sets of addresses and of lengths.
  FixedAddrs,    \* to mmap with MAP_FIXED
  HintAddrs,     \* to mmap without it; 0 is NULL
  MmapLengths,
  MunmapAddrs,
  MunmapLengths,
  SignalAddrs,   \* to munmap in a signal handler
  RemapAddrs,    \* to mremap, old and (MREMAP_FIXED) new
  RemapLengths,
  ShmAddrs,      \* to shmat; 0 is NULL
  ShmLengths     \* sizes of the segments

ASSUME StackAssumption ==
  StackSize \in Nat \ {0} /\ StackSize % PAGE_SIZE = 0
ASSUME ShmDescAssumption == SHMAT_DESC_PER_PAGE \in Nat \ {0}
ASSUME ThreadsAssumption ==
  IsFiniteSet(Threads) /\ Threads \cap {"free", "guest", "shm", "umeq"} = {}
ASSUME ArgumentsAssumption ==
  \A s \in {FixedAddrs, HintAddrs, MmapLengths, MunmapAddrs, MunmapLengths,
            SignalAddrs, RemapAddrs, RemapLengths, ShmAddrs, ShmLengths} :
    s \subseteq Nat

VARIABLES
  vm,          \* the manager
  thread,      \* each thread: where it is in its life, and its stack
  collecting,  \* a call is in allocate_more_desc_memory_if_needed, with the
               \* mutex, and has something to do there
  taken        \* history: some step has unmapped or replaced a page nobody
               \* asked it to touch

vars == <<vm, thread, collecting, taken>>

\* The pages that can be given out.
Pages == {a \in MAPPING_START..(MAPPING_RESERVE_IN_SIGNAL_START - 1) :
            a % PAGE_SIZE = 0}

\* The pages the kernel touches for the range [start, start + len[.
PagesOf(start, len) == {p \in Pages : start <= p /\ p < start + len}

\* Contents of vm.host.  "umeq" is a page of descriptors; the stack of a
\* thread is the thread.
Contents == {"free", "guest", "shm", "umeq"} \cup Threads

SetHost(m, ps, what) ==
  [m EXCEPT !.host = [p \in Pages |-> IF p \in ps THEN what ELSE @[p]]]

-----------------------------------------------------------------------------
(* internal_mmap.                                                          *)

\* MmapFixed, without rounding the end of the area up.
MmapFixedUnrounded(m, addr, len, ok) ==
  IF ok THEN insert_map_area(SetHost(m, PagesOf(addr, len), "guest"),
                             addr, addr + len)
  ELSE m

\* mmap(addr, len, MAP_FIXED): the kernel first, then the list.
MmapFixed(m, addr, len, ok) ==
  IF ok THEN insert_map_area(SetHost(m, PagesOf(addr, len), "guest"),
                             addr, PAGE_ALIGN_UP(addr + len))
  ELSE m

\* The other cases: the list first, then the kernel, and the list again when
\* the kernel refuses.  placed is the outcome of the search.
MmapPlaced(placed, len, what, ok) ==
  IF placed.addr = ENOMEM_64 THEN placed.m
  ELSE IF ok THEN SetHost(placed.m, PagesOf(placed.addr, len), what)
  ELSE insert_unmap_area(placed.m, placed.addr,
                         PAGE_ALIGN_UP(placed.addr + len))

Place(m, addr, len) ==
  IF addr = 0 THEN find_vma_with_kernel_choose(m, len)
  ELSE find_vma_with_hint(m, len, addr)

\* A page umeq maps for its own descriptors.  The assertion that the mmap
\* succeeded fails when there is no room.
OwnPage(m) ==
  LET placed == find_vma_with_kernel_choose(m, PAGE_SIZE)
  IN IF placed.addr = ENOMEM_64 THEN Stop(placed.m, "no room")
     ELSE MmapPlaced(placed, PAGE_SIZE, "umeq", TRUE)

allocate_more_desc_memory(m) == [OwnPage(m) EXCEPT !.next = TRUE]

-----------------------------------------------------------------------------
(* Pending unmaps.                                                         *)

\* The descriptors of ongoing_vma_list that their threads have marked.
Marked(m) == {k \in 1..Len(m.ongoing) : m.ongoing[k].done}

\* One turn of the loop of collect_ongoing_unmap, for the k-th descriptor.
Collect(m, k) ==
  LET d == m.ongoing[k]
  IN free_descs(insert_unmap_area(
                  [SetHost(m, PagesOf(d.start, d.end - d.start), "free") EXCEPT
                     !.ongoing = RemoveAt(@, k)],
                  d.start, d.end),
                1)

\* The descriptor is listed as VMA_UNMAP at once.
OngoingAlreadyDone(m, t, start, len) ==
  [get_free_desc(m) EXCEPT
     !.ongoing = <<[by |-> t, start |-> start,
                    end |-> PAGE_ALIGN_UP(start + len), done |-> TRUE]>> \o @]

internal_munmap_ongoing(m, t, start, len) ==
  [get_free_desc(m) EXCEPT
     !.ongoing = <<[by |-> t, start |-> start,
                    end |-> PAGE_ALIGN_UP(start + len), done |-> FALSE]>> \o @]

-----------------------------------------------------------------------------
(* internal_munmap, internal_mremap, internal_shmat, internal_shmdt.       *)

internal_munmap(m, addr, len) ==
  insert_unmap_area(SetHost(m, PagesOf(addr, len), "free"),
                    addr, PAGE_ALIGN_UP(addr + len))

\* What the kernel does when it moves or resizes a mapping.
HostRemap(m, old, oldlen, new, newlen) ==
  SetHost(SetHost(m, PagesOf(old, oldlen), "free"),
          PagesOf(new, newlen), "guest")

RemapFixed(m, old, oldlen, new, newlen) ==
  insert_map_area(
    insert_unmap_area(HostRemap(m, old, oldlen, new, newlen),
                      old, PAGE_ALIGN_UP(old + oldlen)),
    new, PAGE_ALIGN_UP(new + newlen))

RemapShrink(m, old, oldlen, newlen) ==
  LET h == HostRemap(m, old, oldlen, old, newlen)
  IN IF PAGE_ALIGN_UP(oldlen) = PAGE_ALIGN_UP(newlen) THEN h
     ELSE insert_unmap_area(h, old + PAGE_ALIGN_UP(newlen),
                            old + PAGE_ALIGN_UP(oldlen))

CanGrow(m, old, oldlen, newlen) ==
  IsArea(m.list, old + PAGE_ALIGN_UP(oldlen), old + PAGE_ALIGN_UP(newlen),
         VMA_UNMAP)

RemapGrow(m, old, oldlen, newlen) ==
  insert_map_area(HostRemap(m, old, oldlen, old, newlen),
                  old + PAGE_ALIGN_UP(oldlen), old + PAGE_ALIGN_UP(newlen))

\* The mapping cannot grow in place: umeq looks for another place.  The old
\* area is given back with the length the guest passed, not rounded up.
RemapMove(m, old, oldlen, newlen, ok) ==
  LET placed == find_vma_with_kernel_choose(m, newlen)
  IN IF placed.addr = ENOMEM_64 THEN placed.m
     ELSE IF ok
          THEN insert_unmap_area(HostRemap(placed.m, old, oldlen,
                                           placed.addr, newlen),
                                 old, old + oldlen)
          ELSE insert_unmap_area(placed.m, placed.addr,
                                 placed.addr + PAGE_ALIGN_UP(newlen))

\* shm_insert takes a descriptor, from a new page when there is none left.
shm_insert(m, start, end) ==
  LET p == IF m.nshm > 0 THEN m
           ELSE [OwnPage(m) EXCEPT !.nshm = SHMAT_DESC_PER_PAGE]
  IN [p EXCEPT !.nshm = @ - 1,
               !.shm = <<[start |-> start, end |-> end]>> \o @]

internal_shmat(m, addr, len, ok) ==
  LET length == PAGE_ALIGN_UP(len)
      start == PAGE_ALIGN_DOWN(addr)
      placed == IF addr = 0 THEN find_vma_with_kernel_choose(m, length)
                ELSE Placed(insert_map_area(m, start, start + length), start)
  IN IF placed.addr = ENOMEM_64 THEN placed.m
     ELSE IF ok
          THEN shm_insert(SetHost(placed.m, PagesOf(placed.addr, len), "shm"),
                          placed.addr, placed.addr + length)
          ELSE insert_unmap_area(placed.m, placed.addr, placed.addr + length)

\* The k-th descriptor is the one shm_find returns; the kernel detaches what
\* is left of the segment.
shm_remove(m, k) ==
  LET d == m.shm[k]
  IN [insert_unmap_area(
        SetHost(m, {p \in PagesOf(d.start, d.end - d.start) : m.host[p] = "shm"},
                "free"),
        d.start, d.end) EXCEPT
        !.shm = RemoveAt(@, k), !.nshm = @ + 1]

-----------------------------------------------------------------------------
(* The calls of the guest.                                                 *)

Running == vm.fail = "none"

\* The manager becomes m, in a step that was asked to unmap or replace the
\* pages of asked.
Becomes(m, asked) ==
  /\ vm' = m
  /\ taken' = (taken \/ \E p \in Pages \ asked :
                           vm.host[p] # "free" /\ m.host[p] # vm.host[p])

\* No call has the mutex.
Idle == Running /\ ~collecting

\* The call has done its work, and goes on to allocate_more_desc_memory_if_needed.
\* An entry that is marked after this step, but before the call looks at it,
\* may as well have been marked before it.
Ends(m, asked) ==
  /\ Becomes(m, asked)
  /\ collecting' = (m.fail = "none" /\ (~m.next \/ Marked(m) # {}))

\* What arm64_mmap and arm64_munmap do: they go there only when there is no
\* page of descriptors in reserve.
EndsIfShort(m, asked) ==
  /\ Becomes(m, asked)
  /\ collecting' = (m.fail = "none" /\ ~m.next)

\* Pages a guest leaves alone: umeq's descriptors, and the stacks umeq made
\* for threads, until their area is given back.
Private == {p \in Pages : vm.host[p] \in {"umeq"} \cup Threads}
             \cup UNION {PagesOf(d.start, d.end - d.start) :
                           d \in {vm.ongoing[k] : k \in 1..Len(vm.ongoing)}}

Segments == {p \in Pages : vm.host[p] = "shm"}

\* A guest may pass this range.
Names(start, len) ==
  /\ start + len <= MAPPING_RESERVE_IN_SIGNAL_START
  /\ PagesOf(start, len) \cap (Private \cup Segments) = {}

\* The kernel refuses an empty mapping, and may refuse any other.
MmapResults(len) == IF len = 0 THEN {FALSE} ELSE BOOLEAN

\* arm64_mmap outside of a signal.
mmap_fixed ==
  /\ Idle
  /\ \E addr \in FixedAddrs, len \in MmapLengths : \E ok \in MmapResults(len) :
       /\ Names(addr, len)
       /\ EndsIfShort(MmapFixed(vm, addr, len, ok), PagesOf(addr, len))
  /\ UNCHANGED thread

mmap ==
  /\ Idle
  /\ \E addr \in HintAddrs, len \in MmapLengths : \E ok \in MmapResults(len) :
       EndsIfShort(MmapPlaced(Place(vm, addr, len), len, "guest", ok), {})
  /\ UNCHANGED thread

\* arm64_munmap outside of a signal.  The kernel accepts any range.
munmap ==
  /\ Idle
  /\ \E addr \in MunmapAddrs, len \in MunmapLengths :
       /\ Names(addr, len)
       /\ EndsIfShort(internal_munmap(vm, addr, len), PagesOf(addr, len))
  /\ UNCHANGED thread

\* arm64_munmap in a signal: "we may leak vma space but at least we unmap
\* memory".
munmap_in_signal ==
  /\ Running
  /\ \E addr \in SignalAddrs, len \in MunmapLengths :
       /\ Names(addr, len)
       /\ Becomes(SetHost(vm, PagesOf(addr, len), "free"), PagesOf(addr, len))
  /\ UNCHANGED <<thread, collecting>>

\* The kernel can remap what is mapped as a whole.
Remappable(old, oldlen) ==
  \A p \in PagesOf(old, oldlen) : vm.host[p] = "guest"

\* arm64_mremap, after its checks.
mremap(old, oldlen, m, asked) ==
  /\ Idle
  /\ Names(old, oldlen)
  /\ IsArea(vm.list, old, old + oldlen, VMA_MAP)
  /\ Ends(m, asked)
  /\ UNCHANGED thread

mremap_fixed ==
  \E old, new \in RemapAddrs, oldlen, newlen \in RemapLengths :
    /\ Names(new, newlen)
    /\ PagesOf(old, oldlen) \cap PagesOf(new, newlen) = {}
    /\ Remappable(old, oldlen)
    /\ mremap(old, oldlen, RemapFixed(vm, old, oldlen, new, newlen),
              PagesOf(old, oldlen) \cup PagesOf(new, newlen))

mremap_shrink ==
  \E old \in RemapAddrs, oldlen, newlen \in RemapLengths :
    /\ PAGE_ALIGN_UP(newlen) <= PAGE_ALIGN_UP(oldlen)
    /\ Remappable(old, oldlen)
    /\ mremap(old, oldlen, RemapShrink(vm, old, oldlen, newlen),
              PagesOf(old, oldlen))

\* The guest wants more, and the kernel agrees to grow in place.
mremap_grow ==
  \E old \in RemapAddrs, oldlen, newlen \in RemapLengths :
    /\ PAGE_ALIGN_UP(newlen) > PAGE_ALIGN_UP(oldlen)
    /\ CanGrow(vm, old, oldlen, newlen)
    /\ Remappable(old, oldlen)
    /\ mremap(old, oldlen, RemapGrow(vm, old, oldlen, newlen),
              PagesOf(old, oldlen))

\* No room behind the mapping, or the kernel did not agree, and the guest
\* passed MREMAP_MAYMOVE.
mremap_move ==
  \E old \in RemapAddrs, oldlen, newlen \in RemapLengths, ok \in BOOLEAN :
    /\ PAGE_ALIGN_UP(newlen) > PAGE_ALIGN_UP(oldlen)
    /\ ok => Remappable(old, oldlen)
    /\ mremap(old, oldlen, RemapMove(vm, old, oldlen, newlen, ok),
              PagesOf(old, oldlen))

\* arm64_shmat.  With an address it is a request to replace what is there,
\* which the kernel may refuse.
shmat ==
  /\ Idle
  /\ \E addr \in ShmAddrs, len \in ShmLengths, ok \in BOOLEAN :
       /\ addr # 0 => Names(addr, len)
       /\ Ends(internal_shmat(vm, addr, len, ok),
               IF ok /\ addr # 0 THEN PagesOf(addr, len) ELSE {})
  /\ UNCHANGED thread

shmdt ==
  /\ Idle
  /\ \E k \in 1..Len(vm.shm) :
       /\ \A i \in 1..(k - 1) : vm.shm[i].start # vm.shm[k].start
       /\ \E p \in PagesOf(vm.shm[k].start, vm.shm[k].end - vm.shm[k].start) :
            vm.host[p] = "shm"
       /\ Ends(shm_remove(vm, k),
               PagesOf(vm.shm[k].start, vm.shm[k].end - vm.shm[k].start))
  /\ UNCHANGED thread

\* arm64_mremap, arm64_shmat or arm64_shmdt when a check of umeq or the kernel
\* refuses the call before anything has changed: the end of the call runs all
\* the same.
call_refused ==
  /\ Idle
  /\ Ends(vm, {})
  /\ UNCHANGED thread

\* One turn of the loop, which starts from the head of the list every time.
collect_ongoing_unmap ==
  /\ Running
  /\ collecting
  /\ \E k \in Marked(vm) : /\ \A i \in Marked(vm) : k <= i
                           /\ Becomes(Collect(vm, k), {})
  /\ UNCHANGED <<thread, collecting>>

\* The loop finds nothing more to collect, and the call ends.
allocate_more_desc_memory_if_needed ==
  /\ Running
  /\ collecting
  /\ Marked(vm) = {}
  /\ Becomes(IF vm.next THEN vm ELSE allocate_more_desc_memory(vm), {})
  /\ collecting' = FALSE
  /\ UNCHANGED thread

-----------------------------------------------------------------------------
(* The stacks of threads.                                                  *)

\* clone_thread: umeq maps the stack of the new thread.  When that fails the
\* address is used all the same, which ends the program.
clone_thread(t) ==
  /\ Idle
  /\ thread[t].at = "none"
  /\ LET placed == find_vma_with_kernel_choose(vm, StackSize)
     IN IF placed.addr = ENOMEM_64
        THEN /\ Becomes(Stop(placed.m, "no stack"), {})
             /\ UNCHANGED <<thread, collecting>>
        ELSE /\ Ends(MmapPlaced(placed, StackSize, t, TRUE), {})
             /\ thread' = [thread EXCEPT ![t] = [at |-> "runs",
                                                 stack |-> placed.addr]]

\* clone_thread_trampoline: the thread has left the loop.  Its stack is
\* listed before it is unmapped.
munmap_guest_ongoing(t) ==
  /\ Idle
  /\ thread[t].at = "runs"
  /\ Ends(internal_munmap_ongoing(vm, t, thread[t].stack, StackSize), {})
  /\ thread' = [thread EXCEPT ![t].at = "leaves"]

\* clone_exit_asm: the munmap of its own stack...
exit_munmap(t) ==
  /\ Running
  /\ thread[t].at = "leaves"
  /\ Becomes(SetHost(vm, PagesOf(thread[t].stack, StackSize), "free"),
             {p \in PagesOf(thread[t].stack, StackSize) : vm.host[p] = t})
  /\ thread' = [thread EXCEPT ![t].at = "marks"]
  /\ UNCHANGED collecting

\* ... and the store that turns VMA_UNMAP_ONGOING into VMA_UNMAP.
exit_mark(t) ==
  /\ Running
  /\ thread[t].at = "marks"
  /\ vm' = [vm EXCEPT !.ongoing =
              [k \in 1..Len(@) |-> IF @[k].by = t
                                   THEN [@[k] EXCEPT !.done = TRUE] ELSE @[k]]]
  /\ thread' = [thread EXCEPT ![t] = [at |-> "none", stack |-> 0]]
  /\ UNCHANGED <<collecting, taken>>

-----------------------------------------------------------------------------

Init ==
  /\ vm = [list    |-> InitialList,
           nfree   |-> DESC_PER_PAGE - 2,
           ndesc   |-> DESC_PER_PAGE,
           next    |-> TRUE,
           cursor  |-> KERNEL_CHOOSE_START_ADDR,
           eov     |-> FALSE,
           fail    |-> "none",
           shm     |-> <<>>,
           nshm    |-> 0,
           ongoing |-> <<>>,
           host    |-> [p \in Pages |-> "free"]]
  /\ thread = [t \in Threads |-> [at |-> "none", stack |-> 0]]
  /\ collecting = FALSE
  /\ taken = FALSE

Next ==
  \/ mmap_fixed \/ mmap \/ munmap \/ munmap_in_signal
  \/ mremap_fixed \/ mremap_shrink \/ mremap_grow \/ mremap_move
  \/ shmat \/ shmdt \/ call_refused
  \/ collect_ongoing_unmap \/ allocate_more_desc_memory_if_needed
  \/ \E t \in Threads : \/ clone_thread(t)
                        \/ munmap_guest_ongoing(t)
                        \/ exit_munmap(t)
                        \/ exit_mark(t)

Spec == Init /\ [][Next]_vars

\* What a guest can pass without meeting what umeq leaves unchecked: whole
\* pages of the space to the calls that replace or unmap, nothing empty, whole
\* pages to mremap (RemapMove gives the old area back with the length it is
\* passed), and no address to shmat (internal_shmat gives the range back when
\* the kernel has refused to replace it).
WellFormedCalls ==
  /\ FixedAddrs \cup MunmapAddrs \cup RemapAddrs \subseteq Pages
  /\ 0 \notin MmapLengths \cup MunmapLengths \cup RemapLengths \cup ShmLengths
  /\ \A len \in RemapLengths : len % PAGE_SIZE = 0
  /\ ShmAddrs \subseteq {0}

-----------------------------------------------------------------------------
(* Properties.                                                             *)

Tracked(p) == \E i \in 1..Len(vm.list) :
                /\ vm.list[i].type = VMA_MAP
                /\ vm.list[i].start <= p /\ p + PAGE_SIZE <= vm.list[i].end

TypeOK ==
  /\ \A i \in 1..Len(vm.list) : vm.list[i].type \in {VMA_UNMAP, VMA_MAP}
  /\ vm.nfree \in 0..vm.ndesc
  /\ vm.next \in BOOLEAN /\ vm.eov \in BOOLEAN
  /\ vm.cursor \in KERNEL_CHOOSE_START_ADDR..MAPPING_RESERVE_IN_SIGNAL_START
  /\ vm.nshm \in Nat
  /\ vm.host \in [Pages -> Contents]
  /\ vm.fail \in {"none", "no owner", "no descriptor", "no room", "no stack"}
  /\ \A t \in Threads : thread[t].at \in {"none", "runs", "leaves", "marks"}
  /\ collecting \in BOOLEAN /\ taken \in BOOLEAN

\* Whatever the guest maps, moves and unmaps, and whatever the kernel refuses,
\* insert_area (mmap_common.c 196) keeps the list a partition of the address
\* space: no byte without a descriptor, none with two.
ListIsPartition == IsPartition(vm.list)

\* Memory that the host has mapped is marked VMA_MAP, so that find_vma never
\* proposes it.
MappedIsTracked ==
  Running => \A p \in Pages : vm.host[p] # "free" => Tracked(p)

\* A step unmaps or replaces only pages it was asked to: a mapping that umeq
\* places by itself (mmap without MAP_FIXED, the move of mremap, a stack, a
\* page of descriptors) never lands on live memory, and collecting the pending
\* unmap of a thread that has gone takes nothing from anyone.
TakesOnlyWhatIsAsked == ~taken

\* Every descriptor is on exactly one list, none lost and none on two, and no
\* call ends umeq on an address without owner or on an empty descriptor list
\* (fatal at mmap_common.c 192, assert at 136): the page of descriptors kept in
\* reserve is renewed in time.
DescriptorsConserved ==
  /\ Running => Len(vm.list) + vm.nfree + Len(vm.ongoing) = vm.ndesc
  /\ vm.fail \notin {"no owner", "no descriptor"}

\* What the last part of insert_area is there for: to "fixup this bad algo that
\* can forget to merge prev block" (mmap_common.c 277).  Two areas of the same
\* type never meet.
NeighboursAreMerged ==
  Running => \A i, j \in 1..Len(vm.list) :
    LET a == vm.list[i]
        b == vm.list[j]
    IN a.start < a.end /\ a.end = b.start /\ b.start < b.end
         => a.type # b.type

=============================================================================
