------------------------------ MODULE VmaList ------------------------------
(***************************************************************************)
(* The descriptor list of the guest address space                          *)
(* (src/src/target/memory/mmap_common.c): how an area is inserted, how     *)
(* free areas are searched and where descriptors come from.                *)
(*                                                                         *)
(* The code works on globals under ll_big_mutex.  Here a manager is a      *)
(* record m, with (for this module) the fields                             *)
(*   list   vma_list, a sequence of descriptors                            *)
(*   nfree  number of descriptors on free_vma_list                         *)
(*   ndesc  number of descriptors ever made                                *)
(*   next   desc_next_memory # NULL                                        *)
(*   cursor kernel_cursor                                                  *)
(*   eov    is_end_of_vm_reach                                             *)
(*   fail   "none", or the assertion or fatal that has stopped the program *)
(* and an operator of the code is a function from managers to managers.    *)
(* Empty descriptors ([s,s[) are part of the algorithm: insert_area may    *)
(* leave some behind.                                                      *)
(***************************************************************************)
EXTENDS Naturals, Sequences, SequencesExt

CONSTANTS
  PAGE_SIZE,
  MAPPING_START,
  KERNEL_CHOOSE_START_ADDR,
  MAPPING_RESERVE_IN_SIGNAL_START,
  FORCE_ALIGNMENT,  \* of kernel_cursor; PAGE_SIZE where the code has none
  DESC_PER_PAGE

ASSUME LayoutAssumption ==
  /\ PAGE_SIZE \in Nat \ {0}
  /\ MAPPING_START \in Nat \ {0}
  /\ KERNEL_CHOOSE_START_ADDR \in MAPPING_START..MAPPING_RESERVE_IN_SIGNAL_START
  /\ MAPPING_RESERVE_IN_SIGNAL_START \in Nat
  /\ FORCE_ALIGNMENT \in Nat \ {0}
  /\ \A a \in {MAPPING_START, KERNEL_CHOOSE_START_ADDR,
               MAPPING_RESERVE_IN_SIGNAL_START, FORCE_ALIGNMENT} :
        a % PAGE_SIZE = 0
  \* Without it the cursor could pass the last descriptor.
  /\ MAPPING_RESERVE_IN_SIGNAL_START % FORCE_ALIGNMENT = 0

ASSUME DescAssumption == DESC_PER_PAGE \in Nat \ {0, 1}

VMA_UNMAP == 0
VMA_MAP == 1

\* Past the last byte the list describes.
ListEnd == MAPPING_RESERVE_IN_SIGNAL_START + PAGE_SIZE

\* find_vma and its variants return it when there is no room.  No area of
\* the list starts at 0.
ENOMEM_64 == 0

AlignUp(a, unit) == ((a + unit - 1) \div unit) * unit
PAGE_ALIGN_UP(a) == AlignUp(a, PAGE_SIZE)
PAGE_ALIGN_DOWN(a) == (a \div PAGE_SIZE) * PAGE_SIZE

Vma(type, start, end) == [type |-> type, start |-> start, end |-> end]

-----------------------------------------------------------------------------
(* Descriptors.                                                            *)

Stop(m, why) == [m EXCEPT !.fail = why]

\* arm64_get_free_desc, with allocate_more_desc when the free list is empty.
get_free_desc(m) ==
  IF m.nfree > 0 THEN [m EXCEPT !.nfree = @ - 1]
  ELSE IF m.next
       THEN [m EXCEPT !.nfree = DESC_PER_PAGE - 1,
                      !.ndesc = @ + DESC_PER_PAGE,
                      !.next = FALSE]
       ELSE Stop(m, "no descriptor")

\* LIST_INSERT_HEAD(&free_vma_list, ...), n times.
free_descs(m, n) == [m EXCEPT !.nfree = @ + n]

-----------------------------------------------------------------------------
(* Searching the list.                                                     *)

\* find_address_owner_without_assert: an index of l, or 0.
Owner(l, a) == SelectInSeq(l, LAMBDA d : d.start <= a /\ a < d.end)

\* is_area_unmap and is_area_valid: one descriptor of that type covers
\* [start, end[.
IsArea(l, start, end, type) ==
  LET i == Owner(l, PAGE_ALIGN_DOWN(start))
  IN /\ i # 0
     /\ l[i].type = type
     /\ PAGE_ALIGN_UP(end) <= l[i].end

-----------------------------------------------------------------------------
(* insert_area.                                                            *)

\* l, with mid instead of its descriptors i to j.
Splice(l, i, j, mid) == SubSeq(l, 1, i - 1) \o mid \o SubSeq(l, j + 1, Len(l))

\* The area lies inside one descriptor, which starts where it starts.
SplitInTwo(m, i, start, end, type) ==
  LET l == m.list
  IN [get_free_desc(m) EXCEPT
        !.list = Splice(l, i, i, <<Vma(type, start, end),
                                   [l[i] EXCEPT !.start = end]>>)]

\* The area lies further inside one descriptor.
SplitInThree(m, i, start, end, type) ==
  LET l == m.list
  IN [get_free_desc(get_free_desc(m)) EXCEPT
        !.list = Splice(l, i, i, <<[l[i] EXCEPT !.end = start],
                                   Vma(type, start, end),
                                   Vma(1 - type, end, l[i].end)>>)]

\* Span, leaving the last descriptor as it was.
SpanKeepsLast(m, i, j, start, end, type) ==
  LET l == m.list
  IN [get_free_desc(m) EXCEPT
        !.list = Splice(l, i, j - 1, <<[l[i] EXCEPT !.end = start],
                                       Vma(type, start, end)>>)]

\* The area reaches from descriptor i to descriptor j.  The descriptors
\* between them are freed, and current_mapped takes their place.
Span(m, i, j, start, end, type) ==
  LET l == m.list
      shrink == l[i].type # type
      absorb == l[j].type = type
      stop   == IF absorb THEN l[j].end
                ELSE IF l[j].start # end THEN end
                ELSE l[j - 1].end
      mapped == Vma(type, IF shrink THEN start ELSE l[i].start, stop)
      left   == IF shrink THEN <<[l[i] EXCEPT !.end = start]>> ELSE <<>>
      right  == IF absorb THEN <<>> ELSE <<[l[j] EXCEPT !.start = end]>>
  IN [free_descs(IF shrink THEN get_free_desc(m) ELSE m,
                 (j - i - 1) + (IF absorb THEN 1 ELSE 0)) EXCEPT
        !.list = Splice(l, i, j, left \o <<mapped>> \o right)]

\* MergePrev, without giving the merged descriptor back.
MergePrevLeaks(m, start, type) ==
  LET l == m.list
      f == Owner(l, start)
  IN IF f > 1 /\ l[f - 1].type = type
     THEN [m EXCEPT !.list = Splice(l, f - 1, f,
                                    <<[l[f - 1] EXCEPT !.end = l[f].end]>>)]
     ELSE m

\* "fixup this bad algo that can forget to merge prev block"
MergePrev(m, start, type) ==
  LET l == m.list
      f == Owner(l, start)
  IN IF f = 0 THEN Stop(m, "no owner")
     ELSE IF f > 1 /\ l[f - 1].type = type
          THEN [free_descs(m, 1) EXCEPT
                  !.list = Splice(l, f - 1, f,
                                  <<[l[f - 1] EXCEPT !.end = l[f].end]>>)]
          ELSE m

insert_area(m, start, end, type) ==
  LET i == Owner(m.list, start)
      j == Owner(m.list, end)
  IN IF i = 0 \/ j = 0 THEN Stop(m, "no owner")
     ELSE IF i = j /\ m.list[i].type = type THEN m
     ELSE MergePrev(
            IF i # j THEN Span(m, i, j, start, end, type)
            ELSE IF m.list[i].start = start
                 THEN SplitInTwo(m, i, start, end, type)
                 ELSE SplitInThree(m, i, start, end, type),
            start, type)

insert_map_area(m, start, end) == insert_area(m, start, end, VMA_MAP)
insert_unmap_area(m, start, end) == insert_area(m, start, end, VMA_UNMAP)

-----------------------------------------------------------------------------
(* Choosing a place.  Each operator returns the new manager and the        *)
(* address, or ENOMEM_64.                                                  *)

Placed(m, addr) == [m |-> m, addr |-> addr]

find_vma(m, len) ==
  LET length == PAGE_ALIGN_UP(len)
      k == SelectInSeq(m.list, LAMBDA d : d.type = VMA_UNMAP
                                          /\ d.end - d.start >= length)
  IN IF k = 0 THEN Placed(m, ENOMEM_64)
     ELSE LET start == m.list[k].start
          IN Placed(insert_map_area(m, start, start + length), start)

\* Where descriptor d can be used from, given the cursor.
UsableFrom(m, d) == IF d.start >= m.cursor THEN d.start ELSE m.cursor

find_vma_with_kernel_choose(m, len) ==
  LET length == PAGE_ALIGN_UP(len)
      o == Owner(m.list, m.cursor)
      fits == {k \in o..Len(m.list) :
                 /\ m.list[k].type = VMA_UNMAP
                 /\ m.list[k].end - UsableFrom(m, m.list[k]) >= length}
  IN IF o = 0 THEN Placed(Stop(m, "no owner"), ENOMEM_64)
     ELSE IF fits = {}
          THEN find_vma([m EXCEPT !.eov = TRUE,
                                  !.cursor = KERNEL_CHOOSE_START_ADDR],
                        length)
          ELSE LET start == UsableFrom(m, m.list[Min(fits)])
               IN Placed([insert_map_area(m, start, start + length) EXCEPT
                            !.cursor = AlignUp(start + length, FORCE_ALIGNMENT)],
                         start)

find_vma_with_hint(m, len, hint) ==
  LET length == PAGE_ALIGN_UP(len)
      start == PAGE_ALIGN_DOWN(hint)
      end == PAGE_ALIGN_UP(start + length)
      o == Owner(m.list, start)
  IN IF o # 0 /\ m.list[o].type = VMA_UNMAP /\ end <= m.list[o].end
     THEN Placed(insert_map_area(m, start, end), start)
     ELSE find_vma(m, length)

-----------------------------------------------------------------------------
(* mmap_init: the whole address space is free, and one page after it is    *)
(* marked mapped so that the end of an area always has an owner.           *)

InitialList ==
  <<Vma(VMA_UNMAP, MAPPING_START, MAPPING_RESERVE_IN_SIGNAL_START),
    Vma(VMA_MAP, MAPPING_RESERVE_IN_SIGNAL_START, ListEnd)>>

\* The descriptors follow each other without a gap or an overlap, from the
\* first address of the space to the last.
IsPartition(l) ==
  /\ l # <<>>
  /\ l[1].start = MAPPING_START
  /\ l[Len(l)].end = ListEnd
  /\ \A i \in 1..Len(l) : l[i].start <= l[i].end
  /\ \A i \in 1..(Len(l) - 1) : l[i].end = l[i + 1].start

=============================================================================
