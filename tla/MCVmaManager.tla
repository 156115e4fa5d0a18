---------------------------- MODULE MCVmaManager ----------------------------
(* Instances of VmaManager for TLC: pages of two bytes, so that a length   *)
(* may end inside a page.                                                  *)
EXTENDS VmaManager, TLC

\* Page addresses, from the first page number.
MCPage(n) == MAPPING_START + n * PAGE_SIZE

MCAll == Pages
MCSome == {MCPage(0), MCPage(2)}
MCHints == {0, MCPage(1)}

MCSymmetry == Permutations(Threads)

\* The guests of the passing runs are those the theorems are about.
ASSUME CallsAssumption == ShmAddrs \subseteq {0} => WellFormedCalls

=============================================================================
