--------------------------- MODULE ExclusiveMemory ---------------------------
(***************************************************************************)
(* What guest programs rely on when they use exclusive accesses: a store   *)
(* exclusive that reports success has replaced, in one step, the very      *)
(* value its context loaded; one that reports failure has changed nothing. *)
(* (The hardware promises more: no store at all in between.  The comments  *)
(* of the helpers give that up, "subject to the ABBA problem".)            *)
(***************************************************************************)
EXTENDS Integers

CONSTANTS
    Contexts,     \* guest threads and signal handlers
    Size,         \* halves of memory: 32 bit units, addressed 0 .. Size-1
    Values,       \* contents of a half
    Locations,    \* what can be accessed: [at, n], n halves from at
    Contents(_)   \* contents of a location that are stored

VARIABLES
    mem,          \* guest memory
    reserved,     \* per context: what it loaded exclusively and has not stored to
    status        \* per context: result of its last store exclusive, 0 is success

memvars == <<mem, reserved, status>>

NoReservation == [on |-> FALSE]
ReadAt(m, l) == [j \in 0..(l.n - 1) |-> m[l.at + j]]
WriteAt(m, l, v) ==
    [i \in 0..(Size-1) |-> IF i - l.at \in 0..(l.n - 1) THEN v[i - l.at] ELSE m[i]]

LoadExclusive(c, l) ==
    /\ reserved' = [reserved EXCEPT ![c] = [on |-> TRUE, loc |-> l, val |-> ReadAt(mem, l)]]
    /\ UNCHANGED <<mem, status>>

StoreExclusive(c, v) ==
    /\ reserved[c].on /\ ReadAt(mem, reserved[c].loc) = reserved[c].val
    /\ mem' = WriteAt(mem, reserved[c].loc, v)
    /\ reserved' = [reserved EXCEPT ![c] = NoReservation]
    /\ status' = [status EXCEPT ![c] = 0]

FailStore(c) ==
    /\ reserved[c].on
    /\ reserved' = [reserved EXCEPT ![c] = NoReservation]
    /\ status' = [status EXCEPT ![c] = 1]
    /\ UNCHANGED mem

Clear(c) ==
    /\ reserved' = [reserved EXCEPT ![c] = NoReservation]
    /\ UNCHANGED <<mem, status>>

\* An ordinary store, or a compare and exchange that succeeds.
Write(l, v) ==
    /\ mem' = WriteAt(mem, l, v)
    /\ UNCHANGED <<reserved, status>>

MemInit ==
    /\ mem = [i \in 0..(Size-1) |-> 0]
    /\ reserved = [c \in Contexts |-> NoReservation]
    /\ status = [c \in Contexts |-> 1]

MemNext ==
    \/ \E c \in Contexts :
          \/ \E l \in Locations : LoadExclusive(c, l)
          \/ \E l \in Locations : \E v \in Contents(l) : reserved[c].on /\ reserved[c].loc = l /\ StoreExclusive(c, v)
          \/ FailStore(c)
          \/ Clear(c)
    \/ \E l \in Locations : \E v \in Contents(l) : Write(l, v)

MemSpec == MemInit /\ [][MemNext]_memvars
=============================================================================
