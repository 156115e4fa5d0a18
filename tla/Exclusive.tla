------------------------------ MODULE Exclusive ------------------------------
(***************************************************************************)
(* Exclusive loads and stores as umeq emulates them: the context keeps the *)
(* value it loaded (exclusive_value, neither an address nor a flag), and a *)
(* store exclusive is a compare and swap with it (arm64_helpers.c, and     *)
(* arm_helpers.c for the 32 bit target).                                   *)
(*                                                                         *)
(* Memory is made of 32 bit halves.  A location of one or two halves is    *)
(* accessed by one host instruction.  A location of four (ldxp and stxp of *)
(* two 64 bit registers) takes two host loads, and two compare and swaps.  *)
(*                                                                         *)
(* Guest programs are assumed to follow the architecture: a store          *)
(* exclusive goes to the location of the last load exclusive, and there    *)
(* is only one of them per load.                                           *)
(***************************************************************************)
EXTENDS Integers

CONSTANTS
    Contexts, Size, Values, Locations, Contents(_),   \* as in ExclusiveMemory
    Garbage      \* what exclusive_value may be in a new context

ASSUME ExclusiveAssumption ==
    /\ Size \in Nat /\ 0 \in Values
    /\ \A l \in Locations :
          /\ l.at \in 0..(Size-1) /\ l.n \in {1, 2, 4} /\ l.at + l.n <= Size
          /\ Contents(l) \subseteq [0..(l.n - 1) -> Values]
    /\ Garbage \subseteq [0..3 -> Values]
    /\ \A l \in Locations : l.n = 4 =>       \* wide locations, word by word
          /\ [at |-> l.at, n |-> 2] \in Locations /\ [at |-> l.at + 2, n |-> 2] \in Locations
          /\ \A v \in Contents(l) :
                /\ [j \in 0..1 |-> v[j]] \in Contents([at |-> l.at, n |-> 2])
                /\ [j \in 0..1 |-> v[j + 2]] \in Contents([at |-> l.at + 2, n |-> 2])

VARIABLES
    mem,
    exclusive_value,  \* per context: 128 bits, four halves
    at,               \* per context: "idle", or in the middle of a wide access
    job,              \* per context: location of that access and value to store
    reserved,         \* history: the load exclusive that was not stored to yet
    status,           \* per context: what the last narrow store exclusive reported
    pair_status       \* per context: the same for stores of four halves

vars == <<mem, exclusive_value, at, job, reserved, status, pair_status>>

NoReservation == [on |-> FALSE]
ReadAt(m, l) == [j \in 0..(l.n - 1) |-> m[l.at + j]]
WriteAt(m, l, v) ==
    [i \in 0..(Size-1) |-> IF i - l.at \in 0..(l.n - 1) THEN v[i - l.at] ELSE m[i]]

\* The two 64 bit words of a wide location.
Low(l)  == [at |-> l.at, n |-> 2]
High(l) == [at |-> l.at + 2, n |-> 2]
LowOf(v)  == [j \in 0..1 |-> v[j]]
HighOf(v) == [j \in 0..1 |-> v[j + 2]]

\* A loaded value, extended with zeros to 128 bits, and cut to n halves.
Extend(v) == [j \in 0..3 |-> IF j \in DOMAIN v THEN v[j] ELSE 0]
Cut(x, n) == [j \in 0..(n - 1) |-> x[j]]

NoJob == [loc |-> [at |-> 0, n |-> 1], val |-> [j \in 0..0 |-> 0]]
Narrow(l) == l.n \in {1, 2}
-----------------------------------------------------------------------------
\* arm64_hlp_ldxr, arm64_hlp_ldaxr, ldxp of two 32 bit registers.
ldxr(c, l) ==
    /\ at[c] = "idle" /\ Narrow(l)
    /\ exclusive_value' = [exclusive_value EXCEPT ![c] = Extend(ReadAt(mem, l))]
    /\ reserved' = [reserved EXCEPT ![c] = [on |-> TRUE, loc |-> l, val |-> ReadAt(mem, l)]]
    /\ UNCHANGED <<mem, at, job, status, pair_status>>

\* arm64_hlp_ldxp_dirty, size 3: two loads of the host.
ldxp(c, l) ==
    /\ at[c] = "idle" /\ l.n = 4
    /\ at' = [at EXCEPT ![c] = "ldxp"]
    /\ job' = [job EXCEPT ![c] = [loc |-> l, val |-> ReadAt(mem, Low(l))]]
    /\ reserved' = [reserved EXCEPT ![c] = NoReservation]
    /\ UNCHANGED <<mem, exclusive_value, status, pair_status>>

\* Slip: the low word is kept twice.
ldxp_low_twice(c) ==
    LET l == job[c].loc
        x == [j \in 0..3 |-> IF j < 2 THEN job[c].val[j] ELSE mem[l.at + j]]
    IN /\ at[c] = "ldxp"
       /\ at' = [at EXCEPT ![c] = "idle"]
       /\ exclusive_value' = [exclusive_value EXCEPT ![c] = [j \in 0..3 |-> job[c].val[j % 2]]]
       /\ reserved' = [reserved EXCEPT ![c] = [on |-> TRUE, loc |-> l, val |-> x]]
       /\ job' = [job EXCEPT ![c] = NoJob]
       /\ UNCHANGED <<mem, status, pair_status>>

ldxp_high(c) ==
    LET l == job[c].loc
        x == [j \in 0..3 |-> IF j < 2 THEN job[c].val[j] ELSE mem[l.at + j]]
    IN /\ at[c] = "ldxp"
       /\ at' = [at EXCEPT ![c] = "idle"]
       /\ exclusive_value' = [exclusive_value EXCEPT ![c] = x]
       /\ reserved' = [reserved EXCEPT ![c] = [on |-> TRUE, loc |-> l, val |-> x]]
       /\ job' = [job EXCEPT ![c] = NoJob]
       /\ UNCHANGED <<mem, status, pair_status>>

\* Effect of __sync_bool_compare_and_swap on location l: it succeeds when
\* memory holds x.
Matches(l, x) == ReadAt(mem, l) = x

Used(c) == reserved' = [reserved EXCEPT ![c] = NoReservation]

\* Slip: only the low half is compared, whatever is stored.
stxr_compares_half(c, v) ==
    LET l == reserved[c].loc
        ok == Matches([l EXCEPT !.n = 1], Cut(exclusive_value[c], 1))
    IN /\ at[c] = "idle" /\ reserved[c].on /\ Narrow(l)
       /\ mem' = IF ok THEN WriteAt(mem, l, v) ELSE mem
       /\ status' = [status EXCEPT ![c] = IF ok THEN 0 ELSE 1]
       /\ Used(c)
       /\ UNCHANGED <<exclusive_value, at, job, pair_status>>

\* arm64_hlp_stxr, arm64_hlp_stlxr, stxp of two 32 bit registers.
stxr(c, v) ==
    LET l == reserved[c].loc
        ok == Matches(l, Cut(exclusive_value[c], l.n))
    IN /\ at[c] = "idle" /\ reserved[c].on /\ Narrow(l)
       /\ mem' = IF ok THEN WriteAt(mem, l, v) ELSE mem
       /\ status' = [status EXCEPT ![c] = IF ok THEN 0 ELSE 1]
       /\ Used(c)
       /\ UNCHANGED <<exclusive_value, at, job, pair_status>>

\* arm64_hlp_stxp_dirty, size 3: the low word first.
stxp(c, v) ==
    LET l == reserved[c].loc
        ok == Matches(Low(l), LowOf(exclusive_value[c]))
    IN /\ at[c] = "idle" /\ reserved[c].on /\ l.n = 4
       /\ \/ /\ ok
             /\ mem' = WriteAt(mem, Low(l), LowOf(v))
             /\ at' = [at EXCEPT ![c] = "stxp"]
             /\ job' = [job EXCEPT ![c] = [loc |-> l, val |-> v]]
             /\ UNCHANGED pair_status
          \/ /\ ~ok
             /\ pair_status' = [pair_status EXCEPT ![c] = 1]
             /\ UNCHANGED <<mem, at, job>>
       /\ Used(c)
       /\ UNCHANGED <<exclusive_value, status>>

\* Then the high one.  When it fails, "restore lsb": exclusive_value, not memory.
stxp_high(c) ==
    LET l == job[c].loc
        v == job[c].val
        ok == Matches(High(l), HighOf(exclusive_value[c]))
    IN /\ at[c] = "stxp"
       /\ mem' = IF ok THEN WriteAt(mem, High(l), HighOf(v)) ELSE mem
       /\ exclusive_value' =
             IF ok THEN exclusive_value
             ELSE [exclusive_value EXCEPT ![c] =
                     [j \in 0..3 |-> IF j < 2 THEN v[j] ELSE exclusive_value[c][j]]]
       /\ pair_status' = [pair_status EXCEPT ![c] = IF ok THEN 0 ELSE 1]
       /\ at' = [at EXCEPT ![c] = "idle"]
       /\ job' = [job EXCEPT ![c] = NoJob]
       /\ UNCHANGED <<reserved, status>>

\* arm64_hlp_clrex: "~~" leaves the value as it was.
clrex(c) ==
    /\ at[c] = "idle"
    /\ reserved' = [reserved EXCEPT ![c] = NoReservation]
    /\ UNCHANGED <<mem, exclusive_value, at, job, status, pair_status>>

\* An ordinary store of the guest.
str(c, l, v) ==
    /\ at[c] = "idle" /\ Narrow(l)
    /\ mem' = WriteAt(mem, l, v)
    /\ UNCHANGED <<exclusive_value, at, job, reserved, status, pair_status>>

\* arm_hlp_vdso_cmpxchg, arm_hlp_vdso_cmpxchg64: needs no reservation.
vdso_cmpxchg(c, l, old, v) ==
    /\ at[c] = "idle" /\ Narrow(l)
    /\ mem' = IF Matches(l, old) THEN WriteAt(mem, l, v) ELSE mem
    /\ UNCHANGED <<exclusive_value, at, job, reserved, status, pair_status>>
-----------------------------------------------------------------------------
\* A new context does not initialise exclusive_value.
Init ==
    /\ mem = [i \in 0..(Size-1) |-> 0]
    /\ exclusive_value \in [Contexts -> Garbage]
    /\ at = [c \in Contexts |-> "idle"]
    /\ job = [c \in Contexts |-> NoJob]
    /\ reserved = [c \in Contexts |-> NoReservation]
    /\ status = [c \in Contexts |-> 1]
    /\ pair_status = [c \in Contexts |-> 1]

Access(c, l) ==
    \/ ldxr(c, l) \/ ldxp(c, l)
    \/ \E v \in Contents(l) :
          \/ str(c, l, v)
          \/ \E old \in Contents(l) : vdso_cmpxchg(c, l, old, v)
          \/ reserved[c].on /\ reserved[c].loc = l /\ (stxr(c, v) \/ stxp(c, v))

Next ==
    \E c \in Contexts :
        \/ clrex(c) \/ ldxp_high(c) \/ stxp_high(c)
        \/ \E l \in Locations : Access(c, l)

Spec == Init /\ [][Next]_vars
-----------------------------------------------------------------------------
\* Type correctness.
TypeOK ==
    /\ mem \in [0..(Size-1) -> Values]
    /\ exclusive_value \in [Contexts -> [0..3 -> Values]]
    /\ at \in [Contexts -> {"idle", "ldxp", "stxp"}]
    /\ \A c \in Contexts :
          /\ job[c] = NoJob \/ job[c].loc \in Locations
          /\ reserved[c].on => reserved[c].loc \in Locations
    /\ status \in [Contexts -> {0, 1}] /\ pair_status \in [Contexts -> {0, 1}]

\* The value a store exclusive compares with is the one its context loaded
\* last, whatever signal handlers and other threads did in between.
ComparesWithLoaded ==
    \A c \in Contexts :
        reserved[c].on /\ at[c] = "idle" =>
            Cut(exclusive_value[c], reserved[c].loc.n) = reserved[c].val

\* Accesses of one host word are what guest programs rely on, also while
\* wide accesses touch the same memory.  Those promise less: a wide store is
\* two stores, and its context holds no reservation.
Memory ==
    INSTANCE ExclusiveMemory WITH
        reserved <- [c \in Contexts |->
                        IF reserved[c].on /\ ~Narrow(reserved[c].loc) THEN NoReservation
                        ELSE reserved[c]]

Implements == Memory!MemSpec

\* A store exclusive that reports failure has left memory as it was.
FailedStoreKeepsMemory ==
    [][\A c \in Contexts :
         at[c] = "stxp" /\ at'[c] = "idle" /\ pair_status'[c] = 1 =>
             ReadAt(mem', Low(job[c].loc)) # LowOf(job[c].val)
                 \/ LowOf(job[c].val) = LowOf(exclusive_value[c])]_vars
=============================================================================
