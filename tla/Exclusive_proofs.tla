-------------------------- MODULE Exclusive_proofs --------------------------
(***************************************************************************)
(* The emulation of exclusive accesses by compare and swap implements the  *)
(* memory of ExclusiveMemory, for any number of threads and handlers, any  *)
(* memory and any locations: for those of one host word, while those of    *)
(* two words are accessed piecewise by others.                             *)
(***************************************************************************)
EXTENDS Exclusive, TLAPS

Domains ==
    /\ DOMAIN exclusive_value = Contexts /\ DOMAIN at = Contexts /\ DOMAIN job = Contexts
    /\ DOMAIN reserved = Contexts /\ DOMAIN status = Contexts /\ DOMAIN pair_status = Contexts

\* A reservation is none, or one on a location; a context in the middle of a
\* wide access holds none, and works on a wide location.
ContextInv(c) ==
    /\ \/ reserved[c] = NoReservation
       \/ /\ reserved[c] = [on |-> TRUE, loc |-> reserved[c].loc, val |-> reserved[c].val]
          /\ reserved[c].loc \in Locations
    /\ at[c] \in {"idle", "ldxp", "stxp"}
    /\ at[c] # "idle" => /\ reserved[c] = NoReservation
                         /\ job[c].loc \in Locations /\ job[c].loc.n = 4
    /\ at[c] = "stxp" => job[c].val \in Contents(job[c].loc)

ExclInv == Domains /\ (\A c \in Contexts : ContextInv(c)) /\ ComparesWithLoaded

\* What a store compares with when its context has loaded v.
LEMMA CutExtend ==
    ASSUME NEW m, NEW l \in Locations, Narrow(l)
    PROVE  Cut(Extend(ReadAt(m, l)), l.n) = ReadAt(m, l)
  BY DEF Cut, Extend, ReadAt, Narrow

LEMMA ExclInit == Init => ExclInv
  BY DEF Init, ExclInv, Domains, ContextInv, ComparesWithLoaded, NoReservation

(* A step concerns one context: nothing else that the invariant speaks of   *)
(* changes for another one.                                                 *)
LEMMA ExclStep == ExclInv /\ [Next]_vars => ExclInv'
<1> SUFFICES ASSUME ExclInv, [Next]_vars PROVE ExclInv'
  OBVIOUS
<1> DEFINE Compares(c) == reserved[c].on /\ at[c] = "idle" =>
                            Cut(exclusive_value[c], reserved[c].loc.n) = reserved[c].val
<1>d. Domains /\ \A c \in Contexts : ContextInv(c) /\ Compares(c)
  BY DEF ExclInv, ComparesWithLoaded
<1>o. ASSUME NEW c \in Contexts, Domains', ContextInv(c)', Compares(c)',
             \A d \in Contexts \ {c} : /\ exclusive_value'[d] = exclusive_value[d] /\ at'[d] = at[d]
                                       /\ job'[d] = job[d] /\ reserved'[d] = reserved[d]
      PROVE  ExclInv'
  <2>1. ASSUME NEW d \in Contexts, d # c PROVE ContextInv(d)' /\ Compares(d)'
    <3>1. ContextInv(d) /\ Compares(d)
      BY <1>d
    <3>2. exclusive_value'[d] = exclusive_value[d] /\ at'[d] = at[d] /\ job'[d] = job[d] /\ reserved'[d] = reserved[d]
      BY <1>o, <2>1
    <3> QED
      BY <3>1, <3>2 DEF ContextInv
  <2>2. \A d \in Contexts : ContextInv(d)' /\ Compares(d)'
    BY <1>o, <2>1
  <2>3. (\A d \in Contexts : ContextInv(d))' /\ ComparesWithLoaded'
    BY <2>2 DEF ComparesWithLoaded
  <2> QED
    BY <1>o, <2>3 DEF ExclInv
<1>1. ASSUME NEW c \in Contexts, NEW l \in Locations, ldxr(c, l) PROVE ExclInv'
  <2>1. Domains' /\ ContextInv(c)'
    BY <1>1, <1>d DEF ldxr, Domains, ContextInv, NoReservation
  <2>2. Compares(c)'
    <3>1. exclusive_value'[c] = Extend(ReadAt(mem, l)) /\ reserved'[c].loc = l /\ reserved'[c].val = ReadAt(mem, l)
      BY <1>1, <1>d DEF ldxr, Domains
    <3>2. Narrow(l)
      BY <1>1 DEF ldxr
    <3> QED
      BY <3>1, <3>2, CutExtend
  <2> QED
    BY <1>1, <2>1, <2>2, <1>d, <1>o DEF ldxr, Domains
<1>2. ASSUME NEW c \in Contexts, NEW l \in Locations, ldxp(c, l) PROVE ExclInv'
  <2>1. Domains' /\ ContextInv(c)' /\ Compares(c)'
    BY <1>2, <1>d DEF ldxp, Domains, ContextInv, NoReservation
  <2> QED
    BY <1>2, <2>1, <1>d, <1>o DEF ldxp, Domains
<1>3. ASSUME NEW c \in Contexts, ldxp_high(c) PROVE ExclInv'
  <2>1. Domains' /\ ContextInv(c)'
    BY <1>3, <1>d DEF ldxp_high, Domains, ContextInv, NoReservation
  <2>2. Compares(c)'
    <3> DEFINE x == [j \in 0..3 |-> IF j < 2 THEN job[c].val[j] ELSE mem[job[c].loc.at + j]]
    <3>1. job[c].loc.n = 4
      BY <1>3, <1>d DEF ldxp_high, ContextInv
    <3>2. exclusive_value'[c] = x /\ reserved'[c].loc = job[c].loc /\ reserved'[c].val = x
      BY <1>3, <1>d DEF ldxp_high, Domains
    <3>3. Cut(x, 4) = x
      BY DEF Cut
    <3> HIDE DEF x
    <3> QED
      BY <3>1, <3>2, <3>3
  <2> QED
    BY <1>3, <2>1, <2>2, <1>d, <1>o DEF ldxp_high, Domains
<1>4. ASSUME NEW c \in Contexts, NEW v, stxr(c, v) PROVE ExclInv'
  <2>1. Domains' /\ ContextInv(c)' /\ Compares(c)'
    BY <1>4, <1>d DEF stxr, Used, Domains, ContextInv, NoReservation
  <2> QED
    BY <1>4, <2>1, <1>d, <1>o DEF stxr, Used, Domains
<1>5. ASSUME NEW c \in Contexts, NEW l \in Locations, NEW v \in Contents(l), reserved[c].loc = l, stxp(c, v) PROVE ExclInv'
  <2>1. Domains' /\ ContextInv(c)' /\ Compares(c)'
    BY <1>5, <1>d DEF stxp, Used, Domains, ContextInv, NoReservation
  <2> QED
    BY <1>5, <2>1, <1>d, <1>o DEF stxp, Used, Domains
<1>6. ASSUME NEW c \in Contexts, stxp_high(c) PROVE ExclInv'
  <2>1. Domains' /\ ContextInv(c)' /\ Compares(c)'
    BY <1>6, <1>d DEF stxp_high, Domains, ContextInv, NoReservation
  <2> QED
    BY <1>6, <2>1, <1>d, <1>o DEF stxp_high, Domains
<1>7. ASSUME NEW c \in Contexts, clrex(c) PROVE ExclInv'
  <2>1. Domains' /\ ContextInv(c)' /\ Compares(c)'
    BY <1>7, <1>d DEF clrex, Domains, ContextInv, NoReservation
  <2> QED
    BY <1>7, <2>1, <1>d, <1>o DEF clrex, Domains
\* Stores of others and compare and exchange touch memory only.
<1>8. ASSUME UNCHANGED <<exclusive_value, at, job, reserved, status, pair_status>> PROVE ExclInv'
  BY <1>8 DEF ExclInv, Domains, ContextInv, ComparesWithLoaded
<1> QED
  BY <1>1, <1>2, <1>3, <1>4, <1>5, <1>6, <1>7, <1>8 DEF Next, Access, str, vdso_cmpxchg, vars

(* The value a store exclusive compares with is the one its context loaded  *)
(* last (exclusive_value of arm64_hlp_ldxr and arm64_hlp_stxr).             *)
THEOREM ExclusiveComparesWithLoaded == Spec => []ComparesWithLoaded
<1>1. ExclInv => ComparesWithLoaded
  BY DEF ExclInv
<1> QED
  BY ExclInit, ExclStep, <1>1, PTL DEF Spec

-----------------------------------------------------------------------------
(* Refinement: each step is one of ExclusiveMemory or leaves it alone.      *)

LEMMA RefinesInit == Init => Memory!MemInit
  BY DEF Init, Memory!MemInit, NoReservation, Memory!NoReservation

LEMMA RefinesStep == ExclInv /\ [Next]_vars => [Memory!MemNext]_(Memory!memvars)
<1> SUFFICES ASSUME ExclInv, [Next]_vars PROVE [Memory!MemNext]_(Memory!memvars)
  OBVIOUS
<1> DEFINE seen(r) == [c \in Contexts |-> IF r[c].on /\ ~Narrow(r[c].loc) THEN NoReservation ELSE r[c]]
<1>d. Domains /\ \A c \in Contexts : ContextInv(c)
  BY DEF ExclInv
<1>n. NoReservation = [on |-> FALSE] /\ Memory!NoReservation = [on |-> FALSE]
  BY DEF NoReservation, Memory!NoReservation
\* A context gets or gives up a reservation.
<1>s. ASSUME NEW c \in Contexts, NEW r, reserved' = [reserved EXCEPT ![c] = r]
      PROVE  seen(reserved') = [seen(reserved) EXCEPT ![c] = IF r.on /\ ~Narrow(r.loc) THEN NoReservation ELSE r]
  BY <1>s, <1>d DEF Domains
<1>c. ASSUME NEW c \in Contexts, NEW r, reserved' = [reserved EXCEPT ![c] = r],
             r = NoReservation \/ (r.on /\ ~Narrow(r.loc)), UNCHANGED <<mem, status>>
      PROVE  Memory!MemNext
  <2>1. (IF r.on /\ ~Narrow(r.loc) THEN NoReservation ELSE r) = NoReservation
    BY <1>c
  <2>2. seen(reserved') = [seen(reserved) EXCEPT ![c] = [on |-> FALSE]]
    BY <1>c, <1>s, <2>1, <1>n
  <2>3. Memory!Clear(c)
    BY <2>2, <1>c, <1>n DEF Memory!Clear
  <2> QED
    BY <2>3 DEF Memory!MemNext
\* A store of one word; the reservations that are seen do not change.
<1>w. ASSUME NEW l \in Locations, NEW v \in Contents(l), mem' = WriteAt(mem, l, v),
             seen(reserved') = seen(reserved), status' = status
      PROVE  Memory!MemNext
  BY <1>w DEF Memory!MemNext, Memory!Write, WriteAt, Memory!WriteAt
<1>u. ASSUME mem' = mem, seen(reserved') = seen(reserved), status' = status
      PROVE  UNCHANGED Memory!memvars
  BY <1>u DEF Memory!memvars
<1>1. ASSUME NEW c \in Contexts, NEW l \in Locations, ldxr(c, l) PROVE Memory!MemNext
  <2>1. seen(reserved') = [seen(reserved) EXCEPT ![c] = [on |-> TRUE, loc |-> l, val |-> ReadAt(mem, l)]]
    <3> DEFINE r == [on |-> TRUE, loc |-> l, val |-> ReadAt(mem, l)]
    <3>1. reserved' = [reserved EXCEPT ![c] = r] /\ Narrow(r.loc)
      BY <1>1 DEF ldxr
    <3> HIDE DEF r
    <3>2. seen(reserved') = [seen(reserved) EXCEPT ![c] = r]
      BY <3>1, <1>s
    <3> QED
      BY <3>2 DEF r
  <2>2. Memory!LoadExclusive(c, l)
    BY <2>1, <1>1 DEF Memory!LoadExclusive, ldxr, ReadAt, Memory!ReadAt
  <2> QED
    BY <2>2 DEF Memory!MemNext
<1>2. ASSUME NEW c \in Contexts, NEW l \in Locations, ldxp(c, l) PROVE Memory!MemNext
  BY <1>2, <1>c DEF ldxp
<1>3. ASSUME NEW c \in Contexts, ldxp_high(c) PROVE Memory!MemNext
  <2> DEFINE x == [j \in 0..3 |-> IF j < 2 THEN job[c].val[j] ELSE mem[job[c].loc.at + j]]
             r == [on |-> TRUE, loc |-> job[c].loc, val |-> x]
  <2>1. job[c].loc.n = 4
    BY <1>3, <1>d DEF ldxp_high, ContextInv
  <2>2. reserved' = [reserved EXCEPT ![c] = r] /\ UNCHANGED <<mem, status>>
    BY <1>3 DEF ldxp_high
  <2>3. r.on /\ ~Narrow(r.loc)
    BY <2>1 DEF Narrow
  <2> HIDE DEF r
  <2> QED
    BY <2>2, <2>3, <1>c
<1>4. ASSUME NEW c \in Contexts, NEW l \in Locations, NEW v \in Contents(l),
             reserved[c].on, reserved[c].loc = l, stxr(c, v)
      PROVE  Memory!MemNext
  <2>1. Narrow(l) /\ seen(reserved)[c] = reserved[c] /\ UNCHANGED <<at, job>> /\ at[c] = "idle"
    BY <1>4 DEF stxr
  <2>2. seen(reserved') = [seen(reserved) EXCEPT ![c] = [on |-> FALSE]]
    <3>1. reserved' = [reserved EXCEPT ![c] = NoReservation]
      BY <1>4 DEF stxr, Used
    <3> QED
      BY <3>1, <1>s, <1>n
  <2>3. CASE Matches(l, Cut(exclusive_value[c], l.n))
    <3>1. ReadAt(mem, l) = reserved[c].val
      BY <2>1, <2>3, <1>4 DEF Matches, ExclInv, ComparesWithLoaded
    <3>2. mem' = WriteAt(mem, l, v) /\ status' = [status EXCEPT ![c] = 0]
      BY <1>4, <2>3 DEF stxr
    <3>3. Memory!StoreExclusive(c, v)
      BY <3>1, <3>2, <2>1, <2>2, <1>4, <1>n
      DEF Memory!StoreExclusive, ReadAt, Memory!ReadAt, WriteAt, Memory!WriteAt
    <3> QED
      BY <3>3, <2>1, <1>4 DEF Memory!MemNext
  <2>4. CASE ~Matches(l, Cut(exclusive_value[c], l.n))
    <3>1. mem' = mem /\ status' = [status EXCEPT ![c] = 1]
      BY <1>4, <2>4 DEF stxr
    <3>2. Memory!FailStore(c)
      BY <3>1, <2>1, <2>2, <1>4, <1>n DEF Memory!FailStore
    <3> QED
      BY <3>2 DEF Memory!MemNext
  <2> QED
    BY <2>3, <2>4
<1>5. ASSUME NEW c \in Contexts, NEW l \in Locations, NEW v \in Contents(l),
             reserved[c].on, reserved[c].loc = l, stxp(c, v)
      PROVE  Memory!MemNext \/ UNCHANGED Memory!memvars
  <2>1. l.n = 4 /\ status' = status /\ reserved' = [reserved EXCEPT ![c] = NoReservation]
    BY <1>5 DEF stxp, Used
  <2>2. seen(reserved') = seen(reserved)
    <3>1. seen(reserved)[c] = NoReservation
      BY <2>1, <1>5 DEF Narrow
    <3>2. seen(reserved') = [seen(reserved) EXCEPT ![c] = NoReservation]
      BY <2>1, <1>s, <1>n
    <3> QED
      BY <3>1, <3>2
  <2>3. Low(l) \in Locations /\ LowOf(v) \in Contents(Low(l))
    BY <2>1, ExclusiveAssumption DEF Low, LowOf
  <2>4. mem' = WriteAt(mem, Low(l), LowOf(v)) \/ mem' = mem
    BY <1>5 DEF stxp
  <2> QED
    BY <2>1, <2>2, <2>3, <2>4, <1>w, <1>u
<1>6. ASSUME NEW c \in Contexts, stxp_high(c) PROVE Memory!MemNext \/ UNCHANGED Memory!memvars
  <2> DEFINE l == job[c].loc
             v == job[c].val
  <2>1. l \in Locations /\ l.n = 4 /\ v \in Contents(l)
    BY <1>6, <1>d DEF stxp_high, ContextInv
  <2>2. status' = status /\ reserved' = reserved
    BY <1>6 DEF stxp_high
  <2>3. High(l) \in Locations /\ HighOf(v) \in Contents(High(l))
    BY <2>1, ExclusiveAssumption DEF High, HighOf
  <2>4. mem' = WriteAt(mem, High(l), HighOf(v)) \/ mem' = mem
    BY <1>6 DEF stxp_high
  <2> QED
    BY <2>2, <2>3, <2>4, <1>w, <1>u
<1>7. ASSUME NEW c \in Contexts, clrex(c) PROVE Memory!MemNext
  BY <1>7, <1>c DEF clrex
<1>8. ASSUME NEW c \in Contexts, NEW l \in Locations, NEW v \in Contents(l),
             str(c, l, v) \/ \E old \in Contents(l) : vdso_cmpxchg(c, l, old, v)
      PROVE  Memory!MemNext \/ UNCHANGED Memory!memvars
  <2>1. (mem' = WriteAt(mem, l, v) \/ mem' = mem) /\ reserved' = reserved /\ status' = status
    BY <1>8 DEF str, vdso_cmpxchg
  <2> QED
    BY <2>1, <1>w, <1>u
<1>9. CASE UNCHANGED vars
  BY <1>9, <1>u DEF vars
<1> QED
  BY <1>1, <1>2, <1>3, <1>4, <1>5, <1>6, <1>7, <1>8, <1>9 DEF Next, Access

(* Programs that use the exclusive accesses of umeq see the memory that     *)
(* ExclusiveMemory describes: a store exclusive that reports success has    *)
(* replaced, in one step, the value its context loaded                      *)
(* (arm64_hlp_stxr, arm64_hlp_stxp_dirty, arm_hlp_vdso_cmpxchg).            *)
THEOREM ExclusiveImplements == Spec => Implements
<1>1. Memory!MemInit /\ [][Memory!MemNext]_(Memory!memvars) => Implements
  BY DEF Implements, Memory!MemSpec
<1> QED
  BY ExclInit, ExclStep, RefinesInit, RefinesStep, <1>1, PTL DEF Spec
=============================================================================
