------------------------------- MODULE Lanes -------------------------------
(* The vector registers of both guests (union simd_register of the arm64    *)
(* guest, union simd_d_register of the arm one) and the loops over their    *)
(* lanes that every vector instruction is made of.  A register is the       *)
(* function of its bytes; its other views are computed from them, as the    *)
(* unions of the code do.  The widths are those of the code scaled down: a  *)
(* byte has B bits instead of 8, half a register (a D register) has 2^LogD  *)
(* bytes instead of 2^3.                                                    *)
EXTENDS Integers, Sequences, FiniteSets, FiniteSetsExt, Bitwise

CONSTANTS B, LogD

ASSUME WidthsAssumption == B \in Nat \ {0} /\ LogD \in Nat \ {0}

Bit(x, i) == (x \div 2^i) % 2
Flag(b)   == IF b THEN 1 ELSE 0

Width(size)   == B * 2^size                 \* bits of a lane
NbLanes(size) == 2^(LogD + 1 - size)        \* of a whole register
HalfLanes(size) == NbLanes(size) \div 2
Bytes         == 0 .. NbLanes(0) - 1
Ones(w)       == 2^w - 1

(* A w bit lane read as a signed integer, an integer stored in a w bit lane *)
(* and the complement of a lane.                                            *)
Signed(w, x) == IF x >= 2^(w - 1) THEN x - 2^w ELSE x
Store(w, x)  == x % 2^w
Complement(w, x)    == Ones(w) - x

(* Lane i of a register seen as lanes of a size, and the register that has  *)
(* the lanes g.                                                             *)
Lane(size, v, i) == MapThenSumSet(LAMBDA k : v[i * 2^size + k] * 2^(B * k), 0 .. 2^size - 1)
Register(size, g) ==
  [b \in Bytes |-> (g[b \div 2^size] \div 2^(B * (b % 2^size))) % 2^B]
Zero == [b \in Bytes |-> 0]

(* Saturation to a w bit lane, with the flag that reports it.               *)
Clamp(x, lo, hi) == IF x > hi THEN hi ELSE IF x < lo THEN lo ELSE x
Saturated(w, x, lo, hi) == LET c == Clamp(x, lo, hi)
                           IN  [v |-> Store(w, c), qc |-> x # c]

(* A form f holds the fields of an instruction: f.size selects the lanes,   *)
(* f.q says whether the whole register or its half is worked on, f.scalar   *)
(* that only its first lane is, f.U whether lanes are unsigned.             *)
Active(f) == 0 .. (IF f.scalar THEN 1 ELSE IF f.q = 1 THEN NbLanes(f.size)
                                      ELSE HalfLanes(f.size)) - 1
ULane(f, v, i) == Lane(f.size, v, i)
SLane(f, v, i) == Signed(Width(f.size), Lane(f.size, v, i))
XLane(f, v, i) == IF f.U = 1 THEN ULane(f, v, i) ELSE SLane(f, v, i)
Wide(f)        == [f EXCEPT !.size = @ + 1]

(* The register whose active lanes are Op(i), the others being cleared, and *)
(* the same with a saturation of every lane.                                *)
Each(f, Op(_)) ==
  Register(f.size, [i \in 0 .. NbLanes(f.size) - 1 |->
                      IF i \in Active(f) THEN Store(Width(f.size), Op(i)) ELSE 0])
EachSat(f, Sat(_, _), Op(_)) ==
  LET r == [i \in Active(f) |-> Sat(Width(f.size), Op(i))]
  IN  [v |-> Each(f, LAMBDA i : r[i].v), qc |-> \E i \in Active(f) : r[i].qc]
NoQc(v) == [v |-> v, qc |-> FALSE]

(* Lengthening loops: lane i of the result, twice as wide, comes from lane  *)
(* Src(f, i), in the upper half for the "2" variants.                       *)
Src(f, i) == IF f.q = 1 /\ ~f.scalar THEN i + HalfLanes(f.size) ELSE i
WholeOf(f) == [Wide(f) EXCEPT !.q = 1]
Long(f, Op(_)) == Each(WholeOf(f), Op)
LongSat(f, Sat(_, _), Op(_)) == EachSat(WholeOf(f), Sat, Op)

(* Narrowing loops: lane i of the result comes from the i-th lane, twice as *)
(* wide; the "2" variants write the upper half and keep the lower.          *)
Narrow(f, vd, g) ==
  Register(f.size, [j \in 0 .. NbLanes(f.size) - 1 |->
     IF f.scalar THEN IF j = 0 THEN g[0] ELSE 0
     ELSE IF f.q = 0 THEN IF j < HalfLanes(f.size) THEN g[j] ELSE 0
     ELSE IF j < HalfLanes(f.size) THEN ULane(f, vd, j) ELSE g[j - HalfLanes(f.size)]])
NarrowLanes(f) == 0 .. (IF f.scalar THEN 1 ELSE HalfLanes(f.size)) - 1
NarrowSat(f, vd, Sat(_, _), Op(_)) ==
  LET r == [i \in NarrowLanes(f) |-> Sat(Width(f.size), Op(i))]
  IN  [v  |-> Narrow(f, vd, [i \in NarrowLanes(f) |-> r[i].v]),
       qc |-> \E i \in NarrowLanes(f) : r[i].qc]
=============================================================================
