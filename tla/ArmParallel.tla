---------------------------- MODULE ArmParallel ----------------------------
(* The instructions of the arm guest on the bytes and halfwords of its core *)
(* registers, its saturating arithmetic and its long multiplications, as    *)
(* their helpers compute them (arm_helpers.c).  Every operand is read       *)
(* before a result is written, so an instruction is a function of the       *)
(* values of its operands and of the flags c.q (the sticky Q) and c.ge (the *)
(* bytes whose GE flag is set).  The widths are those of the code scaled    *)
(* down: a byte has P bits.                                                 *)
EXTENDS Integers, FiniteSets, FiniteSetsExt

CONSTANT P

H == 2 * P
W == 4 * P

(* Part i of a word cut in parts of w bits, unsigned and signed, and the    *)
(* word that has the parts g.                                               *)
Parts(w) == 0 .. (W \div w) - 1
AsSigned(w, x) == ((x + 2^(w - 1)) % 2^w) - 2^(w - 1)
UPart(w, x, i) == (x \div 2^(w * i)) % 2^w
SPart(w, x, i) == AsSigned(w, UPart(w, x, i))
Pack(w, g) == MapThenSumSet(LAMBDA i : (g[i] % 2^w) * 2^(w * i), Parts(w))

Limit(i, lo, hi) ==
  IF i > hi THEN [v |-> hi, sat |-> TRUE] ELSE IF i < lo THEN [v |-> lo, sat |-> TRUE]
  ELSE [v |-> i, sat |-> FALSE]
unsignedSatQ(i, n) == Limit(i, 0, 2^n - 1)
unsignedSat8(i)    == unsignedSatQ(i, P).v
unsignedSat16(i)   == unsignedSatQ(i, H).v
signedSatQ(i, n)   == Limit(i, -(2^(n - 1)), 2^(n - 1) - 1)
signedSat16(i)     == signedSatQ(i, H).v
signedSat8(i)      == signedSatQ(i, P).v
signedSat32Q(i)    == signedSatQ(i, W)

(* The sums or differences of the parts of n and m, part by part, and those *)
(* of the exchanging instructions.                                          *)
Straight(Read(_, _, _), w, is_sub, n, m) ==
  [i \in Parts(w) |-> IF is_sub = 1 THEN Read(w, n, i) - Read(w, m, i) ELSE Read(w, n, i) + Read(w, m, i)]
Crossed(Read(_, _, _), is_diff_first, n, m) ==
  [i \in Parts(H) |-> IF (i = 0) = (is_diff_first = 1) THEN Read(H, n, i) - Read(H, m, 1 - i)
                                                       ELSE Read(H, n, i) + Read(H, m, 1 - i)]
Halved(g) == [i \in DOMAIN g |-> g[i] \div 2]
Only(c, rd) == [rd |-> rd, cpsr |-> c]
WithGe(c, w, g, Ge(_)) ==
  [rd |-> Pack(w, g), cpsr |-> [c EXCEPT !.ge = {b \in Parts(P) : Ge(b \div (w \div P))}]]

uadd16_usub16(c, is_sub, n, m) ==
  LET res == Straight(UPart, H, is_sub, n, m)
  IN  WithGe(c, H, res, LAMBDA i : IF is_sub = 1 THEN res[i] >= 0 ELSE res[i] >= 2^H)
uasx_usax(c, is_diff_first, n, m) ==
  LET op == Crossed(UPart, is_diff_first, n, m)
  IN  WithGe(c, H, op, LAMBDA i : IF (i = 0) = (is_diff_first = 1) THEN op[i] >= 0 ELSE op[i] >= 2^H)
(* Slip: GE is set beyond the carry only.                                   *)
Uadd8GeBeyondCarry(c, is_sub, n, m) ==
  LET res == Straight(UPart, P, is_sub, n, m)
  IN  WithGe(c, P, res, LAMBDA i : IF is_sub = 1 THEN res[i] >= 0 ELSE res[i] > 2^P)
uadd8_usub8(c, is_sub, n, m) ==
  LET res == Straight(UPart, P, is_sub, n, m)
  IN  WithGe(c, P, res, LAMBDA i : IF is_sub = 1 THEN res[i] >= 0 ELSE res[i] >= 2^P)
Mapped(c, w, Sat(_), g) == Only(c, Pack(w, [i \in DOMAIN g |-> Sat(g[i])]))
uqadd16_uqsub16(c, is_sub, n, m) == Mapped(c, H, unsignedSat16, Straight(UPart, H, is_sub, n, m))
uqasx_uqsax(c, is_diff_first, n, m) == Mapped(c, H, unsignedSat16, Crossed(UPart, is_diff_first, n, m))
uqadd8(c, n, m) == Mapped(c, P, unsignedSat8, Straight(UPart, P, 0, n, m))
uqsub8(c, n, m) == Mapped(c, P, unsignedSat8, Straight(UPart, P, 1, n, m))
uhadd16_uhsub16(c, is_sub, n, m) == Only(c, Pack(H, Halved(Straight(UPart, H, is_sub, n, m))))
uhasx_uhsax(c, is_diff_first, n, m) == Only(c, Pack(H, Halved(Crossed(UPart, is_diff_first, n, m))))
uhsub8_uhadd8(c, is_sub, n, m) == Only(c, Pack(P, Halved(Straight(UPart, P, is_sub, n, m))))

sadd16_ssub16(c, is_sub, n, m) ==
  LET res == Straight(SPart, H, is_sub, n, m) IN WithGe(c, H, res, LAMBDA i : res[i] >= 0)
sasx_ssax(c, is_diff_first, n, m) ==
  LET op == Crossed(SPart, is_diff_first, n, m) IN WithGe(c, H, op, LAMBDA i : op[i] >= 0)
sadd8_ssub8(c, is_sub, n, m) ==
  LET res == Straight(SPart, P, is_sub, n, m) IN WithGe(c, P, res, LAMBDA i : res[i] >= 0)
qadd16(c, n, m) == Mapped(c, H, signedSat16, Straight(SPart, H, 0, n, m))
qasx(c, n, m)   == Mapped(c, H, signedSat16, Crossed(SPart, 1, n, m))
qsax(c, n, m)   == Mapped(c, H, signedSat16, Crossed(SPart, 0, n, m))
qsub16(c, n, m) == Mapped(c, H, signedSat16, Straight(SPart, H, 1, n, m))
qadd8(c, n, m)  == Mapped(c, P, signedSat8, Straight(SPart, P, 0, n, m))
qsub8(c, n, m)  == Mapped(c, P, signedSat8, Straight(SPart, P, 1, n, m))
shadd16(c, n, m) == Only(c, Pack(H, Halved(Straight(SPart, H, 0, n, m))))
shasx(c, n, m)   == Only(c, Pack(H, Halved(Crossed(SPart, 1, n, m))))
shsax(c, n, m)   == Only(c, Pack(H, Halved(Crossed(SPart, 0, n, m))))
shsub16(c, n, m) == Only(c, Pack(H, Halved(Straight(SPart, H, 1, n, m))))
shadd8(c, n, m)  == Only(c, Pack(P, Halved(Straight(SPart, P, 0, n, m))))
shsub8(c, n, m)  == Only(c, Pack(P, Halved(Straight(SPart, P, 1, n, m))))

(* Dispatch: f.op1 and f.op2 are the fields of the encoding; A1Bit and      *)
(* T32Bit are the bits that the wrappers _a1 and _t32 pass as is_sub or,    *)
(* complemented in thumb, as is_diff_first.                                 *)
Illegal == [rd |-> "illegal"]
A1Bit(f)  == f.op2 % 2
T32Bit(f) == f.op1 \div 4
arm_hlp_unsigned_parallel(f, c, n, m) ==
  CASE f.op1 = 1 /\ f.op2 \in {0, 3} -> uadd16_usub16(c, A1Bit(f), n, m)
    [] f.op1 = 1 /\ f.op2 \in {1, 2} -> uasx_usax(c, A1Bit(f), n, m)
    [] f.op1 = 1 /\ f.op2 \in {4, 7} -> uadd8_usub8(c, A1Bit(f), n, m)
    [] f.op1 = 2 /\ f.op2 \in {0, 3} -> uqadd16_uqsub16(c, A1Bit(f), n, m)
    [] f.op1 = 2 /\ f.op2 \in {1, 2} -> uqasx_uqsax(c, A1Bit(f), n, m)
    [] f.op1 = 2 /\ f.op2 = 4        -> uqadd8(c, n, m)
    [] f.op1 = 2 /\ f.op2 = 7        -> uqsub8(c, n, m)
    [] f.op1 = 3 /\ f.op2 \in {0, 3} -> uhadd16_uhsub16(c, A1Bit(f), n, m)
    [] f.op1 = 3 /\ f.op2 \in {1, 2} -> uhasx_uhsax(c, A1Bit(f), n, m)
    [] f.op1 = 3 /\ f.op2 \in {4, 7} -> uhsub8_uhadd8(c, A1Bit(f), n, m)
    [] OTHER -> Illegal
thumb_hlp_t2_unsigned_parallel(f, c, n, m) ==
  CASE f.op2 = 0 /\ f.op1 \in {0, 4} -> uadd8_usub8(c, T32Bit(f), n, m)
    [] f.op2 = 0 /\ f.op1 \in {1, 5} -> uadd16_usub16(c, T32Bit(f), n, m)
    [] f.op2 = 0 /\ f.op1 \in {2, 6} -> uasx_usax(c, 1 - T32Bit(f), n, m)
    [] f.op2 = 1 /\ f.op1 = 0        -> uqadd8(c, n, m)
    [] f.op2 = 1 /\ f.op1 \in {1, 5} -> uqadd16_uqsub16(c, T32Bit(f), n, m)
    [] f.op2 = 1 /\ f.op1 \in {2, 6} -> uqasx_uqsax(c, 1 - T32Bit(f), n, m)
    [] f.op2 = 1 /\ f.op1 = 4        -> uqsub8(c, n, m)
    [] f.op2 = 2 /\ f.op1 \in {0, 4} -> uhsub8_uhadd8(c, T32Bit(f), n, m)
    [] f.op2 = 2 /\ f.op1 \in {1, 5} -> uhadd16_uhsub16(c, T32Bit(f), n, m)
    [] f.op2 = 2 /\ f.op1 \in {2, 6} -> uhasx_uhsax(c, 1 - T32Bit(f), n, m)
    [] OTHER -> Illegal
arm_hlp_signed_parallel(f, c, n, m) ==
  CASE f.op1 = 1 /\ f.op2 \in {0, 3} -> sadd16_ssub16(c, A1Bit(f), n, m)
    [] f.op1 = 1 /\ f.op2 \in {1, 2} -> sasx_ssax(c, A1Bit(f), n, m)
    [] f.op1 = 1 /\ f.op2 \in {4, 7} -> sadd8_ssub8(c, A1Bit(f), n, m)
    [] f.op1 = 2 /\ f.op2 = 0 -> qadd16(c, n, m)
    [] f.op1 = 2 /\ f.op2 = 1 -> qasx(c, n, m)
    [] f.op1 = 2 /\ f.op2 = 2 -> qsax(c, n, m)
    [] f.op1 = 2 /\ f.op2 = 3 -> qsub16(c, n, m)
    [] f.op1 = 2 /\ f.op2 = 4 -> qadd8(c, n, m)
    [] f.op1 = 2 /\ f.op2 = 7 -> qsub8(c, n, m)
    [] f.op1 = 3 /\ f.op2 = 0 -> shadd16(c, n, m)
    [] f.op1 = 3 /\ f.op2 = 1 -> shasx(c, n, m)
    [] f.op1 = 3 /\ f.op2 = 2 -> shsax(c, n, m)
    [] f.op1 = 3 /\ f.op2 = 3 -> shsub16(c, n, m)
    [] f.op1 = 3 /\ f.op2 = 4 -> shadd8(c, n, m)
    [] f.op1 = 3 /\ f.op2 = 7 -> shsub8(c, n, m)
    [] OTHER -> Illegal
thumb_hlp_t2_signed_parallel(f, c, n, m) ==
  CASE f.op2 = 0 /\ f.op1 \in {0, 4} -> sadd8_ssub8(c, T32Bit(f), n, m)
    [] f.op2 = 0 /\ f.op1 \in {1, 5} -> sadd16_ssub16(c, T32Bit(f), n, m)
    [] f.op2 = 0 /\ f.op1 \in {2, 6} -> sasx_ssax(c, 1 - T32Bit(f), n, m)
    [] f.op2 = 1 /\ f.op1 = 0 -> qadd8(c, n, m)
    [] f.op2 = 1 /\ f.op1 = 1 -> qadd16(c, n, m)
    [] f.op2 = 1 /\ f.op1 = 2 -> qasx(c, n, m)
    [] f.op2 = 1 /\ f.op1 = 4 -> qsub8(c, n, m)
    [] f.op2 = 1 /\ f.op1 = 5 -> qsub16(c, n, m)
    [] f.op2 = 1 /\ f.op1 = 6 -> qsax(c, n, m)
    [] f.op2 = 2 /\ f.op1 = 0 -> shadd8(c, n, m)
    [] f.op2 = 2 /\ f.op1 = 1 -> shadd16(c, n, m)
    [] f.op2 = 2 /\ f.op1 = 2 -> shasx(c, n, m)
    [] f.op2 = 2 /\ f.op1 = 4 -> shsub8(c, n, m)
    [] f.op2 = 2 /\ f.op1 = 5 -> shsub16(c, n, m)
    [] f.op2 = 2 /\ f.op1 = 6 -> shsax(c, n, m)
    [] OTHER -> Illegal

arm_hlp_sel(ge, n, m) ==
  Pack(P, [i \in Parts(P) |-> IF i \in ge THEN UPart(P, n, i) ELSE UPart(P, m, i)])
=============================================================================
