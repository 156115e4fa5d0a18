------------------------------- MODULE ArmDsp -------------------------------
(* The saturating arithmetic, the multiplications, the divisions and the    *)
(* flag setting of the arm guest (arm_helpers.c), on words of W bits.  The  *)
(* operands of an instruction are in r: r.n, r.m, r.a (the accumulator) and *)
(* r.lo, r.hi (the two halves of a long one); the fields of its encoding    *)
(* are in f: the bits f.b4 to f.b6 of an arm encoding or of the second half *)
(* of a thumb one, and f.ra, the number of the accumulator register.        *)
EXTENDS ArmParallel

Stored(x)  == x % 2^W
Sticky(c, sat) == [c EXCEPT !.q = @ \/ sat]
SWord(x)   == AsSigned(W, x)
Overflows(x) == x # SWord(x)
Single(c, x, sat) == [rd |-> Stored(x), cpsr |-> Sticky(c, sat)]
Double(c, x, sat) == [lo |-> Stored(x), hi |-> Stored(x \div 2^W), cpsr |-> Sticky(c, sat)]
Accumulator(r) == AsSigned(2 * W, r.hi * 2^W + r.lo)

qadd(c, r) == LET s == signedSat32Q(SWord(r.m) + SWord(r.n)) IN Single(c, s.v, s.sat)
qsub(c, r) == LET s == signedSat32Q(SWord(r.m) - SWord(r.n)) IN Single(c, s.v, s.sat)
qdadd(c, r) == LET doubled == signedSat32Q(2 * SWord(r.n))
                   s == signedSat32Q(SWord(r.m) + doubled.v)
               IN  Single(c, s.v, doubled.sat \/ s.sat)
qdsub(c, r) == LET doubled == signedSat32Q(2 * SWord(r.n))
                   s == signedSat32Q(SWord(r.m) - doubled.v)
               IN  Single(c, s.v, doubled.sat \/ s.sat)

smlaxy(c, n, m, r) == LET res == SPart(H, r.n, n) * SPart(H, r.m, m) + SWord(r.a)
                      IN  Single(c, res, Overflows(res))
smulwy(c, m, r) == Single(c, (SWord(r.n) * SPart(H, r.m, m)) \div 2^H, FALSE)
smlawy(c, m, r) == LET res == (SWord(r.n) * SPart(H, r.m, m) + SWord(r.a) * 2^H) \div 2^H
                   IN  Single(c, res, Overflows(res))
sdiv(c, r) ==
  LET n == SWord(r.n)
      m == SWord(r.m)
      Abs(v) == IF v < 0 THEN -v ELSE v
      quotient == Abs(n) \div Abs(m)          \* of C: rounded to zero
  IN  CASE r.n = 2^(W - 1) /\ r.m = 2^W - 1 -> Only(c, 2^(W - 1))
        [] m # 0 /\ ~(r.n = 2^(W - 1) /\ r.m = 2^W - 1) ->
             Only(c, Stored(IF (n < 0) = (m < 0) THEN quotient ELSE -quotient))
        [] m = 0 -> Only(c, 0)
udiv(c, r) == Only(c, IF r.m # 0 THEN r.n \div r.m ELSE 0)
smlalxy(c, n, m, r) == Double(c, SPart(H, r.n, n) * SPart(H, r.m, m) + Accumulator(r), FALSE)
smulxy(c, n, m, r) == Single(c, SPart(H, r.n, n) * SPart(H, r.m, m), FALSE)
(* The sum or difference of the two products of halfwords, those of the     *)
(* second operand exchanged when m is set.                                  *)
Products(is_sub, m, r) == LET product1 == SPart(H, r.n, 0) * SPart(H, r.m, m)
                              product2 == SPart(H, r.n, 1) * SPart(H, r.m, 1 - m)
                          IN  IF is_sub = 1 THEN product1 - product2 ELSE product1 + product2
smuad_smusd(c, is_sub, m, r) == LET res == Products(is_sub, m, r) IN Single(c, res, Overflows(res))
smlad_smlsd(c, is_sub, m, r) == LET res == Products(is_sub, m, r) + SWord(r.a)
                                IN  Single(c, res, Overflows(res))
smlald_smlsld(c, is_sub, m, r) ==
  LET res == AsSigned(2 * W, Products(is_sub, m, r) + Accumulator(r)) IN Double(c, res, Overflows(res))
smmul(c, round, r) ==
  Single(c, (SWord(r.n) * SWord(r.m) + round * 2^(W - 1)) \div 2^W, FALSE)
smmla_smmls(c, is_sub, round, r) ==
  LET product == SWord(r.n) * SWord(r.m)
      acc == AsSigned(2 * W, r.a * 2^W)
  IN  Single(c, (acc + (IF is_sub = 1 THEN -product ELSE product) + round * 2^(W - 1)) \div 2^W, FALSE)
arm_hlp_umaal(c, r) ==
  LET result == r.n * r.m + r.hi + r.lo
  IN  [lo |-> Stored(result), hi |-> Stored(result \div 2^W), cpsr |-> c]
usad8_usada8(c, ra, r) ==
  LET diff == Straight(UPart, P, 1, r.n, r.m)
  IN  Single(c, MapThenSumSet(LAMBDA i : IF diff[i] < 0 THEN -diff[i] ELSE diff[i], Parts(P))
                  + (IF ra # 15 THEN r.a ELSE 0), FALSE)

(* ssat and usat shift first: to the left, losing the upper bits, or to the *)
(* right, where a shift by zero stands for one by a whole word.             *)
Shifted(n, shift_mode, shift_value) ==
  CASE shift_mode = 0 -> SWord(n * 2^shift_value)
    [] shift_mode = 2 -> SWord(n) \div 2^(IF shift_value # 0 THEN shift_value ELSE W)
dis_ssat(c, saturate_to, shift_mode, shift_value, r) ==
  LET s == signedSatQ(Shifted(r.n, shift_mode, shift_value), saturate_to) IN Single(c, s.v, s.sat)
dis_usat(c, saturate_to, shift_mode, shift_value, r) ==
  LET s == unsignedSatQ(Shifted(r.n, shift_mode, shift_value), saturate_to) IN Single(c, s.v, s.sat)
dis_ssat16(c, saturate_to, r) ==
  LET s == [i \in Parts(H) |-> signedSatQ(SPart(H, r.n, i), saturate_to)]
  IN  [rd |-> Pack(H, [i \in Parts(H) |-> s[i].v]), cpsr |-> Sticky(c, \E i \in Parts(H) : s[i].sat)]
dis_usat16(c, saturate_to, r) ==
  LET s == [i \in Parts(H) |-> unsignedSatQ(SPart(H, r.n, i), saturate_to)]
  IN  [rd |-> Pack(H, [i \in Parts(H) |-> s[i].v]), cpsr |-> Sticky(c, \E i \in Parts(H) : s[i].sat)]

arm_hlp_dirty_saturating(f, c, r) ==
  CASE f.op1 = 0 -> qadd(c, r) [] f.op1 = 1 -> qsub(c, r)
    [] f.op1 = 2 -> qdadd(c, r) [] f.op1 = 3 -> qdsub(c, r)
thumb_hlp_t2_misc_saturating(f, c, r) ==
  CASE f.op2 = 0 -> qadd(c, r) [] f.op2 = 1 -> qdadd(c, r)
    [] f.op2 = 2 -> qsub(c, r) [] f.op2 = 3 -> qdsub(c, r)
arm_hlp_halfword_mult_and_mult_acc(f, c, r) ==
  CASE f.op1 = 0 -> smlaxy(c, f.b5, f.b6, r)
    [] f.op1 = 1 /\ f.b5 = 1 -> smulwy(c, f.b6, r)
    [] f.op1 = 1 /\ f.b5 = 0 -> smlawy(c, f.b6, r)
    [] f.op1 = 2 -> smlalxy(c, f.b5, f.b6, r)
    [] f.op1 = 3 -> smulxy(c, f.b5, f.b6, r)
arm_hlp_signed_multiplies(f, c, r) ==
  CASE f.op1 = 0 /\ f.ra = 15 -> smuad_smusd(c, f.b6, f.b5, r)
    [] f.op1 = 0 /\ f.ra # 15 -> smlad_smlsd(c, f.b6, f.b5, r)
    [] f.op1 = 1 -> sdiv(c, r)
    [] f.op1 = 3 -> udiv(c, r)
    [] f.op1 = 4 -> smlald_smlsld(c, f.b6, f.b5, r)
    [] f.op1 = 5 /\ f.ra = 15 -> smmul(c, f.b5, r)
    [] f.op1 = 5 /\ f.ra # 15 -> smmla_smmls(c, f.b6, f.b5, r)
    [] OTHER -> Illegal
thumb_hlp_t2_mult_A_mult_acc_A_abs_diff(f, c, r) ==
  CASE f.op1 = 1 /\ f.ra = 15 -> smulxy(c, f.b5, f.b4, r)
    [] f.op1 = 1 /\ f.ra # 15 -> smlaxy(c, f.b5, f.b4, r)
    [] f.op1 \in {2, 4} /\ f.ra = 15 -> smuad_smusd(c, T32Bit(f), f.b4, r)
    [] f.op1 \in {2, 4} /\ f.ra # 15 -> smlad_smlsd(c, T32Bit(f), f.b4, r)
    [] f.op1 = 3 /\ f.ra = 15 -> smulwy(c, f.b4, r)
    [] f.op1 = 3 /\ f.ra # 15 -> smlawy(c, f.b4, r)
    [] f.op1 = 5 /\ f.ra = 15 -> smmul(c, f.b4, r)
    [] f.op1 \in {5, 6} /\ f.ra # 15 -> smmla_smmls(c, (f.op1 \div 2) % 2, f.b4, r)
    [] f.op1 = 7 -> usad8_usada8(c, f.ra, r)
    [] OTHER -> Illegal
thumb_hlp_t2_long_mult_A_long_mult_acc_A_div(f, c, r) ==
  CASE f.op1 = 1 -> sdiv(c, r)
    [] f.op1 = 3 -> udiv(c, r)
    [] f.op1 = 4 /\ f.op2 \in 8 .. 11 -> smlalxy(c, f.b5, f.b4, r)
    [] \/ f.op1 = 4 /\ f.op2 \in 12 .. 13
       \/ f.op1 = 5 -> smlald_smlsld(c, f.op1 % 2, f.b4, r)
    [] f.op1 = 6 /\ f.op2 # 0 -> arm_hlp_umaal(c, r)
    [] OTHER -> Illegal
arm_hlp_sum_absolute_difference(f, c, r) == usad8_usada8(c, f.ra, r)
(* f.sat is the field that holds the width, f.shift_mode and f.shift_value  *)
(* those of the shift.                                                      *)
arm_hlp_saturation(f, c, r) ==
  CASE f.op1 \in {2, 3} /\ f.op2 % 2 = 0 -> dis_ssat(c, f.sat + 1, f.shift_mode, f.shift_value, r)
    [] f.op1 = 2 /\ f.op2 = 1            -> dis_ssat16(c, f.sat + 1, r)
    [] f.op1 \in {6, 7} /\ f.op2 % 2 = 0 -> dis_usat(c, f.sat, f.shift_mode, f.shift_value, r)
    [] f.op1 = 6 /\ f.op2 = 1            -> dis_usat16(c, f.sat, r)
    [] OTHER -> Illegal
t32_hlp_saturation(f, c, r) ==
  CASE f.op1 = 16 \/ (f.op1 = 18 /\ f.shift_value # 0) ->
         dis_ssat(c, f.sat + 1, f.shift_mode, f.shift_value, r)
    [] f.op1 = 18 /\ f.shift_value = 0 -> dis_ssat16(c, f.sat + 1, r)
    [] f.op1 = 24 \/ (f.op1 = 26 /\ f.shift_value # 0) ->
         dis_usat(c, f.sat, f.shift_mode, f.shift_value, r)
    [] f.op1 = 26 /\ f.shift_value = 0 -> dis_usat16(c, f.sat, r)
    [] OTHER -> Illegal

(* Long multiplications whose halves the translated code asks one by one.   *)
arm_hlp_multiply_unsigned_msb(n, m) == Stored((n * m) \div 2^W)
arm_hlp_multiply_signed_lsb(n, m) == Stored(SWord(n) * SWord(m))
arm_hlp_multiply_signed_msb(n, m) == Stored((SWord(n) * SWord(m)) \div 2^W)
arm_hlp_multiply_accumulate_unsigned_lsb(n, m, hi, lo) == Stored(n * m + lo)
arm_hlp_multiply_accumulate_signed_lsb(n, m, hi, lo) == Stored(SWord(n) * SWord(m) + hi * 2^W + lo)
arm_hlp_multiply_accumulate_unsigned_msb(n, m, hi, lo) ==
  Stored(((n * m + hi * 2^W + lo) % 2^(2 * W)) \div 2^W)
arm_hlp_multiply_accumulate_signed_msb(n, m, hi, lo) ==
  Stored((SWord(n) * SWord(m) + hi * 2^W + lo) \div 2^W)

(* Multiple transfers of floating point registers: e is the file of its     *)
(* single registers, two of which make a double one, mem the memory as      *)
(* words.  f.imm8 counts words, an odd one with double registers moves the  *)
(* base one word further than what is transferred.                          *)
First(f)  == IF f.is_64 THEN 2 * (16 * f.D + f.vd) ELSE 2 * f.vd + f.D
Moved(f)  == IF f.is_64 THEN 2 * (f.imm8 \div 2) ELSE f.imm8
Lowest(f, base) == IF f.add THEN base ELSE base - f.imm8
NewBase(f, base) == IF ~f.w THEN base ELSE IF f.add THEN base + f.imm8 ELSE base - f.imm8
vstm(f, base, e, mem) ==
  [base |-> NewBase(f, base),
   mem  |-> [a \in DOMAIN mem |-> LET i == a - Lowest(f, base)
                                  IN  IF i \in 0 .. Moved(f) - 1 THEN e[First(f) + i] ELSE mem[a]]]
vldm(f, base, e, mem) ==
  [base |-> NewBase(f, base),
   e    |-> [d \in DOMAIN e |-> LET i == d - First(f)
                                IN  IF i \in 0 .. Moved(f) - 1 THEN mem[Lowest(f, base) + i] ELSE e[d]]]
=============================================================================
