------------------------------ MODULE DspLaws ------------------------------
(* What the instructions on core registers promise, against exact           *)
(* arithmetic and against each other: each exists in an arm and in a thumb  *)
(* encoding whose fields are in different places, and the flags are         *)
(* computed by five helpers.  The words are made of the bytes x, y and z of *)
(* the input.                                                               *)
EXTENDS SimdLaws

CONSTANT P                                  \* bits of a byte of a word

Dsp == INSTANCE ArmFlags

(* The words of the backends have three bytes.                              *)
Code == INSTANCE CodeGen WITH W8 <- B, W16 <- B + B \div 4, W32 <- B + B \div 2

H == Dsp!H
W == Dsp!W
WByte(v) == IF v < 2 THEN v ELSE (v * 2^P) \div 2^B
WordOf(a, b, c, d) == WByte(a) + WByte(b) * 2^P + WByte(c) * 2^(2 * P) + WByte(d) * 2^(3 * P)
NWords == {WordOf(x, y, z, y), WordOf(x, x, x, z), WordOf(x, z, x, z)}
MWords == {WordOf(y, y, y, y), WordOf(x, z, x, z), WordOf(z, x, y, z), WordOf(y, y, y, z)}

(* The exact result of part i of a parallel instruction op2 (0 add16, 1     *)
(* asx, 2 sax, 3 sub16, 4 add8, 7 sub8).                                    *)
ParallelOps == {0, 1, 2, 3, 4, 7}
ThumbOp == (0 :> 1) @@ (1 :> 2) @@ (2 :> 6) @@ (3 :> 5) @@ (4 :> 0) @@ (7 :> 4)
PartWidth(op2) == IF op2 \in {4, 7} THEN P ELSE H
Subtracts(op2, i) == op2 \in {3, 7} \/ (op2 = 1 /\ i = 0) \/ (op2 = 2 /\ i = 1)
Exact(signed, op2, n, m, i) ==
  LET w == PartWidth(op2)
      Read(v, j) == IF signed THEN Dsp!SPart(w, v, j) ELSE Dsp!UPart(w, v, j)
      other == Read(m, IF op2 \in {1, 2} THEN 1 - i ELSE i)
  IN  Read(n, i) + (IF Subtracts(op2, i) THEN -other ELSE other)
ParallelIsExact(signed, n, m) ==
  \A op1 \in 1 .. 3, op2 \in ParallelOps, q \in BOOLEAN :
    LET c == [q |-> q, ge |-> {1}]
        arm == [op1 |-> op1, op2 |-> op2]
        t32 == [op1 |-> ThumbOp[op2], op2 |-> op1 - 1]
        r == IF signed THEN Dsp!arm_hlp_signed_parallel(arm, c, n, m)
                       ELSE Dsp!arm_hlp_unsigned_parallel(arm, c, n, m)
        w == PartWidth(op2)
        lo == IF signed THEN -(2^(w - 1)) ELSE 0
    IN  /\ r = IF signed THEN Dsp!thumb_hlp_t2_signed_parallel(t32, c, n, m)
                         ELSE Dsp!thumb_hlp_t2_unsigned_parallel(t32, c, n, m)
        /\ r.cpsr.q = q /\ (op1 # 1 => r.cpsr = c)
        /\ \A i \in Dsp!Parts(w) :
             LET e == Exact(signed, op2, n, m, i)
                 u == Dsp!UPart(w, r.rd, i)
                 v == IF signed THEN Dsp!SPart(w, r.rd, i) ELSE u
             IN  CASE op1 = 1 -> /\ u = e % 2^w
                                 /\ \A b \in Dsp!Parts(P) : (b \div (w \div P) = i) =>
                                      (b \in r.cpsr.ge <=>
                                         IF signed \/ Subtracts(op2, i) THEN e >= 0 ELSE e # u)
                   [] op1 = 2 -> IF e \in lo .. lo + 2^w - 1 THEN v = e
                                 ELSE v = IF e < lo THEN lo ELSE lo + 2^w - 1
                   [] op1 = 3 -> (e - 2 * u) % 2^(w + 1) \in {0, 1}
(* A subtraction followed by sel takes the greater of every two parts.      *)
SelectsGreater(signed, op2, n, m) ==
  LET c == [q |-> FALSE, ge |-> {}]
      f == [op1 |-> 1, op2 |-> op2]
      s == IF signed THEN Dsp!arm_hlp_signed_parallel(f, c, n, m)
                     ELSE Dsp!arm_hlp_unsigned_parallel(f, c, n, m)
      w == PartWidth(op2)
      Read(v, i) == IF signed THEN Dsp!SPart(w, v, i) ELSE Dsp!UPart(w, v, i)
  IN  \A i \in Dsp!Parts(w) :
        Read(Dsp!arm_hlp_sel(s.cpsr.ge, n, m), i) = Max({Read(n, i), Read(m, i)})

(* Multiplications: a single result is the exact value cut to a word, the   *)
(* sticky flag is raised when that loses something and kept otherwise; a    *)
(* double one is the exact value cut to two words.                          *)
S(v) == Dsp!SWord(v)
Cut(r, c, exact, reports) ==
  r = [rd |-> exact % 2^W, cpsr |-> [c EXCEPT !.q = @ \/ (reports /\ exact # S(exact))]]
Both(r, c, exact) == (r.hi * 2^W + r.lo - exact) % 2^(2 * W) = 0 /\ r.cpsr.ge = c.ge
Fields(op1, op2, b4, b5, b6, ra) ==
  [op1 |-> op1, op2 |-> op2, b4 |-> b4, b5 |-> b5, b6 |-> b6, ra |-> ra]
Bits == {0, 1}
Sum(is_sub, p, q) == IF is_sub = 1 THEN p - q ELSE p + q
MultipliesAreExact(c, r) ==
  LET Hw(f) == Dsp!arm_hlp_halfword_mult_and_mult_acc(f, c, r)
      Sm(f) == Dsp!arm_hlp_signed_multiplies(f, c, r)
      T(f)  == Dsp!thumb_hlp_t2_mult_A_mult_acc_A_abs_diff(f, c, r)
      L(f)  == Dsp!thumb_hlp_t2_long_mult_A_long_mult_acc_A_div(f, c, r)
      Half16(v, i) == Dsp!SPart(H, v, i)
      acc == r.hi * 2^W + r.lo
      n == S(r.n)
      m == S(r.m)
  IN  /\ \A i \in Bits, j \in Bits :
           LET p == Half16(r.n, i) * Half16(r.m, j) IN
           /\ Cut(Hw(Fields(0, 0, 0, i, j, 0)), c, p + S(r.a), TRUE)
           /\ Cut(Hw(Fields(3, 0, 0, i, j, 0)), c, p, TRUE)
           /\ Both(Hw(Fields(2, 0, 0, i, j, 0)), c, p + acc)
           /\ T(Fields(1, 0, j, i, 0, 0)) = Hw(Fields(0, 0, 0, i, j, 0))
           /\ T(Fields(1, 0, j, i, 0, 15)) = Hw(Fields(3, 0, 0, i, j, 0))
           /\ L(Fields(4, 8 + 2 * i + j, j, i, 0, 0)) = Hw(Fields(2, 0, 0, i, j, 0))
      /\ \A j \in Bits :
           LET p == n * Half16(r.m, j) IN
           /\ Cut(Hw(Fields(1, 0, 0, 1, j, 0)), c, p \div 2^H, TRUE)
           /\ Cut(Hw(Fields(1, 0, 0, 0, j, 0)), c, p \div 2^H + S(r.a), TRUE)
           /\ T(Fields(3, 0, j, 0, 0, 15)) = Hw(Fields(1, 0, 0, 1, j, 0))
           /\ T(Fields(3, 0, j, 0, 0, 0)) = Hw(Fields(1, 0, 0, 0, j, 0))
      /\ \A is_sub \in Bits, k \in Bits :
           LET p == Sum(is_sub, Half16(r.n, 0) * Half16(r.m, k), Half16(r.n, 1) * Half16(r.m, 1 - k))
               top == Sum(is_sub, r.a * 2^W, n * m) + k * 2^(W - 1)
           IN
           /\ Cut(Sm(Fields(0, 0, 0, k, is_sub, 15)), c, p, TRUE)
           /\ Cut(Sm(Fields(0, 0, 0, k, is_sub, 0)), c, p + S(r.a), TRUE)
           /\ Both(Sm(Fields(4, 0, 0, k, is_sub, 0)), c, p + acc)
           /\ Sm(Fields(5, 0, 0, k, is_sub, 0)) = [rd |-> (top \div 2^W) % 2^W, cpsr |-> c]
           /\ T(Fields(2 + 2 * is_sub, 0, k, 0, 0, 15)) = Sm(Fields(0, 0, 0, k, is_sub, 15))
           /\ T(Fields(2 + 2 * is_sub, 0, k, 0, 0, 0)) = Sm(Fields(0, 0, 0, k, is_sub, 0))
           /\ L(Fields(4 + is_sub, 12 + k, k, 0, 0, 0)) = Sm(Fields(4, 0, 0, k, is_sub, 0))
           /\ T(Fields(5 + is_sub, 0, k, 0, 0, 0)) = Sm(Fields(5, 0, 0, k, is_sub, 0))
      \* the rounded upper half of a product is its nearest multiple
      /\ \A k \in Bits :
           LET t == Sm(Fields(5, 0, 0, k, 0, 15)) IN
           /\ t = T(Fields(5, 0, k, 0, 0, 15)) /\ t.cpsr = c
           /\ n * m - S(t.rd) * 2^W + k * 2^(W - 1) \in 0 .. 2^W - 1
      \* two words can be added to a product without loss
      /\ LET u == L(Fields(6, 6, 0, 0, 0, 0)) IN u.hi * 2^W + u.lo = r.n * r.m + r.hi + r.lo
      /\ \A ra \in {0, 15} : Dsp!arm_hlp_sum_absolute_difference(Fields(0, 0, 0, 0, 0, ra), c, r)
                               = T(Fields(7, 0, 0, 0, 0, ra))
(* The halves that translated code asks for one by one are those of one     *)
(* product.                                                                 *)
HalvesMatch(n, m, hi, lo) ==
  LET Two(h, l) == h * 2^W + l
      Same2(v, exact) == (v - exact) % 2^(2 * W) = 0
  IN  /\ Two(Dsp!arm_hlp_multiply_unsigned_msb(n, m), (n * m) % 2^W) = n * m
      /\ Same2(Two(Dsp!arm_hlp_multiply_signed_msb(n, m), Dsp!arm_hlp_multiply_signed_lsb(n, m)), S(n) * S(m))
      /\ Same2(Two(Dsp!arm_hlp_multiply_accumulate_unsigned_msb(n, m, hi, lo),
                   Dsp!arm_hlp_multiply_accumulate_unsigned_lsb(n, m, hi, lo)), n * m + Two(hi, lo))
      /\ Same2(Two(Dsp!arm_hlp_multiply_accumulate_signed_msb(n, m, hi, lo),
                   Dsp!arm_hlp_multiply_accumulate_signed_lsb(n, m, hi, lo)), S(n) * S(m) + Two(hi, lo))

(* A quotient is rounded to zero: the remainder is smaller than the divisor *)
(* and has the sign of the dividend.                                        *)
Abs(v) == IF v < 0 THEN -v ELSE v
QuotientsAreTruncated(c, r) ==
  LET f(op1) == Fields(op1, 0, 0, 0, 0, 0)
      Q(op1) == Dsp!arm_hlp_signed_multiplies(f(op1), c, r).rd
      rest == S(r.n) - S(Q(1)) * S(r.m)
  IN  /\ \A op1 \in {1, 3} : Dsp!thumb_hlp_t2_long_mult_A_long_mult_acc_A_div(f(op1), c, r)
                               = Dsp!arm_hlp_signed_multiplies(f(op1), c, r)
      /\ IF r.m = 0 THEN Q(1) = 0 /\ Q(3) = 0
         ELSE /\ r.n - Q(3) * r.m \in 0 .. r.m - 1
              /\ \/ Abs(rest) < Abs(S(r.m)) /\ (rest = 0 \/ (rest < 0) = (S(r.n) < 0))
                 \/ S(r.n) = -(2^(W - 1)) /\ S(r.m) = -1 /\ Q(1) = r.n

(* Saturating arithmetic takes the nearest value of the range and reports,  *)
(* stickily, that it did.                                                   *)
Nearest(r, c, exact, lo, hi) ==
  r = [rd |-> Clamp(exact, lo, hi) % 2^W, cpsr |-> [c EXCEPT !.q = @ \/ exact \notin lo .. hi]]
SaturatingIsNearest(c, r) ==
  LET lo == -(2^(W - 1))
      hi == 2^(W - 1) - 1
      A(op1) == Dsp!arm_hlp_dirty_saturating(Fields(op1, 0, 0, 0, 0, 0), c, r)
      T(op2) == Dsp!thumb_hlp_t2_misc_saturating(Fields(0, op2, 0, 0, 0, 0), c, r)
      twice == Clamp(2 * S(r.n), lo, hi)
      c2 == [c EXCEPT !.q = @ \/ twice # 2 * S(r.n)]
      Sat(op1, op2, width, mode, value) ==
        [op1 |-> op1, op2 |-> op2, sat |-> width, shift_mode |-> mode, shift_value |-> value]
      As(f) == Dsp!arm_hlp_saturation(f, c, r)
      Ts(f) == Dsp!t32_hlp_saturation(f, c, r)
  IN  /\ Nearest(A(0), c, S(r.m) + S(r.n), lo, hi) /\ Nearest(A(1), c, S(r.m) - S(r.n), lo, hi)
      /\ Nearest(A(2), c2, S(r.m) + twice, lo, hi) /\ Nearest(A(3), c2, S(r.m) - twice, lo, hi)
      /\ T(0) = A(0) /\ T(1) = A(2) /\ T(2) = A(1) /\ T(3) = A(3)
      /\ \A width \in {1, P, W - 1}, mode \in {0, 2}, value \in {0, 1, H} :
           LET exact == IF mode = 0 THEN S(r.n * 2^value)
                        ELSE IF value # 0 THEN S(r.n) \div 2^value
                        ELSE IF S(r.n) < 0 THEN -1 ELSE 0
               s == Sat(3, 2 * mode, width - 1, mode, value)
               u == Sat(7, 2 * mode, width, mode, value)
           IN  /\ Nearest(As(s), c, exact, -(2^(width - 1)), 2^(width - 1) - 1)
               /\ Nearest(As(u), c, exact, 0, 2^width - 1)
               /\ (mode = 0 \/ value # 0) =>
                    /\ Ts(Sat(16 + mode, 0, width - 1, mode, value)) = As(s)
                    /\ Ts(Sat(24 + mode, 0, width, mode, value)) = As(u)
      \* halfwords: each half is the nearest value of that width
      /\ \A width \in {1, P, H - 1} :
           LET s == As(Sat(2, 1, width - 1, 0, 0))
               u == As(Sat(6, 1, width, 0, 0))
               Part16(i) == Dsp!SPart(H, r.n, i)
               In(i, l) == Part16(i) \in l .. l + 2^width - 1
               l16 == -(2^(width - 1))
           IN  /\ Ts(Sat(18, 0, width - 1, 2, 0)) = s /\ Ts(Sat(26, 0, width, 2, 0)) = u
               /\ \A i \in {0, 1} :
                    /\ Dsp!SPart(H, s.rd, i) = Clamp(Part16(i), l16, l16 + 2^width - 1)
                    /\ Dsp!UPart(H, u.rd, i) = Clamp(Part16(i), 0, 2^width - 1)
               /\ s.cpsr.q = (c.q \/ \E i \in {0, 1} : ~In(i, l16))
               /\ u.cpsr.q = (c.q \/ \E i \in {0, 1} : ~In(i, 0))

(* A vpush followed by a vpop of as many registers gives them and the base  *)
(* back, whatever happened to the registers in between, and touches no      *)
(* other register or word.                                                  *)
PushPop(n, m) ==
  LET e == [d \in 0 .. 63 |-> (n + d * m) % 2^W]
      mem == [a \in -8 .. 8 |-> (m + a) % 2^W]
  IN  \A is_64 \in BOOLEAN, D \in Bits, imm8 \in {2, 5} :
        LET f(add) == [is_64 |-> is_64, D |-> D, vd |-> 3, imm8 |-> imm8, add |-> add, w |-> TRUE]
            push == Dsp!vstm(f(FALSE), 0, e, mem)
            moved == IF is_64 THEN 2 * (imm8 \div 2) ELSE imm8
            lost == [d \in 0 .. 63 |-> IF d - Dsp!First(f(TRUE)) \in 0 .. moved - 1 THEN 0 ELSE e[d]]
            pop == Dsp!vldm(f(TRUE), push.base, lost, push.mem)
        IN  /\ pop = [base |-> 0, e |-> e]
            /\ \A a \in DOMAIN mem : a \notin push.base .. -1 => push.mem[a] = mem[a]

(* The flags every helper computes for a comparison of n and m, and what    *)
(* the conditions then say of them.                                         *)
FlagSets == [n : {0}, z : {0}, c : Bits, v : Bits]
Comparisons(n, m, s) ==
  {Dsp!arm_hlp_compute_next_flags(opcode, 0, n, m, s) : opcode \in {2, 10}}
    \cup {Dsp!arm_hlp_compute_next_flags(3, 0, m, n, s)}
    \cup {Dsp!thumb_hlp_compute_next_flags(opcode, 0, n, m, s) : opcode \in {13, 15, 20, 28}}
    \cup {Dsp!thumb_hlp_compute_next_flags_data_processing(10, n, m, s),
          Dsp!thumb_hlp_t2_modified_compute_next_flags(13, 0, n, m, s),
          Dsp!thumb_hlp_t2_modified_compute_next_flags(14, 0, m, n, s),
          Dsp!arm64_hlp_compute_next_nzcv_32("OPS_SUB", n, m, s)}
Meaning(cond, n, m) ==
  CASE cond = 0 -> n = m [] cond = 2 -> n >= m [] cond = 8 -> n > m
    [] cond = 10 -> S(n) >= S(m) [] cond = 12 -> S(n) > S(m)
ComparisonsDecide(n, m, s) ==
  \A t \in Comparisons(n, m, s) : \A cond \in {0, 2, 8, 10, 12} :
    /\ Dsp!arm64_hlp_compute_flags_pred(cond, t) = Flag(Meaning(cond, n, m))
    /\ Dsp!arm64_hlp_compute_flags_pred(cond + 1, t) = Flag(~Meaning(cond, n, m))
    /\ Dsp!arm_hlp_compute_flags_pred(cond, t) = Flag(~Meaning(cond, n, m))
    /\ Dsp!arm_hlp_compute_flags_pred(cond + 1, t) = Flag(Meaning(cond, n, m))

(* Two words added (subtracted) low part first, the carry passed on, leave  *)
(* the flags of the addition (subtraction) of twice the width, but Z.       *)
AddWords(n, m, s) ==
  {Dsp!arm_hlp_compute_next_flags(4, 0, n, m, s), Dsp!thumb_hlp_compute_next_flags(12, 0, n, m, s),
   Dsp!thumb_hlp_compute_next_flags_data_processing(11, n, m, s),
   Dsp!thumb_hlp_t2_modified_compute_next_flags(8, 0, n, m, s),
   Dsp!arm64_hlp_compute_next_nzcv_32("OPS_ADD", n, m, s)}
AddCarried(n, m, s) ==
  {Dsp!arm_hlp_compute_next_flags(5, 0, n, m, s),
   Dsp!thumb_hlp_compute_next_flags_data_processing(5, n, m, s),
   Dsp!thumb_hlp_t2_modified_compute_next_flags(10, 0, n, m, s),
   Dsp!arm64_hlp_compute_next_nzcv_32("OPS_ADC", n, m, s)}
SubBorrowed(n, m, s) ==
  {Dsp!arm_hlp_compute_next_flags(6, 0, n, m, s), Dsp!arm_hlp_compute_next_flags(7, 0, m, n, s),
   Dsp!thumb_hlp_compute_next_flags_data_processing(6, n, m, s),
   Dsp!thumb_hlp_t2_modified_compute_next_flags(11, 0, n, m, s)}
CarriesChain(n, m, low_n, low_m, s) ==
  LET Wide2(h, l) == h * 2^W + l
      sum  == Dsp!arm64_hlp_compute_next_nzcv_64("OPS_ADD", Wide2(n, low_n), Wide2(m, low_m), s)
      diff == Dsp!arm64_hlp_compute_next_nzcv_64("OPS_SUB", Wide2(n, low_n), Wide2(m, low_m), s)
      Like(t, wide) == t.n = wide.n /\ t.c = wide.c /\ t.v = wide.v
  IN  /\ \A low \in AddWords(low_n, low_m, s) : \A t \in AddCarried(n, m, low) : Like(t, sum)
      /\ \A low \in Comparisons(low_n, low_m, s) : \A t \in SubBorrowed(n, m, low) : Like(t, diff)
      /\ \A t \in AddWords(n, m, s) :
           /\ t.c = Flag(n + m >= 2^W) /\ t.z = Flag((n + m) % 2^W = 0)
           /\ t.v = Flag(S(n) + S(m) \notin -(2^(W - 1)) .. 2^(W - 1) - 1)

(* The carry of a shift is the last bit shifted out: of the value extended  *)
(* without bound by zeros, by its sign, or by itself.                       *)
LastOut(mode, v, k) ==
  CASE mode = 0 -> ((v * 2^k) \div 2^W) % 2
    [] mode = 1 -> (v \div 2^(k - 1)) % 2
    [] mode = 2 -> (S(v) \div 2^(k - 1)) % 2
    [] mode = 3 -> ((v * 2^W + v) \div 2^((k - 1) % W)) % 2
ShiftsCarry(v, s) ==
  /\ \A mode \in 0 .. 3, by_register \in BOOLEAN, k \in {1, 2, H, W - 1, W, W + 1, W + 3} :
       (by_register \/ k <= W) =>
         LET sco == Dsp!arm_hlp_compute_sco(mode, by_register, v, k, s)
             opcode == IF mode = 3 THEN 7 ELSE 2 + mode
         IN  /\ sco = LastOut(mode, v, k)
             /\ Dsp!thumb_hlp_compute_next_flags_data_processing(opcode, v, k, s).c = sco
             /\ k < W => Dsp!thumb_t2_hlp_compute_sco(mode, v, k, s) = sco
  /\ \A mode \in 0 .. 3 :
       /\ Dsp!arm_hlp_compute_sco(mode, TRUE, v, 8 * W, s) = s.c
       /\ Dsp!arm_hlp_compute_sco(mode, FALSE, v, 0, s) = Dsp!thumb_t2_hlp_compute_sco(mode, v, 0, s)
       /\ LET t == Dsp!thumb_hlp_compute_next_flags_data_processing(IF mode = 3 THEN 7 ELSE 2 + mode, v, 0, s)
          IN  t = [n |-> Flag(S(v) < 0), z |-> Flag(v = 0), c |-> s.c, v |-> s.v]
LogicAgrees(n, m, sco, s) ==
  \A p \in {<<0, 0>>, <<1, 4>>, <<12, 2>>, <<14, 1>>} :
    LET t == Dsp!arm_hlp_compute_next_flags(p[1], sco, n, m, s)
    IN  /\ t = Dsp!thumb_hlp_t2_modified_compute_next_flags(p[2], sco, n, m, s)
        /\ t.c = sco /\ t.v = s.v
        /\ [t EXCEPT !.c = s.c] = Dsp!thumb_hlp_compute_next_flags_data_processing(p[1], n, m, s)

(* A bit field move, bit by bit: the field moved down to bit 0, or up from  *)
(* it; around it zeros, the sign, or what the destination held.             *)
BitField(kind, R, T, n, d) ==
  LET r == Dsp!arm64_hlp_compute_bitfield(kind, W, R, T, n, d)
      low == IF T >= R THEN 0 ELSE W - R
      high == IF T >= R THEN T - R ELSE W - R + T
  IN  \A i \in 0 .. W - 1 :
        Bit(r, i) = CASE i \in low .. high -> Bit(n, i - low + (IF T >= R THEN R ELSE 0))
                      [] i > high -> (CASE kind = "SBFM" -> Bit(n, T) [] kind = "BFM" -> Bit(d, i)
                                        [] kind = "UBFM" -> 0)
                      [] i < low -> IF kind = "BFM" THEN Bit(d, i) ELSE 0
CountsAgree(n) ==
  LET k == Dsp!arm_hlp_clz(n)
      sign == Bit(n, W - 1)
  IN  /\ k = Dsp!arm64_hlp_clz(n, W - 1)
      /\ IF n = 0 THEN k = W ELSE n \in 2^(W - 1 - k) .. 2^(W - k) - 1
      /\ Dsp!arm64_hlp_cls(n, W - 1)
           = Dsp!arm64_hlp_clz(IF sign = 1 THEN Complement(W, n) ELSE n, W - 1) - 1

(* The instructions on core registers compute what exact arithmetic says,   *)
(* cut, halved, saturated or rounded to zero as the instruction does it,    *)
(* raise GE and the sticky Q exactly when they have to, and do the same in  *)
(* their arm and thumb encodings (arm_helpers.c).  The flags recovered from *)
(* truncated results are those of the exact operation in every helper that  *)
(* computes them: comparisons decide every condition, carries chain, the    *)
(* shifter reports the last bit shifted out (arm_hlp_compute_next_flags and *)
(* its relatives, arm64_helpers.c); bit fields land where they belong       *)
(* (arm64_hlp_compute_bitfield).                                            *)
CoreArithmetic ==
  [][\A n \in NWords, m \in MWords :
       /\ \A signed \in BOOLEAN :
            /\ ParallelIsExact(signed, n, m)
            /\ \A op2 \in {3, 7} : SelectsGreater(signed, op2, n, m)
       /\ PushPop(n, m)
       /\ \A a \in {n, WordOf(z, y, x, z)}, q \in BOOLEAN :
            LET r == [n |-> n, m |-> m, a |-> a, hi |-> a, lo |-> WordOf(y, x, z, y)]
                c == [q |-> q, ge |-> {0}]
            IN  /\ MultipliesAreExact(c, r) /\ QuotientsAreTruncated(c, r)
                /\ SaturatingIsNearest(c, r) /\ HalvesMatch(n, m, r.hi, r.lo)
       /\ \A s \in FlagSets :
            /\ ComparisonsDecide(n, m, s) /\ ComparisonsDecide(n, n, s)
            /\ CarriesChain(n, m, WordOf(z, y, x, z), WordOf(y, x, z, y), s)
            /\ CarriesChain(n, m, n, n, s)
            /\ ShiftsCarry(n, s) /\ LogicAgrees(n, m, 1 - s.c, s)
            /\ s.c = s.v => /\ CountsAgree(n)
                            /\ \A kind \in {"BFM", "SBFM", "UBFM"} :
                                 \A R \in {0, 1, H, W - 1}, T \in {0, H, W - 2, W - 1} : BitField(kind, R, T, n, m)]_vars

HostWord(a, b, c) == a + b * 2^B + c * 2^(2 * B)

(* The code that either backend generates for an instruction of the IR      *)
(* computes what the instruction means, in every width, on registers whose  *)
(* unused bits are anything unless the instruction needs them clear         *)
(* (gen_binop, gen_cast, gen_ite, gen_load and their kin in be_x86_64.c and *)
(* be_i386.c, and the arithmetic shifts that allocateInstructions expands). *)
CodeComputesIr ==
  [][LET a == HostWord(x, y, z)
     IN  \A b \in {HostWord(z, x, y), HostWord(y, y, x), HostWord(x, y, z), HostWord(x, y, x)}, w \in Code!Widths :
           /\ \A type \in Code!Binops \ Code!Shifts : Code!BinopComputes(type, w, a, b)
           /\ \A type \in Code!Shifts, n \in 0 .. w - 1 :
                Code!BinopComputes(type, w, a, n + (b \div 2^B) * 2^B)
           /\ \A signed \in BOOLEAN, to \in Code!Widths \ {w} : Code!CastComputes(signed, w, to, a)
           /\ Code!IteComputes(w, b, a, HostWord(z, z, y)) /\ Code!MemoryComputes(w, b, a)]_vars
=============================================================================
