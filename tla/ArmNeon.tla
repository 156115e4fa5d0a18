------------------------------ MODULE ArmNeon ------------------------------
(* The vector integer instructions of the arm guest (its arm and its thumb  *)
(* encodings share them), as the helpers of arm_helpers.c compute them.     *)
(* The file of 32 D registers is read and written one D register at a time, *)
(* reg_nb of them: an operand is the function of the bytes from its first D *)
(* register on, a result the function of the bytes written and no other.    *)
(* f is the form (Lanes): f.a, f.b and f.U are the fields of the encoding   *)
(* that select the operation, f.imm the decoded immediate.  Lengthening and *)
(* narrowing instructions have no Q bit: they go between one D register and *)
(* a pair of them.  qc is bit 27 of fpscr.                                  *)
EXTENDS Lanes

DBytes == 0 .. HalfLanes(0) - 1                  \* of a D register
Written(f) == IF f.q = 1 THEN Bytes ELSE DBytes
DForm(f) == [f EXCEPT !.q = 0]
Vec(f, Op(_)) == LET r == Each(f, Op) IN [b \in Written(f) |-> r[b]]
VecSat(f, Sat(_, _), Op(_)) ==
  LET r == EachSat(f, Sat, Op) IN [v |-> [b \in Written(f) |-> r.v[b]], qc |-> r.qc]
(* From D registers to a pair, and from a pair to a D register.             *)
LongD(f, Op(_)) == Long(DForm(f), Op)
LongDSat(f, Sat(_, _), Op(_)) == LongSat(DForm(f), Sat, Op)
NarrowD(f, Op(_)) == Vec(DForm(f), Op)
NarrowDSat(f, Sat(_, _), Op(_)) == VecSat(DForm(f), Sat, Op)

abs(x) == IF x < 0 THEN -x ELSE x
smax(x, y) == IF x > y THEN x ELSE y
smin(x, y) == IF x < y THEN x ELSE y
usat(w, x)   == Saturated(w, x, 0, Ones(w))
usat_u(w, x) == Saturated(w, x, 0, Ones(w))
ssat(w, x)   == Saturated(w, x, -(2^(w - 1)), 2^(w - 1) - 1)
SUB(is_sub, x) == IF is_sub = 1 THEN -x ELSE x
ROUND(is_round, n) == IF is_round = 1 THEN 2^(n - 1) ELSE 0
Shr(x, n) == x \div 2^n
(* Saturations of the arm helpers: by the sign of the lanes.                *)
XSat(f, w, x) == IF f.U = 1 THEN usat(w, x) ELSE ssat(w, x)
Illegal == [illegal |-> TRUE]

LowestByte == -(2^(B - 1))
ushl(val, shift, is_round) ==
  CASE shift = LowestByte -> 0
    [] shift >= 0 -> val * 2^smin(shift, B * 2^LogD)
    [] OTHER -> Shr(val + ROUND(is_round, -shift), -shift)
sshl(val, shift, is_round) ==
  CASE shift = LowestByte -> IF is_round = 1 \/ val >= 0 THEN 0 ELSE -1
    [] shift >= 0 -> val * 2^smin(shift, B * 2^LogD)
    [] OTHER -> Shr(val + ROUND(is_round, -shift), -shift)
cls(w, op) == LET differ == {i \in 0 .. w - 2 : Bit(op, i) # Bit(op, w - 1)}
              IN  IF differ = {} THEN w - 1 ELSE w - 2 - Max(differ)
clz(w, op) == LET set == {i \in 0 .. w - 1 : Bit(op, i) = 1}
              IN  IF set = {} THEN w ELSE w - 1 - Max(set)
cnt(w, op) == Cardinality({i \in 0 .. w - 1 : Bit(op, i) = 1})
polynomial_16(op1, op2) ==
  FoldSet(LAMBDA i, acc : acc ^^ (op2 * 2^i), 0, {i \in 0 .. 2 * B - 1 : Bit(op1, i) = 1})

(* Three registers of the same length.                                      *)
dis_common_vqadd_vqsub_simd(f, vn, vm, is_sub) ==
  VecSat(f, LAMBDA w, x : XSat(f, w, x), LAMBDA i : XLane(f, vn, i) + SUB(is_sub, XLane(f, vm, i)))
(* Slip: the sum is kept in the width of the lane before it is halved.      *)
HalvesStoredSum(f, vn, vm, is_round) ==
  Vec(f, LAMBDA i : Shr(Store(Width(f.size), XLane(f, vn, i) + SUB(Bit(f.a, 1), XLane(f, vm, i)) + is_round), 1))
dis_common_vhadd_vhsub_vrhadd_simd(f, vn, vm, is_round) ==
  Vec(f, LAMBDA i : Shr(XLane(f, vn, i) + SUB(Bit(f.a, 1), XLane(f, vm, i)) + is_round, 1))
(* The shifted lane is that of m, the distance the low byte of that of n.   *)
Shifted(f, vn, vm, i, is_round) ==
  LET shift == Signed(B, Store(B, ULane(f, vn, i)))
  IN  IF f.U = 1 THEN ushl(ULane(f, vm, i), shift, is_round)
                 ELSE sshl(SLane(f, vm, i), shift, is_round)
dis_common_vqshl_vqrshl_simd(f, vn, vm, is_round) ==
  VecSat(f, LAMBDA w, x : XSat(f, w, x), LAMBDA i : Shifted(f, vn, vm, i, is_round))
dis_common_vshl_vrshl_simd(f, vn, vm, is_round) ==
  Vec(f, LAMBDA i : Shifted(f, vn, vm, i, is_round))
dis_common_vmax_vmin_simd(f, vn, vm) ==
  Vec(f, LAMBDA i : IF f.b = 1 THEN smin(XLane(f, vn, i), XLane(f, vm, i))
                               ELSE smax(XLane(f, vn, i), XLane(f, vm, i)))
dis_common_vaba_vabd_simd(f, vd, vn, vm) ==
  Vec(f, LAMBDA i : f.b * ULane(f, vd, i) + abs(XLane(f, vn, i) - XLane(f, vm, i)))
Mask(f, Holds(_)) == Vec(f, LAMBDA i : IF Holds(i) THEN Ones(Width(f.size)) ELSE 0)
dis_common_tst_simd(f, vn, vm) == Mask(f, LAMBDA i : ULane(f, vn, i) & ULane(f, vm, i) # 0)
(* The comparisons VCXX_SIMD declares: with a register, or of m with zero.  *)
VCXX_SIMD(f, vn, vm, is_zero, Op(_, _)) ==
  Mask(f, LAMBDA i : IF is_zero THEN Op(XLane(f, vm, i), 0) ELSE Op(XLane(f, vn, i), XLane(f, vm, i)))
dis_common_vcge_all_simd(f, vn, vm, z) == VCXX_SIMD(f, vn, vm, z, LAMBDA x, y : x >= y)
dis_common_vcgt_all_simd(f, vn, vm, z) == VCXX_SIMD(f, vn, vm, z, LAMBDA x, y : x > y)
dis_common_vceq_all_simd(f, vn, vm, z) == VCXX_SIMD(f, vn, vm, z, LAMBDA x, y : x = y)
dis_common_vcle_all_simd(f, vn, vm, z) == VCXX_SIMD(f, vn, vm, z, LAMBDA x, y : x <= y)
dis_common_vclt_all_simd(f, vn, vm, z) == VCXX_SIMD(f, vn, vm, z, LAMBDA x, y : x < y)
dis_common_vadd_vsub_simd(f, vn, vm) ==
  Vec(f, LAMBDA i : ULane(f, vn, i) + SUB(f.U, ULane(f, vm, i)))
dis_common_vmul_polynomial_simd(f, vn, vm) ==
  Vec([f EXCEPT !.size = 0], LAMBDA i : polynomial_16(vn[i], vm[i]))
dis_common_vmul_integer_simd(f, vn, vm) == Vec(f, LAMBDA i : ULane(f, vn, i) * ULane(f, vm, i))
dis_common_vmla_vmls_simd(f, vd, vn, vm) ==
  Vec(f, LAMBDA i : ULane(f, vd, i) + SUB(f.U, ULane(f, vn, i) * ULane(f, vm, i)))
(* Neighbouring lanes of D register n, then those of m.                     *)
Pairs(f, vn, vm, Op(_, _)) ==
  LET n == HalfLanes(f.size) \div 2
  IN  Vec(DForm(f), LAMBDA i : IF i < n THEN Op(XLane(f, vn, 2 * i), XLane(f, vn, 2 * i + 1))
                               ELSE Op(XLane(f, vm, 2 * (i - n)), XLane(f, vm, 2 * (i - n) + 1)))
dis_common_vpmin_simd(f, vn, vm) == Pairs(f, vn, vm, smin)
dis_common_vpmax_simd(f, vn, vm) == Pairs(f, vn, vm, smax)
dis_common_vpadd_simd(f, vn, vm) == Pairs(f, vn, vm, LAMBDA x, y : x + y)
DoublingHigh(f, x, y, is_round) ==
  Shr(2 * x * y + ROUND(is_round, Width(f.size)), Width(f.size))
dis_common_vqdmulh_vqrdmulh_simd(f, vn, vm, is_round) ==
  VecSat(f, ssat, LAMBDA i : DoublingHigh(f, SLane(f, vn, i), SLane(f, vm, i), is_round))
hlp_common_adv_simd_three_same_length(f, vd, vn, vm) ==
  CASE f.a = 0 -> IF f.b = 1 THEN dis_common_vqadd_vqsub_simd(f, vn, vm, 0)
                  ELSE NoQc(dis_common_vhadd_vhsub_vrhadd_simd(f, vn, vm, 0))
    [] f.a = 1 -> IF f.b = 1 THEN Illegal   \* the bitwise ones are translated
                  ELSE NoQc(dis_common_vhadd_vhsub_vrhadd_simd(f, vn, vm, 1))
    [] f.a = 2 -> IF f.b = 1 THEN dis_common_vqadd_vqsub_simd(f, vn, vm, 1)
                  ELSE NoQc(dis_common_vhadd_vhsub_vrhadd_simd(f, vn, vm, 0))
    [] f.a = 3 -> NoQc(IF f.b = 1 THEN dis_common_vcge_all_simd(f, vn, vm, FALSE)
                       ELSE dis_common_vcgt_all_simd(f, vn, vm, FALSE))
    [] f.a \in {4, 5} -> IF f.b = 1 THEN dis_common_vqshl_vqrshl_simd(f, vn, vm, f.a - 4)
                         ELSE NoQc(dis_common_vshl_vrshl_simd(f, vn, vm, f.a - 4))
    [] f.a = 6 -> NoQc(dis_common_vmax_vmin_simd(f, vn, vm))
    [] f.a = 7 -> NoQc(dis_common_vaba_vabd_simd(f, vd, vn, vm))
    [] f.a = 8 -> NoQc(CASE f.b = 0 -> dis_common_vadd_vsub_simd(f, vn, vm)
                         [] f.b = 1 /\ f.U = 1 -> dis_common_vceq_all_simd(f, vn, vm, FALSE)
                         [] OTHER -> dis_common_tst_simd(f, vn, vm))
    [] f.a = 9 -> NoQc(CASE f.b = 0 -> dis_common_vmla_vmls_simd(f, vd, vn, vm)
                         [] f.b = 1 /\ f.U = 1 -> dis_common_vmul_polynomial_simd(f, vn, vm)
                         [] OTHER -> dis_common_vmul_integer_simd(f, vn, vm))
    [] f.a = 10 -> NoQc(IF f.b = 1 THEN dis_common_vpmin_simd(f, vn, vm)
                        ELSE dis_common_vpmax_simd(f, vn, vm))
    [] f.a = 11 -> IF f.b = 1 THEN NoQc(dis_common_vpadd_simd(f, vn, vm))
                   ELSE dis_common_vqdmulh_vqrdmulh_simd(f, vn, vm, f.U)
    [] OTHER -> Illegal

(* Three registers of different lengths.                                    *)
dis_common_vaddl_vaddw_vsubl_vsubw_simd(f, vn, vm, is_w) ==
  LongD(f, LAMBDA i : (IF is_w = 1 THEN XLane(Wide(f), vn, i) ELSE XLane(f, vn, i))
                      + SUB(Bit(f.a, 1), XLane(f, vm, i)))
dis_common_vaddhn_vraddhn_vsubhn_vrsubhn_simd(f, vn, vm, is_sub, is_round) ==
  LET w == Width(f.size)
  IN  NarrowD(f, LAMBDA i : Shr(ULane(Wide(f), vn, i) + SUB(is_sub, ULane(Wide(f), vm, i))
                                + ROUND(is_round, w), w))
dis_common_vabal_vabdl_simd(f, vd, vn, vm) ==
  LongD(f, LAMBDA i : (1 - Bit(f.a, 1)) * ULane(Wide(f), vd, i)
                      + abs(XLane(f, vn, i) - XLane(f, vm, i)))
(* Both the doubled product and the sum saturate.                           *)
AddProduct(f, vd, is_sub, Prod(_)) ==
  LET w == Width(f.size + 1)
      p == [i \in 0 .. HalfLanes(f.size) - 1 |-> ssat(w, 2 * Prod(i))]
      r == LongDSat(f, ssat, LAMBDA i : SLane(Wide(f), vd, i) + SUB(is_sub, Signed(w, p[i].v)))
  IN  [r EXCEPT !.qc = @ \/ \E i \in DOMAIN p : p[i].qc]
dis_common_vqdmlal_vqdmlsl_simd(f, vd, vn, vm) ==
  AddProduct(f, vd, Bit(f.a, 1), LAMBDA i : SLane(f, vn, i) * SLane(f, vm, i))
dis_common_vmlal_vmlsl_simd(f, vd, vn, vm) ==
  LongD(f, LAMBDA i : ULane(Wide(f), vd, i) + SUB(Bit(f.a, 1), XLane(f, vn, i) * XLane(f, vm, i)))
dis_common_vmull_integer_simd(f, vn, vm) == LongD(f, LAMBDA i : XLane(f, vn, i) * XLane(f, vm, i))
dis_common_vqdmull_simd(f, vn, vm) ==
  LongDSat(f, ssat, LAMBDA i : 2 * SLane(f, vn, i) * SLane(f, vm, i))
dis_common_vmull_polynomial_simd(f, vn, vm) ==
  LongD([f EXCEPT !.size = 0], LAMBDA i : polynomial_16(vn[i], vm[i]))
hlp_common_adv_simd_three_different_length(f, vd, vn, vm) ==
  CASE f.a \in 0 .. 3 -> NoQc(dis_common_vaddl_vaddw_vsubl_vsubw_simd(f, vn, vm, Bit(f.a, 0)))
    [] f.a = 4 -> NoQc(dis_common_vaddhn_vraddhn_vsubhn_vrsubhn_simd(f, vn, vm, 0, f.U))
    [] f.a = 6 -> NoQc(dis_common_vaddhn_vraddhn_vsubhn_vrsubhn_simd(f, vn, vm, 1, f.U))
    [] f.a \in {5, 7} -> NoQc(dis_common_vabal_vabdl_simd(f, vd, vn, vm))
    [] f.a \in {8, 10} -> NoQc(dis_common_vmlal_vmlsl_simd(f, vd, vn, vm))
    [] f.a \in {9, 11} -> dis_common_vqdmlal_vqdmlsl_simd(f, vd, vn, vm)
    [] f.a = 12 -> NoQc(dis_common_vmull_integer_simd(f, vn, vm))
    [] f.a = 13 -> dis_common_vqdmull_simd(f, vn, vm)
    [] f.a = 14 -> NoQc(dis_common_vmull_polynomial_simd(f, vn, vm))
    [] OTHER -> Illegal

(* Lane f.imm of D register m with every lane of n.                         *)
dis_common_vmla_vmls_scalar_simd(f, vd, vn, vm) ==
  Vec(f, LAMBDA i : ULane(f, vd, i) + SUB(Bit(f.a, 2), ULane(f, vn, i) * ULane(f, vm, f.imm)))
dis_common_vmlal_vmlsl_scalar_simd(f, vd, vn, vm) ==
  LongD(f, LAMBDA i : ULane(Wide(f), vd, i) + SUB(Bit(f.a, 2), XLane(f, vn, i) * XLane(f, vm, f.imm)))
dis_common_vmul_scalar_simd(f, vn, vm) == Vec(f, LAMBDA i : ULane(f, vn, i) * ULane(f, vm, f.imm))
dis_common_vmull_scalar_simd(f, vn, vm) == LongD(f, LAMBDA i : XLane(f, vn, i) * XLane(f, vm, f.imm))
dis_common_vqdmlal_vqdmlsl_scalar_simd(f, vd, vn, vm) ==
  AddProduct(f, vd, Bit(f.a, 2), LAMBDA i : SLane(f, vn, i) * SLane(f, vm, f.imm))
dis_common_vqdmull_scalar_simd(f, vn, vm) ==
  LongDSat(f, ssat, LAMBDA i : 2 * SLane(f, vn, i) * SLane(f, vm, f.imm))
dis_common_vqdmulh_vqrdmulh_scalar_simd(f, vn, vm, is_round) ==
  VecSat(f, ssat, LAMBDA i : DoublingHigh(f, SLane(f, vn, i), SLane(f, vm, f.imm), is_round))
hlp_common_adv_simd_two_regs_and_scalar(f, vd, vn, vm) ==
  CASE f.a \in {0, 4} -> NoQc(dis_common_vmla_vmls_scalar_simd(f, vd, vn, vm))
    [] f.a \in {2, 6} -> NoQc(dis_common_vmlal_vmlsl_scalar_simd(f, vd, vn, vm))
    [] f.a = 8 -> NoQc(dis_common_vmul_scalar_simd(f, vn, vm))
    [] f.a = 10 -> NoQc(dis_common_vmull_scalar_simd(f, vn, vm))
    [] f.a \in {3, 7} -> dis_common_vqdmlal_vqdmlsl_scalar_simd(f, vd, vn, vm)
    [] f.a = 11 -> dis_common_vqdmull_scalar_simd(f, vn, vm)
    [] f.a \in {12, 13} -> dis_common_vqdmulh_vqrdmulh_scalar_simd(f, vn, vm, Bit(f.a, 0))
    [] OTHER -> Illegal

(* Two registers.                                                           *)
dis_common_vrev_simd(f, vm) ==
  LET op == (f.b \div 2) % 4                \* rev64, rev32, rev16
      groupsize == 2^(LogD - op - f.size)
  IN  Vec(f, LAMBDA i : ULane(f, vm, i ^^ (groupsize - 1)))
dis_common_vpaddl_simd(f, vm) ==
  Vec(Wide(f), LAMBDA i : XLane(f, vm, 2 * i) + XLane(f, vm, 2 * i + 1))
dis_common_vpadal_simd(f, vd, vm) ==
  Vec(Wide(f), LAMBDA i : ULane(Wide(f), vd, i) + XLane(f, vm, 2 * i) + XLane(f, vm, 2 * i + 1))
dis_common_vcls_simd(f, vm) == Vec(f, LAMBDA i : cls(Width(f.size), ULane(f, vm, i)))
dis_common_vclz_simd(f, vm) == Vec(f, LAMBDA i : clz(Width(f.size), ULane(f, vm, i)))
dis_common_vcnt_simd(f, vm) == Vec([f EXCEPT !.size = 0], LAMBDA i : cnt(B, vm[i]))
dis_common_vqabs_simd(f, vm) == VecSat(f, ssat, LAMBDA i : abs(SLane(f, vm, i)))
dis_common_vqneg_simd(f, vm) == VecSat(f, ssat, LAMBDA i : -SLane(f, vm, i))
dis_common_vabs_simd(f, vm) == Vec(f, LAMBDA i : abs(SLane(f, vm, i)))
dis_common_vneg_simd(f, vm) == Vec(f, LAMBDA i : -SLane(f, vm, i))
(* The permutations rewrite both registers.                                 *)
dis_common_vtrn_simd(f, vd, vm) ==
  [d |-> Vec(f, LAMBDA i : IF i % 2 = 0 THEN ULane(f, vd, i) ELSE ULane(f, vm, i - 1)),
   m |-> Vec(f, LAMBDA i : IF i % 2 = 0 THEN ULane(f, vd, i + 1) ELSE ULane(f, vm, i))]
dis_common_vuzp_simd(f, vd, vm) ==
  LET n == Cardinality(Active(f)) \div 2
      Nth(i, part) == IF i < n THEN ULane(f, vd, 2 * i + part) ELSE ULane(f, vm, 2 * (i - n) + part)
  IN  [d |-> Vec(f, LAMBDA i : Nth(i, 0)), m |-> Vec(f, LAMBDA i : Nth(i, 1))]
dis_common_vzip_simd(f, vd, vm) ==
  LET n == Cardinality(Active(f)) \div 2
      Nth(i, base) == ULane(f, IF i % 2 = 1 THEN vm ELSE vd, base + (i \div 2))
  IN  [d |-> Vec(f, LAMBDA i : Nth(i, 0)), m |-> Vec(f, LAMBDA i : Nth(i, n))]
dis_common_vmovn_simd(f, vm) == NarrowD(f, LAMBDA i : ULane(Wide(f), vm, i))
dis_common_vqmovun_simd(f, vm) == NarrowDSat(f, usat, LAMBDA i : SLane(Wide(f), vm, i))
dis_common_vqmovn_simd(f, vm) ==
  IF f.b = 11 THEN NarrowDSat(f, usat_u, LAMBDA i : ULane(Wide(f), vm, i))
              ELSE NarrowDSat(f, ssat, LAMBDA i : SLane(Wide(f), vm, i))
dis_common_vshll_maximum_shift_simd(f, vm) ==
  LongD(f, LAMBDA i : ULane(f, vm, i) * 2^Width(f.size))
(* b is bits 10 to 6 of the encoding; the last of them is Q, or U, or part  *)
(* of the operation.                                                        *)
hlp_common_adv_simd_two_regs_misc(f, vd, vm) ==
  LET s == [f EXCEPT !.U = 0]
      u == [f EXCEPT !.U = Bit(f.b, 1)]     \* the pairwise additions
  IN  CASE f.a = 0 /\ f.b \in 0 .. 5 -> NoQc(dis_common_vrev_simd(f, vm))
        [] f.a = 0 /\ f.b \in 8 .. 11 -> NoQc(dis_common_vpaddl_simd(u, vm))
        [] f.a = 0 /\ f.b \in {16, 17} -> NoQc(dis_common_vcls_simd(f, vm))
        [] f.a = 0 /\ f.b \in {18, 19} -> NoQc(dis_common_vclz_simd(f, vm))
        [] f.a = 0 /\ f.b \in {20, 21} -> NoQc(dis_common_vcnt_simd(f, vm))
        [] f.a = 0 /\ f.b \in 24 .. 27 -> NoQc(dis_common_vpadal_simd(u, vd, vm))
        [] f.a = 0 /\ f.b \in {28, 29} -> dis_common_vqabs_simd(f, vm)
        [] f.a = 0 /\ f.b \in {30, 31} -> dis_common_vqneg_simd(f, vm)
        [] f.a = 1 /\ f.b % 16 \in {0, 1} -> NoQc(dis_common_vcgt_all_simd(s, vm, vm, TRUE))
        [] f.a = 1 /\ f.b % 16 \in {2, 3} -> NoQc(dis_common_vcge_all_simd(s, vm, vm, TRUE))
        [] f.a = 1 /\ f.b % 16 \in {4, 5} -> NoQc(dis_common_vceq_all_simd(s, vm, vm, TRUE))
        [] f.a = 1 /\ f.b % 16 \in {6, 7} -> NoQc(dis_common_vcle_all_simd(s, vm, vm, TRUE))
        [] f.a = 1 /\ f.b % 16 \in {8, 9} -> NoQc(dis_common_vclt_all_simd(s, vm, vm, TRUE))
        [] f.a = 1 /\ f.b % 16 \in {12, 13} -> NoQc(dis_common_vabs_simd(f, vm))
        [] f.a = 1 /\ f.b % 16 \in {14, 15} -> NoQc(dis_common_vneg_simd(f, vm))
        [] f.a = 2 /\ f.b \in {2, 3} -> dis_common_vtrn_simd(f, vd, vm)
        [] f.a = 2 /\ f.b \in {4, 5} -> dis_common_vuzp_simd(f, vd, vm)
        [] f.a = 2 /\ f.b \in {6, 7} -> dis_common_vzip_simd(f, vd, vm)
        [] f.a = 2 /\ f.b = 8 -> NoQc(dis_common_vmovn_simd(f, vm))
        [] f.a = 2 /\ f.b = 9 -> dis_common_vqmovun_simd(f, vm)
        [] f.a = 2 /\ f.b \in {10, 11} -> dis_common_vqmovn_simd(f, vm)
        [] f.a = 2 /\ f.b = 12 -> NoQc(dis_common_vshll_maximum_shift_simd(f, vm))
        [] OTHER -> Illegal

(* Two registers and an immediate shift.  f.size and the distance f.imm are *)
(* decoded from imm6 by every helper.                                       *)
Rounded(is_round, x, n) == Shr(x + ROUND(is_round, n), n)
dis_common_vshr_vrshr_simd(f, vm, is_round) ==
  Vec(f, LAMBDA i : Rounded(is_round, XLane(f, vm, i), f.imm))
dis_common_vsra_vrsra_simd(f, vd, vm, is_round) ==
  Vec(f, LAMBDA i : ULane(f, vd, i) + Rounded(is_round, XLane(f, vm, i), f.imm))
dis_common_vsri_simd(f, vd, vm) ==
  LET w == Width(f.size)
      mask == Shr(Ones(w), f.imm)
  IN  Vec(f, LAMBDA i : (ULane(f, vd, i) & Complement(w, mask)) | Shr(ULane(f, vm, i), f.imm))
dis_common_vsli_immediate_simd(f, vd, vm) ==
  Vec(f, LAMBDA i : (ULane(f, vd, i) & Ones(f.imm))
                    | Store(Width(f.size), ULane(f, vm, i) * 2^f.imm))
dis_common_vshl_immediate_simd(f, vm) == Vec(f, LAMBDA i : ULane(f, vm, i) * 2^f.imm)
dis_common_vqshlu_immediate_simd(f, vm) == VecSat(f, usat, LAMBDA i : SLane(f, vm, i) * 2^f.imm)
dis_common_vqshl_immediate_simd(f, vm) ==
  VecSat(f, LAMBDA w, x : XSat(f, w, x), LAMBDA i : XLane(f, vm, i) * 2^f.imm)
dis_common_vqrshrun_vqshrun_simd(f, vm, is_round) ==
  NarrowDSat(f, usat, LAMBDA i : Rounded(is_round, SLane(Wide(f), vm, i), f.imm))
dis_common_vrshrn_vshrn_simd(f, vm, is_round) ==
  NarrowD(f, LAMBDA i : Rounded(is_round, SLane(Wide(f), vm, i), f.imm))
dis_common_vqrshrn_vqshrn_simd(f, vm, is_round) ==
  NarrowDSat(f, LAMBDA w, x : XSat(f, w, x), LAMBDA i : Rounded(is_round, XLane(Wide(f), vm, i), f.imm))
dis_common_vshll_simd(f, vm) == LongD(f, LAMBDA i : XLane(f, vm, i) * 2^f.imm)
dis_common_vmovl_simd(f, vm) == LongD(f, LAMBDA i : XLane(f, vm, i))
(* Here f.b is bit 6: Q, or the rounding of the narrowing shifts.           *)
hlp_common_adv_simd_two_regs_and_shift(f, vd, vm) ==
  CASE f.a = 0 -> NoQc(dis_common_vshr_vrshr_simd(f, vm, 0))
    [] f.a = 1 -> NoQc(dis_common_vsra_vrsra_simd(f, vd, vm, 0))
    [] f.a = 2 -> NoQc(dis_common_vshr_vrshr_simd(f, vm, 1))
    [] f.a = 3 -> NoQc(dis_common_vsra_vrsra_simd(f, vd, vm, 1))
    [] f.a = 4 -> NoQc(dis_common_vsri_simd(f, vd, vm))
    [] f.a = 5 -> NoQc(IF f.U = 1 THEN dis_common_vsli_immediate_simd(f, vd, vm)
                       ELSE dis_common_vshl_immediate_simd(f, vm))
    [] f.a = 6 -> dis_common_vqshlu_immediate_simd(f, vm)
    [] f.a = 7 -> dis_common_vqshl_immediate_simd(f, vm)
    [] f.a = 8 -> IF f.U = 1 THEN dis_common_vqrshrun_vqshrun_simd(f, vm, f.b)
                  ELSE NoQc(dis_common_vrshrn_vshrn_simd(f, vm, f.b))
    [] f.a = 9 -> dis_common_vqrshrn_vqshrn_simd(f, vm, f.b)
    [] f.a = 10 -> NoQc(IF f.imm = 0 THEN dis_common_vmovl_simd(f, vm)
                        ELSE dis_common_vshll_simd(f, vm))
    [] OTHER -> Illegal

(* Extraction, copies and table lookup.  regs is the sequence of the D      *)
(* registers of the table.                                                  *)
dis_common_vext_simd(f, vn, vm) ==
  LET n == Cardinality(Written(f))
  IN  [b \in Written(f) |-> IF f.imm + b < n THEN vn[f.imm + b] ELSE vm[f.imm + b - n]]
dis_common_vdup_scalar(f, vm) == Vec(f, LAMBDA i : ULane(f, vm, f.imm))
dis_common_vdup_arm(f, r) == Vec(f, LAMBDA i : r)
dis_common_vmov_from_arm_simd(f, vd, r) ==
  Vec(DForm(f), LAMBDA i : IF i = f.imm THEN r ELSE ULane(f, vd, i))
dis_common_vtbl_vtbx_simd(f, vd, regs, vm) ==
  [b \in DBytes |-> IF vm[b] < HalfLanes(0) * Len(regs)
                    THEN regs[(vm[b] \div HalfLanes(0)) + 1][vm[b] % HalfLanes(0)]
                    ELSE IF f.is_vtbx THEN vd[b] ELSE 0]

(* Loads and stores of structures, on the register file e, the function of  *)
(* the number of a D register; mem is the memory from the address on.  The  *)
(* element number (outer * lanes + lane) * inner_nb + inner belongs to lane *)
(* "lane" of register d + outer + inner * inc.                              *)
MemLane(size, mem, n) ==
  MapThenSumSet(LAMBDA k : mem[n * 2^size + k] * 2^(B * k), 0 .. 2^size - 1)
DRegister(size, g) ==
  [b \in DBytes |-> (g[b \div 2^size] \div 2^(B * (b % 2^size))) % 2^B]
Places(l) == (0 .. l.outer_nb - 1) \X (0 .. l.inner_nb - 1)
RegisterAt(l, d, p) == d + p[1] + p[2] * l.inc
ElementAt(f, l, p, i) == (p[1] * HalfLanes(f.size) + i) * l.inner_nb + p[2]
MultipleBytes(f, l) == l.outer_nb * l.inner_nb * HalfLanes(0)
dis_common_vldx_multiple(f, l, d, e, mem) ==
  [e |-> [r \in DOMAIN e |->
      IF \E p \in Places(l) : RegisterAt(l, d, p) = r
      THEN LET p == CHOOSE p \in Places(l) : RegisterAt(l, d, p) = r
           IN  DRegister(f.size, [i \in 0 .. HalfLanes(f.size) - 1 |-> MemLane(f.size, mem, ElementAt(f, l, p, i))])
      ELSE e[r]],
   offset |-> MultipleBytes(f, l)]
dis_common_vstx_multiple(f, l, d, e, mem) ==
  [mem |-> [a \in DOMAIN mem |->
      IF a >= MultipleBytes(f, l) THEN mem[a]
      ELSE LET at == CHOOSE x \in Places(l) \X (0 .. HalfLanes(f.size) - 1) :
                        ElementAt(f, l, x[1], x[2]) = a \div 2^f.size
           IN  e[RegisterAt(l, d, at[1])][at[2] * 2^f.size + (a % 2^f.size)]],
   offset |-> MultipleBytes(f, l)]
(* The layouts of the type field (bits 11 to 8).                            *)
Layout(outer_nb, inner_nb, inc) == [outer_nb |-> outer_nb, inner_nb |-> inner_nb, inc |-> inc]
dis_common_vld1_multiple(type) ==
  CASE type = 7 -> Layout(1, 1, 1) [] type = 10 -> Layout(2, 1, 1)
    [] type = 6 -> Layout(3, 1, 1) [] type = 2 -> Layout(4, 1, 1)
dis_common_vld2_multiple(type) ==
  CASE type = 8 -> Layout(1, 2, 1) [] type = 9 -> Layout(1, 2, 2) [] type = 3 -> Layout(2, 2, 2)
dis_common_vld3_multiple(type) == CASE type = 4 -> Layout(1, 3, 1) [] type = 5 -> Layout(1, 3, 2)
dis_common_vld4_multiple(type) == CASE type = 0 -> Layout(1, 4, 1) [] type = 1 -> Layout(1, 4, 2)
LayoutOf(type) ==
  CASE type \in {2, 6, 7, 10} -> dis_common_vld1_multiple(type)
    [] type \in {3, 8, 9} -> dis_common_vld2_multiple(type)
    [] type \in {4, 5} -> dis_common_vld3_multiple(type)
    [] type \in {0, 1} -> dis_common_vld4_multiple(type)
(* One lane, f.imm, of nb registers inc apart, and all lanes of them.       *)
dis_common_vldx_single_one_lane(f, nb, inc, d, e, mem) ==
  [e |-> [r \in DOMAIN e |->
      IF \E k \in 0 .. nb - 1 : r = d + k * inc
      THEN DRegister(f.size, [i \in 0 .. HalfLanes(f.size) - 1 |->
             IF i = f.imm THEN MemLane(f.size, mem, (r - d) \div inc) ELSE Lane(f.size, e[r], i)])
      ELSE e[r]],
   offset |-> nb * 2^f.size]
dis_common_vldx_single_all_lane(f, l, d, e, mem) ==
  [e |-> [r \in DOMAIN e |->
      IF \E p \in Places(l) : RegisterAt(l, d, p) = r
      THEN LET p == CHOOSE p \in Places(l) : RegisterAt(l, d, p) = r
           IN  DRegister(f.size, [i \in 0 .. HalfLanes(f.size) - 1 |-> MemLane(f.size, mem, p[2])])
      ELSE e[r]],
   offset |-> l.inner_nb * 2^f.size]
dis_common_vstx_single_one_lane(f, nb, inc, d, e, mem) ==
  [mem |-> [a \in DOMAIN mem |->
      IF a >= nb * 2^f.size THEN mem[a]
      ELSE e[d + (a \div 2^f.size) * inc][f.imm * 2^f.size + (a % 2^f.size)]],
   offset |-> nb * 2^f.size]
(* The registers apart of a single lane access: a bit of index_align.       *)
SingleInc(size, index_align) ==
  IF size > 0 /\ Bit(index_align, size) = 1 THEN 2 ELSE 1
WriteBack(base, rm, step, offset) ==
  CASE rm = 15 -> base [] rm = 13 -> base + offset [] OTHER -> base + step
(* The access an encoding with a set (single lanes) selects: b is bits 11   *)
(* to 8, l the load bit.                                                    *)
hlp_common_adv_simd_element_or_structure_load_store(f, b, ld, index_align, T, d, e, mem) ==
  LET nb == (b % 4) + 1
      inc == SingleInc(f.size, index_align)
  IN  CASE f.a = 0 /\ ld -> dis_common_vldx_multiple(f, LayoutOf(b), d, e, mem)
        [] f.a = 0 /\ ~ld -> dis_common_vstx_multiple(f, LayoutOf(b), d, e, mem)
        [] f.a = 1 /\ ld /\ b \in 0 .. 11 -> dis_common_vldx_single_one_lane(f, nb, inc, d, e, mem)
        [] f.a = 1 /\ ld /\ b = 12 -> dis_common_vldx_single_all_lane(f, Layout(T + 1, 1, T + 1), d, e, mem)
        [] f.a = 1 /\ ld /\ b \in 13 .. 15 -> dis_common_vldx_single_all_lane(f, Layout(1, nb, T + 1), d, e, mem)
        [] f.a = 1 /\ ~ld /\ b \in 0 .. 11 -> dis_common_vstx_single_one_lane(f, nb, inc, d, e, mem)
        [] OTHER -> Illegal
=============================================================================
