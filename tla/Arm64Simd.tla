----------------------------- MODULE Arm64Simd -----------------------------
(* The vector integer instructions of the arm64 guest, as the dirty helpers *)
(* of arm64_helpers_simd.c compute them.  vd, vn and vm are the registers   *)
(* an instruction names, f its form (Lanes): f.opcode and f.U are the       *)
(* fields of the encoding from which the helpers take what they do, f.imm   *)
(* the immediate (shift, lane index or byte offset) already decoded.        *)
(* The switch on the lane size, and the loop each case of it holds, are the *)
(* parameter f.size.  A saturating helper also answers whether it set       *)
(* regs->qc.  Accumulating helpers read vd before they write it, as the     *)
(* code does through a copy or lane by lane.                                *)
EXTENDS Lanes

sabs(x, y) == IF x > y THEN x - y ELSE y - x
smax(x, y) == IF x > y THEN x ELSE y
smin(x, y) == IF x < y THEN x ELSE y
usat(w, x)   == Saturated(w, x, 0, Ones(w))
usat_u(w, x) == Saturated(w, x, 0, Ones(w))
ssat(w, x)   == Saturated(w, x, -(2^(w - 1)), 2^(w - 1) - 1)

(* Rounding constant of a right shift by n, and the shift (arithmetic on    *)
(* negative values).                                                        *)
Rounding(is_round, n) == IF is_round = 1 /\ n > 0 THEN 2^(n - 1) ELSE 0
Shr(x, n) == x \div 2^n
MinMax(is_min, x, y) == IF is_min = 1 THEN smin(x, y) ELSE smax(x, y)

Illegal == [illegal |-> TRUE]               \* fatal_illegal_opcode

(* Copies of a lane or of a general register into every lane.               *)
dis_dup_element(f, vn) == Each(f, LAMBDA i : ULane(f, vn, f.imm))
dis_dup_general(f, r)  == Each(f, LAMBDA i : r)

(* Shifts by an immediate.                                                  *)
dis_shl(f, vn)    == Each(f, LAMBDA i : ULane(f, vn, i) * 2^f.imm)
dis_sqshlu(f, vn) == EachSat(f, usat, LAMBDA i : SLane(f, vn, i) * 2^f.imm)
dis_sqshl(f, vn)  == EachSat(f, ssat, LAMBDA i : SLane(f, vn, i) * 2^f.imm)
dis_uqshl(f, vn)  == EachSat(f, usat, LAMBDA i : ULane(f, vn, i) * 2^f.imm)
dis_sqrshrun_sqshrun(f, vd, vn) ==
  NarrowSat(f, vd, usat, LAMBDA i :
    Shr(SLane(Wide(f), vn, i) + Rounding(Bit(f.opcode, 0), f.imm), f.imm))
dis_sqrshrn_sqshrn_uqrshrn_uqshrn(f, vd, vn) ==
  LET Op(i) == Shr(XLane(Wide(f), vn, i) + Rounding(Bit(f.opcode, 0), f.imm), f.imm)
  IN  IF f.U = 1 THEN NarrowSat(f, vd, usat, Op) ELSE NarrowSat(f, vd, ssat, Op)
dis_sshll_ushll(f, vn) == Long(f, LAMBDA i : XLane(f, vn, Src(f, i)) * 2^f.imm)
dis_srshr_srsra_sshr_ssra_urshr_ursra_ushr_usra(f, vd, vn) ==
  Each(f, LAMBDA i : Shr(XLane(f, vn, i) + Rounding(Bit(f.opcode, 2), f.imm), f.imm)
                     + Bit(f.opcode, 1) * ULane(f, vd, i))
dis_sri(f, vd, vn) ==
  LET w == Width(f.size)
  IN  Each(f, LAMBDA i : Shr(ULane(f, vn, i), f.imm)
                         | (ULane(f, vd, i) & Complement(w, Shr(Ones(w), f.imm))))
dis_sli(f, vd, vn) ==
  Each(f, LAMBDA i : Store(Width(f.size), ULane(f, vn, i) * 2^f.imm)
                     | (ULane(f, vd, i) & Ones(f.imm)))
dis_shrn_rshrn(f, vd, vn) ==
  Narrow(f, vd, [i \in NarrowLanes(f) |-> Store(Width(f.size),
    Shr(ULane(Wide(f), vn, i) + Rounding(Bit(f.opcode, 0), f.imm), f.imm))])

arm64_hlp_dirty_advanced_simd_shift_by_immediate_simd(f, vd, vn) ==
  CASE f.opcode \in {0, 2, 4, 6} ->
         NoQc(dis_srshr_srsra_sshr_ssra_urshr_ursra_ushr_usra(f, vd, vn))
    [] f.opcode = 8  -> IF f.U = 1 THEN NoQc(dis_sri(f, vd, vn)) ELSE Illegal
    [] f.opcode = 10 -> NoQc(IF f.U = 1 THEN dis_sli(f, vd, vn) ELSE dis_shl(f, vn))
    [] f.opcode = 12 -> IF f.U = 1 THEN dis_sqshlu(f, vn) ELSE Illegal
    [] f.opcode = 14 -> IF f.U = 1 THEN dis_uqshl(f, vn) ELSE dis_sqshl(f, vn)
    [] f.opcode \in {16, 17} -> IF f.U = 1 THEN dis_sqrshrun_sqshrun(f, vd, vn)
                                ELSE NoQc(dis_shrn_rshrn(f, vd, vn))
    [] f.opcode \in {18, 19} -> dis_sqrshrn_sqshrn_uqrshrn_uqshrn(f, vd, vn)
    [] f.opcode = 20 -> NoQc(dis_sshll_ushll(f, vn))
    [] OTHER -> Illegal
arm64_hlp_dirty_advanced_simd_scalar_shift_by_immediate_simd(f, vd, vn) ==
  CASE f.opcode \in {0, 2, 4, 6} ->
         NoQc(dis_srshr_srsra_sshr_ssra_urshr_ursra_ushr_usra(f, vd, vn))
    [] f.opcode = 8  -> IF f.U = 1 THEN NoQc(dis_sri(f, vd, vn)) ELSE Illegal
    [] f.opcode = 10 -> NoQc(IF f.U = 1 THEN dis_sli(f, vd, vn) ELSE dis_shl(f, vn))
    [] f.opcode = 12 -> IF f.U = 1 THEN dis_sqshlu(f, vn) ELSE Illegal
    [] f.opcode = 14 -> IF f.U = 1 THEN dis_uqshl(f, vn) ELSE dis_sqshl(f, vn)
    [] f.opcode \in {16, 17} -> IF f.U = 1 THEN dis_sqrshrun_sqshrun(f, vd, vn) ELSE Illegal
    [] f.opcode \in {18, 19} -> dis_sqrshrn_sqshrn_uqrshrn_uqshrn(f, vd, vn)
    [] OTHER -> Illegal

(* Two register instructions.                                               *)
dis_neg(f, vn) == Each(f, LAMBDA i : -ULane(f, vn, i))
dis_abs(f, vn) == Each(f, LAMBDA i : sabs(SLane(f, vn, i), 0))
dis_xtn(f, vd, vn) ==
  Narrow(f, vd, [i \in NarrowLanes(f) |-> Store(Width(f.size), ULane(Wide(f), vn, i))])
dis_sqxtun(f, vd, vn) == NarrowSat(f, vd, usat, LAMBDA i : SLane(Wide(f), vn, i))
dis_sqxtn_uqxtn(f, vd, vn) ==
  IF f.U = 1 THEN NarrowSat(f, vd, usat, LAMBDA i : ULane(Wide(f), vn, i))
             ELSE NarrowSat(f, vd, ssat, LAMBDA i : SLane(Wide(f), vn, i))
dis_suqadd_usqadd(f, vd, vn) ==
  IF f.U = 1 THEN EachSat(f, usat, LAMBDA i : SLane(f, vn, i) + ULane(f, vd, i))
             ELSE EachSat(f, ssat, LAMBDA i : ULane(f, vn, i) + SLane(f, vd, i))
dis_sqneg(f, vn) == EachSat(f, ssat, LAMBDA i : -SLane(f, vn, i))
dis_sqabs(f, vn) ==
  LET w == Width(f.size)
      Lowest(i) == ULane(f, vn, i) = 2^(w - 1)
  IN  [v  |-> Each(f, LAMBDA i : IF Lowest(i) THEN 2^(w - 1) - 1
                                 ELSE sabs(SLane(f, vn, i), 0)),
       qc |-> \E i \in Active(f) : Lowest(i)]
dis_shll(f, vn) == Long(f, LAMBDA i : ULane(f, vn, Src(f, i)) * 2^Width(f.size))
dis_cmpeq_vector(f, vn) == Each(f, LAMBDA i : IF ULane(f, vn, i) = 0 THEN Ones(Width(f.size)) ELSE 0)
dis_revxx(f, vn) ==
  LET op == 2 * Bit(f.opcode, 0) + f.U
  IN  Each(f, LAMBDA i : ULane(f, vn, i ^^ Ones(LogD - op - f.size)))
cls(w, x) ==
  LET differ == {i \in 0 .. w - 2 : Bit(x, i) # Bit(x, w - 1)}
  IN  IF differ = {} THEN w - 1 ELSE w - 2 - Max(differ)
clz(w, x) ==
  LET set == {i \in 0 .. w - 1 : Bit(x, i) = 1}
  IN  IF set = {} THEN w ELSE w - 1 - Max(set)
cnt(w, x) == Cardinality({i \in 0 .. w - 1 : Bit(x, i) = 1})
rbit(w, x) == MapThenSumSet(LAMBDA i : Bit(x, i) * 2^(w - 1 - i), 0 .. w - 1)
dis_cls_clz(f, vn) ==
  Each(f, LAMBDA i : IF f.U = 1 THEN clz(Width(f.size), ULane(f, vn, i))
                                ELSE cls(Width(f.size), ULane(f, vn, i)))
dis_not(f, vn)  == Each(f, LAMBDA i : Complement(Width(f.size), ULane(f, vn, i)))
dis_rbit(f, vn) == Each([f EXCEPT !.size = 0], LAMBDA i : rbit(B, vn[i]))
dis_cnt(f, vn)  == Each(f, LAMBDA i : cnt(Width(f.size), ULane(f, vn, i)))
dis_saddlp_sadalp_uaddlp_uadalp(f, vd, vn) ==
  Each(Wide(f), LAMBDA i : Bit(f.opcode, 2) * ULane(Wide(f), vd, i)
                           + XLane(f, vn, 2 * i) + XLane(f, vn, 2 * i + 1))

(* The comparisons: a lane of ones where it holds.                          *)
DIS_CM(f, Holds(_)) == Each(f, LAMBDA i : IF Holds(i) THEN Ones(Width(f.size)) ELSE 0)
dis_cmeq(f, vn, vm)  == DIS_CM(f, LAMBDA i : SLane(f, vn, i) = SLane(f, vm, i))
dis_cmge(f, vn, vm)  == DIS_CM(f, LAMBDA i : SLane(f, vn, i) >= SLane(f, vm, i))
dis_cmgt(f, vn, vm)  == DIS_CM(f, LAMBDA i : SLane(f, vn, i) > SLane(f, vm, i))
dis_cmhi(f, vn, vm)  == DIS_CM(f, LAMBDA i : ULane(f, vn, i) > ULane(f, vm, i))
dis_cmhs(f, vn, vm)  == DIS_CM(f, LAMBDA i : ULane(f, vn, i) >= ULane(f, vm, i))
dis_cmtst(f, vn, vm) == DIS_CM(f, LAMBDA i : ULane(f, vn, i) & ULane(f, vm, i) # 0)
dis_cmeq_zero(f, vn) == DIS_CM(f, LAMBDA i : SLane(f, vn, i) = 0)
dis_cmge_zero(f, vn) == DIS_CM(f, LAMBDA i : SLane(f, vn, i) >= 0)
dis_cmgt_zero(f, vn) == DIS_CM(f, LAMBDA i : SLane(f, vn, i) > 0)
dis_cmle_zero(f, vn) == DIS_CM(f, LAMBDA i : SLane(f, vn, i) <= 0)
dis_cmlt_zero(f, vn) == DIS_CM(f, LAMBDA i : SLane(f, vn, i) < 0)

arm64_hlp_dirty_advanced_simd_two_reg_misc_simd(f, vd, vn) ==
  CASE f.opcode = 0 -> NoQc(dis_revxx(f, vn))
    [] f.opcode = 1 -> IF f.U = 0 THEN NoQc(dis_revxx(f, vn)) ELSE Illegal
    [] f.opcode \in {2, 6} -> NoQc(dis_saddlp_sadalp_uaddlp_uadalp(f, vd, vn))
    [] f.opcode = 3 -> dis_suqadd_usqadd(f, vd, vn)
    [] f.opcode = 4 -> NoQc(dis_cls_clz(f, vn))
    [] f.opcode = 5 -> CASE f.U = 0 /\ f.size = 0 -> NoQc(dis_cnt(f, vn))
                         [] f.U = 1 /\ f.size = 0 -> NoQc(dis_not(f, vn))
                         [] f.U = 1 /\ f.size = 1 -> NoQc(dis_rbit(f, vn))
                         [] OTHER -> Illegal
    [] f.opcode = 7 -> IF f.U = 1 THEN dis_sqneg(f, vn) ELSE dis_sqabs(f, vn)
    [] f.opcode = 8 -> NoQc(IF f.U = 1 THEN dis_cmge_zero(f, vn) ELSE dis_cmgt_zero(f, vn))
    [] f.opcode = 9 -> NoQc(IF f.U = 1 THEN dis_cmle_zero(f, vn) ELSE dis_cmpeq_vector(f, vn))
    [] f.opcode = 10 -> IF f.U = 1 THEN Illegal ELSE NoQc(dis_cmlt_zero(f, vn))
    [] f.opcode = 11 -> NoQc(IF f.U = 1 THEN dis_neg(f, vn) ELSE dis_abs(f, vn))
    [] f.opcode = 18 -> IF f.U = 1 THEN dis_sqxtun(f, vd, vn) ELSE NoQc(dis_xtn(f, vd, vn))
    [] f.opcode = 19 -> IF f.U = 1 THEN NoQc(dis_shll(f, vn)) ELSE Illegal
    [] f.opcode = 20 -> dis_sqxtn_uqxtn(f, vd, vn)
    [] OTHER -> Illegal
arm64_hlp_dirty_advanced_simd_scalar_two_reg_misc_simd(f, vd, vn) ==
  CASE f.opcode = 3 -> dis_suqadd_usqadd(f, vd, vn)
    [] f.opcode = 7 -> IF f.U = 1 THEN dis_sqneg(f, vn) ELSE dis_sqabs(f, vn)
    [] f.opcode = 8 -> NoQc(IF f.U = 1 THEN dis_cmge_zero(f, vn) ELSE dis_cmgt_zero(f, vn))
    [] f.opcode = 9 -> NoQc(IF f.U = 1 THEN dis_cmle_zero(f, vn) ELSE dis_cmeq_zero(f, vn))
    [] f.opcode = 10 -> IF f.U = 1 THEN Illegal ELSE NoQc(dis_cmlt_zero(f, vn))
    [] f.opcode = 11 -> NoQc(IF f.U = 1 THEN dis_neg(f, vn) ELSE dis_abs(f, vn))
    [] f.opcode = 18 -> IF f.U = 1 THEN dis_sqxtun(f, vd, vn) ELSE Illegal
    [] f.opcode = 20 -> dis_sqxtn_uqxtn(f, vd, vn)
    [] OTHER -> Illegal

(* Three registers of the same lanes.                                       *)
dis_mal_mls(f, vd, vn, vm) ==
  Each(f, LAMBDA i : LET p == ULane(f, vn, i) * ULane(f, vm, i)
                     IN  ULane(f, vd, i) + IF f.U = 1 THEN -p ELSE p)
(* Product of polynomials over {0, 1}.                                      *)
PolyMul(w, x, y) ==
  FoldSet(LAMBDA j, acc : acc ^^ (y * 2^j), 0, {j \in 0 .. w - 1 : Bit(x, j) = 1})
dis_pmul(f, vn, vm) ==
  LET b == [f EXCEPT !.size = 0] IN Each(b, LAMBDA i : PolyMul(B, vn[i], vm[i]))
dis_mul(f, vn, vm) == Each(f, LAMBDA i : ULane(f, vn, i) * ULane(f, vm, i))
dis_smax_smin_umax_umin(f, vn, vm) ==
  Each(f, LAMBDA i : MinMax(Bit(f.opcode, 0), XLane(f, vn, i), XLane(f, vm, i)))
dis_sabd_saba_uabd_uaba(f, vd, vn, vm) ==
  Each(f, LAMBDA i : Bit(f.opcode, 0) * ULane(f, vd, i)
                     + sabs(XLane(f, vn, i), XLane(f, vm, i)))
(* Shifts by a signed byte of the other operand.  The lowest byte is        *)
(* special: the shift distance does not fit the 128 bit intermediate, and   *)
(* the rounding constant is the sign bit of the signed one.                 *)
LowestByte == -(2^(B - 1))
WidestShift(n) == smin(n, B * 2^LogD)
ushl(x, shift, is_round) ==
  CASE shift = LowestByte -> 0
    [] shift >= 0 -> x * 2^WidestShift(shift)
    [] OTHER -> Shr(x + Rounding(is_round, -shift), -shift)
sshl(x, shift, is_round) ==
  CASE shift = LowestByte -> IF (x >= 0) = (is_round = 1) THEN -1 ELSE 0
    [] shift >= 0 -> x * 2^WidestShift(shift)
    [] OTHER -> Shr(x + Rounding(is_round, -shift), -shift)
dis_sshl_family(f, vn, vm) ==
  LET is_round == Bit(f.opcode, 1)
      shift(i) == Signed(B, Store(B, ULane(f, vm, i)))
      Op(i) == IF f.U = 1 THEN ushl(ULane(f, vn, i), shift(i), is_round)
                          ELSE sshl(SLane(f, vn, i), shift(i), is_round)
  IN  CASE Bit(f.opcode, 0) = 0 -> NoQc(Each(f, Op))
        [] f.U = 1 -> EachSat(f, usat_u, Op)
        [] OTHER -> EachSat(f, ssat, Op)
dis_sqadd_uqadd(f, vn, vm) ==
  LET Op(i) == XLane(f, vn, i) + XLane(f, vm, i)
  IN  IF f.U = 1 THEN EachSat(f, usat, Op) ELSE EachSat(f, ssat, Op)
dis_sqsub_uqsub(f, vn, vm) ==
  LET Op(i) == XLane(f, vn, i) - XLane(f, vm, i)
  IN  IF f.U = 1 THEN EachSat(f, usat, Op) ELSE EachSat(f, ssat, Op)
dis_add_sub(f, vn, vm) ==
  Each(f, LAMBDA i : IF f.U = 1 THEN ULane(f, vn, i) - ULane(f, vm, i)
                                ELSE ULane(f, vn, i) + ULane(f, vm, i))
DoublingHigh(f, x, y, is_round) ==
  Shr(2 * x * y + Rounding(is_round, Width(f.size)), Width(f.size))
dis_sqdmulh_sqrdmulh(f, vn, vm) ==
  EachSat(f, ssat, LAMBDA i : DoublingHigh(f, SLane(f, vn, i), SLane(f, vm, i), f.U))
dis_orr_register(f, vn, vm) == Each(f, LAMBDA i : ULane(f, vn, i) | ULane(f, vm, i))
dis_and(f, vn, vm) == Each(f, LAMBDA i : ULane(f, vn, i) & ULane(f, vm, i))
dis_bic_register(f, vn, vm) ==
  Each(f, LAMBDA i : ULane(f, vn, i) & Complement(Width(f.size), ULane(f, vm, i)))
dis_orn(f, vn, vm) ==
  Each(f, LAMBDA i : ULane(f, vn, i) | Complement(Width(f.size), ULane(f, vm, i)))
(* eor, bsl, bit and bif, selected by the size field.                       *)
dis_bitop(f, vd, vn, vm) ==
  LET operand1 == IF f.size <= 1 THEN vm ELSE vd
      operand2 == CASE f.size = 0 -> Zero [] f.size = 1 -> vm [] OTHER -> vd
      operand3(i) == CASE f.size = 0 -> Ones(B) [] f.size = 1 -> vd[i]
                       [] f.size = 2 -> vm[i]   [] OTHER -> Complement(B, vm[i])
  IN  Each([f EXCEPT !.size = 0],
           LAMBDA i : operand1[i] ^^ ((operand2[i] ^^ vn[i]) & operand3(i)))
(* Neighbouring lanes of vn, then those of vm.                              *)
Pairwise(f, vn, vm, Op(_, _)) ==
  LET n == IF f.q = 1 THEN HalfLanes(f.size) ELSE HalfLanes(f.size) \div 2
  IN  Each(f, LAMBDA i : IF i < n THEN Op(XLane(f, vn, 2 * i), XLane(f, vn, 2 * i + 1))
                         ELSE Op(XLane(f, vm, 2 * (i - n)), XLane(f, vm, 2 * (i - n) + 1)))
dis_addp(f, vn, vm) == Pairwise(f, vn, vm, LAMBDA x, y : x + y)
dis_smaxp_sminp_umaxp_uminp(f, vn, vm) ==
  Pairwise(f, vn, vm, LAMBDA x, y : MinMax(Bit(f.opcode, 0), x, y))
dis_shadd_srhadd_uhadd_urhadd(f, vn, vm) ==
  Each(f, LAMBDA i : Shr(XLane(f, vn, i) + XLane(f, vm, i) + Bit(f.opcode, 1), 1))
dis_shsub_uhsub(f, vn, vm) == Each(f, LAMBDA i : Shr(XLane(f, vn, i) - XLane(f, vm, i), 1))
ThreeSameCommon(f, vn, vm) ==
  CASE f.opcode = 1 -> dis_sqadd_uqadd(f, vn, vm)
    [] f.opcode = 5 -> dis_sqsub_uqsub(f, vn, vm)
    [] f.opcode = 6 -> NoQc(IF f.U = 1 THEN dis_cmhi(f, vn, vm) ELSE dis_cmgt(f, vn, vm))
    [] f.opcode = 7 -> NoQc(IF f.U = 1 THEN dis_cmhs(f, vn, vm) ELSE dis_cmge(f, vn, vm))
    [] f.opcode \in 8 .. 11 -> dis_sshl_family(f, vn, vm)
    [] f.opcode = 16 -> NoQc(dis_add_sub(f, vn, vm))
    [] f.opcode = 17 -> NoQc(IF f.U = 1 THEN dis_cmeq(f, vn, vm) ELSE dis_cmtst(f, vn, vm))
    [] f.opcode = 22 -> dis_sqdmulh_sqrdmulh(f, vn, vm)
    [] OTHER -> Illegal
arm64_hlp_dirty_advanced_simd_scalar_three_same_simd(f, vd, vn, vm) == ThreeSameCommon(f, vn, vm)
arm64_hlp_dirty_advanced_simd_three_same_simd(f, vd, vn, vm) ==
  CASE f.opcode \in {0, 2} -> NoQc(dis_shadd_srhadd_uhadd_urhadd(f, vn, vm))
    [] f.opcode = 3 -> NoQc(CASE f.U = 1 -> dis_bitop(f, vd, vn, vm)
                              [] f.U = 0 /\ f.size = 0 -> dis_and(f, vn, vm)
                              [] f.U = 0 /\ f.size = 1 -> dis_bic_register(f, vn, vm)
                              [] f.U = 0 /\ f.size = 2 -> dis_orr_register(f, vn, vm)
                              [] OTHER -> dis_orn([f EXCEPT !.size = 0], vn, vm))
    [] f.opcode = 4 -> NoQc(dis_shsub_uhsub(f, vn, vm))
    [] f.opcode \in {12, 13} -> NoQc(dis_smax_smin_umax_umin(f, vn, vm))
    [] f.opcode \in {14, 15} -> NoQc(dis_sabd_saba_uabd_uaba(f, vd, vn, vm))
    [] f.opcode = 18 -> NoQc(dis_mal_mls(f, vd, vn, vm))
    [] f.opcode = 19 -> NoQc(IF f.U = 1 THEN dis_pmul(f, vn, vm) ELSE dis_mul(f, vn, vm))
    [] f.opcode \in {20, 21} -> NoQc(dis_smaxp_sminp_umaxp_uminp(f, vn, vm))
    [] f.opcode = 23 -> IF f.U = 1 THEN Illegal ELSE NoQc(dis_addp(f, vn, vm))
    [] OTHER -> ThreeSameCommon(f, vn, vm)

(* Three registers of different lanes.                                      *)
AddSub(is_sub, x, y) == IF is_sub = 1 THEN x - y ELSE x + y
dis_saddl_ssubl_uaddl_usubl(f, vn, vm) ==
  Long(f, LAMBDA i : AddSub(Bit(f.opcode, 1), XLane(f, vn, Src(f, i)), XLane(f, vm, Src(f, i))))
dis_saddw_ssubw_uaddw_usubw(f, vn, vm) ==
  Long(f, LAMBDA i : AddSub(Bit(f.opcode, 1), XLane(Wide(f), vn, i), XLane(f, vm, Src(f, i))))
(* Slip: the rounding forms do not round.                                   *)
AddhnTruncates(f, vd, vn, vm) ==
  LET w == Width(f.size)
      Sum(i) == AddSub(Bit(f.opcode, 1), ULane(Wide(f), vn, i), ULane(Wide(f), vm, i))
  IN  Narrow(f, vd, [i \in NarrowLanes(f) |-> Store(w, Shr(Sum(i), w))])
dis_addhn_raddhn_subhn_rsubhn(f, vd, vn, vm) ==
  LET w == Width(f.size)
      Sum(i) == AddSub(Bit(f.opcode, 1), ULane(Wide(f), vn, i), ULane(Wide(f), vm, i))
  IN  Narrow(f, vd, [i \in NarrowLanes(f) |-> Store(w, Shr(Sum(i) + Rounding(f.U, w), w))])
dis_sabdl_sabal_uabdl_uabal(f, vd, vn, vm) ==
  Long(f, LAMBDA i : (1 - Bit(f.opcode, 1)) * ULane(Wide(f), vd, i)
                     + sabs(XLane(f, vn, Src(f, i)), XLane(f, vm, Src(f, i))))
dis_smlal_smlsl_umlal_umlsl(f, vd, vn, vm) ==
  Long(f, LAMBDA i : AddSub(Bit(f.opcode, 1), ULane(Wide(f), vd, i),
                            XLane(f, vn, Src(f, i)) * XLane(f, vm, Src(f, i))))
(* The doubled product saturates, and so does its sum with the accumulator. *)
Product(f, x, y) == ssat(Width(f.size + 1), 2 * x * y)
Accumulate(f, is_sub, vd, Prod(_)) ==
  LET w == Width(f.size + 1)
      r == LongSat(f, ssat, LAMBDA i : AddSub(is_sub, SLane(Wide(f), vd, i), Signed(w, Prod(i).v)))
  IN  [r EXCEPT !.qc = @ \/ \E i \in Active(WholeOf(f)) : Prod(i).qc]
dis_sqdmlal_sqdmlsl(f, vd, vn, vm) ==
  Accumulate(f, Bit(f.opcode, 1), vd,
             LAMBDA i : Product(f, SLane(f, vn, Src(f, i)), SLane(f, vm, Src(f, i))))
dis_smull_umull(f, vn, vm) ==
  Long(f, LAMBDA i : XLane(f, vn, Src(f, i)) * XLane(f, vm, Src(f, i)))
dis_pmull(f, vn, vm) ==
  LET b == [f EXCEPT !.size = 0]
  IN  Long(b, LAMBDA i : PolyMul(B, vn[Src(b, i)], vm[Src(b, i)]))
dis_sqdmull(f, vn, vm) ==
  LongSat(f, ssat, LAMBDA i : 2 * SLane(f, vn, Src(f, i)) * SLane(f, vm, Src(f, i)))
arm64_hlp_dirty_advanced_simd_simd_three_different_simd(f, vd, vn, vm) ==
  CASE f.opcode \in {0, 2} -> NoQc(dis_saddl_ssubl_uaddl_usubl(f, vn, vm))
    [] f.opcode \in {1, 3} -> NoQc(dis_saddw_ssubw_uaddw_usubw(f, vn, vm))
    [] f.opcode \in {4, 6} -> NoQc(dis_addhn_raddhn_subhn_rsubhn(f, vd, vn, vm))
    [] f.opcode \in {5, 7} -> NoQc(dis_sabdl_sabal_uabdl_uabal(f, vd, vn, vm))
    [] f.opcode \in {8, 10} -> NoQc(dis_smlal_smlsl_umlal_umlsl(f, vd, vn, vm))
    [] f.opcode \in {9, 11} -> IF f.U = 1 THEN Illegal ELSE dis_sqdmlal_sqdmlsl(f, vd, vn, vm)
    [] f.opcode = 12 -> NoQc(dis_smull_umull(f, vn, vm))
    [] f.opcode = 13 -> IF f.U = 1 THEN Illegal ELSE dis_sqdmull(f, vn, vm)
    [] f.opcode = 14 -> IF f.U = 1 THEN Illegal ELSE NoQc(dis_pmull(f, vn, vm))
    [] OTHER -> Illegal
arm64_hlp_dirty_advanced_simd_scalar_three_different_simd(f, vd, vn, vm) ==
  CASE f.opcode \in {9, 11} -> dis_sqdmlal_sqdmlsl(f, vd, vn, vm)
    [] f.opcode = 13 -> dis_sqdmull(f, vn, vm)
    [] OTHER -> Illegal

(* Reductions of a register to its first lane.                              *)
dis_saddlv_uaddlv(f, vn) ==
  Each([Wide(f) EXCEPT !.scalar = TRUE],
       LAMBDA i : MapThenSumSet(LAMBDA j : XLane(f, vn, j), Active(f)))
dis_smaxv_sminv_umaxv_uminv(f, vn) ==
  Each([f EXCEPT !.scalar = TRUE],
       LAMBDA i : LET lanes == {XLane(f, vn, j) : j \in Active(f)}
                  IN  IF Bit(f.opcode, 4) = 1 THEN Min(lanes) ELSE Max(lanes))
dis_addv(f, vn) ==
  Each([f EXCEPT !.scalar = TRUE],
       LAMBDA i : MapThenSumSet(LAMBDA j : ULane(f, vn, j), Active(f)))
arm64_hlp_dirty_advanced_simd_accross_lanes_simd(f, vn) ==
  CASE f.opcode = 3 -> NoQc(dis_saddlv_uaddlv(f, vn))
    [] f.opcode \in {10, 26} -> NoQc(dis_smaxv_sminv_umaxv_uminv(f, vn))
    [] f.opcode = 27 -> IF f.U = 1 THEN Illegal ELSE NoQc(dis_addv(f, vn))
    [] OTHER -> Illegal
arm64_hlp_dirty_advanced_simd_scalar_pair_wise_simd(f, vn) ==
  IF f.opcode = 27 /\ f.U = 0 THEN NoQc(dis_addp(f, vn, vn)) ELSE Illegal

(* Lane f.imm of vm with every lane of vn.                                  *)
dis_mla_mls_by_element(f, vd, vn, vm) ==
  Each(f, LAMBDA i : AddSub(Bit(f.opcode, 2), ULane(f, vd, i),
                            ULane(f, vn, i) * ULane(f, vm, f.imm)))
dis_smlal_smlsl_umlal_umlsl_by_element(f, vd, vn, vm) ==
  Long(f, LAMBDA i : AddSub(Bit(f.opcode, 2), ULane(Wide(f), vd, i),
                            XLane(f, vn, Src(f, i)) * XLane(f, vm, f.imm)))
dis_smull_umull_by_element(f, vn, vm) ==
  Long(f, LAMBDA i : XLane(f, vn, Src(f, i)) * XLane(f, vm, f.imm))
dis_mul_by_element(f, vn, vm) == Each(f, LAMBDA i : ULane(f, vn, i) * ULane(f, vm, f.imm))
dis_sqdmlal_sqdmlsl_by_element(f, vd, vn, vm) ==
  Accumulate(f, Bit(f.opcode, 2), vd,
             LAMBDA i : Product(f, SLane(f, vn, Src(f, i)), SLane(f, vm, f.imm)))
dis_sqdmull_by_element(f, vn, vm) ==
  LongSat(f, ssat, LAMBDA i : 2 * SLane(f, vn, Src(f, i)) * SLane(f, vm, f.imm))
dis_sqdmulh_sqrdmulh_by_element(f, vn, vm) ==
  EachSat(f, ssat, LAMBDA i :
    DoublingHigh(f, SLane(f, vn, i), SLane(f, vm, f.imm), Bit(f.opcode, 0)))
arm64_hlp_dirty_advanced_simd_vector_x_indexed_element_simd(f, vd, vn, vm) ==
  CASE f.opcode \in {0, 4} -> IF f.U = 1 THEN NoQc(dis_mla_mls_by_element(f, vd, vn, vm)) ELSE Illegal
    [] f.opcode \in {2, 6} -> NoQc(dis_smlal_smlsl_umlal_umlsl_by_element(f, vd, vn, vm))
    [] f.opcode \in {3, 7} -> IF f.U = 1 THEN Illegal ELSE dis_sqdmlal_sqdmlsl_by_element(f, vd, vn, vm)
    [] f.opcode = 8 -> IF f.U = 1 THEN Illegal ELSE NoQc(dis_mul_by_element(f, vn, vm))
    [] f.opcode = 10 -> NoQc(dis_smull_umull_by_element(f, vn, vm))
    [] f.opcode = 11 -> IF f.U = 1 THEN Illegal ELSE dis_sqdmull_by_element(f, vn, vm)
    [] f.opcode \in {12, 13} -> IF f.U = 1 THEN Illegal ELSE dis_sqdmulh_sqrdmulh_by_element(f, vn, vm)
    [] OTHER -> Illegal
arm64_hlp_dirty_advanced_simd_scalar_x_indexed_element_simd(f, vd, vn, vm) ==
  CASE f.opcode \in {3, 7} -> IF f.U = 1 THEN Illegal ELSE dis_sqdmlal_sqdmlsl_by_element(f, vd, vn, vm)
    [] f.opcode = 11 -> IF f.U = 1 THEN Illegal ELSE dis_sqdmull_by_element(f, vn, vm)
    [] f.opcode \in {12, 13} -> IF f.U = 1 THEN Illegal ELSE dis_sqdmulh_sqrdmulh_by_element(f, vn, vm)
    [] OTHER -> Illegal

(* Permutations.                                                            *)
HalfOf(f) == IF f.q = 1 THEN HalfLanes(f.size) ELSE HalfLanes(f.size) \div 2
dis_uzp1_uzp2(f, vn, vm) ==
  LET part == Bit(f.opcode, 2)
      n == HalfOf(f)
  IN  Each(f, LAMBDA i : IF i < n THEN ULane(f, vn, 2 * i + part)
                         ELSE ULane(f, vm, 2 * (i - n) + part))
dis_zip1_zip2(f, vn, vm) ==
  LET base == Bit(f.opcode, 2) * HalfOf(f)
  IN  Each(f, LAMBDA i : ULane(f, IF i % 2 = 0 THEN vn ELSE vm, base + (i \div 2)))
dis_trn1_trn2(f, vn, vm) ==
  LET part == Bit(f.opcode, 2)
  IN  Each(f, LAMBDA i : ULane(f, IF i % 2 = 0 THEN vn ELSE vm, 2 * (i \div 2) + part))
arm64_hlp_dirty_advanced_simd_permute_simd(f, vn, vm) ==
  CASE f.opcode \in {1, 5} -> NoQc(dis_uzp1_uzp2(f, vn, vm))
    [] f.opcode \in {3, 7} -> NoQc(dis_zip1_zip2(f, vn, vm))
    [] f.opcode \in {2, 6} -> NoQc(dis_trn1_trn2(f, vn, vm))
    [] OTHER -> Illegal
arm64_hlp_dirty_advanced_simd_ext_simd(f, vn, vm) ==
  LET b == [f EXCEPT !.size = 0]
      n == Cardinality(Active(b))
  IN  Each(b, LAMBDA i : IF f.imm + i < n THEN vn[f.imm + i] ELSE vm[f.imm + i - n])
(* regs is the sequence of the registers from rn on, modulo 32.             *)
arm64_hlp_dirty_advanced_simd_table_lookup_simd(f, vd, regs, vm) ==
  LET n == NbLanes(0)
  IN  Each([f EXCEPT !.size = 0],
           LAMBDA i : IF vm[i] < n * (f.len + 1) THEN regs[(vm[i] \div n) + 1][vm[i] % n]
                      ELSE f.is_tbx * vd[i])

(* Loads and stores of structures: the lane j of register r is the element  *)
(* j * nb + r of the memory, of registers stored one after the other (ld1)  *)
(* the element r * lanes + j.  mem is the function of the bytes at and      *)
(* after the address; the answer of a load is the registers and the bytes   *)
(* it read, of a store the memory it leaves and the bytes it wrote.         *)
StructureNb(opcode) ==
  CASE opcode = 7 -> 1 [] opcode \in {8, 10} -> 2 [] opcode \in {4, 6} -> 3
    [] opcode \in {0, 2} -> 4
IsOne(opcode) == Bit(opcode, 1) = 1         \* ld1, st1
Element(f, r, j) ==
  IF IsOne(f.opcode) THEN r * Cardinality(Active(f)) + j
  ELSE j * StructureNb(f.opcode) + r
StructureBytes(f) == 2^f.size * StructureNb(f.opcode) * Cardinality(Active(f))
MemLane(size, mem, e) ==
  MapThenSumSet(LAMBDA k : mem[e * 2^size + k] * 2^(B * k), 0 .. 2^size - 1)
dis_load_multiple_structure(f, mem) ==
  [regs |-> [r \in 1 .. StructureNb(f.opcode) |->
               Each(f, LAMBDA j : MemLane(f.size, mem, Element(f, r - 1, j)))],
   offset |-> StructureBytes(f)]
dis_store_multiple_structure(f, regs, mem) ==
  [mem |-> [a \in DOMAIN mem |->
      IF a >= StructureBytes(f) THEN mem[a]
      ELSE LET at == CHOOSE x \in (1 .. StructureNb(f.opcode)) \X Active(f) :
                        Element(f, x[1] - 1, x[2]) = a \div 2^f.size
           IN  regs[at[1]][at[2] * 2^f.size + (a % 2^f.size)]],
   offset |-> StructureBytes(f)]
dis_load_single_structure_replicate(f, mem) ==
  [regs |-> [s \in 1 .. f.selem |-> Each(f, LAMBDA i : MemLane(f.size, mem, s - 1))],
   offset |-> f.selem * 2^f.size]
dis_load_single_structure(f, regs, mem) ==
  [regs |-> [s \in 1 .. f.selem |->
      Register(f.size, [i \in 0 .. NbLanes(f.size) - 1 |->
         IF i = f.imm THEN MemLane(f.size, mem, s - 1) ELSE ULane(f, regs[s], i)])],
   offset |-> f.selem * 2^f.size]
dis_store_single_structure(f, regs, mem) ==
  [mem |-> [a \in DOMAIN mem |->
      IF a >= f.selem * 2^f.size THEN mem[a]
      ELSE regs[a \div 2^f.size + 1][f.imm * 2^f.size + (a % 2^f.size)]],
   offset |-> f.selem * 2^f.size]
(* The base register after the instruction.                                 *)
PostIndex(base, rm, step, offset) == base + IF rm = 31 THEN offset ELSE step
=============================================================================
