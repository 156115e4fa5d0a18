---------------------------- MODULE Arm64FpuSimd ----------------------------
(* The floating point vector instructions of the arm64 guest                *)
(* (arm64_helpers_simd.c).  form holds the fields of an instruction: the    *)
(* format (is_double), the lanes it works on (q, scalar) and the variant it *)
(* selects (is_sub, is_min, index, fracbits).                               *)
EXTENDS Arm64FpuCommon

SimdRounding(regs, rm) == [regs EXCEPT !.rm = rm]
(* A conversion of each lane to or from an integer of its own width.       *)
LaneFormat(form) == IF form.is_double THEN Double ELSE Single
LaneWidth(form) == IF form.is_double THEN I64 ELSE I32
Integral(form, vn, Conv32(_, _), Conv64(_, _), st) ==
  LET f == LaneFormat(form)
      w == LaneWidth(form)
  IN  Lanewise(form, LAMBDA i :
        IF is_any_nan(f, vn[i]) THEN Res(0, {"invalid"})
        ELSE LET r == IF form.is_double THEN Conv64(vn[i], st) ELSE Conv32(vn[i], st) IN Res(Uint(w, r.z), r.fl))
SignedLane(form, x) == LET w == LaneWidth(form) IN IF x >= 2^(w - 1) THEN x - 2^w ELSE x

dis_ucvtf(form, vn, regs) ==
  Lanewise(form, LAMBDA i : IF form.is_double THEN uint64_to_float64(vn[i], regs) ELSE uint32_to_float32(vn[i], regs))
dis_scvtf(form, vn, regs) ==
  Lanewise(form, LAMBDA i : LET n == SignedLane(form, vn[i]) IN
             IF form.is_double THEN int64_to_float64(n, regs) ELSE int32_to_float32(n, regs))
Rescaled(form, v, regs) ==
  LET r == Unary(form, LAMBDA a, st : float32_scalbn(a, -form.fracbits, st),
                       LAMBDA a, st : float64_scalbn(a, -form.fracbits, st), v.z, regs)
  IN  Raise(r, v.fl)
dis_ucvtf_fixed(form, vn, regs) == Rescaled(form, dis_ucvtf(form, vn, regs), regs)
dis_scvtf_fixed(form, vn, regs) == Rescaled(form, dis_scvtf(form, vn, regs), regs)
dis_fcvtzu_fixed(form, vn, regs) ==
  Unary(form, LAMBDA a, st : fcvtzu32_fixed_32(a, form.fracbits, st),
              LAMBDA a, st : fcvtzu64_fixed_64(a, form.fracbits, st), vn, regs)
dis_fcvtzs_fixed(form, vn, regs) ==
  Unary(form, LAMBDA a, st : fcvtzs32_fixed_32(a, form.fracbits, st),
              LAMBDA a, st : fcvtzs64_fixed_64(a, form.fracbits, st), vn, regs)

dis_fcvtu(form, vn, rm, regs) == Integral(form, vn, float32_to_uint32, float64_to_uint64, SimdRounding(regs, rm))
dis_fcvts(form, vn, rm, regs) == Integral(form, vn, float32_to_int32, float64_to_int64, SimdRounding(regs, rm))
dis_fcvtpu(form, vn, regs) == dis_fcvtu(form, vn, "up", regs)
dis_fcvtps(form, vn, regs) == dis_fcvts(form, vn, "up", regs)
dis_fcvtnu(form, vn, regs) == dis_fcvtu(form, vn, "nearest_even", regs)
dis_fcvtns(form, vn, regs) == dis_fcvts(form, vn, "nearest_even", regs)
dis_fcvtzu(form, vn, regs) == dis_fcvtu(form, vn, "to_zero", regs)
dis_fcvtzs(form, vn, regs) == dis_fcvts(form, vn, "to_zero", regs)
dis_fcvtmu(form, vn, regs) == dis_fcvtu(form, vn, "down", regs)
dis_fcvtms(form, vn, regs) == dis_fcvts(form, vn, "down", regs)
dis_fcvtau(form, vn, regs) == dis_fcvtu(form, vn, "ties_away", regs)
dis_fcvtas(form, vn, regs) == dis_fcvts(form, vn, "ties_away", regs)

(* Narrowing: from two doubles to two singles or from four singles to four *)
(* halves, in the upper half of the result for the "2" variant, which      *)
(* keeps the lower one.  vd and the result are lanes of the narrow format. *)
Narrowed(form, n, Op(_), vd) ==
  LET r == [i \in 0..n - 1 |-> Op(i)]
      base == IF form.q = 1 /\ ~ form.scalar THEN n ELSE 0
      kept == IF form.q = 1 /\ ~ form.scalar THEN vd ELSE [i \in 0..n - 1 |-> 0]
      some == IF form.scalar THEN {0} ELSE 0..n - 1
  IN  Res([i \in 0..2 * n - 1 |-> IF i - base \in some THEN r[i - base].z ELSE IF i < base THEN kept[i] ELSE 0],
          UNION {r[i].fl : i \in some})
dis_fcvtxn(form, vd, vn, regs) == Narrowed(form, 2, LAMBDA i : fcvtxn64(vn[i], regs), vd)
HalfTo(f, r, regs) == IF IEEE_H16(regs) THEN Res(maybe_silence_nan(f, r.z), r.fl) ELSE r
dis_fcvtn(form, vd, vn, regs) ==
  IF form.is_double
  THEN Narrowed(form, 2, LAMBDA i : LET r == float64_to_float32(vn[i], regs)
                                    IN  Res(maybe_silence_nan(Single, r.z), r.fl), vd)
  ELSE Narrowed(form, 4, LAMBDA i : HalfTo(Half, float32_to_float16(vn[i], IEEE_H16(regs), regs), regs), vd)
dis_fcvtl(form, vn, regs) ==
  Lanewise([form EXCEPT !.q = 1], LAMBDA i :
    IF form.is_double
    THEN LET r == float32_to_float64(vn[2 * form.q + i], regs) IN Res(maybe_silence_nan(Double, r.z), r.fl)
    ELSE HalfTo(Single, float16_to_float32(vn[4 * form.q + i], IEEE_H16(regs), regs), regs))

dis_frint(form, vn, rm, regs) ==
  LET r == Unary(form, float32_round_to_int, float64_round_to_int, vn, SimdRounding(regs, rm))
  IN  Res(r.z, r.fl \ {"inexact"})
dis_frinta(form, vn, regs) == dis_frint(form, vn, "ties_away", regs)
dis_frintp(form, vn, regs) == dis_frint(form, vn, "up", regs)
dis_frintn(form, vn, regs) == dis_frint(form, vn, "nearest_even", regs)
dis_frinti(form, vn, regs) == dis_frint(form, vn, regs.rm, regs)
dis_frintz(form, vn, regs) == dis_frint(form, vn, "to_zero", regs)
dis_frintx(form, vn, regs) == Unary(form, float32_round_to_int, float64_round_to_int, vn, regs)
dis_frintm(form, vn, regs) == dis_frint(form, vn, "down", regs)

dis_fsqrt(form, vn, regs) == Unary(form, fsqrt32, fsqrt64, vn, regs)
dis_frsqrte(form, vn, regs) == Unary(form, frsqrte32, frsqrte64, vn, regs)
dis_frecpe(form, vn, regs) == Unary(form, frecpe32, frecpe64, vn, regs)
dis_frecpx(form, vn, regs) == Unary([form EXCEPT !.scalar = TRUE], frecpx32, frecpx64, vn, regs)

(* ---------------------------------------------------------------------- *)
(* Two operands.  Forms of doubles with q clear exist for the steps of     *)
(* Newton's iterations only, and work on one lane.                         *)

Multiplied(form, vd, vn, vm, m(_), regs) ==
  Lanewise(form, LAMBDA i :
    IF form.is_double THEN fmadd64(IF form.is_sub THEN fneg64(vn[i]) ELSE vn[i], vm[m(i)], vd[i], regs)
    ELSE fmadd32(IF form.is_sub THEN fneg32(vn[i]) ELSE vn[i], vm[m(i)], vd[i], regs))
dis_fmla_fmls(form, vd, vn, vm, regs) == Multiplied(form, vd, vn, vm, LAMBDA i : i, regs)
dis_fabd(form, vn, vm, regs) ==
  LET r == Binary(form, fsub32, fsub64, vn, vm, regs)
  IN  Res([i \in DOMAIN r.z |-> IF form.is_double THEN fabs64(r.z[i]) ELSE fabs32(r.z[i])], r.fl)
dis_fadd_fsub(form, vn, vm, regs) ==
  IF form.is_sub THEN Binary(form, fsub32, fsub64, vn, vm, regs) ELSE Binary(form, fadd32, fadd64, vn, vm, regs)
dis_fmax_fmin(form, vn, vm, regs) ==
  IF form.is_min THEN Binary(form, fmin32, fmin64, vn, vm, regs) ELSE Binary(form, fmax32, fmax64, vn, vm, regs)
dis_fmaxnm_fminnm(form, vn, vm, regs) ==
  IF form.is_min THEN Binary(form, fminnm32, fminnm64, vn, vm, regs)
  ELSE Binary(form, fmaxnm32, fmaxnm64, vn, vm, regs)
dis_fdiv(form, vn, vm, regs) == Binary(form, fdiv32, fdiv64, vn, vm, regs)
dis_fmul(form, vn, vm, regs) == Binary(form, fmul32, fmul64, vn, vm, regs)
dis_fmulx(form, vn, vm, regs) == Binary(form, fmulx32, fmulx64, vn, vm, regs)
OneDouble(form) == [form EXCEPT !.scalar = @ \/ (form.is_double /\ form.q = 0)]
dis_frecps(form, vn, vm, regs) == Binary(OneDouble(form), frecps32, frecps64, vn, vm, regs)
dis_frsqrts(form, vn, vm, regs) == Binary(OneDouble(form), frsqrts32, frsqrts64, vn, vm, regs)

(* A comparison fills its lane.                                            *)
Mask(f, r) == Res(IF r.z THEN 2 * SignBit(f) - 1 ELSE 0, r.fl)
DIS_FCM(form, Op32(_, _, _), Op64(_, _, _), vn, vm, regs) ==
  Binary(form, LAMBDA a, b, st : Mask(Single, Op32(a, b, st)), LAMBDA a, b, st : Mask(Double, Op64(a, b, st)),
         vn, vm, regs)
ZeroLanes(form) == [i \in Elements(form.is_double) |-> 0]
dis_fcmeq_zero(form, vn, regs) == DIS_FCM(form, fcmpeq32, fcmpeq64, vn, ZeroLanes(form), regs)
dis_fcmge_zero(form, vn, regs) == DIS_FCM(form, fcmpge32, fcmpge64, vn, ZeroLanes(form), regs)
dis_fcmgt_zero(form, vn, regs) == DIS_FCM(form, fcmpgt32, fcmpgt64, vn, ZeroLanes(form), regs)
dis_fcmle_zero(form, vn, regs) == DIS_FCM(form, fcmple32, fcmple64, vn, ZeroLanes(form), regs)
dis_fcmlt_zero(form, vn, regs) == DIS_FCM(form, fcmplt32, fcmplt64, vn, ZeroLanes(form), regs)
dis_fcmeq(form, vn, vm, regs) == DIS_FCM(form, fcmpeq32, fcmpeq64, vn, vm, regs)
dis_fcmge(form, vn, vm, regs) == DIS_FCM(form, fcmpge32, fcmpge64, vn, vm, regs)
dis_fcmgt(form, vn, vm, regs) == DIS_FCM(form, fcmpgt32, fcmpgt64, vn, vm, regs)
AbsLanes(form, v) == [i \in DOMAIN v |-> IF form.is_double THEN fabs64(v[i]) ELSE fabs32(v[i])]
dis_facge(form, vn, vm, regs) == dis_fcmge(form, AbsLanes(form, vn), AbsLanes(form, vm), regs)
dis_facgt(form, vn, vm, regs) == dis_fcmgt(form, AbsLanes(form, vn), AbsLanes(form, vm), regs)

(* Pairs of adjacent lanes, of vn and then of vm.                          *)
Pairwise(form, Op32(_, _, _), Op64(_, _, _), vn, vm, regs) ==
  LET half == IF form.is_double \/ form.q = 0 THEN 1 ELSE 2
      src(i) == IF i < half THEN vn ELSE vm
      k(i) == 2 * (i % half)
  IN  Lanewise(form, LAMBDA i : IF form.is_double THEN Op64(src(i)[k(i)], src(i)[k(i) + 1], regs)
                                ELSE Op32(src(i)[k(i)], src(i)[k(i) + 1], regs))
dis_faddp(form, vn, vm, regs) == Pairwise(form, fadd32, fadd64, vn, vm, regs)
dis_fmaxp_fminp(form, vn, vm, regs) ==
  IF form.is_min THEN Pairwise(form, fmin32, fmin64, vn, vm, regs) ELSE Pairwise(form, fmax32, fmax64, vn, vm, regs)
dis_fmaxnmp_fminnmp(form, vn, vm, regs) ==
  IF form.is_min THEN Pairwise(form, fminnm32, fminnm64, vn, vm, regs)
  ELSE Pairwise(form, fmaxnm32, fmaxnm64, vn, vm, regs)

(* Over the four singles of a register, pair by pair.                      *)
Across(Op(_, _, _), vn, regs) ==
  LET low == Op(vn[0], vn[1], regs)
      high == Op(vn[2], vn[3], regs)
  IN  Raise(Op(low.z, high.z, regs), low.fl \cup high.fl)
dis_fmaxv_fminv(form, vn, regs) == IF form.is_min THEN Across(fmin32, vn, regs) ELSE Across(fmax32, vn, regs)
dis_fmaxnmv_fminnmv(form, vn, regs) ==
  IF form.is_min THEN Across(fminnm32, vn, regs) ELSE Across(fmaxnm32, vn, regs)

(* One lane of vm for all.                                                 *)
dis_fmla_fmls_by_element(form, vd, vn, vm, regs) == Multiplied(form, vd, vn, vm, LAMBDA i : form.index, regs)
Spread(form, vm) == [i \in Elements(form.is_double) |-> vm[form.index]]
dis_fmul_by_element(form, vn, vm, regs) == dis_fmul(form, vn, Spread(form, vm), regs)
dis_fmulx_by_element(form, vn, vm, regs) == dis_fmulx(form, vn, Spread(form, vm), regs)
=============================================================================
