--------------------------- MODULE Arm64FpuCommon ---------------------------
(* The floating point operations that the scalar and the vector             *)
(* instructions of the arm64 guest share                                    *)
(* (arm64_helpers_simd_fpu_common.c).  regs is the part of the registers    *)
(* they read: the status of SoftFloat and fast, which says that the control *)
(* register has its default value (fast_math_is_allow); the flags of the    *)
(* host are accumulated with those of the software, as read_fpsr does.      *)
EXTENDS FpuEstimates

(* The sum and product of the host processor, in its default mode.  It     *)
(* decides that a result is tiny after it has rounded it, as if the        *)
(* exponent had no lower limit.                                            *)
HostAdd(f, a, b, st) ==
  IF extractSign(f, a) = extractSign(f, b) THEN addFloatSigs(f, a, b, extractSign(f, a), st)
  ELSE subFloatSigs(f, a, b, extractSign(f, a), st)
Host(f, Op(_, _, _, _), a, b) ==
  LET st == [rm |-> "nearest_even", ftz |-> FALSE, fiz |-> FALSE, dnan |-> FALSE]
      g == [f EXCEPT !.E = @ + 1]
      r == Op(f, a, b, st)
      free == Op(g, widen(f, g, a, st).z, widen(f, g, b, st).z, st).z
      tiny == extractExp(g, free) - Bias(g) < 1 - Bias(f)
  IN  Res(r.z, (r.fl \ {"underflow"}) \cup When("inexact" \in r.fl /\ tiny, {"underflow"}))

(* The half format of IEEE, not the alternative one of FPCR.AHP.           *)
IEEE_H16(regs) == "AHP" \notin regs.fpcr_others
is_not_nan_or_infinite_32(a) == extractExp(Single, a) # ExpMax(Single)
is_not_nan_or_infinite_64(a) == extractExp(Double, a) # ExpMax(Double)
(* Slip: the second operand is not looked at.                              *)
Fast32LooksAtFirst(a, b, regs) == regs.fast /\ is_not_nan_or_infinite_32(a)
Fast32(a, b, regs) == regs.fast /\ is_not_nan_or_infinite_32(a) /\ is_not_nan_or_infinite_32(b)
Fast64(a, b, regs) == regs.fast /\ is_not_nan_or_infinite_64(a) /\ is_not_nan_or_infinite_64(b)

fneg32(a) == Negate(Single, a)
fneg64(a) == Negate(Double, a)
fabs32(a) == a % SignBit(Single)
fabs64(a) == a % SignBit(Double)

fsub32(a, b, regs) == IF Fast32(a, b, regs) THEN Host(Single, HostAdd, a, fneg32(b)) ELSE float32_sub(a, b, regs)
fsub64(a, b, regs) == IF Fast64(a, b, regs) THEN Host(Double, HostAdd, a, fneg64(b)) ELSE float64_sub(a, b, regs)
fadd32(a, b, regs) == IF Fast32(a, b, regs) THEN Host(Single, HostAdd, a, b) ELSE float32_add(a, b, regs)
fadd64(a, b, regs) == IF Fast64(a, b, regs) THEN Host(Double, HostAdd, a, b) ELSE float64_add(a, b, regs)
fmul32(a, b, regs) == IF Fast32(a, b, regs) THEN Host(Single, mulFloat, a, b) ELSE float32_mul(a, b, regs)
fmul64(a, b, regs) == IF Fast64(a, b, regs) THEN Host(Double, mulFloat, a, b) ELSE float64_mul(a, b, regs)

(* Zero times infinity is two.                                             *)
Mulx(f, a, b, product, regs) ==
  IF InfZero(f, Squash(f, a, regs), Squash(f, b, regs))
  THEN Res(packFloat(f, (extractSign(f, a) + extractSign(f, b)) % 2, Bias(f) + 1, 0), SquashFlags(f, {a, b}, regs))
  ELSE product
fmulx32(a, b, regs) == Mulx(Single, a, b, float32_mul(a, b, regs), regs)
fmulx64(a, b, regs) == Mulx(Double, a, b, float64_mul(a, b, regs), regs)

fdiv32(a, b, regs) == float32_div(a, b, regs)
fdiv64(a, b, regs) == float64_div(a, b, regs)
fmadd32(a, b, acc, regs) == float32_muladd(a, b, acc, {}, regs)
fmadd64(a, b, acc, regs) == float64_muladd(a, b, acc, {}, regs)
fmax32(a, b, regs) == float32_max(a, b, regs)
fmax64(a, b, regs) == float64_max(a, b, regs)
fmaxnm32(a, b, regs) == float32_maxnum(a, b, regs)
fmaxnm64(a, b, regs) == float64_maxnum(a, b, regs)
fmin32(a, b, regs) == float32_min(a, b, regs)
fmin64(a, b, regs) == float64_min(a, b, regs)
fminnm32(a, b, regs) == float32_minnum(a, b, regs)
fminnm64(a, b, regs) == float64_minnum(a, b, regs)
fsqrt32(a, regs) == float32_sqrt(a, regs)
fsqrt64(a, regs) == float64_sqrt(a, regs)

fcmpeq32(a, b, regs) == float32_eq_quiet(b, a, regs)
fcmpeq64(a, b, regs) == float64_eq_quiet(b, a, regs)
fcmpge32(a, b, regs) == float32_le(b, a, regs)
fcmpge64(a, b, regs) == float64_le(b, a, regs)
fcmpgt32(a, b, regs) == float32_lt(b, a, regs)
fcmpgt64(a, b, regs) == float64_lt(b, a, regs)
fcmple32(a, b, regs) == float32_le(a, b, regs)
fcmple64(a, b, regs) == float64_le(a, b, regs)
fcmplt32(a, b, regs) == float32_lt(a, b, regs)
fcmplt64(a, b, regs) == float64_lt(a, b, regs)

(* The bits n, z, c and v of a relation.                                   *)
Nzcv(relation) == CASE relation = -1 -> 8 [] relation = 0 -> 6 [] relation = 1 -> 2 [] OTHER -> 3
fcmp32(a, b, is_quiet, regs) ==
  LET r == IF is_quiet THEN float32_compare_quiet(a, b, regs) ELSE float32_compare(a, b, regs)
  IN  Res(Nzcv(r.z), r.fl)
fcmp64(a, b, is_quiet, regs) ==
  LET r == IF is_quiet THEN float64_compare_quiet(a, b, regs) ELSE float64_compare(a, b, regs)
  IN  Res(Nzcv(r.z), r.fl)

frecpe32(a, regs) == recpe(Single, a, regs)
frecpe64(a, regs) == recpe(Double, a, regs)
frsqrte32(a, regs) == rsqrte(Single, a, regs)
frsqrte64(a, regs) == rsqrte(Double, a, regs)

(* 2 - a * b and (3 - a * b) / 2, where zero times infinity counts as 0.   *)
Step(f, a, b, c, special, flags, st) ==
  LET x == Negate(f, Squash(f, a, st))
      y == Squash(f, b, st)
  IN  Flushed(f, {a, b}, st, IF InfZero(f, x, y) THEN Res(special, {}) ELSE muladdFloat(f, x, y, c, flags, st))
Three(f) == Power(f, 1) + 2^(f.F - 1)
OnePointFive(f) == Power(f, 0) + 2^(f.F - 1)
frecps32(a, b, regs) == Step(Single, a, b, Power(Single, 1), Power(Single, 1), {}, regs)
frecps64(a, b, regs) == Step(Double, a, b, Power(Double, 1), Power(Double, 1), {}, regs)
frsqrts32(a, b, regs) == Step(Single, a, b, Three(Single), OnePointFive(Single), {"halve_result"}, regs)
frsqrts64(a, b, regs) == Step(Double, a, b, Three(Double), OnePointFive(Double), {"halve_result"}, regs)

recpx(f, a, st) ==
  LET exp == extractExp(f, a)
  IN  IF is_any_nan(f, a) THEN OwnNaN(f, a, st)
      ELSE Res(packFloat(f, extractSign(f, a), ExpMax(f) - IF exp = 0 THEN 1 ELSE exp, 0), {})
frecpx32(a, regs) == recpx(Single, a, regs)
frecpx64(a, regs) == recpx(Double, a, regs)

(* ---------------------------------------------------------------------- *)
(* Conversions                                                            *)

(* Rounded to odd: truncated, and the last bit set when that is inexact.   *)
fcvtxn64(a, regs) ==
  LET r == float64_to_float32(a, ToZero(regs))
      q == maybe_silence_nan(Single, r.z)
  IN  Res(IF "inexact" \in r.fl /\ q % 2 = 0 THEN q + 1 ELSE q, r.fl)

fcvtzs32_fixed_32(a, fracbits, regs) == ToFixed(Single, float32_to_int32_round_to_zero, a, fracbits, I32, regs)
fcvtzs32_fixed_64(a, fracbits, regs) == ToFixed(Single, float32_to_int64_round_to_zero, a, fracbits, I64, regs)
fcvtzs64_fixed_64(a, fracbits, regs) == ToFixed(Double, float64_to_int64_round_to_zero, a, fracbits, I64, regs)
fcvtzs64_fixed_32(a, fracbits, regs) == ToFixed(Double, float64_to_int32_round_to_zero, a, fracbits, I32, regs)
fcvtzu32_fixed_32(a, fracbits, regs) == ToFixed(Single, float32_to_uint32_round_to_zero, a, fracbits, I32, regs)
fcvtzu32_fixed_64(a, fracbits, regs) == ToFixed(Single, float32_to_uint64_round_to_zero, a, fracbits, I64, regs)
fcvtzu64_fixed_64(a, fracbits, regs) == ToFixed(Double, float64_to_uint64_round_to_zero, a, fracbits, I64, regs)
fcvtzu64_fixed_32(a, fracbits, regs) == ToFixed(Double, float64_to_uint32_round_to_zero, a, fracbits, I32, regs)

(* ---------------------------------------------------------------------- *)
(* A register is the lanes of the view an instruction works on: four       *)
(* singles or two doubles.  Lanes that an instruction does not write are   *)
(* cleared; every lane adds its flags.                                     *)

Elements(is_double) == 0..(IF is_double THEN 1 ELSE 3)
ActiveLanes(form) ==
  IF form.scalar THEN {0} ELSE IF form.is_double THEN {0, 1} ELSE 0..(IF form.q = 1 THEN 3 ELSE 1)
Lanewise(form, Op(_)) ==
  LET r == [i \in ActiveLanes(form) |-> Op(i)]
  IN  Res([i \in Elements(form.is_double) |-> IF i \in ActiveLanes(form) THEN r[i].z ELSE 0],
          UNION {r[i].fl : i \in ActiveLanes(form)})
(* The operation of the format that the form names.                        *)
Unary(form, Op32(_, _), Op64(_, _), vn, regs) ==
  Lanewise(form, LAMBDA i : IF form.is_double THEN Op64(vn[i], regs) ELSE Op32(vn[i], regs))
Binary(form, Op32(_, _, _), Op64(_, _, _), vn, vm, regs) ==
  Lanewise(form, LAMBDA i : IF form.is_double THEN Op64(vn[i], vm[i], regs) ELSE Op32(vn[i], vm[i], regs))

dis_fabs(form, vn, regs) ==
  Unary(form, LAMBDA a, r : Res(fabs32(a), {}), LAMBDA a, r : Res(fabs64(a), {}), vn, regs)
dis_fneg(form, vn, regs) ==
  Unary(form, LAMBDA a, r : Res(fneg32(a), {}), LAMBDA a, r : Res(fneg64(a), {}), vn, regs)
=============================================================================
