------------------------------- MODULE ArmFloat -------------------------------
(* The floating point of the 32 bit guest (arm_helpers.c, arm_softfloat.c):  *)
(* VFP instructions work with the status of the guest, NEON instructions     *)
(* with a status of their own that flushes denormals, rounds to nearest and  *)
(* answers the default NaN.  insn holds the fields of an instruction; d, n,  *)
(* m are the values of its registers, which the code indexes by the fields.  *)
EXTENDS FpuEstimates, TLC

ArmIllegal == Res("illegal", {})
SimdStatus == [rm |-> "nearest_even", ftz |-> TRUE, fiz |-> TRUE, dnan |-> TRUE]

(* ---------------------------------------------------------------------- *)
(* Control and status: the flags of both statuses are accumulated.  A      *)
(* write gives its flags to the status of VFP and clears those of NEON.    *)

arm_rm_to_softfloat_rm(arm_rm) ==
  CASE arm_rm = 0 -> "nearest_even" [] arm_rm = 1 -> "up" [] arm_rm = 2 -> "down" [] arm_rm = 3 -> "to_zero"
softfloat_rm_to_arm_rm(rm) ==
  CASE rm = "nearest_even" -> 0 [] rm = "down" -> 2 [] rm = "up" -> 1 [] rm = "to_zero" -> 3

ArmFlagNames == [input_denormal |-> "IDC", inexact |-> "IXC", underflow |-> "UFC", output_denormal |-> "UFC",
                 overflow |-> "OFC", divbyzero |-> "DZC", invalid |-> "IOC"]
arm_fpscr_to_softfloat(value) ==
  [st |-> [rm |-> arm_rm_to_softfloat_rm(value.rmode), ftz |-> value.fz, fiz |-> value.fz, dnan |-> value.dn],
   exc |-> {x \in DOMAIN ArmFlagNames \ {"output_denormal"} : ArmFlagNames[x] \in value.flags},
   excSimd |-> {}]
softfloat_to_arm_fpscr(kept, st, exc, excSimd) ==
  [dn |-> st.dnan, fz |-> st.ftz, rmode |-> softfloat_rm_to_arm_rm(st.rm), others |-> kept.others,
   flags |-> kept.flags \cup {ArmFlagNames[x] : x \in exc \cup excSimd}]
(* Of the flags only IDC is among the bits that fpscr itself keeps.        *)
hlp_write_fpscr(value) ==
  [fpscr |-> [others |-> value.others, flags |-> value.flags \cap {"IDC"}]] @@ arm_fpscr_to_softfloat(value)
hlp_read_fpscr(regs) == softfloat_to_arm_fpscr(regs.fpscr, regs.st, regs.exc, regs.excSimd)

(* ---------------------------------------------------------------------- *)
(* VFP                                                                     *)

(* An operation on the results of others: their flags are raised too.      *)
Then(r, Op(_)) == Raise(Op(r.z), r.fl)

fneg32(a) == Negate(Single, a)
fabs32(a) == a % SignBit(Single)
fadd32(a, b, st) == float32_add(a, b, st)
fsub32(a, b, st) == float32_sub(a, b, st)
fmul32(a, b, st) == float32_mul(a, b, st)
fdiv32(a, b, st) == float32_div(a, b, st)
fcmp32(a, b, is_quiet, st) ==
  LET r == IF is_quiet THEN float32_compare_quiet(a, b, st) ELSE float32_compare(a, b, st)
  IN  Res(CASE r.z = -1 -> 8 [] r.z = 0 -> 6 [] r.z = 1 -> 2 [] OTHER -> 3, r.fl)
fmla32(a, b, acc, st) == Then(fmul32(a, b, st), LAMBDA p : fadd32(acc, p, st))
fmls32(a, b, acc, st) == Then(fmul32(a, b, st), LAMBDA p : fadd32(acc, fneg32(p), st))
fnmla32(a, b, acc, st) == Then(fmul32(a, b, st), LAMBDA p : fadd32(fneg32(acc), fneg32(p), st))
fnmls32(a, b, acc, st) == Then(fmul32(a, b, st), LAMBDA p : fadd32(fneg32(acc), p, st))
fmadd32(a, b, acc, st) == float32_muladd(a, b, acc, {}, st)
fsqrt32(a, st) == float32_sqrt(a, st)

fneg64(a) == Negate(Double, a)
fabs64(a) == a % SignBit(Double)
fadd64(a, b, st) == float64_add(a, b, st)
fsub64(a, b, st) == float64_sub(a, b, st)
fmul64(a, b, st) == float64_mul(a, b, st)
fdiv64(a, b, st) == float64_div(a, b, st)
fcmp64(a, b, is_quiet, st) ==
  LET r == IF is_quiet THEN float64_compare_quiet(a, b, st) ELSE float64_compare(a, b, st)
  IN  Res(CASE r.z = -1 -> 8 [] r.z = 0 -> 6 [] r.z = 1 -> 2 [] OTHER -> 3, r.fl)
fmla64(a, b, acc, st) == Then(fmul64(a, b, st), LAMBDA p : fadd64(acc, p, st))
fmls64(a, b, acc, st) == Then(fmul64(a, b, st), LAMBDA p : fadd64(acc, fneg64(p), st))
fnmla64(a, b, acc, st) == Then(fmul64(a, b, st), LAMBDA p : fadd64(fneg64(acc), fneg64(p), st))
fnmls64(a, b, acc, st) == Then(fmul64(a, b, st), LAMBDA p : fadd64(fneg64(acc), p, st))
fmadd64(a, b, acc, st) == float64_muladd(a, b, acc, {}, st)
fsqrt64(a, st) == float64_sqrt(a, st)

(* A NaN converts to the integer 0.                                        *)
Converted(f, a, w, r) == IF is_any_nan(f, a) THEN Res(0, {"invalid"}) ELSE Res(Uint(w, r.z), r.fl)
vcvt_float32_to_int32_round_to_zero(a, st) == Converted(Single, a, I32, float32_to_int32_round_to_zero(a, st))
vcvt_float32_to_uint32_round_to_zero(a, st) == Converted(Single, a, I32, float32_to_uint32_round_to_zero(a, st))
vcvt_float32_to_int32(a, st) == Converted(Single, a, I32, float32_to_int32(a, st))
vcvt_float32_to_uint32(a, st) == Converted(Single, a, I32, float32_to_uint32(a, st))
vcvt_float64_to_int32_round_to_zero(a, st) == Converted(Double, a, I32, float64_to_int32_round_to_zero(a, st))
vcvt_float64_to_uint32_round_to_zero(a, st) == Converted(Double, a, I32, float64_to_uint32_round_to_zero(a, st))
vcvt_float64_to_int32(a, st) == Converted(Double, a, I32, float64_to_int32(a, st))
vcvt_float64_to_uint32(a, st) == Converted(Double, a, I32, float64_to_uint32(a, st))

SInt(w, a) == LET x == Uint(w, a) IN IF x >= 2^(w - 1) THEN x - 2^w ELSE x
vcvt_int32_to_float64(a, st) == int32_to_float64(SInt(I32, a), st)
vcvt_uint32_to_float64(a, st) == uint32_to_float64(Uint(I32, a), st)
vcvt_int32_to_float32(a, st) == int32_to_float32(SInt(I32, a), st)
vcvt_uint32_to_float32(a, st) == uint32_to_float32(Uint(I32, a), st)
Silenced(f, r) == Res(maybe_silence_nan(f, r.z), r.fl)
vcvt_float64_to_float32(a, st) == Silenced(Single, float64_to_float32(a, st))
vcvt_float32_to_float64(a, st) == Silenced(Double, float32_to_float64(a, st))
(* ieee is IEEE_H16, AHP clear in fpscr.                                   *)
HalfTo(f, r, ieee) == IF ieee THEN Silenced(f, r) ELSE r
vcvtx_float16_to_float32_fixed(a, ieee, st) == HalfTo(Single, float16_to_float32(a, ieee, st), ieee)
vcvtx_float32_to_float16_fixed(a, ieee, st) == HalfTo(Half, float32_to_float16(a, ieee, st), ieee)

(* To and from fixed point numbers.  A double register keeps the integer   *)
(* extended to its width by its sign.                                      *)
Width(f) == 1 + f.E + f.F
vcvt_float64_to_int32_fixed(a, fracbits, st) ==
  ToFixed(Double, float64_to_int32_round_to_zero, a, fracbits, Width(Double), st)
vcvt_float64_to_uint32_fixed(a, fracbits, st) ==
  ToFixed(Double, float64_to_uint32_round_to_zero, a, fracbits, Width(Double), st)
vcvt_float64_to_int16_fixed(a, fracbits, st) ==
  ToFixed(Double, float64_to_int16_round_to_zero, a, fracbits, Width(Double), st)
vcvt_float64_to_uint16_fixed(a, fracbits, st) ==
  ToFixed(Double, float64_to_uint16_round_to_zero, a, fracbits, Width(Double), st)
vcvt_float32_to_int32_fixed(a, fracbits, st) ==
  ToFixed(Single, float32_to_int32_round_to_zero, a, fracbits, Width(Single), st)
vcvt_float32_to_uint32_fixed(a, fracbits, st) ==
  ToFixed(Single, float32_to_uint32_round_to_zero, a, fracbits, Width(Single), st)
vcvt_float32_to_int16_fixed(a, fracbits, st) ==
  ToFixed(Single, float32_to_int16_round_to_zero, a, fracbits, Width(Single), st)
vcvt_float32_to_uint16_fixed(a, fracbits, st) ==
  ToFixed(Single, float32_to_uint16_round_to_zero, a, fracbits, Width(Single), st)
vcvt_int32_to_float64_fixed(a, fracbits, st) ==
  Then(int32_to_float64(SInt(I32, a), st), LAMBDA z : float64_scalbn(z, -fracbits, st))
vcvt_uint32_to_float64_fixed(a, fracbits, st) ==
  Then(uint32_to_float64(Uint(I32, a), st), LAMBDA z : float64_scalbn(z, -fracbits, st))
vcvt_int16_to_float64_fixed(a, fracbits, st) ==
  Then(int32_to_float64(SInt(I16, a), st), LAMBDA z : float64_scalbn(z, -fracbits, st))
vcvt_uint16_to_float64_fixed(a, fracbits, st) ==
  Then(uint32_to_float64(Uint(I16, a), st), LAMBDA z : float64_scalbn(z, -fracbits, st))
vcvt_int32_to_float32_fixed(a, fracbits, st) ==
  Then(int32_to_float32(SInt(I32, a), st), LAMBDA z : float32_scalbn(z, -fracbits, st))
vcvt_uint32_to_float32_fixed(a, fracbits, st) ==
  Then(uint32_to_float32(Uint(I32, a), st), LAMBDA z : float32_scalbn(z, -fracbits, st))
vcvt_int16_to_float32_fixed(a, fracbits, st) ==
  Then(int32_to_float32(SInt(I16, a), st), LAMBDA z : float32_scalbn(z, -fracbits, st))
vcvt_uint16_to_float32_fixed(a, fracbits, st) ==
  Then(uint32_to_float32(Uint(I16, a), st), LAMBDA z : float32_scalbn(z, -fracbits, st))
(* ---------------------------------------------------------------------- *)
(* The operations of NEON                                                  *)

fadd32_neon(a, b) == float32_add(a, b, SimdStatus)
fsub32_neon(a, b) == float32_sub(a, b, SimdStatus)
fmul32_neon(a, b) == float32_mul(a, b, SimdStatus)
fmax32_neon(a, b) == float32_max(a, b, SimdStatus)
fmin32_neon(a, b) == float32_min(a, b, SimdStatus)
fabd32_neon(a, b) == LET r == fsub32_neon(a, b) IN Res(fabs32(r.z), r.fl)
fmla32_neon(a, b, acc) == Then(fmul32_neon(a, b), LAMBDA p : fadd32_neon(acc, p))
fmls32_neon(a, b, acc) == Then(fmul32_neon(a, b), LAMBDA p : fadd32_neon(acc, fneg32(p)))
fmadd32_neon(a, b, acc) == float32_muladd(a, b, acc, {}, SimdStatus)
frecpe32_neon(a) == recpe(Single, a, SimdStatus)
frsqrte32_neon(a) == rsqrte(Single, a, SimdStatus)

(* 2 - a * b and (3 - a * b) / 2, rounded after each operation; infinity   *)
(* times zero, or times a denormal, counts as 0.                           *)
is_zero_or_denormal(f, a) == extractExp(f, a) = 0
InfTimesNothing(a, b) ==
  \/ is_infinity(Single, a) /\ is_zero_or_denormal(Single, b)
  \/ is_infinity(Single, b) /\ is_zero_or_denormal(Single, a)
DenormalMet(a, b) == When(~ (is_zero(Single, a) \/ is_zero(Single, b)), {"input_denormal"})
frecps32_neon(a, b) ==
  IF InfTimesNothing(a, b) THEN Res(Power(Single, 1), DenormalMet(a, b))
  ELSE Then(fmul32_neon(a, b), LAMBDA p : fsub32_neon(Power(Single, 1), p))
frsqrts32_neon(a, b) ==
  LET three == Power(Single, 1) + 2^(Single.F - 1)
      one_point_five == Power(Single, 0) + 2^(Single.F - 1)
  IN  IF InfTimesNothing(a, b) THEN Res(one_point_five, DenormalMet(a, b))
      ELSE Then(Then(fmul32_neon(a, b), LAMBDA p : fsub32_neon(three, p)),
                LAMBDA x : float32_div(x, Power(Single, 1), SimdStatus))

fcmpge32_neon(a, b) == float32_le(b, a, SimdStatus)
fcmpgt32_neon(a, b) == float32_lt(b, a, SimdStatus)
feq32_neon(a, b) == float32_eq_quiet(a, b, SimdStatus)
fge32_neon(a, b) == float32_le(b, a, SimdStatus)
fgt32_neon(a, b) == float32_lt(b, a, SimdStatus)
fle32_neon(a, b) == float32_le(a, b, SimdStatus)
flt32_neon(a, b) == float32_lt(a, b, SimdStatus)

vcvt_float32_to_uint32_neon(a) == vcvt_float32_to_uint32_round_to_zero(a, SimdStatus)
vcvt_float32_to_int32_neon(a) == vcvt_float32_to_int32_round_to_zero(a, SimdStatus)
vcvt_int32_to_float32_neon(a) == vcvt_int32_to_float32(a, SimdStatus)
vcvt_uint32_to_float32_neon(a) == vcvt_uint32_to_float32(a, SimdStatus)
vcvt_float32_to_int32_fixed_neon(a, fracbits) == vcvt_float32_to_int32_fixed(a, fracbits, SimdStatus)
vcvt_float32_to_uint32_fixed_neon(a, fracbits) == vcvt_float32_to_uint32_fixed(a, fracbits, SimdStatus)
vcvt_int32_to_float32_fixed_neon(a, fracbits) == vcvt_int32_to_float32_fixed(a, fracbits, SimdStatus)
vcvt_uint32_to_float32_fixed_neon(a, fracbits) == vcvt_uint32_to_float32_fixed(a, fracbits, SimdStatus)
vcvt_float16_to_float32_neon(a, ieee) == vcvtx_float16_to_float32_fixed(a, ieee, SimdStatus)
vcvt_float32_to_float16_neon(a, ieee) == vcvtx_float32_to_float16_fixed(a, ieee, SimdStatus)

(* ---------------------------------------------------------------------- *)
(* VFP instructions                                                        *)

dis_common_vmla_vmls_vfp(insn, d, n, m, st) ==
  CASE insn.is_double /\ insn.is_sub -> fmls64(n, m, d, st)
    [] insn.is_double /\ ~ insn.is_sub -> fmla64(n, m, d, st)
    [] ~ insn.is_double /\ insn.is_sub -> fmls32(n, m, d, st)
    [] ~ insn.is_double /\ ~ insn.is_sub -> fmla32(n, m, d, st)
dis_common_vnmla_vnmls_vfp(insn, d, n, m, st) ==
  CASE insn.is_double /\ insn.is_sub -> fnmla64(n, m, d, st)
    [] insn.is_double /\ ~ insn.is_sub -> fnmls64(n, m, d, st)
    [] ~ insn.is_double /\ insn.is_sub -> fnmla32(n, m, d, st)
    [] ~ insn.is_double /\ ~ insn.is_sub -> fnmls32(n, m, d, st)
dis_common_vmul_vfp(insn, n, m, st) == IF insn.is_double THEN fmul64(n, m, st) ELSE fmul32(n, m, st)
dis_common_vabs_vfp(insn, m) == Res(IF insn.is_double THEN fabs64(m) ELSE fabs32(m), {})
dis_common_vneg_vfp(insn, m) == Res(IF insn.is_double THEN fneg64(m) ELSE fneg32(m), {})
dis_common_vnmul_vfp(insn, n, m, st) ==
  Then(dis_common_vmul_vfp(insn, n, m, st), LAMBDA p : dis_common_vneg_vfp(insn, p))
dis_common_vadd_vsub_vfp(insn, n, m, st) ==
  CASE insn.is_double /\ insn.is_sub -> fsub64(n, m, st)
    [] insn.is_double /\ ~ insn.is_sub -> fadd64(n, m, st)
    [] ~ insn.is_double /\ insn.is_sub -> fsub32(n, m, st)
    [] ~ insn.is_double /\ ~ insn.is_sub -> fadd32(n, m, st)
dis_common_vdiv_vfp(insn, n, m, st) == IF insn.is_double THEN fdiv64(n, m, st) ELSE fdiv32(n, m, st)
dis_common_vsqrt_vfp(insn, m, st) == IF insn.is_double THEN fsqrt64(m, st) ELSE fsqrt32(m, st)
(* is_neg is the same bit of the instruction as is_sub.                    *)
dis_common_vfma_vfms(insn, d, n, m, st) ==
  IF insn.is_double THEN fmadd64(IF insn.is_sub THEN fneg64(n) ELSE n, m, d, st)
  ELSE fmadd32(IF insn.is_sub THEN fneg32(n) ELSE n, m, d, st)
dis_common_vfnma_vfnms(insn, d, n, m, st) ==
  dis_common_vfma_vfms(insn, IF insn.is_double THEN fneg64(d) ELSE fneg32(d), n, m, st)

(* Half of a single register is converted, the other half of d stays.      *)
dis_common_vcvtb_vcvtt_vfp(insn, d, m, ieee, st) ==
  LET h == Width(Half)
      half(x) == IF insn.top THEN x \div 2^h ELSE x % 2^h
      r == vcvtx_float32_to_float16_fixed(m, ieee, st)
  IN  IF insn.half_to_single THEN vcvtx_float16_to_float32_fixed(half(m) % 2^h, ieee, st)
      ELSE Res(IF insn.top THEN (d % 2^h) + r.z * 2^h ELSE (d - (d % 2^h)) + r.z, r.fl)
(* The answer goes to the flags of fpscr.                                  *)
dis_common_vcmp_vcmpe_vfp(insn, d, m, st) ==
  LET y == IF insn.is_with_zero THEN 0 ELSE m
  IN  IF insn.is_double THEN fcmp64(d, y, insn.is_quiet, st) ELSE fcmp32(d, y, insn.is_quiet, st)
dis_common_vcvt_double_single_vfp(insn, m, st) ==
  IF insn.is_double THEN vcvt_float64_to_float32(m, st) ELSE vcvt_float32_to_float64(m, st)
dis_common_vcvt_vcvtr_floating_integer_vfp(insn, m, st) ==
  CASE insn.is_to_integer /\ insn.is_double /\ insn.is_signed ->
         IF insn.op THEN vcvt_float64_to_int32_round_to_zero(m, st) ELSE vcvt_float64_to_int32(m, st)
    [] insn.is_to_integer /\ insn.is_double /\ ~ insn.is_signed ->
         IF insn.op THEN vcvt_float64_to_uint32_round_to_zero(m, st) ELSE vcvt_float64_to_uint32(m, st)
    [] insn.is_to_integer /\ ~ insn.is_double /\ insn.is_signed ->
         IF insn.op THEN vcvt_float32_to_int32_round_to_zero(m, st) ELSE vcvt_float32_to_int32(m, st)
    [] insn.is_to_integer /\ ~ insn.is_double /\ ~ insn.is_signed ->
         IF insn.op THEN vcvt_float32_to_uint32_round_to_zero(m, st) ELSE vcvt_float32_to_uint32(m, st)
    [] ~ insn.is_to_integer /\ insn.is_double ->
         IF insn.op THEN vcvt_int32_to_float64(m, st) ELSE vcvt_uint32_to_float64(m, st)
    [] ~ insn.is_to_integer /\ ~ insn.is_double ->
         IF insn.op THEN vcvt_int32_to_float32(m, st) ELSE vcvt_uint32_to_float32(m, st)
(* In place; sx: the integer has 32 bits.                                  *)
dis_common_vcvt_floating_fixed_vfp(insn, d, st) ==
  LET fb == (IF insn.sx THEN I32 ELSE I16) - insn.imm
      S == insn.is_signed
  IN  CASE insn.is_to_fixed /\ insn.is_double /\ insn.sx ->
             IF S THEN vcvt_float64_to_int32_fixed(d, fb, st) ELSE vcvt_float64_to_uint32_fixed(d, fb, st)
        [] insn.is_to_fixed /\ insn.is_double /\ ~ insn.sx ->
             IF S THEN vcvt_float64_to_int16_fixed(d, fb, st) ELSE vcvt_float64_to_uint16_fixed(d, fb, st)
        [] insn.is_to_fixed /\ ~ insn.is_double /\ insn.sx ->
             IF S THEN vcvt_float32_to_int32_fixed(d, fb, st) ELSE vcvt_float32_to_uint32_fixed(d, fb, st)
        [] insn.is_to_fixed /\ ~ insn.is_double /\ ~ insn.sx ->
             IF S THEN vcvt_float32_to_int16_fixed(d, fb, st) ELSE vcvt_float32_to_uint16_fixed(d, fb, st)
        [] ~ insn.is_to_fixed /\ insn.is_double /\ insn.sx ->
             IF S THEN vcvt_int32_to_float64_fixed(d, fb, st) ELSE vcvt_uint32_to_float64_fixed(d, fb, st)
        [] ~ insn.is_to_fixed /\ insn.is_double /\ ~ insn.sx ->
             IF S THEN vcvt_int16_to_float64_fixed(d, fb, st) ELSE vcvt_uint16_to_float64_fixed(d, fb, st)
        [] ~ insn.is_to_fixed /\ ~ insn.is_double /\ insn.sx ->
             IF S THEN vcvt_int32_to_float32_fixed(d, fb, st) ELSE vcvt_uint32_to_float32_fixed(d, fb, st)
        [] ~ insn.is_to_fixed /\ ~ insn.is_double /\ ~ insn.sx ->
             IF S THEN vcvt_int16_to_float32_fixed(d, fb, st) ELSE vcvt_uint16_to_float32_fixed(d, fb, st)

hlp_common_vfp_data_processing_insn(insn, d, n, m, ieee, st) ==
  CASE insn.opc1 \in {0, 4} -> dis_common_vmla_vmls_vfp(insn, d, n, m, st)
    [] insn.opc1 \in {1, 5} -> dis_common_vnmla_vnmls_vfp(insn, d, n, m, st)
    [] insn.opc1 \in {2, 6} ->
         IF insn.is_sub THEN dis_common_vnmul_vfp(insn, n, m, st) ELSE dis_common_vmul_vfp(insn, n, m, st)
    [] insn.opc1 \in {3, 7} -> dis_common_vadd_vsub_vfp(insn, n, m, st)
    [] insn.opc1 \in {8, 12} -> dis_common_vdiv_vfp(insn, n, m, st)
    [] insn.opc1 \in {9, 13} -> dis_common_vfnma_vfnms(insn, d, n, m, st)
    [] insn.opc1 \in {10, 14} -> dis_common_vfma_vfms(insn, d, n, m, st)
    [] insn.opc1 \in {11, 15} ->
         CASE insn.opc2 = 0 -> dis_common_vabs_vfp(insn, m)
           [] insn.opc2 = 1 ->
                IF insn.op THEN dis_common_vsqrt_vfp(insn, m, st) ELSE dis_common_vneg_vfp(insn, m)
           [] insn.opc2 \in {2, 3} -> dis_common_vcvtb_vcvtt_vfp(insn, d, m, ieee, st)
           [] insn.opc2 \in {4, 5} -> dis_common_vcmp_vcmpe_vfp(insn, d, m, st)
           [] insn.opc2 = 7 -> dis_common_vcvt_double_single_vfp(insn, m, st)
           [] insn.opc2 \in {8, 12, 13} -> dis_common_vcvt_vcvtr_floating_integer_vfp(insn, m, st)
           [] insn.opc2 \in {10, 11, 14, 15} -> dis_common_vcvt_floating_fixed_vfp(insn, d, st)
           [] OTHER -> ArmIllegal
    [] OTHER -> ArmIllegal

(* ---------------------------------------------------------------------- *)
(* NEON instructions: two lanes in each of one or two registers, all of    *)
(* them computed before the first is written.                              *)

LanesOf(insn) == 0..2 * insn.reg_nb - 1
PerLane(insn, Op(_)) ==
  LET r == [i \in LanesOf(insn) |-> Op(i)]
  IN  Res([i \in LanesOf(insn) |-> r[i].z], UNION {r[i].fl : i \in LanesOf(insn)})
(* Of each register the lower result is from the pair in n, the upper from *)
(* the pair in m.                                                          *)
PerPair(insn, Op(_, _), n, m) ==
  PerLane(insn, LAMBDA i : LET v == IF i % 2 = 0 THEN n ELSE m
                               r == 2 * (i \div 2)
                           IN  Op(v[r], v[r + 1]))
AllOnes(r) == Res(IF r.z THEN 2^Width(Single) - 1 ELSE 0, r.fl)

dis_common_vrecps_simd(insn, n, m) == PerLane(insn, LAMBDA i : frecps32_neon(n[i], m[i]))
dis_common_vrsqrts_simd(insn, n, m) == PerLane(insn, LAMBDA i : frsqrts32_neon(n[i], m[i]))
dis_common_vpmax_vpmin_fpu_simd(insn, n, m) ==
  PerPair(insn, LAMBDA a, b : IF insn.is_sub THEN fmin32_neon(a, b) ELSE fmax32_neon(a, b), n, m)
dis_common_vmax_vmin_fpu_simd(insn, n, m) ==
  PerLane(insn, LAMBDA i : IF insn.is_sub THEN fmin32_neon(n[i], m[i]) ELSE fmax32_neon(n[i], m[i]))
dis_common_vfma_vfms_simd(insn, d, n, m) ==
  PerLane(insn, LAMBDA i : fmadd32_neon(IF insn.is_sub THEN fneg32(n[i]) ELSE n[i], m[i], d[i]))
dis_common_vmul_f32_simd(insn, n, m) == PerLane(insn, LAMBDA i : fmul32_neon(n[i], m[i]))
dis_common_vmla_vmls_f32_simd(insn, d, n, m) ==
  PerLane(insn, LAMBDA i : IF insn.is_sub THEN fmls32_neon(n[i], m[i], d[i]) ELSE fmla32_neon(n[i], m[i], d[i]))
dis_common_vabd_fpu_simd(insn, n, m) == PerLane(insn, LAMBDA i : fabd32_neon(n[i], m[i]))
dis_common_vpadd_fpu_simd(n, m) == PerPair([reg_nb |-> 1], fadd32_neon, n, m)
dis_common_vadd_vsub_fpu_simd(insn, n, m) ==
  PerLane(insn, LAMBDA i : IF insn.is_sub THEN fsub32_neon(n[i], m[i]) ELSE fadd32_neon(n[i], m[i]))
dis_common_vacge_vacgt_simd(insn, n, m) ==
  PerLane(insn, LAMBDA i : AllOnes(IF insn.or_equal THEN fcmpge32_neon(fabs32(n[i]), fabs32(m[i]))
                                   ELSE fcmpgt32_neon(fabs32(n[i]), fabs32(m[i]))))

(* Without f the operand is a fraction of I32 bits whose top bit (one of   *)
(* whose top two bits) must be set.                                        *)
Fraction(op, bits) == (op % 2^bits) * 2^(Double.F - bits)
FixedEstimate(z) == Res(2^(I32 - 1) + ((z \div 2^(Double.F - (I32 - 1))) % 2^(I32 - 1)), {})
dis_common_vrecpe_simd(insn, m) ==
  PerLane(insn, LAMBDA i :
    IF insn.f THEN frecpe32_neon(m[i])
    ELSE IF m[i] < 2^(I32 - 1) THEN Res(2^I32 - 1, {})
    ELSE FixedEstimate(recip_estimate(packFloat(Double, 0, Bias(Double) - 1, Fraction(m[i], I32 - 1)), SimdStatus)))
dis_common_vrsqrte_simd(insn, m) ==
  PerLane(insn, LAMBDA i :
    IF insn.f THEN frsqrte32_neon(m[i])
    ELSE IF m[i] < 2^(I32 - 2) THEN Res(2^I32 - 1, {})
    ELSE LET half == m[i] >= 2^(I32 - 1)
         IN  FixedEstimate(recip_sqrt_estimate(
               packFloat(Double, 0, Bias(Double) - IF half THEN 1 ELSE 2, Fraction(m[i], I32 - IF half THEN 1 ELSE 2)),
               SimdStatus)))

dis_common_vcvt_floating_integer_simd(insn, m) ==
  PerLane(insn, LAMBDA i :
    CASE insn.to_integer /\ insn.is_unsigned -> vcvt_float32_to_uint32_neon(m[i])
      [] insn.to_integer /\ ~ insn.is_unsigned -> vcvt_float32_to_int32_neon(m[i])
      [] ~ insn.to_integer /\ insn.is_unsigned -> vcvt_uint32_to_float32_neon(m[i])
      [] ~ insn.to_integer /\ ~ insn.is_unsigned -> vcvt_int32_to_float32_neon(m[i]))
dis_common_vcvt_floating_fixed_simd(insn, m) ==
  PerLane(insn, LAMBDA i :
    CASE insn.to_integer /\ insn.is_unsigned -> vcvt_float32_to_uint32_fixed_neon(m[i], insn.fracbits)
      [] insn.to_integer /\ ~ insn.is_unsigned -> vcvt_float32_to_int32_fixed_neon(m[i], insn.fracbits)
      [] ~ insn.to_integer /\ insn.is_unsigned -> vcvt_uint32_to_float32_fixed_neon(m[i], insn.fracbits)
      [] ~ insn.to_integer /\ ~ insn.is_unsigned -> vcvt_int32_to_float32_fixed_neon(m[i], insn.fracbits))
(* Four halves of a register to four singles of two, or back.              *)
dis_common_vcvt_half_single_simd(insn, m, ieee) ==
  PerLane([reg_nb |-> 2],
    LAMBDA i : IF insn.half_to_single THEN vcvt_float16_to_float32_neon(m[i], ieee)
               ELSE vcvt_float32_to_float16_neon(m[i], ieee))
===============================================================================
