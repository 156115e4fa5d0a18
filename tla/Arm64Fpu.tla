------------------------------ MODULE Arm64Fpu ------------------------------
(* The scalar floating point instructions of the arm64 guest                *)
(* (arm64_helpers_fpu.c) and the mapping of its control and status          *)
(* registers to the software floating point (arm64_softfloat.c).  insn      *)
(* holds the fields of an instruction; vn, vm, va are lane 0 of its         *)
(* operands, rn the general register.  A vector result is its lane 0, the   *)
(* other lanes are cleared.                                                 *)
EXTENDS Arm64FpuCommon

Illegal == Res("illegal", {})

(* ---------------------------------------------------------------------- *)
(* Control and status.  RM_TIEEVEN, RM_POSINF, RM_NEGINF, RM_ZERO and      *)
(* RM_TIEAWAY are 0 to 4.                                                  *)

arm64_rm_to_softfloat_rm(arm_rm) ==
  CASE arm_rm = 0 -> "nearest_even" [] arm_rm = 1 -> "up" [] arm_rm = 2 -> "down"
    [] arm_rm = 3 -> "to_zero" [] arm_rm = 4 -> "ties_away"
softfloat_rm_to_arm64_rm(rm) ==
  CASE rm = "nearest_even" -> 0 [] rm = "up" -> 1 [] rm = "down" -> 2 [] rm = "to_zero" -> 3 [] rm = "ties_away" -> 4

FpsrNames == [input_denormal |-> "IDC", inexact |-> "IXC", underflow |-> "UFC", output_denormal |-> "UFC",
              overflow |-> "OFC", divbyzero |-> "DZC", invalid |-> "IOC"]
softfloat_to_arm64_fpsr(exc, qc) == {FpsrNames[x] : x \in exc} \cup qc
softfloat_to_arm64_cpsr(regs, fpcr_others) ==
  [dn |-> regs.dnan, fz |-> regs.ftz, rmode |-> softfloat_rm_to_arm64_rm(regs.rm) % 4, others |-> fpcr_others]

arm64_hlp_write_fpsr(value) ==
  [qc |-> value \cap {"QC"}, host |-> {},
   exc |-> {x \in DOMAIN FpsrNames \ {"output_denormal"} : FpsrNames[x] \in value}]
arm64_hlp_read_fpsr(exc, host, qc) == softfloat_to_arm64_fpsr(exc, qc) \cup {FpsrNames[x] : x \in host}
(* Slip: the fast path stays on in other rounding modes.                   *)
WriteFpcrIgnoresMode(value) ==
  [rm |-> arm64_rm_to_softfloat_rm(value.rmode), ftz |-> value.fz, fiz |-> value.fz, dnan |-> value.dn,
   fast |-> ~ (value.dn \/ value.fz), fpcr_others |-> value.others]
arm64_hlp_write_fpcr(value) ==
  LET rm == arm64_rm_to_softfloat_rm(value.rmode)
  IN  [rm |-> rm, ftz |-> value.fz, fiz |-> value.fz, dnan |-> value.dn,
       fast |-> ~ (value.dn \/ value.fz \/ rm # "nearest_even"), fpcr_others |-> value.others]
arm64_hlp_read_fpcr(regs) == softfloat_to_arm64_cpsr(regs, regs.fpcr_others)

(* ---------------------------------------------------------------------- *)
(* One source.  The half format is the one of IEEE, which has NaNs to      *)
(* silence, or the alternative one.                                        *)

SilencedTo(f, r) == Res(maybe_silence_nan(f, r.z), r.fl)
HalfTo(f, r, regs) == IF IEEE_H16(regs) THEN SilencedTo(f, r) ELSE r
dis_fcvt(insn, vn, regs) ==
  CASE insn.type = 1 /\ insn.opc = 0 -> SilencedTo(Single, float64_to_float32(vn, regs))
    [] insn.type = 0 /\ insn.opc = 1 -> SilencedTo(Double, float32_to_float64(vn, regs))
    [] insn.type = 0 /\ insn.opc = 3 -> HalfTo(Half, float32_to_float16(vn, IEEE_H16(regs), regs), regs)
    [] insn.type = 1 /\ insn.opc = 3 -> HalfTo(Half, float64_to_float16(vn, IEEE_H16(regs), regs), regs)
    [] insn.type = 3 /\ insn.opc = 0 -> HalfTo(Single, float16_to_float32(vn, IEEE_H16(regs), regs), regs)
    [] insn.type = 3 /\ insn.opc = 1 -> HalfTo(Double, float16_to_float64(vn, IEEE_H16(regs), regs), regs)
    [] OTHER -> Illegal

RoundToInt(is_double, a, st) == IF is_double THEN float64_round_to_int(a, st) ELSE float32_round_to_int(a, st)
Rounding(regs, rmode) == [regs EXCEPT !.rm = arm64_rm_to_softfloat_rm(rmode)]
(* The inexact flag the rounding raises is dropped; one that was there     *)
(* stays.                                                                  *)
dis_frint(insn, vn, rmode, regs) ==
  LET r == RoundToInt(insn.is_double, vn, Rounding(regs, rmode)) IN Res(r.z, r.fl \ {"inexact"})
dis_frintn(insn, vn, regs) == dis_frint(insn, vn, 0, regs)
dis_frintp(insn, vn, regs) == dis_frint(insn, vn, 1, regs)
dis_frintm(insn, vn, regs) == dis_frint(insn, vn, 2, regs)
dis_frintz(insn, vn, regs) == dis_frint(insn, vn, 3, regs)
dis_frinta(insn, vn, regs) == dis_frint(insn, vn, 4, regs)
dis_frintx(insn, vn, regs) == RoundToInt(insn.is_double, vn, regs)
dis_frinti(insn, vn, regs) == dis_frint(insn, vn, softfloat_rm_to_arm64_rm(regs.rm), regs)
dis_fsqrt(insn, vn, regs) == IF insn.is_double THEN fsqrt64(vn, regs) ELSE fsqrt32(vn, regs)

arm64_hlp_dirty_floating_point_data_processing_1_source(insn, vn, regs) ==
  CASE insn.opcode = 1 -> Res(IF insn.is_double THEN fabs64(vn) ELSE fabs32(vn), {})
    [] insn.opcode = 2 -> Res(IF insn.is_double THEN fneg64(vn) ELSE fneg32(vn), {})
    [] insn.opcode = 3 -> dis_fsqrt(insn, vn, regs)
    [] insn.opcode \in {4, 5, 7} -> dis_fcvt(insn, vn, regs)
    [] insn.opcode = 8 -> dis_frintn(insn, vn, regs)
    [] insn.opcode = 9 -> dis_frintp(insn, vn, regs)
    [] insn.opcode = 10 -> dis_frintm(insn, vn, regs)
    [] insn.opcode = 11 -> dis_frintz(insn, vn, regs)
    [] insn.opcode = 12 -> dis_frinta(insn, vn, regs)
    [] insn.opcode = 14 -> dis_frintx(insn, vn, regs)
    [] insn.opcode = 15 -> dis_frinti(insn, vn, regs)
    [] OTHER -> Illegal

(* ---------------------------------------------------------------------- *)
(* Two and three sources, compare and select                              *)

arm64_hlp_dirty_floating_point_data_processing_2_source_simd(insn, vn, vm, regs) ==
  LET D == insn.is_double
      product == IF D THEN fmul64(vn, vm, regs) ELSE fmul32(vn, vm, regs)
  IN  CASE insn.opcode = 0 -> product
        [] insn.opcode = 1 -> IF D THEN fdiv64(vn, vm, regs) ELSE fdiv32(vn, vm, regs)
        [] insn.opcode = 2 -> IF D THEN fadd64(vn, vm, regs) ELSE fadd32(vn, vm, regs)
        [] insn.opcode = 3 -> IF D THEN fsub64(vn, vm, regs) ELSE fsub32(vn, vm, regs)
        [] insn.opcode = 4 -> IF D THEN fmax64(vn, vm, regs) ELSE fmax32(vn, vm, regs)
        [] insn.opcode = 5 -> IF D THEN fmin64(vn, vm, regs) ELSE fmin32(vn, vm, regs)
        [] insn.opcode = 6 -> IF D THEN fmaxnm64(vn, vm, regs) ELSE fmaxnm32(vn, vm, regs)
        [] insn.opcode = 7 -> IF D THEN fminnm64(vn, vm, regs) ELSE fminnm32(vn, vm, regs)
        [] insn.opcode = 8 -> Res(IF D THEN fneg64(product.z) ELSE fneg32(product.z), product.fl)
        [] OTHER -> Illegal

arm64_hlp_dirty_floating_point_data_processing_3_source_simd(insn, vn, vm, va, regs) ==
  LET n == IF insn.o1_o0 \in {1, 2} THEN IF insn.is_double THEN fneg64(vn) ELSE fneg32(vn) ELSE vn
      a == IF insn.o1_o0 \in {2, 3} THEN IF insn.is_double THEN fneg64(va) ELSE fneg32(va) ELSE va
  IN  IF insn.is_double THEN fmadd64(n, vm, a, regs) ELSE fmadd32(n, vm, a, regs)

Compare(insn, a, b, regs) ==
  IF insn.is_double THEN fcmp64(a, b, insn.is_quiet, regs) ELSE fcmp32(a, b, insn.is_quiet, regs)
arm64_hlp_dirty_floating_point_compare_simd(insn, vn, vm, regs) ==
  Compare(insn, vn, IF insn.is_compare_zero THEN 0 ELSE vm, regs)

(* holds is the condition of the instruction in the current flags.         *)
dis_fccmp_fccmpe(insn, holds, vn, vm, regs) ==
  IF holds THEN Compare(insn, vn, vm, regs) ELSE Res(insn.nzcv, {})
arm64_hlp_dirty_floating_point_conditional_compare(insn, holds, vn, vm, regs) ==
  dis_fccmp_fccmpe(insn, holds, vn, vm, regs)
arm64_hlp_dirty_floating_point_conditional_select_simd(holds, vn, vm) == Res(IF holds THEN vn ELSE vm, {})

(* Sign, three bits of exponent and four of fraction; the exponent is      *)
(* expanded by repeating its second bit.                                   *)
ExpandedImm(f, imm8) ==
  LET i6 == (imm8 \div 2^6) % 2
  IN  (imm8 \div 2^7) * SignBit(f) + (1 - i6) * 2^(f.E + f.F - 1)
      + MapThenSumSet(LAMBDA k : i6 * 2^(f.F + k), 3..f.E - 2) + (imm8 % 2^7) * 2^(f.F - 4)
arm64_hlp_dirty_floating_point_immediate_simd(insn) ==
  Res(ExpandedImm(IF insn.is_double THEN Double ELSE Single, insn.imm8), {})

(* ---------------------------------------------------------------------- *)
(* Conversions; insn.sf: the general register has 64 bits                  *)

SignedOf(w, r) == LET x == Uint(w, r) IN IF x >= 2^(w - 1) THEN x - 2^w ELSE x
arm64_hlp_dirty_scvtf_scalar_integer_simd(insn, rn, regs) ==
  CASE ~ insn.sf /\ ~ insn.is_double -> int32_to_float32(SignedOf(I32, rn), regs)
    [] ~ insn.sf /\ insn.is_double -> int32_to_float64(SignedOf(I32, rn), regs)
    [] insn.sf /\ ~ insn.is_double -> int64_to_float32(SignedOf(I64, rn), regs)
    [] insn.sf /\ insn.is_double -> int64_to_float64(SignedOf(I64, rn), regs)
arm64_hlp_dirty_ucvtf_scalar_integer_simd(insn, rn, regs) ==
  CASE ~ insn.sf /\ ~ insn.is_double -> uint32_to_float32(Uint(I32, rn), regs)
    [] ~ insn.sf /\ insn.is_double -> uint32_to_float64(Uint(I32, rn), regs)
    [] insn.sf /\ ~ insn.is_double -> uint64_to_float32(rn, regs)
    [] insn.sf /\ insn.is_double -> uint64_to_float64(rn, regs)

ToInteger(insn, vn, r) ==
  IF is_any_nan(IF insn.is_double THEN Double ELSE Single, vn) THEN Res(0, {"invalid"})
  ELSE Res(Uint(IF insn.sf THEN I64 ELSE I32, r.z), r.fl)
dis_fcvtu_scalar_integer(insn, vn, rmode, regs) ==
  LET st == Rounding(regs, rmode)
  IN  ToInteger(insn, vn,
        CASE ~ insn.sf /\ ~ insn.is_double -> float32_to_uint32(vn, st)
          [] ~ insn.sf /\ insn.is_double -> float64_to_uint32(vn, st)
          [] insn.sf /\ ~ insn.is_double -> float32_to_uint64(vn, st)
          [] insn.sf /\ insn.is_double -> float64_to_uint64(vn, st))
dis_fcvts_scalar_integer(insn, vn, rmode, regs) ==
  LET st == Rounding(regs, rmode)
  IN  ToInteger(insn, vn,
        CASE ~ insn.sf /\ ~ insn.is_double -> float32_to_int32(vn, st)
          [] ~ insn.sf /\ insn.is_double -> float64_to_int32(vn, st)
          [] insn.sf /\ ~ insn.is_double -> float32_to_int64(vn, st)
          [] insn.sf /\ insn.is_double -> float64_to_int64(vn, st))
dis_fcvtnu_scalar_integer(insn, vn, regs) == dis_fcvtu_scalar_integer(insn, vn, 0, regs)
dis_fcvtns_scalar_integer(insn, vn, regs) == dis_fcvts_scalar_integer(insn, vn, 0, regs)
dis_fcvtpu_scalar_integer(insn, vn, regs) == dis_fcvtu_scalar_integer(insn, vn, 1, regs)
dis_fcvtps_scalar_integer(insn, vn, regs) == dis_fcvts_scalar_integer(insn, vn, 1, regs)
dis_fcvtmu_scalar_integer(insn, vn, regs) == dis_fcvtu_scalar_integer(insn, vn, 2, regs)
dis_fcvtms_scalar_integer(insn, vn, regs) == dis_fcvts_scalar_integer(insn, vn, 2, regs)
dis_fcvtzu_scalar_integer(insn, vn, regs) == dis_fcvtu_scalar_integer(insn, vn, 3, regs)
dis_fcvtzs_scalar_integer(insn, vn, regs) == dis_fcvts_scalar_integer(insn, vn, 3, regs)
dis_fcvtau_scalar_integer(insn, vn, regs) == dis_fcvtu_scalar_integer(insn, vn, 4, regs)
dis_fcvtas_scalar_integer(insn, vn, regs) == dis_fcvts_scalar_integer(insn, vn, 4, regs)

(* The formats are single and double; the others are illegal.              *)
arm64_hlp_dirty_fcvtxx_scalar_integer_simd(insn, vn, regs) ==
  CASE insn.rmode = 0 /\ insn.opcode = 5 -> dis_fcvtau_scalar_integer(insn, vn, regs)
    [] insn.rmode = 2 /\ insn.opcode = 1 -> dis_fcvtmu_scalar_integer(insn, vn, regs)
    [] insn.rmode = 0 /\ insn.opcode = 0 -> dis_fcvtns_scalar_integer(insn, vn, regs)
    [] insn.rmode = 0 /\ insn.opcode = 1 -> dis_fcvtnu_scalar_integer(insn, vn, regs)
    [] insn.rmode = 1 /\ insn.opcode = 1 -> dis_fcvtpu_scalar_integer(insn, vn, regs)
    [] insn.rmode = 3 /\ insn.opcode = 0 -> dis_fcvtzs_scalar_integer(insn, vn, regs)
    [] insn.rmode = 3 /\ insn.opcode = 1 -> dis_fcvtzu_scalar_integer(insn, vn, regs)
    [] insn.rmode = 2 /\ insn.opcode = 0 -> dis_fcvtms_scalar_integer(insn, vn, regs)
    [] insn.rmode = 1 /\ insn.opcode = 0 -> dis_fcvtps_scalar_integer(insn, vn, regs)
    [] insn.rmode = 0 /\ insn.opcode = 4 -> dis_fcvtas_scalar_integer(insn, vn, regs)
    [] OTHER -> Illegal

dis_fcvtzs_fixed(insn, vn, regs) ==
  CASE ~ insn.sf /\ ~ insn.is_double -> fcvtzs32_fixed_32(vn, insn.fracbits, regs)
    [] ~ insn.sf /\ insn.is_double -> fcvtzs64_fixed_32(vn, insn.fracbits, regs)
    [] insn.sf /\ ~ insn.is_double -> fcvtzs32_fixed_64(vn, insn.fracbits, regs)
    [] insn.sf /\ insn.is_double -> fcvtzs64_fixed_64(vn, insn.fracbits, regs)
dis_fcvtzu_fixed(insn, vn, regs) ==
  CASE ~ insn.sf /\ ~ insn.is_double -> fcvtzu32_fixed_32(vn, insn.fracbits, regs)
    [] ~ insn.sf /\ insn.is_double -> fcvtzu64_fixed_32(vn, insn.fracbits, regs)
    [] insn.sf /\ ~ insn.is_double -> fcvtzu32_fixed_64(vn, insn.fracbits, regs)
    [] insn.sf /\ insn.is_double -> fcvtzu64_fixed_64(vn, insn.fracbits, regs)
ScaledDown(insn, r, regs) ==
  Raise(IF insn.is_double THEN float64_scalbn(r.z, -insn.fracbits, regs) ELSE float32_scalbn(r.z, -insn.fracbits, regs),
        r.fl)
dis_scvtf_fixed(insn, rn, regs) ==
  ScaledDown(insn, arm64_hlp_dirty_scvtf_scalar_integer_simd(insn, rn, regs), regs)
dis_ucvtf_fixed(insn, rn, regs) ==
  ScaledDown(insn, arm64_hlp_dirty_ucvtf_scalar_integer_simd(insn, rn, regs), regs)
arm64_hlp_dirty_conversion_between_floating_point_and_fixed_point(insn, vn, rn, regs) ==
  CASE insn.opcode = 0 -> dis_fcvtzs_fixed(insn, vn, regs)
    [] insn.opcode = 1 -> dis_fcvtzu_fixed(insn, vn, regs)
    [] insn.opcode = 2 -> dis_scvtf_fixed(insn, rn, regs)
    [] insn.opcode = 3 -> dis_ucvtf_fixed(insn, rn, regs)
    [] OTHER -> Illegal
=============================================================================
