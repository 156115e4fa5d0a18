--------------------------- MODULE SoftFloatFormats ---------------------------
(* The entry points of the software floating point, one per format, as the  *)
(* instruction helpers of both guests call them.  An operand that is        *)
(* denormal is flushed first where the status asks for it.                  *)
EXTENDS SoftFloat

Flushed(f, as, st, r) == Raise(r, SquashFlags(f, as, st))

(* ---------------------------------------------------------------------- *)
(* Single                                                                  *)

addFloat32Sigs(a, b, zSign, st) == addFloatSigs(Single, a, b, zSign, st)
subFloat32Sigs(a, b, zSign, st) == subFloatSigs(Single, a, b, zSign, st)
float32_add(a, b, st) ==
  LET x == Squash(Single, a, st)
      y == Squash(Single, b, st)
      s == extractSign(Single, x)
  IN  Flushed(Single, {a, b}, st,
              IF s = extractSign(Single, y) THEN addFloat32Sigs(x, y, s, st) ELSE subFloat32Sigs(x, y, s, st))
float32_sub(a, b, st) ==
  LET x == Squash(Single, a, st)
      y == Squash(Single, b, st)
      s == extractSign(Single, x)
  IN  Flushed(Single, {a, b}, st,
              IF s = extractSign(Single, y) THEN subFloat32Sigs(x, y, s, st) ELSE addFloat32Sigs(x, y, s, st))
float32_mul(a, b, st) ==
  Flushed(Single, {a, b}, st, mulFloat(Single, Squash(Single, a, st), Squash(Single, b, st), st))
float32_div(a, b, st) ==
  Flushed(Single, {a, b}, st, divFloat(Single, Squash(Single, a, st), Squash(Single, b, st),
                                       LAMBDA n, d : divSig32(Single, n, d), st))
float32_muladd(a, b, c, flags, st) ==
  Flushed(Single, {a, b, c}, st,
          muladdFloat(Single, Squash(Single, a, st), Squash(Single, b, st), Squash(Single, c, st), flags, st))
(* A root from some estimate: the laws say that it does not matter which.  *)
float32_sqrt(a, st) ==
  Flushed(Single, {a}, st,
          sqrtFloat(Single, Squash(Single, a, st), Single.G + 1,
                    LAMBDA n : sqrtSig32(Single, n, CHOOSE e \in Estimates32(Single, n) : TRUE), st))
float32_round_to_int(a, st) == Flushed(Single, {a}, st, round_to_int(Single, Squash(Single, a, st), st))
float32_scalbn(a, n, st) == Flushed(Single, {a}, st, scalbnFloat(Single, Squash(Single, a, st), n, st))

float32_eq(a, b, st) == testFloat(Single, a, b, FALSE, {0}, FALSE, st)
float32_le(a, b, st) == testFloat(Single, a, b, FALSE, {-1, 0}, FALSE, st)
float32_lt(a, b, st) == testFloat(Single, a, b, FALSE, {-1}, FALSE, st)
float32_unordered(a, b, st) == testFloat(Single, a, b, FALSE, {}, TRUE, st)
float32_eq_quiet(a, b, st) == testFloat(Single, a, b, TRUE, {0}, FALSE, st)
float32_le_quiet(a, b, st) == testFloat(Single, a, b, TRUE, {-1, 0}, FALSE, st)
float32_lt_quiet(a, b, st) == testFloat(Single, a, b, TRUE, {-1}, FALSE, st)
float32_unordered_quiet(a, b, st) == testFloat(Single, a, b, TRUE, {}, TRUE, st)
float32_compare(a, b, st) == compare_internal(Single, a, b, FALSE, st)
float32_compare_quiet(a, b, st) == compare_internal(Single, a, b, TRUE, st)
float32_min(a, b, st) == minmaxFloat(Single, a, b, TRUE, FALSE, st)
float32_max(a, b, st) == minmaxFloat(Single, a, b, FALSE, FALSE, st)
float32_minnum(a, b, st) == minmaxFloat(Single, a, b, TRUE, TRUE, st)
float32_maxnum(a, b, st) == minmaxFloat(Single, a, b, FALSE, TRUE, st)

int32_to_float32(a, st) == int_to_float(Single, a, st)
int64_to_float32(a, st) == int_to_float(Single, a, st)
uint64_to_float32(a, st) == int_to_float(Single, a, st)
uint32_to_float32(a, st) == int64_to_float32(a, st)
float32_to_int32(a, st) == to_int32(Single, a, st)
float32_to_int64(a, st) == to_int64(Single, a, st)
float32_to_uint64(a, st) == to_uint64(Single, a, st)
float32_to_uint64_round_to_zero(a, st) == float32_to_uint64(a, ToZero(st))
float32_to_int64_round_to_zero(a, st) ==
  Flushed(Single, {a}, st, truncate_to_int(Single, Squash(Single, a, st), I64))
float32_to_int32_round_to_zero(a, st) ==
  Flushed(Single, {a}, st, truncate_to_int(Single, Squash(Single, a, st), I32))
float32_to_int16_round_to_zero(a, st) == truncate_to_int(Single, a, I16)
float32_to_uint32(a, st) == Narrow(float32_to_int64(a, st), 0, 2^I32 - 1)
float32_to_uint32_round_to_zero(a, st) == Narrow(float32_to_int64_round_to_zero(a, st), 0, 2^I32 - 1)
float32_to_float64(a, st) == Flushed(Single, {a}, st, widen(Single, Double, Squash(Single, a, st), st))
float32_to_float16(a, ieee, st) == to_float16(Single, a, ieee, st)
float16_to_float32(a, ieee, st) == from_float16(Single, a, ieee, st)
float32_to_int16(a, st) == Narrow(float32_to_int32(a, st), -(2^(I16 - 1)), 2^(I16 - 1) - 1)
float32_to_uint16(a, st) == Narrow(float32_to_int32(a, st), 0, 2^I16 - 1)
float32_to_uint16_round_to_zero(a, st) == Narrow(float32_to_int64_round_to_zero(a, st), 0, 2^I16 - 1)

(* ---------------------------------------------------------------------- *)
(* Double                                                                  *)

addFloat64Sigs(a, b, zSign, st) == addFloatSigs(Double, a, b, zSign, st)
subFloat64Sigs(a, b, zSign, st) == subFloatSigs(Double, a, b, zSign, st)
float64_add(a, b, st) ==
  LET x == Squash(Double, a, st)
      y == Squash(Double, b, st)
      s == extractSign(Double, x)
  IN  Flushed(Double, {a, b}, st,
              IF s = extractSign(Double, y) THEN addFloat64Sigs(x, y, s, st) ELSE subFloat64Sigs(x, y, s, st))
float64_sub(a, b, st) ==
  LET x == Squash(Double, a, st)
      y == Squash(Double, b, st)
      s == extractSign(Double, x)
  IN  Flushed(Double, {a, b}, st,
              IF s = extractSign(Double, y) THEN subFloat64Sigs(x, y, s, st) ELSE addFloat64Sigs(x, y, s, st))
float64_mul(a, b, st) ==
  Flushed(Double, {a, b}, st, mulFloat(Double, Squash(Double, a, st), Squash(Double, b, st), st))
float64_div(a, b, st) ==
  Flushed(Double, {a, b}, st, divFloat(Double, Squash(Double, a, st), Squash(Double, b, st),
                                       LAMBDA n, d : divSig64(Double, n, d, estimateDiv128To64(n, d)), st))
float64_muladd(a, b, c, flags, st) ==
  Flushed(Double, {a, b, c}, st,
          muladdFloat(Double, Squash(Double, a, st), Squash(Double, b, st), Squash(Double, c, st), flags, st))
float64_sqrt(a, st) ==
  Flushed(Double, {a}, st,
          sqrtFloat(Double, Squash(Double, a, st), Double.G,
                    LAMBDA n : sqrtSig64(Double, n, CHOOSE z \in Estimates64(n) : TRUE), st))
float64_round_to_int(a, st) == Flushed(Double, {a}, st, round_to_int(Double, Squash(Double, a, st), st))
float64_scalbn(a, n, st) == Flushed(Double, {a}, st, scalbnFloat(Double, Squash(Double, a, st), n, st))

float64_eq(a, b, st) == testFloat(Double, a, b, FALSE, {0}, FALSE, st)
float64_le(a, b, st) == testFloat(Double, a, b, FALSE, {-1, 0}, FALSE, st)
float64_lt(a, b, st) == testFloat(Double, a, b, FALSE, {-1}, FALSE, st)
float64_unordered(a, b, st) == testFloat(Double, a, b, FALSE, {}, TRUE, st)
float64_eq_quiet(a, b, st) == testFloat(Double, a, b, TRUE, {0}, FALSE, st)
float64_le_quiet(a, b, st) == testFloat(Double, a, b, TRUE, {-1, 0}, FALSE, st)
float64_lt_quiet(a, b, st) == testFloat(Double, a, b, TRUE, {-1}, FALSE, st)
float64_unordered_quiet(a, b, st) == testFloat(Double, a, b, TRUE, {}, TRUE, st)
float64_compare(a, b, st) == compare_internal(Double, a, b, FALSE, st)
float64_compare_quiet(a, b, st) == compare_internal(Double, a, b, TRUE, st)
float64_min(a, b, st) == minmaxFloat(Double, a, b, TRUE, FALSE, st)
float64_max(a, b, st) == minmaxFloat(Double, a, b, FALSE, FALSE, st)
float64_minnum(a, b, st) == minmaxFloat(Double, a, b, TRUE, TRUE, st)
float64_maxnum(a, b, st) == minmaxFloat(Double, a, b, FALSE, TRUE, st)

int32_to_float64(a, st) == int_to_float(Double, a, st)
int64_to_float64(a, st) == int_to_float(Double, a, st)
uint64_to_float64(a, st) == int_to_float(Double, a, st)
uint32_to_float64(a, st) == int64_to_float64(a, st)
float64_to_int32(a, st) == to_int32(Double, a, st)
float64_to_int64(a, st) == to_int64(Double, a, st)
float64_to_uint64(a, st) == to_uint64(Double, a, st)
float64_to_uint64_round_to_zero(a, st) == float64_to_uint64(a, ToZero(st))
float64_to_int64_round_to_zero(a, st) ==
  Flushed(Double, {a}, st, truncate_to_int(Double, Squash(Double, a, st), I64))
float64_to_int32_round_to_zero(a, st) ==
  Flushed(Double, {a}, st, truncate_by_sign(Double, Squash(Double, a, st), I32))
float64_to_int16_round_to_zero(a, st) == truncate_by_sign(Double, a, I16)
float64_to_uint32(a, st) == Narrow(float64_to_uint64(a, st), 0, 2^I32 - 1)
float64_to_uint32_round_to_zero(a, st) == Narrow(float64_to_uint64_round_to_zero(a, st), 0, 2^I32 - 1)
float64_trunc_to_int(a, st) == float64_round_to_int(a, ToZero(st))
float64_to_float32(a, st) ==
  LET x == Squash(Double, a, st)
      s == extractSign(Double, x)
      sig == ShiftRightJamming(extractFrac(Double, x), Double.F - Single.F - Single.G)
      some == extractExp(Double, x) # 0 \/ sig # 0
  IN  Flushed(Double, {a}, st,
              IF is_any_nan(Double, x) THEN commonNaN(Double, Single, x, st)
              ELSE IF is_infinity(Double, x) THEN Res(Infinity(Single, s), {})
              ELSE IF some
              THEN roundAndPackFloat(Single, s, extractExp(Double, x) - Bias(Double) + Bias(Single) - 1,
                                     sig + 2^(Single.F + Single.G), st)
              ELSE roundAndPackFloat(Single, s, 0, 0, st))
float64_to_float16(a, ieee, st) == to_float16(Double, a, ieee, st)
float16_to_float64(a, ieee, st) == from_float16(Double, a, ieee, st)
float64_to_int16(a, st) == Narrow(float64_to_int32(a, st), -(2^(I16 - 1)), 2^(I16 - 1) - 1)
float64_to_uint16(a, st) == Narrow(float64_to_int32(a, st), 0, 2^I16 - 1)
float64_to_uint16_round_to_zero(a, st) == Narrow(float64_to_int64_round_to_zero(a, st), 0, 2^I16 - 1)
===============================================================================
