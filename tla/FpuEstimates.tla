---------------------------- MODULE FpuEstimates ----------------------------
(* What the floating point helpers of both guests compute with soft float,  *)
(* in two copies of the same code: the estimates of 1/x and 1/sqrt(x)       *)
(* (arm64_helpers_simd_fpu_common.c and arm_helpers.c) and the conversion   *)
(* to a fixed point number.                                                 *)
EXTENDS SoftFloatFormats

CONSTANT EstBits        \* the bits of a reciprocal estimate: 8

ASSUME EstBitsAssumption == EstBits \in 1..Single.F /\ EstBits + 1 <= Double.F

SignBit(f) == 2^(f.E + f.F)
Negate(f, a) == IF a >= SignBit(f) THEN a - SignBit(f) ELSE a + SignBit(f)
Power(f, n) == packFloat(f, 0, Bias(f) + n, 0)
Uint(w, n) == n % 2^w

InfZero(f, a, b) == (is_zero(f, a) /\ is_infinity(f, b)) \/ (is_infinity(f, a) /\ is_zero(f, b))

(* To a fixed point number: scaled, of which only the flush of a denormal  *)
(* is reported, and truncated by Conv.                                     *)
ToFixed(f, Conv(_, _), a, fracbits, w, st) ==
  LET scaled == scalbnFloat(f, Squash(f, a, st), fracbits, st)
      r == Conv(scaled.z, st)
  IN  IF is_any_nan(f, a) THEN Res(0, {"invalid"})
      ELSE Res(Uint(w, r.z), r.fl \cup SquashFlags(f, {a}, st))

(* ---------------------------------------------------------------------- *)
(* Estimates of 1/x and 1/sqrt(x), computed in double for 1/2 <= x < 1 (or *)
(* 1/4 <= x < 1) with a status whose flags are dropped.                    *)

round_to_inf(sign, st) ==
  CASE st.rm = "nearest_even" -> TRUE [] st.rm = "up" -> sign = 0 [] st.rm = "down" -> sign = 1 [] OTHER -> FALSE

Truncated(q, st) == int64_to_float64(float64_to_int64_round_to_zero(q, st).z, st).z
Midpoint(scale, a, st) ==
  float64_div(float64_add(Truncated(float64_mul(scale, a, st).z, st), Power(Double, -1), st).z, scale, st).z
ToEstimate(q, st) ==
  LET scale == Power(Double, EstBits)
  IN  float64_div(Truncated(float64_add(float64_mul(q, scale, st).z, Power(Double, -1), st).z, st), scale, st).z
recip_estimate(a, st) ==
  ToEstimate(float64_div(Power(Double, 0), Midpoint(Power(Double, EstBits + 1), a, st), st).z, st)
recip_sqrt_estimate(a, st) ==
  LET scale == Power(Double, EstBits + Bit(float64_lt(a, Power(Double, -1), st).z))
  IN  ToEstimate(float64_div(Power(Double, 0), float64_sqrt(Midpoint(scale, a, st), st).z, st).z, st)

(* The exponent, in the format of the guest, and the fraction of 1/num.    *)
call_recip_estimate(exp, frac, off, st) ==
  LET F == Double.F
      low == frac < 2^(F - 1)
      e == IF exp # 0 THEN exp ELSE IF low THEN -1 ELSE 0
      m == IF exp # 0 THEN frac ELSE IF low THEN (frac % 2^(F - 2)) * 4 ELSE (frac % 2^(F - 1)) * 2
      top == (m \div 2^(F - EstBits)) * 2^(F - EstBits)
      est == extractFrac(Double, recip_estimate(packFloat(Double, 0, Bias(Double) - 1, top), st))
      z == off - e
  IN  [exp |-> IF z = -1 THEN 0 ELSE z,
       frac |-> CASE z = 0 -> 2^(F - 1) + est \div 2
                  [] z = -1 -> 2^(F - 2) + est \div 4
                  [] OTHER -> est]

OwnNaN(f, a, st) ==
  Res(IF st.dnan THEN default_nan(f) ELSE maybe_silence_nan(f, a), When(is_signaling_nan(f, a), {"invalid"}))

recpe(f, a, st) ==
  LET x == Squash(f, a, st)
      s == extractSign(f, x)
      r == call_recip_estimate(extractExp(f, x), extractFrac(f, x) * 2^(Double.F - f.F), 2 * Bias(f) - 1, st)
  IN  Flushed(f, {a}, st,
        IF is_any_nan(f, x) THEN OwnNaN(f, x, st)
        ELSE IF is_infinity(f, x) THEN Res(packFloat(f, s, 0, 0), {})
        ELSE IF is_zero(f, x) THEN Res(Infinity(f, s), {"divbyzero"})
        ELSE IF x % SignBit(f) < 2^(f.F - 2)
        THEN Res(Infinity(f, s) - Bit(~ round_to_inf(s, st)), {"overflow", "inexact"})
        ELSE IF extractExp(f, x) >= 2 * Bias(f) - 1 /\ st.ftz THEN Res(packFloat(f, s, 0, 0), {"underflow"})
        ELSE Res(packFloat(f, s, r.exp, r.frac \div 2^(Double.F - f.F)), {}))

rsqrte(f, a, st) ==
  LET x == Squash(f, a, st)
      zeros == f.F - BitLength(extractFrac(f, x))
      denormal == extractExp(f, x) = 0
      exp == IF denormal THEN -zeros ELSE extractExp(f, x)
      frac == IF denormal THEN ((extractFrac(f, x) * 2^zeros) % 2^(f.F - 1)) * 2 ELSE extractFrac(f, x)
      scaled == packFloat(Double, 0, Bias(Double) - 1 - (exp % 2), frac * 2^(Double.F - f.F))
      est == extractFrac(Double, recip_sqrt_estimate(scaled, st))
  IN  Flushed(f, {a}, st,
        IF is_any_nan(f, x) THEN OwnNaN(f, x, st)
        ELSE IF is_zero(f, x) THEN Res(Infinity(f, extractSign(f, x)), {"divbyzero"})
        ELSE IF extractSign(f, x) = 1 THEN Invalid(f)
        ELSE IF is_infinity(f, x) THEN Res(0, {})
        ELSE Res(packFloat(f, 0, (3 * Bias(f) - 1 - exp) \div 2, est \div 2^(Double.F - f.F)), {}))
=============================================================================
