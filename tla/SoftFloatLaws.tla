--------------------------- MODULE SoftFloatLaws ---------------------------
(* What IEEE 754 asks of the operations of SoftFloatFormats, stated over    *)
(* exact values: a finite number is an integer count of the smallest        *)
(* subnormal, and the order of magnitudes is the order of the bits.         *)
EXTENDS SoftFloatFormats, Arm64Fpu

CONSTANTS Operands,      \* the second operands that are tried
          Partners       \* and the third ones
VARIABLES a,             \* an operand: the bits of a single
          rm, flush      \* the rounding mode and the flush of denormals
vars == <<a, rm, flush>>

St(dnan) == [rm |-> rm, ftz |-> flush, fiz |-> flush, dnan |-> dnan]
Bits(f) == 0..2^(f.E + f.F + 1) - 1

(* A step goes from an operand to the next one, or changes the control.  A  *)
(* law is an action property: it holds of what each step starts from.       *)
Init == a = 0 /\ rm = "nearest_even" /\ flush = FALSE
NextOperand == a' = (a + 1) % 2^(Single.E + Single.F + 1) /\ UNCHANGED <<rm, flush>>
SetControl == a = 0 /\ rm' \in Modes /\ flush' \in BOOLEAN /\ UNCHANGED a
Next == NextOperand \/ SetControl
Moves == vars' # vars
Spec == Init /\ [][Next]_vars

TypeOK == a \in Bits(Single) /\ rm \in Modes /\ flush \in BOOLEAN

(* ---------------------------------------------------------------------- *)
(* The reference                                                          *)

InfBits(f) == ExpMax(f) * 2^f.F
Magnitude(f, x) == x % 2^(f.E + f.F)
Mag(f, k) == LET e == k \div 2^f.F IN
  IF e = 0 THEN k ELSE (2^f.F + (k % 2^f.F)) * 2^(e - 1)
Value(f, x) == IF extractSign(f, x) = 1 THEN -Mag(f, Magnitude(f, x)) ELSE Mag(f, Magnitude(f, x))
Finite(f, x) == extractExp(f, x) # ExpMax(f)
Zero(f, s) == packFloat(f, s, 0, 0)
Sgn(n) == IF n < 0 THEN -1 ELSE IF n = 0 THEN 0 ELSE 1
One == Bias(Single) * 2^Single.F
(* The unit is 2^-UnitExp.                                                 *)
UnitExp(f) == Bias(f) + f.F - 1

(* r is the exact non-zero value rounded to format f.  Cmp(h) is the sign  *)
(* of the value less h halves of the unit, s its sign.                     *)
Away(s, st) ==
  CASE st.rm = "up" -> s = 0 [] st.rm = "down" -> s = 1 [] st.rm = "to_zero" -> FALSE [] OTHER -> TRUE
RoundsTo(f, s, Cmp(_), st, r) ==
  LET k == Magnitude(f, r.z)
      sign == s * 2^(f.E + f.F)
      tiny == Cmp(2 * 2^f.F) < 0
      up(lo) == LET c == Cmp(Mag(f, lo) + Mag(f, lo + 1)) IN
        CASE st.rm = "nearest_even" -> c > 0 \/ (c = 0 /\ lo % 2 = 1)
          [] st.rm = "ties_away" -> c >= 0
          [] st.rm \notin {"nearest_even", "ties_away"} -> Away(s, st)
      rounded(lo) ==
        IF Cmp(2 * Mag(f, lo)) = 0 THEN Res(sign + lo, {})
        ELSE IF up(lo) /\ lo + 1 = InfBits(f) THEN Res(sign + lo + 1, {"overflow", "inexact"})
        ELSE Res(sign + lo + Bit(up(lo)), {"inexact"} \cup When(tiny, {"underflow"}))
  IN  IF Cmp(2 * Mag(f, InfBits(f))) >= 0
      THEN r = Res(sign + InfBits(f) - Bit(~ Away(s, st)), {"overflow", "inexact"})
      ELSE IF tiny /\ st.ftz THEN r = Res(sign, {"output_denormal"})
      ELSE \E lo \in {k - 1, k} \cap 0..InfBits(f) - 1 :
             Cmp(2 * Mag(f, lo)) >= 0 /\ Cmp(2 * Mag(f, lo + 1)) < 0 /\ r = rounded(lo)

(* The value n * 2^p / d, n and d positive.                                *)
RoundsRational(f, s, n, p, d, st, r) ==
  IF p >= 0 THEN RoundsTo(f, s, LAMBDA h : Sgn(2 * n * 2^p - h * d), st, r)
  ELSE RoundsTo(f, s, LAMBDA h : Sgn(2 * n - h * d * 2^(-p)), st, r)
RoundsInteger(f, v, st, r) ==
  RoundsRational(f, Bit(v < 0), IF v < 0 THEN -v ELSE v, 0, 1, st, r)

(* A sum that is exactly zero keeps the sign both operands have, and is    *)
(* positive when they differ, but for rounding downwards.                  *)
ZeroSum(f, s, t, st) == Res(Zero(f, IF s = t THEN s ELSE Bit(st.rm = "down")), {})
IsSum(x, y, st, r) ==
  LET v == Value(Single, x) + Value(Single, y)
      s == extractSign(Single, x)
      t == extractSign(Single, y)
  IN  CASE Finite(Single, x) /\ Finite(Single, y) ->
             IF v = 0 THEN r = ZeroSum(Single, s, t, st) ELSE RoundsInteger(Single, v, st, r)
        [] Finite(Single, x) # Finite(Single, y) ->
             r = Res(IF Finite(Single, x) THEN y ELSE x, {})
        [] ~ Finite(Single, x) /\ ~ Finite(Single, y) -> r = IF s = t THEN Res(x, {}) ELSE Invalid(Single)
Sig(f, x) == extractFrac(f, x) + IF extractExp(f, x) = 0 THEN 0 ELSE 2^f.F
Scale(f, x) == Max({1, extractExp(f, x)}) - 1
IsProduct(x, y, st, r) ==
  LET s == (extractSign(Single, x) + extractSign(Single, y)) % 2
      zero == is_zero(Single, x) \/ is_zero(Single, y)
  IN  CASE Finite(Single, x) /\ Finite(Single, y) ->
             IF zero THEN r = Res(Zero(Single, s), {})
             ELSE RoundsRational(Single, s, Sig(Single, x) * Sig(Single, y),
                                 Scale(Single, x) + Scale(Single, y) - UnitExp(Single), 1, st, r)
        [] ~ Finite(Single, x) \/ ~ Finite(Single, y) ->
             r = IF zero THEN Invalid(Single) ELSE Res(Infinity(Single, s), {})
IsQuotient(x, y, st, r) ==
  LET s == (extractSign(Single, x) + extractSign(Single, y)) % 2
  IN  CASE Finite(Single, x) /\ Finite(Single, y) /\ ~ is_zero(Single, x) /\ ~ is_zero(Single, y) ->
             RoundsRational(Single, s, Sig(Single, x), Scale(Single, x) - Scale(Single, y) + UnitExp(Single),
                            Sig(Single, y), st, r)
        [] Finite(Single, x) = Finite(Single, y) /\ is_zero(Single, x) = is_zero(Single, y)
           /\ (is_zero(Single, x) \/ ~ Finite(Single, x)) -> r = Invalid(Single)
        [] is_zero(Single, y) /\ Finite(Single, x) /\ ~ is_zero(Single, x) ->
             r = Res(Infinity(Single, s), {"divbyzero"})
        [] ~ Finite(Single, x) /\ Finite(Single, y) -> r = Res(Infinity(Single, s), {})
        [] Finite(Single, x) /\ (~ Finite(Single, y) \/ (is_zero(Single, x) /\ ~ is_zero(Single, y))) ->
             r = Res(Zero(Single, s), {})

(* Holds(x, y, st, inner): the operands as flushed, and the outcome        *)
(* without the flag that the flush alone accounts for.                     *)
Inner(r) == Res(r.z, r.fl \ {"input_denormal"})
FlushFlagged(f, xs, st, r) ==
  ("input_denormal" \in r.fl) = (st.fiz /\ \E x \in xs : is_denormal(f, x))
NaNs(f, xs) == {x \in xs : is_any_nan(f, x)}

(* ---------------------------------------------------------------------- *)
(* The properties                                                         *)

(* Sum, difference, product and quotient.                                  *)
SumsAndProducts ==
  \A b \in Operands :
    LET st == St(FALSE)
        x == Squash(Single, a, st)
        y == Squash(Single, b, st)
        sum == float32_add(a, b, st)
        difference == float32_sub(a, b, st)
        product == float32_mul(a, b, st)
        quotient == float32_div(a, b, st)
    IN  NaNs(Single, {a, b}) = {} =>
          /\ IsSum(x, y, st, Inner(sum))
          /\ IsSum(x, (y + 2^(Single.E + Single.F)) % 2^(Single.E + Single.F + 1), st, Inner(difference))
          /\ IsProduct(x, y, st, Inner(product))
          /\ IsQuotient(x, y, st, Inner(quotient))
          /\ \A r \in {sum, difference, product, quotient} : FlushFlagged(Single, {a, b}, st, r)

(* The fused multiply-add rounds once: its sum of an exact product and an  *)
(* addend, with any of its negations and its halving (float32_muladd).     *)
MuladdFlags == {{}, {"negate_c"}, {"negate_product", "negate_result"}, {"halve_result"}}
FusedSums ==
  \A b \in Operands, c \in Partners, flags \in MuladdFlags :
    LET st == St(FALSE)
        x == Squash(Single, a, st)
        y == Squash(Single, b, st)
        z == Squash(Single, c, st)
        down == UnitExp(Single) + Bit("halve_result" \in flags)
        neg(n, f) == IF f \in flags THEN -n ELSE n
        p == neg(Value(Single, x) * Value(Single, y), "negate_product")
        v == neg(p + neg(Value(Single, z) * 2^UnitExp(Single), "negate_c"), "negate_result")
        r == float32_muladd(a, b, c, flags, st)
        small(q) == extractExp(Single, q) <= Bias(Single) + 2
    IN  small(a) /\ small(b) /\ Finite(Single, c) /\ v # 0
          => /\ RoundsRational(Single, Bit(v < 0), IF v < 0 THEN -v ELSE v, -down, 1, st, Inner(r))
             /\ FlushFlagged(Single, {a, b, c}, st, r)

(* Square root and scaling are rounded once, whatever estimate a root      *)
(* starts from (float32_sqrt, estimateSqrt32, float32_scalbn); rounding to *)
(* an integral number keeps the sign and obeys the mode                    *)
(* (float32_round_to_int).                                                 *)
Nth(S, i) == CHOOSE e \in S : Cardinality({x \in S : x < e}) = (i - 1) % Cardinality(S)
RootCmp(n, h) == IF h >= 2^15 THEN -1 ELSE Sgn(4 * n - h * h)
IntegralOf(x, st) ==
  LET v == Value(Single, x)
      one == 2^UnitExp(Single)
      lo == v \div one
      half == 2 * (v % one) - one
      up == CASE st.rm = "nearest_even" -> half > 0 \/ (half = 0 /\ lo % 2 = 1)
              [] st.rm = "ties_away" -> half > 0 \/ (half = 0 /\ v > 0)
              [] st.rm = "up" -> v % one # 0
              [] st.rm = "down" -> FALSE
              [] st.rm = "to_zero" -> v < 0 /\ v % one # 0
  IN  lo + Bit(up)
RootsAndIntegrals ==
  LET st == St(FALSE)
      x == Squash(Single, a, st)
      one == 2^UnitExp(Single)
      i == float32_round_to_int(a, st)
      root == float32_sqrt(a, st)
  IN  Finite(Single, a) =>
        /\ Value(Single, i.z) = IntegralOf(x, st) * one
        /\ extractSign(Single, i.z) = extractSign(Single, a)
        /\ Inner(i).fl = When(Value(Single, x) % one # 0, {"inexact"})
        /\ IF is_zero(Single, x) THEN root.z = x
           ELSE IF extractSign(Single, x) = 1 THEN Inner(root) = Invalid(Single)
           ELSE LET v == Value(Single, x) * one
                    from(k) == sqrtFloat(Single, x, Single.G + 1,
                                         LAMBDA n : sqrtSig32(Single, n, Nth(Estimates32(Single, n), k)), st)
                IN  /\ RoundsTo(Single, 0, LAMBDA h : RootCmp(v, h), st, Inner(root))
                    /\ \A k \in 1..4 : Inner(from(k)) = Inner(root)
        /\ \A n \in -UnitExp(Single)..UnitExp(Single) :
             ~ is_zero(Single, x) =>
               RoundsRational(Single, extractSign(Single, x), Sig(Single, x), Scale(Single, x) + n, 1, st,
                              Inner(float32_scalbn(a, n, st)))

(* The doubles that are tried with a: every double with some a.            *)
DoublesOf(x) ==
  LET n == 2^(Double.E + Double.F - Single.E - Single.F) IN {n * x + i : i \in 0..n - 1}
(* A double quotient or root is that of the exact significand with its     *)
(* sticky bit, whatever estimate the code starts from (float64_div,        *)
(* float64_sqrt): it corrects the ones that could round otherwise.         *)
Sticky(q, exact) == IF ~ exact /\ q % 2 = 0 THEN q + 1 ELSE q
EstimatesDoNotShow ==
  LET st == St(FALSE)
      quotient(x, y, k) == divFloat(Double, x, y, LAMBDA n, d : divSig64(Double, n, d, n \div d + k), st)
      Root(x, Of(_)) == sqrtFloat(Double, x, Double.G, Of, st)
  IN  \A d \in DoublesOf(a) :
        /\ \A b \in Partners :
             LET e == Min(DoublesOf(b)) + d - Min(DoublesOf(a))
                 exact == divFloat(Double, d, e, LAMBDA n, m : Sticky(n \div m, n % m = 0), st)
             IN  \A k \in 0..2 : quotient(d, e, k) = exact
        /\ LET exact == Root(d, LAMBDA n : Sticky(IntRoot(n), IntRoot(n) * IntRoot(n) = n))
           IN  \A k \in 1..7 : Root(d, LAMBDA n : sqrtSig64(Double, n, Nth(Estimates64(n), k))) = exact

(* The exact value of x as an integer, in a mode: x is in quarters of the  *)
(* ulp of the integers, the lower quarter bit sticky, which is all that a  *)
(* mode looks at.                                                          *)
Quarters(f, x) ==
  LET p == Scale(f, x) - UnitExp(f) + 2 IN
  IF p >= 0 THEN Sig(f, x) * 2^p ELSE 2 * (Sig(f, x) \div 2^(1 - p)) + Bit(Sig(f, x) % 2^(1 - p) # 0)
IntegerOf(f, x, mode) ==
  LET q == Quarters(f, x)
      s == extractSign(f, x)
      lo == q \div 4
      up == CASE mode = "nearest_even" -> q % 4 = 3 \/ (q % 4 = 2 /\ lo % 2 = 1)
              [] mode = "ties_away" -> q % 4 >= 2
              [] mode = "up" -> s = 0 /\ q % 4 # 0
              [] mode = "down" -> s = 1 /\ q % 4 # 0
              [] mode = "to_zero" -> FALSE
  IN  Signed(s, lo + Bit(up))
(* In lo..hi or invalid, a NaN as the largest.                             *)
IsInteger(f, x, mode, lo, hi, r) ==
  LET y == Squash(f, x, St(FALSE))
      v == IntegerOf(f, y, mode)
  IN  CASE is_any_nan(f, y) -> r = Res(hi, {"invalid"})
        [] is_infinity(f, y) -> r = Res(IF extractSign(f, y) = 1 THEN lo ELSE hi, {"invalid"})
        [] Finite(f, y) ->
             Inner(r) = IF v < lo THEN Res(lo, {"invalid"}) ELSE IF v > hi THEN Res(hi, {"invalid"})
                        ELSE Res(v, When(Quarters(f, y) % 4 # 0, {"inexact"}))
IntMin(w) == -(2^(w - 1))
IntMax(w) == 2^(w - 1) - 1
UintMax(w) == 2^w - 1

IntegersFromSingle(x, st) ==
  /\ IsInteger(Single, x, rm, IntMin(I32), IntMax(I32), float32_to_int32(x, st))
  /\ IsInteger(Single, x, rm, IntMin(I64), IntMax(I64), float32_to_int64(x, st))
  /\ IsInteger(Single, x, rm, IntMin(I16), IntMax(I16), float32_to_int16(x, st))
  /\ IsInteger(Single, x, rm, 0, UintMax(I16), float32_to_uint16(x, st))
  /\ IsInteger(Single, x, rm, 0, UintMax(I32), float32_to_uint32(x, st))
  /\ IsInteger(Single, x, rm, 0, UintMax(I64), float32_to_uint64(x, st))
  /\ IsInteger(Single, x, "to_zero", IntMin(I32), IntMax(I32), float32_to_int32_round_to_zero(x, st))
  /\ IsInteger(Single, x, "to_zero", IntMin(I64), IntMax(I64), float32_to_int64_round_to_zero(x, st))
  /\ IsInteger(Single, x, "to_zero", 0, UintMax(I16), float32_to_uint16_round_to_zero(x, st))
  /\ IsInteger(Single, x, "to_zero", 0, UintMax(I32), float32_to_uint32_round_to_zero(x, st))
  /\ IsInteger(Single, x, "to_zero", 0, UintMax(I64), float32_to_uint64_round_to_zero(x, st))
IntegersFromDouble(x, st) ==
  /\ IsInteger(Double, x, rm, IntMin(I32), IntMax(I32), float64_to_int32(x, st))
  /\ IsInteger(Double, x, rm, IntMin(I64), IntMax(I64), float64_to_int64(x, st))
  /\ IsInteger(Double, x, rm, IntMin(I16), IntMax(I16), float64_to_int16(x, st))
  /\ IsInteger(Double, x, rm, 0, UintMax(I16), float64_to_uint16(x, st))
  /\ IsInteger(Double, x, rm, 0, UintMax(I32), float64_to_uint32(x, st))
  /\ IsInteger(Double, x, rm, 0, UintMax(I64), float64_to_uint64(x, st))
  /\ IsInteger(Double, x, "to_zero", IntMin(I32), IntMax(I32), float64_to_int32_round_to_zero(x, st))
  /\ IsInteger(Double, x, "to_zero", IntMin(I64), IntMax(I64), float64_to_int64_round_to_zero(x, st))
  /\ IsInteger(Double, x, "to_zero", 0, UintMax(I16), float64_to_uint16_round_to_zero(x, st))
  /\ IsInteger(Double, x, "to_zero", 0, UintMax(I32), float64_to_uint32_round_to_zero(x, st))
  /\ IsInteger(Double, x, "to_zero", 0, UintMax(I64), float64_to_uint64_round_to_zero(x, st))
  /\ (~ flush => IsInteger(Double, x, "to_zero", IntMin(I16), IntMax(I16), float64_to_int16_round_to_zero(x, st)))

(* A finite number of format f, in format g.                               *)
RoundsFrom(f, g, x, st, r) ==
  IF Sig(f, x) = 0 THEN r = Res(Zero(g, extractSign(f, x)), {})
  ELSE RoundsRational(g, extractSign(f, x), Sig(f, x), Scale(f, x) - UnitExp(f) + UnitExp(g), 1, st, r)
(* Where roundAndPackFloat16 does not look at the mode.                    *)
HalfEnds(r) == "overflow" \in r.fl \/ (Magnitude(Half, r.z) = 0 /\ rm \in {"up", "down"})
NoFlush == [St(FALSE) EXCEPT !.ftz = FALSE]

(* Conversions to integers round in the mode asked for and saturate with   *)
(* invalid and no other flag, whichever wider conversion they go through;  *)
(* conversions between formats round once, and back where they are exact   *)
(* (float32_to_int32 and its family, float64_to_float32,                   *)
(* roundAndPackFloat16 but for the ends of its range, int64_to_float32).   *)
FormatsConvert ==
  LET st == St(FALSE)
      halves == {h \in Bits(Half) : h % 2^Half.E = a % 2^Half.E}
  IN  /\ IntegersFromSingle(a, st)
      /\ \A d \in DoublesOf(a) :
           /\ IntegersFromDouble(d, st)
           /\ LET x == Squash(Double, d, st)
                  r == float64_to_float32(d, st)
                  h == float64_to_float16(d, TRUE, st)
              IN  Finite(Double, d) =>
                    /\ RoundsFrom(Double, Single, x, st, Inner(r))
                    /\ ~ HalfEnds(h) => RoundsFrom(Double, Half, x, NoFlush, Inner(h))
      /\ LET h == float32_to_float16(a, TRUE, st)
         IN  Finite(Single, a) /\ ~ HalfEnds(h) =>
               RoundsFrom(Single, Half, Squash(Single, a, st), NoFlush, Inner(h))
      /\ ~ is_any_nan(Single, a) /\ (flush => ~ is_denormal(Single, a)) =>
           float64_to_float32(float32_to_float64(a, st).z, st) = Res(a, {})
      /\ \A h \in halves, ieee \in BOOLEAN :
           ~ (ieee /\ is_any_nan(Half, h))
             => /\ float32_to_float16(float16_to_float32(h, ieee, st).z, ieee, st) = Res(h, {})
                /\ float64_to_float16(float16_to_float64(h, ieee, st).z, ieee, st) = Res(h, {})
      /\ \A i \in {a, a - 2^(I64 - 1)} :
           i # 0 => RoundsRational(Single, Bit(i < 0), IF i < 0 THEN -i ELSE i, UnitExp(Single), 1, st,
                                   int64_to_float32(i, st))

(* A half is rounded in the current mode at the ends of its range too: to  *)
(* infinity or to the largest number, to the smallest number or to zero    *)
(* (roundAndPackFloat16).                                                  *)
HalfIsRounded ==
  LET r == float32_to_float16(a, TRUE, St(FALSE))
  IN  Finite(Single, a) => RoundsFrom(Single, Half, Squash(Single, a, St(FALSE)), NoFlush, Inner(r))

(* Towards zero to 16 bits, a number whose integer part fits is not        *)
(* invalid (float32_to_int16_round_to_zero).                               *)
Int16IsTruncated ==
  ~ flush => IsInteger(Single, a, "to_zero", IntMin(I16), IntMax(I16),
                       float32_to_int16_round_to_zero(a, St(FALSE)))

(* The NaN that a result carries: the first signalling one, made quiet, or *)
(* the first quiet one; invalid for a signalling one.                      *)
Quieted(x) == IF is_signaling_nan(Single, x) THEN x + 2^(Single.F - 1) ELSE x
CarriesNaN(seq, st, r) ==
  LET sig == {i \in DOMAIN seq : is_signaling_nan(Single, seq[i])}
      nan == {i \in DOMAIN seq : is_any_nan(Single, seq[i])}
      from == IF sig # {} THEN Min(sig) ELSE Min(nan)
  IN  /\ r.z = IF st.dnan THEN default_nan(Single) ELSE Quieted(seq[from])
      /\ Inner(r).fl = When(sig # {}, {"invalid"})

(* A NaN operand decides the result as the arm processors define it, the   *)
(* addend of a fused operation first; min and max order the zeroes and the *)
(* number forms prefer a number to a quiet NaN; comparisons agree with the *)
(* order of the values and with each other, and only a signalling NaN      *)
(* makes a quiet one invalid (pickNaN, pickNaNMulAdd, propagateFloat32NaN, *)
(* the COMPARE and MINMAX macros, float32_eq to float32_unordered_quiet).  *)
NaNsAndOrder ==
  \A b \in Operands, dnan \in BOOLEAN :
    LET st == St(dnan)
        x == Squash(Single, a, st)
        y == Squash(Single, b, st)
        nan == NaNs(Single, {a, b}) # {}
        quiet == {r \in {a, b} : is_signaling_nan(Single, r)} = {}
        v == Sgn(Value(Single, x) - Value(Single, y))
        low == float32_min(a, b, st)
        high == float32_max(a, b, st)
        le == float32_le(a, b, st)
        lt == float32_lt(a, b, st)
        eq == float32_eq(a, b, st)
    IN  /\ nan => /\ \A r \in {float32_add(a, b, st), float32_sub(a, b, st), float32_mul(a, b, st),
                                float32_div(a, b, st), low, high} :
                       CarriesNaN(<<a, b>>, st, r)
                 /\ \A r \in {le, lt, eq} : Inner(r) = Res(FALSE, {"invalid"})
                 /\ Inner(float32_unordered_quiet(a, b, st)) = Res(TRUE, When(~ quiet, {"invalid"}))
                 /\ Inner(float32_compare_quiet(a, b, st)) = Res(2, When(~ quiet, {"invalid"}))
                 /\ Inner(float32_lt_quiet(a, b, st)) = Res(FALSE, When(~ quiet, {"invalid"}))
        /\ LET c == float32_maxnum(a, b, st)
               one == {r \in {x, y} : ~ is_any_nan(Single, r)}
           IN  nan => IF quiet /\ one # {} THEN Inner(c) = Res(CHOOSE r \in one : TRUE, {})
                      ELSE CarriesNaN(<<a, b>>, st, c)
        /\ ~ nan => /\ le.z = (v <= 0) /\ lt.z = (v < 0) /\ eq.z = (v = 0)
                   /\ float32_compare(a, b, st).z = v /\ float32_compare_quiet(a, b, st).z = v
                   /\ float32_le_quiet(a, b, st) = le /\ float32_eq_quiet(a, b, st) = eq
                   /\ {low.z, high.z} = {x, y}
                   /\ IF v = 0 THEN extractSign(Single, low.z) >= extractSign(Single, high.z)
                      ELSE Value(Single, low.z) < Value(Single, high.z)
        /\ \A c \in Partners :
             LET r == float32_muladd(a, b, c, {}, st)
                 infzero == NaNs(Single, {a, b}) = {} /\ Invalid(Single) = Inner(float32_mul(a, b, st))
             IN  NaNs(Single, {a, b, c}) # {} =>
                   IF infzero /\ is_quiet_nan(Single, c) THEN Inner(r) = Invalid(Single)
                   ELSE CarriesNaN(<<c, a, b>>, st, r)

(* ---------------------------------------------------------------------- *)
(* What the floating point instructions of the two guests promise, beyond   *)
(* the operations of soft float they are made of.                           *)

Arm == INSTANCE ArmFloat
Vector == INSTANCE Arm64FpuSimd

(* a * 2^n as an integer, truncated, and what is left.                     *)
ScaledValue(f, x, n) ==
  LET p == Scale(f, x) - UnitExp(f) + n IN IF p >= 0 THEN Sig(f, x) * 2^p ELSE Sig(f, x) \div 2^(-p)
ScaledExactly(f, x, n) == LET p == Scale(f, x) - UnitExp(f) + n IN p >= 0 \/ Sig(f, x) % 2^(-p) = 0
(* r is x as a fixed point number in lo..hi with n bits of fraction, seen  *)
(* in a register of w bits.                                                *)
IsFixed(f, x, n, lo, hi, w, st, r) ==
  LET y == Squash(f, x, st)
      v == Signed(extractSign(f, y), ScaledValue(f, y, n))
      top == IF extractSign(f, y) = 1 THEN lo ELSE hi
  IN  CASE is_any_nan(f, x) -> r = Res(0, {"invalid"})
        [] is_infinity(f, x) -> r = Res(Uint(w, top), {"invalid"})
        [] Finite(f, x) ->
             Inner(r) = IF v < lo \/ v > hi THEN Res(Uint(w, top), {"invalid"})
                        ELSE Res(Uint(w, v), When(~ ScaledExactly(f, y, n), {"inexact"}))

(* Conversions to fixed point numbers truncate the exact scaled value once *)
(* and saturate, in both guests, although they scale in floating point     *)
(* with the mode of the guest first (fcvtzs32_fixed_32 and its family,     *)
(* vcvt_float32_to_int32_fixed and its family).  A double rounded to odd   *)
(* by fcvtxn rounds to the same half as the double itself (fcvtxn64).      *)
FixedIsTruncated ==
  LET st == St(FALSE)
      WS == Arm!Width(Single)
      WD == Arm!Width(Double)
  IN  /\ \A n \in 0..I32 :
           /\ IsFixed(Single, a, n, IntMin(I32), IntMax(I32), I32, st, fcvtzs32_fixed_32(a, n, st))
           /\ IsFixed(Single, a, n, 0, UintMax(I32), I32, st, fcvtzu32_fixed_32(a, n, st))
           /\ IsFixed(Single, a, n, IntMin(I32), IntMax(I32), WS, st, Arm!vcvt_float32_to_int32_fixed(a, n, st))
           /\ IsFixed(Single, a, n, 0, UintMax(I32), WS, st, Arm!vcvt_float32_to_uint32_fixed(a, n, st))
           /\ n <= I16 => IsFixed(Single, a, n, 0, UintMax(I16), WS, st, Arm!vcvt_float32_to_uint16_fixed(a, n, st))
      /\ \A d \in DoublesOf(a) :
           /\ \A n \in {0, 1, I32} :
                /\ IsFixed(Double, d, n, IntMin(I32), IntMax(I32), I32, st, fcvtzs64_fixed_32(d, n, st))
                /\ IsFixed(Double, d, n, 0, UintMax(I32), I32, st, fcvtzu64_fixed_32(d, n, st))
                /\ IsFixed(Double, d, n, IntMin(I64), IntMax(I64), I64, st, fcvtzs64_fixed_64(d, n, st))
                /\ IsFixed(Double, d, n, 0, UintMax(I64), I64, st, fcvtzu64_fixed_64(d, n, st))
                /\ IsFixed(Double, d, n, IntMin(I32), IntMax(I32), WD, st, Arm!vcvt_float64_to_int32_fixed(d, n, st))
                /\ IsFixed(Double, d, n, 0, UintMax(I32), WD, st, Arm!vcvt_float64_to_uint32_fixed(d, n, st))
           /\ ~ flush /\ ~ is_any_nan(Double, d) =>
                float32_to_float16(fcvtxn64(d, st).z, TRUE, st).z = float64_to_float16(d, TRUE, st).z

(* An estimate differs from the inverse, or the inverse of the square      *)
(* root, by less than one part in 2^EstBits (call_recip_estimate and       *)
(* recip_sqrt_estimate: the operand is scaled by parity of its exponent,   *)
(* subnormals are normalised first and the exponent is put back).          *)
Near(v, one) == LET d == v - one IN (IF d < 0 THEN -d ELSE d) < one \div 2^(EstBits - 1)
Usable(f, z) == Finite(f, z) /\ extractExp(f, z) # 0
EstimatesAreClose ==
  LET st == St(FALSE)
      x == Squash(Single, a, st)
      r == frecpe32(a, st)
      inverse == r.z
      root == frsqrte32(a, st).z
  IN  Finite(Single, x) /\ ~ is_zero(Single, x) =>
        /\ Usable(Single, inverse) /\ "overflow" \notin r.fl =>
             Near(Value(Single, x) * Value(Single, inverse), 2^(2 * UnitExp(Single)))
        /\ ~ Usable(Single, inverse) \/ "overflow" \in r.fl =>
             \/ Mag(Single, Magnitude(Single, x)) >= 2^(UnitExp(Single) + Bias(Single) - 1)
             \/ Mag(Single, Magnitude(Single, x)) < 2^(UnitExp(Single) - Bias(Single))
        /\ extractSign(Single, x) = 0 =>
             Near(Value(Single, root) * Value(Single, root) * Value(Single, x), 2^(3 * UnitExp(Single)))

(* ---------------------------------------------------------------------- *)
(* The same operation by different code                                   *)

Regs(st, fast) ==
  [rm |-> st.rm, ftz |-> st.ftz, fiz |-> st.fiz, dnan |-> st.dnan, fast |-> fast, fpcr_others |-> {}]
(* The host processor and soft float: the same bits, and the same flags    *)
(* but for the underflow of a result that rounding makes normal.           *)
SameButTininess(r, q) ==
  /\ r.z = q.z
  /\ r.fl \ {"underflow"} = q.fl \ {"underflow"}
  /\ r.fl # q.fl => Magnitude(Single, r.z) = 2^Single.F
FastPathAgrees(b) ==
  LET default == [rm |-> "nearest_even", ftz |-> FALSE, fiz |-> FALSE, dnan |-> FALSE]
      Both(Op(_, _, _)) == SameButTininess(Op(a, b, Regs(default, TRUE)), Op(a, b, Regs(default, FALSE)))
  IN  Both(fadd32) /\ Both(fsub32) /\ Both(fmul32)

Vfp(opc1, opc2, sub, op, d, n, m, st) ==
  Arm!hlp_common_vfp_data_processing_insn(
    [opc1 |-> opc1, opc2 |-> opc2, is_sub |-> sub, op |-> op, is_double |-> FALSE,
     is_to_integer |-> opc2 \in {12, 13}, is_signed |-> opc2 = 13, is_quiet |-> ~ op, is_with_zero |-> opc2 = 5],
    d, n, m, TRUE, st)
TwoSource(opcode, b, st) ==
  arm64_hlp_dirty_floating_point_data_processing_2_source_simd([is_double |-> FALSE, opcode |-> opcode], a, b, Regs(st, FALSE))
ThreeSource(o1_o0, b, c, st) ==
  arm64_hlp_dirty_floating_point_data_processing_3_source_simd([is_double |-> FALSE, o1_o0 |-> o1_o0], a, b, c, Regs(st, FALSE))
ToInt(opcode, st) ==
  IF st.rm = "ties_away"
  THEN arm64_hlp_dirty_fcvtxx_scalar_integer_simd([sf |-> FALSE, is_double |-> FALSE, rmode |-> 0, opcode |-> 4 + opcode],
                                                  a, Regs(st, FALSE))
  ELSE arm64_hlp_dirty_fcvtxx_scalar_integer_simd(
         [sf |-> FALSE, is_double |-> FALSE, rmode |-> softfloat_rm_to_arm64_rm(st.rm), opcode |-> opcode], a, Regs(st, FALSE))
ScalarsAgree(b, st) ==
  LET scalar == [is_double |-> FALSE, sf |-> FALSE]
      cmp(q, zero) == arm64_hlp_dirty_floating_point_compare_simd(
                        [is_double |-> FALSE, is_quiet |-> q, is_compare_zero |-> zero], a, b, Regs(st, FALSE))
  IN  /\ Vfp(2, 0, FALSE, FALSE, 0, a, b, st) = TwoSource(0, b, st)
      /\ Vfp(8, 0, FALSE, FALSE, 0, a, b, st) = TwoSource(1, b, st)
      /\ Vfp(3, 0, FALSE, FALSE, 0, a, b, st) = TwoSource(2, b, st)
      /\ Vfp(3, 0, TRUE, FALSE, 0, a, b, st) = TwoSource(3, b, st)
      /\ Vfp(6, 0, TRUE, FALSE, 0, a, b, st) = TwoSource(8, b, st)
      /\ \A q \in BOOLEAN : /\ Vfp(11, 4, FALSE, ~ q, a, 0, b, st) = cmp(q, FALSE)
                            /\ Vfp(11, 5, FALSE, ~ q, a, 0, b, st) = cmp(q, TRUE)
      /\ \A c \in {b, Negate(Single, a)} :
           /\ Vfp(10, 0, FALSE, FALSE, c, a, b, st) = ThreeSource(0, b, c, st)
           /\ Vfp(10, 0, TRUE, FALSE, c, a, b, st) = ThreeSource(1, b, c, st)
           /\ Vfp(9, 0, TRUE, FALSE, c, a, b, st) = ThreeSource(2, b, c, st)
           /\ Vfp(9, 0, FALSE, FALSE, c, a, b, st) = ThreeSource(3, b, c, st)
      /\ Vfp(11, 13, FALSE, FALSE, 0, 0, a, st) = ToInt(0, st)
      /\ Vfp(11, 12, FALSE, FALSE, 0, 0, a, st) = ToInt(1, st)
      /\ Vfp(11, 8, FALSE, TRUE, 0, 0, a, st) = arm64_hlp_dirty_scvtf_scalar_integer_simd(scalar, a, Regs(st, FALSE))
      /\ Vfp(11, 8, FALSE, FALSE, 0, 0, a, st) = arm64_hlp_dirty_ucvtf_scalar_integer_simd(scalar, a, Regs(st, FALSE))

(* Halves, of both formats: the scalar and the vector instructions.        *)
HalvesAgree(st) ==
  \A others \in {{}, {"AHP"}} :
    LET regs == [Regs(st, FALSE) EXCEPT !.fpcr_others = others]
        form == [is_double |-> FALSE, scalar |-> FALSE, q |-> 0]
        lanes == [i \in 0..3 |-> a]
        h == a % 2^Arm!Width(Half)
        insn(up) == [top |-> FALSE, half_to_single |-> up]
        to == dis_fcvt([type |-> 0, opc |-> 3], a, regs)
        from == dis_fcvt([type |-> 3, opc |-> 0], h, regs)
    IN  /\ Arm!dis_common_vcvtb_vcvtt_vfp(insn(FALSE), 0, a, IEEE_H16(regs), st) = to
        /\ Arm!dis_common_vcvtb_vcvtt_vfp(insn(TRUE), 0, h, IEEE_H16(regs), st) = from
        /\ LET v == Vector!dis_fcvtn(form, lanes, lanes, regs) IN v.z[3] = to.z /\ v.fl = to.fl
        /\ LET v == Vector!dis_fcvtl(form, [i \in 0..7 |-> h], regs) IN v.z[3] = from.z /\ v.fl = from.fl
        /\ st = Arm!SimdStatus =>
             LET v == Arm!dis_common_vcvt_half_single_simd(insn(FALSE), lanes, IEEE_H16(regs))
             IN  v.z[3] = to.z /\ v.fl = to.fl

(* Vectors, with the status that NEON always has.                          *)
VectorsAgree(b) ==
  LET regs == Regs(Arm!SimdStatus, FALSE)
      insn(sub) == [reg_nb |-> 2, is_sub |-> sub, or_equal |-> ~ sub, f |-> TRUE]
      form(sub) == [is_double |-> FALSE, scalar |-> FALSE, q |-> 1, is_sub |-> sub, is_min |-> sub]
      one == [is_double |-> FALSE, scalar |-> FALSE, q |-> 0, is_min |-> TRUE]
      n == [i \in 0..3 |-> IF i % 2 = 0 THEN a ELSE b]
      m == [i \in 0..3 |-> CASE i = 0 -> b [] i = 1 -> Negate(Single, a) [] i = 2 -> a [] i = 3 -> 1]
      low(v) == [i \in 0..1 |-> v[i]]
  IN  /\ \A sub \in BOOLEAN :
           /\ Arm!dis_common_vadd_vsub_fpu_simd(insn(sub), n, m) = Vector!dis_fadd_fsub(form(sub), n, m, regs)
           /\ Arm!dis_common_vmax_vmin_fpu_simd(insn(sub), n, m) = Vector!dis_fmax_fmin(form(sub), n, m, regs)
           /\ Arm!dis_common_vfma_vfms_simd(insn(sub), m, n, m) = Vector!dis_fmla_fmls(form(sub), m, n, m, regs)
      /\ Arm!dis_common_vmul_f32_simd(insn(FALSE), n, m) = Vector!dis_fmul(form(FALSE), n, m, regs)
      /\ Arm!dis_common_vabd_fpu_simd(insn(FALSE), n, m) = Vector!dis_fabd(form(FALSE), n, m, regs)
      /\ Arm!dis_common_vacge_vacgt_simd(insn(FALSE), n, m) = Vector!dis_facge(form(FALSE), n, m, regs)
      /\ Arm!dis_common_vacge_vacgt_simd(insn(TRUE), n, m) = Vector!dis_facgt(form(FALSE), n, m, regs)
      /\ LET r == Arm!dis_common_vpadd_fpu_simd(low(n), low(m))
             q == Vector!dis_faddp(one, n, m, regs)
         IN  r.z = low(q.z) /\ r.fl = q.fl
      /\ LET r == Arm!dis_common_vpmax_vpmin_fpu_simd([insn(TRUE) EXCEPT !.reg_nb = 1], low(n), low(m))
             q == Vector!dis_fmaxp_fminp(one, n, m, regs)
         IN  r.z = low(q.z) /\ r.fl = q.fl

(* An operation has one meaning, whichever code computes it: the fast path *)
(* of the host processor and soft float (fadd32 and its kin in             *)
(* arm64_helpers_simd_fpu_common.c), the instructions of the 64 bit guest  *)
(* and those of the 32 bit guest, scalar and vector, their negated and     *)
(* accumulating forms, comparisons and conversions.                        *)
FloatTargetsAgree ==
  [][Moves =>
     /\ \A b \in Partners : ScalarsAgree(b, St(a % 2 = 0))
     /\ \A dnan \in BOOLEAN : HalvesAgree(St(dnan))
     /\ rm = "nearest_even" /\ ~ flush =>       \* the control is fixed there
          /\ \A b \in Operands : FastPathAgrees(b)
          /\ \A b \in Partners : VectorsAgree(b)]_vars

(* Every operation gives the exact result rounded once in the current      *)
(* mode, with exactly the flags that the rounding, an overflow, a tiny     *)
(* result or a flush calls for (addFloat32Sigs, subFloat32Sigs,            *)
(* float32_mul, float32_div, float32_muladd, float32_sqrt, float64_div,    *)
(* float64_sqrt and roundAndPackFloat32, whose estimates, guard and sticky *)
(* bits, carries into the exponent and normalisation shifts all have to    *)
(* agree), NaNs and orders as the arm processors have them, and inverses   *)
(* that are close.                                                         *)
(* Conversions, to integers, to other formats and to fixed point numbers,  *)
(* round the exact value once, in the mode asked for, and saturate with    *)
(* invalid and no other flag, whichever wider conversion or scaling they   *)
(* go through.                                                             *)
ResultsAreRounded ==
  [][Moves =>
     /\ SumsAndProducts /\ FusedSums /\ RootsAndIntegrals /\ EstimatesDoNotShow /\ NaNsAndOrder /\ EstimatesAreClose
     /\ FormatsConvert /\ FixedIsTruncated]_vars
=============================================================================
