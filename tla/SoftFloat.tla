------------------------------ MODULE SoftFloat ------------------------------
(* The software floating point of the guests (src/fpu), built with the      *)
(* rules of the arm processors (TARGET_ARM, softfloat.c:41).  A number is   *)
(* its bits, a natural; an operation returns its result z and the exception *)
(* flags fl it raises; st is the status the guest's control register sets:  *)
(* the rounding mode rm, flush results (ftz) and operands (fiz) to zero,    *)
(* default NaN (dnan).  Tininess is detected before rounding, as both       *)
(* guests ask.                                                              *)
(*                                                                          *)
(* The code is written once per format.  The algorithms are those of the    *)
(* single format, over a format f: E exponent bits, F fraction bits and G   *)
(* guard bits of the working significand, whose word has F + G + 2 bits.    *)
(* Quotients and roots start from an estimate, of which only the error that *)
(* softfloat-macros.h promises is known here, and which the code corrects   *)
(* only where its last bits are close to those of a number or a midpoint.   *)
EXTENDS Integers, FiniteSetsExt

CONSTANTS
  Single,          \* [E, F, G], 8, 23 and 7 in the code
  Double,          \* 11, 52 and 10
  Half,            \* 5, 10; G unused
  I16, I32, I64,   \* the widths of the integers
  IntGuard         \* the fraction bits of roundAndPackInt32: 7

ASSUME FormatsAssumption ==
  /\ Single.G > 2 /\ Double.G > 2
  /\ Half.F + 2 <= Single.F /\ Single.F + Single.G <= Double.F
  /\ Half.E < Single.E /\ Single.E < Double.E
  /\ I16 < I32 /\ I32 < I64 /\ I64 <= 2^(Single.E - 1)

Modes == {"nearest_even", "ties_away", "to_zero", "up", "down"}

Bias(f) == 2^(f.E - 1) - 1
ExpMax(f) == 2^f.E - 1
Word(f) == f.F + f.G + 2
Bit(b) == IF b THEN 1 ELSE 0
Flip(s, b) == IF b THEN 1 - s ELSE s
When(b, fl) == IF b THEN fl ELSE {}
Res(z, fl) == [z |-> z, fl |-> fl]
Raise(r, fl) == Res(r.z, r.fl \cup fl)
BitLength(n) == CHOOSE k \in 0..29 : n < 2^k /\ (k = 0 \/ n >= 2^(k - 1))
ShiftRightJamming(a, n) ==
  IF n > 28 THEN Bit(a # 0)
  ELSE LET q == a \div 2^n IN IF a % 2^n # 0 /\ q % 2 = 0 THEN q + 1 ELSE q

(* ---------------------------------------------------------------------- *)
(* Fields and NaNs                                                        *)

extractFrac(f, a) == a % 2^f.F
extractExp(f, a) == (a \div 2^f.F) % 2^f.E
extractSign(f, a) == a \div 2^(f.E + f.F)
(* The significand is added: its integer bit, or a carry, adds to zExp.    *)
packFloat(f, zSign, zExp, zSig) == zSign * 2^(f.E + f.F) + zExp * 2^f.F + zSig

Infinity(f, s) == packFloat(f, s, ExpMax(f), 0)
is_any_nan(f, a) == extractExp(f, a) = ExpMax(f) /\ extractFrac(f, a) # 0
is_quiet_nan(f, a) == is_any_nan(f, a) /\ extractFrac(f, a) >= 2^(f.F - 1)
is_signaling_nan(f, a) == is_any_nan(f, a) /\ extractFrac(f, a) < 2^(f.F - 1)
default_nan(f) == packFloat(f, 0, ExpMax(f), 2^(f.F - 1))
is_denormal(f, a) == extractExp(f, a) = 0 /\ extractFrac(f, a) # 0
is_zero(f, a) == extractExp(f, a) = 0 /\ extractFrac(f, a) = 0
is_infinity(f, a) == extractExp(f, a) = ExpMax(f) /\ extractFrac(f, a) = 0
Invalid(f) == Res(default_nan(f), {"invalid"})

maybe_silence_nan(f, a) == IF is_signaling_nan(f, a) THEN a + 2^(f.F - 1) ELSE a

pickNaN(f, a, b) ==
  CASE is_signaling_nan(f, a) -> a
    [] ~ is_signaling_nan(f, a) /\ is_signaling_nan(f, b) -> b
    [] ~ is_signaling_nan(f, a) /\ ~ is_signaling_nan(f, b) -> IF is_quiet_nan(f, a) THEN a ELSE b

propagateNaN(f, a, b, st) ==
  Res(IF st.dnan THEN default_nan(f) ELSE maybe_silence_nan(f, pickNaN(f, a, b)),
      When(is_signaling_nan(f, a) \/ is_signaling_nan(f, b), {"invalid"}))

(* The first signalling one of c, a, b, else the first quiet one.          *)
pickNaNMulAdd(f, a, b, c) ==
  IF \E x \in {a, b, c} : is_signaling_nan(f, x)
  THEN IF is_signaling_nan(f, c) THEN c ELSE IF is_signaling_nan(f, a) THEN a ELSE b
  ELSE IF is_quiet_nan(f, c) THEN c ELSE IF is_quiet_nan(f, a) THEN a ELSE b

propagateMulAddNaN(f, a, b, c, infzero, st) ==
  LET lost == infzero /\ is_quiet_nan(f, c)
  IN  Res(IF st.dnan \/ lost THEN default_nan(f) ELSE maybe_silence_nan(f, pickNaNMulAdd(f, a, b, c)),
          When(lost \/ \E x \in {a, b, c} : is_signaling_nan(f, x), {"invalid"}))

(* A NaN of another format keeps the upper bits of its fraction, and stays *)
(* a signalling one.                                                       *)
commonNaN(f, g, a, st) ==
  LET frac == IF g.F >= f.F THEN extractFrac(f, a) * 2^(g.F - f.F) ELSE extractFrac(f, a) \div 2^(f.F - g.F)
  IN  Res(IF st.dnan \/ frac = 0 THEN default_nan(g) ELSE packFloat(g, extractSign(f, a), ExpMax(g), frac),
          When(is_signaling_nan(f, a), {"invalid"}))

squash_input_denormal(f, a, st) ==
  IF st.fiz /\ is_denormal(f, a)
  THEN Res(packFloat(f, extractSign(f, a), 0, 0), {"input_denormal"}) ELSE Res(a, {})
Squash(f, a, st) == squash_input_denormal(f, a, st).z
SquashFlags(f, as, st) == UNION {squash_input_denormal(f, a, st).fl : a \in as}

(* ---------------------------------------------------------------------- *)
(* Rounding                                                               *)

(* The exponent and the significand, its integer bit included.             *)
normalizeSubnormal(f, aSig) ==
  LET shift == f.F + 1 - BitLength(aSig) IN [exp |-> 1 - shift, sig |-> aSig * 2^shift]
Parts(f, a) ==
  IF extractExp(f, a) = 0 THEN normalizeSubnormal(f, extractFrac(f, a))
  ELSE [exp |-> extractExp(f, a), sig |-> extractFrac(f, a) + 2^f.F]

(* What a mode adds below the last bit, g bits wide, before it truncates.  *)
RoundIncrement(zSign, g, st) ==
  CASE st.rm \in {"nearest_even", "ties_away"} -> 2^(g - 1)
    [] st.rm = "to_zero" -> 0
    [] st.rm = "up" -> IF zSign = 1 THEN 0 ELSE 2^g - 1
    [] st.rm = "down" -> IF zSign = 1 THEN 2^g - 1 ELSE 0
RoundOff(sig, g, zSign, st) ==
  LET z == (sig + RoundIncrement(zSign, g, st)) \div 2^g
  IN  IF sig % 2^g = 2^(g - 1) /\ st.rm = "nearest_even" THEN z - (z % 2) ELSE z

(* zSig has its integer bit at F + G, and zExp is one less than the        *)
(* exponent: packFloat adds the integer bit to it.                         *)
roundAndPackFloat(f, zSign, zExp, zSig, st) ==
  LET inc == RoundIncrement(zSign, f.G, st)
      overflow == \/ zExp > ExpMax(f) - 2
                  \/ zExp = ExpMax(f) - 2 /\ zSig + inc >= 2^(Word(f) - 1)
      sig == IF zExp < 0 THEN ShiftRightJamming(zSig, -zExp) ELSE zSig
      inexact == sig % 2^f.G # 0
      z == RoundOff(sig, f.G, zSign, st)
  IN  IF overflow
      THEN Res(packFloat(f, zSign, ExpMax(f), - Bit(inc = 0)), {"overflow", "inexact"})
      ELSE IF zExp < 0 /\ st.ftz
      THEN Res(packFloat(f, zSign, 0, 0), {"output_denormal"})
      ELSE Res(packFloat(f, zSign, IF z = 0 \/ zExp < 0 THEN 0 ELSE zExp, z),
               When(inexact, {"inexact"}) \cup When(inexact /\ zExp < 0, {"underflow"}))

normalizeRoundAndPackFloat(f, zSign, zExp, zSig, st) ==
  LET shift == Word(f) - 1 - BitLength(zSig)
  IN  roundAndPackFloat(f, zSign, zExp - shift, zSig * 2^shift, st)

(* ---------------------------------------------------------------------- *)
(* Arithmetic                                                             *)

addFloatSigs(f, a, b, zSign, st) ==
  LET aExp == extractExp(f, a)
      bExp == extractExp(f, b)
      hi == IF aExp >= bExp THEN a ELSE b
      lo == IF aExp >= bExp THEN b ELSE a
      zExp == extractExp(f, hi)
      loExp == extractExp(f, lo)
      sum == LET loSig == (extractFrac(f, lo) + IF loExp = 0 THEN 0 ELSE 2^f.F) * 2^(f.G - 1)
             IN  (extractFrac(f, hi) + 2^f.F) * 2^(f.G - 1)
                 + ShiftRightJamming(loSig, zExp - loExp - Bit(loExp = 0))
      both == extractFrac(f, a) + extractFrac(f, b)
  IN  CASE is_any_nan(f, a) \/ is_any_nan(f, b) -> propagateNaN(f, a, b, st)
        [] ~ is_any_nan(f, a) /\ ~ is_any_nan(f, b) /\ zExp = ExpMax(f) -> Res(Infinity(f, zSign), {})
        [] aExp = 0 /\ bExp = 0 ->
             IF st.ftz THEN Res(packFloat(f, zSign, 0, 0), When(both # 0, {"output_denormal"}))
             ELSE Res(packFloat(f, zSign, 0, both), {})
        [] aExp = bExp /\ zExp \in 1..ExpMax(f) - 1 ->
             roundAndPackFloat(f, zSign, zExp, 2^(f.F + f.G) + both * 2^(f.G - 1), st)
        [] aExp # bExp /\ zExp \in 1..ExpMax(f) - 1 ->
             IF 2 * sum >= 2^(Word(f) - 1) THEN roundAndPackFloat(f, zSign, zExp, sum, st)
             ELSE roundAndPackFloat(f, zSign, zExp - 1, 2 * sum, st)

subFloatSigs(f, a, b, zSign, st) ==
  LET exp(x) == Max({1, extractExp(f, x)})
      sig(x) == (extractFrac(f, x) + IF extractExp(f, x) = 0 THEN 0 ELSE 2^f.F) * 2^f.G
      diff == ShiftRightJamming(sig(a), Max({0, exp(b) - exp(a)})) - ShiftRightJamming(sig(b), Max({0, exp(a) - exp(b)}))
      abs == IF diff < 0 THEN -diff ELSE diff
  IN  CASE is_any_nan(f, a) \/ is_any_nan(f, b) -> propagateNaN(f, a, b, st)
        [] is_infinity(f, a) /\ is_infinity(f, b) -> Invalid(f)
        [] is_infinity(f, a) /\ ~ is_infinity(f, b) /\ ~ is_any_nan(f, b) -> Res(a, {})
        [] is_infinity(f, b) /\ ~ is_infinity(f, a) /\ ~ is_any_nan(f, a) -> Res(Infinity(f, 1 - zSign), {})
        [] OTHER ->
             IF diff = 0 THEN Res(packFloat(f, Bit(st.rm = "down"), 0, 0), {})
             ELSE normalizeRoundAndPackFloat(f, Flip(zSign, diff < 0), Max({exp(a), exp(b)}) - 1, abs, st)

(* Slip: the low half of the product is dropped without a sticky bit.      *)
mulFloatPlain(f, a, b, st) ==
  LET zSign == (extractSign(f, a) + extractSign(f, b)) % 2
      pa == Parts(f, a)
      pb == Parts(f, b)
      zExp == pa.exp + pb.exp - Bias(f)
      zSig == (pa.sig * 2^f.G * (pb.sig * 2^(f.G + 1))) \div 2^Word(f)
  IN  IF is_any_nan(f, a) \/ is_any_nan(f, b) THEN propagateNaN(f, a, b, st)
      ELSE IF is_infinity(f, a) \/ is_infinity(f, b)
      THEN IF is_zero(f, a) \/ is_zero(f, b) THEN Invalid(f) ELSE Res(Infinity(f, zSign), {})
      ELSE IF is_zero(f, a) \/ is_zero(f, b) THEN Res(packFloat(f, zSign, 0, 0), {})
      ELSE IF zSig < 2^(Word(f) - 2) THEN roundAndPackFloat(f, zSign, zExp - 1, 2 * zSig, st)
      ELSE roundAndPackFloat(f, zSign, zExp, zSig, st)

mulFloat(f, a, b, st) ==
  LET zSign == (extractSign(f, a) + extractSign(f, b)) % 2
      pa == Parts(f, a)
      pb == Parts(f, b)
      zExp == pa.exp + pb.exp - Bias(f)
      zSig == ShiftRightJamming(pa.sig * 2^f.G * (pb.sig * 2^(f.G + 1)), Word(f))
  IN  IF is_any_nan(f, a) \/ is_any_nan(f, b) THEN propagateNaN(f, a, b, st)
      ELSE IF is_infinity(f, a) \/ is_infinity(f, b)
      THEN IF is_zero(f, a) \/ is_zero(f, b) THEN Invalid(f) ELSE Res(Infinity(f, zSign), {})
      ELSE IF is_zero(f, a) \/ is_zero(f, b) THEN Res(packFloat(f, zSign, 0, 0), {})
      ELSE IF zSig < 2^(Word(f) - 2) THEN roundAndPackFloat(f, zSign, zExp - 1, 2 * zSig, st)
      ELSE roundAndPackFloat(f, zSign, zExp, zSig, st)

(* The loops that count an estimate down end at the largest value that is  *)
(* not too large, and a remainder sets the last bit.                       *)
Corrected(z, error, Product(_), n) ==
  LET q == Max({x \in z - error..z : Product(x) <= n})
  IN  IF Product(q) # n /\ q % 2 = 0 THEN q + 1 ELSE q

(* The significand of a quotient n / d: float32_div divides, float64_div   *)
(* starts from an estimate between the quotient and two more.              *)
estimateDiv128To64(n, d) == CHOOSE z \in n \div d..n \div d + 2 : TRUE
divSig32(f, n, d) ==
  LET q == n \div d IN IF q % 2^(f.G - 1) = 0 /\ d * q # n THEN q + 1 ELSE q
divSig64(f, n, d, z) ==
  IF z % 2^(f.G - 1) <= 2 THEN Corrected(z, 2, LAMBDA x : x * d, n) ELSE z

divFloat(f, a, b, Sig(_, _), st) ==
  LET zSign == (extractSign(f, a) + extractSign(f, b)) % 2
      pa == Parts(f, a)
      pb == Parts(f, b)
      bSig == pb.sig * 2^(f.G + 1)
      big == bSig <= pa.sig * 2^(f.G + 1)
      aSig == IF big THEN pa.sig * 2^(f.G - 1) ELSE pa.sig * 2^f.G
  IN  IF is_any_nan(f, a) \/ is_any_nan(f, b) THEN propagateNaN(f, a, b, st)
      ELSE IF is_infinity(f, a) THEN IF is_infinity(f, b) THEN Invalid(f) ELSE Res(Infinity(f, zSign), {})
      ELSE IF is_infinity(f, b) THEN Res(packFloat(f, zSign, 0, 0), {})
      ELSE IF is_zero(f, b) THEN IF is_zero(f, a) THEN Invalid(f) ELSE Res(Infinity(f, zSign), {"divbyzero"})
      ELSE IF is_zero(f, a) THEN Res(packFloat(f, zSign, 0, 0), {})
      ELSE roundAndPackFloat(f, zSign, pa.exp - pb.exp + Bias(f) - 2 + Bit(big), Sig(aSig * 2^Word(f), bSig), st)

(* a * b + c with one rounding: the product and c in a double word.        *)
muladdFloat(f, a, b, c, flags, st) ==
  LET infzero == (is_zero(f, a) /\ is_infinity(f, b)) \/ (is_infinity(f, a) /\ is_zero(f, b))
      cSign == Flip(extractSign(f, c), "negate_c" \in flags)
      pSign == Flip((extractSign(f, a) + extractSign(f, b)) % 2, "negate_product" \in flags)
      out(s) == Flip(s, "negate_result" \in flags)
      halve == Bit("halve_result" \in flags)
      pInf == is_infinity(f, a) \/ is_infinity(f, b)
      pZero == is_zero(f, a) \/ is_zero(f, b)
      top == 2 * Word(f) - 2
      pa == Parts(f, a)
      pb == Parts(f, b)
      raw == pa.sig * 2^f.G * (pb.sig * 2^(f.G + 1))
      pSig == IF raw < 2^top THEN 2 * raw ELSE raw
      pExp == pa.exp + pb.exp - Bias(f) + 1 - Bit(raw < 2^top)
      pc == Parts(f, c)
      cSig == pc.sig * 2^(top - f.F)
      p == ShiftRightJamming(pSig, Max({0, pc.exp - pExp}))
      cc == ShiftRightJamming(cSig, Max({0, pExp - pc.exp}))
      zExp == Max({pExp, pc.exp})
      down(s, e, sig) == roundAndPackFloat(f, s, e - halve, ShiftRightJamming(sig, Word(f)), st)
      shift == top + 1 - BitLength(IF p > cc THEN p - cc ELSE cc - p)
  IN  IF \E x \in {a, b, c} : is_any_nan(f, x) THEN propagateMulAddNaN(f, a, b, c, infzero, st)
      ELSE IF infzero THEN Invalid(f)
      ELSE IF is_infinity(f, c)
      THEN IF pInf /\ pSign # cSign THEN Invalid(f) ELSE Res(Infinity(f, out(cSign)), {})
      ELSE IF pInf THEN Res(Infinity(f, out(pSign)), {})
      ELSE IF pZero /\ is_zero(f, c)
      THEN Res(packFloat(f, out(IF pSign = cSign THEN pSign ELSE Bit(st.rm = "down")), 0, 0), {})
      ELSE IF pZero /\ extractExp(f, c) = 0 /\ st.ftz
      THEN Res(packFloat(f, out(cSign), 0, 0), {"output_denormal"})
      ELSE IF pZero
      THEN IF halve = 1 THEN roundAndPackFloat(f, out(cSign), pc.exp - 2, pc.sig * 2^f.G, st)
           ELSE Res(packFloat(f, out(cSign), extractExp(f, c), extractFrac(f, c)), {})
      ELSE IF is_zero(f, c) THEN down(out(pSign), pExp - 1, pSig)
      ELSE IF pSign = cSign
      THEN IF p + cc >= 2^(top + 1) THEN down(out(pSign), zExp, ShiftRightJamming(p + cc, 1))
           ELSE down(out(pSign), zExp - 1, p + cc)
      ELSE IF p = cc /\ pExp = pc.exp THEN Res(packFloat(f, out(Bit(st.rm = "down")), 0, 0), {})
      ELSE down(Flip(out(pSign), cc > p), zExp - 1 - shift, (IF p > cc THEN p - cc ELSE cc - p) * 2^shift)

(* The truncated root of n, bit by bit.                                    *)
TopBit == 14
IntRoot(n) ==
  LET root[k \in 0..TopBit] ==
        IF k = TopBit THEN 0
        ELSE LET r == root[k + 1] IN IF (r + 2^k) * (r + 2^k) <= n THEN r + 2^k ELSE r
  IN  root[0]

(* estimateSqrt32 is off by less than two, and float32_sqrt adds two.      *)
Estimates32(f, n) ==
  {e \in IntRoot(n) - 1..IntRoot(n) + 2 :
     e < 2^Word(f) /\ (e - 2) * (e - 2) < n /\ n < (e + 2) * (e + 2)}
sqrtSig32(f, n, e) ==
  LET z == (e + 2) % 2^Word(f) IN
  IF z % 2^f.G > 5 THEN ShiftRightJamming(z, 1)
  ELSE IF z < 2 THEN 2^(Word(f) - 1) - 1
  ELSE ShiftRightJamming(Corrected(z, 4, LAMBDA x : x * x, n), 1)

(* float64_sqrt improves that estimate by a step of Newton's: never too    *)
(* small then, and too large by less than six, two of estimateDiv128To64   *)
(* and the square of the first error.                                      *)
Estimates64(n) == {z \in IntRoot(n)..IntRoot(n) + 6 : (z - 6) * (z - 6) < n}
sqrtSig64(f, n, z) ==
  IF z % 2^(f.G - 1) <= 5 THEN Corrected(z, 6, LAMBDA x : x * x, n) ELSE z

(* g is the number of bits below the last one of the result that the root  *)
(* of n has.                                                               *)
sqrtFloat(f, a, g, Sig(_), st) ==
  LET pa == Parts(f, a)
      n == pa.sig * 2^(f.F + 2 * g + 1 - (pa.exp % 2))
  IN  IF is_any_nan(f, a) THEN propagateNaN(f, a, 0, st)
      ELSE IF is_zero(f, a) \/ (is_infinity(f, a) /\ extractSign(f, a) = 0) THEN Res(a, {})
      ELSE IF extractSign(f, a) = 1 THEN Invalid(f)
      ELSE roundAndPackFloat(f, 0, ((pa.exp - Bias(f)) \div 2) + Bias(f) - 1, Sig(n), st)

round_to_int(f, a, st) ==
  LET s == extractSign(f, a)
      exp == extractExp(f, a)
      one(b) == packFloat(f, s, IF b THEN Bias(f) ELSE 0, 0)
      last == 2^(Bias(f) + f.F - exp)
      z == a + CASE st.rm \in {"nearest_even", "ties_away"} -> last \div 2
                 [] st.rm = "to_zero" -> 0
                 [] st.rm = "up" -> IF s = 0 THEN last - 1 ELSE 0
                 [] st.rm = "down" -> IF s = 1 THEN last - 1 ELSE 0
      even == IF st.rm = "nearest_even" /\ z % last = 0 /\ (z \div last) % 2 = 1 THEN z - last ELSE z - (z % last)
  IN  IF exp >= Bias(f) + f.F
      THEN IF is_any_nan(f, a) THEN propagateNaN(f, a, a, st) ELSE Res(a, {})
      ELSE IF is_zero(f, a) THEN Res(a, {})
      ELSE IF exp < Bias(f)
      THEN Res(one(CASE st.rm = "nearest_even" -> exp = Bias(f) - 1 /\ extractFrac(f, a) # 0
                     [] st.rm = "ties_away" -> exp = Bias(f) - 1
                     [] st.rm = "to_zero" -> FALSE
                     [] st.rm = "down" -> s = 1
                     [] st.rm = "up" -> s = 0), {"inexact"})
      ELSE Res(even, When(even # a, {"inexact"}))

(* n is limited to what empties or overflows the exponent.                 *)
scalbnFloat(f, a, n, st) ==
  LET limit == 2^(f.E + 1)
      m == Max({-limit, Min({limit, n})})
      exp == Max({1, extractExp(f, a)})
      sig == extractFrac(f, a) + IF extractExp(f, a) = 0 THEN 0 ELSE 2^f.F
  IN  IF is_any_nan(f, a) THEN propagateNaN(f, a, a, st)
      ELSE IF is_infinity(f, a) \/ is_zero(f, a) THEN Res(a, {})
      ELSE normalizeRoundAndPackFloat(f, extractSign(f, a), exp + m - 1, sig * 2^f.G, st)

(* ---------------------------------------------------------------------- *)
(* Comparison                                                             *)

(* The order of two numbers that are not NaNs: -1, 0 or 1.                 *)
Order(f, a, b) ==
  CASE a = b \/ (is_zero(f, a) /\ is_zero(f, b)) -> 0
    [] a # b /\ ~ (is_zero(f, a) /\ is_zero(f, b)) ->
         IF extractSign(f, a) # extractSign(f, b) THEN 1 - 2 * extractSign(f, a)
         ELSE IF (extractSign(f, a) = 1) # (a < b) THEN -1 ELSE 1
NaNFlags(f, a, b, quiet) ==
  When(~ quiet \/ is_signaling_nan(f, a) \/ is_signaling_nan(f, b), {"invalid"})

(* eq, le, lt and unordered are tests of the order; a NaN answers nan.     *)
testFloat(f, a, b, quiet, orders, nan, st) ==
  LET x == Squash(f, a, st)
      y == Squash(f, b, st)
  IN  Raise(IF is_any_nan(f, x) \/ is_any_nan(f, y) THEN Res(nan, NaNFlags(f, x, y, quiet))
            ELSE Res(Order(f, x, y) \in orders, {}), SquashFlags(f, {a, b}, st))
compare_internal(f, a, b, quiet, st) ==
  LET x == Squash(f, a, st)
      y == Squash(f, b, st)
  IN  Raise(IF is_any_nan(f, x) \/ is_any_nan(f, y) THEN Res(2, NaNFlags(f, x, y, quiet))
            ELSE Res(Order(f, x, y), {}), SquashFlags(f, {a, b}, st))

minmaxFloat(f, a, b, ismin, isieee, st) ==
  LET x == Squash(f, a, st)
      y == Squash(f, b, st)
      below == IF extractSign(f, x) # extractSign(f, y) THEN extractSign(f, x) = 1
               ELSE (extractSign(f, x) = 1) # (x < y)
  IN  Raise(CASE isieee /\ is_quiet_nan(f, x) /\ ~ is_any_nan(f, y) -> Res(y, {})
              [] isieee /\ is_quiet_nan(f, y) /\ ~ is_any_nan(f, x) -> Res(x, {})
              [] ~ is_any_nan(f, x) /\ ~ is_any_nan(f, y) -> Res(IF below = ismin THEN x ELSE y, {})
              [] OTHER -> propagateNaN(f, x, y, st), SquashFlags(f, {a, b}, st))

(* ---------------------------------------------------------------------- *)
(* Integers.  A magnitude v has g fraction bits, the last one sticky.      *)

Fixed(f, exp, sig, g) ==
  LET up == exp - Bias(f) - f.F + g IN IF up >= 0 THEN sig * 2^up ELSE ShiftRightJamming(sig, -up)
(* The significand as the conversions take it, without an integer bit when *)
(* the exponent is zero.                                                   *)
IntSig(f, a, g) ==
  Fixed(f, Max({1, extractExp(f, a)}), extractFrac(f, a) + IF extractExp(f, a) = 0 THEN 0 ELSE 2^f.F, g)
Signed(s, n) == IF s = 1 THEN -n ELSE n
Limit(s, w) == IF s = 1 THEN -(2^(w - 1)) ELSE 2^(w - 1) - 1
Fits(z, w) == -(2^(w - 1)) <= z /\ z < 2^(w - 1)

roundAndPackInt32(zSign, v, st) ==
  LET z == Signed(zSign, RoundOff(v, IntGuard, zSign, st))
  IN  IF Fits(z, I32) THEN Res(z, When(v % 2^IntGuard # 0, {"inexact"}))
      ELSE Res(Limit(zSign, I32), {"invalid"})
roundAndPackInt64(zSign, v, st) ==
  LET z == Signed(zSign, RoundOff(v, I64, zSign, st))
  IN  IF Fits(z, I64) THEN Res(z, When(v % 2^I64 # 0, {"inexact"}))
      ELSE Res(Limit(zSign, I64), {"invalid"})
roundAndPackUint64(zSign, v, st) ==
  LET z == RoundOff(v, I64, zSign, st)
  IN  IF z >= 2^I64 THEN Res(2^I64 - 1, {"invalid"})
      ELSE IF zSign = 1 /\ z # 0 THEN Res(0, {"invalid"})
      ELSE Res(z, When(v % 2^I64 # 0, {"inexact"}))

to_int32(f, a, st) ==
  LET x == Squash(f, a, st)
  IN  Raise(roundAndPackInt32(IF is_any_nan(f, x) THEN 0 ELSE extractSign(f, x), IntSig(f, x, IntGuard), st),
            SquashFlags(f, {a}, st))
to_int64(f, a, st) ==
  LET x == Squash(f, a, st)
      s == extractSign(f, x)
  IN  Raise(IF extractExp(f, x) > Bias(f) + I64 - 1
            THEN Res(Limit(IF is_any_nan(f, x) THEN 0 ELSE s, I64), {"invalid"})
            ELSE roundAndPackInt64(s, IntSig(f, x, I64), st),
            SquashFlags(f, {a}, st))
to_uint64(f, a, st) ==
  LET x == Squash(f, a, st)
      s == extractSign(f, x)
  IN  Raise(IF s = 1 /\ extractExp(f, x) > Bias(f) - 1
            THEN Res(IF is_any_nan(f, x) THEN 2^I64 - 1 ELSE 0, {"invalid"})
            ELSE IF extractExp(f, x) > Bias(f) + I64 - 1 THEN Res(2^I64 - 1, {"invalid"})
            ELSE roundAndPackUint64(s, IntSig(f, x, I64), st),
            SquashFlags(f, {a}, st))
(* Towards zero, to w bits: the only number with the exponent of the limit *)
(* that fits is the limit itself.                                          *)
TruncateFits(f, x, w) == x = packFloat(f, 1, Bias(f) + w - 1, 0)
truncate_to_int(f, x, w) ==
  LET s == extractSign(f, x)
      exp == extractExp(f, x)
      v == IntSig(f, x, f.F)
  IN  IF exp >= Bias(f) + w - 1
      THEN IF TruncateFits(f, x, w) THEN Res(Limit(1, w), {})
           ELSE Res(Limit(IF is_any_nan(f, x) THEN 0 ELSE s, w), {"invalid"})
      ELSE IF exp < Bias(f) THEN Res(0, When(~ is_zero(f, x), {"inexact"}))
      ELSE Res(Signed(s, v \div 2^f.F), When(v % 2^f.F # 0, {"inexact"}))
(* The double to 16 and 32 bits: the sign of the truncated value decides.  *)
truncate_by_sign(f, x, w) ==
  LET s == extractSign(f, x)
      exp == extractExp(f, x)
      v == IntSig(f, x, f.F)
      z == Signed(s, v \div 2^f.F)
  IN  IF exp > Bias(f) + w - 1 THEN Res(Limit(IF is_any_nan(f, x) THEN 0 ELSE s, w), {"invalid"})
      ELSE IF exp < Bias(f) THEN Res(0, When(~ is_zero(f, x), {"inexact"}))
      ELSE IF ~ Fits(z, w) THEN Res(Limit(s, w), {"invalid"})
      ELSE Res(z, When(v % 2^f.F # 0, {"inexact"}))
(* A narrower result out of a wider conversion r: out of lo..hi, the flags *)
(* of the conversion are replaced by invalid.                              *)
Narrow(r, lo, hi) ==
  IF r.z < lo THEN Res(lo, {"invalid"}) ELSE IF r.z > hi THEN Res(hi, {"invalid"}) ELSE r
ToZero(st) == [st EXCEPT !.rm = "to_zero"]

(* An integer is rounded like a significand: what does not fit the working *)
(* word is jammed into its last bit.                                       *)
int_to_float(f, a, st) ==
  LET mag == IF a < 0 THEN -a ELSE a
      excess == Max({0, BitLength(mag) - (Word(f) - 1)})
  IN  IF a = 0 THEN Res(0, {})
      ELSE normalizeRoundAndPackFloat(f, Bit(a < 0), Bias(f) + Word(f) - 3 + excess,
                                      ShiftRightJamming(mag, excess), st)

(* ---------------------------------------------------------------------- *)
(* Other formats                                                          *)

(* Exact: g has more of both fields.                                       *)
widen(f, g, a, st) ==
  LET p == Parts(f, a)
      s == extractSign(f, a)
  IN  IF is_any_nan(f, a) THEN commonNaN(f, g, a, st)
      ELSE IF is_infinity(f, a) THEN Res(Infinity(g, s), {})
      ELSE IF is_zero(f, a) THEN Res(packFloat(g, s, 0, 0), {})
      ELSE Res(packFloat(g, s, p.exp - 1 + Bias(g) - Bias(f), p.sig * 2^(g.F - f.F)), {})

(* ieee is clear for the alternative half format of arm, which has neither *)
(* infinities nor NaNs.  zSig has the fraction bits of the single format.  *)
roundAndPackFloat16(zSign, zExp, zSig, ieee, st) ==
  LET g == IF zExp >= 1 THEN Single.F - Half.F
           ELSE IF zExp >= -(Half.F + 1) THEN Single.F - Half.F - zExp ELSE Single.F + 1
      half == 2^(g - 1)
      inc == CASE st.rm = "nearest_even" ->
                    IF zSig % 2^g # half THEN half ELSE IF (zSig \div 2^g) % 2 = 1 THEN 2^g ELSE 0
               [] st.rm # "nearest_even" -> RoundIncrement(zSign, g, st)
      bumps == zSig + inc >= 2^(Single.F + 1)
      maxexp == ExpMax(Half) - IF ieee THEN 2 ELSE 1
      exp == zExp + Bit(bumps)
      sig == (zSig + inc) \div 2^Bit(bumps)
      low == Single.F - Half.F
      z == IF exp < -Half.F THEN packFloat(Half, zSign, 0, 0)
           ELSE IF exp < 0 THEN packFloat(Half, zSign, 0, sig \div 2^(low - exp))
           ELSE packFloat(Half, zSign, exp, sig \div 2^low)
  IN  IF zExp > maxexp \/ (zExp = maxexp /\ bumps)
      THEN IF ieee THEN Res(Infinity(Half, zSign), {"overflow", "inexact"})
           ELSE Res(packFloat(Half, zSign, ExpMax(Half), 2^Half.F - 1), {"invalid"})
      ELSE Res(z, When(zSig % 2^g # 0, {"inexact"} \cup When(zExp < 0, {"underflow"})))

to_float16(f, a, ieee, st) ==
  LET x == Squash(f, a, st)
      s == extractSign(f, x)
      frac == ShiftRightJamming(extractFrac(f, x), f.F - Single.F)
  IN  Raise(IF is_any_nan(f, x) /\ ieee THEN commonNaN(f, Half, x, st)
            ELSE IF is_any_nan(f, x) THEN Res(packFloat(Half, s, 0, 0), {"invalid"})
            ELSE IF is_infinity(f, x) /\ ieee THEN Res(Infinity(Half, s), {})
            ELSE IF is_infinity(f, x) THEN Res(packFloat(Half, s, ExpMax(Half), 2^Half.F - 1), {"invalid"})
            ELSE IF extractExp(f, x) = 0 /\ frac = 0 THEN Res(packFloat(Half, s, 0, 0), {})
            ELSE roundAndPackFloat16(s, extractExp(f, x) - Bias(f) + Bias(Half) - 1, frac + 2^Single.F, ieee, st),
            SquashFlags(f, {a}, st))
from_float16(g, a, ieee, st) ==
  LET p == Parts(Half, a)
  IN  IF ~ ieee /\ extractExp(Half, a) = ExpMax(Half)
      THEN Res(packFloat(g, extractSign(Half, a), p.exp - 1 + Bias(g) - Bias(Half), p.sig * 2^(g.F - Half.F)), {})
      ELSE widen(Half, g, a, st)
=============================================================================
