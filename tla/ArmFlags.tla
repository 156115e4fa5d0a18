------------------------------ MODULE ArmFlags ------------------------------
(* The condition flags of both guests: how the helpers compute them for     *)
(* each data processing instruction of the arm, thumb and arm64 encodings   *)
(* (carries and overflows are recovered from the operands and the truncated *)
(* result), the carry out of the shifter, and the conditions evaluated on   *)
(* them; and the bit field and bit counting helpers of the arm64 guest.     *)
(* s is the flags: s.n, s.z, s.c and s.v are bits.                          *)
EXTENDS ArmDsp, Bitwise

Truth(b)    == IF b THEN 1 ELSE 0
Top(w, x)   == x \div 2^(w - 1)
Inverted(w, x) == 2^w - 1 - x
BitAt(x, i) == (x \div 2^i) % 2

Result(w, calc, c, v) == [n |-> Top(w, calc), z |-> Truth(calc = 0), c |-> c, v |-> v]
AddOverflow(w, calc, op1, op2) == Top(w, (calc ^^ op1) & (calc ^^ op2))
SubOverflow(w, calc, op1, op2) == Top(w, (op1 ^^ op2) & (op1 ^^ calc))
Carry(calc, op1, c_in) == Truth(IF c_in = 1 THEN calc <= op1 ELSE calc < op1)
Add(w, op1, op2) == LET calc == (op1 + op2) % 2^w
                    IN  Result(w, calc, Truth(calc < op1), AddOverflow(w, calc, op1, op2))
Sub(w, op1, op2) == LET calc == (op1 - op2) % 2^w
                    IN  Result(w, calc, Truth(op1 >= op2), SubOverflow(w, calc, op1, op2))
Adc(w, op1, op2, c_in) == LET calc == (op1 + op2 + c_in) % 2^w
                          IN  Result(w, calc, Carry(calc, op1, c_in), AddOverflow(w, calc, op1, op2))
Sbc(w, op1, op2, c_in) == LET calc == (op1 + Inverted(w, op2) + c_in) % 2^w
                          IN  Result(w, calc, Carry(calc, op1, c_in), SubOverflow(w, calc, op1, op2))

arm_hlp_compute_next_flags(opcode, sco, rn, op, s) ==
  CASE opcode \in {0, 8}  -> Result(W, rn & op, sco, s.v)
    [] opcode \in {1, 9}  -> Result(W, rn ^^ op, sco, s.v)
    [] opcode \in {2, 10} -> Sub(W, rn, op)
    [] opcode = 3         -> Sub(W, op, rn)
    [] opcode \in {4, 11} -> Add(W, rn, op)
    [] opcode = 5         -> Adc(W, rn, op, s.c)
    [] opcode = 6         -> Sbc(W, rn, op, s.c)
    [] opcode = 7         -> Sbc(W, op, rn, s.c)
    [] opcode = 12        -> Result(W, rn | op, sco, s.v)
    [] opcode = 13        -> Result(W, op, sco, s.v)
    [] opcode = 14        -> Result(W, rn & Inverted(W, op), sco, s.v)
    [] opcode = 15        -> Result(W, Inverted(W, op), sco, s.v)
thumb_hlp_compute_next_flags(opcode, sco, rn, op, s) ==
  CASE opcode \in {12, 14} \cup 24 .. 27            -> Add(W, rn, op)
    [] opcode \in 0 .. 11 \cup 16 .. 19             -> Result(W, op, sco, s.v)
    [] opcode \in {13, 15} \cup 20 .. 23 \cup 28 .. 31 -> Sub(W, rn, op)
thumb_hlp_t2_modified_compute_next_flags(opcode, sco, rn, op, s) ==
  CASE opcode = 0  -> Result(W, rn & op, sco, s.v)
    [] opcode = 1  -> Result(W, rn & Inverted(W, op), sco, s.v)
    [] opcode = 2  -> Result(W, rn | op, sco, s.v)
    [] opcode = 3  -> Result(W, rn | Inverted(W, op), sco, s.v)
    [] opcode = 4  -> Result(W, rn ^^ op, sco, s.v)
    [] opcode = 8  -> Add(W, rn, op)
    [] opcode = 10 -> Adc(W, rn, op, s.c)
    [] opcode = 11 -> Sbc(W, rn, op, s.c)
    [] opcode = 13 -> Sub(W, rn, op)
    [] opcode = 14 -> Sub(W, op, rn)

(* The shifts of thumb data processing: the amount is the low byte of the   *)
(* operand (8 * W amounts, here as there).                                  *)
Amount(op) == op % (8 * W)
SignFilled(x, k) == (AsSigned(W, x) \div 2^k) % 2^W
ShiftFlags(opcode, op1, op2, s) ==
  CASE op2 = 0 -> Result(W, op1, s.c, s.v)
    [] op2 # 0 /\ opcode = 2 ->
         IF op2 <= W THEN Result(W, IF op2 < W THEN Stored(op1 * 2^op2) ELSE 0,
                                 Top(W, Stored(op1 * 2^(op2 - 1))), s.v)
                     ELSE Result(W, 0, 0, s.v)
    [] op2 # 0 /\ opcode = 3 ->
         IF op2 <= W THEN Result(W, IF op2 < W THEN op1 \div 2^op2 ELSE 0, BitAt(op1, op2 - 1), s.v)
                     ELSE Result(W, 0, 0, s.v)
    [] op2 # 0 /\ opcode = 4 ->
         IF op2 < W THEN Result(W, SignFilled(op1, op2), SignFilled(op1, op2 - 1) % 2, s.v)
                    ELSE Result(W, SignFilled(op1, W - 1), SignFilled(op1, W - 1) % 2, s.v)
    [] op2 # 0 /\ opcode = 7 ->
         LET k == op2 % W IN
         IF k = 0 THEN Result(W, op1, Top(W, op1), s.v)
         ELSE Result(W, (op1 \div 2^k) | Stored(op1 * 2^(W - k)), BitAt(op1, k - 1), s.v)
thumb_hlp_compute_next_flags_data_processing(opcode, rn, op, s) ==
  CASE opcode \in {0, 8} -> Result(W, rn & op, s.c, s.v)
    [] opcode = 1        -> Result(W, rn ^^ op, s.c, s.v)
    [] opcode \in {2, 3, 4, 7} -> ShiftFlags(opcode, rn, Amount(op), s)
    [] opcode = 5        -> Adc(W, rn, op, s.c)
    [] opcode = 6        -> Sbc(W, rn, op, s.c)
    [] opcode = 9        -> Sub(W, 0, op)
    [] opcode = 10       -> Sub(W, rn, op)
    [] opcode = 11       -> Add(W, rn, op)
    [] opcode = 12       -> Result(W, rn | op, s.c, s.v)
    [] opcode = 13       -> Result(W, Stored(rn * op), s.c, s.v)
    [] opcode = 14       -> Result(W, rn & Inverted(W, op), s.c, s.v)
    [] opcode = 15       -> Result(W, Inverted(W, op), s.c, s.v)

(* The carry out of the shifter.  by_register is bit 4 of the encoding.     *)
arm_hlp_compute_sco(shift_mode, by_register, rm, amount, s) ==
  LET given == Amount(amount)
      op == IF shift_mode \in {1, 2} /\ ~by_register /\ given = 0 THEN W ELSE given
  IN  CASE shift_mode = 3 /\ ~by_register /\ op = 0 -> rm % 2
        [] op = 0 /\ ~(shift_mode = 3 /\ ~by_register) -> s.c
        [] op # 0 /\ shift_mode = 0 -> IF op > W THEN 0 ELSE Top(W, Stored(rm * 2^(op - 1)))
        [] op # 0 /\ shift_mode = 1 -> IF op > W THEN 0 ELSE BitAt(rm, op - 1)
        [] op # 0 /\ shift_mode = 2 -> IF op >= W THEN Top(W, rm) ELSE SignFilled(rm, op - 1) % 2
        [] op # 0 /\ shift_mode = 3 -> IF op % W # 0 THEN BitAt(rm, (op % W) - 1) ELSE Top(W, rm)
thumb_t2_hlp_compute_sco(shift_mode, rm, amount, s) ==
  LET op == Amount(amount)
  IN  CASE shift_mode = 0 /\ op = 0 -> s.c
        [] shift_mode = 0 /\ op # 0 -> Top(W, Stored(rm * 2^(op - 1)))
        [] shift_mode \in {1, 2} -> BitAt(rm, IF op = 0 THEN W - 1 ELSE op - 1)
        [] shift_mode = 3 -> BitAt(rm, IF op = 0 THEN 0 ELSE op - 1)
arm_hlp_multiply_flag_update(res, s) == Result(W, res, s.c, s.v)

(* The arm64 guest: the same on 32 and on 64 bits.                          *)
NextNzcv(w, ops, op1, op2, s) ==
  CASE ops = "OPS_ADD"     -> Add(w, op1, op2)
    [] ops = "OPS_SUB"     -> Sub(w, op1, op2)
    [] ops = "OPS_LOGICAL" -> Result(w, op1, 0, 0)
    [] ops = "OPS_ADC"     -> Adc(w, op1, op2, s.c)
arm64_hlp_compute_next_nzcv_32(ops, op1, op2, s) == NextNzcv(W, ops, op1, op2, s)
arm64_hlp_compute_next_nzcv_64(ops, op1, op2, s) == NextNzcv(2 * W, ops, op1, op2, s)

(* Whether a condition holds; that of arm answers the opposite.             *)
Holds(cond, s) ==
  CASE cond \div 2 = 0 -> s.z = 1
    [] cond \div 2 = 1 -> s.c = 1
    [] cond \div 2 = 2 -> s.n = 1
    [] cond \div 2 = 3 -> s.v = 1
    [] cond \div 2 = 4 -> s.c = 1 /\ s.z = 0
    [] cond \div 2 = 5 -> s.n = s.v
    [] cond \div 2 = 6 -> s.z = 0 /\ s.n = s.v
    [] cond \div 2 = 7 -> TRUE
arm_hlp_compute_flags_pred(cond, s) ==              \* cond < 14
  LET pred == Truth(~Holds(cond, s)) IN IF cond % 2 = 1 THEN 1 - pred ELSE pred
arm64_hlp_compute_flags_pred(cond, s) ==
  LET pred == Truth(Holds(cond, s)) IN IF cond % 2 = 1 /\ cond # 15 THEN 1 - pred ELSE pred

(* Bit fields of a register of size bits (32 or 64 in the code).            *)
arm64_hlp_compute_bitfield(kind, size, R, S, rn, rd) ==
  LET diff == IF S >= R THEN S - R ELSE S - R + size
      mask == IF S >= R THEN IF diff < size - 1 THEN 2^(diff + 1) - 1 ELSE 2^size - 1
              ELSE (2^(S + 1) - 1) * 2^(size - R)
      dst == IF kind = "BFM" THEN rd ELSE 0
      result == (rn \div 2^R) | ((rn * 2^(size - R)) % 2^size)
      signbits == IF kind = "SBFM" /\ BitAt(rn, S) = 1
                  THEN (2^(size - diff - 1) - 1) * 2^(diff + 1) ELSE 0
  IN  signbits | ((result & mask) | (dst & Inverted(size, mask)))
Leading(size, x, bit) == Min({i \in 0 .. size : i = size \/ BitAt(x, size - 1 - i) # bit})
arm_hlp_clz(rm) == Leading(W, rm, 0)
arm64_hlp_clz(rn, start_index) == Leading(start_index + 1, rn, 0)
arm64_hlp_cls(rn, start_index) == Leading(start_index, rn, BitAt(rn, start_index))
=============================================================================
