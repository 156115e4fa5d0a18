------------------------------ MODULE CodeGen ------------------------------
(***************************************************************************)
(* What the code that the backends generate for an instruction of the IR   *)
(* computes (the gen_ functions of be_x86_64.c and be_i386.c), and what    *)
(* the instruction means.                                                  *)
(*                                                                         *)
(* The x86_64 backend keeps a register of any type in a 64 bit host        *)
(* register: a word of W64 bits, whose upper bits mean nothing when the    *)
(* type is narrower, and may be anything after a narrow load, a helper     *)
(* call or a signed cast.  The i386 backend keeps it in a 32 bit slot, and *)
(* one of 64 bits in two, <<low, high>>.  The widths 8, 16 and 32 are      *)
(* scaled down to W8, W16 and W32; amounts of shifts have W8 bits.         *)
(***************************************************************************)
EXTENDS Integers, Sequences, Bitwise

CONSTANTS W8, W16, W32

W64 == 2 * W32

Narrow == {W8, W16, W32}
Widths == Narrow \cup {W64}

Ones(w) == 2^w - 1
Low(w, a) == a % 2^w
Signed(w, a) == IF a >= 2^(w - 1) THEN a - 2^w ELSE a

\* Shifts and rotations of a w bit word.
Shl(w, a, n) == Low(w, a * 2^n)
Shr(a, n) == a \div 2^n
Sar(w, a, n) == Low(w, Signed(w, a) \div 2^n)
Ror(w, a, n) == LET k == n % w IN (a \div 2^k) + Low(k, a) * 2^(w - k)

\* A host instruction on the lower w bits of a wider register.
InPart(w, a, r) == a - Low(w, a) + r

-----------------------------------------------------------------------------
(* x86_64                                                                  *)

x64_gen_cmp(isEq, a, b) == IF (a = b) = isEq THEN Ones(W64) ELSE 0

\* Shifts are made in 64 bits whatever the width, rotations in the width; the
\* processor takes the amount from cl, modulo 64 or 32.  A 32 bit rotation
\* clears the upper half.
x64_gen_binop(type, w, a, b) ==
    LET cl == Low(W8, b)
        r == CASE type = "cmpeq" -> x64_gen_cmp(TRUE, a, b)
               [] type = "cmpne" -> x64_gen_cmp(FALSE, a, b)
               [] type = "shl" -> Shl(W64, a, cl % W64)
               [] type = "shr" -> Shr(a, cl % W64)
               [] type = "asr" -> Sar(W64, a, cl % W64)
               [] type = "ror" -> IF w \in {W32, W64} THEN Ror(w, Low(w, a), cl % w)
                                  ELSE InPart(w, a, Ror(w, Low(w, a), cl % W32))
               [] type = "add" -> Low(W64, a + b)
               [] type = "sub" -> Low(W64, a - b)
               [] type = "xor" -> a ^^ b
               [] type = "and" -> a & b
               [] type = "or" -> a | b
    IN  IF w = W64 THEN r ELSE Low(w, r)

\* For the mutation of x64_binop_asr: no expansion.
PlainAsr(w, a, b) == x64_gen_binop("asr", w, a, b)

\* The arithmetic shift that allocateInstructions expands: 56, 48 and 32 are
\* what 64 bits have above the operand.
x64_binop_asr(w, a, b) ==
    LET goto_p0 == W64 - w
        shiftLeftResult == x64_gen_binop("shl", W64, a, goto_p0)
        shiftRightResult == x64_gen_binop("asr", W64, shiftLeftResult, goto_p0)
    IN  x64_gen_binop("asr", w, IF goto_p0 # 0 THEN shiftRightResult ELSE a, b)

x64_gen_ite(pred, trueOp, falseOp) == IF pred # 0 THEN trueOp ELSE falseOp

x64_gen_upper_unsigned_cast_hlp(op, mask) == op & mask

x64_gen_upper_signed_cast_hlp(op, shift_value) == Sar(W64, Shl(W64, op, shift_value), shift_value)

x64_gen_cast(signed, from, to, op) ==
    IF to < from THEN x64_gen_upper_unsigned_cast_hlp(op, Ones(to))
    ELSE IF signed THEN x64_gen_upper_signed_cast_hlp(op, W64 - from)
    ELSE x64_gen_upper_unsigned_cast_hlp(op, Ones(from))

\* A load of 8 or 16 bits leaves the rest of the register as it was.
x64_gen_load(w, dst, memory) == IF w \in {W32, W64} THEN memory ELSE InPart(w, dst, memory)

x64_gen_store(w, src) == Low(w, src)

x64_gen_read(w, dst, memory) == IF w \in {W32, W64} THEN memory ELSE InPart(w, dst, memory)

x64_gen_write(w, src) == Low(w, src)

\* The exit is taken.
x64_gen_exit(pred) == pred # 0

-----------------------------------------------------------------------------
(* i386                                                                    *)

Split(a) == <<Low(W32, a), a \div 2^W32>>
Join(p) == p[1] + p[2] * 2^W32

i386_gen_cmp32(isEq, a, b) == IF ((a ^^ b) = 0) = isEq THEN Ones(W32) ELSE 0

i386_gen_cmp64(isEq, a, b) ==
    IF (((a[1] ^^ b[1]) | (a[2] ^^ b[2])) = 0) = isEq THEN <<Ones(W32), Ones(W32)>> ELSE <<0, 0>>

i386_gen_ror32(w, a, b) == InPart(w, a, Ror(w, Low(w, a), Low(W8, b) % W32))

\* Of 8, 16 and 32 bits.
i386_gen_binop(type, w, a, b) ==
    LET n == Low(W8, b) % W32
        r == CASE type = "cmpeq" -> i386_gen_cmp32(TRUE, a, b)
               [] type = "cmpne" -> i386_gen_cmp32(FALSE, a, b)
               [] type = "shl" -> Shl(W32, a, n)
               [] type = "shr" -> Shr(a, n)
               [] type = "asr" -> Sar(W32, a, n)
               [] type = "ror" -> i386_gen_ror32(w, a, b)
               [] type = "add" -> Low(W32, a + b)
               [] type = "sub" -> Low(W32, a - b)
               [] type = "xor" -> a ^^ b
               [] type = "and" -> a & b
               [] type = "or" -> a | b
    IN  IF w = W32 THEN r ELSE Low(w, r)

\* 24 and 16 are what 32 bits have above the operand.
i386_binop_asr(w, a, b) ==
    LET goto_p0 == W32 - w
        shiftLeftResult == i386_gen_binop("shl", W32, a, goto_p0)
        shiftRightResult == i386_gen_binop("asr", W32, shiftLeftResult, goto_p0)
    IN  i386_gen_binop("asr", w, IF goto_p0 # 0 THEN shiftRightResult ELSE a, b)

\* The helpers get the whole slot of the amount; from W64 on the shift is
\* undefined in C.
shl64_helper(op, shift_value) == Shl(W64, op, shift_value)
shr64_helper(op, shift_value) == Shr(op, shift_value)
asr64_helper(op, shift_value) == Sar(W64, op, shift_value)
ror64_helper(op, shift_value) ==
    IF shift_value = 0 THEN op ELSE Shr(op, shift_value) | Shl(W64, op, W64 - shift_value)

i386_gen_shift64(type, a, b) ==
    LET op == Join(a)
    IN  Split(CASE type = "shl" -> shl64_helper(op, b)
                [] type = "shr" -> shr64_helper(op, b)
                [] type = "asr" -> asr64_helper(op, b)
                [] type = "ror" -> ror64_helper(op, b))

\* The upper halves are added with the carry and subtracted with the borrow of
\* the lower ones.  The amount of a shift, b, is a slot.
i386_gen_binop64(type, a, b) ==
    CASE type = "add" -> <<Low(W32, a[1] + b[1]), Low(W32, a[2] + b[2] + (a[1] + b[1]) \div 2^W32)>>
      [] type = "sub" -> <<Low(W32, a[1] - b[1]), Low(W32, a[2] - b[2] - (IF a[1] < b[1] THEN 1 ELSE 0))>>
      [] type = "xor" -> <<a[1] ^^ b[1], a[2] ^^ b[2]>>
      [] type = "and" -> <<a[1] & b[1], a[2] & b[2]>>
      [] type = "or" -> <<a[1] | b[1], a[2] | b[2]>>
      [] type \in {"shl", "shr", "asr", "ror"} -> i386_gen_shift64(type, a, b)
      [] type = "cmpeq" -> i386_gen_cmp64(TRUE, a, b)
      [] type = "cmpne" -> i386_gen_cmp64(FALSE, a, b)

\* The predicate of a 64 bit ite is two slots, of which the lower one is
\* looked at, twice.
i386_gen_ite(pred, trueOp, falseOp) == IF pred[1] # 0 THEN trueOp ELSE falseOp

i386_gen_upper_unsigned_cast_hlp(to, op, mask) ==
    IF to = W64 THEN <<op & mask, 0>> ELSE <<op & mask>>

i386_gen_upper_signed_cast_hlp(to, op, shift_value) ==
    LET eax == Sar(W32, Shl(W32, op, shift_value), shift_value)
    IN  IF to = W64 THEN <<eax, Sar(W32, eax, W32 - 1 - shift_value)>> ELSE <<eax>>

\* op is the lower slot: no cast reads the upper one.
i386_gen_cast(signed, from, to, op) ==
    IF to < from THEN IF to = W32 THEN <<op>> ELSE i386_gen_upper_unsigned_cast_hlp(to, op, Ones(to))
    ELSE IF signed THEN i386_gen_upper_signed_cast_hlp(to, op, W32 - from)
    ELSE i386_gen_upper_unsigned_cast_hlp(to, op, Ones(from))

\* ecx holds what the code before has left there.
i386_gen_load(w, ecx, memory) ==
    IF w = W64 THEN Split(memory) ELSE <<InPart(w, ecx, memory)>>

i386_gen_store(w, src) == IF w = W64 THEN Join(src) ELSE Low(w, src[1])

i386_gen_read(w, eax, memory) ==
    IF w = W64 THEN Split(memory) ELSE <<InPart(w, eax, memory)>>

i386_gen_write(w, src) == IF w = W64 THEN Join(src) ELSE Low(w, src[1])

i386_gen_exit(pred) == IF Len(pred) = 2 THEN (pred[1] | pred[2]) # 0 ELSE pred[1] # 0

-----------------------------------------------------------------------------
(* What the instructions of the IR mean, and that both backends compute    *)
(* it.  The host words a and b carry anything above the width of their     *)
(* type, except where the code needs the bits above to be clear: logical   *)
(* shifts to the right, comparisons and predicates.                        *)

Shifts == {"shl", "shr", "asr", "ror"}
Binops == Shifts \cup {"add", "sub", "xor", "and", "or", "cmpeq", "cmpne"}
NeedsClean == {"shr", "cmpeq", "cmpne"}

Exact(type, w, a, b) ==
    CASE type = "add" -> Low(w, a + b)
      [] type = "sub" -> Low(w, a - b)
      [] type = "xor" -> a ^^ b
      [] type = "and" -> a & b
      [] type = "or" -> a | b
      [] type = "shl" -> Shl(w, a, b)
      [] type = "shr" -> Shr(a, b)
      [] type = "asr" -> Sar(w, a, b)
      [] type = "ror" -> Ror(w, a, b)
      [] type = "cmpeq" -> IF a = b THEN Ones(w) ELSE 0
      [] type = "cmpne" -> IF a # b THEN Ones(w) ELSE 0

BinopComputes(type, w, a, b) ==
    LET n == Low(IF type \in Shifts THEN W8 ELSE w, b)
        op1 == IF type \in NeedsClean THEN Low(w, a) ELSE a
        op2 == IF type \in NeedsClean THEN n ELSE b
        e == Exact(type, w, Low(w, a), n)
        x64 == IF type = "asr" THEN x64_binop_asr(w, op1, op2) ELSE x64_gen_binop(type, w, op1, op2)
        i386 == IF w = W64
                THEN Join(i386_gen_binop64(type, Split(a), IF type \in Shifts THEN n ELSE Split(b)))
                ELSE IF type = "asr" THEN i386_binop_asr(w, Low(W32, op1), Low(W32, op2))
                ELSE i386_gen_binop(type, w, Low(W32, op1), Low(W32, op2))
    IN  (type \in Shifts => n < w) => x64 = e /\ i386 = e

\* The bits above a signed cast to less than a host register are its sign.
CastComputes(signed, from, to, a) ==
    LET e == IF to < from THEN Low(to, a)
             ELSE Low(to, IF signed THEN Signed(from, Low(from, a)) ELSE Low(from, a))
        x64 == x64_gen_cast(signed, from, to, a)
        r == i386_gen_cast(signed, from, to, Low(W32, a))
        i386 == IF to = W64 THEN Join(r) ELSE r[1]
        clean == to < from \/ ~signed
    IN  /\ IF clean THEN x64 = e ELSE Low(to, x64) = e
        /\ IF clean THEN i386 = e ELSE Low(to, i386) = e

\* The disassemblers make predicates of comparisons, so that a 64 bit one is
\* zero when its lower half is.
IteComputes(w, p, a, b) ==
    LET pred == Low(w, p)
        e == Low(w, IF pred = 0 THEN b ELSE a)
        r == i386_gen_ite(Split(pred), Split(a), Split(b))
    IN  /\ Low(w, x64_gen_ite(pred, a, b)) = e
        /\ (pred = 0) = (Low(W32, pred) = 0) => Low(w, Join(r)) = e
        /\ x64_gen_exit(pred) = (pred # 0)
        /\ i386_gen_exit(IF w = W64 THEN Split(pred) ELSE <<pred>>) = (pred # 0)

\* What is stored is what was loaded, whatever the register held before.
MemoryComputes(w, junk, a) ==
    LET m == Low(w, a)
        j == Low(W32, junk)
    IN  /\ x64_gen_store(w, x64_gen_read(w, junk, m)) = m
        /\ x64_gen_write(w, x64_gen_load(w, junk, m)) = m
        /\ i386_gen_store(w, i386_gen_read(w, j, m)) = m
        /\ i386_gen_write(w, i386_gen_load(w, j, m)) = m
=============================================================================
