------------------------------ MODULE SimdLaws ------------------------------
(* Laws that tie the vector instructions of the arm64 guest to each other.  *)
(* The architecture defines most of them by one another (an accumulating    *)
(* instruction is the addition of the plain one, a high-half one the        *)
(* narrowing of the long one...), while each helper computes its own loop   *)
(* over its own lanes: a wrong lane, cast, shift or half breaks an          *)
(* equation.  Instructions are written by name; Encoding gives the fields   *)
(* the architecture assigns to the name, so that the switches that dispatch *)
(* on them are under check too.                                             *)
EXTENDS Arm64Simd, TLC

CONSTANTS Values                            \* bytes the inputs are made of

ASSUME ValuesAssumption == Values \subseteq 0 .. Ones(B)

VARIABLES x, y, z                           \* an input of the instructions

Enc(class, U, opcode) == [class |-> class, U |-> U, opcode |-> opcode]
Same(U, opcode)  == Enc("same", U, opcode)
Diff(U, opcode)  == Enc("different", U, opcode)
Misc(U, opcode)  == Enc("misc", U, opcode)
Imm(U, opcode)   == Enc("immediate", U, opcode)
Elem(U, opcode)  == Enc("element", U, opcode)
Across(U, opcode) == Enc("across", U, opcode)
Perm(opcode)     == Enc("permute", 0, opcode)

Encoding ==
  [shadd |-> Same(0, 0), uhadd |-> Same(1, 0), sqadd |-> Same(0, 1), uqadd |-> Same(1, 1),
   srhadd |-> Same(0, 2), urhadd |-> Same(1, 2), logical |-> Same(0, 3), select |-> Same(1, 3),
   shsub |-> Same(0, 4), uhsub |-> Same(1, 4), sqsub |-> Same(0, 5), uqsub |-> Same(1, 5),
   cmgt |-> Same(0, 6), cmhi |-> Same(1, 6), cmge |-> Same(0, 7), cmhs |-> Same(1, 7),
   sshl |-> Same(0, 8), ushl |-> Same(1, 8), sqshl |-> Same(0, 9), uqshl |-> Same(1, 9),
   srshl |-> Same(0, 10), urshl |-> Same(1, 10), sqrshl |-> Same(0, 11), uqrshl |-> Same(1, 11),
   smax |-> Same(0, 12), umax |-> Same(1, 12), smin |-> Same(0, 13), umin |-> Same(1, 13),
   sabd |-> Same(0, 14), uabd |-> Same(1, 14), saba |-> Same(0, 15), uaba |-> Same(1, 15),
   add |-> Same(0, 16), sub |-> Same(1, 16), cmtst |-> Same(0, 17), cmeq |-> Same(1, 17),
   mla |-> Same(0, 18), mls |-> Same(1, 18), mul |-> Same(0, 19), pmul |-> Same(1, 19),
   smaxp |-> Same(0, 20), umaxp |-> Same(1, 20), sminp |-> Same(0, 21), uminp |-> Same(1, 21),
   sqdmulh |-> Same(0, 22), sqrdmulh |-> Same(1, 22), addp |-> Same(0, 23),
   saddl |-> Diff(0, 0), uaddl |-> Diff(1, 0), saddw |-> Diff(0, 1), uaddw |-> Diff(1, 1),
   ssubl |-> Diff(0, 2), usubl |-> Diff(1, 2), ssubw |-> Diff(0, 3), usubw |-> Diff(1, 3),
   addhn |-> Diff(0, 4), raddhn |-> Diff(1, 4), sabal |-> Diff(0, 5), uabal |-> Diff(1, 5),
   subhn |-> Diff(0, 6), rsubhn |-> Diff(1, 6), sabdl |-> Diff(0, 7), uabdl |-> Diff(1, 7),
   smlal |-> Diff(0, 8), umlal |-> Diff(1, 8), sqdmlal |-> Diff(0, 9), smlsl |-> Diff(0, 10),
   umlsl |-> Diff(1, 10), sqdmlsl |-> Diff(0, 11), smull |-> Diff(0, 12), umull |-> Diff(1, 12),
   sqdmull |-> Diff(0, 13), pmull |-> Diff(0, 14),
   rev64 |-> Misc(0, 0), rev32 |-> Misc(1, 0), rev16 |-> Misc(0, 1), saddlp |-> Misc(0, 2),
   uaddlp |-> Misc(1, 2), suqadd |-> Misc(0, 3), usqadd |-> Misc(1, 3), cls |-> Misc(0, 4),
   clz |-> Misc(1, 4), cnt |-> Misc(0, 5), notrbit |-> Misc(1, 5), sadalp |-> Misc(0, 6),
   uadalp |-> Misc(1, 6), sqabs |-> Misc(0, 7), sqneg |-> Misc(1, 7), cmgt0 |-> Misc(0, 8),
   cmge0 |-> Misc(1, 8), cmeq0 |-> Misc(0, 9), cmle0 |-> Misc(1, 9), cmlt0 |-> Misc(0, 10),
   abs |-> Misc(0, 11), neg |-> Misc(1, 11), xtn |-> Misc(0, 18), sqxtun |-> Misc(1, 18),
   shll |-> Misc(1, 19), sqxtn |-> Misc(0, 20), uqxtn |-> Misc(1, 20),
   sshr |-> Imm(0, 0), ushr |-> Imm(1, 0), ssra |-> Imm(0, 2), usra |-> Imm(1, 2),
   srshr |-> Imm(0, 4), urshr |-> Imm(1, 4), srsra |-> Imm(0, 6), ursra |-> Imm(1, 6),
   sri |-> Imm(1, 8), shl |-> Imm(0, 10), sli |-> Imm(1, 10), sqshlu |-> Imm(1, 12),
   sqshli |-> Imm(0, 14), uqshli |-> Imm(1, 14), shrn |-> Imm(0, 16), rshrn |-> Imm(0, 17),
   sqshrun |-> Imm(1, 16), sqrshrun |-> Imm(1, 17), sqshrn |-> Imm(0, 18),
   sqrshrn |-> Imm(0, 19), uqshrn |-> Imm(1, 18), uqrshrn |-> Imm(1, 19),
   sshll |-> Imm(0, 20), ushll |-> Imm(1, 20),
   mla_e |-> Elem(1, 0), smlal_e |-> Elem(0, 2), umlal_e |-> Elem(1, 2), sqdmlal_e |-> Elem(0, 3),
   mls_e |-> Elem(1, 4), smlsl_e |-> Elem(0, 6), umlsl_e |-> Elem(1, 6), sqdmlsl_e |-> Elem(0, 7),
   mul_e |-> Elem(0, 8), smull_e |-> Elem(0, 10), umull_e |-> Elem(1, 10),
   sqdmull_e |-> Elem(0, 11), sqdmulh_e |-> Elem(0, 12), sqrdmulh_e |-> Elem(0, 13),
   saddlv |-> Across(0, 3), uaddlv |-> Across(1, 3), smaxv |-> Across(0, 10),
   umaxv |-> Across(1, 10), sminv |-> Across(0, 26), uminv |-> Across(1, 26),
   addv |-> Across(0, 27),
   uzp1 |-> Perm(1), trn1 |-> Perm(2), zip1 |-> Perm(3), uzp2 |-> Perm(5), trn2 |-> Perm(6),
   zip2 |-> Perm(7)]

(* The instruction called name, in form k, on the given registers.          *)
Run(name, k, vd, vn, vm) ==
  LET e == Encoding[name]
      f == [size |-> k.size, q |-> k.q, scalar |-> k.scalar, imm |-> k.imm,
            U |-> e.U, opcode |-> e.opcode]
  IN  CASE e.class = "same" /\ ~k.scalar -> arm64_hlp_dirty_advanced_simd_three_same_simd(f, vd, vn, vm)
        [] e.class = "same" /\ k.scalar -> arm64_hlp_dirty_advanced_simd_scalar_three_same_simd(f, vd, vn, vm)
        [] e.class = "different" /\ ~k.scalar -> arm64_hlp_dirty_advanced_simd_simd_three_different_simd(f, vd, vn, vm)
        [] e.class = "different" /\ k.scalar -> arm64_hlp_dirty_advanced_simd_scalar_three_different_simd(f, vd, vn, vm)
        [] e.class = "misc" /\ ~k.scalar -> arm64_hlp_dirty_advanced_simd_two_reg_misc_simd(f, vd, vn)
        [] e.class = "misc" /\ k.scalar -> arm64_hlp_dirty_advanced_simd_scalar_two_reg_misc_simd(f, vd, vn)
        [] e.class = "immediate" /\ ~k.scalar -> arm64_hlp_dirty_advanced_simd_shift_by_immediate_simd(f, vd, vn)
        [] e.class = "immediate" /\ k.scalar -> arm64_hlp_dirty_advanced_simd_scalar_shift_by_immediate_simd(f, vd, vn)
        [] e.class = "element" /\ ~k.scalar -> arm64_hlp_dirty_advanced_simd_vector_x_indexed_element_simd(f, vd, vn, vm)
        [] e.class = "element" /\ k.scalar -> arm64_hlp_dirty_advanced_simd_scalar_x_indexed_element_simd(f, vd, vn, vm)
        [] e.class = "across" -> arm64_hlp_dirty_advanced_simd_accross_lanes_simd(f, vn)
        [] e.class = "permute" -> arm64_hlp_dirty_advanced_simd_permute_simd(f, vn, vm)

(* The registers of an input: neighbouring bytes carry different values, so *)
(* that lanes of every size and both halves of a register differ.           *)
Mix(s) == [b \in Bytes |-> (s[(b % 3) + 1] + (b \div 3) * 5) % 2^B]
vn == Mix(<<x, y, z>>)
vm == Mix(<<y, z, x>>)
vd == Mix(<<z, x, y>>)

(* A step goes from an input to the next one.  A law is an action property: *)
(* it holds of the input that each step starts from.                        *)
vars == <<x, y, z>>
Init == x = Min(Values) /\ y \in Values /\ z \in Values
Next == /\ x' = IF x = Max(Values) THEN Min(Values) ELSE Min({v \in Values : v > x})
        /\ UNCHANGED <<y, z>>
Spec == Init /\ [][Next]_vars

-----------------------------------------------------------------------------
V(name, k, d, n, m) == Run(name, k, d, n, m).v
Op2(name, k, n) == V(name, k, vd, n, n)                 \* of one operand
Op3(name, k, n, m) == V(name, k, vd, n, m)              \* of two
ByImm(name, k, i, n) == V(name, [k EXCEPT !.imm = i], vd, n, n)
Up(k) == [k EXCEPT !.size = @ + 1, !.q = 1]             \* the lanes of a long result
Dup(k, c) == dis_dup_general([k EXCEPT !.imm = 0], c)

Vectors == [size : {0, 1}, q : {0, 1}, scalar : {FALSE}, imm : {0}]
Scalars == [size : {0, 1}, q : {1}, scalar : {TRUE}, imm : {0}]
LeftShifts(k)  == 0 .. Width(k.size) - 1
RightShifts(k) == 1 .. Width(k.size)

(* A two register instruction narrowed from the long forms of its halves.   *)
ByHalves(narrow, i, long, k, n, m) ==
  LET low  == [k EXCEPT !.q = 0]
      high == [k EXCEPT !.q = 1]
      first == V(narrow, [low EXCEPT !.imm = i], vd, Op3(long, low, n, m), n)
  IN  IF k.q = 0 THEN first
      ELSE V(narrow, [high EXCEPT !.imm = i], first, Op3(long, high, n, m), n)

(* s saturates what p computes: lanes p keeps exact are equal, the others   *)
(* are at an end of the range, and then QC is set.                          *)
Extremes(k) == LET w == Width(k.size) IN {0, Ones(w), 2^(w - 1), 2^(w - 1) - 1}
Saturates(s, p, k, n, m) ==
  LET rs == Run(s, k, vd, n, m)
      rp == Run(p, k, vd, n, m)
  IN  /\ ~rs.qc => rs.v = rp.v
      /\ rs.qc => \E i \in Active(k) : Lane(k.size, rs.v, i) \in Extremes(k)
      /\ \A i \in 0 .. NbLanes(k.size) - 1 :
            \/ Lane(k.size, rs.v, i) = Lane(k.size, rp.v, i)
            \/ rs.qc /\ Lane(k.size, rs.v, i) \in Extremes(k)

(* The lanes of the shift operand that no shift by register reaches with    *)
(* its architectural result: see sshl.                                      *)
NoLowest(k, m) == \A i \in 0 .. NbLanes(k.size) - 1 : m[i * 2^k.size] # 2^(B - 1)

(* QC is set exactly when a lane leaves its range, and a saturating         *)
(* instruction otherwise computes what the plain one does: set_qc and the   *)
(* usat and ssat calls of every saturating helper.                          *)
SaturationLaws ==
  /\ \A k \in Vectors :
       /\ Saturates("sqadd", "add", k, vn, vm) /\ Saturates("uqadd", "add", k, vn, vm)
       /\ Saturates("sqsub", "sub", k, vn, vm) /\ Saturates("uqsub", "sub", k, vn, vm)
       /\ Saturates("sqneg", "neg", k, vn, vn) /\ Saturates("sqabs", "abs", k, vn, vn)
       /\ NoLowest(k, vm) => /\ Saturates("sqshl", "sshl", k, vn, vm)
                             /\ Saturates("uqshl", "ushl", k, vn, vm)
                             /\ Saturates("sqrshl", "srshl", k, vn, vm)
                             /\ Saturates("uqrshl", "urshl", k, vn, vm)
       /\ \A i \in {0, 1, Width(k.size) - 1} : LET ki == [k EXCEPT !.imm = i] IN
            /\ Saturates("sqshli", "shl", ki, vn, vn) /\ Saturates("uqshli", "shl", ki, vn, vn)
            /\ Saturates("sqshlu", "shl", ki, vn, vn)
       /\ Saturates("sqxtn", "xtn", k, vn, vn) /\ Saturates("uqxtn", "xtn", k, vn, vn)
       /\ Saturates("sqxtun", "xtn", k, vn, vn)
       /\ \A i \in RightShifts(k) : LET ki == [k EXCEPT !.imm = i] IN
            /\ Saturates("sqshrn", "shrn", ki, vn, vn) /\ Saturates("uqshrn", "shrn", ki, vn, vn)
            /\ Saturates("sqshrun", "shrn", ki, vn, vn) /\ Saturates("sqrshrn", "rshrn", ki, vn, vn)
            /\ Saturates("uqrshrn", "rshrn", ki, vn, vn) /\ Saturates("sqrshrun", "rshrn", ki, vn, vn)
       \* suqadd adds an unsigned lane to a signed one, usqadd the converse
       /\ LET a == Run("suqadd", k, vd, vn, vn)
              b == Run("usqadd", k, vd, vn, vn)
              w == Width(k.size)
          IN  \A i \in Active(k) :
                LET n == Lane(k.size, vn, i)
                    d == Lane(k.size, vd, i)
                IN  /\ a.qc \/ Signed(w, Lane(k.size, a.v, i)) = n + Signed(w, d)
                    /\ b.qc \/ Lane(k.size, b.v, i) = Signed(w, n) + d
  \* the scalar form is the first lane of the vector one
  /\ \A k \in Scalars :
       \A name \in {"sqadd", "uqadd", "sqsub", "uqsub", "sqneg", "sqabs", "suqadd", "usqadd",
                     "sqshl", "uqrshl", "sqdmulh", "sqrdmulh", "sqxtn", "uqxtn", "sqxtun"} :
         LET r == Run(name, k, vd, vn, vm)
             narrow == name \in {"sqxtn", "uqxtn", "sqxtun"}
             whole == Run(name, [k EXCEPT !.scalar = FALSE, !.q = Flag(~narrow)], vd, vn, vm)
         IN  /\ Lane(k.size, r.v, 0) = Lane(k.size, whole.v, 0)
             /\ \A i \in 1 .. NbLanes(k.size) - 1 : Lane(k.size, r.v, i) = 0
             /\ r.qc => whole.qc

(* Doubling products: sqdmulh is the high half of sqdmull, sqdmlal the      *)
(* saturating sum of the accumulator and sqdmull, with QC of either step.   *)
DoublingLaws ==
  \A k \in [size : {0}, q : {0, 1}, scalar : {FALSE}, imm : {0}] :
    LET r == Run("sqdmulh", k, vd, vn, vm)
        h == ByHalves("sqshrn", Width(k.size), "sqdmull", k, vn, vm)
        p == Run("sqdmull", k, vd, vn, vm)
    IN  /\ r.v = h
        /\ Op3("sqrdmulh", k, vn, vm) = ByHalves("sqrshrn", Width(k.size), "sqdmull", k, vn, vm)
        /\ k.q = 0 => r.qc = p.qc
        /\ \A a \in {<<"sqdmlal", "sqadd">>, <<"sqdmlsl", "sqsub">>} :
             LET acc == Run(a[1], k, vd, vn, vm)
                 sum == Run(a[2], Up(k), vd, vd, p.v)
             IN  acc.v = sum.v /\ acc.qc = (p.qc \/ sum.qc)

(* The shifts: rounding adds the last bit shifted out, accumulating adds    *)
(* the plain shift, inserting keeps exactly the bits the shift vacates, and *)
(* a shift by a register is the shift by the immediate of its lane, to the  *)
(* right when that is negative.                                             *)
ShiftLaws ==
  \A k \in Vectors :
    /\ \A s \in {<<"sshr", "srshr", "ssra", "srsra">>, <<"ushr", "urshr", "usra", "ursra">>} :
         /\ ByImm(s[2], k, 1, vn) = Op3("sub", k, vn, ByImm(s[1], k, 1, vn))
         /\ \A i \in RightShifts(k) \ {1} :
              ByImm(s[2], k, i, vn) = Op3("sub", k, ByImm(s[1], k, i - 1, vn), ByImm(s[1], k, i, vn))
         /\ \A i \in RightShifts(k) :
              /\ ByImm(s[3], k, i, vn) = Op3("add", k, vd, ByImm(s[1], k, i, vn))
              /\ ByImm(s[4], k, i, vn) = Op3("add", k, vd, ByImm(s[2], k, i, vn))
    /\ \A i \in RightShifts(k) :
         ByImm("sri", k, i, vn) =
           Op3("logical", [k EXCEPT !.size = 2], ByImm("ushr", k, i, vn),
               Op3("logical", [k EXCEPT !.size = 1], vd, Dup(k, Ones(Width(k.size) - i))))
    /\ \A i \in LeftShifts(k) :
         ByImm("sli", k, i, vn) =
           Op3("logical", [k EXCEPT !.size = 2], ByImm("shl", k, i, vn),
               Op3("logical", [k EXCEPT !.size = 0], vd, Dup(k, Ones(i))))
    /\ \A i \in 1 .. 2^(B - 1) - 1 : LET left == Dup(k, i)  right == Dup(k, 2^B - i) IN
         /\ i \in LeftShifts(k) => /\ Op3("sshl", k, vn, left) = ByImm("shl", k, i, vn)
                                   /\ Op3("ushl", k, vn, left) = ByImm("shl", k, i, vn)
                                   /\ Run("sqshl", k, vd, vn, left) = Run("sqshli", [k EXCEPT !.imm = i], vd, vn, vn)
                                   /\ Run("uqshl", k, vd, vn, left) = Run("uqshli", [k EXCEPT !.imm = i], vd, vn, vn)
         /\ i \in RightShifts(k) => /\ Op3("sshl", k, vn, right) = ByImm("sshr", k, i, vn)
                                    /\ Op3("ushl", k, vn, right) = ByImm("ushr", k, i, vn)
                                    /\ Op3("srshl", k, vn, right) = ByImm("srshr", k, i, vn)
                                    /\ Op3("urshl", k, vn, right) = ByImm("urshr", k, i, vn)
    /\ Op3("shll", k, vn, vn) = ByImm("shl", Up(k), Width(k.size), ByImm("ushll", k, 0, vn))
    /\ \A i \in LeftShifts(k) : \A s \in {"sshll", "ushll"} :
         ByImm(s, k, i, vn) = ByImm("shl", Up(k), i, ByImm(s, k, 0, vn))

(* Arithmetic instructions are compositions of one another: accumulating    *)
(* ones add the plain result to the destination, long ones work on widened  *)
(* operands, halving and high-half ones narrow the long result, those by    *)
(* element use a copied lane, reductions iterate the pairwise instruction.  *)
ArithmeticLaws ==
  \A k \in Vectors :
    LET w == Width(k.size)
        Widen(s, n) == ByImm(s, k, 0, n)
    IN
    /\ Op3("mla", k, vn, vm) = Op3("add", k, vd, Op3("mul", k, vn, vm))
    /\ Op3("mls", k, vn, vm) = Op3("sub", k, vd, Op3("mul", k, vn, vm))
    /\ Op2("neg", k, vn) = Op3("sub", k, Zero, vn)
    /\ Op2("abs", k, vn) = Op3("umin", k, vn, Op2("neg", k, vn))
    /\ \A s \in {<<"sabd", "saba", "smax", "smin">>, <<"uabd", "uaba", "umax", "umin">>} :
         /\ Op3(s[1], k, vn, vm) = Op3("sub", k, Op3(s[3], k, vn, vm), Op3(s[4], k, vn, vm))
         /\ Op3(s[2], k, vn, vm) = Op3("add", k, vd, Op3(s[1], k, vn, vm))
    \* long, wide and narrow
    /\ \A s \in {<<"sshll", "saddl", "ssubl", "saddw", "ssubw", "smull", "smlal", "smlsl", "sabdl", "sabal", "sabd">>,
                 <<"ushll", "uaddl", "usubl", "uaddw", "usubw", "umull", "umlal", "umlsl", "uabdl", "uabal", "uabd">>} :
         LET n == Widen(s[1], vn)
             m == Widen(s[1], vm)
         IN  /\ Op3(s[2], k, vn, vm) = Op3("add", Up(k), n, m)
             /\ Op3(s[3], k, vn, vm) = Op3("sub", Up(k), n, m)
             /\ Op3(s[4], k, vd, vm) = Op3("add", Up(k), vd, m)
             /\ Op3(s[5], k, vd, vm) = Op3("sub", Up(k), vd, m)
             /\ k.size = 0 => Op3(s[6], k, vn, vm) = Op3("mul", Up(k), n, m)
             /\ Op3(s[7], k, vn, vm) = Op3("add", Up(k), vd, Op3(s[6], k, vn, vm))
             /\ Op3(s[8], k, vn, vm) = Op3("sub", Up(k), vd, Op3(s[6], k, vn, vm))
             /\ Op3(s[9], k, vn, vm) = Op3("sabd", Up(k), n, m)
             /\ Op3(s[10], k, vn, vm) = Op3("add", Up(k), vd, Op3(s[9], k, vn, vm))
             /\ Op3(s[11], k, vn, vm) = ByHalves("xtn", 0, s[9], k, vn, vm)
    /\ Op3("mul", k, vn, vm) = ByHalves("xtn", 0, "umull", k, vn, vm)
    /\ \A s \in {<<"shadd", "shrn", "saddl">>, <<"uhadd", "shrn", "uaddl">>, <<"srhadd", "rshrn", "saddl">>,
                 <<"urhadd", "rshrn", "uaddl">>, <<"shsub", "shrn", "ssubl">>, <<"uhsub", "shrn", "usubl">>} :
         Op3(s[1], k, vn, vm) = ByHalves(s[2], 1, s[3], k, vn, vm)
    /\ \A s \in {<<"addhn", "shrn", "add">>, <<"raddhn", "rshrn", "add">>,
                 <<"subhn", "shrn", "sub">>, <<"rsubhn", "rshrn", "sub">>} :
         Op3(s[1], k, vn, vm) = ByImm(s[2], k, w, Op3(s[3], Up(k), vn, vm))
    \* by element
    /\ \A s \in {<<"mla_e", "mla">>, <<"mls_e", "mls">>, <<"mul_e", "mul">>, <<"smull_e", "smull">>,
                 <<"umull_e", "umull">>, <<"smlal_e", "smlal">>, <<"umlal_e", "umlal">>,
                 <<"smlsl_e", "smlsl">>, <<"umlsl_e", "umlsl">>, <<"sqdmull_e", "sqdmull">>,
                 <<"sqdmlal_e", "sqdmlal">>, <<"sqdmlsl_e", "sqdmlsl">>,
                 <<"sqdmulh_e", "sqdmulh">>, <<"sqrdmulh_e", "sqrdmulh">>} :
         \A i \in {1, NbLanes(k.size) - 1} :
           k.size = 0 => Run(s[1], [k EXCEPT !.imm = i], vd, vn, vm)
                           = Run(s[2], k, vd, vn, dis_dup_element([k EXCEPT !.imm = i, !.q = 1], vm))
    \* pairs and reductions
    /\ \A s \in {<<"saddlp", "sadalp">>, <<"uaddlp", "uadalp">>} :
         Op2(s[2], k, vn) = Op3("add", [Up(k) EXCEPT !.q = k.q], vd, Op2(s[1], k, vn))
    /\ Op3("addp", k, vn, vm) = Op3("add", k, Op3("uzp1", k, vn, vm), Op3("uzp2", k, vn, vm))
    /\ \A s \in {<<"smaxp", "smax">>, <<"umaxp", "umax">>, <<"sminp", "smin">>, <<"uminp", "umin">>} :
         Op3(s[1], k, vn, vm) = Op3(s[2], k, Op3("uzp1", k, vn, vm), Op3("uzp2", k, vn, vm))
    /\ \A s \in {<<"addv", "addp">>, <<"smaxv", "smaxp">>, <<"umaxv", "umaxp">>,
                 <<"sminv", "sminp">>, <<"uminv", "uminp">>} :
         LET Folded[i \in Nat] == IF i = 0 THEN vn ELSE Op3(s[2], k, Folded[i - 1], Folded[i - 1])
         IN  Lane(k.size, Op2(s[1], k, vn), 0) = Lane(k.size, Folded[LogD + k.q - k.size], 0)
    /\ \A s \in {<<"saddlv", "saddlp">>, <<"uaddlv", "uaddlp">>} :
         Op2(s[1], k, vn) = Op2("addv", [Up(k) EXCEPT !.q = k.q], Op2(s[2], k, vn))
    /\ LET k1 == [k EXCEPT !.scalar = TRUE, !.q = 1] IN
       arm64_hlp_dirty_advanced_simd_scalar_pair_wise_simd(k1 @@ [U |-> 0, opcode |-> 27], vn).v
         = Each(k1, LAMBDA i : Lane(k.size, Op3("addp", k, vn, vm), 0))

(* Logic and comparisons: selections and complements agree with and, orr    *)
(* and not; a comparison is the complement of its converse; those with zero *)
(* are those with a register of zeros; bits are counted alike from both     *)
(* ends.                                                                    *)
And3(k, n, m) == Op3("logical", [k EXCEPT !.size = 0], n, m)
Bic3(k, n, m) == Op3("logical", [k EXCEPT !.size = 1], n, m)
Orr3(k, n, m) == Op3("logical", [k EXCEPT !.size = 2], n, m)
Orn3(k, n, m) == Op3("logical", [k EXCEPT !.size = 3], n, m)
Eor3(k, n, m) == Op3("select", [k EXCEPT !.size = 0], n, m)
Not2(k, n)    == Op2("notrbit", [k EXCEPT !.size = 0], n)
Rbit2(k, n)   == Op2("notrbit", [k EXCEPT !.size = 1], n)
LogicLaws ==
  \A k \in Vectors :
    /\ Eor3(k, vn, vm) = Orr3(k, Bic3(k, vn, vm), Bic3(k, vm, vn))
    /\ Op3("select", [k EXCEPT !.size = 1], vn, vm) = Orr3(k, And3(k, vd, vn), Bic3(k, vm, vd))
    /\ Op3("select", [k EXCEPT !.size = 2], vn, vm) = Orr3(k, And3(k, vn, vm), Bic3(k, vd, vm))
    /\ Op3("select", [k EXCEPT !.size = 3], vn, vm) = Orr3(k, And3(k, vd, vm), Bic3(k, vn, vm))
    /\ Orn3(k, vn, vm) = Not2(k, Bic3(k, vm, vn))
    /\ Op3("cmge", k, vn, vm) = Not2(k, Op3("cmgt", k, vm, vn))
    /\ Op3("cmhs", k, vn, vm) = Not2(k, Op3("cmhi", k, vm, vn))
    /\ Op3("cmeq", k, vn, vm) = And3(k, Op3("cmge", k, vn, vm), Op3("cmge", k, vm, vn))
    /\ Op3("cmeq", k, vn, vm) = And3(k, Op3("cmhs", k, vn, vm), Op3("cmhs", k, vm, vn))
    /\ Op3("cmtst", k, vn, vm) = Not2(k, Op2("cmeq0", k, And3(k, vn, vm)))
    /\ Op2("cmeq0", k, vn) = Op3("cmeq", k, vn, Zero) /\ Op2("cmge0", k, vn) = Op3("cmge", k, vn, Zero)
    /\ Op2("cmgt0", k, vn) = Op3("cmgt", k, vn, Zero) /\ Op2("cmle0", k, vn) = Op3("cmge", k, Zero, vn)
    /\ Op2("cmlt0", k, vn) = Op3("cmgt", k, Zero, vn)
    /\ \A name \in {"cmeq0", "cmge0", "cmgt0", "cmle0", "cmlt0", "abs", "neg"} :
         LET k1 == [k EXCEPT !.scalar = TRUE, !.q = 1]
         IN  Op2(name, k1, vn) = Each(k1, LAMBDA i : Lane(k.size, Op2(name, k, vn), 0))
    \* leading bits
    /\ Op2("cls", k, vn) = Op3("sub", k, Op2("clz", k, Eor3(k, vn, ByImm("sshr", k, 1, vn))), Dup(k, 1))
    /\ LET b == [k EXCEPT !.size = 0]
           Below == Bic3(k, Op3("sub", b, vn, Dup(b, 1)), vn)   \* the bits below the lowest one
       IN  /\ Op2("clz", b, Rbit2(k, vn)) = Op2("cnt", b, Below)
           /\ Rbit2(k, Rbit2(k, vn)) = Not2(k, Not2(k, vn))
           /\ Op3("pmul", b, vn, vm) = ByHalves("xtn", 0, "pmull", b, vn, vm)
           /\ Op3("pmull", b, vn, vm) = Op3("pmull", b, vm, vn)
           /\ Op3("pmull", b, vn, Eor3([k EXCEPT !.q = 1], vm, vd))
                = Eor3([k EXCEPT !.q = 1], Op3("pmull", b, vn, vm), Op3("pmull", b, vn, vd))

(* Permutations move every lane once: interleaving and de-interleaving undo *)
(* each other, reversals and transpositions undo themselves, extraction     *)
(* rotates, a table lookup with the positions of a register is that         *)
(* permutation, and one outside the table gives zero or the old byte.       *)
Ext(k, i, n, m) == arm64_hlp_dirty_advanced_simd_ext_simd([k EXCEPT !.imm = i] @@ [U |-> 0], n, m)
Tbl(k, is_tbx, d, regs, m) ==
  arm64_hlp_dirty_advanced_simd_table_lookup_simd(
    k @@ [len |-> Len(regs) - 1, is_tbx |-> is_tbx], d, regs, m)
PermuteLaws ==
  \A k \in Vectors :
    LET n == Op3("zip1", k, vn, vm)
        m == Op3("zip2", k, vn, vm)
        t == Op3("trn1", k, vn, vm)
        u == Op3("trn2", k, vn, vm)
        Kept(v) == Not2(k, Not2(k, v))      \* v, its upper half cleared unless q
        b == [k EXCEPT !.size = 0]
        bytes == Cardinality(Active(b))
    IN  /\ Op3("uzp1", k, n, m) = Kept(vn) /\ Op3("uzp2", k, n, m) = Kept(vm)
        /\ Op3("trn1", k, t, u) = Kept(vn) /\ Op3("trn2", k, t, u) = Kept(vm)
        /\ Op2("rev64", k, Op2("rev64", k, vn)) = Kept(vn)
        /\ k.size = 0 => /\ Op2("rev32", k, Op2("rev32", k, vn)) = Kept(vn)
                         \* bytes of the halves of each 64 bits, then the halves
                         /\ Op2("rev64", k, vn) = Op2("rev64", [k EXCEPT !.size = 1], Op2("rev32", k, vn))
        /\ \A i \in 1 .. bytes - 1 :
             /\ Ext(k, bytes - i, Ext(k, i, vn, vn), Ext(k, i, vn, vn)) = Kept(vn)
             /\ k.q = 1 => Ext(k, i, vn, vm) = Tbl(k, 0, vd, <<vn, vm>>, [j \in Bytes |-> (i + j) % 2^B])
        /\ \A i \in Active(b) :
             LET r == Tbl(k, 1, vd, <<vn>>, vm)[i]
                 s == Tbl(k, 0, vd, <<vn>>, vm)[i]
             IN  IF vm[i] < NbLanes(0) THEN r = vn[vm[i]] /\ s = r ELSE r = vd[i] /\ s = 0

(* Loads and stores of structures: what was stored is loaded back into the  *)
(* same lanes, two register structures are interleaved as zip interleaves   *)
(* and loaded as uzp separates, a store leaves the memory after it alone,   *)
(* and the post-indexed base moves by exactly the bytes touched.            *)
Memory == [a \in 0 .. 4 * NbLanes(0) + 3 |-> (a * 3 + x) % 2^B]
StructureLaws ==
  \A k \in Vectors : \A opcode \in {7, 10, 6, 2, 8, 4, 0} :
    LET f == k @@ [U |-> 0, opcode |-> opcode]
        nb == StructureNb(opcode)
        regs == SubSeq(<<vn, vm, vd, vn>>, 1, nb)
        st == dis_store_multiple_structure(f, regs, Memory)
        ld == dis_load_multiple_structure(f, st.mem)
        one == k @@ [U |-> 0, opcode |-> 10]
        single == [k EXCEPT !.imm = 1] @@ [U |-> 0, selem |-> nb]
        back == dis_load_single_structure(single, regs, dis_store_single_structure(single, regs, Memory).mem)
    IN  /\ ld.regs = [r \in 1 .. nb |-> Not2(k, Not2(k, regs[r]))]
        /\ ld.offset = st.offset
        /\ \A a \in DOMAIN Memory : a >= PostIndex(0, 31, 5, st.offset) => st.mem[a] = Memory[a]
        /\ PostIndex(3, 2, 5, st.offset) = 8
        /\ opcode = 8 => /\ st = dis_store_multiple_structure(one,
                                 <<Op3("zip1", k, vn, vm), Op3("zip2", k, vn, vm)>>, Memory)
                         /\ LET l == dis_load_multiple_structure(one, Memory).regs
                            IN  dis_load_multiple_structure(f, Memory).regs
                                  = <<Op3("uzp1", k, l[1], l[2]), Op3("uzp2", k, l[1], l[2])>>
        /\ back.regs = regs /\ back.offset = nb * 2^k.size
        /\ LET rep == dis_load_single_structure_replicate(single, Memory).regs
           IN  \A r \in 1 .. nb : rep[r] = Dup(k, MemLane(k.size, Memory, r - 1))

(* All the laws: the helpers of the arm64 vector instructions fit together. *)
VectorLaws ==
  [][/\ SaturationLaws /\ DoublingLaws /\ ShiftLaws /\ ArithmeticLaws
     /\ LogicLaws /\ PermuteLaws /\ StructureLaws]_vars

-----------------------------------------------------------------------------
(* The two guests share their vector instruction set: an instruction of the *)
(* arm guest and its arm64 counterpart compute the same lanes and the same  *)
(* saturation flag.  The code implements each of them twice, on different   *)
(* register files (D registers paired into Q ones that alias them; Q        *)
(* registers whose upper half a D result clears), with different integer    *)
(* types and operand orders.                                                *)

Arm == INSTANCE ArmNeon

(* The fields of the arm encodings.  Those of three registers and of shifts *)
(* by an immediate are the arm64 ones cut differently.                      *)
MiscFields ==
  [rev64 |-> <<0, 0>>, rev32 |-> <<0, 2>>, rev16 |-> <<0, 4>>, saddlp |-> <<0, 8>>,
   uaddlp |-> <<0, 10>>, cls |-> <<0, 16>>, clz |-> <<0, 18>>, cnt |-> <<0, 20>>,
   sadalp |-> <<0, 24>>, uadalp |-> <<0, 26>>, sqabs |-> <<0, 28>>, sqneg |-> <<0, 30>>,
   cmgt0 |-> <<1, 0>>, cmge0 |-> <<1, 2>>, cmeq0 |-> <<1, 4>>, cmle0 |-> <<1, 6>>,
   cmlt0 |-> <<1, 8>>, abs |-> <<1, 12>>, neg |-> <<1, 14>>, xtn |-> <<2, 8>>,
   sqxtun |-> <<2, 9>>, sqxtn |-> <<2, 10>>, uqxtn |-> <<2, 11>>, shll |-> <<2, 12>>]
ArmForm(name, k) ==
  LET e == Encoding[name]
      ab == CASE e.class \in {"same", "immediate"} -> <<e.opcode \div 2, e.opcode % 2>>
              [] e.class \in {"different", "element"} -> <<e.opcode, 0>>
              [] e.class = "misc" -> MiscFields[name]
  IN  k @@ [U |-> e.U, a |-> ab[1], b |-> ab[2]]
RegisterShifts == {"sshl", "ushl", "sqshl", "uqshl", "srshl", "urshl", "sqrshl", "uqrshl"}
ArmRun(name, k, d, n, m) ==
  LET f == ArmForm(name, k)
      class == Encoding[name].class
  IN  CASE name \in RegisterShifts -> Arm!hlp_common_adv_simd_three_same_length(f, d, m, n)
        [] class = "same" /\ name \notin RegisterShifts ->
             Arm!hlp_common_adv_simd_three_same_length(f, d, n, m)
        [] class = "different" -> Arm!hlp_common_adv_simd_three_different_length(f, d, n, m)
        [] class = "element" -> Arm!hlp_common_adv_simd_two_regs_and_scalar(f, d, n, m)
        [] class = "immediate" -> Arm!hlp_common_adv_simd_two_regs_and_shift(f, d, n)
        [] class = "misc" -> Arm!hlp_common_adv_simd_two_regs_misc(f, d, n)

(* The instructions both guests have, and those with a Q bit on arm.        *)
Shared == {name \in DOMAIN Encoding :
             CASE Encoding[name].class = "misc" -> name \in DOMAIN MiscFields
               [] Encoding[name].class \in {"across", "permute"} -> FALSE
               [] OTHER -> name \notin {"logical", "select"}}
DOnly == {name \in Shared :
            \/ Encoding[name].class = "different"
            \/ name \in {"smlal_e", "umlal_e", "smlsl_e", "umlsl_e", "smull_e", "umull_e", "sqdmull_e",
                         "sqdmlal_e", "sqdmlsl_e", "xtn", "sqxtun", "sqxtn", "uqxtn", "shll", "shrn", "rshrn",
                         "sqshrun", "sqrshrun", "sqshrn", "sqrshrn", "uqshrn", "uqrshrn", "sshll", "ushll",
                         "smaxp", "umaxp", "sminp", "uminp", "addp"}}
(* The immediates an instruction has in form k.                             *)
Immediates(name, k) ==
  LET e == Encoding[name] IN
  CASE e.class = "immediate" /\ e.opcode \in {10, 12, 14, 20} -> LeftShifts(k)
    [] e.class = "immediate" /\ e.opcode \notin {10, 12, 14, 20} -> RightShifts(k)
    [] e.class = "element" -> {0, HalfLanes(k.size) - 1}
    [] OTHER -> {0}
HasSize(name, k) ==
  CASE name \in {"cnt", "pmul", "pmull", "rev16"} -> k.size = 0
    [] name = "rev32" -> k.size < LogD - 1
    [] OTHER -> TRUE
Agree(name, k) ==
  LET a == ArmRun(name, k, vd, vn, vm)
      b == Run(name, k, vd, vn, vm)
  IN  a.qc = b.qc /\ \A i \in DOMAIN a.v : a.v[i] = b.v[i]

Same1(r, v) == \A i \in DOMAIN r : r[i] = v[i]
PermutesAgree(k) ==
  LET f(b) == k @@ [U |-> 0, a |-> 2, b |-> b]
      Pair(b, first, second) ==
        LET r == Arm!hlp_common_adv_simd_two_regs_misc(f(b), vd, vm)
        IN  Same1(r.d, Op3(first, k, vd, vm)) /\ Same1(r.m, Op3(second, k, vd, vm))
  IN  /\ Pair(2, "trn1", "trn2") /\ Pair(4, "uzp1", "uzp2") /\ Pair(6, "zip1", "zip2")
      /\ \A i \in 0 .. Cardinality(Arm!Written(k)) - 1 :
            Same1(Arm!dis_common_vext_simd([k EXCEPT !.imm = i], vn, vm), Ext(k, i, vn, vm))
      /\ \A i \in {0, HalfLanes(k.size) - 1} :
            Same1(Arm!dis_common_vdup_scalar([k EXCEPT !.imm = i], vm),
                  dis_dup_element([k EXCEPT !.imm = i], vm))
      /\ Same1(Arm!dis_common_vdup_arm(k, 5 + x), Dup(k, 5 + x))
      /\ Same1(Arm!dis_common_vmov_from_arm_simd([k EXCEPT !.imm = 1], vd, 3 + x),
               dis_load_single_structure([k EXCEPT !.imm = 1] @@ [selem |-> 1], <<vd>>,
                 [a \in 0 .. 2^k.size - 1 |-> ((3 + x) \div 2^(B * a)) % 2^B]).regs[1])
      \* a table of two D registers is one of one Q register
      /\ \A is_vtbx \in BOOLEAN :
            Same1(Arm!dis_common_vtbl_vtbx_simd([is_vtbx |-> is_vtbx], vd,
                    <<vn, [b \in Bytes |-> vn[(b + HalfLanes(0)) % NbLanes(0)]]>>, vm),
                  Tbl(k, Flag(is_vtbx), vd, <<vn>>, vm))

(* Structures of D registers: the register file is built from the inputs.   *)
File == [r \in 0 .. 7 |-> [b \in Arm!DBytes |-> (vn[b] + 3 * vm[b] + 5 * r) % 2^B]]
Filled(e, r) == [b \in Bytes |-> IF b \in Arm!DBytes THEN e[r][b] ELSE 0]
StructuresAgree(k, opcode) ==
  LET f == k @@ [U |-> 0, opcode |-> opcode]
      a == k @@ [U |-> 0, a |-> 0]
      s == k @@ [U |-> 0, a |-> 1]
      nb == StructureNb(opcode)
      Regs(e) == [r \in 1 .. nb |-> Filled(e, r)]
      Multiple(ld, mem) ==
        Arm!hlp_common_adv_simd_element_or_structure_load_store(a, opcode, ld, 0, 0, 1, File, mem)
      Single(b, ld, mem) ==
        Arm!hlp_common_adv_simd_element_or_structure_load_store(
          [s EXCEPT !.imm = 1], b, ld, 0, 0, 1, File, mem)
      single == [k EXCEPT !.imm = 1] @@ [U |-> 0, selem |-> nb]
      l64 == dis_load_single_structure(single, Regs(File), Memory)
      ld == Multiple(TRUE, Memory)
  IN  /\ Multiple(FALSE, Memory) = dis_store_multiple_structure(f, Regs(File), Memory)
      /\ [regs |-> Regs(ld.e), offset |-> ld.offset] = dis_load_multiple_structure(f, Memory)
      /\ ld.e[0] = File[0] /\ \A r \in nb + 1 .. 7 : ld.e[r] = File[r]
      /\ Single(nb - 1, FALSE, Memory) = dis_store_single_structure(single, Regs(File), Memory)
      /\ LET one == Single(nb - 1, TRUE, Memory)
         IN  [regs |-> Regs(one.e), offset |-> one.offset] = l64
      /\ LET rep == Single(11 + nb, TRUE, Memory)
         IN  [regs |-> Regs(rep.e), offset |-> rep.offset]
               = dis_load_single_structure_replicate(single, Memory)
      \* every second register: the same elements, spread
      /\ opcode \in {8, 4, 0} =>
           LET spread == Arm!hlp_common_adv_simd_element_or_structure_load_store(
                           a, opcode + 1, TRUE, 0, 0, 0, File, Memory)
           IN  /\ \A r \in 0 .. nb - 1 : spread.e[2 * r] = ld.e[1 + r]
               /\ \A r \in 0 .. nb - 1 : spread.e[2 * r + 1] = File[2 * r + 1]
      /\ \A rm \in {13, 2} : Arm!WriteBack(x, rm, y, ld.offset) =
                             PostIndex(x, IF rm = 13 THEN 31 ELSE rm, y, ld.offset)
      /\ Arm!WriteBack(x, 15, y, ld.offset) = x

InstructionsAgree ==
  \A name \in Shared : \A k \in Vectors :
    HasSize(name, k) /\ (k.q = 1 => name \notin DOnly) =>
      \A i \in Immediates(name, k) :
        (name \in RegisterShifts => NoLowest(k, vm)) => Agree(name, [k EXCEPT !.imm = i])
MovesAgree ==
  \A k \in Vectors :
    /\ PermutesAgree(k)
    /\ k.q = 0 => \A opcode \in {7, 10, 6, 2, 8, 4, 0} : StructuresAgree(k, opcode)

(* Every instruction both guests have computes the same lanes and sets the  *)
(* same saturation flag in both, for every size, immediate and register     *)
(* length the arm guest has, except rounding shifts by the lowest byte      *)
(* (the hlp_common_adv_simd and the arm64_hlp_dirty_advanced_simd helpers); *)
(* permutations, loads and stores of structures move the same bytes.        *)
TargetsAgree == [][InstructionsAgree /\ MovesAgree]_vars

(* The same without the exception: shifts by the lowest byte too.  The      *)
(* comment of sshl in arm_helpers.c holds "if there is rounding then bit    *)
(* 128 is always 0 and so result is 0".                                     *)
RegisterShiftsAgree == \A name \in RegisterShifts : \A k \in Vectors : Agree(name, k)
=============================================================================
