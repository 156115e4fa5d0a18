--------------------------- MODULE Backend_proofs ---------------------------
(***************************************************************************)
(* Proofs about Backend: for every block, either backend and any number of *)
(* host registers, the register allocation is exact and the code that runs *)
(* finds its operands.                                                     *)
(*                                                                         *)
(* The inductive invariant follows the block through the phases.  IrSound  *)
(* is what the add_ functions build: registers are written once, before    *)
(* they are read.  X86Sound says the same of the backend instructions, and *)
(* that lastReadIndex is the last instruction that reads; TodoSound ties   *)
(* the two together while one is made from the other.  While registers are *)
(* allocated, and from then on, Apart says that a register still to be     *)
(* read when another is written shares no host register with it.  When the *)
(* code runs, Holding says that every register still to be read is there.  *)
(***************************************************************************)
EXTENDS Backend, FiniteSetTheorems, SequenceTheorems, WellFoundedInduction, TLAPS

Kinds == {"mov_const", "load", "store", "alu", "shift", "asr", "cmp", "call", "ite", "unsigned_cast",
          "signed_cast", "exit", "read", "write", "marker"}
InsnFields == [type : Kinds, value : Int, src : Seq(Nat), dst : Nat]
Insn == {insn \in InsnFields : insn.type = "exit" => insn.dst = 0}
IrReg == [type : Int, lastReadIndex : Int]
X86Reg == [isConstant : BOOLEAN, lastReadIndex : Int, index : Int, index2 : Int]

Shape ==
    /\ backend \in Backends
    /\ ir \in Seq(Insn) /\ irRegs \in Seq(IrReg)
    /\ x86 \in Seq(Insn) /\ x86Regs \in Seq(X86Reg) /\ todo \in Seq(Insn)
    /\ next \in Nat
    /\ freeRegList \in [Host -> BOOLEAN]

\* An instruction with two operands, which the backends take apart.
Binary(insn) == insn.type \in {"asr", "store"} => Len(insn.src) = 2

IrSound ==
    /\ \A i \in 1..Len(ir) : Binary(ir[i]) /\ ir[i].dst <= Len(irRegs)
    /\ \A r \in 1..Len(irRegs) : \E k \in 1..Len(ir) : ir[k].dst = r
    /\ \A i \in 1..Len(ir) : \A r \in Operands(ir[i]) :
          (\E k \in 1..(i - 1) : ir[k].dst = r) /\ irRegs[r].lastReadIndex # -1
    /\ \A i, j \in 1..Len(ir) : ir[i].dst = ir[j].dst /\ ir[i].dst # 0 => i = j
    /\ phase = "build" => x86 = <<>> /\ todo = <<>> /\ next = 0

X86Sound ==
    /\ \A i \in 1..Len(x86) : x86[i].dst <= Len(x86Regs)
    /\ \A i \in 1..Len(x86) : \A r \in Operands(x86[i]) :
          (\E k \in 1..(i - 1) : x86[k].dst = r) /\ LastRead(r) >= i - 1
    /\ \A i, j \in 1..Len(x86) : x86[i].dst = x86[j].dst /\ x86[i].dst # 0 => i = j
    /\ \A r \in 1..Len(x86Regs) :
          LastRead(r) = -1 \/ (LastRead(r) \in 0..(Len(x86) - 1) /\ r \in Operands(x86[LastRead(r) + 1]))

\* The register is written by an instruction of the IR that has been dealt with,
\* or is a temporary.
FromIr(r) == r \in 1..Len(irRegs) => \E k \in 1..next : ir[k].dst = r

TodoSound ==
    phase = "instructions" =>
        /\ Len(irRegs) <= Len(x86Regs) /\ next <= Len(ir)
        /\ \A i \in 1..Len(todo) : todo[i].dst <= Len(x86Regs) /\ FromIr(todo[i].dst)
        /\ \A i \in 1..Len(x86) : FromIr(x86[i].dst)
        /\ \A i \in 1..Len(todo) : \A r \in Operands(todo[i]) :
              (\E k \in 1..Len(x86) : x86[k].dst = r) \/ (\E k \in 1..(i - 1) : todo[k].dst = r)
        /\ \A i, j \in 1..Len(todo) : todo[i].dst = todo[j].dst /\ todo[i].dst # 0 => i = j
        /\ \A i \in 1..Len(x86), j \in 1..Len(todo) : x86[i].dst = todo[j].dst => x86[i].dst = 0
        /\ \A k \in 1..next : ir[k].dst # 0 /\ ~Dropped(ir[k]) =>
              (\E i \in 1..Len(x86) : x86[i].dst = ir[k].dst) \/ (\E i \in 1..Len(todo) : todo[i].dst = ir[k].dst)

\* Of the first n instructions: their results are in host registers, apart from
\* those that are read later, and their halves apart if they are read at all.
Housed(n) == \A i \in 1..n : x86[i].dst # 0 => Home(x86[i].dst) \subseteq Host
Apart(n) ==
    \A i, j \in 1..n :
        i < j /\ x86[i].dst # 0 /\ x86[j].dst # 0 /\ LastRead(x86[i].dst) >= j - 1 =>
            Home(x86[i].dst) \cap Home(x86[j].dst) = {}
HalvesApart(n) ==
    \A i \in 1..n : x86[i].dst # 0 /\ LastRead(x86[i].dst) # -1 /\ Wide(x86[i].dst) =>
        Index(x86[i].dst, 1) # Index(x86[i].dst, 2)
Placed(n) == Housed(n) /\ Apart(n) /\ HalvesApart(n)

Taken == \A h \in Host : ~freeRegList[h] <=> \E r \in Live(next) : h \in Home(r)

AllocationSound == phase = "registers" => next <= Len(x86) /\ Placed(next) /\ Taken

Holding == \A r \in Live(next) : \A k \in Halves(r) : host[Index(r, k)] = <<r, k>>

RunSound == phase = "run" => next <= Len(x86) /\ Placed(Len(x86)) /\ Holding

Inv == Shape /\ IrSound /\ X86Sound /\ TodoSound /\ AllocationSound /\ RunSound

-----------------------------------------------------------------------------
(* Helpers.                                                                *)

\* getFreeRegRaw finds a free register when there is one.
LEMMA FirstIsFree ==
  ASSUME NEW S \in SUBSET Nat, S # {}
  PROVE  First(S) \in S
<1> DEFINE R == {p \in Nat \X Nat : p[1] < p[2]}
<1>1. IsWellFoundedOn(R, Nat)
  BY NatLessThanWellFounded, Zenon DEF OpToRel
<1>2. PICK h \in S : \A g \in S : ~(<<g, h>> \in R)
  <2> HIDE DEF R
  <2> QED BY <1>1, WFMin
<1>3. ASSUME NEW g \in S PROVE h <= g
  <2>1. h \in Nat /\ g \in Nat OBVIOUS
  <2>2. g < h => <<g, h>> \in R BY <2>1
  <2>3. ~(g < h) BY <1>2, <2>2
  <2> QED BY <2>1, <2>3
<1> QED BY <1>3 DEF First

\* A function on 1..n is a sequence of length n.
LEMMA FunctionIsSeq ==
  ASSUME NEW S, NEW n \in Nat, NEW f \in [1..n -> S]
  PROVE  f \in Seq(S) /\ Len(f) = n /\ DOMAIN f = 1..n
<1>1. f \in Seq(S) BY SeqDef
<1>2. Len(f) \in Nat /\ DOMAIN f = 1..Len(f) BY <1>1, LenProperties
<1>3. 1..Len(f) = 1..n BY <1>2
<1>4. Len(f) = n BY <1>2, <1>3
<1> QED BY <1>1, <1>2, <1>4

\* What every add_ function passes to Add.
Insertable(type, value, src, t) ==
    /\ type \in Kinds /\ value \in Int /\ t \in Int
    /\ src \in Seq(Regs \cup {0})
    /\ type \in {"asr", "store"} => Len(src) = 2
    /\ type = "exit" => t = NoType
Passed(type, value, src, t) ==
    Insertable(type, value, src, t) /\ Add(type, value, src, t)

LEMMA BuildAdds ==
  ASSUME Shape, BuildIr
  PROVE  \E type, value, src, t : Passed(type, value, src, t)
<1> DEFINE Result == \E type, value, src, t : Passed(type, value, src, t)
<1> USE DEF Insertable, Kinds
<1>1. Types \subseteq Int /\ NoType \in Int
  BY JitterAssumption DEF NoType
<1>2. ASSUME NEW r \in Regs PROVE <<r>> \in Seq(Regs \cup {0}) /\ Len(<<r>>) = 1
  OBVIOUS
<1>3. ASSUME NEW r \in Regs, NEW s \in Regs \cup {0}
      PROVE  <<r, s>> \in Seq(Regs \cup {0}) /\ Len(<<r, s>>) = 2
  OBVIOUS
<1>4. ASSUME NEW r \in Regs, NEW s \in Regs, NEW u \in Regs
      PROVE  <<r, s, u>> \in Seq(Regs \cup {0})
  OBVIOUS
<1>5. \A t : OfType(t) \subseteq Regs BY DEF OfType
<1>6. CASE add_mov_const
  <2>1. PICK t \in Types : Add("mov_const", 0, <<>>, t) BY <1>6 DEF add_mov_const
  <2>2. Insertable("mov_const", 0, <<>>, t) BY <1>1, <2>1
  <2>9. Passed("mov_const", 0, <<>>, t) BY <2>1, <2>2, Zenon DEF Passed
  <2> QED BY <2>9
<1>7. CASE add_load
  <2>1. PICK t \in Types, r \in Regs : Add("load", 0, <<r>>, t) BY <1>7 DEF add_load
  <2>2. Insertable("load", 0, <<r>>, t) BY <1>1, <1>2, <2>1
  <2>9. Passed("load", 0, <<r>>, t) BY <2>1, <2>2, Zenon DEF Passed
  <2> QED BY <2>9
<1>8. CASE add_store
  <2>1. PICK t \in Types, r \in Regs, s \in Regs : s \in OfType(t) /\ Add("store", 0, <<s, r>>, NoType)
    BY <1>8, <1>5 DEF add_store
  <2>2. Insertable("store", 0, <<s, r>>, NoType) BY <1>1, <1>3, <1>5, <2>1
  <2>9. Passed("store", 0, <<s, r>>, NoType) BY <2>1, <2>2, Zenon DEF Passed
  <2> QED BY <2>9
<1>9. CASE add_alu
  <2>1. PICK t \in Types, r \in Regs, s \in Regs : r \in OfType(t) /\ s \in OfType(t) /\ Add("alu", 0, <<r, s>>, t)
    BY <1>9, <1>5 DEF add_alu
  <2>2. Insertable("alu", 0, <<r, s>>, t) BY <1>1, <1>3, <1>5, <2>1
  <2>9. Passed("alu", 0, <<r, s>>, t) BY <2>1, <2>2, Zenon DEF Passed
  <2> QED BY <2>9
<1>10. CASE add_shift
  <2>1. PICK t \in Types, r \in Regs, s \in Regs : r \in OfType(t) /\ s \in OfType(8) /\ Add("shift", 0, <<r, s>>, t)
    BY <1>10, <1>5 DEF add_shift
  <2>2. Insertable("shift", 0, <<r, s>>, t) BY <1>1, <1>3, <1>5, <2>1
  <2>9. Passed("shift", 0, <<r, s>>, t) BY <2>1, <2>2, Zenon DEF Passed
  <2> QED BY <2>9
<1>11. CASE add_asr
  <2>1. PICK t \in Types, r \in Regs, s \in Regs : r \in OfType(t) /\ s \in OfType(8) /\ Add("asr", 0, <<r, s>>, t)
    BY <1>11, <1>5 DEF add_asr
  <2>2. Insertable("asr", 0, <<r, s>>, t) BY <1>1, <1>3, <1>5, <2>1
  <2>9. Passed("asr", 0, <<r, s>>, t) BY <2>1, <2>2, Zenon DEF Passed
  <2> QED BY <2>9
<1>12. CASE add_cmp
  <2>1. PICK t \in Types, r \in Regs, s \in Regs : r \in OfType(t) /\ s \in OfType(t) /\ Add("cmp", 0, <<r, s>>, t)
    BY <1>12, <1>5 DEF add_cmp
  <2>2. Insertable("cmp", 0, <<r, s>>, t) BY <1>1, <1>3, <1>5, <2>1
  <2>9. Passed("cmp", 0, <<r, s>>, t) BY <2>1, <2>2, Zenon DEF Passed
  <2> QED BY <2>9
<1>13. CASE add_call
  <2>1a. PICK t \in Types \cup {NoType}, r \in Regs, slots \in ParamSlots :
           \E param \in [slots -> Regs] : Add("call", 0, <<r>> \o [p \in 1..4 |-> IF p \in slots THEN param[p] ELSE 0], t)
    BY <1>13 DEF add_call
  <2>1. PICK param \in [slots -> Regs] :
           Add("call", 0, <<r>> \o [p \in 1..4 |-> IF p \in slots THEN param[p] ELSE 0], t)
    BY <2>1a
  <2> DEFINE params == [p \in 1..4 |-> IF p \in slots THEN param[p] ELSE 0]
  <2>2. params \in [1..4 -> Regs \cup {0}] OBVIOUS
  <2>3. params \in Seq(Regs \cup {0})
    <3> HIDE DEF params
    <3> QED BY <2>2, FunctionIsSeq
  <2>4. <<r>> \in Seq(Regs \cup {0}) OBVIOUS
  <2>5. <<r>> \o params \in Seq(Regs \cup {0})
    <3> HIDE DEF params
    <3> QED BY <2>3, <2>4, ConcatProperties
  <2>6. Insertable("call", 0, <<r>> \o params, t)
    <3> HIDE DEF params
    <3> QED BY <1>1, <2>5
  <2>9. Passed("call", 0, <<r>> \o params, t) BY <2>1, <2>6, Zenon DEF Passed
  <2> QED BY <2>9
<1>14. CASE add_ite
  <2>1. PICK t \in Types, r \in Regs, s \in Regs, u \in Regs : r \in OfType(t) /\ s \in OfType(t) /\ u \in OfType(t) /\ Add("ite", 0, <<r, s, u>>, t)
    BY <1>14, <1>5 DEF add_ite
  <2>2. Insertable("ite", 0, <<r, s, u>>, t) BY <1>1, <1>4, <1>5, <2>1
  <2>9. Passed("ite", 0, <<r, s, u>>, t) BY <2>1, <2>2, Zenon DEF Passed
  <2> QED BY <2>9
<1>15. CASE add_cast
  <2>1. PICK t \in Types, r \in Regs, type \in {"unsigned_cast", "signed_cast"} : Add(type, 0, <<r>>, t)
    BY <1>15 DEF add_cast
  <2>2. type \in Kinds /\ type \notin {"asr", "store"} OBVIOUS
  <2>3. Insertable(type, 0, <<r>>, t) BY <1>1, <1>2, <2>1, <2>2
  <2>9. Passed(type, 0, <<r>>, t) BY <2>1, <2>3, Zenon DEF Passed
  <2> QED BY <2>9
<1>16. CASE add_exit_cond
  <2>1. PICK r \in Regs, s \in Regs : r \in OfType(64) /\ Add("exit", 0, <<r, s>>, NoType)
    BY <1>16, <1>5 DEF add_exit_cond
  <2>2. Insertable("exit", 0, <<r, s>>, NoType) BY <1>1, <1>3, <1>5, <2>1
  <2>9. Passed("exit", 0, <<r, s>>, NoType) BY <2>1, <2>2, Zenon DEF Passed
  <2> QED BY <2>9
<1>17. CASE add_exit
  <2>1. PICK r \in Regs : r \in OfType(64) /\ Add("exit", 0, <<r, 0>>, NoType)
    BY <1>17, <1>5 DEF add_exit
  <2>2. Insertable("exit", 0, <<r, 0>>, NoType) BY <1>1, <1>3, <1>5, <2>1
  <2>9. Passed("exit", 0, <<r, 0>>, NoType) BY <2>1, <2>2, Zenon DEF Passed
  <2> QED BY <2>9
<1>18. CASE add_read_context
  <2>1. PICK t \in Types : Add("read", 0, <<>>, t) BY <1>18 DEF add_read_context
  <2>2. Insertable("read", 0, <<>>, t) BY <1>1, <2>1
  <2>9. Passed("read", 0, <<>>, t) BY <2>1, <2>2, Zenon DEF Passed
  <2> QED BY <2>9
<1>19. CASE add_write_context
  <2>1. PICK r \in Regs : Add("write", 0, <<r>>, NoType) BY <1>19 DEF add_write_context
  <2>2. Insertable("write", 0, <<r>>, NoType) BY <1>1, <1>2, <2>1
  <2>9. Passed("write", 0, <<r>>, NoType) BY <2>1, <2>2, Zenon DEF Passed
  <2> QED BY <2>9
<1>20. CASE add_insn_marker
  <2> DEFINE n == Cardinality({k \in DOMAIN ir : ir[k].type = "marker"})
  <2>1. Add("marker", n, <<>>, NoType) BY <1>20 DEF add_insn_marker
  <2>2. n \in Nat
    <3>1. DOMAIN ir = 1..Len(ir) /\ Len(ir) \in Nat BY DEF Shape
    <3>2. IsFiniteSet(1..Len(ir)) BY <3>1, FS_Interval
    <3>3. IsFiniteSet({k \in DOMAIN ir : ir[k].type = "marker"}) BY <3>1, <3>2, FS_Subset
    <3> QED BY <3>3, FS_CardinalityType
  <2> HIDE DEF n
  <2>3. Insertable("marker", n, <<>>, NoType) BY <1>1, <2>1, <2>2
  <2>9. Passed("marker", n, <<>>, NoType) BY <2>1, <2>3, Zenon DEF Passed
  <2> QED BY <2>9
<1> QED
  BY <1>6, <1>7, <1>8, <1>9, <1>10, <1>11, <1>12, <1>13, <1>14, <1>15, <1>16, <1>17, <1>18, <1>19,
     <1>20 DEF BuildIr

\* Build keeps registers written once, and before they are read.
LEMMA BuildStep ==
  ASSUME Inv, Build
  PROVE  Inv'
<1> USE DEF Inv
<1>1. PICK type, value, src, t : Passed(type, value, src, t)
  BY BuildAdds DEF Build
<1> DEFINE insn == [type |-> type, value |-> value, src |-> src, dst |-> IF t = NoType THEN 0 ELSE Len(irRegs) + 1]
           read == [r \in Regs |->
                       [type |-> irRegs[r].type,
                        lastReadIndex |-> IF \E p \in DOMAIN src : src[p] = r
                                          THEN Len(ir) ELSE irRegs[r].lastReadIndex]]
           n == Len(irRegs)
<1>2. /\ phase = "build" /\ phase' = phase
      /\ ir' = Append(ir, insn)
      /\ irRegs' = IF t = NoType THEN read ELSE Append(read, [type |-> t, lastReadIndex |-> -1])
      /\ UNCHANGED <<backend, codeVars, next, freeRegList, host, result, findVars>>
  BY <1>1, Zenon DEF Passed, Add, Build
<1>3. /\ type \in Kinds /\ value \in Int /\ t \in Int
      /\ src \in Seq(Regs \cup {0})
      /\ type \in {"asr", "store"} => Len(src) = 2
      /\ type = "exit" => t = NoType
  BY <1>1 DEF Passed, Insertable
<1>4. /\ n \in Nat /\ Regs = 1..n /\ irRegs \in [1..n -> IrReg]
      /\ Len(ir) \in Nat /\ ir \in [1..Len(ir) -> Insn] /\ DOMAIN ir = 1..Len(ir)
  BY LenProperties DEF Shape, Regs
<1>5. src \in Seq(Nat)
  BY <1>3, <1>4
<1>6. insn \in Insn
  BY <1>3, <1>4, <1>5 DEF Insn, InsnFields
<1>7. ir' \in Seq(Insn) /\ Len(ir') = Len(ir) + 1 /\ ir'[Len(ir) + 1] = insn /\ \A i \in 1..Len(ir) : ir'[i] = ir[i]
  <2> HIDE DEF insn
  <2> QED BY <1>2, <1>4, <1>6 DEF Shape
<1>8. /\ read \in Seq(IrReg) /\ Len(read) = n
      /\ \A r \in 1..n : read[r].lastReadIndex = IF \E p \in DOMAIN src : src[p] = r
                                          THEN Len(ir) ELSE irRegs[r].lastReadIndex
  <2>1. read \in [1..n -> IrReg] BY <1>4 DEF IrReg
  <2>2. \A r \in 1..n : read[r].lastReadIndex = IF \E p \in DOMAIN src : src[p] = r
                                          THEN Len(ir) ELSE irRegs[r].lastReadIndex
    BY <1>4
  <2> HIDE DEF read
  <2> QED BY <1>4, <2>1, <2>2, FunctionIsSeq
<1>9. /\ irRegs' \in Seq(IrReg)
      /\ Len(irRegs') = IF t = NoType THEN n ELSE n + 1
      /\ \A r \in 1..n : irRegs'[r] = read[r]
  <2> DEFINE new == [type |-> t, lastReadIndex |-> -1]
  <2>1. new \in IrReg BY <1>3 DEF IrReg
  <2>5. t # NoType => irRegs' = Append(read, new) BY <1>2
  <2> HIDE DEF read, new
  <2>2. DOMAIN read = 1..n BY <1>8, LenProperties
  <2>3. CASE t = NoType BY <1>2, <1>8, <2>3
  <2>4. CASE t # NoType
    <3>1. irRegs' = Append(read, new) BY <2>4, <2>5
    <3> QED BY <1>4, <1>8, <2>1, <2>2, <2>4, <3>1, AppendProperties
  <2> QED BY <2>3, <2>4
<1>10. Operands(insn) = {src[p] : p \in DOMAIN src} \ {0} /\ Operands(insn) \subseteq 1..n
  <2>1. Operands(insn) = {src[p] : p \in DOMAIN src} \ {0} BY DEF Operands
  <2>2. \A p \in DOMAIN src : src[p] \in Regs \cup {0} BY <1>3
  <2> QED BY <1>4, <2>1, <2>2
<1>11. insn.dst \in Nat /\ (insn.dst = 0 \/ insn.dst = n + 1) /\ insn.dst <= Len(irRegs')
       /\ (insn.dst = 0 => Len(irRegs') = n) /\ (insn.dst # 0 => Len(irRegs') = n + 1)
  <2>1. CASE t = NoType
    <3>1. insn.dst = 0 BY <2>1
    <3> HIDE DEF insn
    <3> QED BY <1>4, <1>9, <2>1, <3>1
  <2>2. CASE t # NoType
    <3>1. insn.dst = n + 1 BY <2>2
    <3>2. Len(irRegs') = n + 1 BY <1>9, <2>2
    <3> HIDE DEF insn, n
    <3> QED BY <1>4, <3>1, <3>2
  <2> QED BY <2>1, <2>2
<1>12. Binary(insn)
  BY <1>3 DEF Binary
<1> HIDE DEF insn, read
<1>13. \A i \in 1..Len(ir) : Operands(ir'[i]) = Operands(ir[i])
  BY <1>7
<1>14. Len(ir') \in Nat /\ (\A i \in 1..Len(ir') : i \in 1..Len(ir) \/ i = Len(ir) + 1)
  BY <1>4, <1>7
<1>15. ASSUME NEW i \in 1..Len(ir) PROVE ir[i].dst \in 0..n
  <2>1. ir[i].dst \in Nat BY <1>4 DEF Insn, InsnFields
  <2>2. ir[i].dst <= n BY DEF IrSound
  <2> QED BY <1>4, <2>1, <2>2
<1>16. \A r \in 1..n : read[r].lastReadIndex # -1 \/ (irRegs[r].lastReadIndex = -1 /\ r \notin Operands(insn))
  BY <1>4, <1>8, <1>10
<1>17. IrSound'
  <2>1. \A i \in 1..Len(ir') : Binary(ir'[i]) /\ ir'[i].dst <= Len(irRegs')
    <3> SUFFICES ASSUME NEW i \in 1..Len(ir') PROVE Binary(ir'[i]) /\ ir'[i].dst <= Len(irRegs')
      OBVIOUS
    <3>1. CASE i \in 1..Len(ir)
      <4>1. ir'[i] = ir[i] BY <1>7, <3>1
      <4>2. ir[i].dst <= Len(irRegs')
        <5>1. ir[i].dst \in 0..n BY <1>15, <3>1
        <5>2. Len(irRegs') \in {n, n + 1} BY <1>11
        <5> HIDE DEF n
        <5> QED BY <1>4, <5>1, <5>2
      <4> QED BY <3>1, <4>1, <4>2 DEF IrSound
    <3>2. CASE i = Len(ir) + 1 BY <1>7, <1>11, <1>12, <3>2
    <3> QED BY <1>14, <3>1, <3>2
  <2>2. \A r \in 1..Len(irRegs') : \E k \in 1..Len(ir') : ir'[k].dst = r
    <3> SUFFICES ASSUME NEW r \in 1..Len(irRegs') PROVE \E k \in 1..Len(ir') : ir'[k].dst = r
      OBVIOUS
    <3>1. CASE r \in 1..n
      <4>1. PICK k \in 1..Len(ir) : ir[k].dst = r BY <3>1 DEF IrSound
      <4>2. k \in 1..Len(ir') /\ ir'[k].dst = r BY <1>4, <1>7, <4>1
      <4> QED BY <4>2
    <3>2. CASE r \notin 1..n
      <4>1. r = n + 1 /\ insn.dst = n + 1 BY <1>4, <1>11, <3>2
      <4>2. Len(ir) + 1 \in 1..Len(ir') BY <1>4, <1>7
      <4> QED BY <1>7, <4>1, <4>2
    <3> QED BY <3>1, <3>2
  <2>3. ASSUME NEW i \in 1..Len(ir'), NEW r \in Operands(ir'[i])
        PROVE  (\E k \in 1..(i - 1) : ir'[k].dst = r) /\ irRegs'[r].lastReadIndex # -1
    <3>1. CASE i \in 1..Len(ir)
      <4>1. r \in Operands(ir[i]) BY <1>13, <3>1
      <4>2. PICK k \in 1..(i - 1) : ir[k].dst = r BY <3>1, <4>1 DEF IrSound
      <4>3. k \in 1..Len(ir) /\ ir'[k].dst = r BY <1>4, <1>7, <3>1, <4>2
      <4>4. irRegs[r].lastReadIndex # -1 BY <3>1, <4>1 DEF IrSound
      <4>5. r # 0 BY <4>1 DEF Operands
      <4>6. r \in 1..n BY <1>15, <1>4, <3>1, <4>2, <4>3, <4>5
      <4> QED BY <1>9, <1>16, <4>3, <4>4, <4>6
    <3>2. CASE i = Len(ir) + 1
      <4>1. r \in Operands(insn) BY <1>7, <3>2
      <4>2. r \in 1..n BY <1>10, <4>1
      <4>3. PICK k \in 1..Len(ir) : ir[k].dst = r BY <4>2 DEF IrSound
      <4>4. k \in 1..(i - 1) /\ ir'[k].dst = r BY <1>4, <1>7, <3>2, <4>3
      <4> QED BY <1>9, <1>16, <4>1, <4>2, <4>4
    <3> QED BY <1>14, <3>1, <3>2
  <2>4. ASSUME NEW i \in 1..Len(ir'), NEW j \in 1..Len(ir'), ir'[i].dst = ir'[j].dst, ir'[i].dst # 0
        PROVE  i = j
    <3>1. CASE i \in 1..Len(ir) /\ j \in 1..Len(ir) BY <1>7, <2>4, <3>1 DEF IrSound
    <3>2. CASE i = Len(ir) + 1 /\ j \in 1..Len(ir) BY <1>4, <1>7, <1>11, <1>15, <2>4, <3>2
    <3>3. CASE j = Len(ir) + 1 /\ i \in 1..Len(ir) BY <1>4, <1>7, <1>11, <1>15, <2>4, <3>3
    <3> QED BY <1>14, <3>1, <3>2, <3>3
  <2>5. x86' = <<>> /\ todo' = <<>> /\ next' = 0
    BY <1>2 DEF IrSound, codeVars
  <2> QED BY <2>1, <2>2, <2>3, <2>4, <2>5 DEF IrSound
<1>18. Shape'
  BY <1>2, <1>7, <1>9 DEF Shape, codeVars, Host
<1>19. X86Sound'
  BY <1>2 DEF X86Sound, codeVars, LastRead
<1>20. TodoSound' /\ AllocationSound' /\ RunSound'
  BY <1>2 DEF TodoSound, AllocationSound, RunSound
<1> QED BY <1>17, <1>18, <1>19, <1>20

-----------------------------------------------------------------------------
(* allocateInstructions.                                                   *)

LEMMA Sizes ==
  ASSUME Shape
  PROVE  /\ Len(ir) \in Nat /\ \A i \in 1..Len(ir) : ir[i] \in Insn
         /\ Len(x86) \in Nat /\ \A i \in 1..Len(x86) : x86[i] \in Insn
         /\ Len(todo) \in Nat /\ \A i \in 1..Len(todo) : todo[i] \in Insn
         /\ Len(irRegs) \in Nat /\ Regs = 1..Len(irRegs)
         /\ Len(x86Regs) \in Nat /\ DOMAIN x86Regs = 1..Len(x86Regs)
         /\ \A r \in 1..Len(x86Regs) : x86Regs[r] \in X86Reg
         /\ next \in Nat
BY ElementOfSeq, LenProperties DEF Shape, Regs

LEMMA Fields ==
  ASSUME NEW insn \in Insn
  PROVE  insn.dst \in Nat /\ insn.type \in Kinds /\ Operands(insn) \subseteq Nat \ {0}
<1>1. insn.dst \in Nat /\ insn.type \in Kinds /\ insn.src \in Seq(Nat) BY DEF Insn, InsnFields
<1>2. \A q \in DOMAIN insn.src : insn.src[q] \in Nat BY <1>1
<1> QED BY <1>1, <1>2 DEF Operands

\* What the backend instructions read are backend registers.
LEMMA OperandsWritten ==
  ASSUME Shape, X86Sound, NEW i \in 1..Len(x86), NEW r \in Operands(x86[i])
  PROVE  /\ r \in 1..Len(x86Regs)
         /\ \E k \in 1..Len(x86) : k < i /\ x86[k].dst = r
<1>1. PICK k \in 1..(i - 1) : x86[k].dst = r BY DEF X86Sound
<1>2. k \in 1..Len(x86) /\ k < i BY Sizes, <1>1
<1>3. x86[k].dst <= Len(x86Regs) BY <1>2 DEF X86Sound
<1>4. r \in Nat \ {0} BY Sizes, Fields
<1> QED BY Sizes, <1>1, <1>2, <1>3, <1>4

LEMMA JitStep ==
  ASSUME Inv, jit
  PROVE  Inv'
<1> USE DEF Inv
<1>1. /\ phase = "build" /\ phase' = "instructions"
      /\ x86Regs' = [r \in Regs |-> NewReg(I386 /\ irRegs[r].type = 64)]
      /\ UNCHANGED <<backend, irVars, x86, todo, next, freeRegList, host, result, findVars>>
  BY DEF jit
<1>2. x86 = <<>> /\ todo = <<>> /\ next = 0
  BY <1>1 DEF IrSound
<1>3. /\ backend' = backend /\ ir' = ir /\ irRegs' = irRegs /\ freeRegList' = freeRegList
      /\ x86' = <<>> /\ todo' = <<>> /\ next' = 0
  BY <1>1, <1>2 DEF irVars
<1>4. x86Regs' \in [1..Len(irRegs) -> X86Reg] /\ \A r \in 1..Len(irRegs) : x86Regs'[r].lastReadIndex = -1
  <2> SUFFICES ASSUME NEW r \in 1..Len(irRegs)
               PROVE  /\ NewReg(I386 /\ irRegs[r].type = 64) \in X86Reg
                      /\ NewReg(I386 /\ irRegs[r].type = 64).lastReadIndex = -1
    BY <1>1, Sizes
  <2> DEFINE w == I386 /\ irRegs[r].type = 64
  <2>1. (IF w THEN 0 ELSE -1) \in Int OBVIOUS
  <2> HIDE DEF w
  <2>2. NewReg(w) \in X86Reg /\ NewReg(w).lastReadIndex = -1 BY <2>1 DEF NewReg, X86Reg
  <2> QED BY <2>2 DEF w
<1>5. x86Regs' \in Seq(X86Reg) /\ Len(x86Regs') = Len(irRegs)
  BY <1>4, Sizes, FunctionIsSeq
<1>6. Shape'
  BY <1>3, <1>5 DEF Shape, Host
<1>7. IrSound'
  BY <1>1, <1>3 DEF IrSound
<1>8. Len(x86') = 0 /\ Len(todo') = 0 /\ Len(irRegs) \in Nat /\ Len(ir) \in Nat
  BY <1>3, Sizes
<1>9. X86Sound'
  BY <1>4, <1>5, <1>8 DEF X86Sound, LastRead
<1>10. TodoSound'
  BY <1>3, <1>5, <1>8 DEF TodoSound
<1>11. AllocationSound' /\ RunSound'
  BY <1>1 DEF AllocationSound, RunSound
<1> QED BY <1>6, <1>7, <1>9, <1>10, <1>11

\* New temporaries change nothing for the instructions made so far.
LEMMA TemporariesKeep ==
  ASSUME Shape, X86Sound, NEW n \in Nat, x86' = x86, x86Regs' = Temporaries(n)
  PROVE  /\ X86Sound' /\ x86Regs' \in Seq(X86Reg)
         /\ Len(x86Regs') = Len(x86Regs) + n
<1> DEFINE m == Len(x86Regs)
<1>1. m \in Nat /\ \A r \in 1..m : x86Regs[r] \in X86Reg BY Sizes
<1>2. NewReg(FALSE) \in X86Reg /\ NewReg(FALSE).lastReadIndex = -1 BY DEF NewReg, X86Reg
<1>3. x86Regs' \in [1..(m + n) -> X86Reg]
  <2> HIDE DEF m
  <2> SUFFICES ASSUME NEW r \in 1..(m + n)
               PROVE  (IF r <= m THEN x86Regs[r] ELSE NewReg(FALSE)) \in X86Reg
    BY DEF Temporaries, m
  <2>1. CASE r <= m
    <3>1. r \in 1..m BY <1>1, <2>1
    <3> QED BY <1>1, <2>1, <3>1
  <2>2. CASE ~(r <= m) BY <1>2, <2>2
  <2> QED BY <2>1, <2>2
<1>4. x86Regs' \in Seq(X86Reg) /\ Len(x86Regs') = m + n
  <2> HIDE DEF m
  <2> QED BY <1>1, <1>3, FunctionIsSeq
<1>5. \A r \in 1..m : x86Regs'[r] = x86Regs[r]
  BY <1>1 DEF Temporaries
<1>6. \A r \in 1..(m + n) : r \notin 1..m => x86Regs'[r].lastReadIndex = -1
  <2> SUFFICES ASSUME NEW r \in 1..(m + n), r \notin 1..m PROVE x86Regs'[r].lastReadIndex = -1
    OBVIOUS
  <2>1. ~(r <= m) BY <1>1
  <2>2. x86Regs'[r] = NewReg(FALSE) BY <2>1 DEF Temporaries
  <2> QED BY <1>2, <2>2
<1>7. X86Sound'
  <2>1. \A i \in 1..Len(x86) : x86[i].dst <= m + n
    <3> SUFFICES ASSUME NEW i \in 1..Len(x86) PROVE x86[i].dst <= m + n
      OBVIOUS
    <3>1. x86[i].dst <= m /\ x86[i].dst \in Nat BY Sizes, Fields DEF X86Sound
    <3> HIDE DEF m
    <3> QED BY <1>1, <3>1
  <2>2. ASSUME NEW i \in 1..Len(x86), NEW r \in Operands(x86[i])
        PROVE  (\E k \in 1..(i - 1) : x86[k].dst = r) /\ x86Regs'[r].lastReadIndex >= i - 1
    BY OperandsWritten, <1>5 DEF X86Sound, LastRead
  <2>3. ASSUME NEW r \in 1..(m + n)
        PROVE  \/ x86Regs'[r].lastReadIndex = -1
               \/ /\ x86Regs'[r].lastReadIndex \in 0..(Len(x86) - 1)
                  /\ r \in Operands(x86[x86Regs'[r].lastReadIndex + 1])
    BY <1>5, <1>6 DEF X86Sound, LastRead
  <2>4. \A i, j \in 1..Len(x86) : x86[i].dst = x86[j].dst /\ x86[i].dst # 0 => i = j
    BY DEF X86Sound
  <2>5. \A r : LastRead(r)' = x86Regs'[r].lastReadIndex BY DEF LastRead
  <2>6. \A i \in 1..Len(x86') : x86'[i].dst <= Len(x86Regs') BY <1>4, <2>1
  <2>7. \A i \in 1..Len(x86') : \A r \in Operands(x86'[i]) :
           (\E k \in 1..(i - 1) : x86'[k].dst = r) /\ LastRead(r)' >= i - 1
    BY <2>2, <2>5
  <2>8. \A r \in 1..Len(x86Regs') :
           \/ LastRead(r)' = -1
           \/ LastRead(r)' \in 0..(Len(x86') - 1) /\ r \in Operands(x86'[LastRead(r)' + 1])
    BY <1>4, <2>3, <2>5
  <2>9. \A i, j \in 1..Len(x86') : x86'[i].dst = x86'[j].dst /\ x86'[i].dst # 0 => i = j
    BY <2>4
  <2> HIDE DEF m
  <2> QED BY <2>6, <2>7, <2>8, <2>9, Zenon DEF X86Sound
<1> QED BY <1>4, <1>7

\* The operands of an instruction that has two.
LEMMA TwoOperands ==
  ASSUME NEW a \in Nat, NEW b \in Nat, NEW insn, insn.src = <<a, b>>
  PROVE  Operands(insn) = {a, b} \ {0}
<1>1. DOMAIN insn.src = {1, 2} /\ insn.src[1] = a /\ insn.src[2] = b OBVIOUS
<1> QED BY <1>1 DEF Operands

LEMMA OneOperand ==
  ASSUME NEW a \in Nat, NEW insn, insn.src = <<a>>
  PROVE  Operands(insn) = {a} \ {0}
<1>1. DOMAIN insn.src = {1} /\ insn.src[1] = a OBVIOUS
<1> QED BY <1>1 DEF Operands

LEMMA NewInsn ==
  ASSUME NEW src \in Seq(Nat), NEW dst \in Nat, NEW type \in Kinds, type # "exit"
  PROVE  [type |-> type, value |-> 0, src |-> src, dst |-> dst] \in Insn
BY DEF Insn, InsnFields

LEMMA OtherSource ==
  ASSUME NEW insn \in Insn, NEW s \in Seq(Nat)
  PROVE  [insn EXCEPT !.src = s] \in Insn
BY DEF Insn, InsnFields

\* What allocateInstructions has to see to when it takes up an instruction of
\* the IR.
Expands(insn, code, n, size) ==
    /\ code \in Seq(Insn)
    /\ \A i \in 1..Len(code) : code[i].dst = insn.dst \/ code[i].dst \in (n + 1)..size
    /\ \A i \in 1..Len(code) : \A r \in Operands(code[i]) :
          r \in Operands(insn) \/ \E k \in 1..(i - 1) : code[k].dst = r
    /\ \A i, j \in 1..Len(code) : code[i].dst = code[j].dst /\ code[i].dst # 0 => i = j
    /\ Dropped(insn) \/ insn.dst = 0 \/ \E i \in 1..Len(code) : code[i].dst = insn.dst

LEMMA PlainExpands ==
  ASSUME Shape, NEW insn \in Insn, NEW n \in Nat
  PROVE  Expands(insn, IF Dropped(insn) THEN <<>> ELSE <<insn>>, n, n)
<1>1. CASE Dropped(insn)
  BY <1>1 DEF Expands
<1>2. CASE ~Dropped(insn)
  <2> DEFINE code == <<insn>>
  <2>1. code \in Seq(Insn) /\ Len(code) = 1 /\ code[1] = insn /\ 1..Len(code) = {1} OBVIOUS
  <2> HIDE DEF code
  <2>2. Expands(insn, code, n, n) BY <2>1 DEF Expands
  <2> QED BY <1>2, <2>2 DEF code
<1> QED BY <1>1, <1>2

LEMMA AsrExpands ==
  ASSUME Shape, NEW insn \in Insn, Len(insn.src) = 2, NEW n \in Nat, insn.dst <= n
  PROVE  Expands(insn, Asr(insn, n + 1, n + 2, n + 3), n, n + 3)
<1> DEFINE a == insn.src[1]
           b == insn.src[2]
           c1 == [type |-> "mov_const", value |-> 0, src |-> <<>>, dst |-> n + 1]
           c2 == [type |-> "shift", value |-> 0, src |-> <<a, n + 1>>, dst |-> n + 2]
           c3 == [type |-> "shift", value |-> 0, src |-> <<n + 2, n + 1>>, dst |-> n + 3]
           c4 == [insn EXCEPT !.src = <<n + 3, b>>]
           code == <<c1, c2, c3, c4>>
<1>1. a \in Nat /\ b \in Nat /\ insn.src = <<a, b>> /\ insn.dst \in Nat
  BY DEF Insn, InsnFields
<1>2. Operands(insn) = {a, b} \ {0}
  BY <1>1, TwoOperands
<1>3. c1 \in Insn /\ c2 \in Insn /\ c3 \in Insn /\ c4 \in Insn
  <2>1. <<>> \in Seq(Nat) /\ <<a, n + 1>> \in Seq(Nat) /\ <<n + 2, n + 1>> \in Seq(Nat) /\ <<n + 3, b>> \in Seq(Nat)
    BY <1>1
  <2>2. "mov_const" \in Kinds /\ "shift" \in Kinds BY DEF Kinds
  <2>3. n + 1 \in Nat /\ n + 2 \in Nat /\ n + 3 \in Nat OBVIOUS
  <2>4. c1 \in Insn BY <2>1, <2>2, <2>3, NewInsn, Zenon
  <2>5. c2 \in Insn BY <2>1, <2>2, <2>3, NewInsn, Zenon
  <2>6. c3 \in Insn BY <2>1, <2>2, <2>3, NewInsn, Zenon
  <2>7. c4 \in Insn BY <2>1, OtherSource, Zenon
  <2> QED BY <2>4, <2>5, <2>6, <2>7
<1>4. c1.dst = n + 1 /\ c2.dst = n + 2 /\ c3.dst = n + 3 /\ c4.dst = insn.dst
  BY DEF Insn, InsnFields
<1>5. Operands(c1) = {}
  BY DEF Operands
<1>6. Operands(c2) = {a, n + 1} \ {0}
  BY <1>1, TwoOperands
<1>7. Operands(c3) = {n + 2, n + 1} \ {0}
  BY <1>1, TwoOperands
<1>8. Operands(c4) = {n + 3, b} \ {0}
  <2>1. c4.src = <<n + 3, b>> BY DEF Insn, InsnFields
  <2> HIDE DEF c4
  <2> QED BY <1>1, <2>1, TwoOperands
<1>9. code = Asr(insn, n + 1, n + 2, n + 3)
  BY Zenon DEF Asr
<1> HIDE DEF c1, c2, c3, c4, a, b
<1>10. /\ code \in Seq(Insn) /\ Len(code) = 4 /\ 1..Len(code) = {1, 2, 3, 4}
       /\ code[1] = c1 /\ code[2] = c2 /\ code[3] = c3 /\ code[4] = c4
  BY <1>3
<1> HIDE DEF code
<1>11. \A i \in 1..Len(code) : code[i].dst = insn.dst \/ code[i].dst \in (n + 1)..(n + 3)
  BY <1>4, <1>10
<1>12. ASSUME NEW i \in 1..Len(code), NEW r \in Operands(code[i])
       PROVE  r \in Operands(insn) \/ \E k \in 1..(i - 1) : code[k].dst = r
  <2>1. CASE i = 1 BY <1>5, <1>10, <2>1
  <2>2. CASE i = 2
    <3>1. 1 \in 1..(i - 1) BY <2>2
    <3> QED BY <1>2, <1>4, <1>6, <1>10, <2>2, <3>1
  <2>3. CASE i = 3
    <3>1. 1 \in 1..(i - 1) /\ 2 \in 1..(i - 1) BY <2>3
    <3> QED BY <1>4, <1>7, <1>10, <2>3, <3>1
  <2>4. CASE i = 4
    <3>1. 3 \in 1..(i - 1) BY <2>4
    <3> QED BY <1>2, <1>4, <1>8, <1>10, <2>4, <3>1
  <2> QED BY <1>10, <2>1, <2>2, <2>3, <2>4
<1>13. \A i, j \in 1..Len(code) : code[i].dst = code[j].dst /\ code[i].dst # 0 => i = j
  BY <1>1, <1>4, <1>10
<1>14. \E i \in 1..Len(code) : code[i].dst = insn.dst
  BY <1>4, <1>10
<1>15. Expands(insn, code, n, n + 3)
  BY <1>10, <1>11, <1>12, <1>13, <1>14 DEF Expands
<1> QED BY <1>9, <1>15

LEMMA StoreExpands ==
  ASSUME Shape, NEW insn \in Insn, Len(insn.src) = 2, NEW n \in Nat, insn.dst <= n
  PROVE  Expands(insn, Store(insn, n + 1), n, n + 1)
<1> DEFINE a == insn.src[1]
           b == insn.src[2]
           c1 == [type |-> "unsigned_cast", value |-> 0, src |-> <<b>>, dst |-> n + 1]
           c2 == [insn EXCEPT !.src = <<a, n + 1>>]
           code == <<c1, c2>>
<1>1. a \in Nat /\ b \in Nat /\ insn.src = <<a, b>> /\ insn.dst \in Nat
  BY DEF Insn, InsnFields
<1>2. Operands(insn) = {a, b} \ {0}
  BY <1>1, TwoOperands
<1>3. c1 \in Insn /\ c2 \in Insn
  <2>1. <<b>> \in Seq(Nat) /\ <<a, n + 1>> \in Seq(Nat) BY <1>1
  <2>2. "unsigned_cast" \in Kinds /\ n + 1 \in Nat BY DEF Kinds
  <2>3. c1 \in Insn BY <2>1, <2>2, NewInsn, Zenon
  <2>4. c2 \in Insn BY <2>1, OtherSource, Zenon
  <2> QED BY <2>3, <2>4
<1>4. c1.dst = n + 1 /\ c2.dst = insn.dst
  BY DEF Insn, InsnFields
<1>5. Operands(c1) = {b} \ {0}
  BY <1>1, OneOperand
<1>6. Operands(c2) = {a, n + 1} \ {0}
  <2>1. c2.src = <<a, n + 1>> BY DEF Insn, InsnFields
  <2> HIDE DEF c2
  <2> QED BY <1>1, <2>1, TwoOperands
<1>7. code = Store(insn, n + 1)
  BY Zenon DEF Store
<1> HIDE DEF c1, c2, a, b
<1>8. code \in Seq(Insn) /\ Len(code) = 2 /\ 1..Len(code) = {1, 2} /\ code[1] = c1 /\ code[2] = c2
  BY <1>3
<1> HIDE DEF code
<1>9. \A i \in 1..Len(code) : code[i].dst = insn.dst \/ code[i].dst \in (n + 1)..(n + 1)
  BY <1>4, <1>8
<1>10. ASSUME NEW i \in 1..Len(code), NEW r \in Operands(code[i])
       PROVE  r \in Operands(insn) \/ \E k \in 1..(i - 1) : code[k].dst = r
  <2>1. CASE i = 1 BY <1>2, <1>5, <1>8, <2>1
  <2>2. CASE i = 2
    <3>1. 1 \in 1..(i - 1) BY <2>2
    <3> QED BY <1>2, <1>4, <1>6, <1>8, <2>2, <3>1
  <2> QED BY <1>8, <2>1, <2>2
<1>11. \A i, j \in 1..Len(code) : code[i].dst = code[j].dst /\ code[i].dst # 0 => i = j
  BY <1>1, <1>4, <1>8
<1>12. \E i \in 1..Len(code) : code[i].dst = insn.dst
  BY <1>4, <1>8
<1>13. Expands(insn, code, n, n + 1)
  BY <1>8, <1>9, <1>10, <1>11, <1>12 DEF Expands
<1> QED BY <1>7, <1>13

LEMMA AllocateInstructionsStep ==
  ASSUME Inv, allocateInstructions
  PROVE  Inv'
<1> USE DEF Inv
<1> DEFINE insn == ir[next + 1]
           n == Len(x86Regs)
<1>1. /\ phase = "instructions" /\ todo = <<>> /\ next < Len(ir) /\ next' = next + 1
      /\ phase' = phase /\ backend' = backend /\ ir' = ir /\ irRegs' = irRegs
      /\ x86' = x86 /\ freeRegList' = freeRegList
  BY DEF allocateInstructions, irVars
<1>2. /\ next + 1 \in 1..Len(ir) /\ insn \in Insn /\ insn.dst \in Nat /\ n \in Nat
      /\ Len(x86) \in Nat /\ Len(irRegs) \in Nat /\ next \in Nat /\ Len(ir) \in Nat /\ Len(todo) = 0
  BY <1>1, Sizes, Fields
<1>3. Len(irRegs) <= n /\ insn.dst <= n
  <2>1. Len(irRegs) <= n BY <1>1 DEF TodoSound
  <2>2. insn.dst <= Len(irRegs) BY <1>2 DEF IrSound
  <2> HIDE DEF insn, n
  <2> QED BY <1>2, <2>1, <2>2
<1>4. PICK more \in Nat : /\ x86Regs' = Temporaries(more)
                          /\ Expands(insn, todo', n, n + more)
  <2>1. CASE NarrowAsr(insn) /\ x86Regs' = Temporaries(3) /\ todo' = Asr(insn, n + 1, n + 2, n + 3)
    <3>1. Len(insn.src) = 2 BY <1>2, <2>1 DEF NarrowAsr, IrSound, Binary
    <3>2. Expands(insn, todo', n, n + 3) BY <1>2, <1>3, <2>1, <3>1, AsrExpands
    <3> QED BY <2>1, <3>2
  <2>2. CASE WideStore(insn) /\ x86Regs' = Temporaries(1) /\ todo' = Store(insn, n + 1)
    <3>1. Len(insn.src) = 2 BY <1>2, <2>2 DEF WideStore, IrSound, Binary
    <3>2. Expands(insn, todo', n, n + 1) BY <1>2, <1>3, <2>2, <3>1, StoreExpands
    <3> QED BY <2>2, <3>2
  <2>3. CASE x86Regs' = x86Regs /\ todo' = IF Dropped(insn) THEN <<>> ELSE <<insn>>
    <3>1. x86Regs = Temporaries(0)
      <4> DEFINE f == Temporaries(0)
      <4>1. f = [r \in 1..n |-> x86Regs[r]]
        BY <1>2 DEF Temporaries
      <4>2. x86Regs \in [1..n -> X86Reg] BY LenProperties DEF Shape
      <4> QED BY <4>1, <4>2
    <3>2. Expands(insn, todo', n, n + 0)
      <4>1. Expands(insn, todo', n, n) BY <1>2, <2>3, PlainExpands
      <4>2. n + 0 = n BY <1>2
      <4> QED BY <4>1, <4>2
    <3> QED BY <2>3, <3>1, <3>2
  <2> QED BY <2>1, <2>2, <2>3 DEF allocateInstructions
<1>5. X86Sound' /\ x86Regs' \in Seq(X86Reg) /\ Len(x86Regs') = n + more
  BY <1>1, <1>4, TemporariesKeep
<1>6. /\ todo' \in Seq(Insn)
      /\ \A i \in 1..Len(todo') : todo'[i].dst = insn.dst \/ todo'[i].dst \in (n + 1)..(n + more)
      /\ \A i \in 1..Len(todo') : \A r \in Operands(todo'[i]) :
            r \in Operands(insn) \/ \E k \in 1..(i - 1) : todo'[k].dst = r
      /\ \A i, j \in 1..Len(todo') : todo'[i].dst = todo'[j].dst /\ todo'[i].dst # 0 => i = j
      /\ Dropped(insn) \/ insn.dst = 0 \/ \E i \in 1..Len(todo') : todo'[i].dst = insn.dst
  BY <1>4 DEF Expands
<1>7. Shape'
  BY <1>1, <1>2, <1>5, <1>6 DEF Shape, Host
<1>8. IrSound'
  <2>1. phase # "build" /\ phase' # "build" BY <1>1
  <2> QED BY <1>1, <2>1 DEF IrSound
<1>9. AllocationSound' /\ RunSound'
  BY <1>1 DEF AllocationSound, RunSound
<1> HIDE DEF n
<1>10. ASSUME NEW r \in Operands(insn) PROVE \E k \in 1..Len(x86) : x86[k].dst = r
  <2>1. PICK k \in 1..next : ir[k].dst = r /\ irRegs[r].lastReadIndex # -1
    <3>1. (next + 1) - 1 = next BY <1>2
    <3> QED BY <1>2, <3>1, ZenonT(60) DEF IrSound
  <2>2. r # 0 BY DEF Operands
  <2>3. ~Dropped(ir[k]) BY <2>1 DEF Dropped
  <2>4. 1..Len(todo) = {} BY <1>2
  <2> QED BY <1>1, <2>1, <2>2, <2>3, <2>4 DEF TodoSound
<1>11. ASSUME NEW i \in 1..Len(x86)
       PROVE  x86[i].dst \in 0..n /\ FromIr(x86[i].dst) /\ (x86[i].dst = insn.dst => x86[i].dst = 0)
  <2>1. x86[i].dst \in Nat /\ x86[i].dst <= n /\ FromIr(x86[i].dst)
    BY <1>1, Sizes, Fields DEF X86Sound, TodoSound, n
  <2>2. ASSUME x86[i].dst = insn.dst, x86[i].dst # 0 PROVE FALSE
    <3>1. insn.dst \in 1..Len(irRegs) BY <1>2, <2>2 DEF IrSound
    <3>2. PICK k \in 1..next : ir[k].dst = insn.dst BY <2>1, <2>2, <3>1 DEF FromIr
    <3>3. k \in 1..Len(ir) /\ k # next + 1 BY <1>1, <1>2, <3>2
    <3> QED BY <1>2, <2>2, <3>2, <3>3 DEF IrSound
  <2> QED BY <1>2, <2>1, <2>2
<1>12. TodoSound'
  <2>1. Len(irRegs') <= Len(x86Regs') /\ next' <= Len(ir')
    BY <1>1, <1>2, <1>3, <1>5
  <2> DEFINE Done(r) == r \in 1..Len(irRegs) => \E k \in 1..(next + 1) : ir[k].dst = r
  <2>2. ASSUME NEW r, \/ r = insn.dst
                      \/ r \in (n + 1)..(n + more)
                      \/ FromIr(r)
        PROVE  Done(r)
    <3> SUFFICES ASSUME r \in 1..Len(irRegs) PROVE \E k \in 1..(next + 1) : ir[k].dst = r
      OBVIOUS
    <3>1. CASE r = insn.dst
      <4>1. next + 1 \in 1..(next + 1) BY <1>2
      <4> QED BY <3>1, <4>1
    <3>2. CASE r \in (n + 1)..(n + more) BY <1>2, <1>3, <3>2
    <3>3. CASE FromIr(r)
      <4>1. PICK k \in 1..next : ir[k].dst = r BY <3>3 DEF FromIr
      <4>2. k \in 1..(next + 1) BY <1>2
      <4> QED BY <4>1, <4>2
    <3> QED BY <2>2, <3>1, <3>2, <3>3
  <2>3. ASSUME NEW i \in 1..Len(todo')
        PROVE  todo'[i].dst <= Len(x86Regs') /\ Done(todo'[i].dst)
    <3>1. todo'[i].dst = insn.dst \/ todo'[i].dst \in (n + 1)..(n + more) BY <1>6
    <3>2. todo'[i].dst <= Len(x86Regs')
      <4> HIDE DEF insn
      <4> QED BY <1>2, <1>3, <1>5, <3>1
    <3>3. Done(todo'[i].dst)
      <4> HIDE DEF Done
      <4> QED BY <2>2, <3>1
    <3> QED BY <3>2, <3>3
  <2>4. \A i \in 1..Len(x86) : Done(x86[i].dst)
    <3> HIDE DEF Done
    <3> QED BY <1>11, <2>2
  <2>5. \A i \in 1..Len(todo') : \A r \in Operands(todo'[i]) :
              (\E k \in 1..Len(x86) : x86[k].dst = r) \/ (\E k \in 1..(i - 1) : todo'[k].dst = r)
    BY <1>6, <1>10
  <2>6. ASSUME NEW i \in 1..Len(x86), NEW j \in 1..Len(todo'), x86[i].dst = todo'[j].dst
        PROVE  x86[i].dst = 0
    <3>1. x86[i].dst = insn.dst \/ x86[i].dst \in (n + 1)..(n + more) BY <1>1, <1>6, <2>6
    <3>2. x86[i].dst \in 0..n /\ (x86[i].dst = insn.dst => x86[i].dst = 0) BY <1>1, <1>11
    <3> HIDE DEF insn
    <3> QED BY <1>1, <1>2, <3>1, <3>2
  <2>7. ASSUME NEW k \in 1..(next + 1), ir[k].dst # 0, ~Dropped(ir[k])
        PROVE  \/ \E i \in 1..Len(x86) : x86[i].dst = ir[k].dst
               \/ \E i \in 1..Len(todo') : todo'[i].dst = ir[k].dst
    <3>1. CASE k = next + 1 BY <1>6, <2>7, <3>1
    <3>2. CASE k # next + 1
      <4>1. k \in 1..next BY <1>2, <3>2
      <4>2. 1..Len(todo) = {} BY <1>2
      <4> QED BY <1>1, <2>7, <4>1, <4>2 DEF TodoSound
    <3> QED BY <3>1, <3>2
  <2>8. \A i \in 1..Len(todo') : todo'[i].dst <= Len(x86Regs') /\ FromIr(todo[i].dst)'
    BY <1>1, <2>3 DEF FromIr
  <2>9. \A i \in 1..Len(x86') : FromIr(x86[i].dst)'
    BY <1>1, <2>4 DEF FromIr
  <2>10. \A k \in 1..next' : ir'[k].dst # 0 /\ ~Dropped(ir[k])' =>
            \/ \E i \in 1..Len(x86') : x86'[i].dst = ir'[k].dst
            \/ \E i \in 1..Len(todo') : todo'[i].dst = ir'[k].dst
    BY <1>1, <2>7 DEF Dropped
  <2>11. \A i \in 1..Len(x86'), j \in 1..Len(todo') : x86'[i].dst = todo'[j].dst => x86'[i].dst = 0
    BY <1>1, <2>6
  <2>12. \A i \in 1..Len(todo') : \A r \in Operands(todo'[i]) :
              (\E k \in 1..Len(x86') : x86'[k].dst = r) \/ (\E k \in 1..(i - 1) : todo'[k].dst = r)
    BY <1>1, <2>5
  <2> QED BY <1>6, <2>1, <2>8, <2>9, <2>10, <2>11, <2>12 DEF TodoSound
<1> QED BY <1>5, <1>7, <1>8, <1>9, <1>12

LEMMA AddX86Step ==
  ASSUME Inv, AddX86
  PROVE  Inv'
<1> USE DEF Inv
<1> DEFINE insn == todo[1]
           m == Len(x86Regs)
           n == Len(x86)
           c == IF insn.type = "exit" /\ x86Regs[insn.src[1]].isConstant
                THEN [insn EXCEPT !.value = 1] ELSE insn
<1>1. /\ phase = "instructions" /\ todo # <<>> /\ todo' = Tail(todo)
      /\ phase' = phase /\ backend' = backend /\ ir' = ir /\ irRegs' = irRegs
      /\ next' = next /\ freeRegList' = freeRegList
  BY DEF AddX86, irVars
<1>2. /\ m \in Nat /\ n \in Nat /\ Len(todo) \in Nat /\ next \in Nat /\ DOMAIN x86Regs = 1..m
      /\ 1 \in 1..Len(todo) /\ Head(todo) = insn /\ insn \in Insn
      /\ Operands(insn) \subseteq Nat \ {0} /\ insn.dst \in Nat
  <2>1. Len(todo) # 0 BY <1>1, EmptySeq DEF Shape
  <2>2. 1 \in 1..Len(todo) BY <2>1, Sizes
  <2>3. Head(todo) = insn BY <1>1 DEF Shape
  <2>4. insn \in Insn BY <2>2, Sizes
  <2> HIDE DEF insn
  <2> QED BY <2>2, <2>3, <2>4, Sizes, Fields
<1>3. /\ x86' = Append(x86, c)
      /\ x86Regs' = [r \in DOMAIN x86Regs |->
                       [x86Regs[r] EXCEPT
                          !.isConstant = @ \/ (insn.type = "mov_const" /\ insn.dst = r),
                          !.lastReadIndex = IF r \in Operands(insn) THEN n ELSE @]]
  <2>1. Head(todo) = insn BY <1>2
  <2> QED BY <2>1, Zenon DEF AddX86
<1>4. c \in Insn /\ c.dst = insn.dst /\ Operands(c) = Operands(insn)
  <2>1. [insn EXCEPT !.value = 1] \in Insn /\ [insn EXCEPT !.value = 1].dst = insn.dst /\ [insn EXCEPT !.value = 1].src = insn.src
    <3> HIDE DEF insn
    <3> QED BY <1>2 DEF Insn, InsnFields
  <2>2. c \in Insn /\ c.dst = insn.dst /\ c.src = insn.src
    BY <1>2, <2>1
  <2> HIDE DEF c
  <2> QED BY <2>2 DEF Operands
<1> HIDE DEF c
<1>5. /\ x86' \in Seq(Insn) /\ Len(x86') = n + 1 /\ x86'[n + 1] = c
      /\ \A i \in 1..n : x86'[i] = x86[i]
  <2>1. x86 \in Seq(Insn) /\ x86' = Append(x86, c) BY <1>3 DEF Shape
  <2>2. c \in Insn BY <1>4
  <2> QED BY <2>1, <2>2, AppendProperties
<1>6. /\ x86Regs' \in [1..m -> X86Reg]
      /\ \A r \in 1..m : x86Regs'[r].lastReadIndex = IF r \in Operands(insn) THEN n ELSE LastRead(r)
  <2> HIDE DEF insn, m, n
  <2> SUFFICES ASSUME NEW r \in 1..m
               PROVE  LET new == [x86Regs[r] EXCEPT
                                    !.isConstant = @ \/ (insn.type = "mov_const" /\ insn.dst = r),
                                    !.lastReadIndex = IF r \in Operands(insn) THEN n ELSE @]
                      IN new \in X86Reg /\ new.lastReadIndex = IF r \in Operands(insn) THEN n ELSE LastRead(r)
    BY <1>2, <1>3
  <2>1. x86Regs[r] \in X86Reg BY Sizes DEF m
  <2> DEFINE b == x86Regs[r].isConstant \/ (insn.type = "mov_const" /\ insn.dst = r)
             l == IF r \in Operands(insn) THEN n ELSE x86Regs[r].lastReadIndex
  <2>2. b \in BOOLEAN /\ l \in Int BY <1>2, <2>1 DEF X86Reg
  <2>3. [x86Regs[r] EXCEPT !.isConstant = b, !.lastReadIndex = l] \in X86Reg
        /\ [x86Regs[r] EXCEPT !.isConstant = b, !.lastReadIndex = l].lastReadIndex = l
    <3> HIDE DEF b, l
    <3> QED BY <2>1, <2>2 DEF X86Reg
  <2> QED BY <2>3 DEF LastRead
<1>7. x86Regs' \in Seq(X86Reg) /\ Len(x86Regs') = m
  BY <1>2, <1>6, FunctionIsSeq
<1>8. todo' \in Seq(Insn) /\ Len(todo') = Len(todo) - 1 /\ \A i \in 1..Len(todo') : todo'[i] = todo[i + 1] /\ i + 1 \in 1..Len(todo)
  <2>1. todo \in Seq(Insn) /\ todo # <<>> BY <1>1 DEF Shape
  <2>2. todo' \in Seq(Insn) /\ Len(todo') = Len(todo) - 1 /\ \A i \in 1..Len(todo') : todo'[i] = todo[i + 1]
    BY <1>1, <2>1, HeadTailProperties
  <2> QED BY <1>2, <2>2
<1>9. Shape'
  BY <1>1, <1>5, <1>7, <1>8 DEF Shape, Host
<1>10. IrSound'
  <2>1. phase # "build" /\ phase' # "build" BY <1>1
  <2> QED BY <1>1, <2>1 DEF IrSound
<1>11. AllocationSound' /\ RunSound'
  BY <1>1 DEF AllocationSound, RunSound
<1>12. ASSUME NEW r \in Operands(insn)
       PROVE  (\E k \in 1..n : x86[k].dst = r) /\ r \in 1..m
  <2>1. 1..(1 - 1) = {} OBVIOUS
  <2>2. PICK k \in 1..n : x86[k].dst = r BY <1>1, <1>2, <2>1 DEF TodoSound
  <2>3. x86[k].dst <= m BY DEF X86Sound
  <2> HIDE DEF insn, m, n
  <2> QED BY <1>2, <2>2, <2>3
<1>13. \A i \in 1..Len(x86') : i \in 1..n \/ i = n + 1
  BY <1>2, <1>5
<1>14. insn.dst <= m /\ FromIr(insn.dst)
  BY <1>1, <1>2 DEF TodoSound
<1>15. \A i \in 1..n : x86[i].dst = insn.dst => x86[i].dst = 0
  BY <1>1, <1>2 DEF TodoSound
<1> HIDE DEF insn, m, n
<1>16. X86Sound'
  <2>1. \A i \in 1..Len(x86') : x86'[i].dst <= Len(x86Regs')
    <3>1. \A i \in 1..n : x86[i].dst <= m BY DEF X86Sound, n, m
    <3> QED BY <1>4, <1>5, <1>7, <1>13, <1>14, <3>1
  <2>2. ASSUME NEW i \in 1..Len(x86'), NEW r \in Operands(x86'[i])
        PROVE  (\E k \in 1..(i - 1) : x86'[k].dst = r) /\ x86Regs'[r].lastReadIndex >= i - 1
    <3>1. CASE i \in 1..n
      <4>1. r \in Operands(x86[i]) BY <1>5, <3>1
      <4>2. r \in 1..m BY <3>1, <4>1, OperandsWritten DEF n, m
      <4>3. PICK k \in 1..(i - 1) : x86[k].dst = r BY <3>1, <4>1 DEF X86Sound, n
      <4>4. LastRead(r) >= i - 1 BY <3>1, <4>1 DEF X86Sound, n
      <4>5. x86Regs'[r].lastReadIndex \in {n, LastRead(r)} BY <1>6, <4>2
      <4>6. x86'[k].dst = r BY <1>2, <1>5, <3>1, <4>3
      <4> QED BY <1>2, <3>1, <4>4, <4>5, <4>6
    <3>2. CASE i = n + 1
      <4>1. r \in Operands(insn) BY <1>4, <1>5, <3>2
      <4>2. x86Regs'[r].lastReadIndex = n BY <1>6, <1>12, <4>1
      <4>3. PICK k \in 1..n : x86[k].dst = r BY <1>12, <4>1
      <4>4. k \in 1..(i - 1) /\ x86'[k].dst = r BY <1>2, <1>5, <3>2, <4>3
      <4> QED BY <1>2, <3>2, <4>2, <4>4
    <3> QED BY <1>13, <3>1, <3>2
  <2>3. ASSUME NEW i \in 1..Len(x86'), NEW j \in 1..Len(x86'), x86'[i].dst = x86'[j].dst, x86'[i].dst # 0
        PROVE  i = j
    <3>1. CASE i \in 1..n /\ j \in 1..n BY <1>5, <2>3, <3>1 DEF X86Sound, n
    <3>2. CASE i = n + 1 /\ j \in 1..n BY <1>4, <1>5, <1>15, <2>3, <3>2
    <3>3. CASE j = n + 1 /\ i \in 1..n BY <1>4, <1>5, <1>15, <2>3, <3>3
    <3> QED BY <1>13, <3>1, <3>2, <3>3
  <2>4. ASSUME NEW r \in 1..m
        PROVE  \/ x86Regs'[r].lastReadIndex = -1
               \/ /\ x86Regs'[r].lastReadIndex \in 0..(Len(x86') - 1)
                  /\ r \in Operands(x86'[x86Regs'[r].lastReadIndex + 1])
    <3>1. CASE r \in Operands(insn) BY <1>2, <1>4, <1>5, <1>6, <3>1
    <3>2. CASE r \notin Operands(insn)
      <4>1. x86Regs'[r].lastReadIndex = LastRead(r) BY <1>6, <3>2
      <4>2. CASE LastRead(r) = -1 BY <4>1, <4>2
      <4>3. CASE LastRead(r) # -1
        <5>1. LastRead(r) \in 0..(n - 1) /\ r \in Operands(x86[LastRead(r) + 1]) BY <4>3 DEF X86Sound, n, m
        <5>2. LastRead(r) + 1 \in 1..n /\ LastRead(r) \in 0..((n + 1) - 1) BY <1>2, <5>1
        <5> QED BY <1>5, <4>1, <5>1, <5>2
      <4> QED BY <4>2, <4>3
    <3> QED BY <3>1, <3>2
  <2> QED BY <1>7, <2>1, <2>2, <2>3, <2>4 DEF X86Sound, LastRead
<1>17. TodoSound'
  <2>1. Len(irRegs') <= Len(x86Regs') /\ next' <= Len(ir')
    BY <1>1, <1>7 DEF TodoSound, m
  <2>2. \A i \in 1..Len(todo') : todo'[i].dst <= Len(x86Regs') /\ FromIr(todo[i].dst)'
    <3>1. \A i \in 1..Len(todo) : todo[i].dst <= m /\ FromIr(todo[i].dst) BY <1>1 DEF TodoSound, m
    <3>2. \A i \in 1..Len(todo') : todo'[i].dst <= m /\ FromIr(todo'[i].dst) BY <1>8, <3>1
    <3> QED BY <1>1, <1>7, <3>2 DEF FromIr
  <2>3. \A i \in 1..Len(x86') : FromIr(x86[i].dst)'
    <3>1. \A i \in 1..n : FromIr(x86[i].dst) BY <1>1 DEF TodoSound, n
    <3>2. \A i \in 1..Len(x86') : FromIr(x86'[i].dst) BY <1>4, <1>5, <1>13, <1>14, <3>1
    <3> QED BY <1>1, <3>2 DEF FromIr
  <2>4. ASSUME NEW i \in 1..Len(todo'), NEW r \in Operands(todo'[i])
        PROVE  (\E k \in 1..Len(x86') : x86'[k].dst = r) \/ (\E k \in 1..(i - 1) : todo'[k].dst = r)
    <3>1. i + 1 \in 1..Len(todo) /\ r \in Operands(todo[i + 1]) BY <1>8
    <3>2. (\E k \in 1..n : x86[k].dst = r) \/ (\E k \in 1..((i + 1) - 1) : todo[k].dst = r)
      BY <1>1, <3>1 DEF TodoSound, n
    <3>3. CASE \E k \in 1..n : x86[k].dst = r
      <4>1. PICK k \in 1..n : x86[k].dst = r BY <3>3
      <4>2. k \in 1..Len(x86') /\ x86'[k].dst = r BY <1>2, <1>5, <4>1
      <4> QED BY <4>2
    <3>4. CASE \E k \in 1..((i + 1) - 1) : todo[k].dst = r
      <4>1. PICK k \in 1..((i + 1) - 1) : todo[k].dst = r BY <3>4
      <4>2. CASE k = 1
        <5>1. n + 1 \in 1..Len(x86') BY <1>2, <1>5
        <5> QED BY <1>4, <1>5, <4>1, <4>2, <5>1 DEF insn
      <4>3. CASE k # 1
        <5>1. k - 1 \in 1..(i - 1) /\ k - 1 \in 1..Len(todo') /\ (k - 1) + 1 = k BY <1>2, <1>8, <4>3
        <5>2. todo'[k - 1].dst = r BY <1>8, <4>1, <5>1
        <5> QED BY <5>1, <5>2
      <4> QED BY <4>2, <4>3
    <3> QED BY <3>2, <3>3, <3>4
  <2>5. ASSUME NEW i \in 1..Len(todo'), NEW j \in 1..Len(todo'), todo'[i].dst = todo'[j].dst, todo'[i].dst # 0
        PROVE  i = j
    <3>1. i + 1 \in 1..Len(todo) /\ j + 1 \in 1..Len(todo) /\ todo'[i] = todo[i + 1] /\ todo'[j] = todo[j + 1] BY <1>8
    <3>2. i + 1 = j + 1 BY <1>1, <2>5, <3>1 DEF TodoSound
    <3> QED BY <3>2
  <2>6. ASSUME NEW i \in 1..Len(x86'), NEW j \in 1..Len(todo'), x86'[i].dst = todo'[j].dst
        PROVE  x86'[i].dst = 0
    <3>1. j + 1 \in 1..Len(todo) /\ todo'[j] = todo[j + 1] BY <1>8
    <3>2. CASE i \in 1..n BY <1>1, <1>5, <2>6, <3>1, <3>2 DEF TodoSound, n
    <3>3. CASE i = n + 1
      <4>1. todo[1].dst = todo[j + 1].dst BY <1>4, <1>5, <2>6, <3>1, <3>3 DEF insn
      <4>2. j + 1 # 1 OBVIOUS
      <4>3. todo[1].dst = 0 BY <1>1, <1>2, <3>1, <4>1, <4>2 DEF TodoSound
      <4> QED BY <1>4, <1>5, <3>3, <4>3 DEF insn
    <3> QED BY <1>13, <3>2, <3>3
  <2>7. ASSUME NEW k \in 1..next, ir[k].dst # 0, ~Dropped(ir[k])
        PROVE  \/ \E i \in 1..Len(x86') : x86'[i].dst = ir[k].dst
               \/ \E i \in 1..Len(todo') : todo'[i].dst = ir[k].dst
    <3>1. \/ \E i \in 1..n : x86[i].dst = ir[k].dst
          \/ \E i \in 1..Len(todo) : todo[i].dst = ir[k].dst
      BY <1>1, <2>7 DEF TodoSound, n
    <3>2. CASE \E i \in 1..n : x86[i].dst = ir[k].dst
      <4>1. PICK i \in 1..n : x86[i].dst = ir[k].dst BY <3>2
      <4>2. i \in 1..Len(x86') /\ x86'[i].dst = ir[k].dst BY <1>2, <1>5, <4>1
      <4> QED BY <4>2
    <3>3. CASE \E i \in 1..Len(todo) : todo[i].dst = ir[k].dst
      <4>1. PICK i \in 1..Len(todo) : todo[i].dst = ir[k].dst BY <3>3
      <4>2. CASE i = 1
        <5>1. n + 1 \in 1..Len(x86') BY <1>2, <1>5
        <5> QED BY <1>4, <1>5, <4>1, <4>2, <5>1 DEF insn
      <4>3. CASE i # 1
        <5>1. i - 1 \in 1..Len(todo') /\ (i - 1) + 1 = i BY <1>2, <1>8, <4>3
        <5>2. todo'[i - 1].dst = ir[k].dst BY <1>8, <4>1, <5>1
        <5> QED BY <5>1, <5>2
      <4> QED BY <4>2, <4>3
    <3> QED BY <3>1, <3>2, <3>3
  <2>8. \A k \in 1..next' : ir'[k].dst # 0 /\ ~Dropped(ir[k])' =>
            \/ \E i \in 1..Len(x86') : x86'[i].dst = ir'[k].dst
            \/ \E i \in 1..Len(todo') : todo'[i].dst = ir'[k].dst
    BY <1>1, <2>7 DEF Dropped
  <2> QED BY <2>1, <2>2, <2>3, <2>4, <2>5, <2>6, <2>8 DEF TodoSound
<1> QED BY <1>9, <1>10, <1>11, <1>16, <1>17

-----------------------------------------------------------------------------
(* allocateRegisters.                                                      *)

\* There are host registers, numbered from 0.
LEMMA HostType ==
  ASSUME Shape
  PROVE  /\ backend.REG_NUMBER \in Nat /\ Host \subseteq Nat /\ 0 \in Host
         /\ backend.CallerSaved \in Nat /\ backend.Pushed \in Nat /\ backend.CallerSaved <= backend.Pushed
BY BackendAssumption DEF Shape, Host

\* Nothing is live before the first instruction.
LEMMA EndInstructionsStep ==
  ASSUME Inv, EndInstructions
  PROVE  Inv'
<1> USE DEF Inv
<1>1. /\ phase = "instructions" /\ phase' = "registers" /\ next' = 0
      /\ freeRegList' = [h \in Host |-> TRUE]
      /\ backend' = backend /\ ir' = ir /\ irRegs' = irRegs /\ x86' = x86 /\ x86Regs' = x86Regs /\ todo' = todo
  BY DEF EndInstructions, irVars, codeVars
<1>2. Shape'
  BY <1>1 DEF Shape, Host
<1>3. IrSound' /\ X86Sound' /\ TodoSound' /\ RunSound'
  BY <1>1 DEF IrSound, X86Sound, TodoSound, RunSound, LastRead
<1>4. AllocationSound'
  <2>1. 1..0 = {} OBVIOUS
  <2>2. Live(0)' = {} BY <2>1 DEF Live
  <2>3. Live(next)' = {} BY <1>1, <2>2
  <2>4. Taken' BY <1>1, <2>3 DEF Taken, Host
  <2>5. Placed(next)' BY <1>1, <2>1 DEF Placed, Housed, Apart, HalvesApart
  <2>6. next' <= Len(x86') BY <1>1, Sizes
  <2> QED BY <2>4, <2>5, <2>6 DEF AllocationSound
<1> QED BY <1>2, <1>3, <1>4

\* The instruction that writes a live register has been passed.
LEMMA LiveWritten ==
  ASSUME Shape, X86Sound, NEW m \in Nat, m <= Len(x86), NEW r \in Live(m)
  PROVE  /\ r \in 1..Len(x86Regs) /\ r # 0 /\ LastRead(r) \in Int /\ LastRead(r) >= m
         /\ \E k \in 1..Len(x86) : k <= m /\ x86[k].dst = r
<1>1. r \in 1..Len(x86Regs) /\ LastRead(r) >= m /\ \E k \in 1..m : x86[k].dst = r BY Sizes DEF Live
<1>2. LastRead(r) \in Int BY <1>1, Sizes DEF LastRead, X86Reg
<1>3. PICK k \in 1..m : x86[k].dst = r BY <1>1
<1>4. k \in 1..Len(x86) /\ k <= m BY <1>3, Sizes
<1> QED BY <1>1, <1>2, <1>3, <1>4, Sizes

\* How the live registers change at instruction m: its operands are live, those
\* it is the last to read die, its result becomes live if it is read at all.
LEMMA LiveStep ==
  ASSUME Shape, X86Sound, NEW m \in Nat, m < Len(x86)
  PROVE  /\ Operands(x86[m + 1]) \subseteq Live(m)
         /\ x86[m + 1].dst \notin Live(m)
         /\ \A r \in Live(m) : LastRead(r) = m => r \in Operands(x86[m + 1])
         /\ Live(m + 1) = {r \in Live(m) : LastRead(r) # m} \cup
                          {r \in {x86[m + 1].dst} \ {0} : LastRead(r) # -1}
<1> DEFINE insn == x86[m + 1]
<1>1. m + 1 \in 1..Len(x86) /\ Len(x86) \in Nat /\ insn \in Insn /\ insn.dst \in Nat
  BY Sizes, Fields
<1>2. ASSUME NEW r \in Operands(insn) PROVE r \in Live(m)
  <2>1. r \in DOMAIN x86Regs BY <1>1, OperandsWritten, Sizes
  <2>2. (m + 1) - 1 = m OBVIOUS
  <2>3. (\E k \in 1..m : x86[k].dst = r) /\ LastRead(r) >= m BY <1>1, <2>2 DEF X86Sound
  <2> QED BY <2>1, <2>3 DEF Live
<1>3. insn.dst \notin Live(m)
  <2> SUFFICES ASSUME insn.dst \in Live(m) PROVE FALSE OBVIOUS
  <2>1. PICK k \in 1..Len(x86) : k <= m /\ x86[k].dst = insn.dst BY LiveWritten
  <2>2. insn.dst # 0 BY LiveWritten
  <2>3. k = m + 1 BY <1>1, <2>1, <2>2 DEF X86Sound
  <2> QED BY <2>1, <2>3
<1>4. ASSUME NEW r \in Live(m), LastRead(r) = m PROVE r \in Operands(insn)
  <2>1. r \in 1..Len(x86Regs) BY LiveWritten
  <2> QED BY <1>4, <2>1 DEF X86Sound
<1>5. ASSUME NEW r \in Live(m), LastRead(r) # m PROVE r \in Live(m + 1)
  <2>1. PICK k \in 1..Len(x86) : k <= m /\ x86[k].dst = r BY LiveWritten
  <2>2. k \in 1..(m + 1) BY <2>1
  <2>3. LastRead(r) >= m + 1 BY <1>5, LiveWritten
  <2>4. r \in DOMAIN x86Regs BY DEF Live
  <2> QED BY <2>1, <2>2, <2>3, <2>4 DEF Live
<1>6. ASSUME insn.dst # 0, LastRead(insn.dst) # -1 PROVE insn.dst \in Live(m + 1)
  <2> DEFINE d == insn.dst
             l == LastRead(d)
  <2>1. d \in 1..Len(x86Regs) BY <1>1, <1>6, Sizes DEF X86Sound
  <2>2. l \in 0..(Len(x86) - 1) /\ d \in Operands(x86[l + 1]) BY <1>6, <2>1 DEF X86Sound
  <2>3. l + 1 \in 1..Len(x86) BY <1>1, <2>2
  <2>4. PICK k \in 1..Len(x86) : k < l + 1 /\ x86[k].dst = d BY <2>2, <2>3, OperandsWritten
  <2>5. k = m + 1 BY <1>1, <1>6, <2>4 DEF X86Sound
  <2>6. l >= m + 1
    <3> HIDE DEF l
    <3> QED BY <2>2, <2>4, <2>5
  <2>7. m + 1 \in 1..(m + 1) OBVIOUS
  <2> QED BY <2>1, <2>6, <2>7, Sizes DEF Live
<1>7. ASSUME NEW r \in Live(m + 1), r \notin Live(m) PROVE r = insn.dst /\ r # 0 /\ LastRead(r) # -1
  <2>1. m + 1 \in Nat /\ m + 1 <= Len(x86) BY <1>1
  <2>2. r \in 1..Len(x86Regs) /\ r # 0 /\ LastRead(r) \in Int /\ LastRead(r) >= m + 1 BY <2>1, LiveWritten
  <2>3. PICK k \in 1..Len(x86) : k <= m + 1 /\ x86[k].dst = r BY <2>1, LiveWritten
  <2>4. CASE k = m + 1 BY <2>2, <2>3, <2>4
  <2>5. CASE k # m + 1
    <3>1. k \in 1..m BY <2>3, <2>5
    <3>2. LastRead(r) >= m BY <2>2
    <3> QED BY <1>7, <2>2, <2>3, <3>1, <3>2, Sizes DEF Live
  <2> QED BY <2>4, <2>5
<1>8. ASSUME NEW r \in Live(m + 1) PROVE LastRead(r) # m
  <2>1. m + 1 \in Nat /\ m + 1 <= Len(x86) BY <1>1
  <2> QED BY <2>1, LiveWritten
<1>9. Live(m + 1) = {r \in Live(m) : LastRead(r) # m} \cup {r \in {insn.dst} \ {0} : LastRead(r) # -1}
  <2> HIDE DEF insn
  <2>1. ASSUME NEW r \in Live(m + 1)
        PROVE  r \in {s \in Live(m) : LastRead(s) # m} \cup {s \in {insn.dst} \ {0} : LastRead(s) # -1}
    BY <1>7, <1>8
  <2> QED BY <1>5, <1>6, <2>1
<1> QED BY <1>2, <1>3, <1>4, <1>9

\* Two live registers share no host register.
LEMMA LiveApart ==
  ASSUME Shape, X86Sound, NEW n \in Nat, n <= Len(x86), Placed(n), NEW m \in Nat, m <= n,
         NEW r \in Live(m), NEW s \in Live(m), r # s
  PROVE  Home(r) \cap Home(s) = {}
<1>1. m <= Len(x86) BY Sizes
<1>2. PICK i \in 1..Len(x86) : i <= m /\ x86[i].dst = r BY <1>1, LiveWritten
<1>3. PICK j \in 1..Len(x86) : j <= m /\ x86[j].dst = s BY <1>1, LiveWritten
<1>4. /\ r # 0 /\ LastRead(r) \in Int /\ LastRead(r) >= m
      /\ s # 0 /\ LastRead(s) \in Int /\ LastRead(s) >= m
  BY <1>1, LiveWritten
<1>5. i \in 1..n /\ j \in 1..n /\ i # j BY <1>2, <1>3, Sizes
<1>6. CASE i < j
  <2>1. LastRead(x86[i].dst) >= j - 1 BY <1>2, <1>3, <1>4, <1>5
  <2> QED BY <1>2, <1>3, <1>4, <1>5, <1>6, <2>1 DEF Placed, Apart
<1>7. CASE j < i
  <2>1. LastRead(x86[j].dst) >= i - 1 BY <1>2, <1>3, <1>4, <1>5
  <2> QED BY <1>2, <1>3, <1>4, <1>5, <1>7, <2>1 DEF Placed, Apart
<1> QED BY <1>5, <1>6, <1>7

\* What getFreeReg gives was free.
LEMMA GivenFree ==
  ASSUME Shape, NEW r, Fits(r)
  PROVE  /\ First(Free) \in Free /\ Given(r) \subseteq Free /\ Free \subseteq Host
         /\ Wide(r) => /\ First(FreeForSecond(r)) \in Free
                       /\ LastRead(r) # -1 => First(FreeForSecond(r)) # First(Free)
<1>1. Free \subseteq Host /\ Free \subseteq Nat BY HostType DEF Free
<1>2. First(Free) \in Free BY <1>1, FirstIsFree DEF Fits
<1>3. FreeForSecond(r) \subseteq Free BY DEF FreeForSecond
<1>4. Wide(r) => First(FreeForSecond(r)) \in FreeForSecond(r)
  <2>1. FreeForSecond(r) \subseteq Nat BY <1>1, <1>3
  <2> QED BY <2>1, FirstIsFree DEF Fits
<1>5. Wide(r) /\ LastRead(r) # -1 => First(FreeForSecond(r)) # First(Free)
  <2> SUFFICES ASSUME Wide(r), LastRead(r) # -1 PROVE First(FreeForSecond(r)) # First(Free)
    OBVIOUS
  <2>1. FreeForSecond(r) = Free \ {First(Free)} BY DEF FreeForSecond
  <2>2. First(FreeForSecond(r)) \in FreeForSecond(r) BY <1>4
  <2> QED BY <2>1, <2>2
<1>6. Given(r) \subseteq Free BY <1>2, <1>3, <1>4 DEF Given
<1> QED BY <1>1, <1>2, <1>3, <1>4, <1>5, <1>6

\* A register with one half has one home, one with two has two.
LEMMA HomeIs ==
  ASSUME NEW r
  PROVE  Home(r) = {x86Regs[r].index} \cup IF Wide(r) THEN {x86Regs[r].index2} ELSE {}
<1>1. CASE Wide(r)
  <2>1. Halves(r) = {1, 2} BY <1>1 DEF Halves
  <2>2. Index(r, 1) = x86Regs[r].index /\ Index(r, 2) = x86Regs[r].index2 BY DEF Index
  <2>3. Home(r) = {Index(r, 1), Index(r, 2)} BY <2>1 DEF Home
  <2> QED BY <1>1, <2>2, <2>3
<1>2. CASE ~Wide(r)
  <2>1. Halves(r) = {1} BY <1>2 DEF Halves
  <2>2. Index(r, 1) = x86Regs[r].index BY DEF Index
  <2>3. Home(r) = {Index(r, 1)} BY <2>1 DEF Home
  <2> QED BY <1>2, <2>2, <2>3
<1> QED BY <1>1, <1>2

\* The host registers that are released are the homes of the registers that
\* die; they were taken.
LEMMA ReleasedDies ==
  ASSUME Inv, phase = "registers", next < Len(x86)
  PROVE  /\ Released(x86[next + 1]) = UNION {Home(r) : r \in {o \in Live(next) : LastRead(o) = next}}
         /\ \A h \in Host : h \in Released(x86[next + 1]) => ~freeRegList[h]
<1>1. next \in Nat BY Sizes DEF Inv
<1>2. {o \in Operands(x86[next + 1]) : LastRead(o) = next} = {o \in Live(next) : LastRead(o) = next}
  BY <1>1, LiveStep DEF Inv
<1>3. Released(x86[next + 1]) = UNION {Home(r) : r \in {o \in Live(next) : LastRead(o) = next}}
  BY <1>2 DEF Released
<1>4. \A h \in Host : h \in Released(x86[next + 1]) => ~freeRegList[h]
  BY <1>3 DEF Inv, AllocationSound, Taken
<1> QED BY <1>3, <1>4

\* What was built stays.
LEMMA IrKeeps ==
  ASSUME IrSound, ir' = ir, irRegs' = irRegs, phase' # "build"
  PROVE  IrSound'
BY DEF IrSound

LEMMA X86Keeps ==
  ASSUME X86Sound, x86' = x86, x86Regs' = x86Regs
  PROVE  X86Sound'
<1>1. \A r : LastRead(r)' = LastRead(r) BY DEF LastRead
<1> QED BY <1>1 DEF X86Sound

LEMMA PlacedKeeps ==
  ASSUME x86' = x86, x86Regs' = x86Regs, backend' = backend, Placed(Len(x86))
  PROVE  Placed(Len(x86))'
<1>1. \A r : Home(r)' = Home(r) /\ LastRead(r)' = LastRead(r) /\ Wide(r)' = Wide(r)
  BY DEF Home, Halves, Wide, Index, LastRead
<1>2. \A r : Index(r, 1)' = Index(r, 1) /\ Index(r, 2)' = Index(r, 2) BY DEF Index
<1>3. Host' = Host BY DEF Host
<1>4. Housed(Len(x86))' BY <1>1, <1>3 DEF Placed, Housed
<1>5. Apart(Len(x86))' BY <1>1 DEF Placed, Apart
<1>6. HalvesApart(Len(x86))' BY <1>1, <1>2 DEF Placed, HalvesApart
<1> QED BY <1>4, <1>5, <1>6 DEF Placed

\* An instruction without result.
LEMMA NoResultStep ==
  ASSUME Inv, allocateRegisters, x86[next + 1].dst = 0
  PROVE  Inv'
<1> USE DEF Inv
<1> DEFINE insn == x86[next + 1]
<1>1. /\ phase = "registers" /\ next < Len(x86) /\ next' = next + 1 /\ phase' = phase
      /\ backend' = backend /\ ir' = ir /\ irRegs' = irRegs /\ x86' = x86 /\ todo' = todo
      /\ x86Regs' = x86Regs
      /\ freeRegList' = [h \in Host |-> freeRegList[h] \/ h \in Released(insn)]
  BY DEF allocateRegisters, irVars
<1>2. next \in Nat /\ Len(x86) \in Nat /\ next <= Len(x86) /\ next + 1 <= Len(x86)
  BY <1>1, Sizes
<1>3. Placed(next) /\ Taken
  BY <1>1 DEF AllocationSound
<1>4. Shape'
  BY <1>1, <1>2 DEF Shape, Host
<1>5. IrSound' /\ X86Sound' /\ TodoSound' /\ RunSound'
  <2>1. phase' # "build" /\ phase' # "instructions" /\ phase' # "run" BY <1>1
  <2>2. IrSound' BY <1>1, <2>1, IrKeeps
  <2>3. X86Sound' BY <1>1, X86Keeps
  <2> QED BY <2>1, <2>2, <2>3 DEF TodoSound, RunSound
<1>6. Placed(next + 1)
  <2>1. \A i \in 1..(next + 1) : x86[i].dst # 0 => i \in 1..next BY <1>2
  <2> QED BY <1>3, <2>1 DEF Placed, Housed, Apart, HalvesApart
<1>7. Placed(next)'
  <2>1. \A r : Home(r)' = Home(r) /\ LastRead(r)' = LastRead(r) /\ Wide(r)' = Wide(r)
    BY <1>1 DEF Home, Halves, Wide, Index, LastRead
  <2>2. \A r : Index(r, 1)' = Index(r, 1) /\ Index(r, 2)' = Index(r, 2) BY <1>1 DEF Index
  <2>3. Host' = Host BY <1>1 DEF Host
  <2>4. Housed(next)' BY <1>1, <1>6, <2>1, <2>3 DEF Placed, Housed
  <2>5. Apart(next)' BY <1>1, <1>6, <2>1 DEF Placed, Apart
  <2>6. HalvesApart(next)' BY <1>1, <1>6, <2>1, <2>2 DEF Placed, HalvesApart
  <2> QED BY <2>4, <2>5, <2>6 DEF Placed
<1>8. Live(next)' = {r \in Live(next) : LastRead(r) # next}
  <2>1. Live(next)' = Live(next + 1) BY <1>1 DEF Live, LastRead
  <2>2. {r \in {insn.dst} \ {0} : LastRead(r) # -1} = {} OBVIOUS
  <2> QED BY <1>1, <1>2, <2>1, <2>2, LiveStep
<1>9. \A r \in Live(next)' : Home(r)' = Home(r)
  BY <1>1 DEF Home, Halves, Wide, Index
<1>10. ASSUME NEW h \in Host PROVE ~freeRegList'[h] <=> \E r \in Live(next)' : h \in Home(r)'
  <2>1. ~freeRegList'[h] <=> ~freeRegList[h] /\ h \notin Released(insn) BY <1>1
  <2>2. ~freeRegList[h] <=> \E r \in Live(next) : h \in Home(r) BY <1>3 DEF Taken
  <2>3. h \in Released(insn) <=> \E r \in Live(next) : LastRead(r) = next /\ h \in Home(r)
    BY <1>1, ReleasedDies
  <2>4. \A r, s \in Live(next) : h \in Home(r) /\ h \in Home(s) => r = s
    BY <1>2, <1>3, LiveApart
  <2>5. (\E r \in Live(next)' : h \in Home(r)') <=> \E r \in Live(next) : LastRead(r) # next /\ h \in Home(r)
    BY <1>8, <1>9
  <2> QED BY <2>1, <2>2, <2>3, <2>4, <2>5
<1>11. AllocationSound'
  <2>1. Host' = Host BY <1>1 DEF Host
  <2>2. Taken' BY <1>10, <2>1 DEF Taken
  <2> QED BY <1>1, <1>2, <1>7, <2>2 DEF AllocationSound
<1> QED BY <1>4, <1>5, <1>11

\* An instruction with a result.
LEMMA ResultStep ==
  ASSUME Inv, allocateRegisters, x86[next + 1].dst # 0
  PROVE  Inv'
<1> USE DEF Inv
<1>0. PICK d : d = x86[next + 1].dst OBVIOUS
<1> DEFINE insn == x86[next + 1]
           a == First(Free)
           b == IF x86Regs[d].index2 = -1 THEN -1 ELSE First(FreeForSecond(d))
<1>1. /\ phase = "registers" /\ next < Len(x86) /\ next' = next + 1 /\ phase' = phase
      /\ backend' = backend /\ ir' = ir /\ irRegs' = irRegs /\ x86' = x86 /\ todo' = todo
  BY DEF allocateRegisters, irVars
<1>2. /\ Fits(d)
      /\ x86Regs' = [x86Regs EXCEPT ![d].index = a, ![d].index2 = IF @ = -1 THEN -1 ELSE First(FreeForSecond(d))]
      /\ freeRegList' = [h \in Host |->
                           \/ h \in Released(insn)
                           \/ freeRegList[h] /\ (h \in Given(d) => LastRead(d) = -1)]
  BY <1>0 DEF allocateRegisters
<1>3. /\ next \in Nat /\ Len(x86) \in Nat /\ next <= Len(x86) /\ next + 1 <= Len(x86) /\ next + 1 \in 1..Len(x86)
      /\ Len(x86Regs) \in Nat /\ x86Regs \in [1..Len(x86Regs) -> X86Reg]
  BY <1>1, Sizes, LenProperties DEF Shape
<1>4. d \in 1..Len(x86Regs) /\ d # 0
  <2>1. d \in Nat /\ d # 0 BY <1>0, <1>3, Sizes, Fields
  <2>2. d <= Len(x86Regs) BY <1>0, <1>3 DEF X86Sound
  <2> QED BY <1>3, <2>1, <2>2
<1>5. Placed(next) /\ Taken
  BY <1>1 DEF AllocationSound
<1>6. /\ a \in Free /\ Given(d) \subseteq Free /\ Free \subseteq Host /\ Free \subseteq Nat
      /\ Wide(d) => b \in Free /\ (LastRead(d) # -1 => b # a)
      /\ ~Wide(d) => b = -1
  <2>1. Free \subseteq Nat BY HostType DEF Free
  <2> QED BY <1>2, <2>1, GivenFree DEF Wide
<1>7. a \in Int /\ b \in Int
  <2> HIDE DEF a, b
  <2>1. CASE Wide(d)
    <3>1. a \in Free /\ b \in Free BY <1>6, <2>1
    <3>2. Free \subseteq Nat BY <1>6
    <3>3. a \in Nat /\ b \in Nat BY <3>1, <3>2
    <3> QED BY <3>3
  <2>2. CASE ~Wide(d) BY <1>6, <2>2
  <2> QED BY <2>1, <2>2
<1>8. /\ x86Regs' \in [1..Len(x86Regs) -> X86Reg]
      /\ \A r \in 1..Len(x86Regs) : r # d => x86Regs'[r] = x86Regs[r]
      /\ x86Regs'[d].index = a /\ x86Regs'[d].index2 = b
      /\ x86Regs'[d].lastReadIndex = x86Regs[d].lastReadIndex
  <2> DEFINE new == [x86Regs[d] EXCEPT !.index = a, !.index2 = b]
  <2>1. x86Regs[d] \in X86Reg BY <1>3, <1>4
  <2>2. x86Regs' = [x86Regs EXCEPT ![d] = new]
    <3> HIDE DEF a
    <3> QED BY <1>2, <1>3, <1>4, <2>1 DEF X86Reg
  <2>3. new \in X86Reg /\ new.index = a /\ new.index2 = b /\ new.lastReadIndex = x86Regs[d].lastReadIndex
    <3> HIDE DEF a, b
    <3> QED BY <1>7, <2>1 DEF X86Reg
  <2> HIDE DEF new, a, b
  <2> QED BY <1>3, <1>4, <2>2, <2>3
<1>9. x86Regs' \in Seq(X86Reg) /\ Len(x86Regs') = Len(x86Regs) /\ DOMAIN x86Regs' = 1..Len(x86Regs)
  BY <1>3, <1>8, FunctionIsSeq
<1> HIDE DEF a, b
<1>10. \A r \in 1..Len(x86Regs) : LastRead(r)' = LastRead(r) /\ (Wide(r)' <=> Wide(r))
  <2>1. \A r \in 1..Len(x86Regs) : r # d => LastRead(r)' = LastRead(r) /\ (Wide(r)' <=> Wide(r))
    BY <1>8 DEF LastRead, Wide
  <2>2. LastRead(d)' = LastRead(d) BY <1>8 DEF LastRead
  <2>3. Wide(d)' <=> Wide(d)
    <3>1. b = -1 <=> ~Wide(d) BY <1>6
    <3> QED BY <1>8, <3>1 DEF Wide
  <2> QED BY <2>1, <2>2, <2>3
<1>11. \A r \in 1..Len(x86Regs) : r # d => Home(r)' = Home(r) /\ Index(r, 1)' = Index(r, 1) /\ Index(r, 2)' = Index(r, 2)
  BY <1>8 DEF Home, Halves, Wide, Index
<1>12. Home(d)' = Given(d) /\ (Wide(d) => Index(d, 1)' = a /\ Index(d, 2)' = b)
  <2>1. Home(d)' = {a} \cup IF Wide(d) THEN {b} ELSE {}
    <3>1. Index(d, 1)' = a /\ Index(d, 2)' = b BY <1>8 DEF Index
    <3>2. CASE Wide(d)
      <4>1. Halves(d)' = {1, 2} BY <1>4, <1>10, <3>2 DEF Halves
      <4>2. Home(d)' = {Index(d, 1)', Index(d, 2)'} BY <4>1 DEF Home
      <4> QED BY <3>1, <3>2, <4>2
    <3>3. CASE ~Wide(d)
      <4>1. Halves(d)' = {1} BY <1>4, <1>10, <3>3 DEF Halves
      <4>2. Home(d)' = {Index(d, 1)'} BY <4>1 DEF Home
      <4> QED BY <3>1, <3>3, <4>2
    <3> QED BY <3>2, <3>3
  <2>2. Given(d) = {a} \cup IF Wide(d) THEN {b} ELSE {}
    BY DEF Given, a, b, Wide
  <2>3. Index(d, 1)' = a /\ Index(d, 2)' = b
    BY <1>8 DEF Index
  <2> QED BY <2>1, <2>2, <2>3
<1> HIDE DEF insn
<1>13. Shape'
  BY <1>1, <1>2, <1>3, <1>9 DEF Shape, Host
<1>14. IrSound' /\ TodoSound' /\ RunSound'
  <2>1. phase' # "build" /\ phase' # "instructions" /\ phase' # "run" BY <1>1
  <2>2. IrSound' BY <1>1, <2>1, IrKeeps
  <2> QED BY <2>1, <2>2 DEF TodoSound, RunSound
<1>15. X86Sound'
  <2>1. \A i \in 1..Len(x86') : x86'[i].dst <= Len(x86Regs')
    BY <1>1, <1>9 DEF X86Sound
  <2>2. \A i \in 1..Len(x86') : \A r \in Operands(x86'[i]) :
          (\E k \in 1..(i - 1) : x86'[k].dst = r) /\ LastRead(r)' >= i - 1
    <3> SUFFICES ASSUME NEW i \in 1..Len(x86), NEW r \in Operands(x86[i])
                 PROVE  (\E k \in 1..(i - 1) : x86[k].dst = r) /\ LastRead(r)' >= i - 1
      BY <1>1, ZenonT(60)
    <3>1. LastRead(r)' = LastRead(r) BY <1>10, OperandsWritten
    <3> QED BY <3>1 DEF X86Sound
  <2>3. \A i, j \in 1..Len(x86') : x86'[i].dst = x86'[j].dst /\ x86'[i].dst # 0 => i = j
    BY <1>1 DEF X86Sound
  <2>4. \A r \in 1..Len(x86Regs') :
          LastRead(r)' = -1 \/ (LastRead(r)' \in 0..(Len(x86') - 1) /\ r \in Operands(x86'[LastRead(r)' + 1]))
    BY <1>1, <1>9, <1>10 DEF X86Sound
  <2> QED BY <2>1, <2>2, <2>3, <2>4 DEF X86Sound
<1>16. /\ Operands(insn) \subseteq Live(next) /\ d \notin Live(next)
       /\ Live(next + 1) = {r \in Live(next) : LastRead(r) # next} \cup {r \in {d} : LastRead(r) # -1}
  BY <1>0, <1>1, <1>3, <1>4, LiveStep DEF insn
<1>17. Live(next)' = Live(next + 1)
  <2>1. Live(next)' = {r \in 1..Len(x86Regs) : (\E k \in 1..(next + 1) : x86[k].dst = r) /\ LastRead(r)' >= next + 1}
    BY <1>1, <1>9 DEF Live
  <2>2. Live(next + 1) = {r \in 1..Len(x86Regs) : (\E k \in 1..(next + 1) : x86[k].dst = r) /\ LastRead(r) >= next + 1}
    BY <1>3 DEF Live
  <2> QED BY <1>10, <2>1, <2>2
<1>18. \A r \in Live(next) : r \in 1..Len(x86Regs) /\ r # d
  BY <1>3, <1>16 DEF Live
<1>19. ASSUME NEW h \in Host PROVE ~freeRegList'[h] <=> \E r \in Live(next)' : h \in Home(r)'
  <2>1. ~freeRegList'[h] <=> h \notin Released(insn) /\ (~freeRegList[h] \/ (h \in Given(d) /\ LastRead(d) # -1))
    BY <1>2
  <2>2. ~freeRegList[h] <=> \E r \in Live(next) : h \in Home(r) BY <1>5 DEF Taken
  <2>3. /\ h \in Released(insn) <=> \E r \in Live(next) : LastRead(r) = next /\ h \in Home(r)
        /\ h \in Released(insn) => ~freeRegList[h]
    BY <1>1, ReleasedDies DEF insn
  <2>4. \A r, s \in Live(next) : h \in Home(r) /\ h \in Home(s) => r = s
    BY <1>3, <1>5, LiveApart
  <2>5. h \in Given(d) => freeRegList[h]
    BY <1>6 DEF Free
  <2>6. (\E r \in Live(next)' : h \in Home(r)') <=>
            \/ \E r \in Live(next) : LastRead(r) # next /\ h \in Home(r)
            \/ LastRead(d) # -1 /\ h \in Given(d)
    <3>1. \A r \in Live(next) : Home(r)' = Home(r) BY <1>11, <1>18
    <3>2. Home(d)' = Given(d) BY <1>12
    <3>3. Live(next)' = {r \in Live(next) : LastRead(r) # next} \cup {r \in {d} : LastRead(r) # -1}
      BY <1>16, <1>17
    <3> QED BY <3>1, <3>2, <3>3
  <2> QED BY <2>1, <2>2, <2>3, <2>4, <2>5, <2>6
<1>20. ASSUME NEW i \in 1..(next + 1), x86[i].dst # 0
       PROVE  /\ x86[i].dst \in 1..Len(x86Regs)
              /\ x86[i].dst = d <=> i = next + 1
              /\ i # next + 1 => i \in 1..next
  <2>1. i \in 1..Len(x86) /\ (i # next + 1 => i \in 1..next) BY <1>3
  <2>2. x86[i].dst \in Nat /\ x86[i].dst <= Len(x86Regs) BY <2>1, Sizes, Fields DEF X86Sound
  <2>3. x86[i].dst \in 1..Len(x86Regs) BY <1>3, <1>20, <2>2
  <2>4. x86[i].dst = d => i = next + 1 BY <1>0, <1>3, <1>20, <2>1 DEF X86Sound
  <2> QED BY <1>0, <2>1, <2>3, <2>4
<1>21. Placed(next)'
  <2>1. Housed(next)'
    <3> SUFFICES ASSUME NEW i \in 1..(next + 1), x86[i].dst # 0, NEW r, r = x86[i].dst
                 PROVE  Home(r)' \subseteq Host
      BY <1>1 DEF Housed, Host
    <3>1. CASE i = next + 1 BY <1>6, <1>12, <1>20, <3>1
    <3>2. CASE i # next + 1
      <4>1. r \in 1..Len(x86Regs) /\ r # d /\ i \in 1..next BY <1>20, <3>2
      <4>2. Home(r) \subseteq Host BY <1>5, <4>1 DEF Placed, Housed
      <4> QED BY <1>11, <4>1, <4>2
    <3> QED BY <3>1, <3>2
  <2>2. Apart(next)'
    <3> SUFFICES ASSUME NEW i \in 1..(next + 1), NEW j \in 1..(next + 1), NEW r, NEW s,
                        i < j, r = x86[i].dst, s = x86[j].dst, r # 0, s # 0, LastRead(r)' >= j - 1
                 PROVE  Home(r)' \cap Home(s)' = {}
      <4> DEFINE P(i, j, r, s) ==
                   i < j /\ r = x86[i].dst /\ s = x86[j].dst /\ r # 0 /\ s # 0 /\ LastRead(r)' >= j - 1
                       => Home(r)' \cap Home(s)' = {}
      <4>1. \A i, j \in 1..(next + 1) : \A r, s : P(i, j, r, s) OBVIOUS
      <4>2. \A i, j \in 1..(next + 1) : P(i, j, x86[i].dst, x86[j].dst)
        <5> HIDE DEF P
        <5> QED BY <4>1
      <4> QED BY <1>1, <4>2 DEF Apart
    <3>1. i \in 1..next /\ r \in 1..Len(x86Regs) /\ r # d BY <1>3, <1>20
    <3>2. Home(r)' = Home(r) /\ LastRead(r) >= j - 1 BY <1>10, <1>11, <3>1
    <3>3. CASE j = next + 1
      <4>1. s = d BY <1>20, <3>3
      <4>2. r \in Live(next)
        <5>1. LastRead(r) >= next BY <1>3, <3>2, <3>3
        <5> QED BY <1>3, <3>1, <5>1 DEF Live
      <4>3. \A h \in Host : h \in Home(r) => ~freeRegList[h] BY <1>5, <4>2 DEF Taken
      <4>4. \A h \in Given(d) : h \in Host /\ freeRegList[h] BY <1>6 DEF Free
      <4> QED BY <1>12, <3>2, <4>1, <4>3, <4>4
    <3>4. CASE j # next + 1
      <4>1. s \in 1..Len(x86Regs) /\ s # d /\ j \in 1..next BY <1>20, <3>4
      <4>2. Home(r) \cap Home(s) = {} BY <1>5, <3>1, <3>2, <4>1 DEF Placed, Apart
      <4> QED BY <1>11, <3>2, <4>1, <4>2
    <3> QED BY <3>3, <3>4
  <2>3. HalvesApart(next)'
    <3> SUFFICES ASSUME NEW i \in 1..(next + 1), x86[i].dst # 0, NEW r, r = x86[i].dst,
                        LastRead(r)' # -1, Wide(r)'
                 PROVE  Index(r, 1)' # Index(r, 2)'
      BY <1>1 DEF HalvesApart
    <3>1. LastRead(r) # -1 /\ Wide(r) /\ r \in 1..Len(x86Regs) BY <1>10, <1>20
    <3>2. CASE i = next + 1
      <4>1. r = d BY <1>20, <3>2
      <4> QED BY <1>6, <1>12, <3>1, <4>1
    <3>3. CASE i # next + 1
      <4>1. r # d /\ i \in 1..next BY <1>20, <3>3
      <4> QED BY <1>5, <1>11, <3>1, <4>1 DEF Placed, HalvesApart
    <3> QED BY <3>2, <3>3
  <2> QED BY <2>1, <2>2, <2>3 DEF Placed
<1>22. AllocationSound'
  <2>1. Host' = Host BY <1>1 DEF Host
  <2>2. Taken' BY <1>19, <2>1 DEF Taken
  <2> QED BY <1>1, <1>3, <1>21, <2>2 DEF AllocationSound
<1> QED BY <1>13, <1>14, <1>15, <1>22

LEMMA AllocateRegistersStep ==
  ASSUME Inv, allocateRegisters
  PROVE  Inv'
BY NoResultStep, ResultStep

\* The step to a phase in which nothing is claimed.
LEMMA QuietStep ==
  ASSUME Inv, UNCHANGED <<backend, ir, irRegs, x86, x86Regs, todo, freeRegList>>, next' \in Nat,
         phase' \notin {"build", "instructions", "registers", "run"}
  PROVE  Inv'
<1>1. /\ backend' = backend /\ ir' = ir /\ irRegs' = irRegs /\ x86' = x86 /\ x86Regs' = x86Regs
      /\ todo' = todo /\ freeRegList' = freeRegList
  OBVIOUS
<1>2. Shape'
  BY <1>1 DEF Inv, Shape, Host
<1>3. IrSound'
  BY <1>1, IrKeeps DEF Inv
<1>4. X86Sound'
  BY <1>1, X86Keeps DEF Inv
<1>5. TodoSound' /\ AllocationSound' /\ RunSound'
  BY DEF TodoSound, AllocationSound, RunSound
<1> QED BY <1>2, <1>3, <1>4, <1>5 DEF Inv

-----------------------------------------------------------------------------
(* The code that runs.                                                     *)

LEMMA GenerateCodeStep ==
  ASSUME Inv, generateCode
  PROVE  Inv'
<1> USE DEF Inv
<1>1. /\ phase = "registers" /\ next = Len(x86) /\ phase' = "run" /\ next' = 0
      /\ backend' = backend /\ ir' = ir /\ irRegs' = irRegs /\ x86' = x86 /\ x86Regs' = x86Regs
      /\ todo' = todo /\ freeRegList' = freeRegList
  BY DEF generateCode, irVars, codeVars
<1>2. Shape'
  BY <1>1 DEF Shape, Host
<1>3. IrSound'
  BY <1>1, IrKeeps
<1>4. X86Sound'
  BY <1>1, X86Keeps
<1>5. TodoSound' /\ AllocationSound'
  BY <1>1 DEF TodoSound, AllocationSound
<1>6. Placed(Len(x86))'
  <2>1. Placed(Len(x86)) BY <1>1 DEF AllocationSound
  <2> QED BY <1>1, <2>1, PlacedKeeps
<1>7. Holding'
  <2>1. 1..0 = {} OBVIOUS
  <2>2. Live(0)' = {} BY <2>1 DEF Live
  <2>3. Live(next)' = {} BY <1>1, <2>2
  <2> QED BY <2>3 DEF Holding
<1>8. RunSound'
  BY <1>1, <1>6, <1>7, Sizes DEF RunSound
<1> QED BY <1>2, <1>3, <1>4, <1>5, <1>8

\* What the code of an instruction reads is where it should be.
LEMMA CodeFinds ==
  ASSUME Inv, phase = "run", next < Len(x86)
  PROVE  FindsAll(x86[next + 1])
<1> USE DEF Inv
<1> DEFINE insn == x86[next + 1]
<1>1. /\ next \in Nat /\ Len(x86) \in Nat /\ next + 1 \in 1..Len(x86) /\ insn \in Insn
      /\ Placed(Len(x86)) /\ Holding
  BY Sizes DEF RunSound
<1> SUFFICES ASSUME NEW p \in DOMAIN insn.src, insn.src[p] # 0 PROVE Finds(insn, p)
  BY DEF FindsAll
<1> DEFINE r == insn.src[p]
<1>2. r \in Operands(insn)
  BY DEF Operands
<1>3. r \in Live(next)
  BY <1>1, <1>2, LiveStep
<1>4. \A k \in Halves(r) : host[Index(r, k)] = <<r, k>>
  BY <1>1, <1>3 DEF Holding
<1>5. insn.dst # 0 => Home(r) \cap Home(insn.dst) = {}
  <2> SUFFICES ASSUME insn.dst # 0 PROVE Home(r) \cap Home(insn.dst) = {}
    OBVIOUS
  <2>1. PICK k \in 1..Len(x86) : k <= next /\ x86[k].dst = r
    BY <1>1, <1>3, LiveWritten
  <2>2. LastRead(r) >= next /\ LastRead(r) \in Int /\ r # 0
    BY <1>1, <1>3, LiveWritten
  <2>3. k < next + 1 /\ (next + 1) - 1 = next BY <1>1, <2>1
  <2> HIDE DEF r
  <2> QED BY <1>1, <2>1, <2>2, <2>3 DEF Placed, Apart
<1>6. \A j, k \in 1..5 : gen_call_order[j] = 5 => k <= j
  BY DEF gen_call_order
<1> QED BY <1>4, <1>5, <1>6 DEF Finds

\* Writing the result keeps what is still to be read in place.
LEMMA WrittenHolds ==
  ASSUME Inv, phase = "run", next < Len(x86), phase' = "run", next' = next + 1,
         host' = Written(x86[next + 1], host),
         UNCHANGED <<backend, ir, irRegs, x86, x86Regs, todo, freeRegList>>
  PROVE  Inv'
<1> USE DEF Inv
<1>0. PICK d : d = x86[next + 1].dst OBVIOUS
<1> DEFINE insn == x86[next + 1]
<1>1. /\ backend' = backend /\ ir' = ir /\ irRegs' = irRegs /\ x86' = x86 /\ x86Regs' = x86Regs
      /\ todo' = todo /\ freeRegList' = freeRegList
  OBVIOUS
<1>2. /\ next \in Nat /\ Len(x86) \in Nat /\ next + 1 <= Len(x86) /\ next + 1 \in 1..Len(x86)
      /\ insn \in Insn /\ Placed(Len(x86)) /\ Holding
  BY Sizes DEF RunSound
<1>3. Shape'
  BY <1>1, <1>2 DEF Shape, Host
<1>4. IrSound'
  BY <1>1, IrKeeps
<1>5. X86Sound'
  BY <1>1, X86Keeps
<1>6. TodoSound' /\ AllocationSound'
  BY DEF TodoSound, AllocationSound
<1>7. Placed(Len(x86))'
  BY <1>1, <1>2, PlacedKeeps
<1>8. Live(next)' = Live(next + 1)
  BY <1>1 DEF Live, LastRead
<1>9. \A r : Halves(r)' = Halves(r) /\ \A k \in Halves(r) : Index(r, k)' = Index(r, k)
  BY <1>1 DEF Halves, Wide, Index
<1>10. \A h \in Host : host'[h] = IF d = 0 \/ h \notin Home(d) THEN host[h]
                                 ELSE <<d, IF h = Index(d, 1) THEN 1 ELSE 2>>
  BY <1>0, CodeFinds DEF Written
<1>11. ASSUME NEW r \in Live(next + 1), NEW k \in Halves(r)
       PROVE  host'[Index(r, k)] = <<r, k>>
  <2>1. next + 1 \in Nat BY <1>2
  <2>2. PICK i \in 1..Len(x86) : i <= next + 1 /\ x86[i].dst = r BY <1>2, <2>1, LiveWritten
  <2>3. r # 0 /\ LastRead(r) \in Int /\ LastRead(r) >= next + 1 BY <1>2, <2>1, LiveWritten
  <2>4. Index(r, k) \in Home(r) BY DEF Home
  <2>5. Index(r, k) \in Host BY <1>2, <2>2, <2>3, <2>4 DEF Placed, Housed
  <2>6. CASE i = next + 1
    <3>1. r = d BY <1>0, <2>2, <2>6
    <3>2. k \in {1, 2} BY DEF Halves
    <3>3. CASE k = 1 BY <1>10, <2>3, <2>4, <2>5, <3>1, <3>3
    <3>4. CASE k = 2
      <4>1. Wide(r) BY <3>4 DEF Halves
      <4>2. LastRead(r) # -1 BY <1>2, <2>3
      <4>3. Index(r, 1) # Index(r, 2) BY <1>2, <2>2, <2>3, <4>1, <4>2 DEF Placed, HalvesApart
      <4> QED BY <1>10, <2>3, <2>4, <2>5, <3>1, <3>4, <4>3
    <3> QED BY <3>2, <3>3, <3>4
  <2>7. CASE i # next + 1
    <3>1. i < next + 1 /\ LastRead(r) >= (next + 1) - 1 BY <1>2, <2>2, <2>3, <2>7
    <3>2. d # 0 => Home(r) \cap Home(d) = {} BY <1>0, <1>2, <2>2, <2>3, <3>1 DEF Placed, Apart
    <3>3. host'[Index(r, k)] = host[Index(r, k)] BY <1>10, <2>4, <2>5, <3>2
    <3>4. r \in Live(next)
      <4>1. i \in 1..next /\ LastRead(r) >= next BY <1>2, <2>2, <2>3, <2>7
      <4>2. r \in DOMAIN x86Regs BY DEF Live
      <4> QED BY <2>2, <4>1, <4>2 DEF Live
    <3> QED BY <1>2, <3>3, <3>4 DEF Holding
  <2> QED BY <2>6, <2>7
<1>12. Holding'
  BY <1>8, <1>9, <1>11 DEF Holding
<1>13. RunSound'
  BY <1>1, <1>2, <1>7, <1>12 DEF RunSound
<1> QED BY <1>3, <1>4, <1>5, <1>6, <1>13

LEMMA GenPlainStep ==
  ASSUME Inv, gen_plain
  PROVE  Inv'
BY WrittenHolds DEF gen_plain, irVars, codeVars

\* gen_call saves the registers that the callee may change.
LEMMA GenCallStep ==
  ASSUME Inv, gen_call
  PROVE  Inv'
<1>1. Written(x86[next + 1], AfterCall) = Written(x86[next + 1], host)
  <2>1. \A h \in Host : AfterCall[h] = host[h]
    <3> SUFFICES ASSUME NEW h \in Host PROVE h < backend.Pushed \/ h >= backend.CallerSaved
      BY DEF AfterCall
    <3> QED BY HostType DEF Inv
  <2> QED BY <2>1 DEF Written
<1> QED BY <1>1, WrittenHolds DEF gen_call, irVars, codeVars

LEMMA GenExitStep ==
  ASSUME Inv, gen_exit
  PROVE  Inv'
<1> USE DEF Inv
<1>1. /\ phase = "run" /\ next < Len(x86) /\ host' = host
      /\ backend' = backend /\ ir' = ir /\ irRegs' = irRegs /\ x86' = x86 /\ x86Regs' = x86Regs
      /\ todo' = todo /\ freeRegList' = freeRegList /\ x86[next + 1].type = "exit"
  BY DEF gen_exit, irVars, codeVars
<1>2. CASE phase' = "done" /\ next' = next
  BY <1>1, <1>2, QuietStep, Sizes
<1>3. CASE phase' = phase /\ next' = next + 1
  <2>1. /\ next \in Nat /\ Len(x86) \in Nat /\ next + 1 <= Len(x86) /\ Placed(Len(x86)) /\ Holding
    BY <1>1, Sizes DEF RunSound
  <2>2. Shape' BY <1>1, <1>3, <2>1 DEF Shape, Host
  <2>3. IrSound' BY <1>1, <1>3, IrKeeps
  <2>4. X86Sound' BY <1>1, X86Keeps
  <2>5. TodoSound' /\ AllocationSound' BY <1>1, <1>3 DEF TodoSound, AllocationSound
  <2>6. Placed(Len(x86))' BY <1>1, <2>1, PlacedKeeps
  <2>7. Live(next)' = {r \in Live(next) : LastRead(r) # next}
    <3>1. Live(next)' = Live(next + 1) BY <1>1, <1>3 DEF Live, LastRead
    <3>2. x86[next + 1].dst = 0
      <4>1. next + 1 \in 1..Len(x86) BY <1>1, <2>1
      <4>2. x86[next + 1] \in Insn BY <4>1, Sizes
      <4> QED BY <1>1, <4>2 DEF Insn
    <3>3. {r \in {x86[next + 1].dst} \ {0} : LastRead(r) # -1} = {} BY <3>2
    <3> QED BY <1>1, <2>1, <3>1, <3>3, LiveStep
  <2>8. \A r : Halves(r)' = Halves(r) /\ \A k \in Halves(r) : Index(r, k)' = Index(r, k)
    BY <1>1 DEF Halves, Wide, Index
  <2>9. Holding' BY <1>1, <2>1, <2>7, <2>8 DEF Holding
  <2>10. RunSound' BY <1>1, <1>3, <2>1, <2>6, <2>9 DEF RunSound
  <2> QED BY <2>2, <2>3, <2>4, <2>5, <2>10
<1> QED BY <1>2, <1>3 DEF gen_exit

LEMMA ResetStep ==
  ASSUME Inv, resetJitter
  PROVE  Inv'
<1>1. /\ phase' = "build" /\ ir' = <<>> /\ irRegs' = <<>> /\ x86' = <<>> /\ x86Regs' = <<>> /\ todo' = <<>>
      /\ next' = 0 /\ freeRegList' = [h \in Host |-> TRUE] /\ backend' = backend
  BY DEF resetJitter
<1>2. Shape'
  BY <1>1 DEF Inv, Shape, Host
<1>3. IrSound' /\ X86Sound'
  BY <1>1 DEF IrSound, X86Sound
<1>4. TodoSound' /\ AllocationSound' /\ RunSound'
  BY <1>1 DEF TodoSound, AllocationSound, RunSound
<1> QED BY <1>2, <1>3, <1>4 DEF Inv

LEMMA InitInv == Init => Inv
<1> SUFFICES ASSUME Init PROVE Inv
  OBVIOUS
<1>1. /\ phase = "build" /\ ir = <<>> /\ irRegs = <<>> /\ x86 = <<>> /\ x86Regs = <<>> /\ todo = <<>>
      /\ next = 0 /\ freeRegList = [h \in Host |-> TRUE] /\ backend \in Backends
  BY DEF Init
<1>2. Shape
  BY <1>1 DEF Shape
<1>3. IrSound /\ X86Sound
  BY <1>1 DEF IrSound, X86Sound
<1>4. TodoSound /\ AllocationSound /\ RunSound
  BY <1>1 DEF TodoSound, AllocationSound, RunSound
<1> QED BY <1>2, <1>3, <1>4 DEF Inv

LEMMA NextInv == Inv /\ [Next]_vars => Inv'
<1> SUFFICES ASSUME Inv, [Next]_vars PROVE Inv'
  OBVIOUS
<1>1. CASE Build BY <1>1, BuildStep
<1>2. CASE jit BY <1>2, JitStep
<1>3. CASE allocateInstructions BY <1>3, AllocateInstructionsStep
<1>4. CASE AddX86 BY <1>4, AddX86Step
<1>5. CASE EndInstructions BY <1>5, EndInstructionsStep
<1>6. CASE allocateRegisters BY <1>6, AllocateRegistersStep
<1>7. CASE NoFreeReg
  BY <1>7, QuietStep, Sizes DEF NoFreeReg, irVars, codeVars, Inv
<1>8. CASE generateCode BY <1>8, GenerateCodeStep
<1>9. CASE gen_plain BY <1>9, GenPlainStep
<1>10. CASE gen_call BY <1>10, GenCallStep
<1>11. CASE gen_exit BY <1>11, GenExitStep
<1>12. CASE get_marker
  BY <1>12, QuietStep DEF get_marker, irVars, codeVars
<1>13. CASE findInsnInCode
  <2>1. phase' \in {"found", "find"} /\ next' = next + 1 BY <1>13 DEF findInsnInCode
  <2>2. next' \in Nat BY <2>1, Sizes DEF Inv
  <2>3. UNCHANGED <<backend, ir, irRegs, x86, x86Regs, todo, freeRegList>>
    BY <1>13 DEF findInsnInCode, irVars, codeVars
  <2> QED BY <2>1, <2>2, <2>3, QuietStep
<1>14. CASE resetJitter BY <1>14, ResetStep
<1>15. CASE UNCHANGED vars
  <2>1. /\ phase' = phase /\ ir' = ir /\ irRegs' = irRegs /\ x86' = x86 /\ x86Regs' = x86Regs /\ todo' = todo
        /\ next' = next /\ freeRegList' = freeRegList /\ backend' = backend /\ host' = host
    BY <1>15 DEF vars
  <2>2. Shape' BY <2>1 DEF Inv, Shape, Host
  <2>3. IrSound' BY <2>1 DEF Inv, IrSound
  <2>4. X86Sound' BY <2>1, X86Keeps DEF Inv
  <2>5. TodoSound' BY <2>1 DEF Inv, TodoSound, FromIr, Dropped
  <2>6. \A r : Home(r)' = Home(r) /\ LastRead(r)' = LastRead(r) /\ Wide(r)' = Wide(r) /\ Halves(r)' = Halves(r)
    BY <2>1 DEF Home, Halves, Wide, Index, LastRead
  <2>7. \A r, k : Index(r, k)' = Index(r, k) BY <2>1 DEF Index
  <2>8. Host' = Host BY <2>1 DEF Host
  <2>9. Live(next)' = Live(next) BY <2>1 DEF Live, LastRead
  <2>10. AllocationSound'
    <3>1. Placed(next)' = Placed(next)
      BY <2>1, <2>6, <2>7, <2>8 DEF Placed, Housed, Apart, HalvesApart
    <3>2. Taken' = Taken BY <2>1, <2>6, <2>8, <2>9 DEF Taken
    <3> QED BY <2>1, <3>1, <3>2 DEF Inv, AllocationSound
  <2>11. RunSound'
    <3>1. Holding => Holding' BY <2>1, <2>6, <2>7, <2>9 DEF Holding
    <3> QED BY <2>1, <3>1, PlacedKeeps DEF Inv, RunSound
  <2> QED BY <2>2, <2>3, <2>4, <2>5, <2>10, <2>11 DEF Inv
<1> QED
  BY <1>1, <1>2, <1>3, <1>4, <1>5, <1>6, <1>7, <1>8, <1>9, <1>10, <1>11, <1>12, <1>13, <1>14, <1>15 DEF Next

\* While registers are allocated, a host register is taken exactly when a
\* register that is still to be read is in it (FreeListExact): whatever the
\* block and the number of host registers, getFreeReg gives no register away
\* early and loses none.
THEOREM BackendFreeListExact == Spec => []FreeListExact
<1>1. Inv => FreeListExact
  <2> SUFFICES ASSUME Inv, phase = "registers" PROVE FreeListExact
    BY DEF FreeListExact
  <2> USE DEF Inv
  <2>1. next \in Nat /\ next <= Len(x86) /\ Placed(next) /\ Taken
    BY Sizes DEF AllocationSound
  <2>2. ASSUME NEW r \in Live(next), NEW s \in Live(next), NEW j \in Halves(r), NEW k \in Halves(s),
               Index(r, j) = Index(s, k)
        PROVE  r = s /\ j = k
    <3>1. Index(r, j) \in Home(r) /\ Index(s, k) \in Home(s) BY DEF Home
    <3>2. r = s BY <2>1, <2>2, <3>1, LiveApart
    <3>3. j = k
      <4>1. PICK i \in 1..Len(x86) : i <= next /\ x86[i].dst = r BY <2>1, LiveWritten
      <4>2. r # 0 /\ LastRead(r) # -1 /\ i \in 1..next BY <2>1, <4>1, LiveWritten
      <4>3. Wide(r) => Index(r, 1) # Index(r, 2) BY <2>1, <4>1, <4>2 DEF Placed, HalvesApart
      <4>4. j \in {1, 2} /\ k \in {1, 2} /\ (j = 2 => Wide(r)) /\ (k = 2 => Wide(r)) BY <3>2 DEF Halves
      <4> QED BY <2>2, <3>2, <4>3, <4>4
    <3> QED BY <3>2, <3>3
  <2> QED BY <2>1, <2>2 DEF FreeListExact, Taken
<1> QED BY <1>1, InitInv, NextInv, PTL DEF Spec

\* While the code of a block runs, every operand of the instruction about to
\* run is in the host registers it was given, and the code reads it before it
\* overwrites it (OperandsHold): for every block, both backends and any number
\* of host registers, as long as gen_call saves what the callee may change.
THEOREM BackendOperandsHold == Spec => []OperandsHold
<1>1. Inv => OperandsHold
  BY CodeFinds DEF OperandsHold
<1> QED BY <1>1, InitInv, NextInv, PTL DEF Spec
=============================================================================
