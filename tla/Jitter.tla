------------------------------- MODULE Jitter -------------------------------
(***************************************************************************)
(* The intermediate representation of a block and how it is built          *)
(* (src/src/jitter/jitter.c).  The disassemblers call one add_ function    *)
(* per instruction; each appends an instruction to a pool and, when the    *)
(* instruction has a result, takes a fresh register from another pool, so  *)
(* a register is written by one instruction only.  A register remembers    *)
(* the last instruction that reads it.                                     *)
(*                                                                         *)
(* An instruction is [type, value, dst, src]: dst is the register written, *)
(* 0 for none; src are the registers read, 0 for an absent parameter or    *)
(* predicate; value is the number of a marker.  The types tell apart what  *)
(* the backend treats differently; what the instructions compute is the    *)
(* subject of module CodeGen.                                              *)
(***************************************************************************)
EXTENDS Integers, Sequences, FiniteSets

CONSTANTS
    Types,       \* the register types in use, some of 8, 16, 32 and 64
    ParamSlots,  \* the sets of parameters, out of 1..4, that calls pass
    RegPool,     \* registers that the pool of a jitter has room for
    InsnPool     \* instructions that the pool of a jitter has room for

ASSUME JitterAssumption ==
    /\ Types \subseteq {8, 16, 32, 64} /\ {8, 64} \subseteq Types
    /\ ParamSlots \subseteq SUBSET (1..4)
    /\ RegPool \in Nat /\ InsnPool \in Nat

VARIABLES
    phase,   \* what is done with the block
    ir,      \* the instructions, in program order
    irRegs   \* the registers: [type, lastReadIndex]

irVars == <<ir, irRegs>>

\* No result.
NoType == 0

Operands(insn) == {insn.src[p] : p \in DOMAIN insn.src} \ {0}

Regs == DOMAIN irRegs

OfType(t) == {r \in Regs : irRegs[r].type = t}

\* The bookkeeping every add_ function does.  t is the type of the result.
\* The assertions of the pools end the process when a block does not fit, its
\* last exit included.
Add(type, value, src, t) ==
    /\ phase = "build"
    /\ Len(ir) < IF type = "exit" THEN InsnPool ELSE InsnPool - 1
    /\ t # NoType => Len(irRegs) < RegPool
    /\ ir' = Append(ir, [type |-> type, value |-> value, src |-> src,
                         dst |-> IF t = NoType THEN 0 ELSE Len(irRegs) + 1])
    /\ LET read == [r \in Regs |->
                       [type |-> irRegs[r].type,
                        lastReadIndex |-> IF \E p \in DOMAIN src : src[p] = r
                                          THEN Len(ir) ELSE irRegs[r].lastReadIndex]]
       IN irRegs' = IF t = NoType THEN read ELSE Append(read, [type |-> t, lastReadIndex |-> -1])
    /\ phase' = phase

add_mov_const == \E t \in Types : Add("mov_const", 0, <<>>, t)

add_load == \E t \in Types, address \in Regs : Add("load", 0, <<address>>, t)

add_store == \E t \in Types, address \in Regs : \E src \in OfType(t) :
    Add("store", 0, <<src, address>>, NoType)

\* add, sub, xor, and, or: both operands have the width of the operation.
add_alu == \E t \in Types : \E op1, op2 \in OfType(t) : Add("alu", 0, <<op1, op2>>, t)

\* shl, shr, ror and asr: the amount is an 8 bit register.
add_shift == \E t \in Types : \E op1 \in OfType(t), op2 \in OfType(8) :
    Add("shift", 0, <<op1, op2>>, t)

add_asr == \E t \in Types : \E op1 \in OfType(t), op2 \in OfType(8) :
    Add("asr", 0, <<op1, op2>>, t)

add_cmp == \E t \in Types : \E op1, op2 \in OfType(t) : Add("cmp", 0, <<op1, op2>>, t)

\* The registers read are an address and four optional parameters.
add_call == \E t \in Types \cup {NoType}, address \in Regs, slots \in ParamSlots :
    \E param \in [slots -> Regs] :
        Add("call", 0, <<address>> \o [p \in 1..4 |-> IF p \in slots THEN param[p] ELSE 0], t)

add_ite == \E t \in Types : \E pred, trueOp, falseOp \in OfType(t) :
    Add("ite", 0, <<pred, trueOp, falseOp>>, t)

\* The casts to a wider type keep or spread the sign; nothing checks the type
\* of the operand.
add_cast == \E t \in Types, op \in Regs, type \in {"unsigned_cast", "signed_cast"} :
    Add(type, 0, <<op>>, t)

add_exit_cond == \E exitValue \in OfType(64), pred \in Regs : Add("exit", 0, <<exitValue, pred>>, NoType)

add_exit == \E exitValue \in OfType(64) : Add("exit", 0, <<exitValue, 0>>, NoType)

add_read_context == \E t \in Types : Add("read", 0, <<>>, t)

add_write_context == \E t \in Types, src \in Regs : Add("write", 0, <<src>>, NoType)

\* Disassembly with markers puts one before the code of every guest
\* instruction, the first included, and numbers them in order.
Marked == ir # <<>> /\ ir[1].type = "marker"

add_insn_marker ==
    /\ ir = <<>> \/ Marked
    /\ Add("marker", Cardinality({k \in DOMAIN ir : ir[k].type = "marker"}), <<>>, NoType)

\* The disassemblers end every block by an unconditional exit.
Closed == ir # <<>> /\ ir[Len(ir)].type = "exit" /\ ir[Len(ir)].src[2] = 0

BuildIr ==
    \/ add_mov_const \/ add_load \/ add_store \/ add_alu \/ add_shift \/ add_asr
    \/ add_cmp \/ add_call \/ add_ite \/ add_cast \/ add_exit_cond \/ add_exit
    \/ add_read_context \/ add_write_context \/ add_insn_marker

=============================================================================
