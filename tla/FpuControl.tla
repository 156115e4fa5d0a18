------------------------------ MODULE FpuControl ------------------------------
(* The floating point control and status of a thread of the arm64 guest:     *)
(* what the guest writes to FPCR and FPSR, where the flags of its            *)
(* instructions are kept, and what signal handlers inherit.  An instruction  *)
(* runs on the host processor when fast_math_is_allow is set and its         *)
(* operands are finite, and then its flags are in the host's register.       *)
EXTENDS Arm64Fpu, Sequences

CONSTANTS Insns,         \* the instructions that are tried: operation and operands
          Controls,      \* the values written to FPCR
          MaxDepth       \* bound on nested handlers

VARIABLES contexts,      \* the thread and its handlers, the running one last
          right          \* history: the last instruction gave what it should
vars == <<contexts, right>>

(* A context: regs, exc and qc as in the code; host, the flags of the host *)
(* processor; control and owed, what the guest wrote and what its          *)
(* instructions have raised, are history.                                  *)
Default == [dn |-> FALSE, fz |-> FALSE, rmode |-> 0, others |-> {}]
Top == contexts[Len(contexts)]
Update(c) == contexts' = [contexts EXCEPT ![Len(contexts)] = c]

init_main(entry) ==
  [regs |-> arm64_hlp_write_fpcr(entry), exc |-> {}, host |-> {}, qc |-> {},
   control |-> entry, owed |-> {}]
Init == contexts = <<init_main(Default)>> /\ right = TRUE

(* ---------------------------------------------------------------------- *)
(* The system registers                                                   *)

WriteFpcr(value) ==
  /\ Update([Top EXCEPT !.regs = arm64_hlp_write_fpcr(value), !.control = value])
  /\ right' = TRUE
WriteFpsr(value) ==
  LET w == arm64_hlp_write_fpsr(value)
  IN  /\ Update([Top EXCEPT !.exc = w.exc, !.host = w.host, !.qc = w.qc, !.owed = value])
      /\ right' = TRUE

(* ---------------------------------------------------------------------- *)
(* Instructions                                                            *)

Outcome(op, a, b, regs) ==
  CASE op = "fadd" -> fadd32(a, b, regs)
    [] op = "fsub" -> fsub32(a, b, regs)
    [] op = "fmul" -> fmul32(a, b, regs)
    [] op = "fdiv" -> fdiv32(a, b, regs)
    [] op = "frintn" -> dis_frintn([is_double |-> FALSE], a, regs)
    [] op = "frintx" -> dis_frintx([is_double |-> FALSE], a, regs)
    [] op = "fcvt" -> dis_fcvt([type |-> 0, opc |-> 3], a, regs)
    [] op = "fcvtzs" -> fcvtzs32_fixed_32(a, 0, regs)
OnHost(op, a, b, regs) == op \in {"fadd", "fsub", "fmul"} /\ Fast32(a, b, regs)
(* The instruction as the code runs it, and, in soft float, what the       *)
(* architecture asks of it.                                                *)
Execute(op, a, b) ==
  LET asked == [arm64_hlp_write_fpcr(Top.control) EXCEPT !.fast = FALSE]
      outcome == [regs \in {Top.regs, asked} |-> Outcome(op, a, b, regs)]
      r == outcome[Top.regs]
      e == outcome[asked]
      host == OnHost(op, a, b, Top.regs)
  IN  /\ Update([Top EXCEPT !.exc = IF host THEN @ ELSE @ \cup r.fl, !.host = IF host THEN @ \cup r.fl ELSE @,
                            !.owed = @ \cup softfloat_to_arm64_fpsr(e.fl, {})])
      /\ right' = (r.z = e.z)

(* ---------------------------------------------------------------------- *)
(* A handler starts with the status of the context it interrupts, without  *)
(* the fast path, and with the cleared flags that the host kernel gives    *)
(* it; on its return the kernel restores those of the interrupted context. *)

init_handler(prev) ==
  [prev EXCEPT !.regs.fast = FALSE, !.host = {}, !.owed = arm64_hlp_read_fpsr(prev.exc, {}, prev.qc)]
Deliver == /\ Len(contexts) < MaxDepth
           /\ contexts' = Append(contexts, init_handler(Top))
           /\ right' = TRUE
Return == /\ Len(contexts) > 1
          /\ contexts' = SubSeq(contexts, 1, Len(contexts) - 1)
          /\ right' = TRUE

Next == \/ \E value \in Controls : WriteFpcr(value)
        \/ \E value \in {{}, {"QC", "DZC"}} : WriteFpsr(value)
        \/ \E insn \in Insns : Execute(insn[1], insn[2], insn[3])
        \/ Deliver
        \/ Return
Spec == Init /\ [][Next]_vars

TypeOK == Len(contexts) \in 1..MaxDepth

(* ---------------------------------------------------------------------- *)

(* An instruction computes what the control register the guest last wrote  *)
(* asks for, on whichever processor and at whatever depth of handlers it   *)
(* runs, and the guest reads back the control it wrote                     *)
(* (arm64_hlp_write_fpcr, fast_math_is_allow, arm64_hlp_read_fpcr).        *)
ResultsFollowControl ==
  /\ right
  /\ \A i \in DOMAIN contexts : arm64_hlp_read_fpcr(contexts[i].regs) = contexts[i].control

(* The status register holds the flags that were last written and those    *)
(* that instructions have raised since, none lost and none invented,       *)
(* although they are in two places, roundings to integer take one back and *)
(* handlers come and go; only an underflow that the host does not report   *)
(* may be missing (arm64_hlp_read_fpsr, arm64_hlp_write_fpsr, dis_frint).  *)
FlagsAreCumulative ==
  \A i \in DOMAIN contexts :
    LET c == contexts[i]
        read == arm64_hlp_read_fpsr(c.exc, c.host, c.qc)
    IN  /\ read \subseteq c.owed
        /\ c.owed \ read \subseteq {"UFC"}
        /\ c.host = {} => read = c.owed

(* Both: the emulated control and status registers behave as one unit.     *)
ControlAndStatus == ResultsFollowControl /\ FlagsAreCumulative
===============================================================================
