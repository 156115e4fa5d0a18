------------------------------ MODULE Backend ------------------------------
(***************************************************************************)
(* How a backend turns a block into code (be_x86_64.c and be_i386.c in     *)
(* src/src/jitter): allocateInstructions makes the list of backend         *)
(* instructions, allocateRegisters gives every register a host register,   *)
(* generateCode emits the code and execution runs it; findInsnInCode walks *)
(* the code of a block to find a guest instruction.                        *)
(*                                                                         *)
(* The two backends share this structure.  The host registers of the one   *)
(* for x86_64 are r8 to r15; those of the one for i386 are slots in its    *)
(* stack frame, of which a register of 64 bits takes two.                  *)
(*                                                                         *)
(* A value is the register it is the value of: host[h] = <<r, k>> says     *)
(* that host register h holds half k of what the instruction that writes r *)
(* computes.  An instruction that reads anything but its operands computes *)
(* junk.                                                                   *)
(***************************************************************************)
EXTENDS Jitter

CONSTANTS
    Backends,     \* the backends umeq may be built with: [machine, REG_NUMBER,
                  \* CallerSaved, Pushed]; a called function may change the
                  \* first CallerSaved host registers, gen_call saves Pushed
    X86Pool,      \* instructions the pool of a backend has room for
    Size          \* bytes of the code of an instruction, by its type

ASSUME BackendAssumption ==
    /\ \A b \in Backends :
          /\ b.machine \in {"x86_64", "i386"}
          /\ b.REG_NUMBER \in Nat \ {0}
          /\ b.CallerSaved \in Nat /\ b.Pushed \in Nat /\ b.CallerSaved <= b.Pushed
    /\ X86Pool \in Nat
    /\ \A type \in DOMAIN Size : Size[type] \in Nat \ {0}

VARIABLES
    backend,      \* the one in use
    x86,          \* the backend instructions
    x86Regs,      \* the backend registers: [isConstant, lastReadIndex, index,
                  \* index2], where index2 is -1 for one without second half
    todo,         \* instructions that the IR instruction at hand still needs
    next,         \* the index of the loop at hand
    freeRegList,  \* the host registers that are free
    host,         \* the contents of the host registers while the code runs
    result,       \* what the block returned: [value, link]
    pos,          \* bytes walked by findInsnInCode
    offset,       \* the byte it is asked about
    res           \* the guest instruction it reports

codeVars == <<x86, x86Regs, todo>>
findVars == <<pos, offset, res>>
vars == <<backend, phase, ir, irRegs, x86, x86Regs, todo, next, freeRegList, host, result, pos, offset, res>>

I386 == backend.machine = "i386"

Host == 0 .. backend.REG_NUMBER - 1

\* No register's value.
Junk == <<0, 0>>

\* What a register is given when it is created.  The registers of the IR keep
\* their numbers; the temporaries come after them.
NewReg(wide) ==
    [isConstant |-> FALSE, lastReadIndex |-> -1, index |-> 0, index2 |-> IF wide THEN 0 ELSE -1]

Init ==
    /\ backend \in Backends
    /\ phase = "build"
    /\ ir = <<>> /\ irRegs = <<>>
    /\ x86 = <<>> /\ x86Regs = <<>> /\ todo = <<>>
    /\ next = 0
    /\ freeRegList = [h \in Host |-> TRUE]
    /\ host = [h \in Host |-> Junk]
    /\ result = [value |-> 0, link |-> FALSE]
    /\ pos = 0 /\ offset = 0 /\ res = -1

resetJitter ==
    /\ phase \in {"done", "found"}
    /\ phase' = "build"
    /\ ir' = <<>> /\ irRegs' = <<>>
    /\ x86' = <<>> /\ x86Regs' = <<>> /\ todo' = <<>>
    /\ next' = 0
    /\ freeRegList' = [h \in Host |-> TRUE]
    /\ host' = [h \in Host |-> Junk]
    /\ result' = [value |-> 0, link |-> FALSE]
    /\ pos' = 0 /\ offset' = 0 /\ res' = -1
    /\ UNCHANGED backend

Build == BuildIr /\ UNCHANGED <<backend, codeVars, next, freeRegList, host, result, findVars>>

\* jitCode and findInsn start alike.
jit ==
    /\ phase = "build" /\ Closed
    /\ phase' = "instructions"
    /\ x86Regs' = [r \in Regs |-> NewReg(I386 /\ irRegs[r].type = 64)]
    /\ UNCHANGED <<backend, irVars, x86, todo, next, freeRegList, host, result, findVars>>

-----------------------------------------------------------------------------
(* allocateInstructions.                                                   *)

\* An arithmetic shift right of less than a host register is done in all of it,
\* on the operand shifted to the top and back by the constant t1.
Asr(insn, t1, t2, t3) ==
    << [type |-> "mov_const", value |-> 0, src |-> <<>>, dst |-> t1],
       [type |-> "shift", value |-> 0, src |-> <<insn.src[1], t1>>, dst |-> t2],
       [type |-> "shift", value |-> 0, src |-> <<t2, t1>>, dst |-> t3],
       [insn EXCEPT !.src = <<t3, insn.src[2]>>] >>

NarrowAsr(insn) ==
    insn.type = "asr" /\ irRegs[insn.dst].type \notin IF I386 THEN {32, 64} ELSE {64}

\* On i386 the address of a store is cut to 32 bits first.
Store(insn, address32) ==
    << [type |-> "unsigned_cast", value |-> 0, src |-> <<insn.src[2]>>, dst |-> address32],
       [insn EXCEPT !.src = <<insn.src[1], address32>>] >>

WideStore(insn) == insn.type = "store" /\ I386 /\ irRegs[insn.src[2]].type = 64

\* A context read into a register that nothing reads is dropped.
Dropped(insn) == insn.type = "read" /\ irRegs[insn.dst].lastReadIndex = -1

\* n temporaries more.
Temporaries(n) ==
    [r \in 1 .. Len(x86Regs) + n |-> IF r <= Len(x86Regs) THEN x86Regs[r] ELSE NewReg(FALSE)]

allocateInstructions ==
    /\ phase = "instructions" /\ todo = <<>> /\ next < Len(ir)
    /\ LET insn == ir[next + 1]
           n == Len(x86Regs)
       IN \/ /\ NarrowAsr(insn)
             /\ x86Regs' = Temporaries(3)
             /\ todo' = Asr(insn, n + 1, n + 2, n + 3)
          \/ /\ WideStore(insn)
             /\ x86Regs' = Temporaries(1)
             /\ todo' = Store(insn, n + 1)
          \/ /\ ~NarrowAsr(insn) /\ ~WideStore(insn)
             /\ x86Regs' = x86Regs
             /\ todo' = IF Dropped(insn) THEN <<>> ELSE <<insn>>
    /\ next' = next + 1
    /\ UNCHANGED <<backend, phase, irVars, x86, freeRegList, host, result, findVars>>

\* The add_ functions of the backend: an exit from which another block may be
\* entered directly, is_patchable, is one whose value is a constant.  As in the
\* jitter, the assertion of the pool ends the process when a block does not fit.
AddX86 ==
    /\ phase = "instructions" /\ todo # <<>>
    /\ Len(x86) < X86Pool
    /\ LET insn == Head(todo)
       IN /\ x86' = Append(x86, IF insn.type = "exit" /\ x86Regs[insn.src[1]].isConstant
                                THEN [insn EXCEPT !.value = 1] ELSE insn)
          /\ x86Regs' = [r \in DOMAIN x86Regs |->
                           [x86Regs[r] EXCEPT
                              !.isConstant = @ \/ (insn.type = "mov_const" /\ insn.dst = r),
                              !.lastReadIndex = IF r \in Operands(insn) THEN Len(x86) ELSE @]]
    /\ todo' = Tail(todo)
    /\ UNCHANGED <<backend, phase, irVars, next, freeRegList, host, result, findVars>>

EndInstructions ==
    /\ phase = "instructions" /\ todo = <<>> /\ next = Len(ir)
    /\ phase' = "registers"
    /\ next' = 0
    /\ freeRegList' = [h \in Host |-> TRUE]
    /\ UNCHANGED <<backend, irVars, codeVars, host, result, findVars>>

-----------------------------------------------------------------------------
(* allocateRegisters.                                                      *)

Free == {h \in Host : freeRegList[h]}

\* getFreeRegRaw takes the first one.
First(free) == CHOOSE h \in free : \A g \in free : h <= g

LastRead(r) == x86Regs[r].lastReadIndex

Wide(r) == x86Regs[r].index2 # -1

Halves(r) == IF Wide(r) THEN {1, 2} ELSE {1}

Index(r, k) == IF k = 1 THEN x86Regs[r].index ELSE x86Regs[r].index2

\* The host registers of a register.
Home(r) == {Index(r, k) : k \in Halves(r)}

\* For the mutation of Released: only the first operand is released.
ReleasedFirst(insn) ==
    UNION {Home(r) : r \in {o \in Operands(insn) : LastRead(o) = next /\ o = insn.src[1]}}

\* The host registers of the operands that instruction next is the last to read.
Released(insn) == UNION {Home(r) : r \in {o \in Operands(insn) : LastRead(o) = next}}

\* getFreeReg gives a register that is never read its host register back at
\* once, so that its halves may share one.
FreeForSecond(r) == IF LastRead(r) = -1 THEN Free ELSE Free \ {First(Free)}

Fits(r) == Free # {} /\ (Wide(r) => FreeForSecond(r) # {})

Given(r) == {First(Free)} \cup IF Wide(r) THEN {First(FreeForSecond(r))} ELSE {}

\* The result gets its host registers before those of the operands are
\* released.
allocateRegisters ==
    /\ phase = "registers" /\ next < Len(x86)
    /\ LET insn == x86[next + 1]
       IN \/ /\ insn.dst = 0
             /\ x86Regs' = x86Regs
             /\ freeRegList' = [h \in Host |-> freeRegList[h] \/ h \in Released(insn)]
          \/ /\ insn.dst # 0 /\ Fits(insn.dst)
             /\ x86Regs' = [x86Regs EXCEPT
                              ![insn.dst].index = First(Free),
                              ![insn.dst].index2 = IF @ = -1 THEN -1 ELSE First(FreeForSecond(insn.dst))]
             /\ freeRegList' = [h \in Host |->
                                  \/ h \in Released(insn)
                                  \/ freeRegList[h] /\ (h \in Given(insn.dst) => LastRead(insn.dst) = -1)]
    /\ next' = next + 1
    /\ UNCHANGED <<backend, phase, irVars, x86, todo, host, result, findVars>>

\* The assertion of getFreeRegRaw.
NoFreeReg ==
    /\ phase = "registers" /\ next < Len(x86)
    /\ x86[next + 1].dst # 0 /\ ~Fits(x86[next + 1].dst)
    /\ phase' = "aborted"
    /\ UNCHANGED <<backend, irVars, codeVars, next, freeRegList, host, result, findVars>>

-----------------------------------------------------------------------------
(* generateCode, and the execution of what it generates.                   *)

\* A block with markers is only walked, by get_marker: generateCode knows none.
generateCode ==
    /\ phase = "registers" /\ next = Len(x86) /\ ~Marked
    /\ phase' = "run"
    /\ next' = 0
    /\ UNCHANGED <<backend, irVars, codeVars, freeRegList, host, result, findVars>>

\* The operands, by position, that the code of an instruction reads after it
\* has written in its result.  On x86_64: the second one of an arithmetic
\* operation, which starts by moving the first; both of a comparison, which
\* starts by setting the result; all but the false operand of an ite; that of a
\* masking cast.  On i386 the second halves of an arithmetic operation and of
\* an ite are read after the first half of the result is written.
gen_late(insn) ==
    CASE insn.type = "alu" -> IF ~I386 THEN {2} ELSE IF Wide(insn.dst) THEN {1, 2} ELSE {}
      [] insn.type = "cmp" -> {1, 2}
      [] insn.type = "ite" -> IF I386 /\ Wide(insn.dst) THEN {1, 2, 3} ELSE {1, 2}
      [] insn.type = "unsigned_cast" -> IF I386 THEN {} ELSE {1}
      [] OTHER -> {}

\* The order in which gen_call moves its operands to where the callee expects
\* them: on x86_64 the last of the four parameters goes to r8, host register 0,
\* itself; on i386 they are pushed on the stack.
gen_call_order == <<1, 4, 3, 2, 5>>

\* The code of the instruction finds the operand at position p: it is in its
\* host registers, and the instruction itself has not overwritten it.
Finds(insn, p) ==
    /\ \A k \in Halves(insn.src[p]) : host[Index(insn.src[p], k)] = <<insn.src[p], k>>
    /\ insn.dst # 0 /\ p \in gen_late(insn) => Home(insn.src[p]) \cap Home(insn.dst) = {}
    /\ ~I386 /\ insn.type = "call" /\ insn.src[5] # 0 /\ 0 \in Home(insn.src[p]) =>
          \A j, k \in 1..5 : gen_call_order[j] = 5 /\ gen_call_order[k] = p => k <= j

FindsAll(insn) == \A p \in DOMAIN insn.src : insn.src[p] # 0 => Finds(insn, p)

\* The host registers after the instruction has written its result in before.
Written(insn, before) ==
    [h \in Host |->
       IF insn.dst = 0 \/ h \notin Home(insn.dst) THEN before[h]
       ELSE IF FindsAll(insn) THEN <<insn.dst, IF h = Index(insn.dst, 1) THEN 1 ELSE 2>>
       ELSE Junk]

\* The instructions that only write their result, if any.
gen_plain ==
    /\ phase = "run" /\ next < Len(x86)
    /\ x86[next + 1].type \notin {"call", "exit"}
    /\ host' = Written(x86[next + 1], host)
    /\ next' = next + 1
    /\ UNCHANGED <<backend, phase, irVars, codeVars, freeRegList, result, findVars>>

\* For the mutation of AfterCall: gen_call pushes nothing.
AfterCallUnsaved == [h \in Host |-> IF h >= backend.CallerSaved THEN host[h] ELSE Junk]

\* The registers that gen_call pushes come back; of the others the callee
\* keeps those the calling convention says.
AfterCall ==
    [h \in Host |-> IF h < backend.Pushed \/ h >= backend.CallerSaved THEN host[h] ELSE Junk]

gen_call ==
    /\ phase = "run" /\ next < Len(x86)
    /\ x86[next + 1].type = "call"
    /\ host' = Written(x86[next + 1], AfterCall)
    /\ next' = next + 1
    /\ UNCHANGED <<backend, phase, irVars, codeVars, freeRegList, result, findVars>>

\* An exit that is not taken falls through.  On i386 the link area is 0.
gen_exit ==
    /\ phase = "run" /\ next < Len(x86)
    /\ x86[next + 1].type = "exit"
    /\ LET insn == x86[next + 1]
       IN \/ /\ phase' = "done"
             /\ result' = [value |-> host[Index(insn.src[1], 1)][1], link |-> insn.value = 1 /\ ~I386]
             /\ next' = next
          \/ /\ insn.src[2] # 0
             /\ next' = next + 1
             /\ UNCHANGED <<phase, result>>
    /\ UNCHANGED <<backend, irVars, codeVars, freeRegList, host, findVars>>

-----------------------------------------------------------------------------
(* findInsnInCode.                                                         *)

SizeOf(insn) == IF insn.type = "marker" THEN 0 ELSE Size[insn.type]

\* Bytes of code before backend instruction k, counted from 0.
CodeStart[k \in 0..Len(x86)] == IF k = 0 THEN 0 ELSE CodeStart[k - 1] + SizeOf(x86[k])

get_marker ==
    /\ phase = "registers" /\ next = Len(x86) /\ Marked
    /\ phase' = "find"
    /\ next' = 0
    /\ \E o \in 0 .. CodeStart[Len(x86)] - 1 : offset' = o
    /\ UNCHANGED <<backend, irVars, codeVars, freeRegList, host, result, pos, res>>

findInsnInCode ==
    /\ phase = "find" /\ next < Len(x86)
    /\ LET insn == x86[next + 1]
       IN /\ res' = IF insn.type = "marker" THEN insn.value ELSE res
          /\ pos' = pos + SizeOf(insn)
    /\ phase' = IF pos' >= offset \/ next + 1 = Len(x86) THEN "found" ELSE "find"
    /\ next' = next + 1
    /\ UNCHANGED <<backend, irVars, codeVars, freeRegList, host, result, offset>>

-----------------------------------------------------------------------------
Next ==
    \/ Build \/ jit \/ allocateInstructions \/ AddX86 \/ EndInstructions
    \/ allocateRegisters \/ NoFreeReg \/ generateCode \/ gen_plain \/ gen_call \/ gen_exit
    \/ get_marker \/ findInsnInCode \/ resetJitter

Spec == Init /\ [][Next]_vars

-----------------------------------------------------------------------------
(* Correctness.                                                            *)

\* While the code of a block runs, every operand of the instruction about to
\* run is in the host register that allocateRegisters gave it, and the code
\* reads none after overwriting it: no instruction between the one that
\* computed it and this one has taken its register.
OperandsHold ==
    phase = "run" /\ next < Len(x86) => FindsAll(x86[next + 1])

\* Registers written before instruction i and read at i or later.
Live(i) == {r \in DOMAIN x86Regs : (\E k \in 1..i : x86[k].dst = r) /\ LastRead(r) >= i}

\* While registers are allocated, a host register is taken exactly when it is
\* in the home of one register that is still to be read: none is lost, so the
\* allocation fails only when as many values are alive as there are registers,
\* and none is given away early.
FreeListExact ==
    phase = "registers" =>
        /\ \A h \in Host : ~freeRegList[h] <=> \E r \in Live(next) : h \in Home(r)
        /\ \A r, s \in Live(next) : \A j \in Halves(r), k \in Halves(s) :
              Index(r, j) = Index(s, k) => r = s /\ j = k

\* The marker in force at the byte b of the code.
MarkerAt(b) ==
    LET k == CHOOSE k \in DOMAIN x86 : CodeStart[k - 1] <= b /\ b < CodeStart[k]
        m == CHOOSE m \in 1..k : x86[m].type = "marker" /\ \A j \in (m + 1)..k : x86[j].type # "marker"
    IN x86[m].value

\* findInsn finds the guest instruction "that is associated with byte located
\* at buffer + offset" (jitter.h 160).  findInsnInCode stops once the code of
\* an instruction reaches the byte, also when it ends right before it, and so
\* reports the instruction of the byte before.
FindsInsn == phase = "found" => res = MarkerAt(offset)

=============================================================================
