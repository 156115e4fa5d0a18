----------------------------- MODULE MCSoftFloat -----------------------------
EXTENDS SoftFloatLaws
MCSingle == [E |-> 4, F |-> 3, G |-> 3]
MCDouble == [E |-> 5, F |-> 6, G |-> 4]
MCHalf == [E |-> 3, F |-> 1, G |-> 0]
(* Both zeroes, the extreme subnormals and normals, one and its            *)
(* neighbours, both infinities, a signalling and two quiet NaNs.           *)
MCOperands == {0, 128, 1, 7, 129, 8, 15, 55, 56, 57, 184, 77, 112, 119, 247, 120, 248, 121, 124, 127}
MCPartners == {0, 129, 57, 184, 119, 120, 121}

(* The control and status of a thread, beside the operands of the laws.    *)
CONSTANTS Insns, Controls, MaxDepth
VARIABLES contexts, right
Control == INSTANCE FpuControl

MCDefault == [dn |-> FALSE, fz |-> FALSE, rmode |-> 0, others |-> {}]
MCControls == {MCDefault, [MCDefault EXCEPT !.rmode = 1, !.others = {"AHP"}],
               [MCDefault EXCEPT !.fz = TRUE], [MCDefault EXCEPT !.dn = TRUE]}
(* Inexact, a result that rounding makes normal, a division by zero, a     *)
(* NaN, a subnormal operand, roundings to integers and a half.             *)
MCInsns == {<<"fadd", 57, 118>>, <<"fmul", 15, 55>>, <<"fdiv", 57, 0>>, <<"fadd", 125, 57>>, <<"fsub", 57, 3>>,
            <<"frintn", 61, 0>>, <<"frintx", 61, 0>>, <<"fcvtzs", 57, 0>>, <<"fcvt", 120, 0>>}

(* The two do not depend on each other: one moves while the other is where *)
(* it started.                                                             *)
MCInit == Init /\ Control!Init
MCLaws == Next /\ Control!Init /\ UNCHANGED <<contexts, right>>
MCControl == Control!Next /\ Init /\ UNCHANGED vars
MCSpec == MCInit /\ [][MCLaws \/ MCControl]_<<vars, contexts, right>>

(* An instruction computes what the control register the guest last wrote  *)
(* asks for, on whichever processor and at whatever depth of handlers it   *)
(* runs, and the status register holds the flags last written and those    *)
(* raised since, none lost and none invented (arm64_hlp_write_fpcr,        *)
(* arm64_hlp_read_fpsr, arm64_hlp_write_fpsr, dis_frint).                  *)
ControlAndStatus == Control!ControlAndStatus
==============================================================================
