------------------------------- MODULE Signals -------------------------------
(***************************************************************************)
(* Signals of one guest thread (target/arm64/arm64.c, arm64_signal.c, the  *)
(* nested loop of main.c and its cache without storage).                   *)
(*                                                                         *)
(* A host signal runs a new loop with a context of its own, on top of the  *)
(* interrupted one.  ctx is the stack of contexts, ctx[1] the one of the   *)
(* thread.  A context is in translated code ("jit"), inside a helper       *)
(* ("helper"), at an exit that has written regs.pc but not yet left        *)
(* ("exit"), or in loop_common ("umeq").  An svc writes regs.pc before it  *)
(* calls its helper: "svc" is after that write, "syscall" inside the       *)
(* helper, "sigaction" in the middle of one system call and "served" after *)
(* the helper; "brk", "trap" and "trapped" are the same of a brk.  A       *)
(* handler's context is "init" before the thread's tls points to it, and   *)
(* "leaving" once it does not any more: a signal in those two moments      *)
(* finds the context below.                                                *)
(*                                                                         *)
(* Guest code is abstract: block s is the instructions s, s+1, ... and any *)
(* of them may branch anywhere.  Stack addresses are small numbers, and a  *)
(* signal frame takes one.                                                 *)
(***************************************************************************)
EXTENDS Integers, Sequences, FiniteSets

CONSTANTS
    LastPc,       \* guest instructions are 1..LastPc
    MaxInsn,      \* instructions of a block at most (main.c: max_insn)
    Sigs,         \* signal numbers
    NoSig,        \* not a signal number
    Actions,      \* what sigaction may be given: [handler, onstack]
    FirstActs,    \* the actions installed at the start
    HandlerPcs,   \* where code of a handler branches or jumps to, or writes in its frame
    MainSp,       \* stack pointer of the thread
    AltStacks,    \* alternate stacks [sp, size] the guest may set
    Garbage,      \* values helper_pc may have in a context nobody initialised
    MaxDepth,     \* contexts at most
    MaxSignals,   \* signals in a behaviour at most
    CallSigs,     \* signals the guest calls sigaction for
    CallDepth,    \* contexts that call sigaction and sigaltstack, or meet a brk
    HostSps,      \* host stack pointers that execute may save
    Depths,       \* how far below it a signal may arrive
    SpWidth       \* 2^16 in the code: what "mov -8(%rdi), %sp" replaces

ASSUME SignalsAssumption ==
    /\ LastPc \in Nat \ {0} /\ MaxInsn \in Nat \ {0}
    /\ Actions \subseteq [handler : 0..LastPc, onstack : BOOLEAN]
    /\ FirstActs \in [Sigs -> Actions] /\ CallSigs \subseteq Sigs
    /\ MainSp \in Nat /\ SpWidth \in Nat \ {0}
    /\ AltStacks \subseteq [sp : Nat, size : Nat]
    /\ NoSig \notin Sigs /\ MaxDepth \in Nat \ {0} /\ MaxSignals \in Nat
    /\ Garbage \subseteq 0..LastPc
    /\ HostSps \subseteq Nat /\ Depths \subseteq Nat

VARIABLES
    ctx,          \* stack of contexts
    frames,       \* signal frames in guest memory, by stack address
    acts,         \* guest_signals_handler and sa_flags
    hostact,      \* the action the kernel was last told of
    sigact,       \* the last call of sigaction: "told", "call" or "mixed"
    blocked,      \* signals the kernel holds back
    taken,        \* signals delivered so far
    fail          \* why the program ended

vars == <<ctx, frames, acts, hostact, sigact, blocked, taken, fail>>

Pc == 1..LastPc
SIG_IGN == 0
IGNORE == [handler |-> SIG_IGN, onstack |-> FALSE]
WrongPc == LastPc + 1     \* stands for all addresses outside the program
DISABLED == [sp |-> 0, size |-> 0]

Top == ctx[Len(ctx)]
Depth == Len(ctx)
At(places) == fail = "none" /\ Top.place \in places
InBlock == {"jit", "helper", "svc", "syscall", "sigaction", "served", "brk", "trap", "trapped"}
Places == InBlock \cup {"umeq", "exit", "init", "leaving"}
InWindow(c) == c.place \in {"init", "leaving"}

\* level is the context whose part of the stack a context runs on: another
\* one's after a jump out of a handler, 0 if it is nobody's any more.  Like
\* lost (see FrameKept) and raced (a handler was abandoned in a window) it is
\* only there for the properties: no action looks at it but to keep it, and to
\* let the guest jump to what is still there.
Jumped(i) == ctx[i].level # i

\* The context the thread's tls points to.
Current ==
    CHOOSE k \in 1..Depth : ~InWindow(ctx[k]) /\ \A j \in (k+1)..Depth : InWindow(ctx[j])

\* A step of the context on top that touches nothing else.
Update(c) == ctx' = [ctx EXCEPT ![Depth] = c]
OnlyContext == UNCHANGED <<frames, acts, hostact, sigact, blocked, taken, fail>>

\* Frames of contexts that are gone are never read again.
LiveFrames(cs, fs) == [a \in {cs[i].frame : i \in 2..Len(cs)} |-> fs[a]]

\* The guest instruction a context is at.  insn changes when the first host
\* instruction of the next one has been executed, because find_insn_offset
\* answers for the byte before the host pc (FindsInsn of Backend).
TruePc(c) == IF c.place = "umeq" THEN c.cur ELSE c.start + c.insn

BlockEnd(s) == IF s + MaxInsn - 1 < LastPc THEN s + MaxInsn - 1 ELSE LastPc
-----------------------------------------------------------------------------
(* arm64_signal.c: the alternate stack. *)

on_sig_stack(c, sp) == sp > c.sas.sp /\ sp - c.sas.sp <= c.sas.size

\* sas_ss_flags = 0 : an alternate stack is set and not in use.
sas_ss_free(c, sp) == c.sas.size # 0 /\ ~on_sig_stack(c, sp)

\* Slip: the stack pointer of the thread, not of the interrupted handler.
sigsp_of_thread(c, s) ==
    IF acts[s].onstack /\ sas_ss_free(c, c.sp) THEN c.sas.sp + c.sas.size ELSE ctx[1].sp

sigsp(c, s) ==
    IF acts[s].onstack /\ sas_ss_free(c, c.sp) THEN c.sas.sp + c.sas.size ELSE c.sp

\* Slip: the stack pointers are compared as if there was one stack.
out_of_one_stack(c) == c.sp >= ctx[c.prev].sp

\* Slip: back at the very place of the interrupted code is not out.
out_beyond(c) ==
    LET prev == ctx[c.prev] IN
    IF ~c.onstack THEN c.sp > prev.sp
    ELSE IF prev.onstack THEN c.sp > prev.sp \/ ~on_sig_stack(c, c.sp)
    ELSE ~on_sig_stack(c, c.sp)

\* The stack pointer of a handler is back on the stack of what it interrupted.
is_out_of_signal_stack(c) ==
    LET prev == ctx[c.prev] IN
    IF ~c.onstack THEN c.sp >= prev.sp
    ELSE IF prev.onstack THEN c.sp >= prev.sp \/ ~on_sig_stack(c, c.sp)
    ELSE ~on_sig_stack(c, c.sp)
-----------------------------------------------------------------------------
(* arm64.c: taking a signal. *)

\* Where the thread was and the guest pc there: <<location, pc>>.
restore_precise_pc(k) ==
    LET c == ctx[k] IN
    IF c.helper_pc # 0 THEN <<"jit", c.helper_pc>>
    ELSE IF k # Depth \/ c.place = "umeq" THEN <<"umeq", c.pc>>
    ELSE <<"jit", IF c.pc + c.insn > LastPc THEN WrongPc ELSE c.pc + c.insn>>

\* What the code relies on for the precise pc: helper_pc was written by this
\* context, and it is set, or regs.pc is the start of the block.  An exit has
\* written the start of the next block, and an svc the instruction after it:
\* before and after its helper the pc is not known.
Reliable(c) == c.hset /\ (c.helper_pc # 0 \/ (c.fresh /\ c.place # "exit"))

\* A context of init() for a handler that interrupted context k.
handler_context(k, s, sp, loc, junk) ==
    [prev |-> k, sig |-> s, frame |-> sp, loc |-> loc, place |-> "init",
     onstack |-> on_sig_stack(ctx[k], sp), sas |-> ctx[k].sas, omask |-> blocked,
     sp |-> sp, pc |-> acts[s].handler, cur |-> acts[s].handler,
     helper_pc |-> junk, start |-> 0, insn |-> 0, tgt |-> 0, act |-> NoSig, new |-> IGNORE,
     looping |-> TRUE, exit |-> FALSE,
     fresh |-> TRUE, hset |-> FALSE, level |-> Depth + 1,
     lost |-> FALSE, raced |-> FALSE, told |-> 0]

\* wrap_signal_handler and init: frame written, regs.pc of the interrupted
\* context replaced by the precise one, tls not changed yet.
TakeSignal(s) ==
    /\ fail = "none" /\ Depth < MaxDepth /\ taken < MaxSignals
    /\ hostact[s].handler # SIG_IGN /\ s \notin blocked
    /\ LET k  == Current
           c  == ctx[k]
           sp == sigsp(c, s) - 1
           p  == restore_precise_pc(k)
       IN \E junk \in Garbage :
          /\ ctx' = Append(
                [i \in 1..Depth |->
                    IF i = k
                      THEN [c EXCEPT !.pc = p[2], !.lost = @ \/ k > c.level,
                                     !.fresh = c.fresh /\ c.hset /\ c.place = "umeq"]
                    ELSE [ctx[i] EXCEPT !.lost = @ \/ i > c.level]],
                handler_context(k, s, sp, p[1], junk))
          /\ frames' = [a \in DOMAIN frames \cup {sp} |->
                IF a = sp THEN [sig |-> s, pc |-> p[2], sp |-> c.sp, given |-> p[2],
                                wrong |-> Reliable(c) /\ p[2] # TruePc(c)]
                ELSE frames[a]]
    /\ blocked' = blocked \cup {s} /\ taken' = taken + 1
    /\ UNCHANGED <<acts, hostact, sigact, fail>>

\* loop_nocache: the new context becomes the current one.
TlsSwitch ==
    /\ At({"init"})
    /\ Update([Top EXCEPT !.place = "umeq"])
    /\ OnlyContext
-----------------------------------------------------------------------------
(* main.c: loop_common, for the context on top. *)

leaves_signal(c) == Depth > 1 /\ c.loc = "jit" /\ is_out_of_signal_stack(c)

\* isLooping, then lookup (or disassemble and append) and execute.
RunBlock ==
    /\ At({"umeq"}) /\ Top.cur \in Pc /\ Top.looping /\ ~leaves_signal(Top)
    /\ Update([Top EXCEPT !.place = "jit", !.start = Top.cur, !.cur = 0])
    /\ OnlyContext

\* isLooping ends the loop; loop_nocache gives the tls back.
LeaveLoop ==
    /\ Depth > 1 /\ At({"umeq"}) /\ (~Top.looping \/ leaves_signal(Top))
    /\ Update([Top EXCEPT !.place = "leaving", !.exit = leaves_signal(Top)])
    /\ OnlyContext
-----------------------------------------------------------------------------
(* arm64_disassembler.c: what a translated block does to pc and helper_pc. *)

\* insn counts as findInsnInCode does: the boundary between the code of two
\* instructions is still the first one (FindsInsn of Backend does not hold).
NextInsn ==
    /\ At({"jit"}) /\ Top.start + Top.insn < BlockEnd(Top.start)
    /\ Update([Top EXCEPT !.insn = @ + 1])
    /\ OnlyContext

\* write_pc of dis_svc, so that clone finds the pc after the system call.
dis_svc ==
    /\ At({"jit"}) /\ TruePc(Top) < LastPc
    /\ Update([Top EXCEPT !.place = "svc", !.pc = TruePc(Top) + 1, !.fresh = FALSE])
    /\ OnlyContext

\* write_pc of dis_brk, for the signal that its helper sends.
dis_brk ==
    /\ At({"jit"}) /\ Depth <= CallDepth
    /\ Update([Top EXCEPT !.place = "brk", !.pc = TruePc(Top), !.fresh = (Top.insn = 0)])
    /\ OnlyContext

\* mk_call_void, mk_call_32, mk_call_64.
Called(p) == CASE p = "jit" -> "helper" [] p = "svc" -> "syscall" [] p = "brk" -> "trap"

mk_call ==
    /\ At({"jit", "svc", "brk"})
    /\ Update([Top EXCEPT !.place = Called(@), !.helper_pc = TruePc(Top), !.hset = TRUE])
    /\ OnlyContext

Returned(p) == CASE p = "helper" -> "jit" [] p = "syscall" -> "served" [] p = "trap" -> "trapped"

\* Slip: helper_pc is left set.
HelperReturnsMarked ==
    /\ At({"helper", "syscall", "trap"})
    /\ Update([Top EXCEPT !.place = Returned(@)])
    /\ OnlyContext

HelperReturns ==
    /\ At({"helper", "syscall", "trap"})
    /\ Update([Top EXCEPT !.place = Returned(@), !.helper_pc = 0])
    /\ OnlyContext

\* mk_exit and mk_exit_pred: regs.pc is written before the block is left.  The
\* exit that follows one whose condition does not hold, and the exit of an
\* svc, go to the next instruction.
mk_exit(t) ==
    /\ At({"jit", "exit", "served"})
    /\ Top.place # "jit" => t = TruePc(Top) + 1
    /\ Depth > 1 /\ Top.place # "served" => t \in HandlerPcs
    /\ Update([Top EXCEPT !.place = "exit", !.pc = t, !.tgt = t, !.fresh = TRUE])
    /\ OnlyContext

\* The exit of a brk, which goes back to it and does not write regs.pc.
add_exit ==
    /\ At({"trapped"})
    /\ Update([Top EXCEPT !.place = "umeq", !.cur = TruePc(Top), !.fresh = (Top.pc = TruePc(Top)),
                          !.start = 0, !.insn = 0])
    /\ OnlyContext

\* Back to loop_common, which goes on with the value the block returned.
ExitToLoop ==
    /\ At({"exit"})
    /\ Update([Top EXCEPT !.place = "umeq", !.cur = Top.tgt,
                          !.start = 0, !.insn = 0, !.tgt = 0])
    /\ OnlyContext

\* A patched exit; the cache without storage of handlers never links.
ExitToBlock ==
    /\ At({"exit"}) /\ Depth = 1
    /\ Update([Top EXCEPT !.place = "jit", !.start = Top.tgt, !.insn = 0, !.tgt = 0])
    /\ OnlyContext
-----------------------------------------------------------------------------
(* What the guest does in a handler, and the signal system calls. *)

\* The handler stores a pc into the context it was given, before it returns.
SetFramePc(t) ==
    /\ t \in HandlerPcs /\ Depth > 1 /\ At({"jit"}) /\ Top.looping
    /\ frames' = [frames EXCEPT ![Top.frame].pc = t]
    /\ UNCHANGED <<ctx, acts, hostact, sigact, blocked, taken, fail>>

\* siglongjmp, a thrown exception: sp goes back to an interrupted context,
\* one whose part of the stack no other jump has left.  The guest is taken to
\* jump out of a handler at most once.
Longjmp(j, t) ==
    /\ t \in HandlerPcs /\ Depth > 1 /\ At({"jit"}) /\ ~Jumped(Depth) /\ j \in 1..(Depth - 1)
    /\ ~InWindow(ctx[j]) /\ \A m \in (j + 1)..(Depth - 1) : ctx[m].level >= ctx[j].level
    /\ Update([Top EXCEPT !.sp = ctx[j].sp, !.level = ctx[j].level,
                          !.place = "exit", !.pc = t, !.tgt = t, !.fresh = TRUE])
    /\ OnlyContext

\* arm64_hlp_syscall, PR_rt_sigreturn.
SigReturn ==
    /\ Depth > 1 /\ At({"syscall"}) /\ Top.looping
    /\ Update([Top EXCEPT !.looping = FALSE, !.told = frames[Top.frame].pc])
    /\ OnlyContext

arm64_sigaltstack(ss) ==
    /\ At({"syscall"}) /\ Depth <= CallDepth /\ Top.looping /\ ~on_sig_stack(Top, Top.sp)
    /\ Update([Top EXCEPT !.sas = ss])
    /\ OnlyContext

\* Some context is in the middle of a call of sigaction for s.
Changing(s) == \E i \in 1..Depth : ctx[i].act = s

\* arm64_rt_sigaction: first the guest's tables, sa_flags and the handler.
SigactionTable(s, a) ==
    /\ At({"syscall"}) /\ Depth <= CallDepth /\ Top.looping
    /\ Update([Top EXCEPT !.place = "sigaction", !.act = s, !.new = a])
    /\ acts' = [acts EXCEPT ![s] = a]
    /\ sigact' = [sigact EXCEPT ![s] = IF Changing(s) THEN "mixed" ELSE "call"]
    /\ UNCHANGED <<frames, hostact, blocked, taken, fail>>

\* Slip: the kernel is not told.
SigactionTableOnly ==
    /\ At({"sigaction"})
    /\ Update([Top EXCEPT !.place = "syscall", !.act = NoSig, !.new = IGNORE])
    /\ sigact' = [sigact EXCEPT ![Top.act] = IF @ = "call" THEN "told" ELSE "mixed"]
    /\ UNCHANGED <<frames, hostact, acts, blocked, taken, fail>>

\* arm64_rt_sigaction: then the kernel, which may refuse; the tables stay.
SigactionKernel ==
    /\ At({"sigaction"})
    /\ Update([Top EXCEPT !.place = "syscall", !.act = NoSig, !.new = IGNORE])
    /\ \/ /\ hostact' = [hostact EXCEPT ![Top.act] = Top.new]
          /\ sigact' = [sigact EXCEPT ![Top.act] = IF @ = "call" THEN "told" ELSE "mixed"]
       \/ /\ sigact' = [sigact EXCEPT ![Top.act] = "mixed"]
          /\ UNCHANGED hostact
    /\ UNCHANGED <<frames, acts, blocked, taken, fail>>
-----------------------------------------------------------------------------
(* arm64.c: getExitStatus, and the return from the host handler. *)

\* restore_be_x86_64 loads the low part of the stack pointer that execute saved.
restored_sp(saved, interrupted) ==
    (interrupted \div SpWidth) * SpWidth + (saved % SpWidth)

\* request_signal_alternate_exit: execute of context k returns t.  Whatever
\* runs above context k is abandoned.
AlternateExit(k, c, t) ==
    /\ ctx' = Append(SubSeq(ctx, 1, k - 1),
                [c EXCEPT !.pc = t, !.cur = t, !.place = "umeq", !.fresh = TRUE,
                          !.start = 0, !.insn = 0, !.tgt = 0, !.act = NoSig, !.new = IGNORE,
                          !.hset = @ /\ c.helper_pc = 0,
                          !.raced = @ \/ k < Depth - 1])
    /\ \E saved \in HostSps, d \in Depths :
          fail' = IF restored_sp(saved, saved - d) = saved THEN fail ELSE "stack"

\* Slip: a pc that the handler has changed is stored but not gone to.
FinishReturnInPlace ==
    /\ At({"leaving"}) /\ ~Top.exit
    /\ LET f == frames[Top.frame] IN
         ctx' = SubSeq([ctx EXCEPT ![Top.prev].sp = f.sp, ![Top.prev].pc = f.pc], 1, Depth - 1)
    /\ blocked' = Top.omask /\ frames' = LiveFrames(ctx', frames)
    /\ UNCHANGED <<acts, hostact, sigact, taken, fail>>

\* restore_sigframe and the check for a changed pc.
FinishReturn ==
    /\ At({"leaving"}) /\ ~Top.exit
    /\ LET k == Top.prev
           f == frames[Top.frame]
           changed == ctx[k].pc # f.pc
           c == [ctx[k] EXCEPT !.sp = f.sp, !.pc = f.pc,
                               !.level = IF f.sp = ctx[k].sp THEN @ ELSE 0]
       IN \/ /\ ~changed
             /\ ctx' = SubSeq([ctx EXCEPT ![k] = c], 1, Depth - 1)
             /\ UNCHANGED fail
          \/ /\ changed /\ Top.loc = "jit"
             /\ AlternateExit(k, c, f.pc)
          \/ /\ changed /\ Top.loc # "jit"
             /\ fail' = "assert" /\ UNCHANGED ctx
    /\ blocked' = Top.omask /\ frames' = LiveFrames(ctx', frames)
    /\ UNCHANGED <<acts, hostact, sigact, taken>>

\* Slip: the mask of the handler stays.
FinishJumpMasked ==
    /\ At({"leaving"}) /\ Top.exit
    /\ LET k == Top.prev IN
         AlternateExit(k, [ctx[k] EXCEPT !.sp = Top.sp,
                                         !.level = IF Top.sp = ctx[k].sp THEN @
                                                   ELSE IF Top.level > k THEN 0 ELSE Top.level], Top.pc)
    /\ frames' = LiveFrames(ctx', frames)
    /\ UNCHANGED <<acts, hostact, sigact, blocked, taken>>

\* The handler did not return: its registers become those of the context below.
FinishJump ==
    /\ At({"leaving"}) /\ Top.exit
    /\ LET k == Top.prev IN
         AlternateExit(k, [ctx[k] EXCEPT !.sp = Top.sp,
                                         !.level = IF Top.sp = ctx[k].sp THEN @
                                                   ELSE IF Top.level > k THEN 0 ELSE Top.level], Top.pc)
    /\ blocked' = Top.omask /\ frames' = LiveFrames(ctx', frames)
    /\ UNCHANGED <<acts, hostact, sigact, taken>>
-----------------------------------------------------------------------------
Init ==
    /\ \E junk \in Garbage :
         ctx = <<[prev |-> 0, sig |-> NoSig, frame |-> 0, loc |-> "unknown", place |-> "umeq",
                  onstack |-> FALSE, sas |-> DISABLED, omask |-> {},
                  sp |-> MainSp, pc |-> 1, cur |-> 1,
                  helper_pc |-> junk, start |-> 0, insn |-> 0, tgt |-> 0,
                  act |-> NoSig, new |-> IGNORE,
                  looping |-> TRUE, exit |-> FALSE,
                  fresh |-> TRUE, hset |-> FALSE, level |-> 1,
                  lost |-> FALSE, raced |-> FALSE, told |-> 0]>>
    /\ frames = <<>>
    /\ acts = FirstActs /\ hostact = FirstActs
    /\ sigact = [s \in Sigs |-> "told"]
    /\ blocked = {} /\ taken = 0
    /\ fail = "none"

Guest ==
    \/ NextInsn \/ dis_svc \/ dis_brk \/ mk_call \/ HelperReturns \/ add_exit \/ ExitToLoop \/ ExitToBlock \/ SigReturn
    \/ \E t \in Pc : mk_exit(t) \/ SetFramePc(t) \/ \E j \in 1..MaxDepth : Longjmp(j, t)
    \/ \E ss \in AltStacks : arm64_sigaltstack(ss)
    \/ SigactionKernel \/ \E s \in CallSigs, a \in Actions : SigactionTable(s, a)

Next ==
    \/ RunBlock \/ LeaveLoop \/ TlsSwitch \/ FinishReturn \/ FinishJump
    \/ Guest
    \/ \E s \in Sigs : TakeSignal(s)

Spec == Init /\ [][Next]_vars
-----------------------------------------------------------------------------
(* What the theorems about stacks take for granted of the guest. *)

\* An alternate stack has room for the frames of all handlers.
LargeStacks == \A ss \in AltStacks : ss.size = 0 \/ ss.size >= MaxDepth

\* Alternate stacks are apart from each other and from the stack of the thread.
StacksApart ==
    /\ \A ss \in AltStacks : ss.sp >= MainSp \/ ss.sp + ss.size < MainSp - MaxDepth
    /\ \A ss, tt \in AltStacks : ss = tt \/ ss.sp + ss.size <= tt.sp \/ tt.sp + tt.size <= ss.sp
-----------------------------------------------------------------------------
Contexts ==
    [prev : 0..MaxDepth, sig : Sigs \cup {NoSig}, frame : Int,
     loc : {"unknown", "jit", "umeq"},
     place : Places,
     onstack : BOOLEAN, sas : AltStacks \cup {DISABLED}, omask : SUBSET Sigs,
     sp : Int, pc : Nat, cur : Nat, helper_pc : Nat, start : Nat, insn : Nat, tgt : Nat,
     act : Sigs \cup {NoSig}, new : Actions \cup {IGNORE},
     looping : BOOLEAN, exit : BOOLEAN, fresh : BOOLEAN, hset : BOOLEAN,
     level : 0..MaxDepth, lost : BOOLEAN, raced : BOOLEAN, told : Nat]

\* Type correctness.
TypeOK ==
    /\ ctx \in Seq(Contexts) /\ Depth \in 1..MaxDepth
    /\ DOMAIN frames = {ctx[i].frame : i \in 2..Depth}
    /\ \A a \in DOMAIN frames :
          frames[a] \in [sig : Sigs, pc : Nat, sp : Int, given : Nat, wrong : BOOLEAN]
    /\ acts \in [Sigs -> Actions] /\ hostact \in [Sigs -> Actions \cup {IGNORE}]
    /\ sigact \in [Sigs -> {"told", "call", "mixed"}] /\ blocked \subseteq Sigs /\ taken \in 0..MaxSignals
    /\ fail \in {"none", "assert", "stack"}

\* The pc a handler is shown is the instruction the thread was at: for any
\* signal in a helper, and for the first signal in a block away from an exit
\* and from the code around the helper of an svc, in a context whose helper_pc
\* has been written and whose helpers were not abandoned.  (Between two
\* instructions, when the first is over and the second has not begun, it is
\* the first.)
PreciseWhenReliable ==
    \A a \in DOMAIN frames : ~frames[a].wrong

\* The frame of handler i can still be its own: no signal came while the
\* thread ran on a part of the stack older than the handler's, and every
\* context below is on a part of the stack that is somebody's.
FrameKept(i) == ~ctx[i].lost /\ \A j \in 1..(i - 1) : ctx[j].level # 0

\* A handler that returns with the pc it was given resumes the interrupted
\* code in place; one that changed the pc makes the thread go on there.
\* (Only while the frame is the handler's own: a signal that comes before the
\* handler owns the tls, or after it gave it back, writes it again.  And only
\* for the handler's own return: one that interrupted umeq, could not be left
\* after a jump into the handler below and then meets the return of that one
\* resumes what it had itself interrupted, with its own frame.)
ResumeAsTold ==
    [][Top.place = "leaving" /\ ~Top.exit /\ ~Jumped(Depth) /\ FrameKept(Depth)
         /\ Len(ctx') < Depth =>
        LET k   == Top.prev
            now == ctx'[k]
        IN IF Top.told = frames[Top.frame].given
             THEN /\ now.place = ctx[k].place /\ now.start = ctx[k].start
                  /\ now.insn = ctx[k].insn
             ELSE now.place = "umeq" /\ now.cur = Top.told]_<<ctx, fail>>

\* A handler is only left without sigreturn when the guest jumped out of it,
\* or had jumped out of the one it interrupted: onstack tells where that one
\* started, not where its stack pointer is now.
NoSpuriousExit ==
    \A i \in 1..Depth :
        ctx[i].exit => Jumped(i) \/ Jumped(ctx[i].prev)

\* After a jump out of a handler no guest code runs in the handler's context,
\* except where the code says it cannot leave: it had interrupted umeq itself.
\* (Unless a context below goes on with a stack pointer that is nobody's, given
\* to it by a frame that was written twice or by a handler that had not jumped.)
JumpUnwinds ==
    \A i \in 1..Depth :
        ctx[i].place \in InBlock /\ ctx[i].level < i /\ (\A j \in 1..i : ctx[j].level # 0)
            => ctx[i].loc = "umeq"

\* The frame a handler looks at is the one of its own signal, unless a signal
\* came while the thread ran on an older part of the stack: in a window of the
\* handler, or after a jump back to what it had interrupted.
FrameIsMine ==
    \A i \in 2..Depth : FrameKept(i) => frames[ctx[i].frame].sig = ctx[i].sig

\* The kernel holds back exactly the signals being handled, unless a handler
\* was abandoned in one of its windows.
MaskFollowsContexts ==
    fail = "none" /\ (\A i \in 1..Depth : ~ctx[i].raced) => blocked = {ctx[i].sig : i \in 2..Depth}

\* A signal enters the handler of the action the guest's last accepted call of
\* sigaction installed, on the stack that action names, however many other
\* calls went before it: unless the last call was refused, since its tables
\* are not undone, or is not over yet, or overlapped another one.
EntersInstalled ==
    [][Len(ctx') > Depth =>
        LET c == ctx'[Depth + 1] IN
        sigact[c.sig] = "told" =>
            /\ c.pc = hostact[c.sig].handler
            /\ c.frame = ctx[c.prev].sp - 1 \/ hostact[c.sig].onstack]_<<ctx, fail>>

\* The assertions of getExitStatus: a change of pc is only asked for when the
\* signal had interrupted guest code.
NoAssert == fail # "assert"

\* restore_be_x86_64 goes back to the stack pointer that execute saved.
StackRestored == fail # "stack"
=============================================================================
