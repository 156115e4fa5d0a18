--------------------------- MODULE Signals_proofs ---------------------------
(***************************************************************************)
(* Proofs about Signals.  Every step is one of the context on top, a       *)
(* signal, or the end of a handler (LocalStep, TakeStep, FinishStep), and  *)
(* an invariant is shown for these three kinds.  The theorems about stacks *)
(* say where the frames of nested handlers are: near the top of the stack  *)
(* they are on, each below those of the stack it was put on (PlacesInv).   *)
(***************************************************************************)
EXTENDS Signals, SequenceTheorems, TLAPS

\* The actions that are steps of the context on top, and those among them that
\* change more than this context.
ContextActions ==
    \/ RunBlock \/ LeaveLoop \/ TlsSwitch \/ NextInsn \/ dis_svc \/ dis_brk \/ mk_call
    \/ HelperReturns \/ add_exit \/ ExitToLoop \/ ExitToBlock \/ SigReturn
    \/ \E t \in Pc : mk_exit(t) \/ \E j \in 1..MaxDepth : Longjmp(j, t)
    \/ \E ss \in AltStacks : arm64_sigaltstack(ss)
TableActions == SigactionKernel \/ \E s \in CallSigs, a \in Actions : SigactionTable(s, a)

\* What every step of the context on top leaves alone.
LocalStep(c) ==
    /\ ctx' = [ctx EXCEPT ![Depth] = c]
    /\ c \in Contexts
    /\ c.prev = Top.prev /\ c.sig = Top.sig /\ c.frame = Top.frame /\ c.loc = Top.loc
    /\ c.omask = Top.omask /\ c.raced = Top.raced
    /\ InWindow(c) => Depth > 1
    /\ c.place # "init"
    /\ \/ c.place # "sigaction" /\ c.act = Top.act /\ c.new = Top.new
       \/ TableActions

\* The contexts between a handler's and the one it interrupted are those the
\* thread's tls did not point to; the thread's own is never one of them.
StackInv ==
    /\ ~InWindow(ctx[1])
    /\ \A i \in 2..Depth :
          /\ ctx[i].prev \in 1..(i - 1) /\ ~InWindow(ctx[ctx[i].prev])
          /\ \A j \in (ctx[i].prev + 1)..(i - 1) : InWindow(ctx[j])

\* Where pc and helper_pc of a context stand, by the place it is at.
InHelper == {"helper", "syscall", "sigaction", "trap"}
PcInv(c) ==
    /\ c.place \in {"umeq", "init"} => c.insn = 0 /\ (c.fresh => c.pc = c.cur)
    /\ c.place \in InBlock =>
          c.start \in Pc /\ c.start + c.insn <= LastPc /\ (c.fresh => c.pc = c.start)
    /\ c.place = "exit" => c.tgt \in Pc /\ (c.fresh => c.pc = c.tgt)
    /\ c.hset => c.helper_pc = (IF c.place \in InHelper THEN c.start + c.insn ELSE 0)

\* The mask a handler gives back is the one of the contexts below it.
MaskInv ==
    /\ \A n \in 2..Depth : (\A i \in 1..(n - 1) : ~ctx[i].raced) =>
          ctx[n].omask = {ctx[i].sig : i \in 2..(n - 1)}
    /\ MaskFollowsContexts

\* The end of a handler: context k = prev goes on as c, in place or (after an
\* alternate exit) in its loop, and at least the handler's context is gone.
SamePlace(c, d) ==
    /\ c.place = d.place /\ c.pc = d.pc /\ c.cur = d.cur /\ c.start = d.start
    /\ c.insn = d.insn /\ c.tgt = d.tgt /\ c.fresh = d.fresh /\ c.hset = d.hset
    /\ c.helper_pc = d.helper_pc /\ c.act = d.act /\ c.new = d.new
InLoop(c, d) ==
    /\ c.place = "umeq" /\ c.pc = c.cur /\ c.insn = 0
    /\ c.hset => d.hset /\ d.helper_pc = 0
    /\ c.helper_pc = d.helper_pc /\ c.act = NoSig
FinishStep(k, c) ==
    /\ k \in 1..(Depth - 1) /\ c \in Contexts
    /\ ctx' \in Seq(Contexts) /\ Depth' \in {k, Depth - 1} /\ ctx'[k] = c
    /\ \A i \in 1..Depth' : i # k => ctx'[i] = ctx[i]
    /\ c.prev = ctx[k].prev /\ c.sig = ctx[k].sig /\ c.frame = ctx[k].frame
    /\ c.loc = ctx[k].loc /\ c.omask = ctx[k].omask
    /\ ctx[k].raced => c.raced
    /\ Depth' # Depth - 1 => c.raced
    /\ \/ Depth' = Depth - 1 /\ SamePlace(c, ctx[k])
       \/ Depth' = k /\ InLoop(c, ctx[k])
    /\ c.onstack = ctx[k].onstack /\ c.sas = ctx[k].sas /\ c.exit = ctx[k].exit
    /\ c.lost = ctx[k].lost /\ c.looping = ctx[k].looping /\ c.told = ctx[k].told
    /\ IF Top.exit
         THEN /\ Depth' = k /\ InLoop(c, ctx[k]) /\ c.sp = Top.sp
              /\ c.level = IF Top.sp = ctx[k].sp THEN ctx[k].level
                           ELSE IF Top.level > k THEN 0 ELSE Top.level
         ELSE c.level = IF c.sp = ctx[k].sp THEN ctx[k].level ELSE 0
    /\ blocked' = Top.omask /\ frames' = LiveFrames(ctx', frames)
    /\ UNCHANGED <<acts, hostact, sigact, taken>>

\* A new handler: context k = prev is the one the thread's tls points to.
SameContext(c, d) ==
    /\ c.prev = d.prev /\ c.sig = d.sig /\ c.frame = d.frame /\ c.loc = d.loc
    /\ c.omask = d.omask /\ c.place = d.place /\ c.cur = d.cur /\ c.start = d.start
    /\ c.insn = d.insn /\ c.tgt = d.tgt /\ c.hset = d.hset /\ c.helper_pc = d.helper_pc
    /\ c.act = d.act /\ c.new = d.new
    /\ c.onstack = d.onstack /\ c.sas = d.sas /\ c.sp = d.sp /\ c.level = d.level
    /\ c.exit = d.exit /\ c.looping = d.looping /\ c.told = d.told
NewHandler(c, k, s) ==
    /\ c.prev = k /\ c.sig = s /\ c.place = "init" /\ c.omask = blocked
    /\ c.pc = acts[s].handler /\ c.cur = acts[s].handler /\ c.insn = 0 /\ ~c.hset /\ ~c.raced
    /\ c.act = NoSig
    /\ c.frame = sigsp(ctx[k], s) - 1 /\ c.sp = c.frame
    /\ c.onstack = on_sig_stack(ctx[k], c.frame) /\ c.sas = ctx[k].sas
    /\ c.level = Depth + 1 /\ ~c.exit /\ ~c.lost /\ c.looping /\ c.loc # "unknown"
TakeStep(k, s) ==
    /\ k \in 1..Depth /\ ~InWindow(ctx[k]) /\ \A j \in (k + 1)..Depth : InWindow(ctx[j])
    /\ ctx' \in Seq(Contexts) /\ Depth' = Depth + 1 /\ Depth < MaxDepth
    /\ NewHandler(ctx'[Depth + 1], k, s)
    /\ \A i \in 1..Depth :
          /\ SameContext(ctx'[i], ctx[i])
          /\ ctx[i].raced => ctx'[i].raced
          /\ ctx'[i].lost = (ctx[i].lost \/ i > ctx[k].level)
          /\ i # k => ctx'[i].pc = ctx[i].pc /\ ctx'[i].fresh = ctx[i].fresh
    /\ ctx'[k].pc = restore_precise_pc(k)[2] 
    /\ ctx'[k].fresh = (ctx[k].fresh /\ ctx[k].hset /\ ctx[k].place = "umeq")
-----------------------------------------------------------------------------
\* The places are places.
LEMMA PlaceNames ==
    /\ {"umeq", "exit", "init", "leaving", "jit", "helper"} \subseteq Places
    /\ {"svc", "syscall", "sigaction", "served", "brk", "trap", "trapped"} \subseteq Places
BY DEF Places, InBlock

\* What a step of the context on top leaves of the sequence.
LEMMA LocalShape ==
    ASSUME TypeOK, NEW c, LocalStep(c)
    PROVE  /\ ctx' \in Seq(Contexts) /\ Len(ctx') = Depth /\ Depth' = Depth
           /\ Depth \in 1..MaxDepth /\ Top \in Contexts /\ Top = ctx[Depth]
           /\ ctx'[Depth] = c /\ \A i \in 1..(Depth - 1) : ctx'[i] = ctx[i]
           /\ \A i \in 1..Depth : ctx'[i].frame = ctx[i].frame
           /\ {ctx'[i].frame : i \in 2..Depth'} = {ctx[i].frame : i \in 2..Depth}
<1>0. ctx \in Seq(Contexts) /\ Depth \in 1..MaxDepth /\ Len(ctx) \in Nat
  BY SignalsAssumption DEF TypeOK, Depth
<1>1. ctx' = [ctx EXCEPT ![Len(ctx)] = c] /\ c \in Contexts
  BY DEF LocalStep, Depth
<1>2. ctx' \in Seq(Contexts) /\ Len(ctx') = Len(ctx)
  BY <1>0, <1>1 DEF Depth
<1>3. ctx'[Len(ctx)] = c /\ \A i \in 1..(Len(ctx) - 1) : ctx'[i] = ctx[i]
  BY <1>0, <1>1 DEF Depth
<1>4. Top \in Contexts /\ Top = ctx[Depth]
  BY <1>0 DEF Top, Depth
<1>5. \A i \in 1..Depth : ctx'[i].frame = ctx[i].frame
  <2>1. c.frame = ctx[Depth].frame
    BY <1>4 DEF LocalStep
  <2> QED BY <2>1, <1>3, <1>0 DEF Depth
<1>6. Depth' = Depth
  BY <1>2 DEF Depth
<1>7. {ctx'[i].frame : i \in 2..Depth'} = {ctx[i].frame : i \in 2..Depth}
  BY <1>5, <1>6, <1>0 DEF Depth
<1> QED BY <1>0, <1>2, <1>3, <1>4, <1>5, <1>6, <1>7 DEF Depth

\* The actions that are steps of the context on top.
LEMMA LocalActions ==
    ASSUME TypeOK
    PROVE  ContextActions \/ TableActions => \E c : LocalStep(c)
<1> USE SignalsAssumption
<1>0. Top \in Contexts /\ Depth \in 1..MaxDepth
  BY DEF TypeOK, Depth, Top
<1>a. ASSUME NEW c \in Contexts, Update(c), c.prev = Top.prev, c.sig = Top.sig,
             c.frame = Top.frame, c.loc = Top.loc, c.omask = Top.omask, c.raced = Top.raced,
             InWindow(c) => Depth > 1, c.place # "init",
             \/ c.place # "sigaction" /\ c.act = Top.act /\ c.new = Top.new
             \/ TableActions
      PROVE  LocalStep(c)
  BY <1>a DEF LocalStep, Update
<1>1. CASE RunBlock
  <2>1. [Top EXCEPT !.place = "jit", !.start = Top.cur, !.cur = 0] \in Contexts
    BY <1>0, PlaceNames, ZenonT(60) DEF Contexts
  <2> QED BY <1>0, <1>1, <1>a, <2>1 DEF RunBlock, Contexts, InWindow, At
<1>2. CASE LeaveLoop
  <2>1. [Top EXCEPT !.place = "leaving", !.exit = leaves_signal(Top)] \in Contexts
    <3>1. leaves_signal(Top) \in BOOLEAN
      BY DEF leaves_signal
    <3> QED BY <1>0, <3>1, PlaceNames DEF Contexts
  <2> QED BY <1>0, <1>2, <1>a, <2>1, ZenonT(60) DEF LeaveLoop, Contexts, InWindow, At
<1>3. CASE TlsSwitch
  BY <1>0, <1>3, <1>a, PlaceNames DEF TlsSwitch, Contexts, InWindow, At
<1>4. CASE NextInsn
  BY <1>0, <1>4, <1>a DEF NextInsn, Contexts, InWindow, At
<1>15. TruePc(Top) \in Nat
  BY <1>0 DEF Contexts, TruePc
<1>16. CASE dis_svc
  <2> DEFINE q == TruePc(Top) + 1
  <2>1. q \in Nat
    BY <1>15
  <2> DEFINE c == [Top EXCEPT !.place = "svc", !.pc = q, !.fresh = FALSE]
  <2>2. Update(c)
    BY <1>16 DEF dis_svc
  <2> HIDE DEF q
  <2>3. c \in Contexts
    BY <1>0, <2>1, PlaceNames, ZenonT(60) DEF Contexts
  <2> QED BY <1>0, <1>a, <2>2, <2>3, ZenonT(60) DEF Contexts, InWindow
<1>17. CASE dis_brk
  <2> DEFINE q == TruePc(Top)
             f == Top.insn = 0
  <2>1. q \in Nat /\ f \in BOOLEAN
    BY <1>15
  <2> DEFINE c == [Top EXCEPT !.place = "brk", !.pc = q, !.fresh = f]
  <2>2. Update(c)
    BY <1>17 DEF dis_brk
  <2> HIDE DEF q, f
  <2>3. c \in Contexts
    BY <1>0, <2>1, PlaceNames, ZenonT(60) DEF Contexts
  <2> QED BY <1>0, <1>a, <2>2, <2>3, ZenonT(60) DEF Contexts, InWindow
<1>18. CASE add_exit
  <2> DEFINE q == TruePc(Top)
             f == Top.pc = TruePc(Top)
             c == [Top EXCEPT !.place = "umeq", !.cur = q, !.fresh = f, !.start = 0, !.insn = 0]
  <2>1. q \in Nat /\ f \in BOOLEAN
    BY <1>15
  <2>2. Update(c)
    BY <1>18 DEF add_exit
  <2> HIDE DEF q, f
  <2>3. c \in Contexts
    BY <1>0, <2>1, PlaceNames, ZenonT(60) DEF Contexts
  <2> QED BY <1>0, <1>a, <2>2, <2>3, ZenonT(60) DEF Contexts, InWindow
<1>5. CASE mk_call
  <2> DEFINE q == TruePc(Top)
             pl == Called(Top.place)
             c == [Top EXCEPT !.place = pl, !.helper_pc = q, !.hset = TRUE]
  <2>1. pl \in {"helper", "syscall", "trap"}
    BY <1>5 DEF mk_call, At, Called
  <2>2. Update(c)
    BY <1>5 DEF mk_call
  <2> HIDE DEF q, pl
  <2>3. c \in Contexts
    BY <1>0, <1>15, <2>1, PlaceNames, ZenonT(60) DEF Contexts, q
  <2> QED BY <1>0, <1>a, <2>1, <2>2, <2>3, ZenonT(60) DEF Contexts, InWindow
<1>6. CASE HelperReturns
  <2> DEFINE pl == Returned(Top.place)
             c == [Top EXCEPT !.place = pl, !.helper_pc = 0]
  <2>1. pl \in {"jit", "served", "trapped"}
    BY <1>6 DEF HelperReturns, At, Returned
  <2>2. Update(c)
    BY <1>6 DEF HelperReturns
  <2> HIDE DEF pl
  <2>3. c \in Contexts
    BY <1>0, <2>1, PlaceNames, ZenonT(60) DEF Contexts
  <2> QED BY <1>0, <1>a, <2>1, <2>2, <2>3, ZenonT(60) DEF Contexts, InWindow
<1>7. CASE ExitToLoop
  <2> DEFINE c == [Top EXCEPT !.place = "umeq", !.cur = Top.tgt, !.start = 0, !.insn = 0, !.tgt = 0]
  <2>1. c \in Contexts
    BY <1>0, PlaceNames, ZenonT(60) DEF Contexts
  <2>2. Update(c)
    BY <1>7 DEF ExitToLoop
  <2> QED BY <1>0, <1>a, <2>1, <2>2, ZenonT(60) DEF Contexts, InWindow
<1>8. CASE ExitToBlock
  <2> DEFINE c == [Top EXCEPT !.place = "jit", !.start = Top.tgt, !.insn = 0, !.tgt = 0]
  <2>1. c \in Contexts
    BY <1>0, PlaceNames, ZenonT(60) DEF Contexts
  <2>2. Update(c)
    BY <1>8 DEF ExitToBlock
  <2> QED BY <1>0, <1>a, <2>1, <2>2, ZenonT(60) DEF Contexts, InWindow
<1>9. CASE SigReturn
  <2>1. frames[Top.frame].pc \in Nat
    <3>1. Depth \in 2..Depth /\ Top.frame = ctx[Depth].frame
      BY <1>0, <1>9 DEF SigReturn, Top, Depth
    <3>2. Top.frame \in DOMAIN frames
      BY <3>1 DEF TypeOK
    <3> QED BY <3>2 DEF TypeOK
  <2>2. [Top EXCEPT !.looping = FALSE, !.told = frames[Top.frame].pc] \in Contexts
    BY <1>0, <2>1, ZenonT(60) DEF Contexts
  <2> QED BY <1>0, <1>9, <1>a, <2>2 DEF SigReturn, Contexts, InWindow, At
<1>10. CASE SigactionKernel
  <2> DEFINE c == [Top EXCEPT !.place = "syscall", !.act = NoSig, !.new = IGNORE]
  <2>1. c \in Contexts
    BY <1>0, PlaceNames, ZenonT(60) DEF Contexts
  <2>2. Update(c) /\ TableActions
    BY <1>10 DEF SigactionKernel, TableActions
  <2> QED BY <1>0, <1>a, <2>1, <2>2 DEF Contexts, InWindow
<1>11. ASSUME NEW t \in Pc, mk_exit(t)
       PROVE  \E c : LocalStep(c)
  <2>1. t \in Nat
    BY DEF Pc
  <2>2. [Top EXCEPT !.place = "exit", !.pc = t, !.tgt = t, !.fresh = TRUE] \in Contexts
    BY <1>0, <2>1, PlaceNames, ZenonT(60) DEF Contexts
  <2> QED BY <1>0, <1>11, <1>a, <2>2, ZenonT(60) DEF mk_exit, Contexts, InWindow, At
<1>12. ASSUME NEW t \in Pc, NEW j \in 1..MaxDepth, Longjmp(j, t)
       PROVE  \E c : LocalStep(c)
  <2>1. ctx[j] \in Contexts
    BY <1>12 DEF Longjmp, TypeOK, Depth
  <2>2. t \in Nat
    BY DEF Pc
  <2>3. [Top EXCEPT !.sp = ctx[j].sp, !.level = ctx[j].level,
                    !.place = "exit", !.pc = t, !.tgt = t, !.fresh = TRUE] \in Contexts
    BY <1>0, <2>1, <2>2, PlaceNames, ZenonT(60) DEF Contexts
  <2> QED BY <1>0, <1>12, <1>a, <2>3, ZenonT(60) DEF Longjmp, Contexts, InWindow, At
<1>13. ASSUME NEW ss \in AltStacks, arm64_sigaltstack(ss)
       PROVE  \E c : LocalStep(c)
  BY <1>0, <1>13, <1>a DEF arm64_sigaltstack, Contexts, InWindow, At
<1>14. ASSUME NEW s \in CallSigs, NEW a \in Actions, SigactionTable(s, a)
       PROVE  \E c : LocalStep(c)
  <2> DEFINE c == [Top EXCEPT !.place = "sigaction", !.act = s, !.new = a]
  <2>1. c \in Contexts
    BY <1>0, PlaceNames, ZenonT(60) DEF Contexts
  <2>2. Update(c) /\ TableActions
    BY <1>14 DEF SigactionTable, TableActions
  <2> QED BY <1>0, <1>a, <2>1, <2>2 DEF Contexts, InWindow
<1> QED BY <1>1, <1>2, <1>3, <1>4, <1>5, <1>6, <1>7, <1>8, <1>9, <1>10, <1>11, <1>12, <1>13, <1>14,
           <1>16, <1>17, <1>18 DEF ContextActions, TableActions

\* Most of them change nothing else.
LEMMA OnlyContextChanges == ContextActions => OnlyContext
BY DEF ContextActions, RunBlock, LeaveLoop, TlsSwitch, NextInsn, dis_svc, dis_brk, mk_call,
       HelperReturns, add_exit, ExitToLoop, ExitToBlock, SigReturn, mk_exit, Longjmp, arm64_sigaltstack

\* An alternate exit ends a handler and puts the context below into its loop.
LEMMA AlternateShape ==
    ASSUME TypeOK, StackInv, Depth > 1, NEW t \in Nat, NEW c \in Contexts,
           AlternateExit(Top.prev, c, t), fail = "none",
           c.prev = ctx[Top.prev].prev, c.sig = ctx[Top.prev].sig, c.frame = ctx[Top.prev].frame,
           c.loc = ctx[Top.prev].loc, c.omask = ctx[Top.prev].omask,
           ctx[Top.prev].raced => c.raced, c.hset = ctx[Top.prev].hset,
           c.helper_pc = ctx[Top.prev].helper_pc,
           c.onstack = ctx[Top.prev].onstack, c.sas = ctx[Top.prev].sas, c.exit = ctx[Top.prev].exit,
           c.lost = ctx[Top.prev].lost, c.looping = ctx[Top.prev].looping, c.told = ctx[Top.prev].told,
           IF Top.exit
             THEN /\ c.sp = Top.sp
                  /\ c.level = IF Top.sp = ctx[Top.prev].sp THEN ctx[Top.prev].level
                               ELSE IF Top.level > Top.prev THEN 0 ELSE Top.level
             ELSE c.level = IF c.sp = ctx[Top.prev].sp THEN ctx[Top.prev].level ELSE 0,
           blocked' = Top.omask, frames' = LiveFrames(ctx', frames),
           UNCHANGED <<acts, hostact, sigact, taken>>
    PROVE  /\ \E d : FinishStep(Top.prev, d)
           /\ fail' \in {"none", "stack"}
<1> USE SignalsAssumption
<1> DEFINE k == Top.prev
           d == [c EXCEPT !.pc = t, !.cur = t, !.place = "umeq", !.fresh = TRUE,
                          !.start = 0, !.insn = 0, !.tgt = 0, !.act = NoSig, !.new = IGNORE,
                          !.hset = @ /\ c.helper_pc = 0,
                          !.raced = @ \/ k < Depth - 1]
<1>0. ctx \in Seq(Contexts) /\ Depth \in 1..MaxDepth /\ Top \in Contexts /\ Depth = Len(ctx)
      /\ Top = ctx[Depth]
  BY DEF TypeOK, Depth, Top
<1>1. k \in 1..(Depth - 1)
  BY <1>0 DEF StackInv
<1>2. d \in Contexts
  <2> DEFINE h == c.hset /\ c.helper_pc = 0
             r == c.raced \/ k < Depth - 1
             e == [c EXCEPT !.pc = t, !.cur = t, !.place = "umeq", !.fresh = TRUE,
                            !.start = 0, !.insn = 0, !.tgt = 0, !.act = NoSig, !.new = IGNORE, !.hset = h, !.raced = r]
  <2>1. h \in BOOLEAN /\ r \in BOOLEAN
    OBVIOUS
  <2>2. d = e
    OBVIOUS
  <2>3. e \in Contexts
    <3> HIDE DEF h, r
    <3> QED BY <2>1, PlaceNames, ZenonT(60) DEF Contexts
  <2> QED BY <2>2, <2>3
<1>3. /\ SubSeq(ctx, 1, k - 1) \in Seq(Contexts) /\ Len(SubSeq(ctx, 1, k - 1)) = k - 1
      /\ \A i \in 1..(k - 1) : SubSeq(ctx, 1, k - 1)[i] = ctx[i]
  <2>1. \A i \in 1..(k - 1) : ctx[i] \in Contexts
    BY <1>0, <1>1
  <2>2. k - 1 \in Int /\ 1 \in Int
    BY <1>1, <1>0
  <2> HIDE DEF k
  <2>3. /\ SubSeq(ctx, 1, k - 1) \in Seq(Contexts)
        /\ Len(SubSeq(ctx, 1, k - 1)) = IF 1 <= k - 1 THEN k - 1 - 1 + 1 ELSE 0
        /\ \A i \in 1..(k - 1 - 1 + 1) : SubSeq(ctx, 1, k - 1)[i] = ctx[1 + i - 1]
    BY <2>1, <2>2, SubSeqProperties
  <2>4. \A i \in 1..(k - 1) : SubSeq(ctx, 1, k - 1)[i] = ctx[i]
    BY <2>3, <1>1, <1>0
  <2> QED BY <2>3, <2>4, <1>1, <1>0
<1>4. ctx' = Append(SubSeq(ctx, 1, k - 1), d)
  BY DEF AlternateExit
<1>5. /\ ctx' \in Seq(Contexts) /\ Len(ctx') = k /\ ctx'[k] = d
      /\ \A i \in 1..(k - 1) : ctx'[i] = ctx[i]
  <2> HIDE DEF k, d
  <2> QED BY <1>0, <1>1, <1>2, <1>3, <1>4
<1>6. Depth' = k
  BY <1>5 DEF Depth
<1>7. /\ d.prev = ctx[k].prev /\ d.sig = ctx[k].sig /\ d.frame = ctx[k].frame
      /\ d.loc = ctx[k].loc /\ d.omask = ctx[k].omask
      /\ (ctx[k].raced => d.raced) /\ (k # Depth - 1 => d.raced)
  <2>1. /\ d.prev = c.prev /\ d.sig = c.sig /\ d.frame = c.frame
        /\ d.loc = c.loc /\ d.omask = c.omask
    BY DEF Contexts
  <2>2. d.raced = (c.raced \/ k < Depth - 1)
    BY DEF Contexts
  <2>3. k # Depth - 1 => k < Depth - 1
    BY <1>0, <1>1
  <2> HIDE DEF d, k
  <2> QED BY <2>1, <2>2, <2>3 DEF k
<1>8. InLoop(d, ctx[k])
  BY <1>0, <1>1 DEF Contexts, InLoop
<1>11. /\ d.onstack = c.onstack /\ d.sas = c.sas /\ d.exit = c.exit /\ d.lost = c.lost
       /\ d.looping = c.looping /\ d.told = c.told /\ d.sp = c.sp /\ d.level = c.level
  BY DEF Contexts
<1>9. FinishStep(k, d)
  <2>1. d.onstack = ctx[k].onstack /\ d.sas = ctx[k].sas /\ d.exit = ctx[k].exit
        /\ d.lost = ctx[k].lost /\ d.looping = ctx[k].looping /\ d.told = ctx[k].told
    <3> HIDE DEF d
    <3> QED BY <1>11
  <2>2. IF Top.exit
          THEN /\ Depth' = k /\ InLoop(d, ctx[k]) /\ d.sp = Top.sp
               /\ d.level = IF Top.sp = ctx[k].sp THEN ctx[k].level
                            ELSE IF Top.level > k THEN 0 ELSE Top.level
          ELSE d.level = IF d.sp = ctx[k].sp THEN ctx[k].level ELSE 0
    <3> HIDE DEF d
    <3> QED BY <1>6, <1>8, <1>11
  <2> HIDE DEF k, d
  <2> QED BY <1>0, <1>1, <1>2, <1>5, <1>6, <1>7, <1>8, <2>1, <2>2 DEF FinishStep, k
<1>10. fail' \in {"none", "stack"}
  BY DEF AlternateExit
<1> QED BY <1>9, <1>10

\* What the end of a handler does.
LEMMA FinishShape ==
    ASSUME TypeOK, StackInv, FinishReturn \/ FinishJump
    PROVE  /\ Depth > 1 /\ Top.place = "leaving" /\ fail = "none"
           /\ \/ (\E c : FinishStep(Top.prev, c)) /\ fail' \in {"none", "stack"}
              \/ /\ ctx' = ctx /\ fail' = "assert" /\ blocked' = Top.omask
                 /\ frames' = LiveFrames(ctx', frames) /\ UNCHANGED <<acts, hostact, sigact, taken>>
<1> USE SignalsAssumption
<1> DEFINE k == Top.prev
           f == frames[Top.frame]
<1>0. ctx \in Seq(Contexts) /\ Depth \in 1..MaxDepth /\ Top \in Contexts /\ Depth = Len(ctx)
      /\ Top = ctx[Depth]
  BY DEF TypeOK, Depth, Top
<1>1. Top.place = "leaving" /\ fail = "none"
  BY DEF FinishReturn, FinishJump, At
<1>2. Depth > 1
  BY <1>0, <1>1 DEF StackInv, InWindow
<1>3. k \in 1..(Depth - 1) /\ ctx[k] \in Contexts
  BY <1>0, <1>2 DEF StackInv
<1>4. CASE FinishJump
  <2> DEFINE c == [ctx[k] EXCEPT !.sp = Top.sp,
                                 !.level = IF Top.sp = ctx[k].sp THEN @
                                           ELSE IF Top.level > k THEN 0 ELSE Top.level]
  <2>1. c \in Contexts
    <3> DEFINE lv == IF Top.sp = ctx[k].sp THEN ctx[k].level
                     ELSE IF Top.level > k THEN 0 ELSE Top.level
    <3>0. Top.level \in 0..MaxDepth /\ ctx[k].level \in 0..MaxDepth /\ Top.sp \in Int
      BY <1>0, <1>3 DEF Contexts
    <3>1. lv \in 0..MaxDepth /\ Top.sp \in Int
      <4> HIDE DEF k
      <4> QED BY <3>0
    <3>2. c = [ctx[k] EXCEPT !.sp = Top.sp, !.level = lv]
      OBVIOUS
    <3>3. [ctx[k] EXCEPT !.sp = Top.sp, !.level = lv] \in Contexts
      <4> HIDE DEF lv, k
      <4> QED BY <1>3, <3>1, ZenonT(60) DEF Contexts
    <3> QED BY <3>2, <3>3
  <2>2. /\ c.prev = ctx[k].prev /\ c.sig = ctx[k].sig /\ c.frame = ctx[k].frame
        /\ c.loc = ctx[k].loc /\ c.omask = ctx[k].omask /\ (ctx[k].raced => c.raced)
        /\ c.hset = ctx[k].hset /\ c.helper_pc = ctx[k].helper_pc
    BY <1>3 DEF Contexts
  <2>5. /\ c.onstack = ctx[k].onstack /\ c.sas = ctx[k].sas /\ c.exit = ctx[k].exit
        /\ c.lost = ctx[k].lost /\ c.looping = ctx[k].looping /\ c.told = ctx[k].told
        /\ c.sp = Top.sp
        /\ c.level = IF Top.sp = ctx[k].sp THEN ctx[k].level
                     ELSE IF Top.level > k THEN 0 ELSE Top.level
    BY <1>3 DEF Contexts
  <2>6. Top.exit
    BY <1>4 DEF FinishJump
  <2>3. AlternateExit(k, c, Top.pc) /\ Top.pc \in Nat
    BY <1>0, <1>4 DEF FinishJump, Contexts
  <2>4. /\ blocked' = Top.omask /\ frames' = LiveFrames(ctx', frames)
        /\ UNCHANGED <<acts, hostact, sigact, taken>>
    BY <1>4 DEF FinishJump
  <2> HIDE DEF c
  <2> QED BY <1>1, <1>2, <2>1, <2>2, <2>3, <2>4, <2>5, <2>6, AlternateShape
<1>5. CASE FinishReturn
  <2> DEFINE lv == IF f.sp = ctx[k].sp THEN ctx[k].level ELSE 0
             c == [ctx[k] EXCEPT !.sp = f.sp, !.pc = f.pc, !.level = lv]
  <2>0. f \in [sig : Sigs, pc : Nat, sp : Int, given : Nat, wrong : BOOLEAN]
    BY <1>0, <1>2 DEF TypeOK
  <2>1. c \in Contexts
    <3>1. lv \in 0..MaxDepth
      BY <1>3 DEF Contexts
    <3> HIDE DEF lv, k, f
    <3> QED BY <1>3, <2>0, <3>1, ZenonT(60) DEF Contexts
  <2>2. /\ c.prev = ctx[k].prev /\ c.sig = ctx[k].sig /\ c.frame = ctx[k].frame
        /\ c.loc = ctx[k].loc /\ c.omask = ctx[k].omask /\ (ctx[k].raced => c.raced)
        /\ c.hset = ctx[k].hset /\ c.helper_pc = ctx[k].helper_pc
    BY <1>3 DEF Contexts
  <2>3. /\ c.onstack = ctx[k].onstack /\ c.sas = ctx[k].sas /\ c.exit = ctx[k].exit
        /\ c.lost = ctx[k].lost /\ c.looping = ctx[k].looping /\ c.told = ctx[k].told
        /\ c.level = IF c.sp = ctx[k].sp THEN ctx[k].level ELSE 0
    <3>1. c.sp = f.sp /\ c.level = lv
      BY <1>3 DEF Contexts
    <3> QED BY <1>3, <3>1 DEF Contexts
  <2>8. ~Top.exit
    BY <1>5 DEF FinishReturn
  <2>4. /\ blocked' = Top.omask /\ frames' = LiveFrames(ctx', frames)
        /\ UNCHANGED <<acts, hostact, sigact, taken>>
    BY <1>5 DEF FinishReturn
  <2>5. CASE ctx[k].pc # f.pc /\ Top.loc = "jit"
    <3>1. AlternateExit(k, c, f.pc) /\ f.pc \in Nat
      BY <1>5, <2>0, <2>5 DEF FinishReturn
    <3> HIDE DEF c, f
    <3> QED BY <1>1, <1>2, <2>1, <2>2, <2>3, <2>4, <2>8, <3>1, AlternateShape
  <2>6. CASE ctx[k].pc # f.pc /\ Top.loc # "jit"
    BY <1>1, <1>2, <1>5, <2>4, <2>6 DEF FinishReturn
  <2>7. CASE ctx[k].pc = f.pc
    <3> DEFINE cs == [ctx EXCEPT ![k] = c]
    <3>1. ctx' = SubSeq(cs, 1, Depth - 1) /\ fail' = fail
      BY <1>5, <2>7 DEF FinishReturn
    <3>2. SamePlace(c, ctx[k])
      BY <1>3, <2>7 DEF Contexts, SamePlace
    <3> HIDE DEF c, k
    <3>3. cs \in Seq(Contexts) /\ Len(cs) = Depth /\ cs[k] = c
          /\ \A i \in 1..Depth : i # k => cs[i] = ctx[i]
      BY <1>0, <1>3, <2>1
    <3> HIDE DEF cs
    <3>4. \A i \in 1..(Depth - 1) : cs[i] \in Contexts
      BY <3>3, <1>0
    <3>5. Depth - 1 \in Int /\ 1 \in Int /\ 1 <= Depth - 1
      BY <1>0, <1>2
    <3>6. /\ ctx' \in Seq(Contexts)
          /\ Len(ctx') = IF 1 <= Depth - 1 THEN Depth - 1 - 1 + 1 ELSE 0
          /\ \A i \in 1..(Depth - 1 - 1 + 1) : ctx'[i] = cs[1 + i - 1]
      <4> DEFINE n == Depth - 1
      <4> HIDE DEF n
      <4> QED BY <3>1, <3>4, <3>5, SubSeqProperties DEF n
    <3>7. Len(ctx') = Depth - 1 /\ \A i \in 1..(Depth - 1) : ctx'[i] = cs[i]
      BY <3>6, <3>5, <1>0
    <3>8. Depth' = Depth - 1
      BY <3>7 DEF Depth
    <3>9. ctx'[k] = c /\ \A i \in 1..(Depth - 1) : i # k => ctx'[i] = ctx[i]
      BY <3>3, <3>7, <1>3, <1>0
    <3>10. FinishStep(k, c)
      BY <1>3, <2>1, <2>2, <2>3, <2>4, <2>8, <3>2, <3>6, <3>8, <3>9 DEF FinishStep, k
    <3> QED BY <1>1, <1>2, <3>1, <3>10 DEF k
  <2> QED BY <2>5, <2>6, <2>7
<1> QED BY <1>4, <1>5

\* The tls points to the highest context that is not in a window.
LEMMA CurrentFacts ==
    ASSUME TypeOK, StackInv
    PROVE  /\ Current \in 1..Depth /\ ~InWindow(ctx[Current])
           /\ \A j \in (Current + 1)..Depth : InWindow(ctx[j])
<1>0. Depth \in 1..MaxDepth /\ Depth \in Nat
  BY SignalsAssumption DEF TypeOK
<1>1. \E k \in 1..Depth : ~InWindow(ctx[k]) /\ \A j \in (k+1)..Depth : InWindow(ctx[j])
  <2>1. CASE ~InWindow(ctx[Depth])
    BY <1>0, <2>1
  <2>2. CASE InWindow(ctx[Depth])
    <3>1. Depth \in 2..Depth
      BY <1>0, <2>2 DEF StackInv
    <3> DEFINE k == ctx[Depth].prev
    <3>2. k \in 1..(Depth - 1) /\ ~InWindow(ctx[k]) /\ \A j \in (k + 1)..(Depth - 1) : InWindow(ctx[j])
      BY <3>1 DEF StackInv
    <3>3. k \in 1..Depth /\ \A j \in (k + 1)..Depth : InWindow(ctx[j])
      BY <1>0, <2>2, <3>2
    <3> QED BY <3>2, <3>3
  <2> QED BY <2>1, <2>2
<1> QED BY <1>1 DEF Current

\* What a signal does.
LEMMA TakeShape ==
    ASSUME TypeOK, StackInv, NEW s \in Sigs, TakeSignal(s)
    PROVE  /\ TakeStep(Current, s)
           /\ restore_precise_pc(Current)[2] \in Nat
<1> USE SignalsAssumption
<1> DEFINE k == Current
           c == ctx[k]
           sp == sigsp(c, s) - 1
           p == restore_precise_pc(k)
<1>0. ctx \in Seq(Contexts) /\ Depth \in 1..MaxDepth /\ Depth = Len(ctx) /\ Depth < MaxDepth
  BY DEF TypeOK, Depth, TakeSignal
<1>1. k \in 1..Depth /\ ~InWindow(ctx[k]) /\ \A j \in (k + 1)..Depth : InWindow(ctx[j])
  BY CurrentFacts
<1>2. c \in Contexts
  BY <1>0, <1>1
<1>3. sp \in Int
  <2> HIDE DEF k
  <2>1. c.sp \in Int /\ c.sas \in AltStacks \cup {DISABLED}
    BY <1>2 DEF Contexts
  <2>2. c.sas \in [sp : Nat, size : Nat]
    BY <2>1 DEF DISABLED
  <2> QED BY <2>1, <2>2 DEF sigsp
<1>4. p[1] \in {"jit", "umeq"} /\ p[2] \in Nat
  <2> HIDE DEF k
  <2>1. c.pc \in Nat /\ c.insn \in Nat /\ c.helper_pc \in Nat
    BY <1>2 DEF Contexts
  <2> QED BY <2>1 DEF restore_precise_pc, WrongPc
<1> DEFINE old == [i \in 1..Depth |->
                    IF i = k
                      THEN [c EXCEPT !.pc = p[2], !.lost = @ \/ k > c.level,
                                     !.fresh = c.fresh /\ c.hset /\ c.place = "umeq"]
                    ELSE [ctx[i] EXCEPT !.lost = @ \/ i > c.level]]
<1>5. PICK junk \in Garbage : ctx' = Append(old, handler_context(k, s, sp, p[1], junk))
  BY DEF TakeSignal
<1>6. handler_context(k, s, sp, p[1], junk) \in Contexts
      /\ NewHandler(handler_context(k, s, sp, p[1], junk), k, s)
  <2>1. /\ junk \in Nat /\ acts[s].handler \in Nat /\ blocked \in SUBSET Sigs /\ Depth + 1 \in 0..MaxDepth
        /\ k \in 0..MaxDepth /\ s \in Sigs \cup {NoSig} /\ NoSig \in Sigs \cup {NoSig}
    BY <1>0, <1>1 DEF TypeOK, Pc, SIG_IGN
  <2>2. c.sas \in AltStacks \cup {DISABLED}
    BY <1>2 DEF Contexts
  <2>3. on_sig_stack(c, sp) \in BOOLEAN
    BY DEF on_sig_stack
  <2>4. p[1] \in {"unknown", "jit", "umeq"}
    BY <1>4
  <2> DEFINE os == on_sig_stack(c, sp)
             sas == c.sas
             lc == p[1]
             hc == [prev |-> k, sig |-> s, frame |-> sp, loc |-> lc, place |-> "init",
                    onstack |-> os, sas |-> sas, omask |-> blocked,
                    sp |-> sp, pc |-> acts[s].handler, cur |-> acts[s].handler,
                    helper_pc |-> junk, start |-> 0, insn |-> 0, tgt |-> 0, act |-> NoSig, new |-> IGNORE,
                    looping |-> TRUE, exit |-> FALSE,
                    fresh |-> TRUE, hset |-> FALSE, level |-> Depth + 1,
                    lost |-> FALSE, raced |-> FALSE, told |-> 0]
  <2>5. handler_context(k, s, sp, p[1], junk) = hc
    BY DEF handler_context
  <2>6. hc \in Contexts
    <3> HIDE DEF os, sas, lc, k, sp
    <3> QED BY <1>3, <2>1, <2>2, <2>3, <2>4, PlaceNames DEF Contexts, os, sas, lc
  <2>7. NewHandler(hc, k, s)
    <3>1. lc # "unknown"
      BY <1>4
    <3> HIDE DEF lc, k
    <3> QED BY <3>1 DEF NewHandler, os, sas, sp
  <2> QED BY <2>5, <2>6, <2>7
<1>7. \A i \in 1..Depth : /\ old[i] \in Contexts /\ SameContext(old[i], ctx[i])
                          /\ (ctx[i].raced => old[i].raced)
                          /\ old[i].lost = (ctx[i].lost \/ i > c.level)
                          /\ (i # k => old[i].pc = ctx[i].pc /\ old[i].fresh = ctx[i].fresh)
  <2> SUFFICES ASSUME NEW i \in 1..Depth
               PROVE  /\ old[i] \in Contexts /\ SameContext(old[i], ctx[i])
                      /\ (ctx[i].raced => old[i].raced)
                      /\ old[i].lost = (ctx[i].lost \/ i > c.level)
                      /\ (i # k => old[i].pc = ctx[i].pc /\ old[i].fresh = ctx[i].fresh)
    OBVIOUS
  <2>0. ctx[i] \in Contexts
    BY <1>0
  <2> DEFINE r == ctx[i].lost \/ i > c.level
  <2>3. r \in BOOLEAN
    OBVIOUS
  <2>1. CASE i = k
    <3> DEFINE fr == c.fresh /\ c.hset /\ c.place = "umeq"
               q == p[2]
    <3>1. fr \in BOOLEAN /\ q \in Nat
      BY <1>4
    <3>2. old[i] = [ctx[i] EXCEPT !.pc = q, !.lost = r, !.fresh = fr]
      BY <2>1
    <3> HIDE DEF fr, q, old, r
    <3> DEFINE d == [ctx[i] EXCEPT !.pc = q, !.lost = r, !.fresh = fr]
    <3>3. d \in Contexts
      BY <2>0, <2>3, <3>1, ZenonT(60) DEF Contexts
    <3>4. SameContext(d, ctx[i])
      BY <2>0, <2>3, <3>1, ZenonT(60) DEF Contexts, SameContext
    <3>5. d.raced = ctx[i].raced /\ d.lost = r
      BY <2>0, <2>3, <3>1, ZenonT(60) DEF Contexts
    <3> HIDE DEF d
    <3> QED BY <2>1, <3>2, <3>3, <3>4, <3>5 DEF d, r
  <2>2. CASE i # k
    <3>2. old[i] = [ctx[i] EXCEPT !.lost = r]
      BY <2>2
    <3> HIDE DEF r, old
    <3>3. /\ [ctx[i] EXCEPT !.lost = r] \in Contexts
          /\ SameContext([ctx[i] EXCEPT !.lost = r], ctx[i])
          /\ [ctx[i] EXCEPT !.lost = r].lost = r
          /\ [ctx[i] EXCEPT !.lost = r].raced = ctx[i].raced
          /\ [ctx[i] EXCEPT !.lost = r].pc = ctx[i].pc
          /\ [ctx[i] EXCEPT !.lost = r].fresh = ctx[i].fresh
      BY <2>0, <2>3 DEF Contexts, SameContext
    <3> QED BY <3>2, <3>3 DEF r
  <2> QED BY <2>1, <2>2
<1>8. old[k].pc = p[2] /\ old[k].fresh = (c.fresh /\ c.hset /\ c.place = "umeq")
  <2> DEFINE fr == c.fresh /\ c.hset /\ c.place = "umeq"
             r == c.lost \/ k > c.level
             q == p[2]
  <2>1. old[k] = [c EXCEPT !.pc = q, !.lost = r, !.fresh = fr]
    BY <1>1
  <2> HIDE DEF old, fr, q, r
  <2>2. /\ [c EXCEPT !.pc = q, !.lost = r, !.fresh = fr].pc = q
        /\ [c EXCEPT !.pc = q, !.lost = r, !.fresh = fr].fresh = fr
    <3> HIDE DEF c
    <3> QED BY <1>2 DEF Contexts
  <2> QED BY <2>1, <2>2 DEF fr, q
<1>9. old \in Seq(Contexts) /\ Len(old) = Depth
  <2>1. old \in [1..Depth -> Contexts]
    BY <1>7
  <2> HIDE DEF old
  <2> QED BY <2>1, <1>0, SMTT(30)
<1>10. /\ ctx' \in Seq(Contexts) /\ Len(ctx') = Depth + 1
       /\ ctx'[Depth + 1] = handler_context(k, s, sp, p[1], junk)
       /\ \A i \in 1..Depth : ctx'[i] = old[i]
  <2> DEFINE hc == handler_context(k, s, sp, p[1], junk)
  <2> HIDE DEF hc, old
  <2> QED BY <1>5, <1>6, <1>9, <1>0 DEF hc
<1>11. Depth' = Depth + 1
  BY <1>10 DEF Depth
<1> HIDE DEF old, k, p, sp
<1>12. TakeStep(k, s)
  <2>1. NewHandler(ctx'[Depth + 1], k, s)
    BY <1>6, <1>10
  <2> QED BY <1>0, <1>1, <1>7, <1>8, <1>10, <1>11, <2>1 DEF TakeStep, p
<1> QED BY <1>4, <1>12 DEF k, p

-----------------------------------------------------------------------------
(* Types. *)

\* The initial state.
LEMMA TypeInit ==
    ASSUME Init
    PROVE  TypeOK /\ StackInv
<1> USE SignalsAssumption
<1>1. PICK junk \in Garbage :
         ctx = <<[prev |-> 0, sig |-> NoSig, frame |-> 0, loc |-> "unknown", place |-> "umeq",
                  onstack |-> FALSE, sas |-> DISABLED, omask |-> {},
                  sp |-> MainSp, pc |-> 1, cur |-> 1,
                  helper_pc |-> junk, start |-> 0, insn |-> 0, tgt |-> 0, act |-> NoSig, new |-> IGNORE,
                  looping |-> TRUE, exit |-> FALSE,
                  fresh |-> TRUE, hset |-> FALSE, level |-> 1,
                  lost |-> FALSE, raced |-> FALSE, told |-> 0]>>
  BY DEF Init
<1>2. Len(ctx) = 1 /\ ctx[1] \in Contexts /\ ctx[1].place = "umeq"
  <2>1. junk \in Nat
    OBVIOUS
  <2> QED BY <1>1, <2>1, PlaceNames DEF Contexts
<1>3. ctx \in Seq(Contexts) /\ Depth = 1
  BY <1>1, <1>2 DEF Depth
<1>4. StackInv
  BY <1>2, <1>3 DEF StackInv, InWindow
<1>5. DOMAIN frames = {} /\ {ctx[i].frame : i \in 2..Depth} = {}
  BY <1>3 DEF Init
<1>6. acts \in [Sigs -> Actions] /\ hostact \in [Sigs -> Actions \cup {IGNORE}]
  BY DEF Init, Pc
<1> QED BY <1>3, <1>4, <1>5, <1>6 DEF TypeOK, Init

\* The frames that stay are those of the contexts that stay.
LEMMA FramesLive ==
    ASSUME TypeOK, frames' = LiveFrames(ctx', frames), Depth' <= Depth, Depth' \in Nat,
           \A i \in 1..Depth' : ctx'[i].frame = ctx[i].frame
    PROVE  /\ DOMAIN frames' = {ctx'[i].frame : i \in 2..Depth'}
           /\ \A a \in DOMAIN frames' : a \in DOMAIN frames /\ frames'[a] = frames[a]
<1>0. Depth \in Nat /\ Len(ctx') = Depth'
  BY SignalsAssumption DEF TypeOK, Depth
<1>1. frames' = [a \in {ctx'[i].frame : i \in 2..Depth'} |-> frames[a]]
  BY <1>0 DEF LiveFrames
<1>2. DOMAIN frames' = {ctx'[i].frame : i \in 2..Depth'}
  BY <1>1
<1>3. ASSUME NEW a \in {ctx'[i].frame : i \in 2..Depth'}
      PROVE  a \in DOMAIN frames /\ frames'[a] = frames[a]
  <2>1. PICK i \in 2..Depth' : a = ctx'[i].frame
    OBVIOUS
  <2>2. i \in 2..Depth /\ a = ctx[i].frame
    BY <1>0, <2>1
  <2>3. DOMAIN frames = {ctx[n].frame : n \in 2..Depth}
    BY DEF TypeOK
  <2> QED BY <1>1, <2>2, <2>3
<1> QED BY <1>2, <1>3

\* The contexts that the end of a handler leaves.
LEMMA FinishPrefix ==
    ASSUME TypeOK, StackInv, NEW c, NEW k, FinishStep(k, c)
    PROVE  /\ Depth \in Nat /\ Depth' \in Nat /\ Depth' <= Depth - 1 /\ k <= Depth' /\ k \in 1..Depth
           /\ \A i \in 1..Depth' :
                 /\ ctx'[i].frame = ctx[i].frame /\ ctx'[i].sig = ctx[i].sig
                 /\ ctx'[i].prev = ctx[i].prev /\ ctx'[i].omask = ctx[i].omask
                 /\ ctx[i].raced => ctx'[i].raced
           /\ \A i \in 1..Depth' : i # k => ctx'[i] = ctx[i]
           /\ ctx'[k] = c
<1>1. Depth \in Nat /\ k \in 1..(Depth - 1) /\ Depth' \in {k, Depth - 1}
  BY SignalsAssumption DEF TypeOK, FinishStep
<1>2. /\ ctx'[k] = c /\ \A i \in 1..Depth' : i # k => ctx'[i] = ctx[i]
      /\ c.prev = ctx[k].prev /\ c.sig = ctx[k].sig /\ c.frame = ctx[k].frame
      /\ c.omask = ctx[k].omask /\ (ctx[k].raced => c.raced)
  BY DEF FinishStep
<1> QED BY <1>1, <1>2

\* Types, for a step of the context on top.
LEMMA TypeLocal ==
    ASSUME TypeOK, NEW c, LocalStep(c), UNCHANGED <<frames, blocked, taken, fail>>,
           acts' \in [Sigs -> Actions], hostact' \in [Sigs -> Actions \cup {IGNORE}],
           sigact' \in [Sigs -> {"told", "call", "mixed"}]
    PROVE  TypeOK'
<1>1. /\ ctx' \in Seq(Contexts) /\ Depth' \in 1..MaxDepth
      /\ {ctx'[i].frame : i \in 2..Depth'} = {ctx[i].frame : i \in 2..Depth}
  BY LocalShape
<1> QED BY <1>1 DEF TypeOK

\* Types, for a signal.
LEMMA TypeTake ==
    ASSUME TypeOK, StackInv, NEW s \in Sigs, TakeSignal(s)
    PROVE  TypeOK'
<1> USE SignalsAssumption
<1> DEFINE k == Current
           c == ctx[k]
           sp == sigsp(c, s) - 1
           p == restore_precise_pc(k)
<1>1. TakeStep(k, s) /\ p[2] \in Nat
  BY TakeShape
<1>2. ctx' \in Seq(Contexts) /\ Depth' \in 1..MaxDepth /\ Depth' = Depth + 1 /\ Depth \in Nat
      /\ k \in 1..Depth
  BY <1>1 DEF TakeStep, TypeOK
<1>3. ctx'[Depth + 1].frame = sp /\ \A i \in 1..Depth : ctx'[i].frame = ctx[i].frame
  BY <1>1 DEF TakeStep, SameContext, NewHandler
<1>4. {ctx'[i].frame : i \in 2..Depth'} = {ctx[i].frame : i \in 2..Depth} \cup {sp}
  <2> HIDE DEF sp
  <2>1. \A i \in 2..Depth' : i = Depth + 1 \/ (i \in 2..Depth /\ i \in 1..Depth)
    BY <1>2
  <2>2. Depth + 1 \in 2..Depth' /\ \A i \in 2..Depth : i \in 2..Depth' /\ i \in 1..Depth
    BY <1>2 DEF TypeOK
  <2> QED BY <2>1, <2>2, <1>3
<1> DEFINE F == [sig : Sigs, pc : Nat, sp : Int, given : Nat, wrong : BOOLEAN]
           g == [sig |-> s, pc |-> p[2], sp |-> c.sp, given |-> p[2],
                 wrong |-> Reliable(c) /\ p[2] # TruePc(c)]
<1>5. g \in F
  <2>1. c.sp \in Int /\ c.level \in 0..MaxDepth
    <3>1. c \in Contexts
      <4> HIDE DEF k
      <4> QED BY <1>2 DEF TypeOK, Depth
    <3> HIDE DEF c
    <3> QED BY <3>1 DEF Contexts
  <2>2. (Reliable(c) /\ p[2] # TruePc(c)) \in BOOLEAN
    OBVIOUS
  <2> DEFINE w == Reliable(c) /\ p[2] # TruePc(c)
             q == p[2]
  <2> HIDE DEF w, c, q
  <2> QED BY <1>1, <2>1, <2>2 DEF w, q
<1>6. frames' = [a \in DOMAIN frames \cup {sp} |-> IF a = sp THEN g ELSE frames[a]]
  BY DEF TakeSignal
<1>7. DOMAIN frames' = {ctx'[i].frame : i \in 2..Depth'} /\ \A a \in DOMAIN frames' : frames'[a] \in F
  <2>1. DOMAIN frames = {ctx[i].frame : i \in 2..Depth} /\ \A a \in DOMAIN frames : frames[a] \in F
    BY DEF TypeOK
  <2> HIDE DEF F, g, sp
  <2> QED BY <1>4, <1>5, <1>6, <2>1
<1>8. blocked' \subseteq Sigs /\ taken' \in 0..MaxSignals
  BY DEF TakeSignal, TypeOK
<1>9. UNCHANGED <<acts, hostact, sigact, fail>>
  BY DEF TakeSignal
<1> QED BY <1>2, <1>7, <1>8, <1>9 DEF TypeOK

\* Types, for the end of a handler.
LEMMA TypeFinish ==
    ASSUME TypeOK, StackInv, FinishReturn \/ FinishJump
    PROVE  TypeOK'
<1>0. Depth \in 1..MaxDepth /\ Depth \in Nat /\ Top \in Contexts
  BY SignalsAssumption DEF TypeOK, Depth, Top
<1>a. Top.omask \subseteq Sigs
  BY <1>0 DEF Contexts
<1>1. ASSUME NEW c, FinishStep(Top.prev, c), fail' \in {"none", "stack"}
      PROVE  TypeOK'
  <2>1. /\ Depth' \in Nat /\ Depth' <= Depth /\ Depth' \in 1..MaxDepth
        /\ \A i \in 1..Depth' : ctx'[i].frame = ctx[i].frame
    <3> DEFINE k == Top.prev
    <3>1. k \in 1..(Depth - 1) /\ FinishStep(k, c)
      BY <1>1 DEF FinishStep
    <3> HIDE DEF k
    <3>2. /\ Depth' \in Nat /\ Depth' <= Depth - 1 /\ k <= Depth'
          /\ \A i \in 1..Depth' : ctx'[i].frame = ctx[i].frame
      BY <3>1, FinishPrefix
    <3> QED BY <3>1, <3>2, <1>0, SignalsAssumption
  <2>2. frames' = LiveFrames(ctx', frames) /\ blocked' = Top.omask /\ ctx' \in Seq(Contexts)
        /\ UNCHANGED <<acts, hostact, sigact, taken>>
    BY <1>1 DEF FinishStep
  <2>3. /\ DOMAIN frames' = {ctx'[i].frame : i \in 2..Depth'}
        /\ \A a \in DOMAIN frames' : a \in DOMAIN frames /\ frames'[a] = frames[a]
    BY <2>1, <2>2, FramesLive
  <2> QED BY <1>1, <1>a, <2>1, <2>2, <2>3 DEF TypeOK
<1>2. ASSUME ctx' = ctx, fail' = "assert", blocked' = Top.omask,
             frames' = LiveFrames(ctx', frames), UNCHANGED <<acts, hostact, sigact, taken>>
      PROVE  TypeOK'
  <2>1. Depth' = Depth
    BY <1>2 DEF Depth
  <2>2. /\ DOMAIN frames' = {ctx'[i].frame : i \in 2..Depth'}
        /\ \A a \in DOMAIN frames' : a \in DOMAIN frames /\ frames'[a] = frames[a]
    BY <1>0, <1>2, <2>1, FramesLive
  <2> QED BY <1>2, <1>a, <2>1, <2>2 DEF TypeOK
<1> QED BY <1>1, <1>2, FinishShape

\* Every step keeps the types.
LEMMA TypeStep ==
    ASSUME TypeOK, StackInv, [Next]_vars
    PROVE  TypeOK'
<1> USE SignalsAssumption
<1>0. acts \in [Sigs -> Actions] /\ hostact \in [Sigs -> Actions \cup {IGNORE}]
      /\ sigact \in [Sigs -> {"told", "call", "mixed"}]
  BY DEF TypeOK
<1>1. CASE ContextActions
  <2>1. OnlyContext
    BY <1>1, OnlyContextChanges
  <2>2. \E c : LocalStep(c)
    BY <1>1, LocalActions
  <2> QED BY <1>0, <2>1, <2>2, TypeLocal DEF OnlyContext
<1>2. CASE SigactionKernel
  <2>1. \E c : LocalStep(c)
    BY <1>2, LocalActions DEF TableActions
  <2>3. Top.new \in Actions \cup {IGNORE}
    <3>1. Top \in Contexts
      BY DEF TypeOK, Top, Depth
    <3> QED BY <3>1 DEF Contexts
  <2>2. /\ hostact' \in [Sigs -> Actions \cup {IGNORE}] /\ sigact' \in [Sigs -> {"told", "call", "mixed"}]
        /\ UNCHANGED <<frames, acts, blocked, taken, fail>>
    BY <1>0, <1>2, <2>3 DEF SigactionKernel
  <2> QED BY <1>0, <2>1, <2>2, TypeLocal
<1>3. ASSUME NEW s \in CallSigs, NEW a \in Actions, SigactionTable(s, a)
      PROVE  TypeOK'
  <2>1. \E c : LocalStep(c)
    BY <1>3, LocalActions DEF TableActions
  <2>2. /\ acts' \in [Sigs -> Actions] /\ sigact' \in [Sigs -> {"told", "call", "mixed"}]
        /\ UNCHANGED <<frames, hostact, blocked, taken, fail>>
    BY <1>0, <1>3 DEF SigactionTable
  <2> QED BY <1>0, <2>1, <2>2, TypeLocal
<1>4. ASSUME NEW t \in Pc, SetFramePc(t)
      PROVE  TypeOK'
  <2>1. UNCHANGED <<ctx, acts, hostact, sigact, blocked, taken, fail>> /\ UNCHANGED Depth
    BY <1>4 DEF SetFramePc, Depth
  <2>2. frames' = [frames EXCEPT ![Top.frame].pc = t] /\ t \in Nat
    BY <1>4 DEF SetFramePc, Pc
  <2>3. DOMAIN frames' = DOMAIN frames
    BY <2>2
  <2> DEFINE F == [sig : Sigs, pc : Nat, sp : Int, given : Nat, wrong : BOOLEAN]
  <2>4. \A a \in DOMAIN frames : frames[a] \in F
    BY DEF TypeOK
  <2>5. \A a \in DOMAIN frames : frames'[a] \in F
    <3> SUFFICES ASSUME NEW a \in DOMAIN frames
                 PROVE  frames'[a] \in F
      OBVIOUS
    <3>1. frames'[a] = IF a = Top.frame THEN [frames[a] EXCEPT !.pc = t] ELSE frames[a]
      BY <2>2
    <3>2. [frames[a] EXCEPT !.pc = t] \in F
      BY <2>2, <2>4
    <3> QED BY <3>1, <3>2, <2>4
  <2> QED BY <2>1, <2>3, <2>5 DEF TypeOK
<1>5. ASSUME NEW s \in Sigs, TakeSignal(s)
      PROVE  TypeOK'
  BY <1>5, TypeTake
<1>6. CASE FinishReturn \/ FinishJump
  BY <1>6, TypeFinish
<1>7. CASE UNCHANGED vars
  <2>1. UNCHANGED Depth
    BY <1>7 DEF vars, Depth
  <2> QED BY <1>7, <2>1 DEF vars, TypeOK
<1> QED BY <1>1, <1>2, <1>3, <1>4, <1>5, <1>6, <1>7 DEF Next, Guest, ContextActions, TableActions

-----------------------------------------------------------------------------
(* The stack of contexts. *)

\* The order of contexts and windows, for a step of the context on top.
LEMMA StackLocal ==
    ASSUME TypeOK, StackInv, NEW c, LocalStep(c)
    PROVE  StackInv'
<1>0. Depth \in Nat /\ Depth >= 1 /\ Top = ctx[Depth]
  BY SignalsAssumption DEF TypeOK, Top, Depth
<1>1. Depth' = Depth /\ ctx'[Depth] = c /\ \A i \in 1..(Depth - 1) : ctx'[i] = ctx[i]
  BY LocalShape
<1>2. c.prev = ctx[Depth].prev /\ (InWindow(c) => Depth > 1)
  BY <1>0 DEF LocalStep
<1>3. ~InWindow(ctx'[1])
  BY <1>0, <1>1, <1>2 DEF StackInv
<1>4. ASSUME NEW i \in 2..Depth
      PROVE  /\ ctx'[i].prev \in 1..(i - 1) /\ ~InWindow(ctx'[ctx'[i].prev])
             /\ \A j \in (ctx'[i].prev + 1)..(i - 1) : InWindow(ctx'[j])
  <2>1. ctx'[i].prev = ctx[i].prev
    BY <1>0, <1>1, <1>2
  <2>2. /\ ctx[i].prev \in 1..(i - 1) /\ ~InWindow(ctx[ctx[i].prev])
        /\ \A j \in (ctx[i].prev + 1)..(i - 1) : InWindow(ctx[j])
    BY DEF StackInv
  <2>3. \A j \in 1..(i - 1) : ctx'[j] = ctx[j]
    BY <1>0, <1>1
  <2> QED BY <2>1, <2>2, <2>3
<1> QED BY <1>1, <1>3, <1>4 DEF StackInv

\* The same for a signal.
LEMMA StackTake ==
    ASSUME TypeOK, StackInv, NEW s \in Sigs, NEW k, TakeStep(k, s)
    PROVE  StackInv'
<1>0. Depth \in Nat /\ Depth >= 1
  BY SignalsAssumption DEF TypeOK
<1>1. /\ k \in 1..Depth /\ ~InWindow(ctx[k]) /\ \A j \in (k + 1)..Depth : InWindow(ctx[j])
      /\ Depth' = Depth + 1 /\ ctx'[Depth + 1].prev = k
  BY DEF TakeStep, NewHandler
<1>2. \A i \in 1..Depth : (InWindow(ctx'[i]) <=> InWindow(ctx[i])) /\ ctx'[i].prev = ctx[i].prev
  BY DEF TakeStep, SameContext, InWindow
<1>3. ~InWindow(ctx'[1])
  BY <1>0, <1>2 DEF StackInv
<1>4. ASSUME NEW i \in 2..(Depth + 1)
      PROVE  /\ ctx'[i].prev \in 1..(i - 1) /\ ~InWindow(ctx'[ctx'[i].prev])
             /\ \A j \in (ctx'[i].prev + 1)..(i - 1) : InWindow(ctx'[j])
  <2>1. CASE i = Depth + 1
    BY <1>0, <1>1, <1>2, <2>1
  <2>2. CASE i \in 2..Depth
    <3>1. /\ ctx[i].prev \in 1..(i - 1) /\ ~InWindow(ctx[ctx[i].prev])
          /\ \A j \in (ctx[i].prev + 1)..(i - 1) : InWindow(ctx[j])
      BY <2>2 DEF StackInv
    <3> QED BY <1>0, <1>2, <2>2, <3>1
  <2> QED BY <1>0, <2>1, <2>2
<1> QED BY <1>1, <1>3, <1>4 DEF StackInv

\* The same for the end of a handler.
LEMMA StackFinish ==
    ASSUME TypeOK, StackInv, NEW k, NEW c, FinishStep(k, c), ~InWindow(ctx[k])
    PROVE  StackInv'
<1>1. /\ Depth \in Nat /\ Depth' \in Nat /\ Depth' <= Depth - 1 /\ k <= Depth' /\ k \in 1..Depth
      /\ \A i \in 1..Depth' : ctx'[i].prev = ctx[i].prev
      /\ \A i \in 1..Depth' : i # k => ctx'[i] = ctx[i]
      /\ ctx'[k] = c
  BY FinishPrefix
<1>2. ~InWindow(c)
  <2>1. c.place = ctx[k].place \/ c.place = "umeq"
    BY DEF FinishStep, SamePlace, InLoop
  <2> QED BY <2>1 DEF InWindow
<1>3. \A i \in 1..Depth' : InWindow(ctx'[i]) <=> InWindow(ctx[i])
  BY <1>1, <1>2
<1>4. ~InWindow(ctx'[1])
  BY <1>1, <1>3 DEF StackInv
<1>5. ASSUME NEW i \in 2..Depth'
      PROVE  /\ ctx'[i].prev \in 1..(i - 1) /\ ~InWindow(ctx'[ctx'[i].prev])
             /\ \A j \in (ctx'[i].prev + 1)..(i - 1) : InWindow(ctx'[j])
  <2>1. /\ ctx[i].prev \in 1..(i - 1) /\ ~InWindow(ctx[ctx[i].prev])
        /\ \A j \in (ctx[i].prev + 1)..(i - 1) : InWindow(ctx[j])
    BY <1>1 DEF StackInv
  <2> QED BY <1>1, <1>3, <2>1
<1> QED BY <1>4, <1>5 DEF StackInv

\* Every step is one of four kinds.
LEMMA StepKinds ==
    ASSUME TypeOK, StackInv, [Next]_vars
    PROVE  \/ /\ (\E c : LocalStep(c)) /\ UNCHANGED <<frames, blocked, fail>>
              /\ \/ UNCHANGED <<acts, hostact, sigact>>
                 \/ TableActions
           \/ UNCHANGED <<ctx, acts, hostact, sigact, blocked, fail>>
              /\ (UNCHANGED frames \/ \E t \in Pc : SetFramePc(t))
           \/ \E s \in Sigs : TakeSignal(s) /\ TakeStep(Current, s)
           \/ /\ FinishReturn \/ FinishJump
              /\ Depth > 1 /\ Top.prev \in 1..(Depth - 1) /\ ~InWindow(ctx[Top.prev])
              /\ \/ (\E c : FinishStep(Top.prev, c)) /\ fail' \in {"none", "stack"}
                 \/ /\ ctx' = ctx /\ fail' = "assert" /\ blocked' = Top.omask
                    /\ frames' = LiveFrames(ctx', frames) /\ UNCHANGED <<acts, hostact, sigact, taken>>
<1>1. CASE ContextActions
  <2>1. OnlyContext
    BY <1>1, OnlyContextChanges
  <2> QED BY <1>1, <2>1, LocalActions DEF OnlyContext
<1>2. CASE TableActions
  BY <1>2, LocalActions DEF TableActions, SigactionKernel, SigactionTable
<1>3. CASE \E t \in Pc : SetFramePc(t)
  BY <1>3 DEF SetFramePc
<1>4. ASSUME NEW s \in Sigs, TakeSignal(s)
      PROVE  TakeStep(Current, s)
  BY <1>4, TakeShape
<1>5. CASE FinishReturn \/ FinishJump
  <2>1. Depth > 1 /\ Depth \in Nat /\ Top = ctx[Depth]
    BY <1>5, FinishShape, SignalsAssumption DEF TypeOK, Top, Depth
  <2>2. Top.prev \in 1..(Depth - 1) /\ ~InWindow(ctx[Top.prev])
    BY <2>1 DEF StackInv
  <2> QED BY <1>5, <2>1, <2>2, FinishShape
<1>6. CASE UNCHANGED vars
  BY <1>6 DEF vars
<1> QED BY <1>1, <1>2, <1>3, <1>4, <1>5, <1>6 DEF Next, Guest, ContextActions, TableActions

\* Every step keeps the order of contexts and windows.
LEMMA StackStep ==
    ASSUME TypeOK, StackInv, [Next]_vars
    PROVE  StackInv'
<1>1. ASSUME ctx' = ctx
      PROVE  StackInv'
  BY <1>1 DEF StackInv, Depth, InWindow
<1> QED BY <1>1, StepKinds, StackLocal, StackTake, StackFinish

\* Contexts, frames, the guest's table and the kernel's have their types.
THEOREM SignalsTypeOK == Spec => []TypeOK
<1>1. Init => TypeOK /\ StackInv
  BY TypeInit
<1>2. TypeOK /\ StackInv /\ [Next]_vars => (TypeOK /\ StackInv)'
  BY TypeStep, StackStep
<1> QED BY <1>1, <1>2, PTL DEF Spec

-----------------------------------------------------------------------------
(* The signals the kernel holds back. *)

\* Every step keeps the masks right.
LEMMA MaskStep ==
    ASSUME TypeOK, StackInv, MaskInv, [Next]_vars
    PROVE  MaskInv'
<1>0. Depth \in Nat /\ Depth >= 1 /\ Top = ctx[Depth]
  BY SignalsAssumption DEF TypeOK, Depth, Top
<1>a. ASSUME Depth' = Depth, \A i \in 1..Depth : /\ ctx'[i].sig = ctx[i].sig
                                              /\ ctx'[i].omask = ctx[i].omask
                                              /\ ctx'[i].raced = ctx[i].raced
      PROVE  \A n \in 2..Depth' : (\A i \in 1..(n - 1) : ~ctx'[i].raced) =>
                ctx'[n].omask = {ctx'[i].sig : i \in 2..(n - 1)}
  <2> SUFFICES ASSUME NEW n \in 2..Depth, \A i \in 1..(n - 1) : ~ctx'[i].raced
               PROVE  ctx'[n].omask = {ctx'[i].sig : i \in 2..(n - 1)}
    BY <1>a
  <2>1. \A i \in 1..(n - 1) : ~ctx[i].raced
    BY <1>a, <1>0
  <2>2. ctx[n].omask = {ctx[i].sig : i \in 2..(n - 1)}
    BY <2>1 DEF MaskInv
  <2>3. {ctx'[i].sig : i \in 2..(n - 1)} = {ctx[i].sig : i \in 2..(n - 1)}
    BY <1>a, <1>0
  <2>4. ctx'[n].omask = ctx[n].omask
    BY <1>a, <1>0
  <2> QED BY <2>2, <2>3, <2>4
<1>b. ASSUME Depth' = Depth, \A i \in 1..Depth : /\ ctx'[i].sig = ctx[i].sig
                                              /\ ctx'[i].omask = ctx[i].omask
                                              /\ ctx'[i].raced = ctx[i].raced,
             UNCHANGED <<blocked, fail>>
      PROVE  MaskInv'
  <2>1. {ctx'[i].sig : i \in 2..Depth} = {ctx[i].sig : i \in 2..Depth}
    BY <1>b, <1>0
  <2>2. MaskFollowsContexts'
    BY <1>0, <1>b, <2>1 DEF MaskInv, MaskFollowsContexts
  <2> QED BY <1>a, <1>b, <2>2 DEF MaskInv
<1>1. ASSUME NEW c, LocalStep(c), UNCHANGED <<blocked, fail>>
      PROVE  MaskInv'
  <2>1. Depth' = Depth /\ ctx'[Depth] = c /\ \A i \in 1..(Depth - 1) : ctx'[i] = ctx[i]
    BY <1>1, LocalShape
  <2>2. c.sig = ctx[Depth].sig /\ c.omask = ctx[Depth].omask /\ c.raced = ctx[Depth].raced
    BY <1>0, <1>1 DEF LocalStep
  <2>3. \A i \in 1..Depth : /\ ctx'[i].sig = ctx[i].sig /\ ctx'[i].omask = ctx[i].omask
                            /\ ctx'[i].raced = ctx[i].raced
    BY <1>0, <2>1, <2>2
  <2> QED BY <1>1, <1>b, <2>1, <2>3
<1>2. ASSUME ctx' = ctx
      PROVE  Depth' = Depth /\ \A i \in 1..Depth : /\ ctx'[i].sig = ctx[i].sig /\ ctx'[i].omask = ctx[i].omask
                                                   /\ ctx'[i].raced = ctx[i].raced
  BY <1>2 DEF Depth
<1>3. ASSUME NEW s \in Sigs, TakeSignal(s), NEW k, TakeStep(k, s)
      PROVE  MaskInv'
  <2>1. /\ Depth' = Depth + 1 /\ ctx'[Depth + 1].sig = s /\ ctx'[Depth + 1].omask = blocked
        /\ \A i \in 1..Depth : /\ ctx'[i].sig = ctx[i].sig /\ ctx'[i].omask = ctx[i].omask
                               /\ (ctx[i].raced => ctx'[i].raced)
    BY <1>3 DEF TakeStep, NewHandler, SameContext
  <2>2. fail = "none" /\ blocked' = blocked \cup {s}
    BY <1>3 DEF TakeSignal
  <2>3. ASSUME \A i \in 1..Depth : ~ctx'[i].raced
        PROVE  blocked = {ctx'[i].sig : i \in 2..Depth}
    <3>1. \A i \in 1..Depth : ~ctx[i].raced
      BY <2>1, <2>3
    <3>2. blocked = {ctx[i].sig : i \in 2..Depth}
      BY <2>2, <3>1 DEF MaskInv, MaskFollowsContexts
    <3>3. {ctx'[i].sig : i \in 2..Depth} = {ctx[i].sig : i \in 2..Depth}
      BY <2>1, <1>0
    <3> QED BY <3>2, <3>3
  <2>4. ASSUME NEW n \in 2..(Depth + 1), \A i \in 1..(n - 1) : ~ctx'[i].raced
        PROVE  ctx'[n].omask = {ctx'[i].sig : i \in 2..(n - 1)}
    <3>1. CASE n = Depth + 1
      BY <1>0, <2>1, <2>3, <2>4, <3>1
    <3>2. CASE n \in 2..Depth
      <4>1. \A i \in 1..(n - 1) : ~ctx[i].raced
        BY <1>0, <2>1, <2>4, <3>2
      <4>2. ctx[n].omask = {ctx[i].sig : i \in 2..(n - 1)}
        BY <3>2, <4>1 DEF MaskInv
      <4>3. {ctx'[i].sig : i \in 2..(n - 1)} = {ctx[i].sig : i \in 2..(n - 1)}
        BY <1>0, <2>1, <3>2
      <4> QED BY <1>0, <2>1, <3>2, <4>2, <4>3
    <3> QED BY <1>0, <3>1, <3>2
  <2>5. MaskFollowsContexts'
    <3> SUFFICES ASSUME \A i \in 1..(Depth + 1) : ~ctx'[i].raced
                 PROVE  blocked' = {ctx'[i].sig : i \in 2..(Depth + 1)}
      BY <2>1 DEF MaskFollowsContexts
    <3>1. blocked = {ctx'[i].sig : i \in 2..Depth}
      BY <1>0, <2>3
    <3>2. {ctx'[i].sig : i \in 2..(Depth + 1)} = {ctx'[i].sig : i \in 2..Depth} \cup {ctx'[Depth + 1].sig}
      BY <1>0
    <3> QED BY <2>1, <2>2, <3>1, <3>2
  <2> QED BY <2>1, <2>4, <2>5 DEF MaskInv
<1>4. ASSUME NEW k, NEW c, FinishStep(k, c), Depth > 1
      PROVE  MaskInv'
  <2>1. /\ Depth' \in Nat /\ Depth' <= Depth - 1 /\ k <= Depth' /\ k \in 1..Depth
        /\ \A i \in 1..Depth' : /\ ctx'[i].sig = ctx[i].sig /\ ctx'[i].omask = ctx[i].omask
                                /\ (ctx[i].raced => ctx'[i].raced)
        /\ ctx'[k] = c
    BY <1>4, FinishPrefix
  <2>a. Depth' \in Nat /\ Depth' <= Depth - 1 /\ Depth \in Nat
    BY <1>0, <2>1
  <2>2. blocked' = ctx[Depth].omask /\ (Depth' # Depth - 1 => c.raced)
    BY <1>0, <1>4 DEF FinishStep
  <2>3. ASSUME NEW n \in 2..Depth, n - 1 <= Depth', \A i \in 1..(n - 1) : ~ctx'[i].raced
        PROVE  ctx[n].omask = {ctx'[i].sig : i \in 2..(n - 1)}
    <3>1. \A i \in 1..(n - 1) : ~ctx[i].raced
      BY <2>1, <2>3
    <3>2. ctx[n].omask = {ctx[i].sig : i \in 2..(n - 1)}
      BY <3>1 DEF MaskInv
    <3>3. \A i \in 2..(n - 1) : ctx'[i].sig = ctx[i].sig
      <4>1. \A i \in 2..(n - 1) : i \in 1..Depth'
        BY <2>a, <2>3
      <4>2. \A i \in 1..Depth' : ctx'[i].sig = ctx[i].sig
        BY <2>1
      <4> QED BY <4>1, <4>2
    <3>4. {ctx'[i].sig : i \in 2..(n - 1)} = {ctx[i].sig : i \in 2..(n - 1)}
      BY <3>3
    <3> QED BY <3>2, <3>4
  <2>4. \A n \in 2..Depth' : (\A i \in 1..(n - 1) : ~ctx'[i].raced) =>
            ctx'[n].omask = {ctx'[i].sig : i \in 2..(n - 1)}
    <3> SUFFICES ASSUME NEW n \in 2..Depth', \A i \in 1..(n - 1) : ~ctx'[i].raced
                 PROVE  ctx'[n].omask = {ctx'[i].sig : i \in 2..(n - 1)}
      OBVIOUS
    <3>1. n \in 2..Depth /\ n - 1 <= Depth' /\ n \in 1..Depth'
      BY <2>a
    <3>2. ctx'[n].omask = ctx[n].omask
      BY <2>1, <3>1
    <3> QED BY <2>3, <3>1, <3>2
  <2>5. MaskFollowsContexts'
    <3> SUFFICES ASSUME \A i \in 1..Depth' : ~ctx'[i].raced
                 PROVE  blocked' = {ctx'[i].sig : i \in 2..Depth'}
      BY DEF MaskFollowsContexts
    <3>1. Depth' = Depth - 1
      BY <2>1, <2>2
    <3>0. \A i \in 1..(Depth - 1) : ~ctx'[i].raced
      BY <3>1
    <3>3. Depth \in 2..Depth /\ Depth - 1 <= Depth'
      BY <1>0, <1>4, <3>1
    <3>2. ctx[Depth].omask = {ctx'[i].sig : i \in 2..(Depth - 1)}
      BY <2>3, <3>0, <3>3
    <3> QED BY <2>2, <3>1, <3>2
  <2> QED BY <2>4, <2>5 DEF MaskInv
<1>5. ASSUME ctx' = ctx, fail' = "assert"
      PROVE  MaskInv'
  <2>1. MaskFollowsContexts'
    BY <1>5 DEF MaskFollowsContexts
  <2> QED BY <1>2, <1>5, <1>a, <2>1 DEF MaskInv
<1> QED BY <1>1, <1>2, <1>3, <1>4, <1>5, <1>b, StepKinds

\* The kernel holds back exactly the signals being handled, however handlers
\* nest, return and are jumped out of, as long as none is abandoned in a
\* window in which the tls did not point to its context.
THEOREM SignalsMaskFollowsContexts == Spec => []MaskFollowsContexts
<1>1. Init => TypeOK /\ StackInv /\ MaskInv
  <2> SUFFICES ASSUME Init
               PROVE  MaskInv
    BY TypeInit
  <2>1. Depth = 1 /\ blocked = {}
    BY DEF Init, Depth
  <2> QED BY <2>1 DEF MaskInv, MaskFollowsContexts
<1>2. TypeOK /\ StackInv /\ MaskInv /\ [Next]_vars => (TypeOK /\ StackInv /\ MaskInv)'
  BY TypeStep, StackStep, MaskStep
<1>3. MaskInv => MaskFollowsContexts
  BY DEF MaskInv
<1> QED BY <1>1, <1>2, <1>3, PTL DEF Spec

-----------------------------------------------------------------------------
(* Where a handler starts. *)

\* After a call that was accepted table and kernel agree; during one that no
\* other overlaps, the context in the middle of it knows what the table has.
TableInv ==
    \A s \in Sigs :
        /\ sigact[s] = "told" => acts[s] = hostact[s] /\ \A i \in 1..Depth : ctx[i].act # s
        /\ sigact[s] = "call" => \A i \in 1..Depth : ctx[i].act = s =>
              ctx[i].new = acts[s] /\ \A j \in 1..Depth : ctx[j].act = s => j = i
ActInv == \A i \in 1..Depth : ctx[i].place = "sigaction" => ctx[i].act \in Sigs

\* Calls in the middle may go away, as long as the tables stay.
LEMMA TableKept ==
    ASSUME TableInv, UNCHANGED <<acts, hostact, sigact>>,
           \A i \in 1..Depth' : ctx'[i].act \in Sigs =>
              i \in 1..Depth /\ ctx[i].act = ctx'[i].act /\ ctx[i].new = ctx'[i].new
    PROVE  TableInv'
<1> SUFFICES ASSUME NEW s \in Sigs
             PROVE  /\ sigact[s] = "told" => acts[s] = hostact[s] /\ \A i \in 1..Depth' : ctx'[i].act # s
                    /\ sigact[s] = "call" => \A i \in 1..Depth' : ctx'[i].act = s =>
                          ctx'[i].new = acts[s] /\ \A j \in 1..Depth' : ctx'[j].act = s => j = i
  BY DEF TableInv
<1>1. \A i \in 1..Depth' : ctx'[i].act = s => i \in 1..Depth /\ ctx[i].act = s /\ ctx[i].new = ctx'[i].new
  OBVIOUS
<1>2. /\ sigact[s] = "told" => acts[s] = hostact[s] /\ \A i \in 1..Depth : ctx[i].act # s
      /\ sigact[s] = "call" => \A i \in 1..Depth : ctx[i].act = s =>
            ctx[i].new = acts[s] /\ \A j \in 1..Depth : ctx[j].act = s => j = i
  BY DEF TableInv
<1> QED BY <1>1, <1>2

\* The two halves of a call of sigaction.
LEMMA TableCall ==
    ASSUME TypeOK, TableInv, ActInv, TableActions
    PROVE  TableInv' /\ ActInv'
<1> USE SignalsAssumption
<1>0. Depth \in Nat /\ Depth >= 1 /\ Top = ctx[Depth] /\ Top \in Contexts
      /\ ctx \in Seq(Contexts) /\ Depth = Len(ctx)
  BY DEF TypeOK, Depth, Top
<1>t. acts \in [Sigs -> Actions] /\ hostact \in [Sigs -> Actions \cup {IGNORE}]
      /\ sigact \in [Sigs -> {"told", "call", "mixed"}]
  BY DEF TypeOK
<1>1. CASE SigactionKernel
  <2> DEFINE r == Top.act
             c == [Top EXCEPT !.place = "syscall", !.act = NoSig, !.new = IGNORE]
  <2>1. r \in Sigs /\ Top.place = "sigaction"
    BY <1>0, <1>1 DEF SigactionKernel, At, ActInv
  <2>2. c.place = "syscall" /\ c.act = NoSig
    BY <1>0 DEF Contexts
  <2>3. Depth' = Depth /\ ctx'[Depth] = c /\ \A i \in 1..Depth : i # Depth => ctx'[i] = ctx[i]
    <3>1. Update(c)
      BY <1>1 DEF SigactionKernel
    <3> HIDE DEF c
    <3> QED BY <1>0, <3>1 DEF Update, Depth
  <2>4. /\ acts' = acts /\ \A s \in Sigs : s # r => hostact'[s] = hostact[s] /\ sigact'[s] = sigact[s]
        /\ sigact'[r] # "call"
        /\ sigact'[r] = "told" => sigact[r] = "call" /\ hostact'[r] = Top.new
    <3> HIDE DEF c
    <3> QED BY <1>t, <1>1, <2>1 DEF SigactionKernel
  <2> HIDE DEF c, r
  <2>5. ActInv'
    BY <1>0, <2>2, <2>3 DEF ActInv
  <2>6. ASSUME NEW s \in Sigs, s # r
        PROVE  /\ sigact'[s] = "told" => acts'[s] = hostact'[s] /\ \A i \in 1..Depth : ctx'[i].act # s
               /\ sigact'[s] = "call" => \A i \in 1..Depth : ctx'[i].act = s =>
                     ctx'[i].new = acts'[s] /\ \A j \in 1..Depth : ctx'[j].act = s => j = i
    <3>1. \A i \in 1..Depth : ctx'[i].act = s => ctx'[i] = ctx[i]
      BY <2>2, <2>3
    <3>2. /\ sigact[s] = "told" => acts[s] = hostact[s] /\ \A i \in 1..Depth : ctx[i].act # s
          /\ sigact[s] = "call" => \A i \in 1..Depth : ctx[i].act = s =>
                ctx[i].new = acts[s] /\ \A j \in 1..Depth : ctx[j].act = s => j = i
      BY DEF TableInv
    <3>3. acts'[s] = acts[s] /\ hostact'[s] = hostact[s] /\ sigact'[s] = sigact[s]
      BY <2>4, <2>6
    <3> QED BY <3>1, <3>2, <3>3
  <2>7. ASSUME sigact'[r] = "told"
        PROVE  acts'[r] = hostact'[r] /\ \A i \in 1..Depth : ctx'[i].act # r
    <3>1. \A i \in 1..Depth : ctx[i].act = r => ctx[i].new = acts[r] /\ i = Depth
      <4>1. Depth \in 1..Depth /\ ctx[Depth].act = r
        BY <1>0 DEF r
      <4> QED BY <2>1, <2>4, <2>7, <4>1 DEF TableInv
    <3>2. acts[r] = Top.new
      BY <1>0, <3>1 DEF r
    <3> QED BY <1>0, <2>1, <2>2, <2>3, <2>4, <2>7, <3>1, <3>2
  <2> QED BY <2>3, <2>4, <2>5, <2>6, <2>7 DEF TableInv
<1>2. ASSUME NEW r \in CallSigs, NEW a \in Actions, SigactionTable(r, a)
      PROVE  TableInv' /\ ActInv'
  <2> DEFINE c == [Top EXCEPT !.place = "sigaction", !.act = r, !.new = a]
  <2>1. r \in Sigs
    OBVIOUS
  <2>2. c.place = "sigaction" /\ c.act = r /\ c.new = a
    BY <1>0 DEF Contexts
  <2>3. Depth' = Depth /\ ctx'[Depth] = c /\ \A i \in 1..Depth : i # Depth => ctx'[i] = ctx[i]
    <3>1. Update(c)
      BY <1>2 DEF SigactionTable
    <3> HIDE DEF c
    <3> QED BY <1>0, <3>1 DEF Update, Depth
  <2>4. /\ hostact' = hostact /\ \A s \in Sigs : s # r => acts'[s] = acts[s] /\ sigact'[s] = sigact[s]
        /\ sigact'[r] # "told" /\ acts'[r] = a
        /\ sigact'[r] = "call" => \A i \in 1..Depth : ctx[i].act # r
    <3> HIDE DEF c
    <3> QED BY <1>t, <1>2, <2>1 DEF SigactionTable, Changing
  <2> HIDE DEF c
  <2>5. ActInv'
    BY <1>0, <2>1, <2>2, <2>3 DEF ActInv
  <2>6. ASSUME NEW s \in Sigs, s # r
        PROVE  /\ sigact'[s] = "told" => acts'[s] = hostact'[s] /\ \A i \in 1..Depth : ctx'[i].act # s
               /\ sigact'[s] = "call" => \A i \in 1..Depth : ctx'[i].act = s =>
                     ctx'[i].new = acts'[s] /\ \A j \in 1..Depth : ctx'[j].act = s => j = i
    <3>1. \A i \in 1..Depth : ctx'[i].act = s => ctx'[i] = ctx[i]
      BY <2>2, <2>3, <2>6
    <3>2. /\ sigact[s] = "told" => acts[s] = hostact[s] /\ \A i \in 1..Depth : ctx[i].act # s
          /\ sigact[s] = "call" => \A i \in 1..Depth : ctx[i].act = s =>
                ctx[i].new = acts[s] /\ \A j \in 1..Depth : ctx[j].act = s => j = i
      BY DEF TableInv
    <3>3. acts'[s] = acts[s] /\ hostact'[s] = hostact[s] /\ sigact'[s] = sigact[s]
      BY <2>4, <2>6
    <3> QED BY <3>1, <3>2, <3>3
  <2>7. ASSUME sigact'[r] = "call", NEW i \in 1..Depth, ctx'[i].act = r
        PROVE  ctx'[i].new = acts'[r] /\ i = Depth
    BY <2>2, <2>3, <2>4, <2>7
  <2> QED BY <2>1, <2>3, <2>4, <2>5, <2>6, <2>7 DEF TableInv
<1> QED BY <1>1, <1>2 DEF TableActions

\* Every step keeps table and kernel in line.
LEMMA TableStep ==
    ASSUME TypeOK, StackInv, TableInv, ActInv, [Next]_vars
    PROVE  TableInv' /\ ActInv'
<1> USE SignalsAssumption
<1>0. Depth \in Nat /\ Depth >= 1 /\ Top = ctx[Depth]
  BY DEF TypeOK, Depth, Top
<1>1. ASSUME NEW c, LocalStep(c), UNCHANGED <<acts, hostact, sigact>>, ~TableActions
      PROVE  TableInv' /\ ActInv'
  <2>1. Depth' = Depth /\ ctx'[Depth] = c /\ \A i \in 1..(Depth - 1) : ctx'[i] = ctx[i]
    BY <1>1, LocalShape
  <2>2. c.place # "sigaction" /\ c.act = ctx[Depth].act /\ c.new = ctx[Depth].new
    BY <1>0, <1>1 DEF LocalStep
  <2>3. \A i \in 1..Depth : ctx'[i].act = ctx[i].act /\ ctx'[i].new = ctx[i].new
    BY <1>0, <2>1, <2>2
  <2>4. ActInv'
    BY <1>0, <2>1, <2>2 DEF ActInv
  <2> QED BY <1>1, <2>1, <2>3, <2>4, TableKept
<1>2. ASSUME UNCHANGED <<ctx, acts, hostact, sigact>>
      PROVE  TableInv' /\ ActInv'
  BY <1>2 DEF TableInv, ActInv, Depth
<1>3. ASSUME NEW s \in Sigs, TakeSignal(s), NEW k, TakeStep(k, s)
      PROVE  TableInv' /\ ActInv'
  <2>1. /\ Depth' = Depth + 1 /\ ctx'[Depth + 1].act = NoSig /\ ctx'[Depth + 1].place = "init"
        /\ \A i \in 1..Depth : /\ ctx'[i].place = ctx[i].place /\ ctx'[i].act = ctx[i].act
                               /\ ctx'[i].new = ctx[i].new
    BY <1>3 DEF TakeStep, NewHandler, SameContext
  <2>2. \A i \in 1..Depth' : i \in 1..Depth \/ i = Depth + 1
    BY <1>0, <2>1
  <2>3. UNCHANGED <<acts, hostact, sigact>>
    BY <1>3 DEF TakeSignal
  <2>4. ActInv'
    BY <2>1, <2>2 DEF ActInv
  <2>5. \A i \in 1..Depth' : ctx'[i].act \in Sigs =>
           i \in 1..Depth /\ ctx[i].act = ctx'[i].act /\ ctx[i].new = ctx'[i].new
    BY <2>1, <2>2
  <2> QED BY <2>3, <2>4, <2>5, TableKept
<1>4. ASSUME NEW k, NEW c, FinishStep(k, c)
      PROVE  TableInv' /\ ActInv'
  <2>1. /\ Depth' \in Nat /\ Depth' <= Depth - 1 /\ k \in 1..Depth /\ ctx'[k] = c
        /\ \A i \in 1..Depth' : i # k => ctx'[i] = ctx[i]
    BY <1>4, FinishPrefix
  <2>2. \/ c.place = ctx[k].place /\ c.act = ctx[k].act /\ c.new = ctx[k].new
        \/ c.place = "umeq" /\ c.act = NoSig
    <3>1. SamePlace(c, ctx[k]) \/ InLoop(c, ctx[k])
      BY <1>4 DEF FinishStep
    <3> QED BY <3>1 DEF SamePlace, InLoop
  <2>3. UNCHANGED <<acts, hostact, sigact>>
    BY <1>4 DEF FinishStep
  <2>4. \A i \in 1..Depth' : i \in 1..Depth
    BY <1>0, <2>1
  <2>5. ActInv'
    BY <2>1, <2>2, <2>4 DEF ActInv
  <2>6. \A i \in 1..Depth' : ctx'[i].act \in Sigs =>
           i \in 1..Depth /\ ctx[i].act = ctx'[i].act /\ ctx[i].new = ctx'[i].new
    BY <2>1, <2>2, <2>4
  <2> QED BY <2>3, <2>5, <2>6, TableKept
<1>5. CASE TableActions
  BY <1>5, TableCall
<1> QED BY <1>1, <1>2, <1>3, <1>4, <1>5, StepKinds

\* However calls of sigaction, refusals, signals and jumps interleave, and
\* whichever contexts they are in: a signal whose last call was accepted and
\* overlapped no other enters the handler, and the stack, of that call.
THEOREM SignalsEntersInstalled == Spec => EntersInstalled
<1> DEFINE c == ctx'[Depth + 1]
           Entered == Len(ctx') > Depth => (sigact[c.sig] = "told" =>
                        /\ c.pc = hostact[c.sig].handler
                        /\ c.frame = ctx[c.prev].sp - 1 \/ hostact[c.sig].onstack)
           Inv == TypeOK /\ StackInv /\ TableInv /\ ActInv
<1>1. Init => Inv
  <2> SUFFICES ASSUME Init
               PROVE  TableInv /\ ActInv
    BY TypeInit
  <2>1. Depth = 1 /\ ctx[1].act = NoSig /\ ctx[1].place = "umeq" /\ acts = hostact
        /\ sigact = [s \in Sigs |-> "told"]
    BY DEF Init, Depth
  <2> QED BY <2>1, SignalsAssumption DEF TableInv, ActInv
<1>2. Inv /\ [Next]_vars => Inv'
  BY TypeStep, StackStep, TableStep
<1>3. Inv /\ [Next]_vars => [Entered]_<<ctx, fail>>
  <2> SUFFICES ASSUME TypeOK, StackInv, TableInv, [Next]_vars, Len(ctx') > Depth,
                      sigact[c.sig] = "told"
               PROVE  /\ c.pc = hostact[c.sig].handler
                      /\ c.frame = ctx[c.prev].sp - 1 \/ hostact[c.sig].onstack
    OBVIOUS
  <2>0. Depth \in Nat /\ Depth = Len(ctx) /\ Len(ctx') = Depth'
    BY SignalsAssumption DEF TypeOK, Depth
  <2>1. PICK s \in Sigs : TakeStep(Current, s)
    <3>1. ASSUME NEW d, LocalStep(d)
          PROVE  FALSE
      BY <2>0, <3>1, LocalShape
    <3>2. ASSUME NEW d, NEW k, FinishStep(k, d)
          PROVE  FALSE
      BY <2>0, <3>2, FinishPrefix
    <3>3. ctx' # ctx
      BY <2>0
    <3> QED BY <3>1, <3>2, <3>3, StepKinds
  <2>2. NewHandler(c, Current, s)
    BY <2>1 DEF TakeStep
  <2>3. c.sig = s /\ c.prev = Current /\ c.pc = acts[s].handler /\ c.frame = sigsp(ctx[Current], s) - 1
    BY <2>2 DEF NewHandler
  <2>4. acts[s] = hostact[s]
    BY <2>3 DEF TableInv
  <2> HIDE DEF c
  <2>5. sigsp(ctx[Current], s) = ctx[Current].sp \/ acts[s].onstack
    BY DEF sigsp
  <2> QED BY <2>3, <2>4, <2>5
<1> QED BY <1>1, <1>2, <1>3, PTL DEF Spec, EntersInstalled

-----------------------------------------------------------------------------
(* The pc a handler is shown. *)

\* What Update does.
LEMMA UpdateTop ==
    ASSUME TypeOK, NEW c, Update(c)
    PROVE  ctx'[Depth] = c
  BY SignalsAssumption DEF TypeOK, Update, Depth

\* A step of the context on top keeps its program counters right.
LEMMA LocalPc ==
    ASSUME TypeOK, PcInv(Top), ContextActions \/ TableActions
    PROVE  PcInv(ctx'[Depth])
<1> USE SignalsAssumption DEF PcInv, At, InBlock, InHelper
<1>0. Top \in Contexts /\ Depth \in Nat
  BY DEF TypeOK, Depth, Top
<1>1. CASE RunBlock
  <2>1. ctx'[Depth] = [Top EXCEPT !.place = "jit", !.start = Top.cur, !.cur = 0]
    BY <1>1, UpdateTop DEF RunBlock
  <2> QED BY <1>0, <1>1, <2>1 DEF RunBlock, Contexts, Pc
<1>2. CASE LeaveLoop
  <2> DEFINE e == leaves_signal(Top)
  <2>1. ctx'[Depth] = [Top EXCEPT !.place = "leaving", !.exit = e]
    BY <1>2, UpdateTop DEF LeaveLoop
  <2> HIDE DEF e
  <2> QED BY <1>0, <1>2, <2>1 DEF LeaveLoop, Contexts
<1>3. CASE TlsSwitch
  <2>1. ctx'[Depth] = [Top EXCEPT !.place = "umeq"]
    BY <1>3, UpdateTop DEF TlsSwitch
  <2> QED BY <1>0, <1>3, <2>1 DEF TlsSwitch, Contexts
<1>4. CASE NextInsn
  <2>1. ctx'[Depth] = [Top EXCEPT !.insn = @ + 1]
    BY <1>4, UpdateTop DEF NextInsn
  <2>2. Top.place = "jit" /\ Top.start + Top.insn < LastPc
    BY <1>0, <1>4 DEF NextInsn, BlockEnd, Contexts
  <2> QED BY <1>0, <2>1, <2>2 DEF Contexts
<1>15. CASE dis_svc
  <2> DEFINE q == TruePc(Top) + 1
  <2>1. ctx'[Depth] = [Top EXCEPT !.place = "svc", !.pc = q, !.fresh = FALSE]
    BY <1>15, UpdateTop DEF dis_svc
  <2>2. Top.place = "jit"
    BY <1>15 DEF dis_svc
  <2> HIDE DEF q
  <2> QED BY <1>0, <2>1, <2>2 DEF Contexts
<1>16. CASE dis_brk
  <2> DEFINE q == TruePc(Top)
             f == Top.insn = 0
  <2>1. ctx'[Depth] = [Top EXCEPT !.place = "brk", !.pc = q, !.fresh = f]
    BY <1>16, UpdateTop DEF dis_brk
  <2>2. Top.place = "jit" /\ q = Top.start + Top.insn
    BY <1>16 DEF dis_brk, TruePc
  <2>3. f => q = Top.start
    BY <1>0, <2>2 DEF Contexts
  <2> HIDE DEF q, f
  <2> QED BY <1>0, <2>1, <2>2, <2>3 DEF Contexts
<1>17. CASE add_exit
  <2> DEFINE q == TruePc(Top)
             f == Top.pc = TruePc(Top)
  <2>1. ctx'[Depth] = [Top EXCEPT !.place = "umeq", !.cur = q, !.fresh = f, !.start = 0, !.insn = 0]
    BY <1>17, UpdateTop DEF add_exit
  <2>2. Top.place = "trapped" /\ (f => Top.pc = q)
    BY <1>17 DEF add_exit
  <2> HIDE DEF q, f
  <2> QED BY <1>0, <2>1, <2>2 DEF Contexts
<1>5. CASE mk_call
  <2> DEFINE q == TruePc(Top)
             pl == Called(Top.place)
  <2>1. ctx'[Depth] = [Top EXCEPT !.place = pl, !.helper_pc = q, !.hset = TRUE]
    BY <1>5, UpdateTop DEF mk_call
  <2>2. Top.place \in {"jit", "svc", "brk"} /\ q = Top.start + Top.insn
    BY <1>5 DEF mk_call, TruePc
  <2>3. pl \in {"helper", "syscall", "trap"}
    BY <2>2 DEF Called
  <2> HIDE DEF q, pl
  <2> QED BY <1>0, <2>1, <2>2, <2>3 DEF Contexts
<1>6. CASE HelperReturns
  <2> DEFINE pl == Returned(Top.place)
  <2>1. ctx'[Depth] = [Top EXCEPT !.place = pl, !.helper_pc = 0]
    BY <1>6, UpdateTop DEF HelperReturns
  <2>2. Top.place \in {"helper", "syscall", "trap"}
    BY <1>6 DEF HelperReturns
  <2>3. pl \in {"jit", "served", "trapped"}
    BY <2>2 DEF Returned
  <2> HIDE DEF pl
  <2> QED BY <1>0, <2>1, <2>2, <2>3 DEF Contexts
<1>7. CASE ExitToLoop
  <2>1. ctx'[Depth] = [Top EXCEPT !.place = "umeq", !.cur = Top.tgt, !.start = 0, !.insn = 0, !.tgt = 0]
    BY <1>7, UpdateTop DEF ExitToLoop
  <2> QED BY <1>0, <1>7, <2>1 DEF ExitToLoop, Contexts
<1>8. CASE ExitToBlock
  <2>1. ctx'[Depth] = [Top EXCEPT !.place = "jit", !.start = Top.tgt, !.insn = 0, !.tgt = 0]
    BY <1>8, UpdateTop DEF ExitToBlock
  <2> QED BY <1>0, <1>8, <2>1 DEF ExitToBlock, Contexts, Pc
<1>9. CASE SigReturn
  <2> DEFINE q == frames[Top.frame].pc
  <2>1. ctx'[Depth] = [Top EXCEPT !.looping = FALSE, !.told = q]
    BY <1>9, UpdateTop DEF SigReturn
  <2> HIDE DEF q
  <2> QED BY <1>0, <1>9, <2>1 DEF Contexts
<1>10. CASE SigactionKernel
  <2>1. ctx'[Depth] = [Top EXCEPT !.place = "syscall", !.act = NoSig, !.new = IGNORE]
    BY <1>10, UpdateTop DEF SigactionKernel
  <2>2. Top.place = "sigaction"
    BY <1>10 DEF SigactionKernel
  <2> QED BY <1>0, <2>1, <2>2 DEF Contexts
<1>11. ASSUME NEW t \in Pc, mk_exit(t)
       PROVE  PcInv(ctx'[Depth])
  <2>1. ctx'[Depth] = [Top EXCEPT !.place = "exit", !.pc = t, !.tgt = t, !.fresh = TRUE]
    BY <1>11, UpdateTop DEF mk_exit
  <2>2. Top.place \in {"jit", "exit", "served"}
    BY <1>11 DEF mk_exit
  <2> QED BY <1>0, <2>1, <2>2 DEF Contexts
<1>12. ASSUME NEW t \in Pc, NEW j \in 1..MaxDepth, Longjmp(j, t)
       PROVE  PcInv(ctx'[Depth])
  <2> DEFINE a == ctx[j].sp
             l == ctx[j].level
  <2>1. ctx'[Depth] = [Top EXCEPT !.sp = a, !.level = l,
                                  !.place = "exit", !.pc = t, !.tgt = t, !.fresh = TRUE]
    BY <1>12, UpdateTop DEF Longjmp
  <2>2. Top.place = "jit"
    BY <1>12 DEF Longjmp
  <2> HIDE DEF a, l
  <2> QED BY <1>0, <2>1, <2>2 DEF Contexts
<1>13. ASSUME NEW ss \in AltStacks, arm64_sigaltstack(ss)
       PROVE  PcInv(ctx'[Depth])
  <2>1. ctx'[Depth] = [Top EXCEPT !.sas = ss]
    BY <1>13, UpdateTop DEF arm64_sigaltstack
  <2> QED BY <1>0, <2>1 DEF Contexts
<1>14. ASSUME NEW s \in CallSigs, NEW a \in Actions, SigactionTable(s, a)
       PROVE  PcInv(ctx'[Depth])
  <2>1. ctx'[Depth] = [Top EXCEPT !.place = "sigaction", !.act = s, !.new = a]
    BY <1>14, UpdateTop DEF SigactionTable
  <2>2. Top.place = "syscall"
    BY <1>14 DEF SigactionTable
  <2> QED BY <1>0, <2>1, <2>2 DEF Contexts
<1> HIDE DEF PcInv
<1> QED BY <1>1, <1>2, <1>3, <1>4, <1>5, <1>6, <1>7, <1>8, <1>9, <1>10, <1>11, <1>12, <1>13, <1>14,
           <1>15, <1>16, <1>17 DEF ContextActions, TableActions

\* An interrupted context that is still fresh was in its loop.
AllPcInv ==
    /\ \A i \in 1..Depth : PcInv(ctx[i])
    /\ \A i \in 1..(Depth - 1) : ctx[i].fresh /\ ~InWindow(ctx[i]) => ctx[i].place = "umeq"

\* restore_precise_pc finds the instruction of a reliable context.
LEMMA ReliableMeansPrecise ==
    ASSUME TypeOK, StackInv, AllPcInv, Reliable(ctx[Current])
    PROVE  restore_precise_pc(Current)[2] = TruePc(ctx[Current])
<1> DEFINE k == Current
           c == ctx[k]
<1>1. k \in 1..Depth /\ ~InWindow(c)
  BY CurrentFacts
<1>2. c \in Contexts /\ PcInv(c) /\ Depth \in Nat
  <2> HIDE DEF k
  <2> QED BY <1>1, SignalsAssumption DEF TypeOK, Depth, AllPcInv
<1>3. c.hset /\ (c.helper_pc # 0 \/ (c.fresh /\ c.place # "exit"))
  BY DEF Reliable
<1>4. c.helper_pc = IF c.place \in InHelper THEN c.start + c.insn ELSE 0
  BY <1>2, <1>3 DEF PcInv
<1>5. CASE c.helper_pc # 0
  <2>1. c.place # "umeq" /\ c.helper_pc = c.start + c.insn
    BY <1>4, <1>5 DEF InHelper
  <2> QED BY <1>5, <2>1 DEF restore_precise_pc, TruePc
<1>6. CASE c.helper_pc = 0 /\ c.place = "umeq"
  <2>1. c.pc = c.cur
    BY <1>2, <1>3, <1>6 DEF PcInv
  <2> QED BY <1>6, <2>1 DEF restore_precise_pc, TruePc
<1>7. CASE c.helper_pc = 0 /\ c.place # "umeq"
  <2>1. c.fresh /\ c.place \in InBlock
    BY <1>1, <1>2, <1>3, <1>7 DEF Contexts, Places, InWindow
  <2>2. k = Depth
    <3> HIDE DEF k
    <3> QED BY <1>1, <1>2, <1>7, <2>1 DEF AllPcInv
  <2>3. c.pc = c.start /\ c.start + c.insn <= LastPc
    BY <1>2, <2>1 DEF PcInv
  <2>4. c.start \in Nat /\ c.insn \in Nat
    BY <1>2 DEF Contexts
  <2> QED BY <1>7, <2>2, <2>3, <2>4, SignalsAssumption DEF restore_precise_pc, TruePc
<1> QED BY <1>5, <1>6, <1>7

\* Every step keeps the program counters right.
LEMMA PcStep ==
    ASSUME TypeOK, StackInv, AllPcInv, [Next]_vars
    PROVE  AllPcInv'
<1> USE SignalsAssumption
<1>0. Depth \in Nat /\ Depth >= 1 /\ Top = ctx[Depth] /\ PcInv(Top)
  BY DEF TypeOK, Depth, Top, AllPcInv
<1>1. CASE ContextActions \/ TableActions
  <2>1. PcInv(ctx'[Depth])
    BY <1>0, <1>1, LocalPc
  <2>2. \E c : LocalStep(c)
    BY <1>1, LocalActions
  <2>3. Depth' = Depth /\ \A i \in 1..(Depth - 1) : ctx'[i] = ctx[i]
    BY <2>2, LocalShape
  <2>4. \A i \in 1..Depth : PcInv(ctx'[i])
    BY <1>0, <2>1, <2>3 DEF AllPcInv
  <2> QED BY <2>3, <2>4 DEF AllPcInv
<1>2. ASSUME UNCHANGED ctx
      PROVE  AllPcInv'
  BY <1>2 DEF AllPcInv, Depth, PcInv, InWindow
<1>3. ASSUME NEW s \in Sigs, TakeSignal(s)
      PROVE  AllPcInv'
  <2> DEFINE k == Current
  <2>1. TakeStep(k, s)
    BY <1>3, TakeShape
  <2>2. /\ Depth' = Depth + 1 /\ k \in 1..Depth /\ ~InWindow(ctx[k])
        /\ \A j \in (k + 1)..Depth : InWindow(ctx[j])
        /\ NewHandler(ctx'[Depth + 1], k, s)
        /\ \A i \in 1..Depth : SameContext(ctx'[i], ctx[i])
        /\ \A i \in 1..Depth : i # k => ctx'[i].pc = ctx[i].pc /\ ctx'[i].fresh = ctx[i].fresh
        /\ ctx'[k].pc = restore_precise_pc(k)[2]
        /\ ctx'[k].fresh = (ctx[k].fresh /\ ctx[k].hset /\ ctx[k].place = "umeq")
    BY <2>1 DEF TakeStep
  <2>3. PcInv(ctx'[Depth + 1])
    BY <2>2 DEF PcInv, NewHandler, InBlock, InHelper
  <2>4. ASSUME NEW i \in 1..Depth, i # k
        PROVE  PcInv(ctx'[i])
    <3>1. PcInv(ctx[i]) /\ SameContext(ctx'[i], ctx[i]) /\ ctx'[i].pc = ctx[i].pc /\ ctx'[i].fresh = ctx[i].fresh
      BY <2>2, <2>4 DEF AllPcInv
    <3> QED BY <3>1 DEF PcInv, SameContext
  <2>5. PcInv(ctx'[k])
    <3>1. PcInv(ctx[k]) /\ SameContext(ctx'[k], ctx[k])
      BY <2>2 DEF AllPcInv
    <3>2. ctx'[k].fresh => ctx'[k].pc = ctx[k].cur
      <4> SUFFICES ASSUME ctx'[k].fresh
                   PROVE  ctx'[k].pc = ctx[k].cur
        OBVIOUS
      <4>1. Reliable(ctx[k]) /\ ctx[k].place = "umeq"
        BY <2>2 DEF Reliable
      <4> QED BY <2>2, <4>1, ReliableMeansPrecise DEF TruePc
    <3>3. ctx'[k].fresh => ctx[k].place = "umeq"
      BY <2>2
    <3> HIDE DEF k
    <3> QED BY <3>1, <3>2, <3>3 DEF PcInv, SameContext, InBlock
  <2>6. ASSUME NEW i \in 1..Depth, ctx'[i].fresh, ~InWindow(ctx'[i])
        PROVE  ctx'[i].place = "umeq"
    <3>1. ctx'[i].place = ctx[i].place
      BY <2>2 DEF SameContext
    <3>2. CASE i = k
      BY <2>2, <2>6, <3>1, <3>2
    <3>3. CASE i # k
      <4>1. ~InWindow(ctx[i]) /\ ctx[i].fresh
        BY <2>2, <2>6, <3>1, <3>3 DEF InWindow
      <4>2. i \in 1..(Depth - 1)
        <5> HIDE DEF k
        <5> QED BY <1>0, <2>2, <3>3, <4>1
      <4> QED BY <3>1, <4>1, <4>2 DEF AllPcInv
    <3> QED BY <3>2, <3>3
  <2>7. \A i \in 1..(Depth + 1) : PcInv(ctx'[i])
    <3> HIDE DEF k
    <3> QED BY <1>0, <2>3, <2>4, <2>5
  <2>8. 1..((Depth + 1) - 1) = 1..Depth
    BY <1>0
  <2> QED BY <2>2, <2>6, <2>7, <2>8 DEF AllPcInv
<1>4. ASSUME NEW k, NEW c, FinishStep(k, c), ~InWindow(ctx[k])
      PROVE  AllPcInv'
  <2>1. /\ Depth' \in Nat /\ Depth' <= Depth - 1 /\ k <= Depth' /\ k \in 1..Depth
        /\ ctx'[k] = c
    BY <1>4, FinishPrefix
  <2>2. \A i \in 1..Depth' : i # k => ctx'[i] = ctx[i]
    BY <1>4, FinishPrefix
  <2>3. \/ Depth' = Depth - 1 /\ SamePlace(c, ctx[k])
        \/ Depth' = k /\ InLoop(c, ctx[k])
    BY <1>4 DEF FinishStep
  <2>4. PcInv(ctx[k])
    BY <2>1 DEF AllPcInv
  <2>5. PcInv(c)
    <3>1. CASE SamePlace(c, ctx[k])
      BY <2>4, <3>1 DEF PcInv, SamePlace
    <3>2. CASE InLoop(c, ctx[k])
      BY <3>2 DEF PcInv, InLoop, InBlock, InHelper
    <3> QED BY <2>3, <3>1, <3>2
  <2>6. \A i \in 1..Depth' : PcInv(ctx'[i])
    <3> SUFFICES ASSUME NEW i \in 1..Depth'
                 PROVE  PcInv(ctx'[i])
      OBVIOUS
    <3>1. i \in 1..Depth
      BY <1>0, <2>1
    <3> QED BY <2>1, <2>2, <2>5, <3>1 DEF AllPcInv
  <2>a. PICK n \in Nat : n = Depth'
    BY <2>1
  <2>7. ASSUME NEW i \in 1..(n - 1), ctx'[i].fresh, ~InWindow(ctx'[i])
        PROVE  ctx'[i].place = "umeq"
    <3>0. n <= Depth - 1
      BY <2>a, <2>1
    <3>a. i \in 1..n /\ i \in 1..(Depth - 1) /\ i < n
      BY <1>0, <3>0
    <3>1. i \in 1..Depth' /\ i \in 1..(Depth - 1) /\ i < Depth'
      BY <2>a, <3>a, Zenon
    <3>2. CASE i # k
      BY <2>2, <2>7, <3>1, <3>2 DEF AllPcInv
    <3>3. CASE i = k
      <4>1. SamePlace(c, ctx[k])
        BY <2>1, <2>3, <3>1, <3>3
      <4>2. ctx[k].fresh /\ c.place = ctx[k].place /\ ctx'[i] = c
        BY <2>1, <2>7, <3>3, <4>1 DEF SamePlace
      <4> QED BY <1>4, <3>1, <3>3, <4>2 DEF AllPcInv
    <3> QED BY <3>2, <3>3
  <2> QED BY <2>6, <2>7, <2>a DEF AllPcInv
<1>5. CASE FinishReturn \/ FinishJump
  <2>1. Depth > 1 /\ ((\E c : FinishStep(Top.prev, c)) \/ UNCHANGED ctx)
    BY <1>5, FinishShape
  <2>2. ~InWindow(ctx[Top.prev])
    BY <1>0, <2>1 DEF StackInv
  <2> QED BY <1>2, <1>4, <2>1, <2>2
<1>6. CASE \E t \in Pc : SetFramePc(t)
  BY <1>2, <1>6 DEF SetFramePc
<1>7. CASE UNCHANGED vars
  BY <1>2, <1>7 DEF vars
<1> QED BY <1>1, <1>3, <1>5, <1>6, <1>7 DEF Next, Guest, ContextActions, TableActions

\* Every step keeps the frames right.
LEMMA PreciseStep ==
    ASSUME TypeOK, StackInv, AllPcInv, PreciseWhenReliable, [Next]_vars
    PROVE  PreciseWhenReliable'
<1>0. Depth \in Nat
  BY SignalsAssumption DEF TypeOK
<1>1. ASSUME UNCHANGED frames
      PROVE  PreciseWhenReliable'
  BY <1>1 DEF PreciseWhenReliable
<1>2. ASSUME NEW t \in Pc, SetFramePc(t)
      PROVE  PreciseWhenReliable'
  <2>1. frames' = [frames EXCEPT ![Top.frame].pc = t]
    BY <1>2 DEF SetFramePc
  <2>2. DOMAIN frames' = DOMAIN frames
    BY <2>1
  <2>3. ASSUME NEW a \in DOMAIN frames
        PROVE  frames'[a].wrong = frames[a].wrong
    <3>1. frames[a] \in [sig : Sigs, pc : Nat, sp : Int, given : Nat, wrong : BOOLEAN]
      BY DEF TypeOK
    <3>2. frames'[a] = IF a = Top.frame THEN [frames[a] EXCEPT !.pc = t] ELSE frames[a]
      BY <2>1
    <3> QED BY <3>1, <3>2
  <2> QED BY <2>2, <2>3 DEF PreciseWhenReliable
<1>3. ASSUME NEW s \in Sigs, TakeSignal(s)
      PROVE  PreciseWhenReliable'
  <2> DEFINE k == Current
             c == ctx[k]
             sp == sigsp(c, s) - 1
             p == restore_precise_pc(k)
             g == [sig |-> s, pc |-> p[2], sp |-> c.sp, given |-> p[2],
                   wrong |-> Reliable(c) /\ p[2] # TruePc(c)]
  <2>1. frames' = [a \in DOMAIN frames \cup {sp} |-> IF a = sp THEN g ELSE frames[a]]
    BY <1>3 DEF TakeSignal
  <2>2. ~g.wrong
    <3>1. ~(Reliable(c) /\ p[2] # TruePc(c))
      BY ReliableMeansPrecise
    <3> DEFINE w == Reliable(c) /\ p[2] # TruePc(c)
    <3>2. ~w
      BY <3>1
    <3>3. g.wrong = w
      OBVIOUS
    <3> HIDE DEF w, g
    <3> QED BY <3>2, <3>3
  <2> HIDE DEF g, sp
  <2> QED BY <2>1, <2>2 DEF PreciseWhenReliable
<1>4. ASSUME frames' = LiveFrames(ctx', frames), Depth' <= Depth, Depth' \in Nat,
             \A i \in 1..Depth' : ctx'[i].frame = ctx[i].frame
      PROVE  PreciseWhenReliable'
  <2>1. \A a \in DOMAIN frames' : a \in DOMAIN frames /\ frames'[a] = frames[a]
    BY <1>4, FramesLive
  <2> QED BY <2>1 DEF PreciseWhenReliable
<1>5. ASSUME NEW k, NEW c, FinishStep(k, c)
      PROVE  PreciseWhenReliable'
  <2>1. /\ Depth' \in Nat /\ Depth' <= Depth - 1
        /\ \A i \in 1..Depth' : ctx'[i].frame = ctx[i].frame
    BY <1>5, FinishPrefix
  <2>2. frames' = LiveFrames(ctx', frames)
    BY <1>5 DEF FinishStep
  <2>3. Depth' <= Depth
    BY <1>0, <2>1
  <2> QED BY <1>4, <2>1, <2>2, <2>3
<1>6. ASSUME ctx' = ctx, frames' = LiveFrames(ctx', frames)
      PROVE  PreciseWhenReliable'
  <2>1. Depth' = Depth /\ \A i \in 1..Depth' : ctx'[i].frame = ctx[i].frame
    BY <1>6 DEF Depth
  <2>2. Depth' <= Depth /\ Depth' \in Nat
    BY <1>0, <2>1
  <2> QED BY <1>4, <1>6, <2>1, <2>2
<1> QED BY <1>1, <1>2, <1>3, <1>5, <1>6, StepKinds

\* Whatever handlers nest in whatever: the pc in a signal frame is the guest
\* instruction the thread was at, whenever the context had written helper_pc
\* and was inside a helper, or regs.pc was the start of the block (which it is
\* neither around the helper of an svc nor at an exit).
THEOREM SignalsPreciseWhenReliable == Spec => []PreciseWhenReliable
<1>1. Init => TypeOK /\ StackInv /\ AllPcInv /\ PreciseWhenReliable
  <2> SUFFICES ASSUME Init
               PROVE  AllPcInv /\ PreciseWhenReliable
    BY TypeInit
  <2>1. Depth = 1 /\ frames = <<>>
    BY DEF Init, Depth
  <2>2. ctx[1].place = "umeq" /\ ctx[1].insn = 0 /\ ctx[1].pc = 1 /\ ctx[1].cur = 1 /\ ~ctx[1].hset
    BY DEF Init
  <2>3. PcInv(ctx[1])
    BY <2>2 DEF PcInv, InBlock
  <2> QED BY <2>1, <2>3 DEF AllPcInv, PreciseWhenReliable
<1>2. TypeOK /\ StackInv /\ AllPcInv /\ PreciseWhenReliable /\ [Next]_vars
      => (TypeOK /\ StackInv /\ AllPcInv /\ PreciseWhenReliable)'
  BY TypeStep, StackStep, PcStep, PreciseStep
<1> QED BY <1>1, <1>2, PTL DEF Spec

-----------------------------------------------------------------------------
(* The stacks: what the steps do to stack pointers and alternate stacks. *)

KeepsStack(c) == c.sp = Top.sp /\ c.level = Top.level /\ c.sas = Top.sas
KeepsEnd(c) == c.exit = Top.exit /\ c.looping = Top.looping /\ c.told = Top.told

\* A step of the context on top goes on, leaves its loop, jumps, sets the
\* alternate stack, or calls sigreturn.
GoesOn(c) ==
    /\ KeepsStack(c) /\ KeepsEnd(c) /\ c.place # "leaving"
    /\ c.place \in InBlock =>
          Top.place \in InBlock \/ Depth = 1 \/ (Top.place = "umeq" /\ ~leaves_signal(Top))
Leaves(c) ==
    /\ KeepsStack(c) /\ c.looping = Top.looping /\ c.told = Top.told
    /\ c.place = "leaving" /\ Depth > 1
    /\ c.exit = leaves_signal(Top) /\ (Top.looping => leaves_signal(Top))
JumpsTo(c, j) ==
    /\ KeepsEnd(c) /\ c.place = "exit" /\ c.sas = Top.sas
    /\ ~Jumped(Depth) /\ j \in 1..(Depth - 1) /\ ~InWindow(ctx[j])
    /\ \A m \in (j + 1)..(Depth - 1) : ctx[m].level >= ctx[j].level
    /\ c.sp = ctx[j].sp /\ c.level = ctx[j].level
SetsStack(c) ==
    /\ c.sp = Top.sp /\ c.level = Top.level /\ KeepsEnd(c)
    /\ c.place = Top.place /\ Top.place \in InBlock /\ ~on_sig_stack(Top, Top.sp)
Returns(c) ==
    /\ KeepsStack(c) /\ c.exit = Top.exit /\ c.place = Top.place /\ Top.place \in InBlock
    /\ ~c.looping /\ c.told = frames[Top.frame].pc
Moves(c) ==
    /\ c.onstack = Top.onstack /\ c.lost = Top.lost /\ Top.place # "leaving"
    /\ GoesOn(c) \/ Leaves(c) \/ (\E j \in 1..Depth : JumpsTo(c, j)) \/ SetsStack(c) \/ Returns(c)

\* What a step of the context on top does to its stack.
LEMMA LocalMoves ==
    ASSUME TypeOK, ContextActions \/ TableActions
    PROVE  Moves(ctx'[Depth])
<1> USE SignalsAssumption DEF Moves, GoesOn, KeepsStack, KeepsEnd, InBlock
<1>0. Top \in Contexts /\ Depth \in Nat
  BY DEF TypeOK, Depth, Top
<1>1. CASE RunBlock
  <2>1. ctx'[Depth] = [Top EXCEPT !.place = "jit", !.start = Top.cur, !.cur = 0]
    BY <1>1, UpdateTop DEF RunBlock
  <2>2. Top.place = "umeq" /\ ~leaves_signal(Top)
    BY <1>1 DEF RunBlock, At
  <2> QED BY <1>0, <2>1, <2>2 DEF Contexts
<1>2. CASE LeaveLoop
  <2> DEFINE e == leaves_signal(Top)
  <2>1. ctx'[Depth] = [Top EXCEPT !.place = "leaving", !.exit = e]
    BY <1>2, UpdateTop DEF LeaveLoop
  <2>2. Top.place = "umeq" /\ Depth > 1 /\ (Top.looping => e)
    BY <1>2 DEF LeaveLoop, At
  <2>3. Leaves(ctx'[Depth])
    <3> HIDE DEF e
    <3> QED BY <1>0, <2>1, <2>2 DEF Contexts, Leaves, e
  <2>4. ctx'[Depth].onstack = Top.onstack /\ ctx'[Depth].lost = Top.lost
    <3> HIDE DEF e
    <3> QED BY <1>0, <2>1 DEF Contexts
  <2> QED BY <2>2, <2>3, <2>4
<1>3. CASE TlsSwitch
  <2>1. ctx'[Depth] = [Top EXCEPT !.place = "umeq"]
    BY <1>3, UpdateTop DEF TlsSwitch
  <2> QED BY <1>0, <1>3, <2>1 DEF TlsSwitch, Contexts, At
<1>4. CASE NextInsn
  <2> DEFINE q == Top.insn + 1
  <2>1. ctx'[Depth] = [Top EXCEPT !.insn = q]
    BY <1>4, UpdateTop DEF NextInsn
  <2>2. Top.place = "jit"
    BY <1>4 DEF NextInsn, At
  <2> HIDE DEF q
  <2> QED BY <1>0, <2>1, <2>2 DEF Contexts
<1>15. CASE dis_svc
  <2> DEFINE q == TruePc(Top) + 1
  <2>1. ctx'[Depth] = [Top EXCEPT !.place = "svc", !.pc = q, !.fresh = FALSE]
    BY <1>15, UpdateTop DEF dis_svc
  <2>2. Top.place = "jit"
    BY <1>15 DEF dis_svc, At
  <2> HIDE DEF q
  <2> QED BY <1>0, <2>1, <2>2 DEF Contexts
<1>16. CASE dis_brk
  <2> DEFINE q == TruePc(Top)
             f == Top.insn = 0
  <2>1. ctx'[Depth] = [Top EXCEPT !.place = "brk", !.pc = q, !.fresh = f]
    BY <1>16, UpdateTop DEF dis_brk
  <2>2. Top.place = "jit"
    BY <1>16 DEF dis_brk, At
  <2> HIDE DEF q, f
  <2> QED BY <1>0, <2>1, <2>2 DEF Contexts
<1>17. CASE add_exit
  <2> DEFINE q == TruePc(Top)
             f == Top.pc = TruePc(Top)
  <2>1. ctx'[Depth] = [Top EXCEPT !.place = "umeq", !.cur = q, !.fresh = f, !.start = 0, !.insn = 0]
    BY <1>17, UpdateTop DEF add_exit
  <2>2. Top.place = "trapped"
    BY <1>17 DEF add_exit, At
  <2> HIDE DEF q, f
  <2> QED BY <1>0, <2>1, <2>2 DEF Contexts
<1>5. CASE mk_call
  <2> DEFINE q == TruePc(Top)
             pl == Called(Top.place)
  <2>1. ctx'[Depth] = [Top EXCEPT !.place = pl, !.helper_pc = q, !.hset = TRUE]
    BY <1>5, UpdateTop DEF mk_call
  <2>2. Top.place \in {"jit", "svc", "brk"}
    BY <1>5 DEF mk_call, At
  <2>3. pl # "leaving"
    BY <2>2 DEF Called
  <2> HIDE DEF q, pl
  <2> QED BY <1>0, <2>1, <2>2, <2>3 DEF Contexts
<1>6. CASE HelperReturns
  <2> DEFINE pl == Returned(Top.place)
  <2>1. ctx'[Depth] = [Top EXCEPT !.place = pl, !.helper_pc = 0]
    BY <1>6, UpdateTop DEF HelperReturns
  <2>2. Top.place \in {"helper", "syscall", "trap"}
    BY <1>6 DEF HelperReturns, At
  <2>3. pl # "leaving"
    BY <2>2 DEF Returned
  <2> HIDE DEF pl
  <2> QED BY <1>0, <2>1, <2>2, <2>3 DEF Contexts
<1>7. CASE ExitToLoop
  <2>1. ctx'[Depth] = [Top EXCEPT !.place = "umeq", !.cur = Top.tgt, !.start = 0, !.insn = 0, !.tgt = 0]
    BY <1>7, UpdateTop DEF ExitToLoop
  <2> QED BY <1>0, <1>7, <2>1 DEF ExitToLoop, Contexts, At
<1>8. CASE ExitToBlock
  <2>1. ctx'[Depth] = [Top EXCEPT !.place = "jit", !.start = Top.tgt, !.insn = 0, !.tgt = 0]
    BY <1>8, UpdateTop DEF ExitToBlock
  <2> QED BY <1>0, <1>8, <2>1 DEF ExitToBlock, Contexts, At
<1>9. CASE SigReturn
  <2> DEFINE q == frames[Top.frame].pc
  <2>1. ctx'[Depth] = [Top EXCEPT !.looping = FALSE, !.told = q]
    BY <1>9, UpdateTop DEF SigReturn
  <2>2. Top.place = "syscall"
    BY <1>9 DEF SigReturn, At
  <2>3. Returns(ctx'[Depth])
    <3> HIDE DEF q
    <3> QED BY <1>0, <2>1, <2>2 DEF Contexts, Returns, q
  <2>4. ctx'[Depth].onstack = Top.onstack /\ ctx'[Depth].lost = Top.lost
    <3> HIDE DEF q
    <3> QED BY <1>0, <2>1 DEF Contexts
  <2> QED BY <2>2, <2>3, <2>4
<1>10. CASE SigactionKernel
  <2>1. ctx'[Depth] = [Top EXCEPT !.place = "syscall", !.act = NoSig, !.new = IGNORE]
    BY <1>10, UpdateTop DEF SigactionKernel
  <2>2. Top.place = "sigaction"
    BY <1>10 DEF SigactionKernel, At
  <2> QED BY <1>0, <2>1, <2>2 DEF Contexts
<1>11. ASSUME NEW t \in Pc, mk_exit(t)
       PROVE  Moves(ctx'[Depth])
  <2>1. ctx'[Depth] = [Top EXCEPT !.place = "exit", !.pc = t, !.tgt = t, !.fresh = TRUE]
    BY <1>11, UpdateTop DEF mk_exit
  <2>2. Top.place # "leaving"
    BY <1>11 DEF mk_exit, At
  <2> QED BY <1>0, <2>1, <2>2 DEF Contexts
<1>12. ASSUME NEW t \in Pc, NEW j \in 1..MaxDepth, Longjmp(j, t)
       PROVE  Moves(ctx'[Depth])
  <2> DEFINE a == ctx[j].sp
             l == ctx[j].level
  <2>1. ctx'[Depth] = [Top EXCEPT !.sp = a, !.level = l,
                                  !.place = "exit", !.pc = t, !.tgt = t, !.fresh = TRUE]
    BY <1>12, UpdateTop DEF Longjmp
  <2>2. Top.place = "jit"
    BY <1>12 DEF Longjmp, At
  <2>3. /\ ~Jumped(Depth) /\ j \in 1..(Depth - 1) /\ ~InWindow(ctx[j])
        /\ \A m \in (j + 1)..(Depth - 1) : ctx[m].level >= l
    BY <1>12 DEF Longjmp
  <2> DEFINE c == ctx'[Depth]
  <2>4. /\ c.onstack = Top.onstack /\ c.lost = Top.lost /\ KeepsEnd(c) /\ c.place = "exit"
        /\ c.sas = Top.sas /\ c.sp = a /\ c.level = l
    <3> HIDE DEF a, l
    <3> QED BY <1>0, <2>1 DEF Contexts
  <2>5. JumpsTo(c, j) /\ j \in 1..Depth
    <3> HIDE DEF c
    <3> QED BY <1>0, <2>3, <2>4 DEF JumpsTo
  <2> QED BY <2>2, <2>4, <2>5
<1>13. ASSUME NEW ss \in AltStacks, arm64_sigaltstack(ss)
       PROVE  Moves(ctx'[Depth])
  <2>1. ctx'[Depth] = [Top EXCEPT !.sas = ss]
    BY <1>13, UpdateTop DEF arm64_sigaltstack
  <2>2. Top.place = "syscall" /\ ~on_sig_stack(Top, Top.sp)
    BY <1>13 DEF arm64_sigaltstack, At
  <2> QED BY <1>0, <2>1, <2>2 DEF Contexts, SetsStack
<1>14. ASSUME NEW s \in CallSigs, NEW a \in Actions, SigactionTable(s, a)
       PROVE  Moves(ctx'[Depth])
  <2>1. ctx'[Depth] = [Top EXCEPT !.place = "sigaction", !.act = s, !.new = a]
    BY <1>14, UpdateTop DEF SigactionTable
  <2>2. Top.place = "syscall"
    BY <1>14 DEF SigactionTable, At
  <2> QED BY <1>0, <2>1, <2>2 DEF Contexts
<1> HIDE DEF Moves
<1> QED BY <1>1, <1>2, <1>3, <1>4, <1>5, <1>6, <1>7, <1>8, <1>9, <1>10, <1>11, <1>12, <1>13, <1>14,
           <1>15, <1>16, <1>17 DEF ContextActions, TableActions

\* The kinds of steps again, with what they do to the stacks.
LEMMA StackKinds ==
    ASSUME TypeOK, StackInv, [Next]_vars
    PROVE  \/ (\E c : LocalStep(c) /\ Moves(c)) /\ UNCHANGED frames
           \/ ctx' = ctx /\ (UNCHANGED frames \/ \E t \in Pc : SetFramePc(t))
           \/ \E s \in Sigs : TakeSignal(s) /\ TakeStep(Current, s)
           \/ /\ FinishReturn \/ FinishJump
              /\ Depth > 1 /\ Top.prev \in 1..(Depth - 1) /\ ~InWindow(ctx[Top.prev])
              /\ Top.place = "leaving"
              /\ \/ \E c : FinishStep(Top.prev, c)
                 \/ ctx' = ctx /\ frames' = LiveFrames(ctx', frames)
<1>1. CASE ContextActions \/ TableActions
  <2>1. UNCHANGED frames
    BY <1>1, OnlyContextChanges DEF OnlyContext, TableActions, SigactionKernel, SigactionTable
  <2>2. PICK c : LocalStep(c)
    BY <1>1, LocalActions
  <2>3. c = ctx'[Depth]
    BY <2>2, LocalShape
  <2> QED BY <1>1, <2>1, <2>2, <2>3, LocalMoves
<1>2. CASE \E t \in Pc : SetFramePc(t)
  BY <1>2 DEF SetFramePc
<1>3. CASE UNCHANGED vars
  BY <1>3 DEF vars
<1>4. CASE \E s \in Sigs : TakeSignal(s)
  BY <1>4, TakeShape
<1>5. CASE FinishReturn \/ FinishJump
  <2>1. Depth > 1 /\ Depth \in Nat /\ Top = ctx[Depth]
    BY <1>5, FinishShape, SignalsAssumption DEF TypeOK, Top, Depth
  <2>2. Top.prev \in 1..(Depth - 1) /\ ~InWindow(ctx[Top.prev])
    BY <2>1 DEF StackInv
  <2> QED BY <1>5, <2>1, <2>2, FinishShape
<1> QED BY <1>1, <1>2, <1>3, <1>4, <1>5 DEF Next, Guest, ContextActions, TableActions

-----------------------------------------------------------------------------
(* Levels. *)

\* The stack pointer a context starts with.
Own(n) == IF n = 1 THEN MainSp ELSE ctx[n].frame

\* A context at level n has the stack pointer of context n, which is not in a
\* window; a new handler is at its own level.
LevelInv ==
    /\ ~ctx[1].onstack
    /\ \A m \in 1..Depth :
          /\ ctx[m].level \in 0..m
          /\ ctx[m].level # 0 => ctx[m].sp = Own(ctx[m].level)
          /\ ctx[m].level \in 1..(m - 1) => ~InWindow(ctx[ctx[m].level])
          /\ ctx[m].place = "init" => ctx[m].level = m
          /\ ctx[m].exit => ctx[m].place = "leaving"

\* A handler that has jumped is not above one that has jumped further, except
\* where one handler has returned while another, interrupted in its
\* window, was about to leave.
JumpsInOrder ==
    \A j \in 1..Depth : \A m \in 1..(j - 1) :
        \/ ctx[j].level > m
        \/ ctx[j].level <= ctx[m].level
        \/ m = ctx[j].prev /\ ctx[m].level = 0 /\ ctx[j].place = "leaving"

\* Context m has jumped away from the stack of context n for good.
Left(n, m) ==
    /\ ctx[m].level < n
    /\ \A j \in (m + 1)..Depth : ctx[j].level \notin n..m

\* What the contexts that a step leaves on the stack keep.
Kept(i) ==
    /\ ctx'[i].frame = ctx[i].frame /\ ctx'[i].prev = ctx[i].prev /\ ctx'[i].loc = ctx[i].loc
    /\ ctx'[i].onstack = ctx[i].onstack
    /\ \A j \in 1..(i - 1) :
          /\ ctx'[j].level = ctx[j].level \/ ctx'[j].level = 0
          /\ InWindow(ctx[j]) => InWindow(ctx'[j])
          /\ ctx'[j].sas = ctx[j].sas
    /\ \/ ctx'[i].sas = ctx[i].sas
       \/ /\ i = Depth /\ Depth' = Depth /\ ctx[i].place \in InBlock
          /\ ctx'[i].place = ctx[i].place /\ ctx'[i].level = ctx[i].level
          /\ ~on_sig_stack(ctx[i], ctx[i].sp)

\* What every step keeps of the contexts it does not remove.
LEMMA StackKept ==
    ASSUME TypeOK, StackInv, [Next]_vars
    PROVE  \A i \in 1..Depth : i <= Depth' => Kept(i)
<1>0. Depth \in Nat /\ Depth >= 1 /\ Top = ctx[Depth]
  BY SignalsAssumption DEF TypeOK, Top, Depth
<1>1. ASSUME NEW c, LocalStep(c), Moves(c), NEW i \in 1..Depth
      PROVE  Kept(i)
  <2>1. Depth' = Depth /\ ctx'[Depth] = c /\ \A j \in 1..(Depth - 1) : ctx'[j] = ctx[j]
    BY <1>1, LocalShape
  <2>2. /\ c.frame = ctx[Depth].frame /\ c.prev = ctx[Depth].prev /\ c.loc = ctx[Depth].loc
        /\ c.onstack = ctx[Depth].onstack
    BY <1>0, <1>1 DEF LocalStep, Moves
  <2>3. \/ c.sas = ctx[Depth].sas
        \/ /\ ctx[Depth].place \in InBlock /\ c.place = ctx[Depth].place
           /\ c.level = ctx[Depth].level /\ ~on_sig_stack(ctx[Depth], ctx[Depth].sp)
    BY <1>0, <1>1 DEF Moves, GoesOn, Leaves, JumpsTo, SetsStack, Returns, KeepsStack
  <2> QED BY <1>0, <2>1, <2>2, <2>3 DEF Kept
<1>2. ASSUME ctx' = ctx, NEW i \in 1..Depth
      PROVE  Kept(i)
  BY <1>2 DEF Kept
<1>3. ASSUME NEW s \in Sigs, NEW k, TakeStep(k, s), NEW i \in 1..Depth
      PROVE  Kept(i)
  BY <1>0, <1>3 DEF TakeStep, SameContext, Kept, InWindow
<1>4. ASSUME NEW c, NEW k, FinishStep(k, c), ~InWindow(ctx[k]), NEW i \in 1..Depth, i <= Depth'
      PROVE  Kept(i)
  <2>1. /\ k \in 1..(Depth - 1) /\ Depth' \in {k, Depth - 1} /\ ctx'[k] = c
        /\ \A j \in 1..Depth' : j # k => ctx'[j] = ctx[j]
        /\ c.prev = ctx[k].prev /\ c.frame = ctx[k].frame /\ c.loc = ctx[k].loc
        /\ c.onstack = ctx[k].onstack /\ c.sas = ctx[k].sas
    BY <1>4 DEF FinishStep
  <2>2. Depth' # k => c.level = ctx[k].level \/ c.level = 0
    BY <1>4 DEF FinishStep
  <2>3. ASSUME NEW j \in 1..(i - 1)
        PROVE  /\ ctx'[j].level = ctx[j].level \/ ctx'[j].level = 0
               /\ InWindow(ctx[j]) => InWindow(ctx'[j])
               /\ ctx'[j].sas = ctx[j].sas
    <3>1. j \in 1..Depth' /\ (j = k => Depth' # k)
      BY <1>0, <1>4, <2>1
    <3> QED BY <1>4, <2>1, <2>2, <3>1
  <2>4. i \in 1..Depth'
    BY <1>0, <1>4, <2>1
  <2> QED BY <2>1, <2>3, <2>4 DEF Kept
<1> QED BY <1>1, <1>2, <1>3, <1>4, StackKinds

\* Levels, for a step of the context on top.
LEMMA LevelLocal ==
    ASSUME TypeOK, StackInv, LevelInv, NEW c, LocalStep(c), Moves(c)
    PROVE  LevelInv'
<1>0. Depth \in Nat /\ Depth >= 1 /\ Top = ctx[Depth]
  BY SignalsAssumption DEF TypeOK, Top, Depth
<1>1. /\ Depth' = Depth /\ ctx'[Depth] = c /\ \A i \in 1..(Depth - 1) : ctx'[i] = ctx[i]
      /\ \A i \in 1..Depth : ctx'[i].frame = ctx[i].frame
  BY LocalShape
<1>2. c.onstack = ctx[Depth].onstack /\ c.place # "init" /\ ctx[Depth].place # "leaving"
  BY <1>0 DEF LocalStep, Moves
<1>3. ASSUME NEW m \in 1..(Depth - 1)
      PROVE  /\ ctx'[m].level \in 0..m
             /\ ctx'[m].level # 0 => ctx'[m].sp = Own(ctx[m].level)'
             /\ ctx'[m].level \in 1..(m - 1) => ~InWindow(ctx'[ctx'[m].level])
             /\ ctx'[m].place = "init" => ctx'[m].level = m
             /\ ctx'[m].exit => ctx'[m].place = "leaving"
  <2>1. /\ ctx[m].level \in 0..m
        /\ ctx[m].level # 0 => ctx[m].sp = Own(ctx[m].level)
        /\ ctx[m].level \in 1..(m - 1) => ~InWindow(ctx[ctx[m].level])
        /\ ctx[m].place = "init" => ctx[m].level = m
        /\ ctx[m].exit => ctx[m].place = "leaving"
    BY <1>0 DEF LevelInv
  <2>2. ctx'[m] = ctx[m] /\ ctx[m].level \in 0..(Depth - 1)
    BY <1>0, <1>1, <2>1
  <2> QED BY <1>0, <1>1, <2>1, <2>2 DEF Own
<1>4. /\ c.level \in 0..Depth
      /\ c.level # 0 => c.sp = Own(c.level)
      /\ c.level \in 1..(Depth - 1) => ~InWindow(ctx[c.level])
      /\ c.exit => c.place = "leaving"
  <2>1. CASE KeepsStack(c) \/ SetsStack(c)
    <3>1. c.level = ctx[Depth].level /\ c.sp = ctx[Depth].sp
      BY <1>0, <2>1 DEF KeepsStack, SetsStack
    <3>2. c.exit => c.place = "leaving" \/ ctx[Depth].exit \/ \E j \in 1..Depth : JumpsTo(c, j)
      BY <1>0 DEF Moves, GoesOn, Leaves, SetsStack, Returns, KeepsEnd
    <3>3. ~ctx[Depth].exit
      BY <1>0, <1>2 DEF LevelInv
    <3>4. (\E j \in 1..Depth : JumpsTo(c, j)) => ~c.exit
      BY <1>0, <3>3 DEF JumpsTo, KeepsEnd
    <3> QED BY <1>0, <3>1, <3>2, <3>3, <3>4 DEF LevelInv
  <2>2. ASSUME NEW j \in 1..Depth, JumpsTo(c, j)
        PROVE  <1>4!1 /\ <1>4!2 /\ <1>4!3 /\ <1>4!4
    <3>1. j \in 1..(Depth - 1) /\ ~InWindow(ctx[j]) /\ c.sp = ctx[j].sp /\ c.level = ctx[j].level
          /\ c.exit = ctx[Depth].exit
      BY <1>0, <2>2 DEF JumpsTo, KeepsEnd
    <3>2. /\ ctx[j].level \in 0..j
          /\ ctx[j].level # 0 => ctx[j].sp = Own(ctx[j].level)
          /\ ctx[j].level \in 1..(j - 1) => ~InWindow(ctx[ctx[j].level])
      BY <1>0, <3>1 DEF LevelInv
    <3>3. ~ctx[Depth].exit
      BY <1>0, <1>2 DEF LevelInv
    <3>4. c.level = j \/ c.level = 0 \/ c.level \in 1..(j - 1)
      BY <1>0, <3>1, <3>2
    <3> QED BY <1>0, <3>1, <3>2, <3>3, <3>4
  <2> QED BY <2>1, <2>2 DEF Moves, GoesOn, Leaves, Returns
<1>5. /\ c.level # 0 => c.sp = Own(c.level)'
      /\ c.level \in 1..(Depth - 1) => ~InWindow(ctx'[c.level])
  <2>1. c.level # 0 => c.level \in 1..Depth
    BY <1>0, <1>4
  <2> QED BY <1>0, <1>1, <1>4, <2>1 DEF Own
<1>6. ~ctx'[1].onstack
  BY <1>0, <1>1, <1>2 DEF LevelInv
<1>7. ASSUME NEW m \in 1..Depth
      PROVE  /\ ctx'[m].level \in 0..m
             /\ ctx'[m].level # 0 => ctx'[m].sp = (Own(ctx[m].level))'
             /\ ctx'[m].level \in 1..(m - 1) => ~InWindow(ctx'[ctx'[m].level])
             /\ ctx'[m].place = "init" => ctx'[m].level = m
             /\ ctx'[m].exit => ctx'[m].place = "leaving"
  <2>1. CASE m = Depth
    BY <1>1, <1>2, <1>4, <1>5, <2>1 DEF Own
  <2>2. CASE m \in 1..(Depth - 1)
    BY <1>3, <2>2 DEF Own
  <2> QED BY <1>0, <2>1, <2>2
<1> QED BY <1>1, <1>6, <1>7 DEF LevelInv

\* Levels, for a signal.
LEMMA LevelTake ==
    ASSUME TypeOK, StackInv, LevelInv, NEW s \in Sigs, NEW k, TakeStep(k, s)
    PROVE  LevelInv'
<1>0. Depth \in Nat /\ Depth >= 1
  BY SignalsAssumption DEF TypeOK
<1>1. /\ Depth' = Depth + 1
      /\ \A i \in 1..Depth :
            /\ ctx'[i].frame = ctx[i].frame /\ ctx'[i].sp = ctx[i].sp /\ ctx'[i].level = ctx[i].level
            /\ ctx'[i].place = ctx[i].place /\ ctx'[i].exit = ctx[i].exit
            /\ ctx'[i].onstack = ctx[i].onstack
  BY DEF TakeStep, SameContext
<1>2. LET n == ctx'[Depth + 1] IN n.sp = n.frame /\ n.level = Depth + 1 /\ ~n.exit
  BY DEF TakeStep, NewHandler
<1>3. ASSUME NEW m \in 1..(Depth + 1)
      PROVE  /\ ctx'[m].level \in 0..m
             /\ ctx'[m].level # 0 => ctx'[m].sp = (Own(ctx[m].level))'
             /\ ctx'[m].level \in 1..(m - 1) => ~InWindow(ctx'[ctx'[m].level])
             /\ ctx'[m].place = "init" => ctx'[m].level = m
             /\ ctx'[m].exit => ctx'[m].place = "leaving"
  <2>1. CASE m = Depth + 1
    BY <1>0, <1>2, <2>1 DEF Own
  <2>2. CASE m \in 1..Depth
    <3>1. /\ ctx[m].level \in 0..m
          /\ ctx[m].level # 0 => ctx[m].sp = Own(ctx[m].level)
          /\ ctx[m].level \in 1..(m - 1) => ~InWindow(ctx[ctx[m].level])
          /\ ctx[m].place = "init" => ctx[m].level = m
          /\ ctx[m].exit => ctx[m].place = "leaving"
      BY <2>2 DEF LevelInv
    <3>2. ctx[m].level # 0 => ctx[m].level \in 1..Depth
      BY <1>0, <2>2, <3>1
    <3>3. ctx[m].level \in 1..(m - 1) => ctx[m].level \in 1..Depth
      BY <1>0, <2>2, <3>1
    <3> QED BY <1>1, <2>2, <3>1, <3>2, <3>3 DEF Own, InWindow
  <2> QED BY <1>0, <2>1, <2>2
<1>4. ~ctx'[1].onstack
  BY <1>0, <1>1 DEF LevelInv
<1> QED BY <1>1, <1>3, <1>4 DEF LevelInv

\* Levels, for the end of a handler.
LEMMA LevelFinish ==
    ASSUME TypeOK, StackInv, LevelInv, NEW k, NEW c, FinishStep(k, c), ~InWindow(ctx[k])
    PROVE  LevelInv'
<1>0. Depth \in Nat /\ Depth >= 1 /\ Top = ctx[Depth]
  BY SignalsAssumption DEF TypeOK, Top, Depth
<1>1. /\ Depth' \in Nat /\ Depth' <= Depth - 1 /\ k <= Depth' /\ k \in 1..Depth
      /\ \A i \in 1..Depth' : ctx'[i].frame = ctx[i].frame
      /\ \A i \in 1..Depth' : i # k => ctx'[i] = ctx[i]
      /\ ctx'[k] = c
  BY FinishPrefix
<1>2. c.place \notin {"init", "leaving"}
  <2>1. c.place = ctx[k].place \/ c.place = "umeq"
    BY DEF FinishStep, SamePlace, InLoop
  <2> QED BY <2>1 DEF InWindow
<1>3. c.onstack = ctx[k].onstack /\ c.exit = ctx[k].exit
  BY DEF FinishStep
<1>4. ~c.exit
  BY <1>1, <1>3 DEF LevelInv, InWindow
<1>5. \A i \in 1..Depth' : InWindow(ctx'[i]) <=> InWindow(ctx[i])
  BY <1>1, <1>2 DEF InWindow
<1>6. /\ c.level \in 0..k
      /\ c.level # 0 => c.sp = Own(c.level)
      /\ c.level \in 1..(k - 1) => ~InWindow(ctx[c.level])
  <2>1. /\ ctx[k].level \in 0..k
        /\ ctx[k].level # 0 => ctx[k].sp = Own(ctx[k].level)
        /\ ctx[k].level \in 1..(k - 1) => ~InWindow(ctx[ctx[k].level])
    BY <1>1 DEF LevelInv
  <2>2. /\ Top.level \in 0..Depth
        /\ Top.level # 0 => Top.sp = Own(Top.level)
        /\ Top.level \in 1..(Depth - 1) => ~InWindow(ctx[Top.level])
    BY <1>0 DEF LevelInv
  <2>3. CASE c.level = 0
    BY <1>1, <2>3
  <2>4. CASE c.level = ctx[k].level /\ c.sp = ctx[k].sp
    BY <2>1, <2>4
  <2>5. CASE c.level = Top.level /\ c.sp = Top.sp /\ ~(Top.level > k)
    BY <1>0, <1>1, <2>2, <2>5
  <2> QED BY <2>3, <2>4, <2>5 DEF FinishStep
<1>7. ASSUME NEW m \in 1..Depth'
      PROVE  /\ ctx'[m].level \in 0..m
             /\ ctx'[m].level # 0 => ctx'[m].sp = (Own(ctx[m].level))'
             /\ ctx'[m].level \in 1..(m - 1) => ~InWindow(ctx'[ctx'[m].level])
             /\ ctx'[m].place = "init" => ctx'[m].level = m
             /\ ctx'[m].exit => ctx'[m].place = "leaving"
  <2>1. CASE m = k
    <3>1. c.level # 0 => c.level \in 1..Depth'
      BY <1>1, <1>6
    <3> QED BY <1>1, <1>2, <1>4, <1>5, <1>6, <2>1, <3>1 DEF Own
  <2>2. CASE m # k
    <3>1. /\ ctx[m].level \in 0..m
          /\ ctx[m].level # 0 => ctx[m].sp = Own(ctx[m].level)
          /\ ctx[m].level \in 1..(m - 1) => ~InWindow(ctx[ctx[m].level])
          /\ ctx[m].place = "init" => ctx[m].level = m
          /\ ctx[m].exit => ctx[m].place = "leaving"
      BY <1>0, <1>1 DEF LevelInv
    <3>2. ctx[m].level # 0 => ctx[m].level \in 1..Depth'
      BY <1>1, <3>1
    <3> QED BY <1>1, <1>5, <2>2, <3>1, <3>2 DEF Own
  <2> QED BY <2>1, <2>2
<1>8. ~ctx'[1].onstack
  BY <1>0, <1>1, <1>3 DEF LevelInv
<1> QED BY <1>7, <1>8 DEF LevelInv

\* Every step keeps the levels right.
LEMMA LevelStep ==
    ASSUME TypeOK, StackInv, LevelInv, [Next]_vars
    PROVE  LevelInv'
<1>1. ASSUME ctx' = ctx
      PROVE  LevelInv'
  BY <1>1 DEF LevelInv, Depth, InWindow, Own
<1> QED BY <1>1, StackKinds, LevelLocal, LevelTake, LevelFinish

\* Contexts between a handler's and the one it interrupted are in windows, so
\* a level is never one of theirs.
LEMMA LevelBelow ==
    ASSUME TypeOK, StackInv, LevelInv, NEW i \in 2..Depth, ctx[i].level # i
    PROVE  ctx[i].level \in 0..ctx[i].prev
<1>0. Depth \in Nat
  BY SignalsAssumption DEF TypeOK
<1>1. /\ ctx[i].prev \in 1..(i - 1)
      /\ \A j \in (ctx[i].prev + 1)..(i - 1) : InWindow(ctx[j])
  BY DEF StackInv
<1>2. ctx[i].level \in 0..i /\ (ctx[i].level \in 1..(i - 1) => ~InWindow(ctx[ctx[i].level]))
  BY <1>0 DEF LevelInv
<1> QED BY <1>0, <1>1, <1>2

\* Every step keeps the jumps in order.
LEMMA OrderStep ==
    ASSUME TypeOK, StackInv, LevelInv, JumpsInOrder, [Next]_vars
    PROVE  JumpsInOrder'
<1>0. Depth \in Nat /\ Depth >= 1 /\ Top = ctx[Depth]
  BY SignalsAssumption DEF TypeOK, Top, Depth
<1>a. \A i \in 1..Depth : ctx[i].level \in 0..i
  BY DEF LevelInv
<1>1. ASSUME NEW c, LocalStep(c), Moves(c)
      PROVE  JumpsInOrder'
  <2>1. Depth' = Depth /\ ctx'[Depth] = c /\ \A i \in 1..(Depth - 1) : ctx'[i] = ctx[i]
    BY <1>1, LocalShape
  <2>2. ctx[Depth].place # "leaving"
    BY <1>0, <1>1 DEF Moves
  <2>3. ASSUME NEW m \in 1..(Depth - 1)
        PROVE  c.level > m \/ c.level <= ctx[m].level
    <3>1. CASE c.level = ctx[Depth].level
      BY <1>0, <2>2, <3>1 DEF JumpsInOrder
    <3>2. ASSUME NEW j \in 1..Depth, JumpsTo(c, j)
          PROVE  c.level > m \/ c.level <= ctx[m].level
      <4>1. /\ j \in 1..(Depth - 1) /\ ~InWindow(ctx[j]) /\ c.level = ctx[j].level
            /\ \A i \in (j + 1)..(Depth - 1) : ctx[i].level >= ctx[j].level
        BY <3>2 DEF JumpsTo
      <4>2. ctx[j].level \in Nat /\ ctx[m].level \in Nat
        BY <1>0, <1>a, <4>1
      <4>3. CASE m < j
        <5>1. \/ ctx[j].level > m \/ ctx[j].level <= ctx[m].level
              \/ ctx[j].place = "leaving"
          BY <1>0, <4>1, <4>3 DEF JumpsInOrder
        <5> QED BY <4>1, <5>1 DEF InWindow
      <4>4. CASE m = j
        BY <4>1, <4>2, <4>4
      <4>5. CASE m > j
        BY <4>1, <4>2, <4>5
      <4> QED BY <4>1, <4>3, <4>4, <4>5
    <3> QED BY <1>0, <1>1, <3>1, <3>2 DEF Moves, GoesOn, Leaves, SetsStack, Returns, KeepsStack
  <2>4. ASSUME NEW j \in 1..Depth, NEW m \in 1..(j - 1)
        PROVE  \/ ctx'[j].level > m \/ ctx'[j].level <= ctx'[m].level
               \/ m = ctx'[j].prev /\ ctx'[m].level = 0 /\ ctx'[j].place = "leaving"
    <3>1. CASE j = Depth
      BY <1>0, <2>1, <2>3, <3>1
    <3>2. CASE j # Depth
      <4>1. ctx'[j] = ctx[j] /\ ctx'[m] = ctx[m]
        BY <1>0, <2>1, <3>2
      <4> QED BY <4>1 DEF JumpsInOrder
    <3> QED BY <3>1, <3>2
  <2> QED BY <2>1, <2>4 DEF JumpsInOrder
<1>2. ASSUME NEW s \in Sigs, NEW k, TakeStep(k, s)
      PROVE  JumpsInOrder'
  <2>1. /\ Depth' = Depth + 1 /\ ctx'[Depth + 1].level = Depth + 1
        /\ \A i \in 1..Depth : /\ ctx'[i].level = ctx[i].level /\ ctx'[i].place = ctx[i].place
                               /\ ctx'[i].prev = ctx[i].prev
    BY <1>2 DEF TakeStep, SameContext, NewHandler
  <2>2. ASSUME NEW j \in 1..(Depth + 1), NEW m \in 1..(j - 1)
        PROVE  \/ ctx'[j].level > m \/ ctx'[j].level <= ctx'[m].level
               \/ m = ctx'[j].prev /\ ctx'[m].level = 0 /\ ctx'[j].place = "leaving"
    <3>1. CASE j = Depth + 1
      BY <1>0, <2>1, <3>1
    <3>2. CASE j # Depth + 1
      <4>1. j \in 1..Depth /\ m \in 1..Depth
        BY <1>0, <3>2
      <4> QED BY <2>1, <4>1 DEF JumpsInOrder
    <3> QED BY <3>1, <3>2
  <2> QED BY <2>1, <2>2 DEF JumpsInOrder
<1>3. ASSUME NEW c, FinishStep(Top.prev, c), ~InWindow(ctx[Top.prev]), Depth > 1
      PROVE  JumpsInOrder'
  <2> DEFINE k == Top.prev
  <2>1. /\ Depth' \in Nat /\ Depth' <= Depth - 1 /\ k <= Depth' /\ k \in 1..Depth
        /\ \A i \in 1..Depth' : ctx'[i].prev = ctx[i].prev
        /\ \A i \in 1..Depth' : i # k => ctx'[i] = ctx[i]
        /\ ctx'[k] = c
    BY <1>3, FinishPrefix
  <2>2. \/ c.level = 0
        \/ c.level = ctx[k].level
        \/ c.level = ctx[Depth].level /\ Depth' = k
    BY <1>0, <1>3 DEF FinishStep
  <2>3. \A i \in (k + 1)..(Depth - 1) : InWindow(ctx[i]) /\ ctx[i].prev = k
    <3>1. \A i \in (k + 1)..(Depth - 1) : InWindow(ctx[i])
      BY <1>0, <1>3 DEF StackInv
    <3>2. ASSUME NEW i \in (k + 1)..(Depth - 1)
          PROVE  ctx[i].prev = k
      <4>1. /\ i \in 2..Depth /\ ctx[i].prev \in 1..(i - 1) /\ ~InWindow(ctx[ctx[i].prev])
            /\ \A j \in (ctx[i].prev + 1)..(i - 1) : InWindow(ctx[j])
        BY <1>0, <2>1 DEF StackInv
      <4>2. ~(ctx[i].prev < k)
        BY <1>0, <1>3, <2>1, <4>1
      <4>3. ~(ctx[i].prev > k)
        BY <1>0, <2>1, <3>1, <4>1
      <4> QED BY <2>1, <4>1, <4>2, <4>3
    <3> QED BY <3>1, <3>2
  <2> HIDE DEF k
  <2>4. ASSUME NEW m \in 1..(k - 1)
        PROVE  c.level > m \/ c.level <= ctx[m].level
    <3>1. \/ ctx[k].level > m \/ ctx[k].level <= ctx[m].level \/ ctx[k].place = "leaving"
      BY <1>0, <2>1 DEF JumpsInOrder
    <3>2. ctx[Depth].level > m \/ ctx[Depth].level <= ctx[m].level \/ m = ctx[Depth].prev
      BY <1>0, <2>1 DEF JumpsInOrder
    <3>3. m # ctx[Depth].prev
      BY <1>0, <2>1 DEF k
    <3>4. ctx[k].place # "leaving"
      BY <1>3 DEF InWindow, k
    <3>5. ctx[m].level \in Nat
      BY <1>0, <1>a, <2>1
    <3> QED BY <2>2, <3>1, <3>2, <3>3, <3>4, <3>5
  <2>5. ASSUME NEW j \in 1..Depth', NEW m \in 1..(j - 1)
        PROVE  \/ ctx'[j].level > m \/ ctx'[j].level <= ctx'[m].level
               \/ m = ctx'[j].prev /\ ctx'[m].level = 0 /\ ctx'[j].place = "leaving"
    <3>0. m \in 1..Depth'
      BY <2>1
    <3>1. CASE j = k
      BY <2>1, <2>4, <3>0, <3>1
    <3>2. CASE j # k /\ m = k
      <4>1. j \in (k + 1)..(Depth - 1) /\ Depth' # k
        BY <1>0, <2>1, <3>2
      <4>2. InWindow(ctx[j]) /\ ctx[j].prev = k /\ ctx'[j] = ctx[j] /\ ctx'[m] = c
        BY <2>1, <2>3, <3>2, <4>1
      <4>3. CASE c.level = 0
        <5>1. ctx[j].place = "init" => ctx[j].level = j
          BY <1>0, <2>1 DEF LevelInv
        <5> QED BY <3>2, <4>1, <4>2, <4>3, <5>1 DEF InWindow
      <4>4. CASE c.level = ctx[k].level
        <5>1. \/ ctx[j].level > m \/ ctx[j].level <= ctx[m].level
              \/ m = ctx[j].prev /\ ctx[m].level = 0 /\ ctx[j].place = "leaving"
          BY <1>0, <2>1 DEF JumpsInOrder
        <5> QED BY <3>2, <4>2, <4>4, <5>1
      <4> QED BY <2>2, <4>1, <4>3, <4>4
    <3>3. CASE j # k /\ m # k
      <4>1. ctx'[j] = ctx[j] /\ ctx'[m] = ctx[m] /\ j \in 1..Depth
        BY <1>0, <2>1, <3>0, <3>3
      <4> QED BY <4>1 DEF JumpsInOrder
    <3> QED BY <3>1, <3>2, <3>3
  <2> QED BY <2>5 DEF JumpsInOrder
<1>4. ASSUME ctx' = ctx
      PROVE  JumpsInOrder'
  BY <1>4 DEF JumpsInOrder, Depth
<1> QED BY <1>1, <1>2, <1>3, <1>4, StackKinds

\* A stack that was left for good is never come back to.
LEMMA LeftStep ==
    ASSUME TypeOK, StackInv, LevelInv, [Next]_vars,
           NEW m \in 1..Depth, m <= Depth', NEW n \in 1..m, Left(n, m)
    PROVE  Left(n, m)'
<1>0. Depth \in Nat /\ Depth >= 1 /\ Top = ctx[Depth]
  BY SignalsAssumption DEF TypeOK, Top, Depth
<1>a. \A i \in 1..Depth : ctx[i].level \in 0..i
  BY DEF LevelInv
<1>b. ctx[m].level < n /\ \A j \in (m + 1)..Depth : ctx[j].level \notin n..m
  BY DEF Left
<1>1. ASSUME NEW c, LocalStep(c), Moves(c)
      PROVE  Left(n, m)'
  <2>1. Depth' = Depth /\ ctx'[Depth] = c /\ \A i \in 1..(Depth - 1) : ctx'[i] = ctx[i]
    BY <1>1, LocalShape
  <2>2. CASE c.level = ctx[Depth].level
    <3>1. \A j \in 1..Depth : ctx'[j].level = ctx[j].level
      BY <1>0, <2>1, <2>2
    <3> QED BY <1>0, <1>b, <2>1, <3>1 DEF Left
  <2>3. ASSUME NEW i \in 1..Depth, JumpsTo(c, i)
        PROVE  Left(n, m)'
    <3>1. /\ i \in 1..(Depth - 1) /\ c.level = ctx[i].level /\ ctx[Depth].level = Depth
          /\ \A j \in (i + 1)..(Depth - 1) : ctx[j].level >= ctx[i].level
      BY <2>3 DEF JumpsTo, Jumped
    <3>2. m \in 1..(Depth - 1)
      BY <1>0, <1>b, <3>1
    <3>3. c.level \notin n..m
      <4>1. CASE i < n
        BY <1>0, <1>a, <3>1, <4>1
      <4>2. CASE i \in n..(m - 1)
        BY <1>0, <1>a, <1>b, <3>1, <3>2, <4>2
      <4>3. CASE i = m
        BY <1>0, <1>a, <1>b, <3>1, <4>3
      <4>4. CASE i > m
        BY <1>0, <1>b, <3>1, <4>4
      <4> QED BY <3>1, <4>1, <4>2, <4>3, <4>4
    <3>4. ctx'[m].level < n
      BY <1>b, <2>1, <3>2
    <3>5. ASSUME NEW j \in (m + 1)..Depth
          PROVE  ctx'[j].level \notin n..m
      <4>1. CASE j = Depth
        BY <2>1, <3>3, <4>1
      <4>2. CASE j # Depth
        BY <1>0, <1>b, <2>1, <4>2
      <4> QED BY <4>1, <4>2
    <3> QED BY <2>1, <3>4, <3>5 DEF Left
  <2> QED BY <1>0, <1>1, <2>2, <2>3 DEF Moves, GoesOn, Leaves, SetsStack, Returns, KeepsStack
<1>2. ASSUME NEW s \in Sigs, NEW k, TakeStep(k, s)
      PROVE  Left(n, m)'
  <2>1. /\ Depth' = Depth + 1 /\ ctx'[Depth + 1].level = Depth + 1
        /\ \A i \in 1..Depth : ctx'[i].level = ctx[i].level
    BY <1>2 DEF TakeStep, SameContext, NewHandler
  <2>2. ASSUME NEW j \in (m + 1)..(Depth + 1)
        PROVE  ctx'[j].level \notin n..m
    <3>1. CASE j = Depth + 1
      BY <1>0, <2>1, <3>1
    <3>2. CASE j # Depth + 1
      <4>1. j \in (m + 1)..Depth /\ j \in 1..Depth
        BY <1>0, <3>2
      <4> QED BY <1>b, <2>1, <4>1
    <3> QED BY <3>1, <3>2
  <2> QED BY <1>b, <2>1, <2>2 DEF Left
<1>3. ASSUME NEW k, NEW c, FinishStep(k, c)
      PROVE  Left(n, m)'
  <2>1. /\ Depth' \in Nat /\ Depth' <= Depth - 1 /\ k <= Depth' /\ k \in 1..Depth
        /\ \A i \in 1..Depth' : i # k => ctx'[i] = ctx[i]
        /\ ctx'[k] = c
    BY <1>3, FinishPrefix
  <2>2. \/ c.level = 0
        \/ c.level = ctx[k].level
        \/ c.level = ctx[Depth].level /\ ~(ctx[Depth].level > k)
    BY <1>0, <1>3 DEF FinishStep
  <2>3. ctx[Depth].level \notin n..m /\ ctx[Depth].level \in Nat
    BY <1>0, <1>a, <1>b, <2>1
  <2>4. ctx'[m].level < n
    <3>1. CASE m = k
      BY <1>0, <1>a, <1>b, <2>1, <2>2, <2>3, <3>1
    <3>2. CASE m # k
      BY <1>0, <1>b, <2>1, <3>2
    <3> QED BY <3>1, <3>2
  <2>5. ASSUME NEW j \in (m + 1)..Depth'
        PROVE  ctx'[j].level \notin n..m
    <3>0. j \in 1..Depth' /\ j \in (m + 1)..Depth
      BY <1>0, <2>1
    <3>1. CASE j = k
      BY <1>b, <2>1, <2>2, <2>3, <3>0, <3>1
    <3>2. CASE j # k
      BY <1>b, <2>1, <3>0, <3>2
    <3> QED BY <3>1, <3>2
  <2> QED BY <2>4, <2>5 DEF Left
<1>4. ASSUME ctx' = ctx
      PROVE  Left(n, m)'
  BY <1>4 DEF Left, Depth
<1> QED BY <1>1, <1>2, <1>3, <1>4, StackKinds

\* Signals interrupt at most one context more.
LEMMA DepthStep ==
    ASSUME TypeOK, StackInv, [Next]_vars
    PROVE  /\ Depth \in Nat /\ Depth >= 1 /\ Depth' \in Nat
           /\ Depth' <= Depth \/ \E s \in Sigs : TakeStep(Current, s)
<1>0. Depth \in Nat /\ Depth >= 1
  BY SignalsAssumption DEF TypeOK
<1>1. ASSUME NEW s \in Sigs, TakeStep(Current, s)
      PROVE  Depth' \in Nat
  BY <1>0, <1>1 DEF TakeStep
<1>2. (Depth' \in Nat /\ Depth' <= Depth) \/ \E s \in Sigs : TakeStep(Current, s)
  BY <1>0, StackKinds, LocalShape, FinishPrefix DEF Depth
<1> QED BY <1>0, <1>1, <1>2

-----------------------------------------------------------------------------
(* Handlers that are left without sigreturn. *)

\* A handler that started on the alternate stack has this stack set, unless it
\* has jumped away from it.
OwnStackInv ==
    \A i \in 2..Depth :
        ctx[i].onstack => on_sig_stack(ctx[i], ctx[i].frame) \/ Left(i, i)

\* A handler's frame is below the stack pointer of the context it interrupted,
\* unless it was the first one on the alternate stack.
FrameBelowInv ==
    \A i \in 2..Depth :
        ctx[ctx[i].prev].level = ctx[i].prev /\ (ctx[i].onstack => ctx[ctx[i].prev].onstack)
            => ctx[i].frame < Own(ctx[i].prev)

\* Only a handler that has jumped away can take its alternate stack away.
LEMMA OwnStackStep ==
    ASSUME TypeOK, StackInv, LevelInv, OwnStackInv, [Next]_vars
    PROVE  OwnStackInv'
<1>0. Depth \in Nat /\ Depth >= 1
  BY SignalsAssumption DEF TypeOK
<1>1. ASSUME NEW i \in 2..Depth, i <= Depth', ctx'[i].onstack
      PROVE  (on_sig_stack(ctx[i], ctx[i].frame) \/ Left(i, i))'
  <2>1. Kept(i) /\ i \in 1..Depth
    BY <1>0, <1>1, StackKept
  <2>2. ctx[i].onstack
    BY <1>1, <2>1 DEF Kept
  <2>3. CASE Left(i, i)
    BY <1>0, <1>1, <2>1, <2>3, LeftStep
  <2>4. CASE on_sig_stack(ctx[i], ctx[i].frame)
    <3>1. CASE ctx'[i].sas = ctx[i].sas
      BY <2>1, <2>4, <3>1 DEF Kept, on_sig_stack
    <3>2. CASE ctx'[i].sas # ctx[i].sas
      <4>1. i = Depth /\ Depth' = Depth /\ ctx'[i].level = ctx[i].level
            /\ ~on_sig_stack(ctx[i], ctx[i].sp)
        BY <2>1, <3>2 DEF Kept
      <4>2. ctx[i].level # i
        BY <1>0, <2>1, <2>4, <4>1 DEF LevelInv, Own
      <4>3. ctx[i].level < i
        BY <1>0, <2>1, <4>2 DEF LevelInv
      <4> QED BY <1>0, <4>1, <4>3 DEF Left
    <3> QED BY <3>1, <3>2
  <2> QED BY <1>1, <2>2, <2>3, <2>4 DEF OwnStackInv
<1>2. ASSUME NEW s \in Sigs, NEW k, TakeStep(k, s)
      PROVE  /\ Depth' = Depth + 1
             /\ ctx'[Depth + 1].onstack => on_sig_stack(ctx'[Depth + 1], ctx'[Depth + 1].frame)
  BY <1>2 DEF TakeStep, NewHandler, on_sig_stack
<1>3. CASE Depth' <= Depth
  <2>1. ASSUME NEW i \in 2..Depth'
        PROVE  i \in 2..Depth /\ i <= Depth'
    BY <1>0, <1>3, DepthStep
  <2> QED BY <1>1, <2>1 DEF OwnStackInv
<1>4. CASE Depth' = Depth + 1 /\
           (ctx'[Depth + 1].onstack => on_sig_stack(ctx'[Depth + 1], ctx'[Depth + 1].frame))
  <2>1. ASSUME NEW i \in 2..(Depth + 1), ctx'[i].onstack
        PROVE  (on_sig_stack(ctx[i], ctx[i].frame) \/ Left(i, i))'
    <3>1. CASE i = Depth + 1
      BY <1>4, <2>1, <3>1 DEF on_sig_stack
    <3>2. CASE i # Depth + 1
      BY <1>0, <1>1, <1>4, <2>1, <3>2
    <3> QED BY <3>1, <3>2
  <2> QED BY <1>4, <2>1 DEF OwnStackInv
<1>5. Depth' <= Depth \/ \E s \in Sigs : TakeStep(Current, s)
  BY DepthStep
<1> QED BY <1>2, <1>3, <1>4, <1>5

\* Where the frame of a new handler is.
LEMMA NewFrame ==
    ASSUME TypeOK, StackInv, LargeStacks, NEW s \in Sigs, NEW k, TakeStep(k, s)
    PROVE  LET n == ctx'[Depth + 1]
               c == ctx[k] IN
           /\ n.frame \in Int /\ c.sp \in Int /\ c.sas.sp \in Nat /\ c.sas.size \in Nat
           /\ k \in 1..Depth /\ c.sas \in AltStacks \cup {DISABLED}
           /\ \/ n.frame = c.sp - 1
              \/ /\ ~on_sig_stack(c, c.sp) /\ c.sas \in AltStacks
                 /\ n.frame = c.sas.sp + c.sas.size - 1 /\ c.sas.size >= MaxDepth
                 /\ n.onstack
<1> USE SignalsAssumption
<1> DEFINE n == ctx'[Depth + 1]
           c == ctx[k]
<1>0. Depth \in Nat /\ Depth >= 1 /\ ctx \in Seq(Contexts) /\ Depth = Len(ctx) /\ Depth < MaxDepth
  BY DEF TypeOK, Depth, TakeStep
<1>1. k \in 1..Depth /\ n.frame = sigsp(c, s) - 1 /\ n.onstack = on_sig_stack(c, n.frame)
  BY DEF TakeStep, NewHandler
<1>2. c.sp \in Int /\ c.sas \in AltStacks \cup {DISABLED}
  <2>1. c \in Contexts
    BY <1>0, <1>1
  <2> QED BY <2>1 DEF Contexts
<1>3. c.sas.sp \in Nat /\ c.sas.size \in Nat
  BY <1>2 DEF DISABLED
<1> HIDE DEF n, c
<1>4. CASE acts[s].onstack /\ sas_ss_free(c, c.sp)
  <2>1. c.sas.size # 0 /\ ~on_sig_stack(c, c.sp) /\ n.frame = c.sas.sp + c.sas.size - 1
    BY <1>1, <1>3, <1>4 DEF sas_ss_free, sigsp
  <2>2. c.sas \in AltStacks
    BY <1>2, <2>1 DEF DISABLED
  <2>3. c.sas.size >= MaxDepth
    BY <2>1, <2>2 DEF LargeStacks
  <2>4. on_sig_stack(c, n.frame)
    BY <1>0, <1>3, <2>1, <2>3 DEF on_sig_stack
  <2> QED BY <1>1, <1>2, <1>3, <2>1, <2>2, <2>3, <2>4 DEF n, c
<1>5. CASE ~(acts[s].onstack /\ sas_ss_free(c, c.sp))
  <2>1. n.frame = c.sp - 1
    BY <1>1, <1>5 DEF sigsp
  <2> QED BY <1>1, <1>2, <1>3, <2>1 DEF n, c
<1> QED BY <1>4, <1>5

\* Every step keeps frames below the stack pointers they were made under.
LEMMA FrameBelowStep ==
    ASSUME TypeOK, StackInv, LargeStacks, LevelInv, OwnStackInv, FrameBelowInv, [Next]_vars
    PROVE  FrameBelowInv'
<1>0. Depth \in Nat /\ Depth >= 1
  BY SignalsAssumption DEF TypeOK
<1>1. ASSUME NEW i \in 2..Depth, i <= Depth',
             ctx'[ctx'[i].prev].level = ctx'[i].prev,
             ctx'[i].onstack => ctx'[ctx'[i].prev].onstack
      PROVE  ctx'[i].frame < (Own(ctx[i].prev))'
  <2>1. Kept(i) /\ i \in 1..Depth
    BY <1>0, <1>1, StackKept
  <2>2. ctx[i].prev \in 1..(i - 1)
    BY DEF StackInv
  <2>3. Kept(ctx[i].prev)
    <3>1. ctx[i].prev \in 1..Depth /\ ctx[i].prev <= Depth'
      BY <1>0, <1>1, <2>2, DepthStep
    <3> QED BY <3>1, StackKept
  <2>4. ctx'[i].prev = ctx[i].prev /\ ctx[ctx[i].prev].level = ctx[i].prev
    BY <1>1, <2>1, <2>2 DEF Kept
  <2>5. ctx[i].onstack => ctx[ctx[i].prev].onstack
    BY <1>1, <2>1, <2>3, <2>4 DEF Kept
  <2>6. ctx[i].frame < Own(ctx[i].prev)
    BY <2>4, <2>5 DEF FrameBelowInv
  <2> QED BY <2>1, <2>3, <2>4, <2>6 DEF Kept, Own
<1>2. ASSUME NEW s \in Sigs, NEW k, TakeStep(k, s),
             ctx[k].level = k, ctx'[Depth + 1].onstack => ctx[k].onstack
      PROVE  ctx'[Depth + 1].frame < Own(k)
  <2> DEFINE n == ctx'[Depth + 1]
             c == ctx[k]
  <2>1. /\ n.frame \in Int /\ c.sp \in Int /\ k \in 1..Depth
        /\ \/ n.frame = c.sp - 1
           \/ ~on_sig_stack(c, c.sp) /\ n.onstack
    BY <1>2, NewFrame
  <2>2. c.sp = Own(k)
    BY <1>2, <2>1 DEF LevelInv
  <2>3. CASE n.frame = c.sp - 1
    BY <2>1, <2>2, <2>3
  <2>4. CASE ~on_sig_stack(c, c.sp) /\ n.onstack
    <3>1. c.onstack /\ k # 1
      BY <1>2, <2>4 DEF LevelInv
    <3>2. k \in 2..Depth /\ c.sp = c.frame
      BY <2>1, <2>2, <3>1 DEF Own
    <3>3. on_sig_stack(c, c.frame) \/ Left(k, k)
      BY <3>1, <3>2 DEF OwnStackInv
    <3> QED BY <1>0, <1>2, <2>1, <2>4, <3>2, <3>3 DEF Left
  <2> QED BY <2>1, <2>3, <2>4
<1>3. CASE Depth' <= Depth
  <2>1. ASSUME NEW i \in 2..Depth'
        PROVE  i \in 2..Depth /\ i <= Depth'
    BY <1>0, <1>3, DepthStep
  <2> QED BY <1>1, <2>1 DEF FrameBelowInv
<1>4. ASSUME NEW s \in Sigs, NEW k, TakeStep(k, s)
      PROVE  FrameBelowInv'
  <2>0. /\ Depth' = Depth + 1 /\ k \in 1..Depth /\ ctx'[Depth + 1].prev = k
        /\ ctx'[k].level = ctx[k].level /\ ctx'[k].onstack = ctx[k].onstack
        /\ ctx'[k].frame = ctx[k].frame
    BY <1>4 DEF TakeStep, NewHandler, SameContext
  <2>1. ASSUME NEW i \in 2..(Depth + 1),
               ctx'[ctx'[i].prev].level = ctx'[i].prev,
               ctx'[i].onstack => ctx'[ctx'[i].prev].onstack
        PROVE  ctx'[i].frame < (Own(ctx[i].prev))'
    <3>1. CASE i = Depth + 1
      <4>1. ctx'[Depth + 1].frame < Own(k)
        BY <1>2, <1>4, <2>0, <2>1, <3>1
      <4> QED BY <2>0, <3>1, <4>1 DEF Own
    <3>2. CASE i # Depth + 1
      BY <1>0, <1>1, <2>0, <2>1, <3>2
    <3> QED BY <3>1, <3>2
  <2> QED BY <2>0, <2>1 DEF FrameBelowInv
<1>5. Depth' <= Depth \/ \E s \in Sigs : TakeStep(Current, s)
  BY DepthStep
<1> QED BY <1>3, <1>4, <1>5

\* A handler is in its signal stack before it or the one below has jumped.
LEMMA NotOut ==
    ASSUME TypeOK, StackInv, LevelInv, OwnStackInv, FrameBelowInv,
           Depth > 1, ~Jumped(Depth), ~Jumped(Top.prev)
    PROVE  ~is_out_of_signal_stack(Top)
<1>0. Depth \in Nat /\ Depth >= 1 /\ Top = ctx[Depth] /\ ctx \in Seq(Contexts) /\ Depth = Len(ctx)
  BY SignalsAssumption DEF TypeOK, Top, Depth
<1> DEFINE k == Top.prev
<1>1. k \in 1..(Depth - 1) /\ Depth \in 2..Depth
  BY <1>0 DEF StackInv
<1>2. Top.sp = Top.frame /\ ctx[k].sp = Own(k)
  <2>1. ctx[Depth].level = Depth /\ ctx[k].level = k
    BY <1>0 DEF Jumped
  <2> QED BY <1>0, <1>1, <2>1 DEF LevelInv, Own
<1>3. Top.frame \in Int /\ ctx[k].sp \in Int
  <2>1. Top \in Contexts /\ ctx[k] \in Contexts
    BY <1>0, <1>1
  <2> QED BY <2>1 DEF Contexts
<1>4. Top.onstack => on_sig_stack(Top, Top.sp)
  BY <1>0, <1>1, <1>2 DEF OwnStackInv, Left, Jumped
<1>5. (Top.onstack => ctx[k].onstack) => Top.sp < ctx[k].sp
  BY <1>0, <1>1, <1>2 DEF FrameBelowInv, Jumped
<1> QED BY <1>2, <1>3, <1>4, <1>5 DEF is_out_of_signal_stack

\* So it is not left without sigreturn.
LEMMA ExitStep ==
    ASSUME TypeOK, StackInv, LevelInv, OwnStackInv, FrameBelowInv, NoSpuriousExit, [Next]_vars
    PROVE  NoSpuriousExit'
<1>0. Depth \in Nat /\ Depth >= 1 /\ Top = ctx[Depth]
  BY SignalsAssumption DEF TypeOK, Top, Depth
<1>a. \A i \in 1..Depth : ctx[i].exit => i \in 2..Depth
  BY <1>0 DEF StackInv, LevelInv, InWindow
<1>1. ASSUME NEW i \in 1..Depth, i <= Depth', ctx[i].exit, ctx'[i].level = ctx[i].level
      PROVE  (Jumped(i) \/ Jumped(ctx[i].prev))'
  <2>1. ctx[i].level # i \/ ctx[ctx[i].prev].level # ctx[i].prev
    BY <1>1 DEF NoSpuriousExit, Jumped
  <2>2. ctx[i].prev \in 1..(i - 1)
    BY <1>1, <1>a DEF StackInv
  <2>3. Kept(i)
    BY <1>1, StackKept
  <2> QED BY <1>1, <2>1, <2>2, <2>3 DEF Kept, Jumped
<1>2. ASSUME NEW c, LocalStep(c), Moves(c), NEW i \in 1..Depth, ctx'[i].exit
      PROVE  (Jumped(i) \/ Jumped(ctx[i].prev))'
  <2>1. /\ Depth' = Depth /\ ctx'[Depth] = c /\ \A j \in 1..(Depth - 1) : ctx'[j] = ctx[j]
        /\ c.prev = Top.prev
    BY <1>2, LocalShape DEF LocalStep
  <2>2. CASE i # Depth
    BY <1>0, <1>1, <1>2, <2>1, <2>2
  <2>3. CASE i = Depth
    <3>1. ~Top.exit
      BY <1>0, <1>2 DEF LevelInv, Moves
    <3>2. c.exit
      BY <1>2, <2>1, <2>3
    <3>3. Leaves(c)
      BY <1>2, <3>1, <3>2 DEF Moves, GoesOn, JumpsTo, SetsStack, Returns, KeepsEnd
    <3>4. is_out_of_signal_stack(Top) /\ Depth > 1 /\ c.level = Top.level
      BY <3>2, <3>3 DEF Leaves, leaves_signal, KeepsStack
    <3>5. Jumped(Depth) \/ Jumped(Top.prev)
      BY <3>4, NotOut
    <3>6. Top.prev \in 1..(Depth - 1)
      BY <1>0, <3>4 DEF StackInv
    <3> QED BY <1>0, <2>1, <2>3, <3>4, <3>5, <3>6 DEF Jumped
  <2> QED BY <2>2, <2>3
<1>3. ASSUME NEW s \in Sigs, NEW k, TakeStep(k, s)
      PROVE  NoSpuriousExit'
  <2>1. /\ Depth' = Depth + 1 /\ ~ctx'[Depth + 1].exit
        /\ \A i \in 1..Depth : ctx'[i].exit = ctx[i].exit /\ ctx'[i].level = ctx[i].level
    BY <1>3 DEF TakeStep, SameContext, NewHandler
  <2>2. ASSUME NEW i \in 1..(Depth + 1), ctx'[i].exit
        PROVE  (Jumped(i) \/ Jumped(ctx[i].prev))'
    <3>1. i \in 1..Depth
      BY <1>0, <2>1, <2>2
    <3> QED BY <1>0, <1>1, <2>1, <2>2, <3>1
  <2> QED BY <2>1, <2>2 DEF NoSpuriousExit
<1>4. ASSUME NEW k, NEW c, FinishStep(k, c), ~InWindow(ctx[k])
      PROVE  NoSpuriousExit'
  <2>1. /\ Depth' \in Nat /\ Depth' <= Depth - 1 /\ k <= Depth' /\ k \in 1..Depth
        /\ \A i \in 1..Depth' : i # k => ctx'[i] = ctx[i]
        /\ ctx'[k] = c /\ c.exit = ctx[k].exit
    BY <1>4, FinishPrefix DEF FinishStep
  <2>2. ASSUME NEW i \in 1..Depth', ctx'[i].exit
        PROVE  (Jumped(i) \/ Jumped(ctx[i].prev))'
    <3>1. i # k
      BY <1>4, <2>1, <2>2 DEF LevelInv, InWindow
    <3>2. i \in 1..Depth /\ i <= Depth' /\ ctx'[i] = ctx[i]
      BY <1>0, <2>1, <3>1
    <3> QED BY <1>1, <2>2, <3>2
  <2> QED BY <2>2 DEF NoSpuriousExit
<1>5. ASSUME ctx' = ctx
      PROVE  NoSpuriousExit'
  BY <1>5 DEF NoSpuriousExit, Jumped, Depth
<1>6. ASSUME NEW c, LocalStep(c), Moves(c)
      PROVE  NoSpuriousExit'
  <2>1. Depth' = Depth
    BY <1>6, LocalShape
  <2> QED BY <1>2, <1>6, <2>1 DEF NoSpuriousExit
<1> QED BY <1>3, <1>4, <1>5, <1>6, StackKinds


\* When alternate stacks have room for the frames of all handlers, no handler
\* is left without sigreturn before the guest has jumped (NoSpuriousExit):
\* isLooping compares the stack pointer of a handler with that of the context
\* below and with the alternate stack, and neither comparison misfires.
THEOREM SignalsNoSpuriousExit ==
    ASSUME LargeStacks
    PROVE  Spec => []NoSpuriousExit
<1> DEFINE Inv == TypeOK /\ StackInv /\ LevelInv /\ OwnStackInv /\ FrameBelowInv /\ NoSpuriousExit
<1>1. Init => Inv
  <2> SUFFICES ASSUME Init
               PROVE  LevelInv /\ OwnStackInv /\ FrameBelowInv /\ NoSpuriousExit
    BY TypeInit
  <2>1. /\ Depth = 1 /\ ~ctx[1].onstack /\ ctx[1].level = 1 /\ ctx[1].sp = MainSp
        /\ ctx[1].place = "umeq" /\ ~ctx[1].exit
    BY DEF Init, Depth
  <2>2. LevelInv
    BY <2>1 DEF LevelInv, Own
  <2> QED BY <2>1, <2>2 DEF OwnStackInv, FrameBelowInv, NoSpuriousExit
<1>2. Inv /\ [Next]_vars => Inv'
  BY TypeStep, StackStep, LevelStep, OwnStackStep, FrameBelowStep, ExitStep
<1>3. Inv => NoSpuriousExit
  OBVIOUS
<1> QED BY <1>1, <1>2, <1>3, PTL DEF Spec


-----------------------------------------------------------------------------
(* Where the frames are. *)

On(ss, sp) == sp > ss.sp /\ sp - ss.sp <= ss.size

\* Contexts 1..n are on a part of the stack that is somebody's.
Clean(n) == \A j \in 1..n : ctx[j].level # 0

\* The frame of context n was put below one whose place is known.
Good(n) == Clean(n - 1) \/ \E i \in 2..(n - 1) : FrameKept(i)

\* A frame is near the top of its alternate stack, or of the thread's stack.
Placed(n) ==
    IF ctx[n].onstack
      THEN /\ \E ss \in AltStacks : On(ss, ctx[n].frame)
           /\ \A ss \in AltStacks :
                 On(ss, ctx[n].frame) => ctx[n].frame >= ss.sp + ss.size - (n - 1)
    ELSE ctx[n].frame \in (MainSp - (n - 1))..MainSp

\* The frame of context n does not reach the stack of context m.
Apart(m, n) ==
    IF m > 1 /\ ctx[m].onstack
      THEN /\ ctx[n].onstack /\ ctx[n].frame < ctx[m].frame
           /\ \A ss \in AltStacks : On(ss, ctx[m].frame) => On(ss, ctx[n].frame)
    ELSE ~ctx[n].onstack => ctx[n].frame < Own(m)

\* A frame is apart from the stacks of all contexts below, but for those that
\* were left for good, or were in a window, when it was made.
Ordered(n) ==
    \A m \in 1..(n - 1) :
        Apart(m, n) \/ (\E j \in m..ctx[n].prev : Left(m, j)) \/ InWindow(ctx[m])

\* A context has the alternate stacks of those below it set, with the same
\* exceptions.
HasStacks(n) ==
    \A m \in 2..n : ctx[m].onstack =>
        \/ on_sig_stack(ctx[n], ctx[m].frame)
        \/ \E j \in (m..ctx[n].prev) \cup {n} : Left(m, j)
        \/ m < n /\ InWindow(ctx[m])

PlacesInv == \A n \in 2..Depth : Good(n) => Placed(n) /\ Ordered(n) /\ HasStacks(n)

\* A frame that is lost stays lost.
LEMMA LostStep ==
    ASSUME TypeOK, StackInv, [Next]_vars
    PROVE  \A i \in 1..Depth : i <= Depth' /\ ctx[i].lost => ctx'[i].lost
<1>0. Depth \in Nat /\ Depth >= 1 /\ Top = ctx[Depth]
  BY SignalsAssumption DEF TypeOK, Top, Depth
<1>1. ASSUME NEW c, LocalStep(c), Moves(c), NEW i \in 1..Depth, ctx[i].lost
      PROVE  ctx'[i].lost
  <2>1. ctx'[Depth] = c /\ c.lost = Top.lost /\ \A j \in 1..(Depth - 1) : ctx'[j] = ctx[j]
    BY <1>1, LocalShape DEF Moves
  <2> QED BY <1>0, <1>1, <2>1
<1>2. ASSUME NEW s \in Sigs, NEW k, TakeStep(k, s), NEW i \in 1..Depth, ctx[i].lost
      PROVE  ctx'[i].lost
  BY <1>2 DEF TakeStep
<1>3. ASSUME NEW c, NEW k, FinishStep(k, c), NEW i \in 1..Depth, i <= Depth', ctx[i].lost
      PROVE  ctx'[i].lost
  <2>1. /\ k \in 1..(Depth - 1) /\ Depth' \in {k, Depth - 1} /\ ctx'[k] = c
        /\ \A j \in 1..Depth' : j # k => ctx'[j] = ctx[j]
        /\ c.lost = ctx[k].lost
    BY <1>3 DEF FinishStep
  <2>2. i \in 1..Depth'
    BY <1>0, <1>3, <2>1
  <2> QED BY <1>3, <2>1, <2>2
<1> QED BY <1>1, <1>2, <1>3, StackKinds

\* A step makes no frame good again.
LEMMA GoodStep ==
    ASSUME TypeOK, StackInv, [Next]_vars, NEW n \in 2..Depth, n <= Depth', Good(n)'
    PROVE  Good(n)
<1>0. Depth \in Nat /\ Depth' \in Nat
  BY DepthStep
<1>1. \A j \in 1..(n - 1) : ctx[j].level = 0 => ctx'[j].level = 0
  <2>1. Kept(n)
    BY <1>0, StackKept
  <2> QED BY <2>1 DEF Kept
<1>2. ASSUME Clean(n - 1)'
      PROVE  Clean(n - 1)
  BY <1>1, <1>2 DEF Clean
<1>3. ASSUME NEW i \in 2..(n - 1), FrameKept(i)'
      PROVE  FrameKept(i)
  <2>1. \A j \in 1..(i - 1) : ctx[j].level # 0
    BY <1>0, <1>1, <1>3 DEF FrameKept
  <2>2. ctx[i].lost => ctx'[i].lost
    BY <1>0, <1>3, LostStep
  <2> QED BY <1>3, <2>1, <2>2 DEF FrameKept
<1> QED BY <1>2, <1>3 DEF Good

\* A context that runs on the stack of a handler, which is an alternate one,
\* has this alternate stack set.
LEMMA LevelStack ==
    ASSUME TypeOK, StackInv, LevelInv, PlacesInv, NEW k \in 2..Depth, Good(k),
           ctx[k].level >= 2, ctx[ctx[k].level].onstack
    PROVE  on_sig_stack(ctx[k], ctx[ctx[k].level].frame)
<1> DEFINE x == ctx[k].level
<1>0. Depth \in Nat /\ Depth >= 1
  BY SignalsAssumption DEF TypeOK
<1>1. x \in 2..k /\ (x < k => ~InWindow(ctx[x]))
  BY <1>0 DEF LevelInv
<1>2. \/ on_sig_stack(ctx[k], ctx[x].frame)
      \/ \E j \in (x..ctx[k].prev) \cup {k} : Left(x, j)
      \/ x < k /\ InWindow(ctx[x])
  BY <1>1 DEF PlacesInv, HasStacks
<1>3. ctx[k].prev \in 1..(k - 1)
  BY DEF StackInv
<1>4. ASSUME NEW j \in (x..ctx[k].prev) \cup {k}, Left(x, j)
      PROVE  FALSE
  <2>1. CASE j = k
    BY <1>0, <1>1, <1>4, <2>1 DEF Left
  <2>2. CASE j \in x..ctx[k].prev
    <3>1. k \in (j + 1)..Depth /\ x \in x..j
      BY <1>0, <1>1, <1>3, <2>2
    <3> QED BY <1>4, <3>1 DEF Left
  <2> QED BY <2>1, <2>2
<1> QED BY <1>1, <1>2, <1>4


\* No alternate stack reaches the part of the thread's stack that frames use,
\* and no address is on two alternate stacks.
LEMMA StackRanges ==
    ASSUME StacksApart
    PROVE  /\ \A ss \in AltStacks \cup {DISABLED}, a \in (MainSp - MaxDepth)..MainSp : ~On(ss, a)
           /\ \A ss, tt \in AltStacks, a \in Int : On(ss, a) /\ On(tt, a) => ss = tt
           /\ \A ss \in AltStacks \cup {DISABLED}, a \in Int : On(ss, a) => ss \in AltStacks /\ ss.size # 0
<1> USE SignalsAssumption
<1>0. \A ss \in AltStacks \cup {DISABLED} : ss.sp \in Nat /\ ss.size \in Nat
  BY DEF DISABLED
<1>1. ASSUME NEW ss \in AltStacks, NEW a \in (MainSp - MaxDepth)..MainSp
      PROVE  ~On(ss, a)
  BY <1>0 DEF On, StacksApart
<1>2. ASSUME NEW ss \in AltStacks, NEW tt \in AltStacks, NEW a \in Int, On(ss, a), On(tt, a)
      PROVE  ss = tt
  <2>1. ss = tt \/ ss.sp + ss.size <= tt.sp \/ tt.sp + tt.size <= ss.sp
    BY DEF StacksApart
  <2> QED BY <1>0, <1>2, <2>1 DEF On
<1>3. ASSUME NEW a \in Int
      PROVE  ~On(DISABLED, a)
  BY DEF On, DISABLED
<1>4. ASSUME NEW ss \in AltStacks, NEW a \in Int, On(ss, a)
      PROVE  ss.size # 0
  BY <1>0, <1>4 DEF On
<1>5. (MainSp - MaxDepth)..MainSp \subseteq Int
  OBVIOUS
<1> QED BY <1>1, <1>2, <1>3, <1>4, <1>5

\* A new handler's frame is right below the stack of the context at the level
\* of the interrupted one, or starts an alternate stack.
LEMMA AboveLevel ==
    ASSUME TypeOK, StackInv, LevelInv, LargeStacks, StacksApart, PlacesInv,
           NEW s \in Sigs, NEW k, TakeStep(k, s), NEW d, d = Depth + 1,
           ctx[k].level # 0, \A m \in 2..Depth : Good(m)
    PROVE  LET x == ctx[k].level
               n == ctx'[d] IN
           /\ x \in 1..k /\ k \in 1..Depth /\ n.frame \in Int
           /\ IF x > 1 /\ ctx[x].onstack
                THEN /\ n.onstack /\ n.frame = ctx[x].frame - 1
                     /\ \A ss \in AltStacks : On(ss, ctx[x].frame) => On(ss, n.frame)
              ELSE ~n.onstack => n.frame = Own(x) - 1
           /\ Placed(d)'
<1> USE SignalsAssumption
<1> DEFINE n == ctx'[d]
           c == ctx[k]
           x == c.level
<1>0. Depth \in Nat /\ Depth >= 1 /\ Depth < MaxDepth /\ ctx \in Seq(Contexts) /\ Depth = Len(ctx)
      /\ \A ss \in AltStacks \cup {DISABLED} : ss.sp \in Nat /\ ss.size \in Nat
  BY DEF TypeOK, Depth, TakeStep, DISABLED
<1>1. k \in 1..Depth /\ n.onstack = On(c.sas, n.frame)
  BY DEF TakeStep, NewHandler, on_sig_stack, On
<1>2. x \in 1..k /\ c.sp = Own(x) /\ x \in 1..Depth
  BY <1>0, <1>1 DEF LevelInv
<1>3. /\ n.frame \in Int /\ c.sp \in Int /\ c.sas \in AltStacks \cup {DISABLED}
      /\ \/ n.frame = c.sp - 1
         \/ /\ ~On(c.sas, c.sp) /\ c.sas \in AltStacks
            /\ n.frame = c.sas.sp + c.sas.size - 1 /\ c.sas.size >= MaxDepth
            /\ n.onstack
  BY NewFrame DEF on_sig_stack, On
<1> HIDE DEF n, c
<1>4. CASE x > 1 /\ ctx[x].onstack
  <2>0. x \in 2..k /\ k \in 2..Depth /\ x \in 2..Depth /\ c.sp = ctx[x].frame
    BY <1>0, <1>1, <1>2, <1>4 DEF Own
  <2>1. On(c.sas, ctx[x].frame)
    BY <1>4, <2>0, LevelStack DEF c, on_sig_stack, On
  <2>2. n.frame = ctx[x].frame - 1
    BY <1>3, <2>0, <2>1
  <2>3. \A ss \in AltStacks : On(ss, ctx[x].frame) => ctx[x].frame >= ss.sp + ss.size - (x - 1)
    BY <1>4, <2>0 DEF PlacesInv, Placed
  <2>4. ASSUME NEW ss \in AltStacks, On(ss, ctx[x].frame)
        PROVE  On(ss, n.frame) /\ n.frame >= ss.sp + ss.size - Depth
    <3>1. ss.sp \in Nat /\ ss.size \in Nat /\ ss.size >= MaxDepth
      BY <1>0, <1>3, <2>0, <2>4, StackRanges DEF LargeStacks
    <3>2. ctx[x].frame >= ss.sp + ss.size - (x - 1)
      BY <2>3, <2>4
    <3>3. ctx[x].frame \in Int /\ x \in Nat /\ x <= Depth /\ x >= 2
      BY <1>0, <1>3, <2>0
    <3>4. ctx[x].frame - ss.sp <= ss.size
      BY <2>4 DEF On
    <3>5. Depth \in Nat
      BY <1>0
    <3>6. Depth < MaxDepth /\ MaxDepth \in Nat
      BY <1>0
    <3> HIDE SignalsAssumption
    <3>7. n.frame >= ss.sp + ss.size - Depth
      BY <2>2, <3>1, <3>2, <3>3, <3>5
    <3>8. n.frame > ss.sp /\ n.frame - ss.sp <= ss.size
      BY <2>2, <3>1, <3>3, <3>4, <3>5, <3>6, <3>7
    <3> QED BY <3>7, <3>8 DEF On
  <2>5. c.sas \in AltStacks
    BY <1>3, <2>0, <2>1, StackRanges
  <2>6. n.onstack /\ On(c.sas, n.frame)
    BY <1>1, <2>1, <2>4, <2>5
  <2>7. ASSUME NEW ss \in AltStacks, On(ss, n.frame)
        PROVE  n.frame >= ss.sp + ss.size - Depth
    BY <1>3, <2>1, <2>4, <2>5, <2>6, <2>7, StackRanges
  <2>8. Placed(d)'
    BY <1>0, <2>5, <2>6, <2>7 DEF Placed, n
  <2> QED BY <1>1, <1>2, <1>3, <1>4, <2>2, <2>4, <2>6, <2>8 DEF n, c
<1>5. CASE ~(x > 1 /\ ctx[x].onstack)
  <2>1. c.sp \in (MainSp - (x - 1))..MainSp
    <3>1. CASE x = 1
      BY <1>2, <3>1 DEF Own
    <3>2. CASE x # 1
      <4>1. x \in 2..Depth /\ x > 1
        BY <1>0, <1>2, <3>2
      <4>2. Placed(x) /\ ~ctx[x].onstack /\ c.sp = ctx[x].frame
        BY <1>2, <1>5, <3>2, <4>1 DEF PlacesInv, Own
      <4> QED BY <4>2 DEF Placed
    <3> QED BY <3>1, <3>2
  <2>2. CASE n.frame = c.sp - 1
    <3>1. n.frame \in (MainSp - Depth)..MainSp /\ n.frame \in (MainSp - MaxDepth)..MainSp
      BY <1>0, <1>2, <2>1, <2>2
    <3>2. ~n.onstack
      BY <1>1, <1>3, <3>1, StackRanges
    <3>3. Placed(d)'
      BY <1>0, <3>1, <3>2 DEF Placed, n
    <3> QED BY <1>1, <1>2, <1>3, <1>5, <2>2, <3>3 DEF n, c
  <2>3. CASE /\ n.onstack /\ c.sas \in AltStacks /\ n.frame = c.sas.sp + c.sas.size - 1
             /\ c.sas.size >= MaxDepth
    <3>1. On(c.sas, n.frame)
      BY <1>1, <2>3
    <3>2. ASSUME NEW ss \in AltStacks, On(ss, n.frame)
          PROVE  n.frame >= ss.sp + ss.size - Depth
      <4>1. ss = c.sas
        BY <1>3, <2>3, <3>1, <3>2, StackRanges
      <4> QED BY <1>0, <2>3, <4>1
    <3>3. Placed(d)'
      BY <1>0, <2>3, <3>1, <3>2 DEF Placed, n
    <3> QED BY <1>1, <1>2, <1>3, <1>5, <2>3, <3>3 DEF n, c
  <2> QED BY <1>3, <2>2, <2>3
<1> QED BY <1>4, <1>5


\* If the frame of a new handler is good, so are all those below it.
LEMMA GoodNew ==
    ASSUME TypeOK, StackInv, LevelInv, NEW s \in Sigs, NEW k, TakeStep(k, s), NEW d, d = Depth + 1
    PROVE  /\ \A i \in 2..Depth : FrameKept(i)' => FrameKept(i) /\ i <= ctx[k].level
           /\ Good(d)' => ctx[k].level # 0 /\ \A m \in 2..Depth : Good(m)
<1>0. Depth \in Nat /\ Depth >= 1
  BY SignalsAssumption DEF TypeOK
<1>1. /\ k \in 1..Depth /\ ctx[k].level \in 0..k
      /\ \A i \in 1..Depth : /\ ctx'[i].level = ctx[i].level
                             /\ ctx'[i].lost = (ctx[i].lost \/ i > ctx[k].level)
  BY DEF TakeStep, SameContext, LevelInv
<1>2. ASSUME NEW i \in 2..Depth, FrameKept(i)'
      PROVE  FrameKept(i) /\ i <= ctx[k].level
  <2>1. ~ctx'[i].lost /\ \A j \in 1..(i - 1) : ctx'[j].level # 0
    BY <1>2 DEF FrameKept
  <2>2. i \in 1..Depth /\ \A j \in 1..(i - 1) : j \in 1..Depth
    BY <1>0
  <2>3. ~ctx[i].lost /\ ~(i > ctx[k].level)
    BY <1>1, <2>1, <2>2
  <2>4. i <= ctx[k].level
    BY <1>1, <2>3
  <2>5. \A j \in 1..(i - 1) : ctx[j].level # 0
    BY <1>1, <2>1, <2>2
  <2> QED BY <2>3, <2>4, <2>5 DEF FrameKept
<1>3. CASE Clean(Depth)
  <2>1. \A m \in 2..Depth : Good(m)
    BY <1>0, <1>3 DEF Good, Clean
  <2> QED BY <1>1, <1>2, <1>3, <2>1 DEF Clean
<1>4. ASSUME NEW i \in 2..Depth, FrameKept(i)'
      PROVE  ctx[k].level # 0 /\ \A m \in 2..Depth : Good(m)
  <2>1. FrameKept(i) /\ i <= ctx[k].level
    BY <1>2, <1>4
  <2>2. ASSUME NEW m \in 2..Depth
        PROVE  Good(m)
    <3>1. CASE m <= i
      BY <1>0, <2>1, <3>1 DEF Good, Clean, FrameKept
    <3>2. CASE i < m
      BY <1>0, <2>1, <3>2 DEF Good
    <3> QED BY <1>0, <3>1, <3>2
  <2> QED BY <1>1, <2>1, <2>2
<1>5. Good(d)' => Clean(Depth) \/ \E i \in 2..Depth : FrameKept(i)'
  <2>1. d - 1 = Depth
    BY <1>0
  <2>2. (\A j \in 1..(d - 1) : ctx'[j].level # 0) => Clean(Depth)
    BY <1>1, <2>1 DEF Clean
  <2>3. Good(d)' => (\A j \in 1..(d - 1) : ctx'[j].level # 0) \/ \E i \in 2..(d - 1) : FrameKept(i)'
    BY DEF Good, Clean
  <2> QED BY <2>1, <2>2, <2>3
<1> QED BY <1>2, <1>3, <1>4, <1>5

\* The frame of a new handler is apart from the stack it is on, and from all
\* that one is apart from.
LEMMA NewApart ==
    ASSUME TypeOK, StackInv, LevelInv, LargeStacks, StacksApart, PlacesInv,
           NEW s \in Sigs, NEW k, TakeStep(k, s), NEW d, d = Depth + 1,
           NEW x, x = ctx[k].level, x # 0, \A m \in 2..Depth : Good(m)
    PROVE  Apart(x, d)' /\ \A m \in 1..(x - 1) : Apart(m, x) => Apart(m, d)'
<1> DEFINE n == ctx'[d]
<1>0. Depth \in Nat /\ Depth >= 1 /\ ctx \in Seq(Contexts) /\ Depth = Len(ctx) /\ MainSp \in Int
  BY SignalsAssumption DEF TypeOK, Depth
<1>1. /\ x \in 1..k /\ k \in 1..Depth /\ n.frame \in Int
      /\ IF x > 1 /\ ctx[x].onstack
           THEN /\ n.onstack /\ n.frame = ctx[x].frame - 1
                /\ \A ss \in AltStacks : On(ss, ctx[x].frame) => On(ss, n.frame)
         ELSE ~n.onstack => n.frame = Own(x) - 1
  BY AboveLevel
<1>2. \A i \in 1..Depth : ctx'[i].frame = ctx[i].frame /\ ctx'[i].onstack = ctx[i].onstack
  BY DEF TakeStep, SameContext
<1>3. ASSUME NEW i \in 1..Depth
      PROVE  ctx[i].frame \in Int
  <2>1. ctx[i] \in Contexts
    BY <1>0
  <2> QED BY <2>1 DEF Contexts
<1>4. \A i \in 1..Depth : Own(i) \in Int /\ (i # 1 => Own(i) = ctx[i].frame)
  BY <1>0, <1>3 DEF Own
<1>5. x \in 1..Depth
  BY <1>0, <1>1
<1> HIDE DEF n
<1>6. \A m \in 1..Depth : Apart(m, d)' <=>
        (IF m > 1 /\ ctx[m].onstack
           THEN /\ n.onstack /\ n.frame < ctx[m].frame
                /\ \A ss \in AltStacks : On(ss, ctx[m].frame) => On(ss, n.frame)
         ELSE ~n.onstack => n.frame < Own(m))
  BY <1>2 DEF Apart, Own, n
<1>7. Apart(x, d)'
  BY <1>1, <1>3, <1>4, <1>5, <1>6
<1>8. ASSUME NEW m \in 1..(x - 1), Apart(m, x)
      PROVE  Apart(m, d)'
  <2>0. m \in 1..Depth /\ x > 1 /\ Own(x) = ctx[x].frame /\ ctx[x].frame \in Int
        /\ Own(m) \in Int /\ ctx[m].frame \in Int
    BY <1>0, <1>3, <1>4, <1>5
  <2>1. CASE m > 1 /\ ctx[m].onstack
    <3>1. /\ ctx[x].onstack /\ ctx[x].frame < ctx[m].frame
          /\ \A ss \in AltStacks : On(ss, ctx[m].frame) => On(ss, ctx[x].frame)
      BY <1>8, <2>1 DEF Apart
    <3>2. /\ n.onstack /\ n.frame = ctx[x].frame - 1
          /\ \A ss \in AltStacks : On(ss, ctx[x].frame) => On(ss, n.frame)
      BY <1>1, <2>0, <3>1
    <3>3. n.frame < ctx[m].frame
      BY <2>0, <3>1, <3>2
    <3> QED BY <1>6, <2>0, <2>1, <3>1, <3>2, <3>3
  <2>2. CASE ~(m > 1 /\ ctx[m].onstack)
    <3>1. ~ctx[x].onstack => ctx[x].frame < Own(m)
      BY <1>8, <2>2 DEF Apart
    <3>2. ~n.onstack => n.frame < Own(m)
      BY <1>1, <2>0, <3>1
    <3> QED BY <1>6, <2>0, <2>2, <3>2
  <2> QED BY <2>1, <2>2
<1> QED BY <1>7, <1>8

\* Where the frame of a new handler is.
LEMMA NewPlaces ==
    ASSUME TypeOK, StackInv, LevelInv, LargeStacks, StacksApart, PlacesInv, JumpsInOrder,
           [Next]_vars, NEW s \in Sigs, NEW k, TakeStep(k, s), NEW d, d = Depth + 1, Good(d)'
    PROVE  (Placed(d) /\ Ordered(d) /\ HasStacks(d))'
<1>0. Depth \in Nat /\ Depth >= 1 /\ Depth' = Depth + 1
  BY SignalsAssumption DEF TypeOK, TakeStep
<1>1. ctx[k].level # 0 /\ \A m \in 2..Depth : Good(m)
  BY GoodNew
<1>2. PICK x : x = ctx[k].level
  OBVIOUS
<1>3. x \in 1..k /\ k \in 1..Depth /\ x \in 1..Depth
  BY <1>0, <1>1, <1>2 DEF LevelInv, TakeStep
<1>4. /\ \A i \in 1..Depth :
            /\ ctx'[i].frame = ctx[i].frame /\ ctx'[i].onstack = ctx[i].onstack
            /\ ctx'[i].level = ctx[i].level /\ ctx'[i].place = ctx[i].place
            /\ InWindow(ctx[i]) => InWindow(ctx'[i])
      /\ \A j \in (k + 1)..Depth : InWindow(ctx[j])
      /\ ctx'[d].prev = k /\ ctx'[d].level = d /\ ctx'[d].sas = ctx[k].sas
      /\ ctx'[d].onstack = on_sig_stack(ctx[k], ctx'[d].frame)
  BY DEF TakeStep, SameContext, NewHandler, InWindow
<1>5. Placed(d)'
  BY <1>1, AboveLevel
<1>6. \A m \in 1..Depth, j \in 1..k : m <= j /\ Left(m, j) => Left(m, j)'
  <2> SUFFICES ASSUME NEW m \in 1..Depth, NEW j \in 1..k, m <= j, Left(m, j)
               PROVE  Left(m, j)'
    OBVIOUS
  <2>1. j \in 1..Depth /\ j <= Depth' /\ m \in 1..j
    BY <1>0, <1>3
  <2> QED BY <2>1, LeftStep
<1>7. ASSUME NEW m \in 1..Depth
      PROVE  (Apart(m, d) \/ (\E j \in m..ctx[d].prev : Left(m, j)) \/ InWindow(ctx[m]))'
  <2>1. CASE m > k
    BY <1>0, <1>3, <1>4, <2>1
  <2>2. CASE m <= k /\ x < m
    <3>1. ASSUME NEW j \in (k + 1)..Depth
          PROVE  ctx[j].level \notin m..k
      <4>1. j \in 1..Depth /\ k \in 1..(j - 1)
        BY <1>0, <1>3
      <4>2. ctx[j].level > k \/ ctx[j].level <= x
        BY <1>1, <1>2, <4>1 DEF JumpsInOrder
      <4> QED BY <1>0, <1>3, <2>2, <4>2
    <3>2. ASSUME NEW j \in (k + 1)..d
          PROVE  ctx'[j].level \notin m..k
      <4>1. CASE j = d
        BY <1>0, <1>3, <1>4, <4>1
      <4>2. CASE j # d
        BY <1>0, <1>3, <1>4, <3>1, <4>2
      <4> QED BY <4>1, <4>2
    <3>3. Left(m, k)'
      BY <1>0, <1>2, <1>3, <1>4, <2>2, <3>2 DEF Left
    <3>4. k \in m..ctx'[d].prev
      BY <1>3, <1>4, <2>2
    <3> QED BY <3>3, <3>4
  <2>3. CASE x = m
    BY <1>1, <1>2, <2>3, NewApart
  <2>4. CASE m < x
    <3>0. x \in 2..Depth /\ m \in 1..(x - 1) /\ Good(x)
      BY <1>0, <1>1, <1>3, <2>4
    <3>1. Apart(m, x) \/ (\E j \in m..ctx[x].prev : Left(m, j)) \/ InWindow(ctx[m])
      BY <3>0 DEF PlacesInv, Ordered
    <3>2. CASE Apart(m, x)
      BY <1>1, <1>2, <3>0, <3>2, NewApart
    <3>3. ASSUME NEW j \in m..ctx[x].prev, Left(m, j)
          PROVE  (\E i \in m..ctx[d].prev : Left(m, i))'
      <4>1. ctx[x].prev \in 1..(x - 1)
        BY <3>0 DEF StackInv
      <4>2. j \in 1..k /\ j \in m..ctx'[d].prev /\ m <= j
        BY <1>0, <1>3, <1>4, <4>1
      <4>3. Left(m, j)'
        BY <1>6, <3>3, <4>2
      <4> QED BY <4>2, <4>3
    <3> QED BY <1>4, <3>1, <3>2, <3>3
  <2> QED BY <1>0, <1>3, <2>1, <2>2, <2>3, <2>4
<1>8. ASSUME NEW m \in 2..d, ctx'[m].onstack
      PROVE  (\/ on_sig_stack(ctx[d], ctx[m].frame)
              \/ \E j \in (m..ctx[d].prev) \cup {d} : Left(m, j)
              \/ m < d /\ InWindow(ctx[m]))'
  <2>1. CASE m = d
    BY <1>4, <1>8, <2>1 DEF on_sig_stack
  <2>2. CASE m # d /\ m > k
    BY <1>0, <1>3, <1>4, <2>2
  <2>3. CASE m <= k
    <3>0. k \in 2..Depth /\ m \in 2..k /\ Good(k) /\ m \in 1..Depth /\ m < d
      BY <1>0, <1>1, <1>3, <2>3
    <3>1. \/ on_sig_stack(ctx[k], ctx[m].frame)
          \/ \E j \in (m..ctx[k].prev) \cup {k} : Left(m, j)
          \/ m < k /\ InWindow(ctx[m])
      BY <1>4, <1>8, <3>0 DEF PlacesInv, HasStacks
    <3>2. CASE on_sig_stack(ctx[k], ctx[m].frame)
      BY <1>4, <3>0, <3>2 DEF on_sig_stack
    <3>3. ASSUME NEW j \in (m..ctx[k].prev) \cup {k}, Left(m, j)
          PROVE  (\E i \in (m..ctx[d].prev) \cup {d} : Left(m, i))'
      <4>1. ctx[k].prev \in 1..(k - 1)
        BY <3>0 DEF StackInv
      <4>2. j \in 1..k /\ j \in m..ctx'[d].prev /\ m <= j
        BY <1>0, <1>3, <1>4, <3>0, <4>1
      <4>3. Left(m, j)'
        BY <1>6, <3>0, <3>3, <4>2
      <4> QED BY <4>2, <4>3
    <3>4. CASE InWindow(ctx[m])
      BY <1>4, <3>0, <3>4
    <3> QED BY <3>1, <3>2, <3>3, <3>4
  <2> QED BY <1>0, <1>3, <2>1, <2>2, <2>3
<1>9. Ordered(d)'
  BY <1>0, <1>7 DEF Ordered
<1>10. HasStacks(d)'
  BY <1>0, <1>8 DEF HasStacks
<1> QED BY <1>5, <1>9, <1>10


\* What is below a good frame is good.
LEMMA GoodBelow ==
    ASSUME NEW n \in Nat, NEW m \in 2..n, Good(n)
    PROVE  Good(m)
<1>1. CASE Clean(n - 1)
  BY <1>1 DEF Good, Clean
<1>2. ASSUME NEW i \in 2..(n - 1), FrameKept(i)
      PROVE  Good(m)
  <2>1. CASE m <= i
    BY <1>2, <2>1 DEF Good, Clean, FrameKept
  <2>2. CASE i < m
    BY <1>2, <2>2 DEF Good
  <2> QED BY <2>1, <2>2
<1> QED BY <1>1, <1>2 DEF Good

\* Every step keeps the places of the frames that stay.
LEMMA OldPlaces ==
    ASSUME TypeOK, StackInv, LevelInv, PlacesInv, [Next]_vars,
           NEW n \in 2..Depth, n <= Depth', Good(n)
    PROVE  (Placed(n) /\ Ordered(n) /\ HasStacks(n))'
<1>0. Depth \in Nat /\ Depth >= 1 /\ Depth' \in Nat
  BY DepthStep
<1>1. \A i \in 1..n : Kept(i)
  BY <1>0, StackKept
<1>2. /\ \A i \in 1..n : ctx'[i].frame = ctx[i].frame /\ ctx'[i].onstack = ctx[i].onstack
      /\ \A i \in 1..(n - 1) : InWindow(ctx[i]) => InWindow(ctx'[i])
      /\ ctx'[n].prev = ctx[n].prev /\ n \in 1..n
  BY <1>0, <1>1 DEF Kept
<1>3. ctx[n].prev \in 1..(n - 1)
  BY DEF StackInv
<1>4. \A m \in 1..n, j \in 1..n : m <= j /\ Left(m, j) => Left(m, j)'
  <2> SUFFICES ASSUME NEW m \in 1..n, NEW j \in 1..n, m <= j, Left(m, j)
               PROVE  Left(m, j)'
    OBVIOUS
  <2>1. j \in 1..Depth /\ j <= Depth' /\ m \in 1..j
    BY <1>0
  <2> QED BY <2>1, LeftStep
<1>5. Placed(n)'
  <2>1. Placed(n)
    BY DEF PlacesInv
  <2> QED BY <1>2, <2>1 DEF Placed
<1>6. ASSUME NEW m \in 1..(n - 1)
      PROVE  (Apart(m, n) \/ (\E j \in m..ctx[n].prev : Left(m, j)) \/ InWindow(ctx[m]))'
  <2>0. m \in 1..n
    BY <1>0
  <2>1. Apart(m, n) \/ (\E j \in m..ctx[n].prev : Left(m, j)) \/ InWindow(ctx[m])
    BY DEF PlacesInv, Ordered
  <2>2. CASE Apart(m, n)
    BY <1>2, <2>0, <2>2 DEF Apart, Own
  <2>3. ASSUME NEW j \in m..ctx[n].prev, Left(m, j)
        PROVE  (\E i \in m..ctx[n].prev : Left(m, i))'
    <3>1. j \in 1..n /\ m <= j /\ j \in m..ctx'[n].prev
      BY <1>0, <1>2, <1>3
    <3> QED BY <1>4, <2>0, <2>3, <3>1
  <2> QED BY <1>2, <2>1, <2>2, <2>3
<1>7. ASSUME NEW m \in 2..n, ctx'[m].onstack
      PROVE  (\/ on_sig_stack(ctx[n], ctx[m].frame)
              \/ \E j \in (m..ctx[n].prev) \cup {n} : Left(m, j)
              \/ m < n /\ InWindow(ctx[m]))'
  <2>0. m \in 1..n /\ ctx[m].onstack
    BY <1>0, <1>2, <1>7
  <2>1. ASSUME NEW j \in (m..ctx[n].prev) \cup {n}, Left(m, j)
        PROVE  (\E i \in (m..ctx[n].prev) \cup {n} : Left(m, i))'
    <3>1. j \in 1..n /\ m <= j /\ j \in (m..ctx'[n].prev) \cup {n}
      BY <1>0, <1>2, <1>3
    <3> QED BY <1>4, <2>0, <2>1, <3>1
  <2>2. CASE m < n /\ InWindow(ctx[m])
    BY <1>2, <2>0, <2>2
  <2>3. CASE on_sig_stack(ctx[n], ctx[m].frame) /\ ctx'[n].sas = ctx[n].sas
    BY <1>2, <2>0, <2>3 DEF on_sig_stack
  <2>4. CASE ctx'[n].sas # ctx[n].sas
    <3> DEFINE x == ctx[n].level
    <3>1. n = Depth /\ Depth' = Depth /\ ctx'[n].level = x /\ ~on_sig_stack(ctx[n], ctx[n].sp)
      BY <1>1, <1>2, <2>4 DEF Kept
    <3>2. x \in 0..n /\ (x # 0 => ctx[n].sp = Own(x))
      BY <1>2, <1>0 DEF LevelInv
    <3>3. CASE x < m
      BY <1>0, <3>1, <3>2, <3>3 DEF Left
    <3>4. CASE x >= m
      <4>0. x \in 2..n /\ x >= 2 /\ x \in 2..Depth
        BY <1>0, <3>2, <3>4
      <4>1. ctx[n].sp = ctx[x].frame
        BY <3>2, <4>0 DEF Own
      <4>2. ~ctx[x].onstack
        BY <3>1, <4>0, <4>1, LevelStack
      <4>3. x # m /\ m \in 1..(x - 1) /\ m > 1
        BY <2>0, <3>4, <4>0, <4>2
      <4>4. Good(x)
        BY <1>0, <4>0, GoodBelow
      <4>5. Apart(m, x) \/ (\E j \in m..ctx[x].prev : Left(m, j)) \/ InWindow(ctx[m])
        BY <4>0, <4>3, <4>4 DEF PlacesInv, Ordered
      <4>6. ~Apart(m, x)
        BY <2>0, <4>2, <4>3 DEF Apart
      <4>7. CASE InWindow(ctx[m])
        BY <1>0, <2>2, <4>0, <4>3, <4>7
      <4>8. ASSUME NEW j \in m..ctx[x].prev, Left(m, j)
            PROVE  (\E i \in (m..ctx[n].prev) \cup {n} : Left(m, i))'
        <5>1. ctx[x].prev \in 1..(x - 1)
          BY <4>0 DEF StackInv
        <5>2. x = n \/ x \in 0..ctx[n].prev
          BY LevelBelow
        <5>3. j \in m..ctx[n].prev
          BY <1>0, <1>3, <4>0, <5>1, <5>2
        <5> QED BY <2>1, <4>8, <5>3
      <4> QED BY <4>5, <4>6, <4>7, <4>8
    <3> QED BY <1>0, <3>2, <3>3, <3>4
  <2>5. \/ on_sig_stack(ctx[n], ctx[m].frame)
        \/ \E j \in (m..ctx[n].prev) \cup {n} : Left(m, j)
        \/ m < n /\ InWindow(ctx[m])
    BY <2>0 DEF PlacesInv, HasStacks
  <2> QED BY <2>1, <2>2, <2>3, <2>4, <2>5
<1>8. Ordered(n)'
  BY <1>6 DEF Ordered
<1>9. HasStacks(n)'
  BY <1>7 DEF HasStacks
<1> QED BY <1>5, <1>8, <1>9

\* Every step keeps the places of all good frames.
LEMMA PlacesStep ==
    ASSUME TypeOK, StackInv, LevelInv, LargeStacks, StacksApart, PlacesInv, JumpsInOrder,
           [Next]_vars
    PROVE  PlacesInv'
<1>0. Depth \in Nat /\ Depth >= 1 /\ Depth' \in Nat
      /\ (Depth' <= Depth \/ \E s \in Sigs : TakeStep(Current, s))
  BY DepthStep
<1>1. ASSUME NEW n \in 2..Depth, n <= Depth', Good(n)'
      PROVE  (Placed(n) /\ Ordered(n) /\ HasStacks(n))'
  BY <1>1, GoodStep, OldPlaces
<1>2. ASSUME NEW s \in Sigs, TakeStep(Current, s)
      PROVE  PlacesInv'
  <2>1. Depth' = Depth + 1
    BY <1>2 DEF TakeStep
  <2>2. ASSUME NEW n \in 2..(Depth + 1), Good(n)'
        PROVE  (Placed(n) /\ Ordered(n) /\ HasStacks(n))'
    <3>1. CASE n = Depth + 1
      BY <1>2, <2>2, <3>1, NewPlaces
    <3>2. CASE n # Depth + 1
      BY <1>0, <1>1, <2>1, <2>2, <3>2
    <3> QED BY <3>1, <3>2
  <2> QED BY <2>1, <2>2 DEF PlacesInv
<1>3. CASE Depth' <= Depth
  <2>1. ASSUME NEW n \in 2..Depth'
        PROVE  n \in 2..Depth /\ n <= Depth'
    BY <1>0, <1>3
  <2> QED BY <1>1, <2>1 DEF PlacesInv
<1> QED BY <1>0, <1>2, <1>3


-----------------------------------------------------------------------------
(* What handlers find in their frames. *)

\* What is known of a frame that FrameKept says is still the handler's.
FrameInv(i) ==
    /\ \A n \in (i + 1)..Depth : Apart(i, n)
    /\ frames[ctx[i].frame].sig = ctx[i].sig
    /\ frames[ctx[i].frame].given = ctx[ctx[i].prev].pc
    /\ ~ctx[i].looping => ctx[i].told = frames[ctx[i].frame].pc
    /\ ctx[i].place = "leaving" => ~ctx[i].looping \/ ctx[i].exit
AllFrameInv == \A i \in 2..Depth : FrameKept(i) => FrameInv(i)

\* Frames that are apart are at different addresses.
LEMMA ApartDiffer ==
    ASSUME StacksApart, NEW a \in Int, NEW b \in Int, NEW p \in BOOLEAN, NEW q \in BOOLEAN,
           p => q /\ b < a, ~p /\ ~q => b < a,
           ~p => a \in (MainSp - MaxDepth)..MainSp,
           q => \E ss \in AltStacks : On(ss, b)
    PROVE  b # a
<1>1. CASE p \/ ~q
  BY <1>1
<1>2. CASE ~p /\ q
  BY <1>2, StackRanges
<1> QED BY <1>1, <1>2

\* A step makes no frame the handler's again.
LEMMA FrameKeptBack ==
    ASSUME TypeOK, StackInv, [Next]_vars, NEW i \in 2..Depth, i <= Depth', FrameKept(i)'
    PROVE  FrameKept(i)
<1>0. Depth \in Nat /\ Depth' \in Nat /\ i \in 1..Depth
  BY DepthStep
<1>1. \A j \in 1..(i - 1) : ctx[j].level = 0 => ctx'[j].level = 0
  <2>1. Kept(i)
    BY <1>0, StackKept
  <2> QED BY <2>1 DEF Kept
<1>2. ctx[i].lost => ctx'[i].lost
  BY <1>0, LostStep
<1> QED BY <1>1, <1>2 DEF FrameKept

\* Frames, for a step of the context on top.
LEMMA FrameLocal ==
    ASSUME TypeOK, StackInv, NEW c, LocalStep(c), Moves(c), UNCHANGED frames,
           NEW i \in 2..Depth, FrameInv(i)
    PROVE  FrameInv(i)'
<1>0. Depth \in Nat /\ Depth >= 1 /\ Top = ctx[Depth]
  BY SignalsAssumption DEF TypeOK, Top, Depth
<1>1. /\ Depth' = Depth /\ ctx'[Depth] = c /\ \A j \in 1..(Depth - 1) : ctx'[j] = ctx[j]
      /\ c.frame = Top.frame /\ c.onstack = Top.onstack /\ c.sig = Top.sig /\ c.prev = Top.prev
  BY LocalShape DEF LocalStep, Moves
<1>2. \A j \in 1..Depth : /\ ctx'[j].frame = ctx[j].frame /\ ctx'[j].onstack = ctx[j].onstack
                          /\ ctx'[j].sig = ctx[j].sig /\ ctx'[j].prev = ctx[j].prev
  BY <1>0, <1>1
<1>3. i \in 1..Depth /\ ctx[i].prev \in 1..(Depth - 1)
  BY <1>0 DEF StackInv
<1>4. \A n \in (i + 1)..Depth : Apart(i, n)'
  <2> SUFFICES ASSUME NEW n \in (i + 1)..Depth
               PROVE  Apart(i, n)'
    OBVIOUS
  <2>1. Apart(i, n) /\ n \in 1..Depth
    BY <1>0 DEF FrameInv
  <2> QED BY <1>2, <1>3, <2>1 DEF Apart, Own
<1>5. /\ frames[ctx[i].frame].sig = ctx[i].sig
      /\ frames[ctx[i].frame].given = ctx[ctx[i].prev].pc
      /\ ~ctx[i].looping => ctx[i].told = frames[ctx[i].frame].pc
      /\ ctx[i].place = "leaving" => ~ctx[i].looping \/ ctx[i].exit
  BY DEF FrameInv
<1>6. /\ ~ctx'[i].looping => ctx'[i].told = frames[ctx[i].frame].pc
      /\ ctx'[i].place = "leaving" => ~ctx'[i].looping \/ ctx'[i].exit
  <2>1. CASE i # Depth
    BY <1>0, <1>1, <1>5, <2>1
  <2>2. CASE i = Depth
    BY <1>0, <1>1, <1>5, <2>2
       DEF Moves, GoesOn, Leaves, JumpsTo, SetsStack, Returns, KeepsEnd, InBlock
  <2> QED BY <2>1, <2>2
<1>7. ctx'[ctx'[i].prev].pc = ctx[ctx[i].prev].pc
  BY <1>1, <1>2, <1>3
<1> QED BY <1>1, <1>2, <1>3, <1>4, <1>5, <1>6, <1>7 DEF FrameInv

\* Frames, for a signal: the new frame is at the address of no frame that is kept.
LEMMA FrameTake ==
    ASSUME TypeOK, StackInv, LevelInv, LargeStacks, StacksApart, PlacesInv, JumpsInOrder,
           AllFrameInv, [Next]_vars, NEW s \in Sigs, TakeSignal(s), TakeStep(Current, s),
           NEW i \in 2..(Depth + 1), FrameKept(i)'
    PROVE  FrameInv(i)'
<1> USE SignalsAssumption
<1>1. PICK k : k = Current
  OBVIOUS
<1>2. PICK d : d = Depth + 1
  OBVIOUS
<1>3. PICK x : x = ctx[k].level
  OBVIOUS
<1>4. TakeStep(k, s) /\ Depth' = d /\ k \in 1..Depth
  BY <1>1, <1>2 DEF TakeStep
<1>0. Depth \in Nat /\ Depth >= 1 /\ d \in Nat /\ d - 1 = Depth /\ d <= MaxDepth
  <2>1. Depth \in 1..MaxDepth /\ Depth < MaxDepth
    BY <1>4 DEF TypeOK, TakeStep
  <2> QED BY <1>2, <2>1
<1>5. /\ \A j \in 1..Depth :
            /\ ctx'[j].frame = ctx[j].frame /\ ctx'[j].onstack = ctx[j].onstack
            /\ ctx'[j].sig = ctx[j].sig /\ ctx'[j].prev = ctx[j].prev
            /\ ctx'[j].place = ctx[j].place /\ ctx'[j].exit = ctx[j].exit
            /\ ctx'[j].looping = ctx[j].looping /\ ctx'[j].told = ctx[j].told
            /\ j # k => ctx'[j].pc = ctx[j].pc
      /\ ctx'[k].pc = restore_precise_pc(k)[2]
      /\ ctx'[d].prev = k /\ ctx'[d].sig = s /\ ctx'[d].place = "init" /\ ctx'[d].looping
      /\ ctx'[d].frame = sigsp(ctx[k], s) - 1
  BY <1>2, <1>4 DEF TakeStep, SameContext, NewHandler
<1>6. /\ frames'[ctx'[d].frame].sig = s
      /\ frames'[ctx'[d].frame].given = ctx'[k].pc
      /\ \A a \in DOMAIN frames : a # ctx'[d].frame => frames'[a] = frames[a]
  <2> DEFINE sp == sigsp(ctx[k], s) - 1
             p == restore_precise_pc(k)
             f == [sig |-> s, pc |-> p[2], sp |-> ctx[k].sp, given |-> p[2],
                   wrong |-> Reliable(ctx[k]) /\ p[2] # TruePc(ctx[k])]
  <2>1. frames' = [a \in DOMAIN frames \cup {sp} |-> IF a = sp THEN f ELSE frames[a]]
    BY <1>1 DEF TakeSignal
  <2>2. f.sig = s /\ f.given = p[2]
    OBVIOUS
  <2> HIDE DEF sp, f
  <2>3. frames'[sp] = f /\ \A a \in DOMAIN frames : a # sp => frames'[a] = frames[a]
    BY <2>1
  <2> QED BY <1>5, <2>2, <2>3 DEF sp
<1>7. CASE i = d
  BY <1>0, <1>4, <1>5, <1>6, <1>7 DEF FrameInv
<1>8. CASE i # d
  <2>0. i \in 2..Depth /\ i \in 1..Depth
    BY <1>0, <1>2, <1>8
  <2>1. FrameKept(i) /\ i <= x
    BY <1>2, <1>3, <1>4, <2>0, GoodNew
  <2>2. FrameInv(i)
    BY <2>0, <2>1 DEF AllFrameInv
  <2>3. Good(d)'
    <3>1. i \in 2..(d - 1)
      BY <1>0, <2>0
    <3> QED BY <3>1 DEF Good
  <2>4. ctx[k].level # 0 /\ \A m \in 2..Depth : Good(m)
    BY <1>2, <1>4, <2>3, GoodNew
  <2>5. x \in 0..k
    BY <1>3, <1>4 DEF LevelInv
  <2>6. Apart(i, d)'
    <3>1. CASE i = x
      BY <1>2, <1>3, <1>4, <2>4, <3>1, NewApart
    <3>2. CASE i # x
      <4>1. i \in 1..(x - 1) /\ x \in (i + 1)..Depth
        BY <1>0, <1>4, <2>0, <2>1, <2>5, <3>2
      <4>2. Apart(i, x)
        BY <2>2, <4>1 DEF FrameInv
      <4> QED BY <1>2, <1>3, <1>4, <2>4, <4>1, <4>2, NewApart
    <3> QED BY <3>1, <3>2
  <2>7. \A n \in (i + 1)..d : Apart(i, n)'
    <3> SUFFICES ASSUME NEW n \in (i + 1)..d, n # d
                 PROVE  Apart(i, n)'
      BY <2>6
    <3>1. Apart(i, n) /\ n \in 1..Depth
      BY <1>0, <2>0, <2>2 DEF FrameInv
    <3> QED BY <1>5, <2>0, <3>1 DEF Apart, Own
  <2>8. ctx'[d].frame # ctx[i].frame
    <3>1. Placed(d)' /\ Placed(i)
      BY <1>2, <1>4, <2>0, <2>3, <2>4, NewPlaces DEF PlacesInv
    <3>2. ctx'[d].frame \in Int /\ ctx'[d].onstack \in BOOLEAN
      <4>1. ctx'[d] \in Contexts
        BY <1>0, <1>2, <1>4 DEF TakeStep, Depth
      <4> QED BY <4>1 DEF Contexts
    <3>3. ctx[i].frame \in Int /\ ctx[i].onstack \in BOOLEAN
      <4>1. ctx[i] \in Contexts
        BY <2>0 DEF TypeOK, Depth
      <4> QED BY <4>1 DEF Contexts
    <3>4. /\ ctx[i].onstack => ctx'[d].onstack /\ ctx'[d].frame < ctx[i].frame
          /\ ~ctx[i].onstack /\ ~ctx'[d].onstack => ctx'[d].frame < ctx[i].frame
      BY <1>5, <2>0, <2>6 DEF Apart, Own
    <3>5. ~ctx[i].onstack => ctx[i].frame \in (MainSp - MaxDepth)..MainSp
      BY <1>0, <2>0, <3>1 DEF Placed
    <3>6. ctx'[d].onstack => \E ss \in AltStacks : On(ss, ctx'[d].frame)
      BY <3>1 DEF Placed
    <3> QED BY <3>2, <3>3, <3>4, <3>5, <3>6, ApartDiffer
  <2>9. frames'[ctx'[i].frame] = frames[ctx[i].frame]
    BY <1>5, <1>6, <2>0, <2>8 DEF TypeOK
  <2>10. ctx[i].prev \in 1..Depth /\ ctx[i].prev # k
    <3>1. ctx[i].prev \in 1..(i - 1)
      BY <2>0 DEF StackInv
    <3> QED BY <1>0, <1>4, <2>0, <2>1, <2>5, <3>1
  <2> QED BY <1>4, <1>5, <2>0, <2>2, <2>7, <2>9, <2>10 DEF FrameInv
<1> QED BY <1>7, <1>8


\* Frames, for the end of a handler.
LEMMA FrameFinish ==
    ASSUME TypeOK, StackInv, NEW k, NEW c, FinishStep(k, c), ~InWindow(ctx[k]),
           NEW i \in 2..Depth, i <= Depth', FrameInv(i)
    PROVE  FrameInv(i)'
<1>0. Depth \in Nat /\ Depth >= 1
  BY SignalsAssumption DEF TypeOK
<1>1. /\ Depth' \in Nat /\ Depth' <= Depth - 1 /\ k <= Depth' /\ k \in 1..Depth
      /\ \A j \in 1..Depth' : j # k => ctx'[j] = ctx[j]
      /\ ctx'[k] = c
  BY FinishPrefix
<1>2. /\ c.prev = ctx[k].prev /\ c.sig = ctx[k].sig /\ c.frame = ctx[k].frame
      /\ c.onstack = ctx[k].onstack /\ c.exit = ctx[k].exit
      /\ c.looping = ctx[k].looping /\ c.told = ctx[k].told
      /\ frames' = LiveFrames(ctx', frames)
      /\ c.place = ctx[k].place \/ c.place = "umeq"
      /\ Depth' # k => c.pc = ctx[k].pc
  BY DEF FinishStep, SamePlace, InLoop
<1>3. \A j \in 1..Depth' :
        /\ ctx'[j].frame = ctx[j].frame /\ ctx'[j].onstack = ctx[j].onstack
        /\ ctx'[j].sig = ctx[j].sig /\ ctx'[j].prev = ctx[j].prev
        /\ ctx'[j].exit = ctx[j].exit /\ ctx'[j].looping = ctx[j].looping
        /\ ctx'[j].told = ctx[j].told
        /\ ctx'[j].place = ctx[j].place \/ ctx'[j].place = "umeq"
  BY <1>1, <1>2
<1>4. i \in 1..Depth' /\ i \in 2..Depth'
  BY <1>0, <1>1
<1>5. frames'[ctx'[i].frame] = frames[ctx[i].frame]
  BY <1>2, <1>3, <1>4 DEF LiveFrames, Depth
<1>6. ctx'[ctx'[i].prev].pc = ctx[ctx[i].prev].pc
  <2>1. ctx[i].prev \in 1..(i - 1)
    BY DEF StackInv
  <2>2. ctx[i].prev \in 1..Depth' /\ (ctx[i].prev = k => Depth' # k)
    BY <1>0, <1>1, <1>4, <2>1
  <2> QED BY <1>1, <1>2, <1>3, <1>4, <2>2
<1>7. \A n \in (i + 1)..Depth' : Apart(i, n)'
  <2> SUFFICES ASSUME NEW n \in (i + 1)..Depth'
               PROVE  Apart(i, n)'
    OBVIOUS
  <2>1. Apart(i, n) /\ n \in 1..Depth'
    BY <1>0, <1>1 DEF FrameInv
  <2> QED BY <1>3, <1>4, <2>1 DEF Apart, Own
<1> QED BY <1>3, <1>4, <1>5, <1>6, <1>7 DEF FrameInv

\* Frames, for a step that leaves the contexts alone; a handler stores into its own only.
LEMMA FrameStays ==
    ASSUME TypeOK, StackInv, LevelInv, StacksApart, PlacesInv, ctx' = ctx,
           UNCHANGED frames \/ (\E t \in Pc : SetFramePc(t)) \/ frames' = LiveFrames(ctx', frames),
           NEW i \in 2..Depth, FrameKept(i), FrameInv(i)
    PROVE  FrameInv(i)'
<1> USE SignalsAssumption
<1>0. Depth \in Nat /\ Depth >= 1 /\ Top = ctx[Depth] /\ Depth' = Depth /\ Depth <= MaxDepth
  BY DEF TypeOK, Top, Depth
<1>1. \A n \in (i + 1)..Depth : Apart(i, n)'
  BY DEF FrameInv, Apart, Own
<1>2. ctx[i].frame \in DOMAIN frames
  BY DEF TypeOK
<1>3. /\ frames'[ctx[i].frame].sig = frames[ctx[i].frame].sig
      /\ frames'[ctx[i].frame].given = frames[ctx[i].frame].given
      /\ ~ctx[i].looping => frames'[ctx[i].frame].pc = frames[ctx[i].frame].pc
  <2>1. CASE UNCHANGED frames
    BY <2>1
  <2>2. CASE frames' = LiveFrames(ctx', frames)
    <3>1. frames'[ctx[i].frame] = frames[ctx[i].frame]
      BY <2>2 DEF LiveFrames, Depth
    <3> QED BY <3>1
  <2>3. ASSUME NEW t \in Pc, SetFramePc(t)
        PROVE  /\ frames'[ctx[i].frame].sig = frames[ctx[i].frame].sig
               /\ frames'[ctx[i].frame].given = frames[ctx[i].frame].given
               /\ ~ctx[i].looping => frames'[ctx[i].frame].pc = frames[ctx[i].frame].pc
    <3>1. /\ Depth > 1 /\ Top.looping
          /\ frames' = [frames EXCEPT ![Top.frame].pc = t]
      BY <2>3 DEF SetFramePc
    <3>2. \A a \in DOMAIN frames : frames[a] \in [sig : Sigs, pc : Nat, sp : Int, given : Nat, wrong : BOOLEAN]
      BY DEF TypeOK
    <3>3. CASE i = Depth
      BY <1>0, <1>2, <3>1, <3>2, <3>3
    <3>4. CASE i # Depth
      <4>1. Depth \in (i + 1)..Depth /\ Depth \in 2..Depth /\ i \in 1..Depth
        BY <1>0, <3>4
      <4>2. Apart(i, Depth)
        BY <4>1 DEF FrameInv
      <4>3. Good(i) /\ Good(Depth)
        BY <1>0, <4>1 DEF Good, FrameKept, Clean
      <4>4. Placed(i) /\ Placed(Depth)
        BY <4>1, <4>3 DEF PlacesInv
      <4>5. ctx[i] \in Contexts /\ Top \in Contexts
        BY <1>0, <4>1 DEF TypeOK, Depth
      <4>6. /\ ctx[i].frame \in Int /\ ctx[i].onstack \in BOOLEAN
            /\ Top.frame \in Int /\ Top.onstack \in BOOLEAN
        BY <4>5 DEF Contexts
      <4>7. /\ ctx[i].onstack => Top.onstack /\ Top.frame < ctx[i].frame
            /\ ~ctx[i].onstack /\ ~Top.onstack => Top.frame < ctx[i].frame
        BY <1>0, <4>2 DEF Apart, Own
      <4>8. /\ ~ctx[i].onstack => ctx[i].frame \in (MainSp - MaxDepth)..MainSp
            /\ Top.onstack => \E ss \in AltStacks : On(ss, Top.frame)
        BY <1>0, <4>4 DEF Placed
      <4>9. Top.frame # ctx[i].frame
        BY <4>6, <4>7, <4>8, ApartDiffer
      <4> QED BY <1>2, <3>1, <4>9
    <3> QED BY <3>3, <3>4
  <2> QED BY <2>1, <2>2, <2>3
<1> QED BY <1>0, <1>1, <1>3 DEF FrameInv

\* Every step keeps what is known of the frames.
LEMMA FrameStep ==
    ASSUME TypeOK, StackInv, LevelInv, LargeStacks, StacksApart, PlacesInv, JumpsInOrder,
           AllFrameInv, [Next]_vars
    PROVE  AllFrameInv'
<1>0. Depth \in Nat /\ Depth >= 1 /\ Depth' \in Nat
  BY DepthStep
<1>1. ASSUME NEW i \in 2..Depth, i <= Depth', FrameKept(i)'
      PROVE  FrameKept(i) /\ FrameInv(i)
  BY <1>1, FrameKeptBack DEF AllFrameInv
<1>2. ASSUME NEW c, LocalStep(c), Moves(c), UNCHANGED frames
      PROVE  AllFrameInv'
  <2>1. Depth' = Depth
    BY <1>2, LocalShape
  <2> QED BY <1>0, <1>1, <1>2, <2>1, FrameLocal DEF AllFrameInv
<1>3. ASSUME ctx' = ctx,
             UNCHANGED frames \/ (\E t \in Pc : SetFramePc(t)) \/ frames' = LiveFrames(ctx', frames)
      PROVE  AllFrameInv'
  <2>1. Depth' = Depth
    BY <1>3 DEF Depth
  <2> QED BY <1>0, <1>1, <1>3, <2>1, FrameStays DEF AllFrameInv
<1>4. ASSUME NEW s \in Sigs, TakeSignal(s), TakeStep(Current, s)
      PROVE  AllFrameInv'
  <2>1. Depth' = Depth + 1
    BY <1>4 DEF TakeStep
  <2> QED BY <1>4, <2>1, FrameTake DEF AllFrameInv
<1>5. ASSUME NEW k, NEW c, FinishStep(k, c), ~InWindow(ctx[k])
      PROVE  AllFrameInv'
  <2>1. ASSUME NEW i \in 2..Depth'
        PROVE  i \in 2..Depth /\ i <= Depth'
    <3>1. Depth' <= Depth - 1
      BY <1>5, FinishPrefix
    <3> QED BY <1>0, <3>1
  <2> QED BY <1>1, <1>5, <2>1, FrameFinish DEF AllFrameInv
<1> QED BY <1>2, <1>3, <1>4, <1>5, StackKinds


\* The inductive invariant of the theorems about stacks and frames.
StacksInv ==
    TypeOK /\ StackInv /\ LevelInv /\ JumpsInOrder /\ PlacesInv /\ AllFrameInv

\* The initial state.
LEMMA StacksInit ==
    ASSUME Init
    PROVE  StacksInv
<1>1. /\ Depth = 1 /\ ~ctx[1].onstack /\ ctx[1].level = 1 /\ ctx[1].sp = MainSp
      /\ ctx[1].place = "umeq" /\ ~ctx[1].exit
  BY DEF Init, Depth
<1>2. LevelInv
  BY <1>1 DEF LevelInv, Own
<1>3. JumpsInOrder /\ PlacesInv /\ AllFrameInv
  BY <1>1 DEF JumpsInOrder, PlacesInv, AllFrameInv
<1> QED BY <1>2, <1>3, TypeInit DEF StacksInv

\* Every step keeps the invariant.
LEMMA StacksStep ==
    ASSUME LargeStacks, StacksApart, StacksInv, [Next]_vars
    PROVE  StacksInv'
<1> USE DEF StacksInv
<1>1. TypeOK' /\ StackInv'
  BY TypeStep, StackStep
<1>2. LevelInv' /\ JumpsInOrder'
  BY LevelStep, OrderStep
<1>3. PlacesInv'
  BY PlacesStep
<1>4. AllFrameInv'
  BY FrameStep
<1> QED BY <1>1, <1>2, <1>3, <1>4

\* What the thread finds where its sequence of contexts was cut.
LEMMA CutAt ==
    ASSUME NEW S, NEW q \in Seq(S), NEW n \in 0..Len(q), NEW e
    PROVE  /\ \A k \in 1..n : SubSeq([q EXCEPT ![k] = e], 1, n)[k] = e
           /\ Append(SubSeq(q, 1, n), e)[n + 1] = e
<1>0. Len(q) \in Nat /\ n \in Int /\ 1 \in Int
  OBVIOUS
<1>1. ASSUME NEW k \in 1..n
      PROVE  SubSeq([q EXCEPT ![k] = e], 1, n)[k] = e
  <2> DEFINE r == [q EXCEPT ![k] = e]
  <2>1. /\ r \in Seq(S \cup {e}) /\ r[k] = e
        /\ \A i \in 1..n : r[i] \in S \cup {e}
    BY <1>0
  <2> HIDE DEF r
  <2>2. \A i \in 1..(n - 1 + 1) : SubSeq(r, 1, n)[i] = r[1 + i - 1]
    BY <1>0, <2>1, SubSeqProperties
  <2>3. k \in 1..(n - 1 + 1) /\ 1 + k - 1 = k
    BY <1>0
  <2> QED BY <2>1, <2>2, <2>3 DEF r
<1>2. Append(SubSeq(q, 1, n), e)[n + 1] = e
  <2>1. \A i \in 1..n : q[i] \in S
    BY <1>0
  <2>2. SubSeq(q, 1, n) \in Seq(S) /\ Len(SubSeq(q, 1, n)) = IF 1 <= n THEN n - 1 + 1 ELSE 0
    BY <1>0, <2>1, SubSeqProperties
  <2>3. Len(SubSeq(q, 1, n)) = n
    BY <1>0, <2>2
  <2> QED BY <2>2, <2>3
<1> QED BY <1>1, <1>2

\* On large alternate stacks that are apart, a handler's frame is overwritten
\* by no later signal as long as FrameKept holds: every later frame is on
\* another stack or below (FrameIsMine).
THEOREM SignalsFrameIsMine ==
    ASSUME LargeStacks, StacksApart
    PROVE  Spec => []FrameIsMine
<1>1. Init => StacksInv
  BY StacksInit
<1>2. StacksInv /\ [Next]_vars => StacksInv'
  BY StacksStep
<1>3. StacksInv => FrameIsMine
  BY DEF StacksInv, AllFrameInv, FrameInv, FrameIsMine
<1> QED BY <1>1, <1>2, <1>3, PTL DEF Spec

\* On such stacks a handler that returns resumes the interrupted code in place
\* if it left the pc alone, and makes the thread go on at the pc it stored
\* otherwise (ResumeAsTold): what getExitStatus compares with regs.pc is what
\* the handler saw and stored.
THEOREM SignalsResumeAsTold ==
    ASSUME LargeStacks, StacksApart
    PROVE  Spec => ResumeAsTold
<1> DEFINE now == ctx'[Top.prev]
           Told == Top.place = "leaving" /\ ~Top.exit /\ ~Jumped(Depth) /\ FrameKept(Depth)
                     /\ Len(ctx') < Depth =>
                     IF Top.told = frames[Top.frame].given
                       THEN /\ now.place = ctx[Top.prev].place /\ now.start = ctx[Top.prev].start
                            /\ now.insn = ctx[Top.prev].insn
                     ELSE now.place = "umeq" /\ now.cur = Top.told
<1>1. Init => StacksInv
  BY StacksInit
<1>2. StacksInv /\ [Next]_vars => StacksInv'
  BY StacksStep
<1>3. StacksInv /\ [Next]_vars => [Told]_<<ctx, fail>>
  <2> SUFFICES ASSUME TypeOK, StackInv, AllFrameInv, [Next]_vars,
                      Top.place = "leaving", ~Top.exit, FrameKept(Depth), Len(ctx') < Depth
               PROVE  IF Top.told = frames[Top.frame].given
                        THEN /\ now.place = ctx[Top.prev].place /\ now.start = ctx[Top.prev].start
                             /\ now.insn = ctx[Top.prev].insn
                      ELSE now.place = "umeq" /\ now.cur = Top.told
    BY DEF StacksInv
  <2> DEFINE k == Top.prev
             f == frames[Top.frame]
  <2>0. Depth \in Nat /\ Depth >= 1 /\ Top = ctx[Depth] /\ Depth = Len(ctx)
        /\ ctx \in Seq(Contexts) /\ Len(ctx') = Depth'
    BY SignalsAssumption DEF TypeOK, Top, Depth
  <2>1. (FinishReturn \/ FinishJump) /\ Depth > 1 /\ k \in 1..(Depth - 1)
    <3>1. ASSUME NEW c, LocalStep(c)
          PROVE  FALSE
      BY <2>0, <3>1, LocalShape
    <3>2. ASSUME NEW s \in Sigs, TakeStep(Current, s)
          PROVE  FALSE
      BY <2>0, <3>2 DEF TakeStep
    <3>3. ctx' # ctx
      BY <2>0
    <3> QED BY <3>1, <3>2, <3>3, StackKinds
  <2>2. FinishReturn
    BY <2>1 DEF FinishJump
  <2>3. Top.told = f.pc /\ f.given = ctx[k].pc
    <3>1. Depth \in 2..Depth
      BY <2>0, <2>1
    <3> QED BY <2>0, <3>1 DEF AllFrameInv, FrameInv
  <2>4. ctx' # ctx
    BY <2>0
  <2> DEFINE c == [ctx[k] EXCEPT !.sp = f.sp, !.pc = f.pc,
                                 !.level = IF f.sp = ctx[k].sp THEN @ ELSE 0]
  <2>5. ctx[k] \in Contexts
    BY <2>0, <2>1
  <2>6. /\ c.place = ctx[k].place /\ c.start = ctx[k].start /\ c.insn = ctx[k].insn
    BY <2>5 DEF Contexts
  <2>7. \/ ctx[k].pc = f.pc /\ ctx' = SubSeq([ctx EXCEPT ![k] = c], 1, Depth - 1)
        \/ ctx[k].pc # f.pc /\ AlternateExit(k, c, f.pc)
    BY <2>2, <2>4 DEF FinishReturn
  <2>8. CASE ctx[k].pc = f.pc /\ ctx' = SubSeq([ctx EXCEPT ![k] = c], 1, Depth - 1)
    <3>1. now = c
      <4>1. Depth - 1 \in 0..Len(ctx)
        BY <2>0, <2>1
      <4> HIDE DEF c, k
      <4> QED BY <2>0, <2>1, <2>8, <4>1, CutAt DEF k
    <3> QED BY <2>3, <2>6, <2>8, <3>1
  <2>9. CASE ctx[k].pc # f.pc /\ AlternateExit(k, c, f.pc)
    <3>1. now.place = "umeq" /\ now.cur = f.pc
      <4> DEFINE e == [c EXCEPT !.pc = f.pc, !.cur = f.pc, !.place = "umeq", !.fresh = TRUE,
                                !.start = 0, !.insn = 0, !.tgt = 0, !.act = NoSig, !.new = IGNORE,
                                !.hset = @ /\ c.helper_pc = 0,
                                !.raced = @ \/ k < Depth - 1]
      <4>1. ctx' = Append(SubSeq(ctx, 1, k - 1), e)
        BY <2>9 DEF AlternateExit
      <4>2. e.place = "umeq" /\ e.cur = f.pc
        BY <2>5 DEF Contexts
      <4>3. k - 1 \in 0..Len(ctx) /\ k - 1 + 1 = k
        BY <2>0, <2>1
      <4>4. ctx'[k] = e
        <5> HIDE DEF e, k
        <5> QED BY <2>0, <4>1, <4>3, CutAt
      <4> QED BY <4>2, <4>4
    <3> QED BY <2>3, <2>9, <3>1
  <2> QED BY <2>7, <2>8, <2>9
<1> QED BY <1>1, <1>2, <1>3, PTL DEF Spec, ResumeAsTold


-----------------------------------------------------------------------------
(* Jumps out of handlers. *)

\* A handler that interrupted guest code runs no block after a jump out of it.
UnwindInv ==
    \A i \in 2..Depth :
        /\ ctx[i].loc # "unknown"
        /\ ctx[i].loc = "jit" /\ Clean(i - 1) /\ ctx[i].level \in 1..(i - 1)
             => ctx[i].place \notin InBlock

\* isLooping notices every jump: after one the stack pointer of the handler
\* is out of its signal stack.
LEMMA JumpIsOut ==
    ASSUME StacksApart, StacksInv, Depth >= 2, Clean(Depth - 1), Top.level \in 1..(Depth - 1)
    PROVE  is_out_of_signal_stack(Top)
<1> USE SignalsAssumption
<1> DEFINE k == Top.prev
           x == Top.level
           y == ctx[k].level
<1>0. Depth \in Nat /\ Top = ctx[Depth] /\ ctx \in Seq(Contexts) /\ Depth = Len(ctx)
      /\ Depth \in 2..Depth /\ Depth <= MaxDepth /\ TypeOK /\ StackInv /\ LevelInv
  BY DEF StacksInv, TypeOK, Top, Depth
<1>1. k \in 1..(Depth - 1) /\ ~InWindow(ctx[k])
  BY <1>0 DEF StackInv
<1>2. x \in 1..k /\ ~InWindow(ctx[x]) /\ Top.sp = Own(x)
  <2>1. x \in 0..k
    BY <1>0, LevelBelow
  <2>2. ~InWindow(ctx[x]) /\ Top.sp = Own(x)
    BY <1>0 DEF LevelInv
  <2> QED BY <1>0, <1>1, <2>1, <2>2
<1>3. y \in 1..k /\ ctx[k].sp = Own(y) /\ ~InWindow(ctx[y])
  <2>1. y # 0
    BY <1>1 DEF Clean
  <2>2. k \in 1..Depth
    BY <1>0, <1>1
  <2>3. y \in 0..k /\ ctx[k].sp = Own(y) /\ (y \in 1..(k - 1) => ~InWindow(ctx[y]))
    BY <1>0, <2>1, <2>2 DEF LevelInv
  <2> QED BY <1>0, <1>1, <2>1, <2>2, <2>3
<1>4. x <= y
  <2>1. \/ x > k
        \/ x <= y
        \/ y = 0
    BY <1>0, <1>1 DEF StacksInv, JumpsInOrder
  <2> QED BY <1>0, <1>1, <1>2, <1>3, <2>1
<1>5. \A i \in 1..Depth : ctx[i].frame \in Int
  <2> SUFFICES ASSUME NEW i \in 1..Depth
               PROVE  ctx[i].frame \in Int
    OBVIOUS
  <2>1. ctx[i] \in Contexts
    BY <1>0
  <2> QED BY <2>1 DEF Contexts
<1>6. /\ x \in 1..Depth /\ y \in 1..Depth /\ Own(x) \in Int /\ Own(y) \in Int
      /\ y # 1 => Own(y) = ctx[y].frame
      /\ x # 1 => Own(x) = ctx[x].frame
  BY <1>0, <1>1, <1>2, <1>3, <1>5 DEF Own
<1>7. \A i \in 2..Depth : Good(i) /\ Placed(i) /\ Ordered(i)
  <2> SUFFICES ASSUME NEW i \in 2..Depth
               PROVE  Good(i)
    BY DEF StacksInv, PlacesInv
  <2> QED BY <1>0 DEF Good, Clean
<1> HIDE DEF k, x, y
<1>8. ASSUME x < y
      PROVE  Apart(x, y)
  <2>1. y \in 2..Depth /\ x \in 1..(y - 1)
    BY <1>0, <1>6, <1>8
  <2>2. Apart(x, y) \/ (\E j \in x..ctx[y].prev : Left(x, j)) \/ InWindow(ctx[x])
    BY <1>7, <2>1 DEF Ordered
  <2>3. ASSUME NEW j \in x..ctx[y].prev, Left(x, j)
        PROVE  FALSE
    <3>1. ctx[y].prev \in 1..(y - 1)
      BY <1>0, <2>1 DEF StackInv
    <3>2. Depth \in (j + 1)..Depth /\ x \in x..j
      BY <1>0, <2>1, <3>1
    <3>3. ctx[Depth].level = x
      BY <1>0 DEF x
    <3> QED BY <2>3, <3>2, <3>3 DEF Left
  <2> QED BY <1>2, <2>2, <2>3
<1>9. ASSUME NEW j \in y..k, Left(y, j)
      PROVE  FALSE
  <2>1. CASE j = k
    BY <1>1, <1>3, <1>9, <2>1 DEF Left, y
  <2>2. CASE j # k
    <3>1. k \in (j + 1)..Depth /\ y \in y..j
      BY <1>0, <1>1, <1>3, <2>2
    <3> QED BY <1>9, <3>1 DEF Left, y
  <2> QED BY <2>1, <2>2
<1>10. Apart(y, Depth)
  <2>1. y \in 1..(Depth - 1) /\ ctx[Depth].prev = k
    BY <1>0, <1>1, <1>3 DEF k
  <2>2. Apart(y, Depth) \/ (\E j \in y..k : Left(y, j)) \/ InWindow(ctx[y])
    BY <1>0, <1>7, <2>1 DEF Ordered
  <2> QED BY <1>3, <1>9, <2>2
<1>11. ASSUME x = 1 \/ ~ctx[x].onstack
       PROVE  ~on_sig_stack(Top, Own(x))
  <2>1. Own(x) \in (MainSp - MaxDepth)..MainSp
    <3>1. CASE x = 1
      BY <3>1 DEF Own
    <3>2. CASE x # 1
      <4>1. x \in 2..Depth /\ ~ctx[x].onstack
        BY <1>0, <1>6, <1>11, <3>2
      <4>2. ctx[x].frame \in (MainSp - (x - 1))..MainSp
        BY <1>7, <4>1 DEF Placed
      <4> QED BY <1>0, <1>5, <1>6, <3>2, <4>1, <4>2
    <3> QED BY <3>1, <3>2
  <2>2. Top.sas \in AltStacks \cup {DISABLED}
    <3>1. Top \in Contexts
      BY <1>0
    <3> QED BY <3>1 DEF Contexts
  <2> QED BY <2>1, <2>2, StackRanges DEF on_sig_stack, On
<1>12. CASE ~Top.onstack
  <2>1. ~(y > 1 /\ ctx[y].onstack)
    BY <1>0, <1>10, <1>12 DEF Apart
  <2>2. Own(x) >= Own(y)
    <3>1. CASE x = y
      BY <1>6, <3>1
    <3>2. CASE x < y
      <4>1. y > 1 /\ ~ctx[y].onstack /\ Own(y) = ctx[y].frame
        BY <1>6, <2>1, <3>2
      <4>2. ctx[y].frame < Own(x)
        BY <1>8, <3>2, <4>1 DEF Apart
      <4> QED BY <1>6, <4>1, <4>2
    <3> QED BY <1>4, <1>6, <3>1, <3>2
  <2> QED BY <1>2, <1>3, <1>12, <2>2 DEF is_out_of_signal_stack, k
<1>13. CASE Top.onstack /\ ctx[k].onstack
  <2>1. ASSUME on_sig_stack(Top, Own(x))
        PROVE  Own(x) >= Own(y)
    <3>1. x > 1 /\ ctx[x].onstack
      BY <1>6, <1>11, <2>1
    <3>2. CASE x = y
      BY <1>6, <3>2
    <3>3. CASE x < y
      <4>1. ctx[y].frame < ctx[x].frame
        BY <1>8, <3>1, <3>3 DEF Apart
      <4> QED BY <1>6, <3>1, <3>3, <4>1
    <3> QED BY <1>4, <1>6, <3>2, <3>3
  <2> QED BY <1>2, <1>3, <1>13, <2>1 DEF is_out_of_signal_stack, k
<1>14. CASE Top.onstack /\ ~ctx[k].onstack
  <2>1. ASSUME on_sig_stack(Top, Own(x))
        PROVE  FALSE
    <3>1. x > 1 /\ ctx[x].onstack
      BY <1>6, <1>11, <2>1
    <3>2. ctx[y].onstack /\ y > 1
      <4>1. CASE x = y
        BY <3>1, <4>1
      <4>2. CASE x < y
        BY <1>6, <1>8, <3>1, <4>2 DEF Apart
      <4> QED BY <1>4, <1>6, <4>1, <4>2
    <3>3. y \in 1..(k - 1) /\ k \in 2..Depth
      BY <1>0, <1>1, <1>3, <1>14, <3>2
    <3>4. Apart(y, k) \/ (\E j \in y..ctx[k].prev : Left(y, j)) \/ InWindow(ctx[y])
      BY <1>7, <3>3 DEF Ordered
    <3>5. ~Apart(y, k)
      BY <1>14, <3>2 DEF Apart
    <3>6. ctx[k].prev \in 1..(k - 1)
      BY <1>0, <3>3 DEF StackInv
    <3>7. \A j \in y..ctx[k].prev : j \in y..k
      BY <1>0, <3>3, <3>6
    <3> QED BY <1>3, <1>9, <3>4, <3>5, <3>7
  <2> QED BY <1>2, <1>14, <2>1 DEF is_out_of_signal_stack, k
<1> QED BY <1>12, <1>13, <1>14


\* Every step keeps guest code out of handlers that were jumped out of.
LEMMA UnwindStep ==
    ASSUME StacksApart, StacksInv, UnwindInv, [Next]_vars
    PROVE  UnwindInv'
<1>0. Depth \in Nat /\ Depth >= 1 /\ Top = ctx[Depth] /\ TypeOK /\ StackInv /\ LevelInv
      /\ Depth' \in Nat
  BY SignalsAssumption, DepthStep DEF StacksInv, TypeOK, Top, Depth
<1>1. ASSUME NEW i \in 2..Depth, i <= Depth', Clean(i - 1)'
      PROVE  Clean(i - 1) /\ ctx'[i].loc # "unknown" /\ ctx'[i].loc = ctx[i].loc
  <2>1. Kept(i)
    BY <1>0, <1>1, StackKept
  <2> QED BY <1>1, <2>1 DEF Clean, Kept, UnwindInv
<1>a. \A i \in 2..Depth : i <= Depth' => ctx'[i].loc # "unknown"
  BY <1>0, StackKept DEF Kept, UnwindInv
<1>2. ASSUME NEW i \in 2..Depth, i <= Depth', Clean(i - 1)', ctx'[i].loc = "jit",
             ctx'[i].level = ctx[i].level, ctx'[i].level \in 1..(i - 1),
             ctx'[i].place = ctx[i].place
      PROVE  ctx'[i].place \notin InBlock
  BY <1>1, <1>2 DEF UnwindInv
<1>3. ASSUME NEW c, LocalStep(c), Moves(c), NEW i \in 2..Depth, Clean(i - 1)',
             ctx'[i].loc = "jit", ctx'[i].level \in 1..(i - 1)
      PROVE  ctx'[i].place \notin InBlock
  <2>1. /\ Depth' = Depth /\ ctx'[Depth] = c /\ \A j \in 1..(Depth - 1) : ctx'[j] = ctx[j]
        /\ c.loc = Top.loc
    BY <1>0, <1>3, LocalShape DEF LocalStep
  <2>2. CASE i # Depth
    <3>1. ctx'[i] = ctx[i] /\ i <= Depth'
      BY <1>0, <2>1, <2>2
    <3> QED BY <1>2, <1>3, <3>1
  <2>3. CASE i = Depth
    <3>1. Clean(Depth - 1) /\ Top.loc = "jit" /\ Depth >= 2 /\ Depth \in 2..Depth
      BY <1>0, <1>1, <1>3, <2>1, <2>3
    <3>2. CASE c.level = Top.level
      <4>1. Top.level \in 1..(Depth - 1)
        BY <1>3, <2>1, <2>3, <3>2
      <4>2. Top.place \notin InBlock
        BY <1>0, <3>1, <4>1 DEF UnwindInv
      <4>3. leaves_signal(Top)
        BY <1>0, <3>1, <4>1, JumpIsOut DEF leaves_signal
      <4>4. c.place \notin InBlock
        <5>1. CASE GoesOn(c)
          BY <1>0, <3>1, <4>2, <4>3, <5>1 DEF GoesOn
        <5>2. CASE Leaves(c) \/ \E j \in 1..Depth : JumpsTo(c, j)
          BY <5>2 DEF Leaves, JumpsTo, InBlock
        <5>3. CASE SetsStack(c) \/ Returns(c)
          BY <4>2, <5>3 DEF SetsStack, Returns
        <5> QED BY <1>3, <5>1, <5>2, <5>3 DEF Moves
      <4> QED BY <2>1, <2>3, <4>4
    <3>3. CASE c.level # Top.level
      <4>1. c.place = "exit"
        BY <1>3, <3>3 DEF Moves, GoesOn, Leaves, JumpsTo, SetsStack, Returns, KeepsStack
      <4> QED BY <2>1, <2>3, <4>1 DEF InBlock
    <3> QED BY <3>2, <3>3
  <2> QED BY <2>2, <2>3
<1>4. ASSUME NEW k, NEW c, FinishStep(k, c), ~InWindow(ctx[k]), NEW i \in 2..Depth, i <= Depth',
             Clean(i - 1)', ctx'[i].loc = "jit", ctx'[i].level \in 1..(i - 1)
      PROVE  ctx'[i].place \notin InBlock
  <2>1. /\ Depth' \in Nat /\ Depth' <= Depth - 1 /\ k <= Depth' /\ k \in 1..Depth
        /\ \A j \in 1..Depth' : j # k => ctx'[j] = ctx[j]
        /\ ctx'[k] = c
    BY <1>0, <1>4, FinishPrefix
  <2>2. CASE i # k
    <3>1. ctx'[i] = ctx[i]
      BY <1>0, <1>4, <2>1, <2>2
    <3> QED BY <1>2, <1>4, <3>1
  <2>3. CASE i = k
    <3>1. c.place = "umeq" \/ (c.place = ctx[k].place /\ (c.level = ctx[k].level \/ c.level = 0))
      <4>1. SamePlace(c, ctx[k]) \/ InLoop(c, ctx[k])
        BY <1>4 DEF FinishStep
      <4>2. CASE InLoop(c, ctx[k])
        <5>1. c.place = "umeq"
          BY <4>2 DEF InLoop
        <5> QED BY <5>1
      <4>3. CASE ~InLoop(c, ctx[k])
        <5>1. c.place = ctx[k].place
          BY <4>1, <4>3 DEF SamePlace
        <5>2. c.level = IF c.sp = ctx[k].sp THEN ctx[k].level ELSE 0
          BY <1>4, <4>3 DEF FinishStep
        <5> QED BY <5>1, <5>2
      <4> QED BY <4>2, <4>3
    <3>2. CASE c.place = "umeq"
      BY <2>1, <2>3, <3>2 DEF InBlock
    <3>3. CASE c.place = ctx[k].place /\ c.level = ctx[k].level
      BY <1>2, <1>4, <2>1, <2>3, <3>3
    <3> QED BY <1>4, <2>1, <2>3, <3>1, <3>2, <3>3
  <2> QED BY <2>2, <2>3
<1>5. ASSUME NEW s \in Sigs, TakeStep(Current, s)
      PROVE  UnwindInv'
  <2>1. /\ Depth' = Depth + 1 /\ ctx'[Depth + 1].level = Depth + 1
        /\ ctx'[Depth + 1].loc # "unknown"
        /\ \A i \in 1..Depth : ctx'[i].level = ctx[i].level /\ ctx'[i].place = ctx[i].place
    BY <1>5 DEF TakeStep, NewHandler, SameContext
  <2>2. ASSUME NEW i \in 2..(Depth + 1)
        PROVE  /\ ctx'[i].loc # "unknown"
               /\ ctx'[i].loc = "jit" /\ Clean(i - 1)' /\ ctx'[i].level \in 1..(i - 1)
                    => ctx'[i].place \notin InBlock
    <3>1. CASE i = Depth + 1
      BY <1>0, <2>1, <3>1
    <3>2. CASE i # Depth + 1
      <4>1. i \in 2..Depth /\ i \in 1..Depth /\ i <= Depth'
        BY <1>0, <2>1, <3>2
      <4> QED BY <1>2, <1>a, <2>1, <4>1
    <3> QED BY <3>1, <3>2
  <2> QED BY <2>1, <2>2 DEF UnwindInv
<1>6. ASSUME ctx' = ctx
      PROVE  UnwindInv'
  BY <1>6 DEF UnwindInv, Clean, Depth
<1>7. ASSUME NEW c, LocalStep(c), Moves(c)
      PROVE  UnwindInv'
  <2>1. Depth' = Depth
    BY <1>0, <1>7, LocalShape
  <2> QED BY <1>0, <1>3, <1>7, <1>a, <2>1 DEF UnwindInv
<1>8. ASSUME NEW k, NEW c, FinishStep(k, c), ~InWindow(ctx[k])
      PROVE  UnwindInv'
  <2>1. ASSUME NEW i \in 2..Depth'
        PROVE  i \in 2..Depth /\ i <= Depth'
    <3>1. Depth' <= Depth - 1
      BY <1>0, <1>8, FinishPrefix
    <3> QED BY <1>0, <3>1
  <2> QED BY <1>4, <1>8, <1>a, <2>1 DEF UnwindInv
<1> QED BY <1>0, <1>5, <1>6, <1>7, <1>8, StackKinds

\* On large alternate stacks that are apart, isLooping notices every jump out
\* of a handler: unless the handler had interrupted umeq itself, no guest code
\* runs in its context after the jump (JumpUnwinds).
THEOREM SignalsJumpUnwinds ==
    ASSUME LargeStacks, StacksApart
    PROVE  Spec => []JumpUnwinds
<1>1. Init => StacksInv /\ UnwindInv
  <2>1. Init => Depth = 1
    BY DEF Init, Depth
  <2> QED BY <2>1, StacksInit DEF UnwindInv
<1>2. StacksInv /\ UnwindInv /\ [Next]_vars => (StacksInv /\ UnwindInv)'
  BY StacksStep, UnwindStep
<1>3. StacksInv /\ UnwindInv => JumpUnwinds
  <2> SUFFICES ASSUME StacksInv, UnwindInv, NEW i \in 1..Depth,
                      ctx[i].place \in InBlock, ctx[i].level < i,
                      \A j \in 1..i : ctx[j].level # 0
               PROVE  ctx[i].loc = "umeq"
    BY DEF JumpUnwinds
  <2>1. Depth \in Nat /\ ctx[i] \in Contexts /\ ctx[i].level \in 0..i
    BY SignalsAssumption DEF StacksInv, TypeOK, Depth, LevelInv
  <2>2. i \in 2..Depth /\ Clean(i - 1) /\ ctx[i].level \in 1..(i - 1)
    BY <2>1 DEF Clean
  <2>3. ctx[i].loc \in {"unknown", "jit", "umeq"}
    BY <2>1 DEF Contexts
  <2> QED BY <2>2, <2>3 DEF UnwindInv
<1> QED BY <1>1, <1>2, <1>3, PTL DEF Spec

=============================================================================
