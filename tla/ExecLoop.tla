------------------------------ MODULE ExecLoop ------------------------------
(***************************************************************************)
(* One guest thread of umeq: its translation cache (src/src/cache/cache.c) *)
(* driven by the execution loop (loop_common in src/src/main.c), with the  *)
(* direct jumps between translated blocks that the x86_64 backend patches  *)
(* into the cache (gen_exit, patch and the assembly of                     *)
(* src/src/jitter/x86_64).                                                 *)
(*                                                                         *)
(* The guest program is arbitrary: a translation has any size, any set of  *)
(* direct (constant) successors, and may also exit through an indirect     *)
(* branch.  Host addresses inside the cache are offsets in cache->area.    *)
(***************************************************************************)
EXTENDS Naturals, Sequences

CONSTANTS
  Pcs,        \* guest addresses of instructions
  AllOnes,    \* ~0, an address no guest instruction has
  HashNb,     \* HASH_ENTRY_NB
  AreaSize,   \* config.jitter_area_size
  TbHeader,   \* sizeof(struct tb)
  JitSizes,   \* sizes the code of a block may have
  ExitSets    \* sets of direct successors a block may have

ASSUME PcAssumption ==
  /\ AllOnes \in Nat
  /\ Pcs \subseteq 0..(AllOnes - 1)
  /\ ExitSets \subseteq SUBSET Pcs
ASSUME SizeAssumption ==
  /\ HashNb \in Nat \ {0}
  /\ AreaSize \in Nat
  /\ TbHeader \in Nat \ {0}
  /\ JitSizes \subseteq Nat
  /\ \A s \in JitSizes : s + TbHeader <= AreaSize  \* an empty area holds any block

Offsets == 0..AreaSize
Null == AreaSize          \* no block starts at the end of the area
Hashes == 0..(HashNb - 1)
hash_pc(pc) == (pc \div 4) % HashNb

VARIABLES
  tbs,        \* the area: struct tb by the offset it is written at
  write_pos,  \* info.write_pos
  clean,      \* info.clean
  cached,     \* cached[hash]: the block last found in the chain
  list,       \* list[hash]: the chain, newest block first
  phase,      \* where loop_common is
  currentPc, prevCurrentPc,
  cleaned,    \* is_cache_was_cleaned, 0 at the start of each iteration
  patchArea,  \* result.link_patch_area
  running     \* cache_area: the block the host executes or is about to

\* The locals of loop_common are given a fixed value where they are dead:
\* patchArea while a block runs (execute assigns result), running at the top,
\* cleaned from the start of the execution to the next lookup.

cacheVars == <<tbs, write_pos, clean, cached, list>>
vars == <<tbs, write_pos, clean, cached, list,
          phase, currentPc, prevCurrentPc, cleaned, patchArea, running>>

Phases == {"top", "jit", "link", "run", "done"}

\* link[q] is the block the exit towards q jumps to, Null while it returns.
Tb == [size : Nat, guest_pc : Pcs \cup {AllOnes}, exits : SUBSET Pcs,
       link : [Pcs -> Offsets]]
NoLinks == [q \in Pcs |-> Null]

\* What lies beyond write_pos is never read: no block.
Blank == [size |-> 0, guest_pc |-> AllOnes, exits |-> {}, link |-> NoLinks]
Live == {b \in Offsets : tbs[b].size > 0}

\* A link_patch_area: the patchable exit of block b whose constant is q.
Exit(b, q) == [block |-> b, to |-> q]
NoExit == Exit(Null, AllOnes)

TypeOK ==
  /\ tbs \in [Offsets -> Tb]
  /\ write_pos \in Offsets
  /\ clean \in {0, 1}
  /\ cached \in [Hashes -> Offsets]
  /\ list \in [Hashes -> Seq(Offsets)]
  /\ phase \in Phases
  /\ currentPc \in Pcs
  /\ prevCurrentPc \in Pcs \cup {AllOnes}
  /\ cleaned \in {0, 1}
  /\ patchArea \in [block : Offsets, to : Pcs \cup {AllOnes}]
  /\ running \in Offsets

Init ==
  /\ tbs = [b \in Offsets |-> Blank]
  /\ write_pos = 0
  /\ clean = 0
  /\ cached = [h \in Hashes |-> Null]
  /\ list = [h \in Hashes |-> <<>>]
  /\ phase = "top"
  /\ currentPc \in Pcs
  /\ prevCurrentPc = AllOnes
  /\ cleaned = 0
  /\ patchArea = NoExit
  /\ running = Null

-----------------------------------------------------------------------------
\* What the code would be with a plausible slip, one operator per slip.

\* append advances by the size of the code without its header.
WriteWithoutHeader(area, pos, chains, size, exits) ==
  /\ tbs' = [area EXCEPT ![pos] =
               [size |-> size + TbHeader, guest_pc |-> currentPc,
                exits |-> exits, link |-> NoLinks]]
  /\ list' = [chains EXCEPT ![hash_pc(currentPc)] = <<pos>> \o @]
  /\ write_pos' = pos + size
  /\ running' = pos

\* reset leaves the clean flag set.
ResetKeepsClean ==
  /\ tbs' = [b \in Offsets |-> Blank]
  /\ write_pos' = 0
  /\ cached' = [h \in Hashes |-> Null]
  /\ list' = [h \in Hashes |-> <<>>]
  /\ UNCHANGED clean

\* lookup searches only the one entry cache, not the chain.
SearchCachedOnly(pc) ==
  {b \in {cached[hash_pc(pc)]} : b # Null /\ tbs[b].guest_pc = pc}

\* loop_common links although a reset happened since the block exited.
LinkAfterClean ==
  prevCurrentPc < currentPc /\ patchArea # NoExit

\* restore_be_x86_64 leaves the link area of an earlier exit in rdx.
AlternateExitKeepsArea(q) ==
  /\ phase = "run"
  /\ \E e \in tbs[running].exits : patchArea' = Exit(running, e)
  /\ phase' = "top" /\ currentPc' = q /\ running' = Null
  /\ UNCHANGED <<cacheVars, prevCurrentPc, cleaned>>

\* lookup_pc steps over the code of a block but not over its header.
LookupPcWithoutHeader(host_pc) ==
  LET Walk[o \in Offsets] ==
        IF o <= host_pc /\ host_pc < o + tbs[o].size
        THEN Exit(o, tbs[o].guest_pc)
        ELSE IF tbs[o].size > 0 /\ o + tbs[o].size < AreaSize
             THEN Walk[o + tbs[o].size - TbHeader]
             ELSE NoExit
  IN  Walk[0]

\* A hit is linked as well, to save the next return to the loop.
HitAlsoLinks(pc, b) ==
  /\ tbs' = IF patchArea # NoExit
            THEN [tbs EXCEPT ![patchArea.block].link[patchArea.to] = b]
            ELSE tbs
  /\ cached' = [cached EXCEPT ![hash_pc(pc)] = b]
  /\ UNCHANGED <<write_pos, clean, list>>

-----------------------------------------------------------------------------
\* reset
reset ==
  /\ tbs' = [b \in Offsets |-> Blank]
  /\ write_pos' = 0
  /\ clean' = 0
  /\ cached' = [h \in Hashes |-> Null]
  /\ list' = [h \in Hashes |-> <<>>]

\* append: room for one more block of this code size.
Room(size) == write_pos + size + TbHeader <= AreaSize

\* lookup: the blocks of pc in front of or in the chain of its hash entry.
Search(pc) ==
  LET h == hash_pc(pc)
      chain == {i \in DOMAIN list[h] : tbs[list[h][i]].guest_pc = pc}
  IN  IF cached[h] # Null /\ tbs[cached[h]].guest_pc = pc THEN {cached[h]}
      ELSE {list[h][i] : i \in {j \in chain : \A k \in chain : j <= k}}

\* lookup: a hit puts the block in front.
Hit(pc, b) ==
  /\ cached' = [cached EXCEPT ![hash_pc(pc)] = b]
  /\ UNCHANGED <<tbs, write_pos, clean, list>>

\* loop_common: the condition on which a fresh block is linked.
WillLink ==
  prevCurrentPc < currentPc /\ patchArea # NoExit /\ cleaned = 0

\* The top of the loop and cache->lookup: reset when cleaning is asked for,
\* else run the block found, else translate.
LookupClean ==
  /\ phase = "top" /\ clean = 1
  /\ reset
  /\ phase' = "jit" /\ cleaned' = 1
  /\ UNCHANGED <<currentPc, prevCurrentPc, patchArea, running>>

LookupHit ==
  /\ phase = "top" /\ clean = 0
  /\ \E b \in Search(currentPc) : Hit(currentPc, b) /\ running' = b
  /\ phase' = "run"
  /\ prevCurrentPc' = currentPc /\ patchArea' = NoExit
  /\ UNCHANGED <<currentPc, cleaned>>

LookupMiss ==
  /\ phase = "top" /\ clean = 0 /\ Search(currentPc) = {}
  /\ phase' = "jit"
  /\ UNCHANGED <<cacheVars, currentPc, prevCurrentPc, cleaned, patchArea, running>>

\* append: write the block at write_pos, at the head of its chain.
Write(area, pos, chains, size, exits) ==
  /\ tbs' = [area EXCEPT ![pos] =
               [size |-> size + TbHeader, guest_pc |-> currentPc,
                exits |-> exits, link |-> NoLinks]]
  /\ list' = [chains EXCEPT ![hash_pc(currentPc)] = <<pos>> \o @]
  /\ write_pos' = pos + size + TbHeader
  /\ running' = pos

\* disassemble, jitCode and cache->append when the area has room left.
append(size, exits) ==
  /\ phase = "jit" /\ Room(size)
  /\ Write(tbs, write_pos, list, size, exits)
  /\ phase' = "link"
  /\ UNCHANGED <<clean, cached, currentPc, prevCurrentPc, cleaned, patchArea>>

\* The same when it is full: append resets the cache first.
append_full(size, exits) ==
  /\ phase = "jit" /\ ~Room(size)
  /\ clean' = 0
  /\ cached' = [h \in Hashes |-> Null]
  /\ Write([b \in Offsets |-> Blank], 0, [h \in Hashes |-> <<>>], size, exits)
  /\ phase' = "link" /\ cleaned' = 1
  /\ UNCHANGED <<currentPc, prevCurrentPc, patchArea>>

\* loop_common links the exit the last execution came through to the fresh
\* block (patch: ret becomes nop, so that mov/jmp rax is reached), then runs
\* the block.
Link ==
  /\ phase = "link"
  /\ tbs' = IF WillLink
            THEN [tbs EXCEPT ![patchArea.block].link[patchArea.to] = running]
            ELSE tbs
  /\ phase' = "run" /\ cleaned' = 0
  /\ prevCurrentPc' = currentPc /\ patchArea' = NoExit
  /\ UNCHANGED <<write_pos, clean, cached, list, currentPc, running>>

\* The running block leaves through a direct exit: a patched one jumps to
\* the next block, an unpatched one returns its own address in rdx.
Jump(q) ==
  /\ phase = "run"
  /\ q \in tbs[running].exits /\ tbs[running].link[q] # Null
  /\ running' = tbs[running].link[q]
  /\ UNCHANGED <<cacheVars, phase, currentPc, prevCurrentPc, cleaned, patchArea>>

Return(q) ==
  /\ phase = "run"
  /\ q \in tbs[running].exits /\ tbs[running].link[q] = Null
  /\ patchArea' = Exit(running, q)
  /\ phase' = "top" /\ currentPc' = q /\ running' = Null
  /\ UNCHANGED <<cacheVars, prevCurrentPc, cleaned>>

\* The running block leaves through an indirect branch (rdx is 0).
ReturnIndirect(q) ==
  /\ phase = "run"
  /\ patchArea' = NoExit
  /\ phase' = "top" /\ currentPc' = q /\ running' = Null
  /\ UNCHANGED <<cacheVars, prevCurrentPc, cleaned>>

\* A signal handler asked for an alternate exit while the block was running:
\* restore_be_x86_64 returns from execute with the new pc and rdx = 0.
AlternateExit(q) ==
  /\ phase = "run"
  /\ patchArea' = NoExit
  /\ phase' = "top" /\ currentPc' = q /\ running' = Null
  /\ UNCHANGED <<cacheVars, prevCurrentPc, cleaned>>

\* ll_clean_cache, by this thread or another one, at any moment.
CleanRequest ==
  /\ phase # "done" /\ clean = 0
  /\ clean' = 1
  /\ UNCHANGED <<tbs, write_pos, cached, list,
                 phase, currentPc, prevCurrentPc, cleaned, patchArea, running>>

\* isLooping answers 0: the guest thread has exited.
Stop ==
  /\ phase = "top"
  /\ phase' = "done"
  /\ UNCHANGED <<cacheVars, currentPc, prevCurrentPc, cleaned, patchArea, running>>

\* One iteration of loop_common, code that runs without waiting for anybody.
LoopStep ==
  \/ LookupClean \/ LookupHit \/ LookupMiss \/ Link
  \/ \E size \in JitSizes, exits \in ExitSets :
       append(size, exits) \/ append_full(size, exits)

\* execute: one block, straight line code, runs to one of its exits.
Execute == \E q \in Pcs : Jump(q) \/ Return(q) \/ ReturnIndirect(q)

Next ==
  \/ LoopStep \/ Execute \/ CleanRequest \/ Stop
  \/ \E q \in Pcs : AlternateExit(q)

Spec == Init /\ [][Next]_vars

\* The host runs the thread, and a block of at most max_insn guest
\* instructions comes to its end (its system calls return).
FairSpec == Spec /\ WF_vars(LoopStep) /\ WF_vars(Execute)

-----------------------------------------------------------------------------
\* lookup_pc: walk the blocks from the start of the area to the one that
\* holds host_pc; the guest pc and the start of that block, or no block.
lookup_pc(host_pc) ==
  LET Walk[o \in Offsets] ==
        IF o <= host_pc /\ host_pc < o + tbs[o].size
        THEN Exit(o, tbs[o].guest_pc)
        ELSE IF tbs[o].size > 0 /\ o + tbs[o].size < AreaSize
             THEN Walk[o + tbs[o].size]
             ELSE NoExit
  IN  Walk[0]

\* append keeps the blocks inside the area and never over one another, so
\* that no translation overwrites code that can still be reached.
BlocksDisjoint ==
  /\ write_pos <= AreaSize
  /\ \A b \in Live : b + tbs[b].size <= write_pos
  /\ \A b, c \in Live : b < c => b + tbs[b].size <= c

\* Every translation in the area can be found again, and only one: lookup
\* and append keep one block per guest pc, reachable from its hash entry.
OneBlockPerPc ==
  \A b \in Live :
    /\ Search(tbs[b].guest_pc) = {b}
    /\ phase = "jit" => tbs[b].guest_pc # currentPc

\* patch asserts that it finds the ret of an exit (0xc3): when loop_common
\* patches, the area it got from the last execution is still an unpatched
\* exit of a block in the cache, and the exit leads to the block's pc.
PatchHitsExit ==
  phase = "link" /\ WillLink =>
    /\ patchArea.block \in Live
    /\ patchArea.to \in tbs[patchArea.block].exits
    /\ tbs[patchArea.block].link[patchArea.to] = Null
    /\ patchArea.to = tbs[running].guest_pc

\* A patched exit jumps to the translation of the exit's own successor, never
\* to a block that was dropped by a reset or to the block of another pc.
LinksReachTheirPc ==
  \A b \in Live : \A q \in Pcs :
    tbs[b].link[q] # Null =>
      tbs[b].link[q] \in Live /\ tbs[tbs[b].link[q]].guest_pc = q

\* The reason for the condition on linking in loop_common, "to avoid loop":
\* every patched exit jumps to a block translated later, so the patched jumps
\* form no cycle, whatever the order of the guest addresses.
LinksFormNoLoop ==
  \A b \in Live : \A q \in Pcs :
    tbs[b].link[q] # Null => b < tbs[b].link[q]

\* What restore_precise_pc relies on when a signal interrupts translated
\* code: the block that runs is in the area, and lookup_pc finds it and its
\* guest pc from any host address inside it.
RunningBlockFound ==
  phase \in {"link", "run"} =>
    /\ running \in Live
    /\ \A host_pc \in running..(running + tbs[running].size - 1) :
         lookup_pc(host_pc) = Exit(running, tbs[running].guest_pc)

\* loop_common's comment says "only link forward to avoid loop": a patched
\* exit would lead to a guest pc above the pc of its block.
OnlyLinkForward ==
  \A b \in Live : \A q \in Pcs :
    tbs[b].link[q] # Null => tbs[b].guest_pc < q

\* execute always comes back to loop_common: a chain of patched jumps ends,
\* so that isLooping and the cleaning of the cache are looked at again.
ExecuteReturns == phase = "run" ~> phase \in {"top", "done"}

\* A request to clean the cache is honoured before the thread runs for ever.
CleanHonoured == clean = 1 ~> (clean = 0 \/ phase = "done")
=============================================================================
