# A verification project for umeq

Umeq runs programs of another architecture (guest arm or arm64) on an x86_64 or
i386 Linux host: it translates guest code block by block, runs the translation,
and passes system calls on to the host kernel. Two kinds of code in it are hard
to test: the parts that several threads or signal handlers share, which must
stay right over long sequences of calls in any order, and the helpers that
compute guest instructions, thousands of lines whose mistakes show only for
extreme operands. This project models both in TLA+, checks them with TLC on
small instances and proves some of them with TLAPS for every value of the
constants.

Paths below are relative to the repository (`src/...` is its own source tree).

## 1. Inventory

| component | state it keeps | operations | talks to |
|---|---|---|---|
| mutex (`runtime/pthread.c`) | one futex word | lock, unlock | kernel futex; used by the cache list and the address space |
| translation cache (`cache/cache.c`) | area of blocks, write position, one-entry cache and chain per hash, clean mark | createCache, lookup, append, lookup_pc, reset | execution loop, signal code (lookup_pc) |
| execution loop (`main.c`) | current and previous guest pc, the exit the last block left through | loop_common, and the nested loop of a handler | cache, jitter, backend |
| backends (`jitter/x86_64`, `jitter/i386`) | per block: instructions, registers, free host registers; saved stack pointer | jit, execute, patch, find_insn, alternate exit | loop, signal code |
| jitter (`jitter/jitter.c`) | pools of IR instructions and registers | allocation of IR, jitCode | disassemblers, backend |
| list of caches (`cache/cache.c`) | list, its mutex, one global flag, one mark per cache | cleanCaches, ll_clean_caches, append and remove | every thread's lookup; system calls that change code |
| guest address space (`target/memory/mmap_common.c`, `arm64_mmap.c`) | list of areas, free descriptors, a page of descriptors in reserve, pending unmaps, attached segments, cursors | mmap, munmap, mremap, shmat, shmdt and the variants umeq calls itself | host kernel, clone, brk, loaders, cache cleaning |
| threads (`arm64_clone.c`, `clone_asm.S`) | a stack per thread | create, leave | address space, loop |
| program break (`arm64_brk.c`) | current and mapped break | brk | address space |
| signals (`arm64.c`, `arm64_signal.c`) | handler table, alternate stack, context per nesting level, where the thread was interrupted | delivery, precise pc, sigreturn, sigaction, sigaltstack | loop (a nested one without cache), backend, cache |
| exclusive accesses (`arm64_helpers.c`, `arm_helpers.c`) | the value last loaded, per context | load and store exclusive, clrex, cmpxchg of the vdso page | guest memory, which other threads write |
| integer helpers (`arm64_helpers_simd.c`, `arm_helpers.c`, `arm64_helpers.c`) | saturation, Q, GE and condition flags | one helper per family of guest instructions | translated code |
| floating point helpers (`arm64_helpers_fpu.c`, `..._simd_fpu_common.c`, `arm_helpers.c`) | control and status registers, spread over soft float, the host's register and a cached permission for the fast path | one helper per instruction, accesses to FPCR, FPSR, FPSCR | soft float, host processor, signal contexts |
| soft float (`fpu/`) | status: modes and flags | arithmetic, comparisons, conversions | floating point helpers |
| disassemblers | none between instructions | one routine per guest instruction | jitter |
| ptrace, open, readlink, uname, adapters, loaders, runtime | little or none | system calls, start-up | host kernel |

What is hard:

* **Concurrency.** Threads share the address space (one mutex), the list of
  caches (one mutex), a flag and the program break that no mutex protects, and
  guest memory. A leaving thread unmaps the stack it runs on.
* **Signals.** A handler may interrupt translated code, a helper, an exit or
  umeq itself, change the pc, or never return; it runs in a nested loop, with
  registers, stack and floating point status of its own.
* **Stale state.** The exit to patch comes from an earlier turn of the loop; a
  segment's extent from the time of its attachment; translations outlive the
  code they were made from; the permission for the fast path summarises a
  control register.
* **Failure of one step of several.** The list of areas is changed before the
  kernel has agreed; a break is mapped by a hint.
* **Limits.** A full translation area, a full address space, the last free
  descriptor, empty and unrounded lengths; saturation, carries, shifts by the
  width, subnormal numbers, in one copy of the code per lane size and guest.
* **Values in host registers.** Two backends assign host registers in one pass;
  an early release shows only in blocks with the right lifetimes, and upper bits
  of a narrow value only in the next instruction that looks at them.

PROJECT.json lists the hazards one by one, each at its line.

## 2. Modules

| module | models | properties and proofs |
|---|---|---|
| `FutexMutex` | `runtime/pthread.c` | `FutexMutex_proofs` |
| `ExecLoop` | `cache.c` (one thread), `loop_common`, exits and patching of the x86_64 backend | `ExecLoop_proofs` |
| `CacheClean` | `cleanCaches`, the list of caches, the flag | `CacheClean_proofs` |
| `VmaList` | the descriptor list: `insert_area` and the searches, as operators | |
| `VmaManager` | the memory system calls and the stacks of threads, over `VmaList` | `VmaManager_proofs` |
| `Signals` | `arm64.c`, `arm64_signal.c`, `cacheNone.c`, the nested loop | `Signals_proofs` |
| `Exclusive` | exclusive accesses as compare and swap | implements `ExclusiveMemory`; `Exclusive_proofs` |
| `ExclusiveMemory` | what guests rely on (abstract specification) | |
| `Brk` | `arm64_brk.c` | `Brk_proofs` |
| `Jitter` | `jitter/jitter.c`: the pools of a block and what a disassembler may put in them | |
| `Backend` | `be_x86_64.c` and `be_i386.c`: instruction selection, register allocation, the code as it reads and writes registers, `findInsnInCode`; over `Jitter` | `Backend_proofs` |
| `CodeGen` | what the generated code of an instruction computes, both backends | |
| `Lanes` | vector registers and loops over their lanes | |
| `Arm64Simd` | integer part of `arm64_helpers_simd.c` | `SimdLaws` |
| `ArmNeon` | integer vectors of `arm_helpers.c` | `SimdLaws` |
| `ArmParallel`, `ArmDsp`, `ArmFlags` | core register arithmetic and flags of `arm_helpers.c`, flags and bit fields of `arm64_helpers.c` | `DspLaws` |
| `SoftFloat`, `SoftFloatFormats` | `fpu/softfloat.c` and its headers | `SoftFloatLaws` |
| `FpuEstimates`, `Arm64FpuCommon`, `Arm64Fpu`, `Arm64FpuSimd` | `arm64_helpers_simd_fpu_common.c`, `arm64_helpers_fpu.c`, vector floating point of `arm64_helpers_simd.c`, `arm64_softfloat.c` | `SoftFloatLaws` |
| `ArmFloat` | VFP and NEON floating point of `arm_helpers.c`, `arm_softfloat.c` | `SoftFloatLaws` |
| `FpuControl` | control, status, fast path and signal contexts together | |

The `MC...` modules give values to constants; `MCSimd` and `MCSoftFloat` also
choose the inputs that the laws are evaluated on. Operators that stand just
before the definition they vary, and are used nowhere else, are slips: what the
code would be with a plausible mistake. They are there to show that the
properties notice them.

### FutexMutex
The variables are the futex word, and for each thread where it is in `ll_lock`
or `ll_unlock`, its local `oldval` and whether it sleeps. Each compare-and-swap,
read and system call is one action. `Interrupted` is a return of `FUTEX_WAIT`
for no reason, which Linux allows. `Leave` starts `ll_unlock`.

### ExecLoop
`tbs` is the area, indexed by offset: a block has a size, a guest pc, its direct
exits and, for each, the block it was patched to jump to. `cached` and `list`
are the two hash tables. `phase` is the place in `loop_common`. An action is one
part of an iteration: lookup (three outcomes), append (with and without room),
link, and then the ways out of `execute`: a patched jump to the next block, a
return through a patchable or an indirect exit, and the exit a signal handler
asks for. `CleanRequest` is another thread setting `info.clean`, at any moment.
What a block computes is left out; its exits are any set of successors.
A reset does not write to the area in the code. Here it blanks it, because
nothing reads beyond `write_pos`: `RunningBlockFound` shows that `lookup_pc`
stops before it gets there.

### CacheClean
The guest code is one block with a version number, so a stale translation is one
with an old version. Reads and writes of the flag and each step of the walk over
the list are actions of their own; the mutex is assumed to exclude, which
`FutexMutex` shows. A miss is two more: `disassemble` reads the code into
`jitBuffer`, and `append` stores what was read then, however much has happened
since. Whether `append` finds the area full depends on blocks that are not
modelled, so both happen; when it does, `reset` also takes down the mark of the
cache. `asked`, `floor` and `raced` are history for the properties: `raced` is
set when a request falls between the reading of the flag and its lowering, and
when `append` takes down a mark that came after its thread's lookup.

### VmaList and VmaManager
A call runs under `ll_big_mutex` and is one action; the code's helpers are
operators from a manager record to a manager record, so that an action contains
everything the call does, up to `allocate_more_desc_memory_if_needed` at its
end. There other threads may mark more pending unmaps while the loop collects
them, so each turn of the loop (`collect_ongoing_unmap`) and the renewal of the
reserve are actions of their own, and `collecting` says that a call is there and
still has the mutex. Empty descriptors are kept as the code keeps them. What the host has mapped
is part of the state (`host`), because the properties relate the list to it.
Outside the mutex are `munmap_in_signal`, `exit_munmap` and `exit_mark`. A page
has two bytes, so that a length can end inside a page. `fail` names the
assertion or fatal error that ended the program. Assumptions on the guest:
it does not name pages umeq took for itself, and gives a segment back whole.
Simplifications: the mmap of a page for umeq itself succeeds when there is room
in the list, and munmap of a range inside the address space succeeds.

### Signals
One guest thread and its stack of contexts. A context records where it is
(translated code, a helper, an exit that has written the pc, the loop), the values the delivery reads (`helper_pc`, the block and the
instruction, pc and stack pointer, alternate stack) and what it will do when it
ends. The two moments in which a handler's context exists but is not the
current one ("init" before the tls points to it, "leaving" after) are places of
their own, because a signal there finds the context below. `TakeSignal` is the
whole of delivery: the place, the precise pc, the choice of the stack, the
frame. A frame is one address; frames in guest memory are only kept while a
context refers to them.

An svc has places of its own, because `dis_svc` writes the pc after it before
its helper is called: "svc" after that write, "syscall" in the helper,
"sigaction" in the middle of that call, "served" when the helper is over. Before
and after the helper `helper_pc` is 0 and the pc that a signal computes is
wrong; `PreciseWhenReliable` says so by leaving these moments out. A brk has
the same three, but writes its own pc. `sigaction` is two steps, the tables and
then the kernel, which may refuse; the tables are not put back, as in the code.
An action is a handler and whether it asks for the alternate stack, and may be
replaced by any other. `SigReturn` ends the context it runs in, whichever
handler's code called it: after a jump into an outer handler, out of one that
had interrupted umeq and so could not be left, it is the inner context that
returns.

`helper_pc` of a fresh context is any value, since nothing initialises it.
A context's `level` is the context whose part of the stack it runs on, another
one's after a jump, 0 when that part is nobody's any more; `lost` marks a context
above the part of the stack a later signal was delivered on, which may have
written over its frame; `raced` marks one that went on after an alternate exit
had abandoned a handler in one of the two windows; and `sigact` says of each
signal whether its last `sigaction` call was accepted and overlapped no other
("told"), is not over ("call"), or was refused or mixed with another ("mixed").
Alternate stacks are assumed to be large enough for the handlers that nest
(`LargeStacks`; with one that is too small `JumpUnwinds` fails, as frames then
lie outside it) and apart from each other and from the main stack
(`StacksApart`). `MCSignals` evaluates both on its stacks.
The guest may change the pc in its frame (`SetFramePc`) or jump out of its
handler to any live frame or the main stack (`Longjmp`). `insn` counts as the
walk of `findInsnInCode` does: the boundary between two instructions belongs to
the first.

The history fields `lost`, `raced`, `hset`, `fresh`, `told`, and `wrong` and
`given` of a frame, say to which contexts a property applies. Where the code is
known not to keep a promise, the property states the condition under which it
does, and the hazard's note the case outside it.

### Exclusive and ExclusiveMemory
Memory consists of 32 bit halves; a location has one, two or four of them.
Accesses of one host word are atomic. The pair of 64 bit registers takes two
steps, for loads as for stores, and any other access may fall in between.
`reserved` is history: the location and the value of the last load exclusive.
A signal handler is one more context, as it is in the code (the value is part of
the context, so a handler's accesses do not disturb it). `ExclusiveMemory` says
what guests rely on: a store exclusive that succeeds has replaced the value its
context loaded, in one step. It does not forbid that the value changed and came
back in between, and the source gives that up too. `Implements` is the
refinement, under the mapping that gives wide accesses no reservation.

### Brk
`curbrk` and `mapbrk` are shared and no lock is taken, so every read and write
of them in `arm64_brk` is a step; `mmap_guest` is one step that places the
memory at the hint, elsewhere, or nowhere. `heap` is what was mapped for the
break, `others` what else is mapped, `data` the addresses that hold something
else than zero. The guest stores below a break it was granted.

### Vectors: Lanes, Arm64Simd, ArmNeon
A vector register is the function of its bytes, and its lanes of each size are
views of it. A helper of the code is a switch on the lane size whose cases hold
the same loop; here the size is a parameter. The switches that
select an operation from the fields of the encoding are kept. The widths are
scaled: a byte has 4 bits, a D register 4 bytes, so that a register has lanes of
three sizes and TLC's integers hold their products.

`SimdLaws` states how instructions are tied together: an accumulating
instruction is the addition of the plain one, a narrowing one returns the upper
half of the long one, saturating ones clamp the exact result and report it,
permutations undo each other, structures loaded are structures stored.
It also maps the instructions of the arm guest to those of the arm64 one
and demands the same lanes and the same saturation. Both go through the fields
of the encodings, so that a wrong case of a switch is found as well.

### Core registers: ArmParallel, ArmDsp, ArmFlags
The parallel, saturating, long and dividing instructions of the arm guest in
their arm and thumb encodings, the flags of both guests as they are recovered
from operands and results, the carry out of the shifter, conditions, bit fields
and counts of bits, multiple loads and stores of floating point registers. A byte has 3
bits. `DspLaws` compares them with exact integers, and the flags with what a
comparison, a chain of additions or a shift means.

The laws of this and of the two neighbouring sections are stated over an input
that the specification steps through, as properties of its steps: a step starts
from an input of which the law holds. The input itself is no state of umeq.

### Soft float and floating point helpers
A number is its bits. The code repeats each algorithm for each format; here an
algorithm has the format as a parameter, `SoftFloatFormats` has the entry points
that the helpers call. Guard bits, jamming shifts, the increment of each
rounding mode, tininess, flush to zero and the NaN rules of arm are as in the
code. Quotients and roots are computed as the code does: from an estimate, which
is corrected only when its last bits are close to a tie (`divSig64`,
`sqrtSig32`, `sqrtSig64`); otherwise it is rounded as it stands, off by a few
units. The estimates themselves, table look-ups and truncated divisions, are
abstracted to what the comments of `softfloat-macros.h` promise of them:
`estimateDiv128To64` is at most two too large, `estimateSqrt32` off by less than
two. `EstimatesDoNotShow`, a part of `ResultsAreRounded`, demands that every
estimate within these limits is rounded, in every mode and with the same flags,
as the exact quotient or root is. A guard that corrects in fewer cases breaks it.
`float32_div` divides exactly and has no estimate. The remainder is not
modelled, as no guest instruction uses it. Conversions of halves take the format
from FPCR (`IEEE_H16`), also the alternative one without infinities and NaNs.
`SoftFloatLaws` gives the reference: a
finite number is a count of smallest subnormals, and a result must be the
nearest, lower or upper number to the exact rational value, with the flags this
calls for.

The helper modules have one operator per helper. `Host` in `Arm64FpuCommon` is
the host processor (external), which decides tininess after rounding.
`FloatTargetsAgree` relates the fast path to soft float, scalar to vector, and
the arm guest to the arm64 one.

`FpuControl` puts the pieces of state together: the control register and its
cached summary, flags in the software status and in the host's register, and
contexts of signal handlers, which the host kernel starts with clear flags.

### Jitter, Backend and CodeGen
The constructors of `jitter.c` are operators that give the instruction they
append; `BuildIr` is a disassembler that calls any of them with operands it has
defined and of the types it asserts. Instructions of one shape are one (`alu` is add, sub, xor,
and, or). The last read of a register is kept as the code keeps it. A pool that is full ends
the process by an assertion, so such a block is not built.

`Backend` takes a block through the phases of `jit` or `get_marker`. An
instruction of the IR becomes one, none (a context read whose result nobody
reads), two (a store of i386 whose address has 64 bits) or four (an arithmetic
shift in less than a host register) of the backend. `allocateRegisters` gives
the result its host registers first, the first ones that are free, and releases
those of operands read for the last time after that. While the code runs, a host register
holds `<<r, k>>`, half k of the value of register r, or junk: an instruction
that does not find all its operands computes junk. `gen_late` says which
operands the code of an instruction reads after it has started to write its
result. The number of host registers, how many a callee may change and
how many `gen_call` saves are parameters of a backend; the only assumption on them is that
what a callee may change is saved. Every instruction has a size; the bytes themselves
are left out.

`CodeGen` has the values: a word of the host, of which the upper bits of a
narrow value are arbitrary, or two slots. `CodeComputesIr` compares what the
code leaves with what the IR means. It gives clean upper bits to comparisons,
logical shifts to the right and predicates, because the code needs them there;
that loads of 8 and 16 bits, helper calls and signed casts do not clean them
is the hazard at `be_i386.c:1338`. Shift amounts stay below the width, as beyond it
the two backends differ. A 64 bit `ite` of i386 tests the lower half of its
predicate twice; the predicates that the disassemblers make are zero exactly
when that half is.

## 3. Runs

| run | instance | shows |
|---|---|---|
| `futex` | 3 threads, fairness | exclusion, no lost wake-up, somebody gets the mutex while somebody wants it |
| `exec_loop` | 3 guest addresses (two share a hash entry), area of two or three blocks, fairness | cache, links and interrupted block are sound; `execute` returns; a clean request is honoured |
| `cache_clean` | 2 threads, 3 versions of the code, fairness | list intact; a request that is lost neither to the lowering of the flag nor to the emptying of a full area reaches every cache; the flag comes down |
| `vma` | 4 pages, munmap at each, MAP_FIXED at two, lengths of one and of two pages that end inside a page; 2 threads, segments, unmaps in signals | partition, agreement with the host, nothing live given out, no descriptor lost and no fatal end for the lack of one, with pending unmaps |
| `vma_shmat_refused` | attach at an address | **violated**: live memory marked free |
| `signals` | 2 instructions, 2 signals (one on the alternate stack), 3 contexts, 2 deliveries, 3 actions | precise pc, frames, masks, unwinding and resumption |
| `exclusive` | 2 contexts, 4 halves, overlapping locations of all sizes | a store compares with what its context loaded; refinement of `ExclusiveMemory` |
| `brk` | 2 threads, pages of 2 addresses, 5 breaks | the break stays in the heap; calls that do not overlap give cleared memory |
| `simd` | 125 triples of extreme bytes, every instruction, lane size and form | laws of the vectors, agreement of the guests, core arithmetic, flags; code of both backends for every operator of the IR |
| `softfloat` | every number of an 8 bit format (4 exponent, 3 fraction bits), 5 rounding modes, flush on and off, 20 or 7 second operands; 4 controls, 9 instructions, 2 contexts | rounding of arithmetic and conversions, agreement of the targets; results follow the control and flags accumulate |
| `jitter` | blocks of up to 4 instructions and 4 registers of 8 and 64 bits; x86_64 with 3 host registers, i386 with 5 | operands are found, no host register is lost or shared |
| `find_insn` | the same | **violated**: at a boundary the walk reports the instruction before |

**Bounds.** The area of `exec_loop` fills up while chains of patched jumps
exist, which is when a link could go wrong; two addresses per hash entry make
chains of two. The proofs cover any number of threads for `cache_clean`, whose
instance has two so that liveness can be checked as well. In the address space
run, four pages suffice for an area with a neighbour on each side and one
further area, and the proofs cover any number; descriptors come in fives instead of about a hundred, so that
running out, the reserve and its renewal all happen. A smaller number is the
harder case, except that the number of threads leaving at once must stay below
it (see the hazard at `mmap_common.c:136`); the proof makes this precise. The
guest of the passing run satisfies `WellFormedCalls`, the condition of the
theorems, which `MCVmaManager` asserts. In `signals` three contexts allow a
handler in a handler on the alternate stack, and the stack lies above the main
one, the case in which comparing stack pointers misleads. Only the thread itself
calls `sigaction`, for one of the signals, and `sigaltstack`, or meets a brk
(`CallDepth`, `CallSigs`), and code in a handler branches and jumps to one address
and writes only that one in its frame (`HandlerPcs`); a second handler address comes with the actions. Two
deliveries are the least with which handlers nest, a block is interrupted
twice, and a signal falls into a window; the proofs have no such bounds. In `brk` breaks fall
on and inside pages and below the start. In `simd` the bytes are 0, 1, the
extreme signed ones and the extreme unsigned one; registers are built from them
in several orders. The floating point formats are the smallest in which
subnormals, guard bits, double rounding and conversions to narrower and wider
integers all occur; a half has a single fraction bit, and the sequences of
control accesses have one instruction for each flag. In `jitter` four values
can be alive at once with three host registers, so that the allocation also
fails; the proofs cover blocks of any length.

**Deadlock** is not checked where threads or the program may end (`exec_loop`,
`cache_clean`, the address space, `signals`, `jitter`).

**Fairness.** `futex`: a thread that is not waiting goes on, and a holder
releases. `exec_loop`: the host runs the thread, and a block of at most
`max_insn` instructions ends. `cache_clean`: a thread in its loop goes on.
None of them makes a signal, a request or a new thread happen.

**Findings.** Two runs are violated, and PROJECT.json explains each with the
line it contradicts: the refused `shmat`, and `findInsnInCode`. `jitter.h:160`
promises the instruction "associated with byte located at buffer + offset"; the
walk stops as soon as it has reached the byte, so that at the first byte of an
instruction it answers with the one before. A signal that arrives between two
guest instructions is reported at the one that has just been completed.

**Statements that do not hold.** These definitions are kept in the modules, as
the exact form of a promise that the code does not keep; TLC refutes each one
when it is added to a configuration. Their hazards carry a note.

| definition | where the code departs from it |
|---|---|
| `ExecLoop.OnlyLinkForward` | "only link forward" (`main.c:93`) compares the wrong pc; harmless, see `LinksFormNoLoop` |
| `CacheClean.CleanWorks` | a request between the walk and the store to the flag is lost (`cache.c:154`), and so is a mark set between disassembly and append when the area is full (`cache.c:189`) |
| `VmaManager.NeighboursAreMerged` | empty descriptors keep neighbours apart (`mmap_common.c:278`) |
| `Signals.NoAssert` | a handler that interrupted umeq changes the pc of its frame (`arm64.c:434`) |
| `Signals.StackRestored` | 16 bits of the host stack pointer are restored (`be_x86_64_asm.S:58`) |
| `Exclusive.FailedStoreKeepsMemory` | `stxp` of 64 bit registers is not atomic (`arm64_helpers.c:453`) |
| `Brk.DataKept` | calls of brk that overlap clear memory in use (`arm64_brk.c:28`) |
| `SimdLaws.RegisterShiftsAgree` | rounding shift by the lowest byte (`arm64_helpers_simd.c:2014`) |
| `SoftFloatLaws.HalfIsRounded` | overflow and underflow of a half ignore the rounding mode |
| `SoftFloatLaws.Int16IsTruncated` | invalid for numbers that fit (`softfloat.c:1507`) |

## 4. Proofs

`FutexMutex_proofs`: for any set of threads, `MutualExclusion` and
`NoLostWakeup`. The inductive invariant says that the word is not 0 exactly while some thread
holds the mutex, that only a thread at the bottom of the loop sleeps, and who is
responsible for a sleeper: the word is 2, or
some thread is on its way to wake or to retry.

`ExecLoop_proofs`: for any set of addresses, hash width, area, header and block
sizes, the type invariant and `BlocksDisjoint`, `OneBlockPerPc`, `PatchHitsExit`,
`LinksReachTheirPc`, `LinksFormNoLoop`. None is inductive alone. The invariant
`IInv` adds that chains hold exactly the live blocks of their hash value
(`Chains`), that one pc has one block (`Unique`), that links go from live to
later live blocks of the right pc (`Links`), that an exit waiting to be patched
is still there unless the loop knows of a reset (`Pending`), and that the block
about to run is live (`Current`). There is one lemma per group of actions and
one step per action. The assumptions are `PcAssumption` and `SizeAssumption`
(an empty area holds any block; `main.c` gives areas of at least a megabyte
and blocks of at most 16 KB).

`CacheClean_proofs`: for any set of threads and any number of versions,
`ListIntact` and `CleanWorksUnraced`. `CleanWorksUnraced` says nothing about a
cache that is not being run from; the invariant `CleanInv` adds that, while no
request has met the lowering of the flag and no mark the reset of `append`, a
stale cache that is not marked will
be: the flag is up, nobody is about to lower it, and a walk that goes on has not
passed it (`StaleIsMarked`); and that a thread past the flag knows of the
requests made before (`OwnIsKnown`), also in what it has disassembled and not yet
appended (`BufferIsKnown`). Two lemmas about lists, `Prepended` and
`TakenOut`, carry `ListIntact` over `createCache` and `removeCache`.

`VmaManager_proofs`: for any layout, page size, alignment of the cursor,
arguments of the guest and set of threads. Three invariants, each of which needs
the one before.

* `Shape` gives `ListIsPartition`, for every guest. The list is a `Chain`
  (descriptors that meet, and in order), its ends are those of the space, and
  the list, the cursor, the segments and the pending unmaps are on page
  addresses inside the space. The argument is about `insert_area`: each of its
  cases replaces a part of the list by one that covers the same bytes
  (`SpliceChain`), gives the type asked for to the bytes of the area and leaves
  the type of every other byte (`Painted`), and the last merge changes the type
  of none. Empty descriptors are the reason why a chain says more than that
  neighbours meet.
* `Sound` gives `MappedIsTracked` and `TakesOnlyWhatIsAsked`. Every page the host has
  mapped is marked in the list; a segment and a pending unmap lie in marked
  areas and share no page with another; a pending unmap that is not marked
  done belongs to a thread on its way out and is exactly its stack; the stack of
  a thread that runs is mapped as its own, and nobody else's pending unmap
  covers it. So a page can be given out only when it is nobody's, and collecting a
  pending unmap frees pages that the leaving thread has unmapped already. There
  is one lemma per operation (`Works...`).
* `Stocked` gives `DescriptorsConserved`.
  Between calls a page of descriptors is in reserve; a call takes at most four,
  and at its end enough are left to collect what is pending (one each,
  given back after it) and to map the next page (two). A thread has at most one pending unmap.

The theorems about `Sound` and `Stocked` have two hypotheses. `WellFormedCalls`:
the guest passes pages of the space to the calls that replace or unmap, no
length 0, whole pages to `mremap`, and no address to `shmat`; without the last
the property fails (run `vma_shmat_refused`), and the notes of the hazards at
`mmap_common.c:550` and `:394` name what goes wrong without the others.
`EnoughDescriptors`: a page has six descriptors more than there are threads. A
page has 102 in the code, so this allows 96 threads that umeq has created; the
instance of TLC has five and two threads, and show that for few threads the
property holds with less than the proof asks for.

`Exclusive_proofs`: for any contexts, memory and locations,
`ComparesWithLoaded` and `Implements`. The invariant says that a context in the
middle of a wide access holds no reservation, and that a reservation agrees with
`exclusive_value`. The refinement has one step per action, each a step of
`ExclusiveMemory` or a stutter.

`Brk_proofs`: for any threads, page size, heap and breaks, the type invariant,
`BreakIsMapped` and `AloneClearsWhatIsNew`. The invariant says what each call
knows at each of its steps: what it asks to be mapped starts where the heap was
known to be mapped up to, and memory that lies elsewhere is not used. For the
second property it adds (`LonelyCall`) that while a call nobody overlapped is
running, everybody else is outside, the break is the one it has read, and what
it has cleared stays clear until it moves the break.

`Signals_proofs`: for any number of nested signals, any addresses and any
handlers, the type invariant, `MaskFollowsContexts`, `EntersInstalled` and
`PreciseWhenReliable`, and the four properties about stacks below. `StackInv` says which contexts lie between a handler's and
the one it interrupted: only contexts in one of the two windows. From it follows
what an exit or a jump may drop, hence the masks. `EntersInstalled` needs that
the table and the kernel agree on every signal that is "told", and that a call
in progress for one that is "call" is the only one and its action the one in the
table. `PcInv` says, for each place a context can be at, how its pc,
`helper_pc`, block and instruction are related; it is what makes the pc computed at
delivery the true one, and each history condition of the property appears in
the case in which it is needed.

The code knows no list of stacks: it compares stack pointers. What it concludes
is right because of how frames lie on the stacks.

* `NoSpuriousExit` assumes `LargeStacks` only. A handler that started on an
  alternate stack has this stack set, unless it has left it for good
  (`OwnStackInv`), and its frame is below the stack pointer of what it
  interrupted (`FrameBelowInv`). `JumpsInOrder` says that a handler that has
  jumped is not above one that has jumped further, but for one case in a window.
* `FrameIsMine` and `ResumeAsTold` assume `StacksApart` too. `StacksInv` says of
  each frame made below one whose place is known (`Good`) that it is as close to
  the top of its stack as the number of contexts allows (`Placed`), that it does
  not reach the stacks of the contexts below (`Ordered`), and that its context has
  their alternate stacks set (`HasStacks`), the last two but for contexts that
  were left for good or are in a window. So a new frame meets none that is kept,
  and a handler that returns finds what the delivery wrote.
* `JumpUnwinds`: from the same places, the stack pointer of a handler that has
  jumped is out of its signal stack for the test of the code (`JumpIsOut`), so a
  handler that interrupted guest code runs no further block (`UnwindInv`).

The condition `FrameKept` comes from the proof. An earlier one excluded only
contexts that a signal had met in a window. It is too weak from five contexts
on: a nested handler jumps out of one that had interrupted umeq (which the
alternate exit does not end), a signal then writes over an older frame, and the
handler that was jumped out of returns through it. The instance of TLC has fewer
contexts and could not show it.

`Backend_proofs`: for both backends, any types, pools and numbers of host registers, and
blocks of any length, `FreeListExact` and `OperandsHold`. The argument goes
through the phases. `IrSound`: an instruction of the IR reads only registers that
earlier ones have written, no register is written twice, and `lastReadIndex` is
the last place that reads it. `X86Sound` and `TodoSound`: instruction selection
keeps this, expansions and temporaries included, with what an expansion
still owes. `AllocationSound`: the registers written so far and still to be read
have homes that are apart, and the host registers taken are exactly these
homes; after the allocation this holds at every index of the block, and a result is
apart from every operand of its own instruction. `RunSound`: while the code runs, every value still to be
read is in its home. The one assumption about numbers is that `gen_call` saves
at least what a callee may change.

Only model-checked, and why:

* Liveness (`LockProgress`, `ExecuteReturns`, `CleanHonoured`, `FlagLowered`):
  temporal reasoning with fairness is out of the prover's reach.
* `RunningBlockFound` is about a walk that sums the sizes of what it passes; its
  meaning is a recursive function, and the prover has no induction over data.
* The laws of vectors, core arithmetic, floating point and generated code
  are statements about operators over bounded inputs.
* `ControlAndStatus`: each of its steps is a soft float operation on bit
  patterns, which the provers cannot evaluate.

## 5. Plan

1. Mappings made in signal handlers (their cursor, and munmap of them later);
   `ll_big_mutex` taken by a handler.
2. Address space and caches together: executable memory that is replaced must
   clean the caches.

## 6. Not modelled

The disassemblers map encodings to helper calls and IR, one routine per
instruction, and keep nothing between blocks. The encoding of host instructions
in bytes, and the fixed prologue and epilogue of a block, are machine code,
which has no counterpart in a model of this kind. The text of `/proc` files, field by field
copies of system call arguments, ELF loading and the small libc are sequential
code without state that outlives a call. Ptrace needs two processes and the
kernel between them for requests that are translations of register sets. The
signals and the address space of the 32 bit target repeat the structure of the
64 bit ones. Formats of 80 and 128 bits of soft float are never called.
