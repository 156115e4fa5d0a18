----------------------------- MODULE CacheClean -----------------------------
(***************************************************************************)
(* How the translation caches of all threads are emptied when guest code   *)
(* has changed (src/src/cache/cache.c): cleanCaches raises one global      *)
(* flag; the next lookup of any thread sees it, marks every cache on the   *)
(* list under ll_mutex and lowers the flag; each thread then empties its   *)
(* own cache in its own next lookup.  The flag is read and written without *)
(* the mutex, and a signal handler may call cleanCaches while its thread   *)
(* is anywhere in lookup, so every access to the flag is a step.           *)
(*                                                                         *)
(* One guest code block stands for all guest code.  Its versions are       *)
(* numbered, so that a translation is stale when its version is too old.   *)
(***************************************************************************)
EXTENDS Naturals, Sequences, FiniteSets

CONSTANTS
  Threads,   \* guest threads, each with its translation cache
  NoThread,  \* nobody: the value of ll_mutex when it is free
  MaxCode    \* bound on the number of modifications of the code

ASSUME NoThreadAssumption == NoThread \notin Threads
ASSUME MaxCodeAssumption == MaxCode \in Nat \ {0}

VARIABLES
  caches,    \* the list that starts at root
  ll_mutex,  \* the thread that holds it, or NoThread
  is_cache_clean_need,
  clean,     \* info.clean of each cache
  code,      \* version of the guest code in memory
  tb,        \* version each cache holds a translation of, 0 for none
  jitBuffer, \* version each thread disassembled last, before append
  pc,        \* where each thread is
  cursor,    \* position in the list of a thread in ll_clean_caches
  \* History of the calls, read by the properties only.
  asked,     \* version of the code at the last call of cleanCaches
  floor,     \* asked when each thread's current lookup began
  raced      \* a request met the lowering of the flag, or a mark the
             \* emptying of a full area by append

vars == <<caches, ll_mutex, is_cache_clean_need, clean, code, tb, jitBuffer, pc,
          cursor, asked, floor, raced>>
history == <<asked, floor, raced>>

PCs == {"new",     \* before createCache
        "top",     \* about to call lookup
        "lock",    \* the flag was read as 1, before ll_mutex is taken
        "walk",    \* in the loop of ll_clean_caches
        "lower",   \* about to write 0 to the flag
        "own",     \* about to read its own info.clean
        "jit",     \* lookup missed, before disassemble
        "append",  \* disassembled and jitted, before append
        "run",     \* executing the block
        "remove",  \* the loop has ended, before removeCache
        "gone"}    \* the thread has exited, its cache with it

TypeOK ==
  /\ caches \in Seq(Threads)
  /\ ll_mutex \in Threads \cup {NoThread}
  /\ is_cache_clean_need \in {0, 1}
  /\ clean \in [Threads -> {0, 1}]
  /\ code \in 1..MaxCode
  /\ tb \in [Threads -> 0..MaxCode]
  /\ jitBuffer \in [Threads -> 0..MaxCode]
  /\ pc \in [Threads -> PCs]
  /\ cursor \in [Threads -> 0..(Cardinality(Threads) + 1)]
  /\ asked \in 0..MaxCode
  /\ floor \in [Threads -> 0..MaxCode]
  /\ raced \in BOOLEAN

Init ==
  /\ caches = <<>>
  /\ ll_mutex = NoThread
  /\ is_cache_clean_need = 0
  /\ clean = [t \in Threads |-> 0]
  /\ code = 1
  /\ tb = [t \in Threads |-> 0]
  /\ jitBuffer = [t \in Threads |-> 0]
  /\ pc = [t \in Threads |-> "new"]
  /\ cursor = [t \in Threads |-> 0]
  /\ asked = 0
  /\ floor = [t \in Threads |-> 0]
  /\ raced = FALSE

Goto(t, from, to) == pc[t] = from /\ pc' = [pc EXCEPT ![t] = to]

\* The list without the cache of t, whose predecessor gets its successor.
Position(t) == CHOOSE i \in DOMAIN caches : caches[i] = t
Without(t) ==
  [i \in 1..(Len(caches) - 1) |-> IF i < Position(t) THEN caches[i] ELSE caches[i + 1]]

-----------------------------------------------------------------------------
\* What the code would be with a plausible slip, one operator per slip.

\* ll_remove_cache without taking ll_mutex.
RemoveWithoutMutex(t) ==
  /\ Goto(t, "remove", "gone")
  /\ caches' = Without(t)
  /\ UNCHANGED <<ll_mutex, is_cache_clean_need, clean, code, tb, jitBuffer, cursor, history>>

\* The thread that saw the flag marks only its own cache.
WalkMarksOwn(t) ==
  /\ pc[t] = "walk" /\ cursor[t] <= Len(caches)
  /\ clean' = [clean EXCEPT ![t] = 1]
  /\ cursor' = [cursor EXCEPT ![t] = @ + 1]
  /\ UNCHANGED <<caches, ll_mutex, is_cache_clean_need, code, tb, jitBuffer, pc, history>>

\* The flag is never lowered again.
LowerForgotten(t) ==
  /\ Goto(t, "lower", "own")
  /\ UNCHANGED <<caches, ll_mutex, is_cache_clean_need, clean, code, tb, jitBuffer, cursor, history>>

-----------------------------------------------------------------------------
\* createCache: reset, then ll_append_cache under the mutex.
createCache(t) ==
  /\ Goto(t, "new", "top")
  /\ ll_mutex = NoThread
  /\ caches' = <<t>> \o caches
  /\ clean' = [clean EXCEPT ![t] = 0]
  /\ tb' = [tb EXCEPT ![t] = 0]
  /\ UNCHANGED <<ll_mutex, is_cache_clean_need, code, jitBuffer, cursor, history>>

\* lookup: read the flag.
ReadFlag(t) ==
  /\ Goto(t, "top", IF is_cache_clean_need = 1 THEN "lock" ELSE "own")
  /\ floor' = [floor EXCEPT ![t] = asked]
  /\ UNCHANGED <<caches, ll_mutex, is_cache_clean_need, clean, code, tb, jitBuffer, cursor,
                 asked, raced>>

\* ll_clean_caches: take ll_mutex and start at root.
LockList(t) ==
  /\ Goto(t, "lock", "walk")
  /\ ll_mutex = NoThread /\ ll_mutex' = t
  /\ cursor' = [cursor EXCEPT ![t] = 1]
  /\ UNCHANGED <<caches, is_cache_clean_need, clean, code, tb, jitBuffer, history>>

\* ll_clean_cache on the current cache of the list.
ll_clean_cache(t) ==
  /\ pc[t] = "walk" /\ cursor[t] <= Len(caches)
  /\ clean' = [clean EXCEPT ![caches[cursor[t]]] = 1]
  /\ cursor' = [cursor EXCEPT ![t] = @ + 1]
  /\ UNCHANGED <<caches, ll_mutex, is_cache_clean_need, code, tb, jitBuffer, pc, history>>

\* ll_clean_caches: end of the list, release ll_mutex.
UnlockList(t) ==
  /\ Goto(t, "walk", "lower") /\ cursor[t] > Len(caches)
  /\ ll_mutex' = NoThread
  /\ cursor' = [cursor EXCEPT ![t] = 0]
  /\ UNCHANGED <<caches, is_cache_clean_need, clean, code, tb, jitBuffer, history>>

\* lookup: is_cache_clean_need = 0.
LowerFlag(t) ==
  /\ Goto(t, "lower", "own")
  /\ is_cache_clean_need' = 0
  /\ UNCHANGED <<caches, ll_mutex, clean, code, tb, jitBuffer, cursor, history>>

\* lookup: empty the own cache when it is marked, else search it.
CheckOwn(t) ==
  /\ Goto(t, "own", IF clean[t] = 1 \/ tb[t] = 0 THEN "jit" ELSE "run")
  /\ clean' = [clean EXCEPT ![t] = 0]
  /\ tb' = IF clean[t] = 1 THEN [tb EXCEPT ![t] = 0] ELSE tb
  /\ UNCHANGED <<caches, ll_mutex, is_cache_clean_need, code, jitBuffer, cursor, history>>

\* disassemble and jitCode into jitBuffer what the memory holds now.
disassemble(t) ==
  /\ Goto(t, "jit", "append")
  /\ jitBuffer' = [jitBuffer EXCEPT ![t] = code]
  /\ UNCHANGED <<caches, ll_mutex, is_cache_clean_need, clean, code, tb, cursor, history>>

\* append what was disassembled.  Whether the area is full depends on blocks
\* that are not modelled here: reset then empties it and takes down a mark
\* that came since lookup.
append(t) ==
  /\ Goto(t, "append", "run")
  /\ tb' = [tb EXCEPT ![t] = jitBuffer[t]]
  /\ \E full \in BOOLEAN :
       /\ clean' = IF full THEN [clean EXCEPT ![t] = 0] ELSE clean
       /\ raced' = (raced \/ (full /\ clean[t] = 1))
  /\ UNCHANGED <<caches, ll_mutex, is_cache_clean_need, code, jitBuffer, cursor,
                 asked, floor>>

\* execute comes back to the loop.
Execute(t) ==
  /\ Goto(t, "run", "top")
  /\ UNCHANGED <<caches, ll_mutex, is_cache_clean_need, clean, code, tb, jitBuffer, cursor, history>>

\* The guest changes its code: a running block, or a signal handler that
\* interrupted the thread anywhere in the loop.
GuestRuns(t) == pc[t] \notin {"new", "gone"}

ModifyCode(t) ==
  /\ GuestRuns(t) /\ code < MaxCode
  /\ code' = code + 1
  /\ UNCHANGED <<caches, ll_mutex, is_cache_clean_need, clean, tb, jitBuffer, pc, cursor, history>>

\* cleanCaches, called by the guest's cache maintenance instructions and
\* system calls, in a block or in a signal handler.
cleanCaches(t) ==
  /\ GuestRuns(t) /\ asked < code
  /\ is_cache_clean_need' = 1
  /\ asked' = code
  /\ raced' = (raced \/ \E s \in Threads : pc[s] \in {"lock", "walk", "lower"})
  /\ UNCHANGED <<caches, ll_mutex, clean, code, tb, jitBuffer, pc, cursor, floor>>

\* isLooping answers 0, then removeCache under the mutex.
Stop(t) ==
  /\ Goto(t, "top", "remove")
  /\ UNCHANGED <<caches, ll_mutex, is_cache_clean_need, clean, code, tb, jitBuffer, cursor, history>>

removeCache(t) ==
  /\ Goto(t, "remove", "gone")
  /\ ll_mutex = NoThread
  /\ caches' = Without(t)
  /\ UNCHANGED <<ll_mutex, is_cache_clean_need, clean, code, tb, jitBuffer, cursor, history>>

\* The steps a thread takes by itself once it is in the loop.
Step(t) ==
  \/ ReadFlag(t) \/ LockList(t) \/ ll_clean_cache(t) \/ UnlockList(t)
  \/ LowerFlag(t) \/ CheckOwn(t) \/ disassemble(t) \/ append(t)
  \/ Execute(t)

Next ==
  \E t \in Threads :
    \/ createCache(t) \/ Step(t) \/ Stop(t) \/ removeCache(t)
    \/ ModifyCode(t) \/ cleanCaches(t)

Spec == Init /\ [][Next]_vars

\* The host schedules every thread, and every call of execute returns
\* (ExecLoop's ExecuteReturns).  Nothing is asked of ll_mutex: a thread that
\* waits for it forever does so because others get it.
FairSpec == Spec /\ \A t \in Threads : WF_vars(Step(t))

-----------------------------------------------------------------------------
\* The list holds exactly the caches of the threads between createCache and
\* removeCache, each once, and a thread that walks it in ll_clean_caches
\* holds the mutex and stands inside it: no write to the stack of a thread
\* that has exited, and no cache skipped.
ListIntact ==
  /\ \A t \in Threads :
       (pc[t] \notin {"new", "gone"}) <=> (\E i \in DOMAIN caches : caches[i] = t)
  /\ \A i, j \in DOMAIN caches : caches[i] = caches[j] => i = j
  /\ \A t \in Threads : pc[t] = "walk" =>
       ll_mutex = t /\ cursor[t] \in 1..(Len(caches) + 1)

\* Code translated before a completed cleanCaches is not found by a lookup
\* that begins after it, whatever lies between disassembly and append, as
\* long as no cleanCaches fell between the moment a lookup read the flag and
\* the moment it lowered it (cache.c:152-155), and no append emptied a full
\* area that had been marked since its thread's lookup (cache.c:188-191).
CleanWorksUnraced ==
  ~raced => \A t \in Threads : pc[t] = "run" => tb[t] >= floor[t]

\* "be sure to have cache miss after cleanCaches" (test/cache): a lookup
\* that begins after cleanCaches returned does not find an older translation.
\* It does when one of the two exceptions of CleanWorksUnraced happened: the
\* second stores the old translation in the emptied area, with no mark left.
CleanWorks ==
  \A t \in Threads : pc[t] = "run" => tb[t] >= floor[t]

\* The flag does not stay up while a thread is still running guest code: the
\* request is passed on to the caches, or every thread stops.
FlagLowered ==
  is_cache_clean_need = 1 ~>
    (is_cache_clean_need = 0 \/ \A t \in Threads : pc[t] \in {"new", "remove", "gone"})
=============================================================================
