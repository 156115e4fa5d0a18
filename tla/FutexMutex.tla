----------------------------- MODULE FutexMutex -----------------------------
(***************************************************************************)
(* The mutex of the freestanding runtime (src/src/runtime/pthread.c).  It  *)
(* is what serialises the VMA manager (ll_big_mutex) and the list of       *)
(* translation caches (ll_mutex).  One word per mutex: 0 free, 1 taken     *)
(* without waiter, 2 taken with possible waiters.  Every atomic operation  *)
(* on the word and every futex system call is a step of its own.           *)
(***************************************************************************)
EXTENDS Naturals, FiniteSets

CONSTANTS
  Threads   \* the host threads that use the mutex

ASSUME ThreadsAssumption == Threads # {}

VARIABLES
  addr,     \* the futex word, mutex->__data.__lock
  pc,       \* where each thread is in ll_lock / ll_unlock
  oldval,   \* ll_unlock's local variable of each thread
  sleeping  \* threads the kernel holds in FUTEX_WAIT on addr

vars == <<addr, pc, oldval, sleeping>>

PC == {"out",      \* not using the mutex
       "claim",    \* ll_lock, about to do CAS(addr, 1, 2)
       "wait",     \* ll_lock, about to call futex_wait
       "retry",    \* ll_lock, about to do CAS(addr, 0, 2)
       "cs",       \* ll_lock has returned
       "read",     \* ll_unlock, about to read *addr
       "release",  \* ll_unlock, about to do CAS(addr, oldval, 0)
       "wake"}     \* ll_unlock, about to call futex_wake

TypeOK ==
  /\ addr \in 0..2
  /\ pc \in [Threads -> PC]
  /\ oldval \in [Threads -> 0..2]
  /\ sleeping \in SUBSET Threads

Init ==
  /\ addr = 0
  /\ pc = [t \in Threads |-> "out"]
  /\ oldval = [t \in Threads |-> 0]
  /\ sleeping = {}

Goto(t, from, to) ==
  /\ pc[t] = from
  /\ pc' = [pc EXCEPT ![t] = to]

-----------------------------------------------------------------------------
\* What the code would be with a plausible slip, one operator per slip.

\* Taking an old value of 0 in the loop for an acquired mutex.
ClaimFreeMeansTaken(t) ==
  /\ Goto(t, "claim", IF addr = 0 THEN "cs" ELSE "wait")
  /\ addr' = IF addr = 1 THEN 2 ELSE addr
  /\ UNCHANGED <<oldval, sleeping>>

\* Taking the mutex in the loop with value 1, as on the fast path.
RetryWithoutWaiters(t) ==
  /\ t \notin sleeping
  /\ Goto(t, "retry", IF addr = 0 THEN "cs" ELSE "claim")
  /\ addr' = IF addr = 0 THEN 1 ELSE addr
  /\ UNCHANGED <<oldval, sleeping>>

\* Releasing without calling futex_wake.
ReleaseSilently(t) ==
  /\ Goto(t, "release", IF addr # oldval[t] THEN "read" ELSE "out")
  /\ addr' = IF addr = oldval[t] THEN 0 ELSE addr
  /\ UNCHANGED <<oldval, sleeping>>

-----------------------------------------------------------------------------
\* ll_lock: the first compare and swap takes a free mutex at once.
TryLock(t) ==
  /\ Goto(t, "out", IF addr = 0 THEN "cs" ELSE "claim")
  /\ addr' = IF addr = 0 THEN 1 ELSE addr
  /\ UNCHANGED <<oldval, sleeping>>

\* ll_lock: announce a waiter; do not sleep when the mutex is free by now.
Claim(t) ==
  /\ Goto(t, "claim", IF addr = 0 THEN "retry" ELSE "wait")
  /\ addr' = IF addr = 1 THEN 2 ELSE addr
  /\ UNCHANGED <<oldval, sleeping>>

\* futex_wait: the kernel atomically compares the word with 2 and sleeps.
FutexWait(t) ==
  /\ Goto(t, "wait", "retry")
  /\ sleeping' = IF addr = 2 THEN sleeping \cup {t} ELSE sleeping
  /\ UNCHANGED <<addr, oldval>>

\* A host signal makes FUTEX_WAIT return before any wake up.
Interrupted(t) ==
  /\ t \in sleeping
  /\ sleeping' = sleeping \ {t}
  /\ UNCHANGED <<addr, pc, oldval>>

\* ll_lock: the loop condition tries to take the mutex, keeping value 2
\* since other threads may still be asleep.
Retry(t) ==
  /\ t \notin sleeping
  /\ Goto(t, "retry", IF addr = 0 THEN "cs" ELSE "claim")
  /\ addr' = IF addr = 0 THEN 2 ELSE addr
  /\ UNCHANGED <<oldval, sleeping>>

\* The owner calls ll_unlock.
Leave(t) ==
  /\ Goto(t, "cs", "read")
  /\ UNCHANGED <<addr, oldval, sleeping>>

\* ll_unlock: oldval = *addr.
ReadWord(t) ==
  /\ Goto(t, "read", "release")
  /\ oldval' = [oldval EXCEPT ![t] = addr]
  /\ UNCHANGED <<addr, sleeping>>

\* ll_unlock: compare and swap to 0; on failure read again, on success
\* wake a waiter when the word said there may be one.
Release(t) ==
  /\ Goto(t, "release",
          IF addr # oldval[t] THEN "read"
          ELSE IF oldval[t] > 1 THEN "wake" ELSE "out")
  /\ addr' = IF addr = oldval[t] THEN 0 ELSE addr
  /\ UNCHANGED <<oldval, sleeping>>

\* futex_wake: the kernel wakes one sleeper, any of them, if there is one.
FutexWake(t) ==
  /\ Goto(t, "wake", "out")
  /\ \/ sleeping = {} /\ UNCHANGED sleeping
     \/ \E s \in sleeping : sleeping' = sleeping \ {s}
  /\ UNCHANGED <<addr, oldval>>

\* The steps of a call of pthread_mutex_lock or pthread_mutex_unlock that
\* has begun: a running thread takes them without further ado.
Step(t) ==
  \/ Claim(t) \/ FutexWait(t) \/ Retry(t)
  \/ Leave(t) \/ ReadWord(t) \/ Release(t) \/ FutexWake(t)

Next == \E t \in Threads : TryLock(t) \/ Interrupted(t) \/ Step(t)

Spec == Init /\ [][Next]_vars

\* The host scheduler runs every runnable thread, and a critical section of
\* umeq is finite; nobody is obliged to ask for the mutex, and no signal is
\* obliged to come.
FairSpec == Spec /\ \A t \in Threads : WF_vars(Step(t))

-----------------------------------------------------------------------------
\* The threads between a successful compare and swap in ll_lock and the
\* successful compare and swap in ll_unlock.
Holds(t) == pc[t] \in {"cs", "read", "release"}

\* Mutual exclusion of ll_lock / ll_unlock: at most one thread holds the
\* mutex, and the word says taken exactly when somebody does.
MutualExclusion ==
  /\ \A s, t \in Threads : Holds(s) /\ Holds(t) => s = t
  /\ (addr # 0) <=> (\E t \in Threads : Holds(t))

\* No lost wake up: a thread sleeping in futex_wait is never forgotten.
\* While somebody sleeps, either the word still says 2 (so the owner's
\* ll_unlock will call futex_wake), or a wake up is on its way, or a thread
\* that is awake inside ll_lock is going to set the word to 2 or is going to
\* take the mutex with value 2.
NoLostWakeup ==
  sleeping # {} =>
    \/ addr = 2
    \/ \E t \in Threads : pc[t] = "wake"
    \/ \E t \in Threads \ sleeping : pc[t] \in {"claim", "wait", "retry"}

\* Whenever some thread is inside ll_lock, some thread gets the mutex later:
\* the futex protocol neither deadlocks nor leaves the mutex free with
\* everybody asleep.
LockProgress ==
  (\E t \in Threads : pc[t] \in {"claim", "wait", "retry"})
     ~> (\E t \in Threads : pc[t] = "cs")
=============================================================================
