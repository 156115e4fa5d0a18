------------------------- MODULE FutexMutex_proofs -------------------------
(***************************************************************************)
(* Proofs about the runtime's mutex, for any set of threads: it excludes,  *)
(* and its futex protocol loses no wake up.                                *)
(***************************************************************************)
EXTENDS FutexMutex, TLAPS

\* Only a thread that waits at the bottom of ll_lock's loop is asleep.
SleepersRetry == \A t \in sleeping : pc[t] = "retry"

\* The inductive invariant of the specification.
FutexInv == TypeOK /\ MutualExclusion /\ SleepersRetry /\ NoLostWakeup

\* Every variable of the runtime's mutex keeps its type.
LEMMA FutexType == Spec => []TypeOK
<1>1. Init => TypeOK
  BY DEF Init, TypeOK, PC
<1>2. TypeOK /\ [Next]_vars => TypeOK'
  BY DEF TypeOK, PC, Next, Step, TryLock, Claim, FutexWait, Interrupted, Retry,
         Leave, ReadWord, Release, FutexWake, Goto, vars
<1> QED BY <1>1, <1>2, PTL DEF Spec

\* Initially nobody holds the mutex and nobody sleeps.
LEMMA FutexInit == Init => FutexInv
BY DEF Init, FutexInv, TypeOK, PC, MutualExclusion, Holds, SleepersRetry, NoLostWakeup

\* Every step of ll_lock and ll_unlock keeps the word and the owner in
\* agreement.
LEMMA FutexExclusion ==
  ASSUME TypeOK, MutualExclusion, [Next]_vars
  PROVE  MutualExclusion'
<1> USE DEF TypeOK, MutualExclusion, Holds, Goto
<1>1. ASSUME NEW t \in Threads, TryLock(t) PROVE MutualExclusion'
  BY <1>1 DEF TryLock
<1>2. ASSUME NEW t \in Threads, Claim(t) PROVE MutualExclusion'
  BY <1>2 DEF Claim
<1>3. ASSUME NEW t \in Threads, FutexWait(t) PROVE MutualExclusion'
  BY <1>3 DEF FutexWait
<1>4. ASSUME NEW t \in Threads, Interrupted(t) PROVE MutualExclusion'
  BY <1>4 DEF Interrupted
<1>5. ASSUME NEW t \in Threads, Retry(t) PROVE MutualExclusion'
  BY <1>5 DEF Retry
<1>6. ASSUME NEW t \in Threads, Leave(t) PROVE MutualExclusion'
  BY <1>6 DEF Leave
<1>7. ASSUME NEW t \in Threads, ReadWord(t) PROVE MutualExclusion'
  BY <1>7 DEF ReadWord
<1>8. ASSUME NEW t \in Threads, Release(t) PROVE MutualExclusion'
  BY <1>8 DEF Release
<1>9. ASSUME NEW t \in Threads, FutexWake(t) PROVE MutualExclusion'
  BY <1>9 DEF FutexWake
<1>10. CASE UNCHANGED vars
  BY <1>10 DEF vars
<1> QED
  BY <1>1, <1>2, <1>3, <1>4, <1>5, <1>6, <1>7, <1>8, <1>9, <1>10 DEF Next, Step

\* Every step keeps a promise for the sleepers of futex_wait.
LEMMA FutexWakeups ==
  ASSUME TypeOK, MutualExclusion, SleepersRetry, NoLostWakeup, [Next]_vars
  PROVE  SleepersRetry' /\ NoLostWakeup'
<1> DEFINE Goal == SleepersRetry' /\ NoLostWakeup'
<1> USE DEF TypeOK, SleepersRetry, NoLostWakeup, Goto
<1>1. ASSUME NEW t \in Threads, TryLock(t) PROVE Goal
  BY <1>1 DEF TryLock
<1>2. ASSUME NEW t \in Threads, Claim(t) PROVE Goal
  BY <1>2 DEF Claim
<1>3. ASSUME NEW t \in Threads, FutexWait(t) PROVE Goal
  BY <1>3 DEF FutexWait
<1>4. ASSUME NEW t \in Threads, Interrupted(t) PROVE Goal
  BY <1>4 DEF Interrupted
<1>5. ASSUME NEW t \in Threads, Retry(t) PROVE Goal
  BY <1>5 DEF Retry
<1>6. ASSUME NEW t \in Threads, Leave(t) PROVE Goal
  BY <1>6 DEF Leave
<1>7. ASSUME NEW t \in Threads, ReadWord(t) PROVE Goal
  BY <1>7 DEF ReadWord
<1>8. ASSUME NEW t \in Threads, Release(t) PROVE Goal
  BY <1>8 DEF Release, MutualExclusion, Holds
<1>9. ASSUME NEW t \in Threads, FutexWake(t) PROVE Goal
  BY <1>9 DEF FutexWake
<1>10. CASE UNCHANGED vars
  BY <1>10 DEF vars
<1> QED
  BY <1>1, <1>2, <1>3, <1>4, <1>5, <1>6, <1>7, <1>8, <1>9, <1>10 DEF Next, Step

\* The mutex of pthread.c is correct for any number of threads: the
\* conjunction below is inductive.
THEOREM FutexInvariant == Spec => []FutexInv
<1>1. FutexInv /\ TypeOK' /\ [Next]_vars => FutexInv'
  BY FutexExclusion, FutexWakeups DEF FutexInv
<1> QED BY <1>1, FutexInit, FutexType, PTL DEF Spec

\* At most one thread is between ll_lock and ll_unlock, and the futex word
\* says so.
THEOREM FutexMutualExclusion == Spec => []MutualExclusion
<1>1. FutexInv => MutualExclusion
  BY DEF FutexInv
<1> QED BY <1>1, FutexInvariant, PTL

\* No thread asleep in futex_wait is forgotten by ll_unlock.
THEOREM FutexNoLostWakeup == Spec => []NoLostWakeup
<1>1. FutexInv => NoLostWakeup
  BY DEF FutexInv
<1> QED BY <1>1, FutexInvariant, PTL
=============================================================================
