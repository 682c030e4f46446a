-------------------------- MODULE CapricaJobProofs --------------------------
(***************************************************************************)
(* Proofs about CapricaJob for any number of threads, with and without an  *)
(* exception in run().  The argument: whoever holds runningLock is inside  *)
(* tryRun, or has thrown, or has returned with hasRan set; a thread that   *)
(* was refused has seen runningLock taken; so a sleeping thread can always *)
(* point to the holder that is still going to notify it.                   *)
(***************************************************************************)
EXTENDS CapricaJob, TLAPS

\* The mutex belongs to the threads inside its critical sections.
MutexOwner ==
  \A t \in Thread : ranMutex = t <=> pc[t] \in {"running", "storeRan", "unlock", "predicate"}

\* runningLock is never given back: its owner is in tryRun or beyond it.
LockOwner ==
  /\ \A t \in Thread : InRun(t) \/ pc[t] = "thrown" => runningLock = t
  /\ \A t \in Thread : runningLock = t => InRun(t) \/ pc[t] \in {"thrown", "returned"}
  /\ hasRan => runningLock # Null

\* hasRan is stored exactly on the way from "storeRan" to "unlock".
RanStage ==
  \A t \in Thread : /\ pc[t] \in {"unlock", "notify", "returned"} => hasRan
                    /\ pc[t] \in {"lock", "running", "storeRan", "thrown"} => ~hasRan

\* A refused thread has seen runningLock taken, and a sleeping one has an owner to wake it.
RefusedSawLock ==
  \A t \in Thread :
    /\ pc[t] \in {"awaitLock", "predicate", "asleep", "refused"} => runningLock # Null
    /\ pc[t] = "asleep" => \A u \in Thread : runningLock = u => pc[u] # "returned"

IInv == TypeOK /\ MutexOwner /\ LockOwner /\ RanStage /\ RefusedSawLock

\* The inductive invariant holds initially.
LEMMA InitIInv == Init => IInv
<1> SUFFICES ASSUME Init PROVE IInv
  OBVIOUS
<1>1. \A t \in Thread : pc[t] = "testRan" /\ t # Null
  BY ThreadAssumption DEF Init
<1>2. TypeOK
  BY <1>1 DEF Init, TypeOK, PC, Thread
<1>3. MutexOwner /\ LockOwner /\ RanStage /\ RefusedSawLock
  BY <1>1 DEF Init, MutexOwner, LockOwner, RanStage, RefusedSawLock, InRun
<1> QED
  BY <1>2, <1>3 DEF IInv

\* Every step preserves the inductive invariant.
LEMMA NextIInv == IInv /\ [Next]_vars => IInv'
<1> SUFFICES ASSUME IInv, [Next]_vars PROVE IInv'
  OBVIOUS
<1> USE ThreadAssumption DEF IInv, TypeOK, MutexOwner, LockOwner, RanStage, RefusedSawLock,
                             InRun, PC, Goto, Refuse, Thread
<1>1. ASSUME NEW t \in Thread, TestRan(t) PROVE IInv'
  BY <1>1, SMTT(30) DEF TestRan
<1>2. ASSUME NEW t \in Thread, TestLock(t) PROVE IInv'
  BY <1>2, SMTT(30) DEF TestLock
<1>3. ASSUME NEW t \in Thread, TakeLock(t) PROVE IInv'
  BY <1>3, SMTT(30) DEF TakeLock
<1>4. ASSUME NEW t \in Thread, Lock(t) PROVE IInv'
  BY <1>4, SMTT(30) DEF Lock
<1>5. ASSUME NEW t \in Thread, RunReturns(t) PROVE IInv'
  BY <1>5, SMTT(30) DEF RunReturns
<1>6. ASSUME NEW t \in Thread, RunThrows(t) PROVE IInv'
  BY <1>6, SMTT(30) DEF RunThrows
<1>7. ASSUME NEW t \in Thread, StoreRan(t) PROVE IInv'
  BY <1>7, SMTT(30) DEF StoreRan
<1>8. ASSUME NEW t \in Thread, Unlock(t) PROVE IInv'
  BY <1>8, SMTT(30) DEF Unlock
<1>9. ASSUME NEW t \in Thread, NotifyAll(t) PROVE IInv'
  BY <1>9, SMTT(30) DEF NotifyAll
<1>10. ASSUME NEW t \in Thread, AwaitLock(t) PROVE IInv'
  BY <1>10, SMTT(30) DEF AwaitLock
<1>11. ASSUME NEW t \in Thread, TestPredicate(t) PROVE IInv'
  BY <1>11, SMTT(30) DEF TestPredicate
<1>12. ASSUME NEW t \in Thread, SpuriousWakeup(t) PROVE IInv'
  BY <1>12, SMTT(30) DEF SpuriousWakeup
<1>13. CASE UNCHANGED vars
  BY <1>13, SMT DEF vars
<1> QED
  BY <1>1, <1>2, <1>3, <1>4, <1>5, <1>6, <1>7, <1>8, <1>9, <1>10, <1>11, <1>12, <1>13
  DEF Next, TryRun, Await

\* The inductive invariant holds in every reachable state.
LEMMA Inductive == Spec => []IInv
  BY InitIInv, NextIInv, PTL DEF Spec

\* TypeOK, for every set of awaiting and polling threads.
THEOREM TypeCorrect == Spec => []TypeOK
  BY Inductive, PTL DEF IInv

\* Two threads are never inside run() of a job, and it is not entered again once it has run.
THEOREM RunsOnceCorrect == Spec => []RunsOnce
<1>1. IInv => RunsOnce
  BY DEF IInv, RunsOnce, LockOwner, RanStage
<1> QED
  BY <1>1, Inductive, PTL

\* await() and tryRun() report success only for a job that has run.
THEOREM ReturnMeansRanCorrect == Spec => []ReturnMeansRan
<1>1. IInv => ReturnMeansRan
  BY DEF IInv, ReturnMeansRan, RanStage
<1> QED
  BY <1>1, Inductive, PTL

\* A thread sleeping in await() always has a notifier left, unless run() threw.
THEOREM NoLostWakeupCorrect == Spec => []NoLostWakeup
<1>1. ASSUME IInv, NEW t \in Thread, pc[t] = "asleep"
      PROVE  \E u \in Thread : InRun(u) \/ pc[u] = "thrown"
  <2>1. runningLock # Null /\ \A u \in Thread : runningLock = u => pc[u] # "returned"
    BY <1>1 DEF IInv, RefusedSawLock
  <2>2. PICK u \in Thread : runningLock = u
    BY <1>1, <2>1 DEF IInv, TypeOK
  <2>3. InRun(u) \/ pc[u] = "thrown"
    BY <1>1, <2>1, <2>2 DEF IInv, LockOwner, TypeOK
  <2> QED
    BY <2>3
<1>2. IInv => NoLostWakeup
  BY <1>1 DEF NoLostWakeup
<1> QED
  BY <1>2, Inductive, PTL

\* Once run() has thrown, the job stays taken and unfinished for good.
THEOREM ThrownStays == Spec => ThrownStaysUnfinished
<1>1. ASSUME IInv, [Next]_vars, NEW t \in Thread, pc[t] = "thrown"
      PROVE  ~hasRan' /\ runningLock' = runningLock
  <2>1. runningLock = t /\ ~hasRan
    BY <1>1 DEF IInv, LockOwner, RanStage
  <2>2. \A u \in Thread : pc[u] # "storeRan"
    BY <1>1, <2>1 DEF IInv, LockOwner, InRun
  <2>3. runningLock # Null
    BY <2>1, ThreadAssumption
  <2> QED
    BY <1>1, <2>1, <2>2, <2>3
    DEF Next, TryRun, Await, TestRan, TestLock, TakeLock, Lock, RunReturns, RunThrows,
        StoreRan, Unlock, NotifyAll, AwaitLock, TestPredicate, SpuriousWakeup, vars
<1>2. IInv /\ [Next]_vars
        => [(\E t \in Thread : pc[t] = "thrown") => ~hasRan' /\ runningLock' = runningLock]_vars
  BY <1>1
<1> QED
  BY <1>2, Inductive, PTL DEF Spec, ThrownStaysUnfinished

\* The job refines the one-shot job of JobPool: it is started by one thread, once, and it
\* finishes only if its starter finishes it.
THEOREM Refinement == Spec => PoolSpec
<1> DEFINE ran == IF hasRan THEN {"job"} ELSE {}
           run == [j \in {"job"} |-> runningLock]
<1>1. Init => Pool!Init
  BY DEF Init, Pool!Init
<1>2. ASSUME IInv, [Next]_vars PROVE [Pool!Next]_(Pool!vars)
  <2> USE <1>2
  <2>1. ASSUME NEW t \in Thread, TakeLock(t), runningLock' # runningLock
        PROVE  Pool!Start(t, "job")
    BY <2>1, SMT DEF TakeLock, Pool!Start, Refuse, Goto
  <2>2. ASSUME NEW t \in Thread, StoreRan(t) PROVE Pool!Finish(t, "job")
    <3>1. runningLock = t /\ ~hasRan
      BY <2>2 DEF IInv, LockOwner, RanStage, StoreRan, InRun
    <3> QED
      BY <2>2, <3>1, SMT DEF StoreRan, Pool!Finish
  <2>3. ASSUME hasRan' = hasRan, runningLock' = runningLock PROVE UNCHANGED Pool!vars
    BY <2>3 DEF Pool!vars
  <2>4. ASSUME NEW t \in Thread, TryRun(t) \/ Await(t) \/ SpuriousWakeup(t)
        PROVE  \/ hasRan' = hasRan /\ runningLock' = runningLock
               \/ TakeLock(t) /\ runningLock' # runningLock
               \/ StoreRan(t)
    BY <2>4
    DEF TryRun, Await, TestRan, TestLock, TakeLock, Lock, RunReturns, RunThrows,
        Unlock, NotifyAll, AwaitLock, TestPredicate, SpuriousWakeup
  <2> QED
    BY <2>1, <2>2, <2>3, <2>4 DEF Next, vars, Pool!Next
<1> QED
  BY <1>1, <1>2, Inductive, PTL DEF Spec, PoolSpec, Pool!Spec
=============================================================================
