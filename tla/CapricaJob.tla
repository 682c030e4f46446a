----------------------------- MODULE CapricaJob -----------------------------
(***************************************************************************)
(* One CapricaJob shared by the threads that await() it and the workers    *)
(* that tryRun() it: the flags hasRan and runningLock, the mutex held      *)
(* across run(), and the condition variable awaiting threads sleep on.     *)
(* run() may throw: the unwinding releases the mutex and nothing else.     *)
(***************************************************************************)
CONSTANTS
  Awaiter,   \* threads that call await()
  Poller,    \* worker threads that call tryRun() and go on if it fails
  Null,
  CanThrow   \* whether run() may end in an exception

Thread == Awaiter \cup Poller

ASSUME ThreadAssumption ==
  Null \notin Thread /\ Awaiter \cap Poller = {} /\ CanThrow \in BOOLEAN

VARIABLES
  hasRan,
  runningLock,  \* the thread whose compare-exchange took it, Null while it is false
  ranMutex,     \* the owner, Null if free
  pc

vars == <<hasRan, runningLock, ranMutex, pc>>

\* "returned": await() or tryRun() came back true; "refused": tryRun() came back false
\* to a worker; "thrown": the exception left the thread.
PC == {"testRan", "testLock", "takeLock", "lock", "running", "storeRan", "unlock", "notify",
       "awaitLock", "predicate", "asleep", "returned", "refused", "thrown"}

Init ==
  /\ hasRan = FALSE /\ runningLock = Null /\ ranMutex = Null
  /\ pc = [t \in Thread |-> "testRan"]

Goto(t, l) == pc' = [pc EXCEPT ![t] = l]

\* mutant of Refuse: tryRun() reports success when it lost
RefuseAsSuccess(t) == Goto(t, "returned")

Refuse(t)  == Goto(t, IF t \in Awaiter THEN "awaitLock" ELSE "refused")

---------------------------------------------------------------------------
(* tryRun                                                                  *)

TestRan(t) ==
  /\ pc[t] = "testRan"
  /\ Goto(t, IF hasRan THEN "returned" ELSE "testLock")
  /\ UNCHANGED <<hasRan, runningLock, ranMutex>>

TestLock(t) ==
  /\ pc[t] = "testLock"
  /\ IF runningLock = Null THEN Goto(t, "takeLock") ELSE Refuse(t)
  /\ UNCHANGED <<hasRan, runningLock, ranMutex>>

\* mutant of TakeLock: a plain store instead of the compare-exchange
StoreLock(t) ==
  /\ pc[t] = "takeLock"
  /\ runningLock' = t /\ Goto(t, "lock")
  /\ UNCHANGED <<hasRan, ranMutex>>

TakeLock(t) ==
  /\ pc[t] = "takeLock"
  /\ \/ runningLock = Null /\ runningLock' = t /\ Goto(t, "lock")
     \/ runningLock # Null /\ Refuse(t) /\ UNCHANGED runningLock
  /\ UNCHANGED <<hasRan, ranMutex>>

Lock(t) ==
  /\ pc[t] = "lock" /\ ranMutex = Null
  /\ ranMutex' = t
  /\ Goto(t, "running")
  /\ UNCHANGED <<hasRan, runningLock>>

RunReturns(t) ==
  /\ pc[t] = "running"
  /\ Goto(t, "storeRan")
  /\ UNCHANGED <<hasRan, runningLock, ranMutex>>

\* mutant of RunThrows: the running lock is released
ReleaseOnThrow(t) ==
  /\ CanThrow /\ pc[t] = "running"
  /\ ranMutex' = Null /\ runningLock' = Null
  /\ Goto(t, "thrown")
  /\ UNCHANGED hasRan

\* the unique_lock is destroyed, runningLock stays taken, nobody is notified
RunThrows(t) ==
  /\ CanThrow /\ pc[t] = "running"
  /\ ranMutex' = Null
  /\ Goto(t, "thrown")
  /\ UNCHANGED <<hasRan, runningLock>>

StoreRan(t) ==
  /\ pc[t] = "storeRan"
  /\ hasRan' = TRUE
  /\ Goto(t, "unlock")
  /\ UNCHANGED <<runningLock, ranMutex>>

\* mutant of Unlock: notify_all() is forgotten
UnlockAndReturn(t) ==
  /\ pc[t] = "unlock"
  /\ ranMutex' = Null
  /\ Goto(t, "returned")
  /\ UNCHANGED <<hasRan, runningLock>>

Unlock(t) ==
  /\ pc[t] = "unlock"
  /\ ranMutex' = Null
  /\ Goto(t, "notify")
  /\ UNCHANGED <<hasRan, runningLock>>

NotifyAll(t) ==
  /\ pc[t] = "notify"
  /\ pc' = [u \in Thread |-> CASE u = t            -> "returned"
                               [] pc[u] = "asleep" -> "awaitLock"
                               [] OTHER            -> pc[u]]
  /\ UNCHANGED <<hasRan, runningLock, ranMutex>>

---------------------------------------------------------------------------
(* await, after tryRun has failed: wait(ranLock, hasRan)                   *)

AwaitLock(t) ==
  /\ pc[t] = "awaitLock" /\ ranMutex = Null
  /\ ranMutex' = t
  /\ Goto(t, "predicate")
  /\ UNCHANGED <<hasRan, runningLock>>

\* false: release the mutex and sleep, in one step; true: release it and return
TestPredicate(t) ==
  /\ pc[t] = "predicate"
  /\ ranMutex' = Null
  /\ Goto(t, IF hasRan THEN "returned" ELSE "asleep")
  /\ UNCHANGED <<hasRan, runningLock>>

SpuriousWakeup(t) ==
  /\ pc[t] = "asleep"
  /\ Goto(t, "awaitLock")
  /\ UNCHANGED <<hasRan, runningLock, ranMutex>>

TryRun(t) == \/ TestRan(t) \/ TestLock(t) \/ TakeLock(t) \/ Lock(t) \/ RunReturns(t)
             \/ RunThrows(t) \/ StoreRan(t) \/ Unlock(t) \/ NotifyAll(t)
Await(t)  == AwaitLock(t) \/ TestPredicate(t)

Next == \E t \in Thread : TryRun(t) \/ Await(t) \/ SpuriousWakeup(t)

Spec == Init /\ [][Next]_vars

\* Threads are scheduled and run() ends; a mutex that is released over and over is
\* eventually obtained.  No wakeup is owed to a thread nobody notifies.
FairSpec == /\ Spec
            /\ \A t \in Thread : WF_vars(TryRun(t)) /\ SF_vars(Lock(t)) /\ SF_vars(Await(t))

---------------------------------------------------------------------------
(* Properties                                                              *)

TypeOK ==
  /\ hasRan \in BOOLEAN
  /\ runningLock \in Thread \cup {Null} /\ ranMutex \in Thread \cup {Null}
  /\ pc \in [Thread -> PC]
  /\ \A t \in Awaiter : pc[t] # "refused"
  /\ \A t \in Poller : pc[t] \notin {"awaitLock", "predicate", "asleep"}

\* Threads between their compare-exchange of runningLock and the end of tryRun.
InRun(t) == pc[t] \in {"lock", "running", "storeRan", "unlock", "notify"}

\* Two threads never both get through to run(), and run() is never entered again once
\* hasRan is stored (tryRun, "We deliberately never release the running lock").
RunsOnce ==
  /\ \A t, u \in Thread : InRun(t) /\ InRun(u) => t = u
  /\ hasRan => \A t \in Thread : pc[t] \notin {"lock", "running"}

\* await() and a true tryRun() come back only after the job has run to its end: no
\* thread reads the results of a job that is still running, or that threw.
ReturnMeansRan == \A t \in Thread : pc[t] = "returned" => hasRan

\* A thread sleeps on ranCondition only while somebody is still going to notify it, or
\* after the job threw: there is no lost wakeup between the test of hasRan and the sleep.
NoLostWakeup ==
  \A t \in Thread : pc[t] = "asleep" =>
    \E u \in Thread : InRun(u) \/ pc[u] = "thrown"

\* Every await() returns, unless run() throws.
EveryAwaitReturns ==
  \A t \in Awaiter : <>(pc[t] = "returned" \/ \E u \in Thread : pc[u] = "thrown")

\* After an exception the job stays taken and unfinished: no later call runs it again or
\* returns from it.
ThrownStaysUnfinished == [][(\E t \in Thread : pc[t] = "thrown") => ~hasRan' /\ runningLock' = runningLock]_vars

\* Seen from outside, runningLock and hasRan behave as the one-shot job of JobPool.
Pool == INSTANCE JobPool WITH
          Job <- {"job"}, Deps <- [j \in {"job"} |-> {}], submitted <- {"job"},
          runner <- [j \in {"job"} |-> runningLock],
          hasRan <- IF hasRan THEN {"job"} ELSE {}
PoolSpec == Pool!Spec
=============================================================================
