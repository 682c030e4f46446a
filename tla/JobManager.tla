---------------------------- MODULE JobManager ----------------------------
(***************************************************************************)
(* CapricaJobManager: the lock-free queue of jobs, the worker loop that    *)
(* drains it, the shutdown protocol, and the main thread that fills it.    *)
(*                                                                         *)
(* Every access to a shared atomic is a step of its own, except that a     *)
(* CapricaJob's tryRun() claims the job in one step (module CapricaJob     *)
(* shows why that is sound).  Atomics are sequentially consistent.  A      *)
(* timed wait on the condition variable may return at any time (100 ms     *)
(* timeout, notification, spurious wakeup), so notify_* changes no state.  *)
(***************************************************************************)
EXTENDS Integers, Sequences, FiniteSets

CONSTANTS
  Job,        \* the jobs of the program, not counting the queue's own defaultJob
  DefaultJob, \* CapricaJobManager::defaultJob, the node the queue starts with
  Null,       \* nullptr
  Main,       \* the thread of main() or compileFromSource()
  Worker,     \* the threads startup() creates: none when not compiling in parallel
  Early,      \* the readJobs, queued by the constructors of the nodes
  Awaited,    \* the Early jobs main awaits before it compiles (RenameImports, awaitRead)
  Lazy,       \* the readJobs of lazy imports, queued by main while it runs another job
  Deps,       \* Deps[j]: the jobs that j's run() awaits
  Fails       \* the jobs whose run() may throw: scripts that may have errors

Thread == Worker \cup {Main}
Node   == Job \cup {DefaultJob}
Late   == Job \ (Early \cup Lazy)   \* the writeJobs doCompile queues

ASSUME ConstantsAssumption ==
  /\ DefaultJob \notin Job /\ Null \notin Node \cup Thread
  /\ Main \notin Worker /\ IsFiniteSet(Worker)
  /\ Awaited \subseteq Early /\ Early \subseteq Job
  /\ Lazy \subseteq Job /\ Lazy \cap Early = {}
  /\ Deps \in [Node -> SUBSET Job] /\ Deps[DefaultJob] = {}
  /\ Fails \subseteq Job

VARIABLES
  front, back, next,    \* the queue: CapricaJobManager::front and back, CapricaJob::next
  queuedItemCount, waiterCount, workerCount, stopWorkers, queueInitialized,
  runner,               \* the thread that took a job's runningLock, Null if none
  hasRan,               \* the jobs whose run() has returned
  calls,                \* the jobs whose run() a thread is inside of, innermost first
  failing,              \* the jobs whose run() throws: the scripts that do have errors
  pc, fron, nxt,        \* program counter and the locals of tryDeque
  waitersSeen,          \* the waiterCount a thread read in its shutdown test
  adding,               \* main's argument of queueJob, Null outside of it
  oldBack, counted,     \* the local of queueJob, and whether it has incremented the count
  added,                \* history: the jobs whose queueJob has taken its place in the queue
  passed,               \* history: the nodes that have been the front and no longer are
  drained               \* history: drained[t] is passed when t last found the queue empty

queue   == <<front, back, next, queuedItemCount, added, passed>>
control == <<waiterCount, workerCount, stopWorkers, queueInitialized>>
jobs    == <<runner, hasRan, calls, failing>>
locals  == <<fron, nxt, waitersSeen, drained>>
adder   == <<adding, oldBack, counted>>
vars    == <<queue, control, jobs, pc, locals, adder>>

Init ==
  /\ front = DefaultJob /\ back = DefaultJob /\ next = [n \in Node |-> Null]
  /\ queuedItemCount = 0 /\ added = {} /\ passed = {}
  /\ waiterCount = 0 /\ workerCount = 0
  /\ stopWorkers = FALSE /\ queueInitialized = FALSE
  /\ runner = [n \in Node |-> Null] /\ hasRan = {} /\ calls = [t \in Thread |-> <<>>]
  /\ failing \in SUBSET Fails
  /\ pc = [t \in Thread |-> IF t = Main THEN "parse" ELSE "unborn"]
  /\ fron = [t \in Thread |-> Null] /\ nxt = [t \in Thread |-> Null]
  /\ waitersSeen = [t \in Thread |-> 0] /\ drained = [t \in Thread |-> {}]
  /\ adding = Null /\ oldBack = Null /\ counted = FALSE

\* The process lives until main returns or an exception ends it.
Alive == pc[Main] # "exited" /\ \A t \in Thread : pc[t] # "failed"

\* t is not in the middle of queueJob, which only main calls.
Free(t) == Alive /\ (t = Main => adding = Null)

Goto(t, l) == pc' = [pc EXCEPT ![t] = l]
At(t, l)   == Free(t) /\ pc[t] = l

---------------------------------------------------------------------------
(* CapricaJob: claiming and running a job.                                 *)

Claim(t, j) ==
  /\ runner[j] = Null
  /\ runner' = [runner EXCEPT ![j] = t]
  /\ calls' = [calls EXCEPT ![t] = <<j>> \o @]
  /\ UNCHANGED <<hasRan, failing>>

\* t is inside run() of j, and of no job that j awaits
Inside(t, j) == calls[t] # <<>> /\ j = Head(calls[t])

\* run() awaits another job: tryRun() of await() may claim it here
AwaitInRun(t, j, k) ==
  /\ Free(t) /\ Inside(t, j)
  /\ k \in Deps[j] /\ (k \in Lazy => k \in added) /\ Claim(t, k)
  /\ UNCHANGED <<queue, control, pc, locals, adder>>

\* mutant of FinishRun: run() does not wait for what it awaits
FinishEarly(t, j) ==
  /\ Free(t) /\ Inside(t, j) /\ j \notin failing
  /\ hasRan' = hasRan \cup {j}
  /\ calls' = [calls EXCEPT ![t] = Tail(@)]
  /\ pc' = IF calls'[t] = <<>> /\ pc[t] = "run" THEN [pc EXCEPT ![t] = "deque"] ELSE pc
  /\ UNCHANGED <<runner, failing, queue, control, locals, adder>>

\* run() returns, hasRan is stored.  Whatever it awaited has run.
FinishRun(t, j) ==
  /\ Free(t) /\ Inside(t, j) /\ Deps[j] \subseteq hasRan /\ j \notin failing
  /\ hasRan' = hasRan \cup {j}
  /\ calls' = [calls EXCEPT ![t] = Tail(@)]
  /\ pc' = IF calls'[t] = <<>> /\ pc[t] = "run" THEN [pc EXCEPT ![t] = "deque"] ELSE pc
  /\ UNCHANGED <<runner, failing, queue, control, locals, adder>>

\* mutant of FailRun: the worker catches the exception and carries on
SwallowFailure(t, j) ==
  /\ Free(t) /\ Inside(t, j) /\ Deps[j] \subseteq hasRan /\ j \in failing
  /\ hasRan' = hasRan \cup {j} /\ calls' = [calls EXCEPT ![t] = <<>>]
  /\ Goto(t, "deque")
  /\ UNCHANGED <<runner, failing, queue, control, locals, adder>>

\* run() throws.  Nothing catches it in a pool thread (std::terminate) nor in the import
\* phase; around doCompile main catches it and returns -1.
FailRun(t, j) ==
  /\ Free(t) /\ Inside(t, j) /\ Deps[j] \subseteq hasRan /\ j \in failing
  /\ Goto(t, "failed")
  /\ UNCHANGED <<jobs, queue, control, locals, adder>>

---------------------------------------------------------------------------
(* queueJob, called by main only.  The compare-exchange loop on back is an *)
(* atomic exchange: a failed attempt only reloads oldBack.                 *)

ExchangeBack(j) ==
  /\ j \notin added
  /\ adding' = j /\ oldBack' = back /\ counted' = FALSE
  /\ back' = j /\ added' = added \cup {j}
  /\ UNCHANGED <<front, next, queuedItemCount, passed, control, jobs, pc, locals>>

QueueEarly == At(Main, "parse") /\ \E j \in Early : ExchangeBack(j)
QueueLate  == At(Main, "compile") /\ \E j \in Late : ExchangeBack(j)

\* tryFindType asks the script provider in the middle of main's semantic job
QueueLazy ==
  /\ Free(Main)
  /\ \E j \in Node : Inside(Main, j) /\ \E k \in Deps[j] \cap Lazy : ExchangeBack(k)

CountQueued ==
  /\ Alive /\ adding # Null /\ ~counted
  /\ queuedItemCount' = queuedItemCount + 1
  /\ counted' = TRUE
  /\ UNCHANGED <<front, back, next, added, passed, control, jobs, pc, locals, adding, oldBack>>

\* mutant of LinkQueued: the job is linked before it is counted
LinkUncounted ==
  /\ Alive /\ adding # Null
  /\ next' = [next EXCEPT ![oldBack] = adding]
  /\ adding' = Null /\ oldBack' = Null /\ counted' = FALSE
  /\ UNCHANGED <<front, back, queuedItemCount, added, passed, control, jobs, pc, locals>>

LinkQueued ==
  /\ Alive /\ adding # Null /\ counted
  /\ next' = [next EXCEPT ![oldBack] = adding]
  /\ adding' = Null /\ oldBack' = Null /\ counted' = FALSE
  /\ UNCHANGED <<front, back, queuedItemCount, added, passed, control, jobs, pc, locals>>

---------------------------------------------------------------------------
(* main(): command line, startup, RenameImports, doCompile, awaitShutdown. *)

\* startup(): defaultJob.await(), then the threads.  Not called for a serial compile.
Startup ==
  /\ At(Main, "parse") /\ Early \subseteq added /\ Worker # {}
  /\ hasRan' = hasRan \cup {DefaultJob}
  /\ runner' = [runner EXCEPT ![DefaultJob] = Main]
  /\ pc' = [t \in Thread |-> IF t = Main THEN "import" ELSE "start"]
  /\ UNCHANGED <<calls, failing, queue, control, locals, adder>>

SkipStartup ==
  /\ At(Main, "parse") /\ Early \subseteq added /\ Worker = {}
  /\ Goto(Main, "import")
  /\ UNCHANGED <<queue, control, jobs, locals, adder>>

\* RenameImports and awaitRead: main awaits reads of its own accord, outside the queue
AwaitImport ==
  /\ At(Main, "import") /\ calls[Main] = <<>>
  /\ \E j \in Awaited : Claim(Main, j)
  /\ UNCHANGED <<queue, control, pc, locals, adder>>

BeginCompile ==
  /\ At(Main, "import") /\ calls[Main] = <<>> /\ Awaited \subseteq hasRan
  /\ Goto(Main, "compile")
  /\ UNCHANGED <<queue, control, jobs, locals, adder>>

\* mutant of SetQueueInitialized: enjoin() without it
EnjoinOnly ==
  /\ At(Main, "compile") /\ Late \subseteq added
  /\ Goto(Main, "start")
  /\ UNCHANGED <<queue, control, jobs, locals, adder>>

\* setQueueInitialized(), then enjoin() runs main as a worker
SetQueueInitialized ==
  /\ At(Main, "compile") /\ Late \subseteq added
  /\ queueInitialized' = TRUE
  /\ Goto(Main, "start")
  /\ UNCHANGED <<queue, waiterCount, workerCount, stopWorkers, jobs, locals, adder>>

\* mutant of AwaitShutdown: main does not wait for the workers
ReturnAtOnce ==
  /\ At(Main, "done")
  /\ Goto(Main, "exited")
  /\ UNCHANGED <<queue, control, jobs, locals, adder>>

\* awaitShutdown() polls workerCount every 20 ms; then main returns and the process ends
AwaitShutdown ==
  /\ At(Main, "done") /\ workerCount = 0
  /\ Goto(Main, "exited")
  /\ UNCHANGED <<queue, control, jobs, locals, adder>>

---------------------------------------------------------------------------
(* tryDeque                                                                *)

LoadFront(t) ==
  /\ At(t, "deque")
  /\ fron' = [fron EXCEPT ![t] = front]
  /\ Goto(t, IF front = Null THEN "testStop" ELSE "loadNext")
  /\ UNCHANGED <<queue, control, jobs, nxt, waitersSeen, drained, adder>>

\* mutant of LoadNext: a queue of one node counts as empty
LastIsEmpty(t) ==
  /\ At(t, "loadNext")
  /\ nxt' = [nxt EXCEPT ![t] = next[fron[t]]]
  /\ Goto(t, IF next[fron[t]] = Null THEN "testStop" ELSE "advance")
  /\ UNCHANGED <<queue, control, jobs, fron, waitersSeen, drained, adder>>

LoadNext(t) ==
  /\ At(t, "loadNext")
  /\ nxt' = [nxt EXCEPT ![t] = next[fron[t]]]
  /\ Goto(t, IF next[fron[t]] = Null THEN "testRan" ELSE "advance")
  /\ UNCHANGED <<queue, control, jobs, fron, waitersSeen, drained, adder>>

\* mutant of Advance: the nullptr that was put into front stays there
AdvanceKeepNull(t) ==
  /\ At(t, "advance") /\ front = fron[t]
  /\ front' = nxt[t]
  /\ passed' = IF nxt[t] = Null THEN passed ELSE passed \cup {fron[t]}
  /\ Goto(t, IF nxt[t] = Null THEN "testRan" ELSE "uncount")
  /\ UNCHANGED <<back, next, queuedItemCount, added, control, jobs, locals, adder>>

\* the compare-exchange succeeds; nxt may be the nullptr of a reload
Advance(t) ==
  /\ At(t, "advance") /\ front = fron[t]
  /\ front' = nxt[t]
  /\ passed' = IF nxt[t] = Null THEN passed ELSE passed \cup {fron[t]}
  /\ Goto(t, IF nxt[t] = Null THEN "restore" ELSE "uncount")
  /\ UNCHANGED <<back, next, queuedItemCount, added, control, jobs, locals, adder>>

\* mutant of AdvanceFails: the retry keeps the next it had
RetryStale(t) ==
  /\ At(t, "advance") /\ front # fron[t]
  /\ fron' = [fron EXCEPT ![t] = front]
  /\ Goto(t, IF front = Null THEN "testStop" ELSE "advance")
  /\ UNCHANGED <<queue, control, jobs, nxt, waitersSeen, drained, adder>>

\* ... or fails and loads the front another thread has put there
AdvanceFails(t) ==
  /\ At(t, "advance") /\ front # fron[t]
  /\ fron' = [fron EXCEPT ![t] = front]
  /\ Goto(t, IF front = Null THEN "testStop" ELSE "reload")
  /\ UNCHANGED <<queue, control, jobs, nxt, waitersSeen, drained, adder>>

Reload(t) ==
  /\ At(t, "reload")
  /\ nxt' = [nxt EXCEPT ![t] = next[fron[t]]]
  /\ Goto(t, "advance")
  /\ UNCHANGED <<queue, control, jobs, fron, waitersSeen, drained, adder>>

Restore(t) ==
  /\ At(t, "restore")
  /\ front' = IF front = Null THEN fron[t] ELSE front
  /\ Goto(t, "testRan")
  /\ UNCHANGED <<back, next, queuedItemCount, added, passed, control, jobs, locals, adder>>

Uncount(t) ==
  /\ At(t, "uncount")
  /\ queuedItemCount' = queuedItemCount - 1
  /\ Goto(t, "testRan")
  /\ UNCHANGED <<front, back, next, added, passed, control, jobs, locals, adder>>

\* tryDeque returns the node that was the front, unless it has run
TestRan(t) ==
  /\ At(t, "testRan")
  /\ Goto(t, IF fron[t] \in hasRan THEN "testStop" ELSE "tryRun")
  /\ UNCHANGED <<queue, control, jobs, locals, adder>>

---------------------------------------------------------------------------
(* workerMain                                                              *)

StartWorker(t) ==
  /\ At(t, "start")
  /\ workerCount' = workerCount + 1
  /\ Goto(t, "deque")
  /\ UNCHANGED <<queue, waiterCount, stopWorkers, queueInitialized, jobs, locals, adder>>

TryRun(t) ==
  /\ At(t, "tryRun")
  /\ \/ Claim(t, fron[t]) /\ Goto(t, "run")
     \/ runner[fron[t]] # Null /\ Goto(t, "deque") /\ UNCHANGED jobs
  /\ UNCHANGED <<queue, control, locals, adder>>

TestStop(t) ==
  /\ At(t, "testStop")
  /\ Goto(t, IF stopWorkers THEN "leave" ELSE "testCount")
  /\ UNCHANGED <<queue, control, jobs, locals, adder>>

TestCount(t) ==
  /\ At(t, "testCount")
  /\ Goto(t, IF queuedItemCount = 0 THEN "testInit" ELSE "wait")
  /\ drained' = IF queuedItemCount = 0 THEN [drained EXCEPT ![t] = passed] ELSE drained
  /\ UNCHANGED <<queue, control, jobs, fron, nxt, waitersSeen, adder>>

TestInitialized(t) ==
  /\ At(t, "testInit")
  /\ Goto(t, IF queueInitialized THEN "loadWaiters" ELSE "wait")
  /\ UNCHANGED <<queue, control, jobs, locals, adder>>

LoadWaiters(t) ==
  /\ At(t, "loadWaiters")
  /\ waitersSeen' = [waitersSeen EXCEPT ![t] = waiterCount]
  /\ Goto(t, "testLast")
  /\ UNCHANGED <<queue, control, jobs, fron, nxt, drained, adder>>

\* mutant of TestLast: any thread that finds the queue empty may stop the others
AlwaysLast(t) ==
  /\ At(t, "testLast")
  /\ Goto(t, "stop")
  /\ UNCHANGED <<queue, control, jobs, locals, adder>>

TestLast(t) ==
  /\ At(t, "testLast")
  /\ Goto(t, IF waitersSeen[t] = workerCount - 1 THEN "stop" ELSE "wait")
  /\ UNCHANGED <<queue, control, jobs, locals, adder>>

StopWorkers(t) ==
  /\ At(t, "stop")
  /\ stopWorkers' = TRUE
  /\ Goto(t, "leave")
  /\ UNCHANGED <<queue, waiterCount, workerCount, queueInitialized, jobs, locals, adder>>

\* mutant of Leave: workerCount is not decremented
LeaveUncounted(t) ==
  /\ At(t, "leave")
  /\ Goto(t, "done")
  /\ UNCHANGED <<queue, control, jobs, locals, adder>>

Leave(t) ==
  /\ At(t, "leave")
  /\ workerCount' = workerCount - 1
  /\ Goto(t, "done")
  /\ UNCHANGED <<queue, waiterCount, stopWorkers, queueInitialized, jobs, locals, adder>>

BeginWait(t) ==
  /\ At(t, "wait")
  /\ waiterCount' = waiterCount + 1
  /\ Goto(t, "waiting")
  /\ UNCHANGED <<queue, workerCount, stopWorkers, queueInitialized, jobs, locals, adder>>

EndWait(t) ==
  /\ At(t, "waiting")
  /\ waiterCount' = waiterCount - 1
  /\ Goto(t, "deque")
  /\ UNCHANGED <<queue, workerCount, stopWorkers, queueInitialized, jobs, locals, adder>>

---------------------------------------------------------------------------

MainStep == \/ QueueEarly \/ QueueLate \/ QueueLazy \/ CountQueued \/ LinkQueued
            \/ Startup \/ SkipStartup \/ AwaitImport \/ BeginCompile
            \/ SetQueueInitialized \/ AwaitShutdown

TryDeque(t) == \/ LoadFront(t) \/ LoadNext(t) \/ Advance(t) \/ AdvanceFails(t)
               \/ Reload(t) \/ Restore(t) \/ Uncount(t) \/ TestRan(t)

WorkerMain(t) == \/ StartWorker(t) \/ TryRun(t) \/ TestStop(t) \/ TestCount(t)
                 \/ TestInitialized(t) \/ LoadWaiters(t) \/ TestLast(t)
                 \/ StopWorkers(t) \/ Leave(t) \/ BeginWait(t) \/ EndWait(t)

RunJob(t) == \E j \in Node : FinishRun(t, j) \/ FailRun(t, j) \/ \E k \in Deps[j] : AwaitInRun(t, j, k)

Next == \/ MainStep
        \/ \E t \in Thread : TryDeque(t) \/ WorkerMain(t) \/ RunJob(t)

Spec == Init /\ [][Next]_vars

\* A started thread keeps being scheduled, a run() that waits for nothing returns,
\* and a timed wait times out.
Fairness == /\ WF_vars(MainStep)
            /\ \A t \in Thread : WF_vars(TryDeque(t) \/ WorkerMain(t) \/ RunJob(t))

FairSpec == Spec /\ Fairness

---------------------------------------------------------------------------
(* Properties                                                              *)

PC == {"unborn", "parse", "import", "compile", "start", "deque", "loadNext", "advance",
       "reload", "restore", "uncount", "testRan", "tryRun", "run", "testStop", "testCount",
       "testInit", "loadWaiters", "testLast", "stop", "leave", "wait", "waiting", "done",
       "exited", "failed"}

TypeOK ==
  /\ front \in Node \cup {Null} /\ back \in Node /\ next \in [Node -> Job \cup {Null}]
  /\ queuedItemCount \in Int /\ added \subseteq Job /\ passed \subseteq Node
  /\ waiterCount \in Int /\ workerCount \in Int
  /\ stopWorkers \in BOOLEAN /\ queueInitialized \in BOOLEAN
  /\ runner \in [Node -> Thread \cup {Null}] /\ hasRan \subseteq Node /\ failing \subseteq Fails
  /\ calls \in [Thread -> Seq(Node)]
  /\ pc \in [Thread -> PC]
  /\ fron \in [Thread -> Node \cup {Null}] /\ nxt \in [Thread -> Job \cup {Null}]
  /\ waitersSeen \in [Thread -> Int] /\ drained \in [Thread -> SUBSET Node]
  /\ adding \in Job \cup {Null} /\ oldBack \in Node \cup {Null} /\ counted \in BOOLEAN

\* tryDeque, "We can only have managed to do this ourselves, nothing else will write while
\* front is still nullptr": front is nullptr exactly while one thread is about to put its
\* node back, so that thread's second compare-exchange always succeeds.
NullFrontOwned ==
  /\ front = Null <=> \E t \in Thread : pc[t] = "restore"
  /\ \A t, u \in Thread : pc[t] = "restore" /\ pc[u] = "restore" => t = u

\* The front only moves down the list: a node it has left never becomes the front again,
\* neither by a stale compare-exchange nor by putting a node back.
FrontNeverReturns == front \notin passed

\* Between the steps of queueJob and tryDeque the counter is the number of nodes behind
\* the front; in the middle of them it is off by exactly the threads that are in the middle.
\* The counter is a size_t: it must not be decremented before it was incremented.
QueueAccounting ==
  /\ queuedItemCount = Cardinality(added) - Cardinality(passed)
                       - (IF adding # Null /\ ~counted THEN 1 ELSE 0)
                       + Cardinality({t \in Thread : pc[t] = "uncount"})
  /\ queuedItemCount >= 0

\* The thread that stops the others has found the queue empty before; every job that had
\* left the queue by then has run to its end, even those that other threads took.
DrainedJobsRan ==
  \A t \in Thread : pc[t] = "stop" /\ ~stopWorkers => drained[t] \subseteq hasRan

\* main returns (and the process ends) only when no thread is in the middle of a job.
ExitQuiescent == pc[Main] = "exited" => \A j \in Node : runner[j] # Null => j \in hasRan

\* A script that fails fails the compile: main does not return success after its run() threw.
NoFalseSuccess == pc[Main] = "exited" => \A j \in failing : runner[j] = Null

\* When the compiler exits, every queued job has run: no script given to it is skipped
\* (main_options.cpp, "only Papyrus script files (*.psc) in it will be compiled").
NoJobAbandoned == pc[Main] = "exited" => Job \subseteq hasRan

\* Once stopWorkers is set every thread leaves workerMain and main returns, unless a job throws.
StopEnds == stopWorkers ~> ~Alive

\* A serial compile ends.
CompileEnds == <>(pc[Main] = "exited")

\* The queue, the workers and the shutdown implement the job system of JobPool.
Pool == INSTANCE JobPool WITH Job <- Node, submitted <- added \cup {DefaultJob}
PoolSpec == Pool!Spec
===========================================================================
