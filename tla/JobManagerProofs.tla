-------------------------- MODULE JobManagerProofs --------------------------
(***************************************************************************)
(* Proofs about JobManager for any jobs and any number of worker threads.  *)
(*                                                                         *)
(* The queue is a list that only grows at its back.  Its nodes before the  *)
(* front are "passed".  The invariant says that the links are injective,   *)
(* that a node not linked yet is at the back and nowhere else, and that    *)
(* the passed nodes are closed under predecessors; then a compare-exchange *)
(* that succeeds can only move the front one node down the list, whatever  *)
(* stale values the threads hold.                                          *)
(* From that invariant follow that the queue, the workers and the shutdown *)
(* implement JobPool and, in the last part, what the counters are worth.   *)
(***************************************************************************)
EXTENDS JobManager, FiniteSetTheorems, TLAPS

---------------------------------------------------------------------------
(* The inductive invariant                                                 *)

Queued == added \cup {DefaultJob}

\* Every node has at most one predecessor, and a job being added has none yet.
Links ==
  /\ back \in Queued /\ next[back] = Null
  /\ \A n \in Node : next[n] # Null => next[n] \in added /\ next[n] # adding
  /\ \A n, m \in Node : next[n] = next[m] /\ next[n] # Null => n = m
  /\ \A n \in Node : n \notin Queued => next[n] = Null

\* In the middle of queueJob the job is the back, and the old back is not linked to it.
Adding ==
  adding # Null => /\ adding = back /\ adding \in added
                   /\ oldBack \in Queued /\ oldBack # back /\ next[oldBack] = Null

\* The node at the front of the list: front, or what a thread is about to put back there.
IsFront(n) == front = n \/ \E t \in Thread : pc[t] = "restore" /\ fron[t] = n

FrontQueued == \A n \in Node : IsFront(n) => n \in Queued /\ n # adding

\* The passed nodes are the ones before the front.
PassedBehind ==
  /\ \A n \in Node : IsFront(n) => n \notin passed
  /\ \A n \in passed : next[n] # Null
  /\ \A n \in Node : next[n] \in passed => n \in passed
  /\ \A n \in Node : next[n] # Null /\ IsFront(next[n]) => n \in passed

\* From LoadFront to the end of the job a thread holds a node of the queue, and the next it
\* is going to store was read from that node.
HoldPC == {"loadNext", "advance", "reload", "restore", "uncount", "testRan", "tryRun", "run"}

Locals ==
  \A t \in Thread : /\ pc[t] \in HoldPC => fron[t] \in Queued
                    /\ pc[t] = "advance" => nxt[t] \in {Null, next[fron[t]]}

QueueInv == Links /\ Adding /\ NullFrontOwned /\ FrontQueued /\ PassedBehind /\ Locals

\* A thread is inside a job only where workerMain or the import phase has called it, and the
\* workers are born together.
Calling ==
  /\ \A t \in Thread : calls[t] # <<>> => pc[t] \in {"run", "failed"} \/ (t = Main /\ pc[t] = "import")
  /\ pc[Main] = "parse" => \A t \in Worker : pc[t] = "unborn"
  /\ pc[Main] # "unborn" /\ \A t \in Worker : pc[t] \notin {"parse", "import", "compile", "exited"}

IInv == TypeOK /\ Calling /\ QueueInv

---------------------------------------------------------------------------
(* Types                                                                   *)

\* Consequences of the assumption on the constants.
LEMMA ConstantFacts ==
  /\ Main \in Thread /\ Null \notin Node /\ Null \notin Thread /\ Job \subseteq Node
  /\ DefaultJob \in Node /\ Early \subseteq Job /\ Late \subseteq Job /\ Lazy \subseteq Job
  /\ \A j \in Node : Deps[j] \subseteq Job
  BY ConstantsAssumption DEF Thread, Node, Late

\* The inductive invariant holds initially.
LEMMA InitIInv == Init => IInv
<1> SUFFICES ASSUME Init PROVE IInv
  OBVIOUS
<1> USE ConstantFacts
<1>1. TypeOK
  <2>1. /\ pc \in [Thread -> PC] /\ calls \in [Thread -> Seq(Node)]
        /\ next \in [Node -> Job \cup {Null}] /\ runner \in [Node -> Thread \cup {Null}]
    BY DEF Init, PC
  <2>2. /\ fron \in [Thread -> Node \cup {Null}] /\ nxt \in [Thread -> Job \cup {Null}]
        /\ waitersSeen \in [Thread -> Int] /\ drained \in [Thread -> SUBSET Node]
    BY DEF Init
  <2> QED
    BY <2>1, <2>2 DEF Init, TypeOK
<1>2. \A t \in Thread : pc[t] \in {"parse", "unborn"}
  BY DEF Init
<1>3. Links /\ Adding
  BY SMT DEF Init, Links, Adding, Queued
<1>4. NullFrontOwned /\ Locals
  BY <1>2 DEF Init, NullFrontOwned, Locals, HoldPC
<1>5. FrontQueued /\ PassedBehind
  BY <1>2 DEF Init, FrontQueued, PassedBehind, IsFront, Queued
<1>6. Calling
  <2>1. pc[Main] = "parse" /\ \A t \in Worker : pc[t] = "unborn"
    BY ConstantsAssumption DEF Init, Thread
  <2>2. \A t \in Thread : calls[t] = <<>>
    BY DEF Init
  <2> QED
    BY <2>1, <2>2 DEF Calling
<1> QED
  BY <1>1, <1>3, <1>4, <1>5, <1>6 DEF IInv, QueueInv

\* A thread that reads or stores through its local fron has a node there.
LEMMA HeldIsNode ==
  ASSUME IInv, NEW t \in Thread, pc[t] \in HoldPC PROVE fron[t] \in Node
  BY ConstantFacts DEF IInv, QueueInv, Locals, Queued, TypeOK

\* The steps of main preserve the types.
LEMMA MainTypes == IInv /\ MainStep => TypeOK'
<1> SUFFICES ASSUME IInv, MainStep PROVE TypeOK'
  OBVIOUS
<1> TypeOK
  BY DEF IInv
<1> USE ConstantFacts DEF TypeOK, PC
<1>1. ASSUME NEW j \in Job, ExchangeBack(j) PROVE TypeOK'
  BY <1>1 DEF ExchangeBack, control, jobs, locals
<1>2. CASE QueueEarly
  BY <1>2, <1>1 DEF QueueEarly
<1>3. CASE QueueLate
  BY <1>3, <1>1 DEF QueueLate
<1>4. CASE QueueLazy
  BY <1>4, <1>1 DEF QueueLazy
<1>5. CASE CountQueued
  BY <1>5 DEF CountQueued, control, jobs, locals
<1>6. CASE LinkQueued
  BY <1>6 DEF LinkQueued, control, jobs, locals
<1>7. CASE Startup
  BY <1>7 DEF Startup, queue, control, locals, adder
<1>8. CASE SkipStartup
  BY <1>8 DEF SkipStartup, Goto, queue, control, jobs, locals, adder
<1>9. CASE AwaitImport
  <2> PICK j \in Awaited : Claim(Main, j)
    BY <1>9 DEF AwaitImport
  <2> j \in Node
    BY ConstantsAssumption
  <2> QED
    BY <1>9 DEF AwaitImport, Claim, queue, control, locals, adder
<1>10. CASE BeginCompile
  BY <1>10 DEF BeginCompile, Goto, queue, control, jobs, locals, adder
<1>11. CASE SetQueueInitialized
  BY <1>11 DEF SetQueueInitialized, Goto, queue, jobs, locals, adder
<1>12. CASE AwaitShutdown
  BY <1>12 DEF AwaitShutdown, Goto, queue, control, jobs, locals, adder
<1> QED
  BY <1>2, <1>3, <1>4, <1>5, <1>6, <1>7, <1>8, <1>9, <1>10, <1>11, <1>12 DEF MainStep

\* The steps of tryDeque preserve the types.
LEMMA TryDequeTypes == ASSUME IInv, NEW t \in Thread, TryDeque(t) PROVE TypeOK'
<1> TypeOK
  BY DEF IInv
<1> USE ConstantFacts DEF TypeOK, PC, Goto, At
<1>1. CASE LoadFront(t)
  BY <1>1 DEF LoadFront, queue, control, jobs, adder
<1>2. CASE LoadNext(t)
  BY <1>2, HeldIsNode DEF LoadNext, HoldPC, queue, control, jobs, adder
<1>3. CASE Advance(t)
  <2>1. fron[t] \in Node
    BY <1>3, HeldIsNode DEF Advance, HoldPC
  <2> QED
    BY <1>3, <2>1 DEF Advance, control, jobs, locals, adder
<1>4. CASE AdvanceFails(t)
  BY <1>4 DEF AdvanceFails, queue, control, jobs, adder
<1>5. CASE Reload(t)
  BY <1>5, HeldIsNode DEF Reload, HoldPC, queue, control, jobs, adder
<1>6. CASE Restore(t)
  BY <1>6 DEF Restore, control, jobs, locals, adder
<1>7. CASE Uncount(t)
  BY <1>7 DEF Uncount, control, jobs, locals, adder
<1>8. CASE TestRan(t)
  BY <1>8 DEF TestRan, queue, control, jobs, locals, adder
<1> QED
  BY <1>1, <1>2, <1>3, <1>4, <1>5, <1>6, <1>7, <1>8 DEF TryDeque

\* The steps of workerMain preserve the types.
LEMMA WorkerMainTypes == ASSUME IInv, NEW t \in Thread, WorkerMain(t) PROVE TypeOK'
<1> TypeOK
  BY DEF IInv
<1> USE ConstantFacts DEF TypeOK, PC, Goto, At
<1>1. CASE StartWorker(t)
  BY <1>1 DEF StartWorker, queue, jobs, locals, adder
<1>2. CASE TryRun(t)
  <2>1. fron[t] \in Node
    BY <1>2, HeldIsNode DEF TryRun, HoldPC
  <2>2. CASE Claim(t, fron[t]) /\ Goto(t, "run")
    BY <1>2, <2>1, <2>2 DEF TryRun, Claim, queue, control, locals, adder
  <2>3. CASE Goto(t, "deque") /\ UNCHANGED jobs
    BY <1>2, <2>3 DEF TryRun, jobs, queue, control, locals, adder
  <2> QED
    BY <1>2, <2>2, <2>3 DEF TryRun
<1>3. CASE TestStop(t)
  BY <1>3 DEF TestStop, queue, control, jobs, locals, adder
<1>4. CASE TestCount(t)
  BY <1>4 DEF TestCount, queue, control, jobs, adder
<1>5. CASE TestInitialized(t)
  BY <1>5 DEF TestInitialized, queue, control, jobs, locals, adder
<1>6. CASE LoadWaiters(t)
  BY <1>6 DEF LoadWaiters, queue, control, jobs, adder
<1>7. CASE TestLast(t)
  BY <1>7 DEF TestLast, queue, control, jobs, locals, adder
<1>8. CASE StopWorkers(t)
  BY <1>8 DEF StopWorkers, queue, jobs, locals, adder
<1>9. CASE Leave(t)
  BY <1>9 DEF Leave, queue, jobs, locals, adder
<1>10. CASE BeginWait(t)
  BY <1>10 DEF BeginWait, queue, jobs, locals, adder
<1>11. CASE EndWait(t)
  BY <1>11 DEF EndWait, queue, jobs, locals, adder
<1> QED
  BY <1>1, <1>2, <1>3, <1>4, <1>5, <1>6, <1>7, <1>8, <1>9, <1>10, <1>11 DEF WorkerMain

\* The steps inside run() preserve the types.
LEMMA RunJobTypes == ASSUME IInv, NEW t \in Thread, RunJob(t) PROVE TypeOK'
<1> TypeOK
  BY DEF IInv
<1> USE ConstantFacts DEF TypeOK, PC, Goto
<1>1. ASSUME NEW j \in Node, FinishRun(t, j) PROVE TypeOK'
  BY <1>1 DEF FinishRun, Inside, queue, control, locals, adder
<1>2. ASSUME NEW j \in Node, FailRun(t, j) PROVE TypeOK'
  BY <1>2 DEF FailRun, queue, control, jobs, locals, adder
<1>3. ASSUME NEW j \in Node, NEW k \in Deps[j], AwaitInRun(t, j, k) PROVE TypeOK'
  BY <1>3 DEF AwaitInRun, Claim, queue, control, locals, adder
<1> QED
  BY <1>1, <1>2, <1>3 DEF RunJob

\* Every step preserves the types.
LEMMA NextTypes == IInv /\ [Next]_vars => TypeOK'
<1> SUFFICES ASSUME IInv, [Next]_vars PROVE TypeOK'
  OBVIOUS
<1>1. CASE UNCHANGED vars
  BY <1>1 DEF IInv, TypeOK, vars, queue, control, jobs, locals, adder
<1> QED
  BY <1>1, MainTypes, TryDequeTypes, WorkerMainTypes, RunJobTypes DEF Next

---------------------------------------------------------------------------
(* Preservation of the queue's invariant                                   *)

\* A step that leaves the queue, its adder and the locals of tryDeque alone, and moves no
\* thread into tryDeque's loop, preserves the invariant.
LEMMA QuietStep ==
  ASSUME IInv, TypeOK',
         UNCHANGED <<front, back, next, added, passed, adding, oldBack, fron, nxt>>,
         \A t \in Thread : /\ pc'[t] \in HoldPC => pc[t] \in HoldPC
                           /\ pc'[t] = "advance" => pc[t] = "advance"
                           /\ pc'[t] = "restore" <=> pc[t] = "restore"
  PROVE  QueueInv'
<1> USE DEF IInv, QueueInv
<1>1. Links' /\ Adding'
  BY DEF Links, Adding, Queued
<1>2. NullFrontOwned'
  BY DEF NullFrontOwned
<1>3. \A n \in Node : IsFront(n)' <=> IsFront(n)
  BY DEF IsFront
<1>4. FrontQueued' /\ PassedBehind'
  <2>1. FrontQueued'
    BY <1>3 DEF FrontQueued, Queued
  <2>2. \A n \in Node : next[n] # Null => (IsFront(next[n])' <=> IsFront(next[n]))
    BY <1>3, ConstantFacts DEF TypeOK
  <2>3. PassedBehind'
    BY <1>3, <2>2 DEF PassedBehind
  <2> QED
    BY <2>1, <2>3
<1>5. Locals'
  BY DEF Locals, Queued
<1> QED
  BY <1>1, <1>2, <1>4, <1>5

\* queueJob takes a fresh job's place at the back.
LEMMA ExchangeBackStep ==
  ASSUME IInv, TypeOK', NEW j \in Job, ExchangeBack(j), adding = Null PROVE QueueInv'
<1> USE ConstantFacts, ConstantsAssumption DEF IInv, QueueInv, TypeOK, ExchangeBack
<1>1. j \notin Queued /\ j # back /\ next[j] = Null /\ j \in Node
  BY DEF Queued, Links
<1>2. Links'
  BY <1>1 DEF Links, Queued
<1>3. Adding'
  BY <1>1 DEF Adding, Links, Queued
<1>4. NullFrontOwned' /\ Locals'
  BY DEF NullFrontOwned, Locals, Queued, locals
<1>5. \A n : IsFront(n)' <=> IsFront(n)
  BY DEF IsFront, locals
<1>6. FrontQueued'
  BY <1>1, <1>5 DEF FrontQueued, Queued
<1>7. PassedBehind'
  BY <1>5 DEF PassedBehind
<1> QED
  BY <1>2, <1>3, <1>4, <1>6, <1>7

\* queueJob links the job behind the node it has displaced from the back.
LEMMA LinkQueuedStep == ASSUME IInv, TypeOK', LinkQueued PROVE QueueInv'
<1> USE ConstantFacts, ConstantsAssumption DEF IInv, QueueInv, TypeOK, LinkQueued
<1>1. /\ adding = back /\ adding \in added /\ oldBack \in Node /\ oldBack # back
      /\ next[oldBack] = Null /\ next[back] = Null /\ adding \in Job /\ oldBack \in Queued
  BY DEF Adding, Links, Queued
<1>2. \A n \in Node : next'[n] = IF n = oldBack THEN adding ELSE next[n]
  OBVIOUS
<1>3. Links'
  BY <1>1, <1>2 DEF Links, Queued
<1>4. Adding' /\ NullFrontOwned'
  BY DEF Adding, NullFrontOwned
<1>5. \A n : IsFront(n)' <=> IsFront(n)
  BY DEF IsFront, locals
<1>6. FrontQueued'
  BY <1>5 DEF FrontQueued, Queued
<1>7. PassedBehind'
  <2>1. adding \notin passed /\ ~IsFront(adding)
    BY <1>1 DEF PassedBehind, FrontQueued
  <2> QED
    BY <1>1, <1>2, <1>5, <2>1 DEF PassedBehind
<1>8. Locals'
  BY <1>1, <1>2 DEF Locals, Queued, locals
<1> QED
  BY <1>3, <1>4, <1>6, <1>7, <1>8

\* The compare-exchange moves the front to its successor.
LEMMA AdvanceStep == ASSUME IInv, TypeOK', NEW t \in Thread, Advance(t), nxt[t] # Null PROVE QueueInv'
<1> USE ConstantFacts DEF IInv, QueueInv, TypeOK, Advance, At
<1> DEFINE n == fron[t]
           m == nxt[t]
<1>1. n \in Node /\ n \in Queued /\ m = next[n] /\ m \in Job /\ front = n /\ front # Null
  BY HeldIsNode DEF Locals, HoldPC
<1>2. \A u \in Thread : pc[u] # "restore"
  BY <1>1 DEF NullFrontOwned
<1>3. \A u \in Thread : pc'[u] = IF u = t THEN "uncount" ELSE pc[u]
  BY DEF Goto
<1>4. \A k : IsFront(k)' <=> k = m
  BY <1>2, <1>3 DEF IsFront
<1>5. n \notin passed /\ IsFront(n)
  BY <1>1 DEF PassedBehind, IsFront
<1>6. Links' /\ Adding'
  BY DEF Links, Adding, Queued, adder
<1>7. NullFrontOwned'
  BY <1>1, <1>2, <1>3 DEF NullFrontOwned
<1>8. FrontQueued'
  BY <1>1, <1>4 DEF FrontQueued, Links, Queued, adder
<1>9. PassedBehind'
  <2>1. passed' = passed \cup {n}
    OBVIOUS
  <2>2. m \notin passed'
    BY <1>1, <1>5, <2>1 DEF PassedBehind
  <2>3. \A k \in Node : next[k] \in passed' => k \in passed'
    BY <1>1, <1>5, <2>1 DEF PassedBehind
  <2>4. \A k \in Node : next[k] = m => k = n
    BY <1>1 DEF Links
  <2> QED
    BY <1>1, <1>4, <2>1, <2>2, <2>3, <2>4 DEF PassedBehind
<1>10. Locals'
  BY <1>3 DEF Locals, HoldPC, Queued, locals
<1> QED
  BY <1>6, <1>7, <1>8, <1>9, <1>10

\* The compare-exchange puts the nullptr of a reload into front: the node stays the front.
LEMMA TakeFrontStep == ASSUME IInv, TypeOK', NEW t \in Thread, Advance(t), nxt[t] = Null PROVE QueueInv'
<1> USE ConstantFacts DEF IInv, QueueInv, TypeOK, Advance, At
<1>1. fron[t] \in Node /\ fron[t] \in Queued /\ front = fron[t] /\ front # Null
  BY HeldIsNode DEF Locals, HoldPC
<1>2. \A u \in Thread : pc[u] # "restore"
  BY <1>1 DEF NullFrontOwned
<1>3. \A u \in Thread : pc'[u] = IF u = t THEN "restore" ELSE pc[u]
  BY DEF Goto
<1>4. \A k \in Node : IsFront(k)' <=> IsFront(k)
  BY <1>1, <1>2, <1>3 DEF IsFront, locals
<1>5. Links' /\ Adding'
  BY DEF Links, Adding, Queued, adder
<1>6. NullFrontOwned'
  BY <1>1, <1>2, <1>3 DEF NullFrontOwned
<1>7. FrontQueued' /\ PassedBehind'
  <2>1. FrontQueued'
    BY <1>4 DEF FrontQueued, Queued, adder
  <2>2. \A k \in Node : next[k] # Null => (IsFront(next[k])' <=> IsFront(next[k]))
    BY <1>4
  <2>3. PassedBehind'
    BY <1>4, <2>2 DEF PassedBehind
  <2> QED
    BY <2>1, <2>3
<1>8. Locals'
  BY <1>1, <1>3 DEF Locals, HoldPC, Queued, locals
<1> QED
  BY <1>5, <1>6, <1>7, <1>8

\* The second compare-exchange puts the node back.
LEMMA RestoreStep == ASSUME IInv, TypeOK', NEW t \in Thread, Restore(t) PROVE QueueInv'
<1> USE ConstantFacts DEF IInv, QueueInv, TypeOK, Restore, At
<1>1. front = Null /\ front' = fron[t] /\ fron[t] \in Node
  BY HeldIsNode DEF NullFrontOwned, HoldPC
<1>2. \A u \in Thread : pc[u] = "restore" => u = t
  BY DEF NullFrontOwned
<1>3. \A u \in Thread : pc'[u] = IF u = t THEN "testRan" ELSE pc[u]
  BY DEF Goto
<1>4. \A k \in Node : IsFront(k)' <=> IsFront(k)
  BY <1>1, <1>2, <1>3 DEF IsFront, locals
<1>5. Links' /\ Adding'
  BY DEF Links, Adding, Queued, adder
<1>6. NullFrontOwned'
  BY <1>1, <1>2, <1>3 DEF NullFrontOwned
<1>7. FrontQueued' /\ PassedBehind'
  <2>1. FrontQueued'
    BY <1>4 DEF FrontQueued, Queued, adder
  <2>2. \A k \in Node : next[k] # Null => (IsFront(next[k])' <=> IsFront(next[k]))
    BY <1>4
  <2>3. PassedBehind'
    BY <1>4, <2>2 DEF PassedBehind
  <2> QED
    BY <2>1, <2>3
<1>8. Locals'
  BY <1>3 DEF Locals, HoldPC, Queued, locals
<1> QED
  BY <1>5, <1>6, <1>7, <1>8

\* A step that only reads the front or a next into t's locals preserves the invariant, if
\* what it read is what the program counter then says about the locals.
LEMMA LoadStep ==
  ASSUME IInv, TypeOK', NEW t \in Thread,
         UNCHANGED <<front, back, next, added, passed, adding, oldBack>>,
         pc[t] # "restore", pc'[t] # "restore",
         \A u \in Thread \ {t} : pc'[u] = pc[u] /\ fron'[u] = fron[u] /\ nxt'[u] = nxt[u],
         pc'[t] \in HoldPC => fron'[t] \in Queued,
         pc'[t] = "advance" => nxt'[t] \in {Null, next[fron'[t]]}
  PROVE  QueueInv'
<1> USE ConstantFacts DEF IInv, QueueInv
<1>1. Links' /\ Adding'
  BY DEF Links, Adding, Queued
<1>2. NullFrontOwned'
  BY DEF NullFrontOwned
<1>3. \A k : IsFront(k)' <=> IsFront(k)
  BY DEF IsFront
<1>4. FrontQueued' /\ PassedBehind'
  BY <1>3 DEF FrontQueued, PassedBehind, Queued
<1>5. Locals'
  BY DEF Locals, Queued
<1> QED
  BY <1>1, <1>2, <1>4, <1>5

\* The steps of main preserve the invariant.
LEMMA MainStepInv == IInv /\ MainStep => QueueInv'
<1> SUFFICES ASSUME IInv, MainStep PROVE QueueInv'
  OBVIOUS
<1> TypeOK /\ TypeOK'
  BY MainTypes DEF IInv
<1> USE ConstantFacts
<1>1. CASE QueueEarly \/ QueueLate \/ QueueLazy
  BY <1>1, ExchangeBackStep DEF QueueEarly, QueueLate, QueueLazy, At, Free
<1>2. CASE LinkQueued
  BY <1>2, LinkQueuedStep
<1>3. CASE CountQueued
  BY <1>3, QuietStep DEF CountQueued, locals
<1>4. CASE Startup
  <2>1. \A t \in Thread : pc[t] \in {"parse", "unborn"}
    BY <1>4 DEF Startup, At, IInv, Calling, Thread
  <2>2. \A t \in Thread : pc'[t] \in {"import", "start"}
    BY <1>4 DEF Startup
  <2> QED
    BY <1>4, <2>1, <2>2, QuietStep DEF Startup, queue, locals, adder, HoldPC
<1>5. CASE SkipStartup \/ AwaitImport \/ BeginCompile \/ SetQueueInitialized \/ AwaitShutdown
  <2>1. UNCHANGED <<queue, locals, adder>> /\ pc[Main] \in {"parse", "import", "compile", "done"}
    BY <1>5
    DEF SkipStartup, AwaitImport, BeginCompile, SetQueueInitialized, AwaitShutdown, At, queue
  <2>2. \/ pc' = pc
        \/ \E l \in {"import", "compile", "start", "exited"} : pc' = [pc EXCEPT ![Main] = l]
    BY <1>5
    DEF SkipStartup, AwaitImport, BeginCompile, SetQueueInitialized, AwaitShutdown, Goto
  <2>3. \A t \in Thread : pc'[t] \in HoldPC \/ pc[t] \in HoldPC => pc'[t] = pc[t]
    BY <2>1, <2>2 DEF TypeOK, HoldPC
  <2> QED
    BY <2>1, <2>3, QuietStep DEF queue, locals, adder, HoldPC
<1> QED
  BY <1>1, <1>2, <1>3, <1>4, <1>5 DEF MainStep

\* The steps of tryDeque preserve the invariant.
LEMMA TryDequeInv == ASSUME IInv, NEW t \in Thread, TryDeque(t) PROVE QueueInv'
<1> TypeOK /\ TypeOK'
  BY TryDequeTypes DEF IInv
<1> USE DEF At, Goto, TypeOK
<1>1. CASE LoadFront(t)
  <2>1. front # Null => front \in Queued
    BY DEF IInv, QueueInv, FrontQueued, IsFront
  <2>2. pc'[t] \in {"testStop", "loadNext"} /\ (pc'[t] = "loadNext" => fron'[t] \in Queued)
    BY <1>1, <2>1 DEF LoadFront
  <2> QED
    BY <1>1, <2>2, LoadStep DEF LoadFront, queue, adder, HoldPC
<1>2. CASE LoadNext(t)
  <2>1. fron[t] \in Queued
    BY <1>2 DEF LoadNext, IInv, QueueInv, Locals, HoldPC
  <2> QED
    BY <1>2, <2>1, LoadStep DEF LoadNext, queue, adder, HoldPC
<1>3. CASE Advance(t)
  BY <1>3, AdvanceStep, TakeFrontStep
<1>4. CASE AdvanceFails(t)
  <2>1. front # Null => front \in Queued
    BY DEF IInv, QueueInv, FrontQueued, IsFront
  <2>2. pc'[t] \in {"testStop", "reload"} /\ (pc'[t] = "reload" => fron'[t] \in Queued)
    BY <1>4, <2>1 DEF AdvanceFails
  <2> QED
    BY <1>4, <2>2, LoadStep DEF AdvanceFails, queue, adder, HoldPC
<1>5. CASE Reload(t)
  <2>1. fron[t] \in Queued
    BY <1>5 DEF Reload, IInv, QueueInv, Locals, HoldPC
  <2> QED
    BY <1>5, <2>1, LoadStep DEF Reload, queue, adder, HoldPC
<1>6. CASE Restore(t)
  BY <1>6, RestoreStep
<1>7. CASE Uncount(t)
  BY <1>7, QuietStep DEF Uncount, locals, adder, HoldPC
<1>8. CASE TestRan(t)
  BY <1>8, QuietStep DEF TestRan, queue, locals, adder, HoldPC
<1> QED
  BY <1>1, <1>2, <1>3, <1>4, <1>5, <1>6, <1>7, <1>8 DEF TryDeque

\* The other steps of workerMain preserve the invariant: they do not touch the queue.
LEMMA WorkerMainInv == ASSUME IInv, NEW t \in Thread, WorkerMain(t) PROVE QueueInv'
<1> TypeOK /\ TypeOK'
  BY WorkerMainTypes DEF IInv
<1> DEFINE Steps == {"start", "tryRun", "testStop", "testCount", "testInit", "loadWaiters",
                     "testLast", "stop", "leave", "wait", "waiting"}
           Ends  == {"deque", "run", "testCount", "testInit", "loadWaiters", "testLast", "stop",
                     "leave", "wait", "waiting", "done"}
<1>1. UNCHANGED <<queue, fron, nxt, adder>> /\ pc[t] \in Steps
  BY DEF WorkerMain, StartWorker, TryRun, TestStop, TestCount, TestInitialized, LoadWaiters,
         TestLast, StopWorkers, Leave, BeginWait, EndWait, At, queue, locals
<1>2. \E l \in Ends : pc' = [pc EXCEPT ![t] = l]
  BY DEF WorkerMain, StartWorker, TryRun, TestStop, TestCount, TestInitialized, LoadWaiters,
         TestLast, StopWorkers, Leave, BeginWait, EndWait, Goto
<1>3. pc'[t] = "run" => pc[t] = "tryRun"
  BY DEF WorkerMain, StartWorker, TryRun, TestStop, TestCount, TestInitialized, LoadWaiters,
         TestLast, StopWorkers, Leave, BeginWait, EndWait, Goto, At, TypeOK
<1> QED
  BY <1>1, <1>2, <1>3, QuietStep DEF queue, adder, HoldPC, TypeOK

\* The steps inside run() preserve the invariant.
LEMMA RunJobInv == ASSUME IInv, NEW t \in Thread, RunJob(t) PROVE QueueInv'
<1> TypeOK /\ TypeOK'
  BY RunJobTypes DEF IInv
<1> USE ConstantFacts DEF TypeOK, HoldPC
<1>1. ASSUME NEW j \in Node, FinishRun(t, j) PROVE QueueInv'
  BY <1>1, QuietStep DEF FinishRun, queue, locals, adder
<1>2. ASSUME NEW j \in Node, FailRun(t, j) PROVE QueueInv'
  <2>1. pc[t] \notin HoldPC \/ pc[t] = "run"
    BY <1>2 DEF FailRun, Inside, IInv, Calling
  <2> QED
    BY <1>2, <2>1, QuietStep DEF FailRun, Goto, queue, locals, adder
<1>3. ASSUME NEW j \in Node, NEW k \in Deps[j], AwaitInRun(t, j, k) PROVE QueueInv'
  BY <1>3, QuietStep DEF AwaitInRun, queue, locals, adder
<1> QED
  BY <1>1, <1>2, <1>3 DEF RunJob

---------------------------------------------------------------------------
(* Threads and the jobs they are inside of                                 *)

\* A step of t changes no other thread's calls and program counter, and leaves t inside a
\* call only where it may be: it preserves Calling.
LEMMA CallingStep ==
  ASSUME IInv, NEW t \in Thread, pc[t] # "unborn",
         \A u \in Thread : u # t => pc'[u] = pc[u] /\ calls'[u] = calls[u],
         pc'[t] \notin {"unborn", "parse"},
         t = Main \/ pc'[t] \notin {"import", "compile", "exited"},
         calls'[t] = <<>> \/ pc'[t] \in {"run", "failed"} \/ (t = Main /\ pc'[t] = "import")
  PROVE  Calling'
<1> USE ConstantFacts DEF IInv
<1>1. ASSUME NEW u \in Thread, calls'[u] # <<>>
      PROVE  pc'[u] \in {"run", "failed"} \/ (u = Main /\ pc'[u] = "import")
  <2>1. CASE u = t
    BY <1>1, <2>1
  <2>2. CASE u # t
    BY <1>1, <2>2 DEF Calling
  <2> QED
    BY <2>1, <2>2
<1>2. ASSUME pc'[Main] = "parse", NEW u \in Worker PROVE pc'[u] = "unborn"
  <2>1. t # Main /\ pc[Main] = "parse"
    BY <1>2
  <2>2. t \in Worker
    BY <2>1 DEF Thread
  <2> QED
    BY <2>1, <2>2 DEF Calling
<1>3. pc'[Main] # "unborn"
  BY DEF Calling
<1>4. ASSUME NEW u \in Worker PROVE pc'[u] \notin {"parse", "import", "compile", "exited"}
  <2>1. u \in Thread /\ u # Main
    BY ConstantsAssumption DEF Thread
  <2> QED
    BY <2>1 DEF Calling
<1> QED
  BY <1>1, <1>2, <1>3, <1>4 DEF Calling

\* Every step preserves Calling.
LEMMA NextCalling == IInv /\ [Next]_vars => Calling'
<1> SUFFICES ASSUME IInv, [Next]_vars PROVE Calling'
  OBVIOUS
<1> USE ConstantFacts
<1>a. /\ Calling /\ pc \in [Thread -> PC] /\ calls \in [Thread -> Seq(Node)]
  BY DEF IInv, TypeOK
<1>1. ASSUME MainStep PROVE Calling'
  <2>1. CASE QueueEarly \/ QueueLate \/ QueueLazy \/ CountQueued \/ LinkQueued
    <3>1. pc' = pc /\ calls' = calls
      BY <2>1 DEF QueueEarly, QueueLate, QueueLazy, CountQueued, LinkQueued, ExchangeBack, jobs
    <3> QED
      BY <1>a, <3>1 DEF Calling
  <2>2. CASE Startup
    <3>1. \A t \in Thread : calls'[t] = <<>>
      BY <1>a, <2>2 DEF Startup, At, Calling, Thread
    <3>2. pc'[Main] = "import" /\ \A t \in Worker : pc'[t] = "start"
      BY <1>a, <2>2, ConstantsAssumption DEF Startup, Thread
    <3> QED
      BY <1>a, <3>1, <3>2 DEF Calling
  <2>3. CASE AwaitImport
    <3>1. pc' = pc /\ pc[Main] = "import" /\ \A t \in Thread \ {Main} : calls'[t] = calls[t]
      BY <2>3 DEF AwaitImport, Claim, At
    <3> QED
      BY <1>a, <3>1 DEF Calling
  <2>4. CASE SkipStartup \/ BeginCompile \/ SetQueueInitialized \/ AwaitShutdown
    <3>1. \E l \in {"import", "compile", "start", "exited"} : pc' = [pc EXCEPT ![Main] = l]
      BY <1>a, <2>4 DEF SkipStartup, BeginCompile, SetQueueInitialized, AwaitShutdown, Goto
    <3>2. calls' = calls /\ calls[Main] = <<>> /\ pc[Main] # "unborn"
      BY <1>a, <2>4 DEF SkipStartup, BeginCompile, SetQueueInitialized, AwaitShutdown, At, jobs, Calling
    <3>3. /\ pc'[Main] \in {"import", "compile", "start", "exited"}
          /\ \A u \in Thread : u # Main => pc'[u] = pc[u] /\ calls'[u] = calls[u]
          /\ calls'[Main] = <<>>
      BY <1>a, <3>1, <3>2
    <3> QED
      BY <1>a, <3>2, <3>3, CallingStep
  <2> QED
    BY <1>1, <2>1, <2>2, <2>3, <2>4 DEF MainStep
<1>2. ASSUME NEW t \in Thread, TryDeque(t) PROVE Calling'
  <2>1. \E l \in {"testStop", "loadNext", "testRan", "advance", "restore", "uncount", "reload",
                  "tryRun"} : pc' = [pc EXCEPT ![t] = l]
    BY <1>a, <1>2 DEF TryDeque, LoadFront, LoadNext, Advance, AdvanceFails, Reload, Restore, Uncount,
                TestRan, Goto
  <2>2. calls' = calls /\ pc[t] \notin {"run", "import", "unborn", "failed"}
    BY <1>a, <1>2 DEF TryDeque, LoadFront, LoadNext, Advance, AdvanceFails, Reload, Restore, Uncount,
                TestRan, At, jobs
  <2> QED
    BY <1>a, <2>1, <2>2, CallingStep DEF PC, Calling
<1>3. ASSUME NEW t \in Thread, WorkerMain(t) PROVE Calling'
  <2>1. CASE TryRun(t) /\ Goto(t, "run")
    <3>1. \A u \in Thread : u # t => calls'[u] = calls[u] /\ pc'[u] = pc[u]
      BY <1>a, <2>1 DEF TryRun, Claim, Goto, jobs
    <3>2. pc'[t] = "run" /\ pc[t] = "tryRun"
      BY <1>a, <2>1 DEF TryRun, Goto, At
    <3> QED
      BY <1>a, <3>1, <3>2, CallingStep
  <2>2. CASE ~(TryRun(t) /\ Goto(t, "run"))
    <3>1. \E l \in {"deque", "testCount", "testInit", "loadWaiters", "testLast", "stop",
                    "leave", "wait", "waiting", "done"} : pc' = [pc EXCEPT ![t] = l]
      BY <1>a, <1>3, <2>2
      DEF WorkerMain, StartWorker, TryRun, TestStop, TestCount, TestInitialized, LoadWaiters,
          TestLast, StopWorkers, Leave, BeginWait, EndWait, Goto
    <3>2. calls' = calls /\ pc[t] \notin {"run", "import", "unborn", "failed"}
      BY <1>a, <1>3, <2>2
      DEF WorkerMain, StartWorker, TryRun, TestStop, TestCount, TestInitialized, LoadWaiters,
          TestLast, StopWorkers, Leave, BeginWait, EndWait, At, jobs
    <3> QED
      BY <1>a, <3>1, <3>2, CallingStep DEF PC, Calling
  <2> QED
    BY <2>1, <2>2
<1>4. ASSUME NEW t \in Thread, NEW j \in Node, FinishRun(t, j) PROVE Calling'
  <2>1. \A u \in Thread : u # t => calls'[u] = calls[u] /\ pc'[u] = pc[u]
    BY <1>a, <1>4 DEF FinishRun
  <2>2. pc[t] = "run" \/ (t = Main /\ pc[t] = "import")
    BY <1>a, <1>4 DEF FinishRun, Inside, Calling, Free, Alive
  <2>3. pc'[t] = pc[t] \/ (pc'[t] = "deque" /\ calls'[t] = <<>>)
    BY <1>a, <1>4 DEF FinishRun
  <2> QED
    BY <1>a, <2>1, <2>2, <2>3, CallingStep
<1>5. ASSUME NEW t \in Thread, NEW j \in Node, FailRun(t, j) PROVE Calling'
  <2>1. pc[t] # "unborn"
    BY <1>a, <1>5 DEF FailRun, Inside, Calling
  <2> QED
    BY <1>a, <1>5, <2>1, CallingStep DEF FailRun, Goto, PC, jobs
<1>6. ASSUME NEW t \in Thread, NEW j \in Node, NEW k \in Deps[j], AwaitInRun(t, j, k) PROVE Calling'
  <2>1. pc' = pc /\ calls[t] # <<>> /\ \A u \in Thread : u # t => calls'[u] = calls[u]
    BY <1>a, <1>6 DEF AwaitInRun, Inside, Claim
  <2> QED
    BY <1>a, <2>1 DEF Calling
<1>7. CASE UNCHANGED vars
  BY <1>a, <1>7 DEF Calling, vars, jobs
<1> QED
  BY <1>1, <1>2, <1>3, <1>4, <1>5, <1>6, <1>7 DEF Next, RunJob

\* Every step preserves the inductive invariant.
LEMMA NextIInv == IInv /\ [Next]_vars => IInv'
<1> SUFFICES ASSUME IInv, [Next]_vars PROVE IInv'
  OBVIOUS
<1>1. CASE UNCHANGED vars
  <2>1. UNCHANGED <<front, back, next, added, passed, adding, oldBack, fron, nxt, pc>>
    BY <1>1 DEF vars, queue, locals, adder
  <2> QED
    BY <2>1, NextTypes, NextCalling, QuietStep DEF IInv
<1>2. CASE Next
  BY <1>2, NextTypes, NextCalling, MainStepInv, TryDequeInv, WorkerMainInv, RunJobInv DEF Next, IInv
<1> QED
  BY <1>1, <1>2

\* The inductive invariant holds in every reachable state.
LEMMA Inductive == Spec => []IInv
  BY InitIInv, NextIInv, PTL DEF Spec

---------------------------------------------------------------------------
(* Theorems                                                                *)

\* TypeOK, for any jobs and threads.
THEOREM TypeCorrect == Spec => []TypeOK
  BY Inductive, PTL DEF IInv

\* front is nullptr exactly while one thread is about to put its node back.
THEOREM NullFrontCorrect == Spec => []NullFrontOwned
  BY Inductive, PTL DEF IInv, QueueInv

\* A node that has left the front of the queue never becomes the front again.
THEOREM FrontCorrect == Spec => []FrontNeverReturns
<1>1. IInv => FrontNeverReturns
  <2> SUFFICES ASSUME IInv, front \in passed PROVE FALSE
    BY DEF FrontNeverReturns
  <2>1. front \in Node
    BY DEF IInv, TypeOK
  <2> QED
    BY <2>1 DEF IInv, QueueInv, PassedBehind, IsFront
<1> QED
  BY <1>1, Inductive, PTL

-----------------------------------------------------------------------------
(* JobManager implements JobPool: whatever the queue and the shutdown      *)
(* protocol do, a job is claimed once, by a thread that was given it by    *)
(* the queue or whose running job awaits it, and finishes after what it    *)
(* awaits.  On top of the invariant above this needs the call stacks: a    *)
(* thread is inside exactly the jobs it claimed and has not finished.      *)
(* With workerCount being the number of threads in workerMain it also      *)
(* gives what main's return means: nobody is inside a job.                 *)

Frames(t) == 1 .. Len(calls[t])

\* A thread is inside the jobs it has claimed and not finished, each of them once.
Claims ==
  /\ \A t \in Thread : \A i \in Frames(t) :
       /\ runner[calls[t][i]] = t /\ calls[t][i] \notin hasRan
       /\ \A k \in Frames(t) : calls[t][i] = calls[t][k] => i = k
  /\ \A j \in Node : runner[j] # Null /\ j \notin hasRan =>
       \E i \in Frames(runner[j]) : calls[runner[j]][i] = j
  /\ \A j \in hasRan : runner[j] # Null

\* Nothing is claimed before startup, and the reads are queued before main awaits them.
Phase ==
  /\ pc[Main] = "parse" => hasRan = {} /\ \A j \in Node : runner[j] = Null
  /\ pc[Main] = "import" => Early \subseteq added

RInv == IInv /\ Claims /\ Phase

\* What pushing a call does to a stack.
LEMMA Push ==
  ASSUME NEW s \in Seq(Node), NEW j \in Node
  PROVE  LET p == <<j>> \o s
         IN  /\ p \in Seq(Node) /\ Len(p) = Len(s) + 1 /\ p[1] = j
             /\ \A i \in 1 .. Len(s) : p[i + 1] = s[i]
  OBVIOUS

\* What popping a call does to a stack.
LEMMA Pop ==
  ASSUME NEW s \in Seq(Node), s # <<>>
  PROVE  /\ Tail(s) \in Seq(Node) /\ Len(Tail(s)) = Len(s) - 1 /\ Len(s) \in Nat \ {0}
         /\ Head(s) = s[1] /\ \A i \in 1 .. Len(s) - 1 : Tail(s)[i] = s[i + 1]
  OBVIOUS

\* Claiming a job enters it.
LEMMA ClaimStep ==
  ASSUME RInv, TypeOK', NEW t \in Thread, NEW j \in Node, Claim(t, j)
  PROVE  Claims'
<1> USE ConstantFacts DEF RInv, IInv, TypeOK, Claim
<1>1. /\ calls'[t] = <<j>> \o calls[t] /\ \A u \in Thread : u # t => calls'[u] = calls[u]
      /\ runner[j] = Null /\ runner'[j] = t /\ \A k \in Node : k # j => runner'[k] = runner[k]
      /\ hasRan' = hasRan
  OBVIOUS
<1>2. /\ Len(calls[t]) \in Nat /\ Len(calls'[t]) = Len(calls[t]) + 1 /\ calls'[t][1] = j
      /\ \A i \in 1 .. Len(calls[t]) : calls'[t][i + 1] = calls[t][i]
  BY <1>1, Push
<1>3. \A u \in Thread : \A i \in Frames(u) : calls[u][i] \in Node /\ calls[u][i] # j
  BY <1>1 DEF Claims, Frames
<1>4. j \notin hasRan
  BY <1>1 DEF Claims
<1>5. ASSUME NEW u \in Thread, NEW i \in Frames(u)'
      PROVE  /\ runner'[calls'[u][i]] = u /\ calls'[u][i] \notin hasRan'
             /\ \A k \in Frames(u)' : calls'[u][i] = calls'[u][k] => i = k
  <2>1. CASE u # t
    <3>1. Frames(u)' = Frames(u) /\ calls'[u] = calls[u]
      BY <1>1, <2>1 DEF Frames
    <3> QED
      BY <1>1, <1>3, <1>5, <3>1 DEF Claims
  <2>2. CASE u = t
    <3>1. \A k \in Frames(t)' : k = 1 \/ (k - 1 \in Frames(t) /\ calls'[t][k] = calls[t][k - 1])
      BY <1>2 DEF Frames
    <3>2. ASSUME NEW k \in Frames(t)', k # 1
          PROVE  /\ k - 1 \in Frames(t) /\ calls'[t][k] = calls[t][k - 1]
                 /\ calls'[t][k] \in Node /\ calls'[t][k] # j
      <4>1. k - 1 \in Frames(t) /\ calls'[t][k] = calls[t][k - 1]
        BY <3>1, <3>2
      <4>2. calls[t][k - 1] \in Node /\ calls[t][k - 1] # j
        BY <1>3, <4>1
      <4> QED
        BY <4>1, <4>2
    <3>3. runner'[calls'[t][i]] = t /\ calls'[t][i] \notin hasRan'
      <4>1. CASE i = 1
        BY <1>1, <1>2, <1>4, <4>1
      <4>2. CASE i # 1
        <5>1. i \in Frames(t)'
          BY <1>5, <2>2
        <5>2. i - 1 \in Frames(t) /\ calls'[t][i] = calls[t][i - 1] /\ calls'[t][i] \in Node /\ calls'[t][i] # j
          BY <3>2, <4>2, <5>1
        <5>3. runner[calls[t][i - 1]] = t /\ calls[t][i - 1] \notin hasRan
          BY <5>2 DEF Claims
        <5> QED
          BY <1>1, <5>2, <5>3
      <4> QED
        BY <4>1, <4>2
    <3>4. ASSUME NEW k \in Frames(t)', calls'[t][i] = calls'[t][k] PROVE i = k
      <4>0. i \in Frames(t)' /\ calls'[t][1] = j
        BY <1>2, <1>5, <2>2
      <4>1. CASE i = 1 \/ k = 1
        BY <3>2, <3>4, <4>0, <4>1
      <4>2. CASE i # 1 /\ k # 1
        <5>1. i - 1 \in Frames(t) /\ k - 1 \in Frames(t) /\ calls[t][i - 1] = calls[t][k - 1]
          BY <3>2, <3>4, <4>0, <4>2
        <5>2. i - 1 = k - 1
          BY <5>1 DEF Claims
        <5> QED
          BY <5>2, <1>5, <2>2, <1>2 DEF Frames
      <4> QED
        BY <4>1, <4>2
    <3> QED
      BY <2>2, <3>3, <3>4
  <2> QED
    BY <2>1, <2>2
<1>6. ASSUME NEW k \in Node, runner'[k] # Null, k \notin hasRan'
      PROVE  \E i \in Frames(runner[k])' : calls'[runner'[k]][i] = k
  <2>1. CASE k = j
    BY <1>1, <1>2, <2>1 DEF Frames
  <2>2. CASE k # j
    <3>1. runner'[k] = runner[k] /\ runner[k] \in Thread
      BY <1>1, <1>6, <2>2
    <3>2. PICK i \in Frames(runner[k]) : calls[runner[k]][i] = k
      BY <1>1, <1>6, <3>1 DEF Claims
    <3>3. CASE runner[k] # t
      <4>1. i \in Frames(runner[k])' /\ calls'[runner[k]][i] = k
        BY <1>1, <3>1, <3>2, <3>3 DEF Frames
      <4> QED
        BY <3>1, <4>1
    <3>4. CASE runner[k] = t
      <4>1. i + 1 \in Frames(t)' /\ calls'[t][i + 1] = k
        BY <1>2, <3>2, <3>4 DEF Frames
      <4> QED
        BY <3>1, <3>4, <4>1
    <3> QED
      BY <3>3, <3>4
  <2> QED
    BY <2>1, <2>2
<1>7. \A k \in hasRan' : runner'[k] # Null
  BY <1>1 DEF Claims
<1> QED
  BY <1>5, <1>6, <1>7 DEF Claims

\* Finishing the innermost job leaves it.
LEMMA FinishStep ==
  ASSUME RInv, TypeOK', NEW t \in Thread, NEW j \in Node, FinishRun(t, j)
  PROVE  Claims'
<1> USE ConstantFacts DEF RInv, IInv, TypeOK, FinishRun, Inside
<1>1. /\ calls'[t] = Tail(calls[t]) /\ \A u \in Thread : u # t => calls'[u] = calls[u]
      /\ runner' = runner /\ hasRan' = hasRan \cup {j}
  OBVIOUS
<1>2. /\ Len(calls[t]) \in Nat \ {0} /\ j = calls[t][1] /\ 1 \in Frames(t)
      /\ Frames(t)' = 1 .. Len(calls[t]) - 1
      /\ \A i \in 1 .. Len(calls[t]) - 1 : calls'[t][i] = calls[t][i + 1]
  BY <1>1, Pop DEF Frames
<1>3. runner[j] = t
  BY <1>2 DEF Claims
<1>4. ASSUME NEW u \in Thread, NEW i \in Frames(u)'
      PROVE  /\ runner'[calls'[u][i]] = u /\ calls'[u][i] \notin hasRan'
             /\ \A k \in Frames(u)' : calls'[u][i] = calls'[u][k] => i = k
  <2>1. CASE u # t
    <3>1. Frames(u)' = Frames(u) /\ calls'[u] = calls[u]
      BY <1>1, <2>1 DEF Frames
    <3>2. calls[u][i] # j
      BY <1>3, <1>4, <2>1, <3>1 DEF Claims
    <3> QED
      BY <1>1, <1>4, <3>1, <3>2 DEF Claims
  <2>2. CASE u = t
    <3>1. \A k \in Frames(t)' : k + 1 \in Frames(t) /\ calls'[t][k] = calls[t][k + 1] /\ k \in Nat
      BY <1>2, SMTT(30) DEF Frames
    <3>2. \A k \in Frames(t)' : calls[t][k + 1] # j
      <4> SUFFICES ASSUME NEW k \in Frames(t)', calls[t][k + 1] = calls[t][1] PROVE FALSE
        BY <1>2
      <4>1. k + 1 = 1
        BY <1>2, <3>1 DEF Claims
      <4> QED
        BY <4>1, <1>2
    <3>5. i \in Frames(t)' /\ i + 1 \in Frames(t) /\ calls'[t][i] = calls[t][i + 1] /\ calls[t][i + 1] # j
      BY <1>4, <2>2, <3>1, <3>2
    <3>3. runner'[calls'[t][i]] = t /\ calls'[t][i] \notin hasRan'
      <4>1. runner[calls[t][i + 1]] = t /\ calls[t][i + 1] \notin hasRan
        BY <3>5 DEF Claims
      <4> QED
        BY <1>1, <3>5, <4>1
    <3>4. ASSUME NEW k \in Frames(t)', calls'[t][i] = calls'[t][k] PROVE i = k
      <4>2. k + 1 \in Frames(t) /\ calls[t][i + 1] = calls[t][k + 1]
        BY <3>1, <3>4, <3>5
      <4>1. i + 1 = k + 1
        BY <3>5, <4>2 DEF Claims
      <4> QED
        BY <4>1, <1>4, <2>2, <3>1
    <3> QED
      BY <2>2, <3>3, <3>4
  <2> QED
    BY <2>1, <2>2
<1>5. ASSUME NEW k \in Node, runner'[k] # Null, k \notin hasRan'
      PROVE  \E i \in Frames(runner[k])' : calls'[runner'[k]][i] = k
  <2>1. k # j /\ runner[k] \in Thread /\ runner'[k] = runner[k]
    BY <1>1, <1>5
  <2>2. PICK i \in Frames(runner[k]) : calls[runner[k]][i] = k
    BY <1>1, <1>5, <2>1 DEF Claims
  <2>3. CASE runner[k] # t
    <3>1. i \in Frames(runner[k])' /\ calls'[runner[k]][i] = k
      BY <1>1, <2>1, <2>2, <2>3 DEF Frames
    <3> QED
      BY <2>1, <3>1
  <2>4. CASE runner[k] = t
    <3>1. i # 1 /\ i - 1 \in Frames(t)' /\ calls'[t][i - 1] = k
      BY <1>2, <2>1, <2>2, <2>4 DEF Frames
    <3> QED
      BY <2>1, <2>4, <3>1
  <2> QED
    BY <2>3, <2>4
<1>6. \A k \in hasRan' : runner'[k] # Null
  BY <1>1, <1>3 DEF Claims
<1> QED
  BY <1>4, <1>5, <1>6 DEF Claims


---------------------------------------------------------------------------
(* The invariant is inductive.                                             *)

\* A step that enters, leaves and finishes no job.
LEMMA QuietJobs == ASSUME RInv, UNCHANGED jobs PROVE Claims'
  BY DEF RInv, Claims, Frames, jobs

\* A step of a thread that was born and does not go back to an earlier phase.
LEMMA PhaseStep ==
  ASSUME RInv, NEW t \in Thread, pc[t] # "unborn", added \subseteq added',
         \A u \in Thread : u # t => pc'[u] = pc[u],
         pc'[t] \notin {"parse", "import"} \/ (pc'[t] = pc[t] /\ pc[t] # "parse")
  PROVE  Phase'
<1>1. CASE t = Main
  BY <1>1 DEF RInv, Phase
<1>2. CASE t # Main
  <2>1. t \in Worker /\ pc'[Main] = pc[Main]
    BY <1>2, ConstantFacts DEF Thread
  <2>2. pc[Main] # "parse"
    BY <2>1 DEF RInv, IInv, Calling
  <2> QED
    BY <2>1, <2>2 DEF RInv, Phase
<1> QED
  BY <1>1, <1>2

\* Initially nothing is claimed.
LEMMA InitRInv == Init => RInv
<1> SUFFICES ASSUME Init PROVE RInv
  OBVIOUS
<1> USE ConstantFacts
<1>1. \A t \in Thread : Frames(t) = {}
  BY DEF Init, Frames
<1>2. \A j \in Node : runner[j] = Null
  BY DEF Init
<1>3. hasRan = {} /\ pc[Main] = "parse"
  BY DEF Init
<1>4. Claims
  BY <1>1, <1>2, <1>3 DEF Claims
<1>5. Phase
  BY <1>2, <1>3 DEF Phase
<1> QED
  BY <1>4, <1>5, InitIInv DEF RInv

---------------------------------------------------------------------------
(* Each step of the queue is a step of the pool.                           *)

PoolStep == [Pool!Next]_(Pool!vars)

\* A step that touches neither the queue's back nor the jobs is a stutter of the pool.
LEMMA PoolStutter == ASSUME UNCHANGED jobs, added' = added PROVE PoolStep
  BY DEF PoolStep, Pool!vars, jobs

\* queueJob submits.
LEMMA PoolSubmit ==
  ASSUME NEW j \in Node, added' = added \cup {j}, UNCHANGED jobs PROVE PoolStep
<1>1. Pool!Submit(j)
  BY DEF Pool!Submit, jobs
<1> QED
  BY <1>1 DEF PoolStep, Pool!Next

\* Claiming a queued or an awaited job starts it.
LEMMA PoolStart ==
  ASSUME RInv, NEW t \in Thread, NEW j \in Node, Claim(t, j), added' = added,
         j \in Queued \cup Pool!AwaitedBy(t)
  PROVE  PoolStep
<1>1. Pool!Start(t, j)
  BY DEF Pool!Start, Claim, Queued
<1> QED
  BY <1>1 DEF PoolStep, Pool!Next

\* The innermost job of a thread is one it runs.
LEMMA InsideClaimed ==
  ASSUME RInv, NEW t \in Thread, NEW j \in Node, Inside(t, j)
  PROVE  runner[j] = t /\ j \notin hasRan /\ pc[t] \notin {"parse", "unborn"}
<1>1. calls[t] \in Seq(Node) /\ calls[t] # <<>> /\ j = Head(calls[t])
  BY DEF RInv, IInv, TypeOK, Inside
<1>2. 1 \in Frames(t) /\ calls[t][1] = j
  BY <1>1, Pop DEF Frames
<1>3. runner[j] = t /\ j \notin hasRan
  BY <1>2 DEF RInv, Claims
<1>4. pc[t] \in {"run", "failed", "import"}
  BY <1>1 DEF RInv, IInv, Calling
<1> QED
  BY <1>3, <1>4

\* The steps of main.
LEMMA MainRefines == ASSUME RInv, TypeOK', MainStep PROVE Claims' /\ Phase' /\ PoolStep
<1> USE ConstantFacts
<1>a. pc \in [Thread -> PC] /\ pc[Main] # "unborn" /\ Phase
  BY DEF RInv, IInv, TypeOK, Calling
<1>1. ASSUME NEW j \in Job, ExchangeBack(j) PROVE Claims' /\ Phase' /\ PoolStep
  <2>1. UNCHANGED jobs /\ added' = added \cup {j} /\ pc' = pc
    BY <1>1 DEF ExchangeBack
  <2>2. Phase'
    BY <2>1, <1>a DEF Phase, jobs
  <2> QED
    BY <2>1, <2>2, QuietJobs, PoolSubmit
<1>2. CASE CountQueued \/ LinkQueued
  <2>1. UNCHANGED jobs /\ added' = added /\ pc' = pc
    BY <1>2 DEF CountQueued, LinkQueued
  <2>2. Phase'
    BY <2>1, <1>a DEF Phase, jobs
  <2> QED
    BY <2>1, <2>2, QuietJobs, PoolStutter
<1>3. CASE Startup
  <2>1. /\ pc[Main] = "parse" /\ Early \subseteq added /\ added' = added /\ calls' = calls
        /\ hasRan' = hasRan \cup {DefaultJob} /\ runner' = [runner EXCEPT ![DefaultJob] = Main]
    BY <1>3 DEF Startup, At, queue
  <2>2. hasRan = {} /\ (\A j \in Node : runner[j] = Null) /\ runner \in [Node -> Thread \cup {Null}]
        /\ Deps[DefaultJob] = {}
    BY <2>1, <1>a, ConstantsAssumption DEF Phase, RInv, IInv, TypeOK
  <2>3. Pool!StartAndFinish(Main, DefaultJob)
    BY <2>1, <2>2 DEF Pool!StartAndFinish
  <2>4. PoolStep
    BY <2>3 DEF PoolStep, Pool!Next
  <2>5. pc'[Main] = "import" /\ Early \subseteq added'
    BY <1>a, <1>3, <2>1 DEF Startup
  <2>6. Claims'
    <3>1. \A t \in Thread : Frames(t)' = {}
      <4> SUFFICES ASSUME NEW t \in Thread PROVE Frames(t) = {}
        BY <2>1 DEF Frames
      <4>1. ASSUME NEW i \in Frames(t) PROVE FALSE
        <5>1. calls[t] \in Seq(Node) /\ calls[t][i] \in Node
          BY DEF RInv, IInv, TypeOK, Frames
        <5>2. runner[calls[t][i]] = t
          BY DEF RInv, Claims
        <5> QED
          BY <2>2, <5>1, <5>2
      <4> QED
        BY <4>1
    <3>2. \A j \in Node : runner'[j] # Null => j \in hasRan'
      BY <2>1, <2>2
    <3>3. \A j \in hasRan' : runner'[j] # Null
      BY <2>1, <2>2
    <3> QED
      BY <3>1, <3>2, <3>3 DEF Claims
  <2> QED
    BY <2>4, <2>5, <2>6 DEF Phase
<1>4. CASE SkipStartup
  <2>1. UNCHANGED jobs /\ added' = added /\ Early \subseteq added /\ pc'[Main] = "import"
    BY <1>a, <1>4 DEF SkipStartup, Goto, queue
  <2>2. Phase'
    BY <2>1 DEF Phase
  <2> QED
    BY <2>1, <2>2, QuietJobs, PoolStutter
<1>5. CASE AwaitImport
  <2>1. PICK j \in Awaited : Claim(Main, j)
    BY <1>5 DEF AwaitImport
  <2>2. pc[Main] = "import" /\ pc' = pc /\ added' = added
    BY <1>5 DEF AwaitImport, At, queue
  <2>3. j \in Queued /\ j \in Node
    BY <1>a, <2>2, ConstantsAssumption DEF Phase, Queued
  <2>4. Phase'
    BY <1>a, <2>2 DEF Phase
  <2> QED
    BY <2>1, <2>2, <2>3, <2>4, ClaimStep, PoolStart
<1>6. CASE BeginCompile \/ SetQueueInitialized \/ AwaitShutdown
  <2>1. UNCHANGED jobs /\ added' = added /\ pc'[Main] \notin {"parse", "import"}
    BY <1>a, <1>6 DEF BeginCompile, SetQueueInitialized, AwaitShutdown, Goto, queue
  <2>2. Phase'
    BY <2>1 DEF Phase
  <2> QED
    BY <2>1, <2>2, QuietJobs, PoolStutter
<1>7. CASE QueueEarly \/ QueueLate
  BY <1>1, <1>7 DEF QueueEarly, QueueLate
<1>8. CASE QueueLazy
  BY <1>1, <1>8 DEF QueueLazy
<1> QED
  BY <1>2, <1>3, <1>4, <1>5, <1>6, <1>7, <1>8 DEF MainStep

\* The steps of tryDeque and of workerMain.
LEMMA WorkerRefines ==
  ASSUME RInv, TypeOK', NEW t \in Thread, TryDeque(t) \/ WorkerMain(t)
  PROVE  Claims' /\ Phase' /\ PoolStep
<1> USE ConstantFacts
<1>a. pc \in [Thread -> PC]
  BY DEF RInv, IInv, TypeOK
<1> DEFINE Quiet == UNCHANGED jobs /\ added' = added
           Stays == /\ pc[t] # "unborn" /\ pc'[t] \notin {"parse", "import"}
                    /\ \A u \in Thread : u # t => pc'[u] = pc[u]
<1>1. CASE TryDeque(t)
  <2>1. Quiet
    BY <1>1 DEF TryDeque, LoadFront, LoadNext, Advance, AdvanceFails, Reload, Restore, Uncount,
                TestRan, queue
  <2>2. Stays
    BY <1>a, <1>1 DEF TryDeque, LoadFront, LoadNext, Advance, AdvanceFails, Reload, Restore, Uncount,
                TestRan, At, Goto
  <2> QED
    BY <2>1, <2>2, PhaseStep, QuietJobs, PoolStutter
<1>2. CASE WorkerMain(t) /\ ~TryRun(t)
  <2>1. Quiet
    BY <1>2 DEF WorkerMain, StartWorker, TestStop, TestCount, TestInitialized, LoadWaiters,
                TestLast, StopWorkers, Leave, BeginWait, EndWait, queue
  <2>2. Stays
    BY <1>a, <1>2 DEF WorkerMain, StartWorker, TestStop, TestCount, TestInitialized, LoadWaiters,
                TestLast, StopWorkers, Leave, BeginWait, EndWait, At, Goto
  <2> QED
    BY <2>1, <2>2, PhaseStep, QuietJobs, PoolStutter
<1>3. CASE TryRun(t)
  <2>1. pc[t] = "tryRun" /\ added' = added
    BY <1>3 DEF TryRun, At, queue
  <2>2. fron[t] \in Queued /\ fron[t] \in Node
    BY <2>1, HeldIsNode DEF HoldPC, RInv, IInv, QueueInv, Locals
  <2>3. Stays
    BY <1>a, <1>3, <2>1 DEF TryRun, Goto
  <2>4. Phase'
    BY <2>1, <2>3, PhaseStep
  <2>5. CASE Claim(t, fron[t])
    BY <2>1, <2>2, <2>4, <2>5, ClaimStep, PoolStart
  <2>6. CASE UNCHANGED jobs
    BY <2>1, <2>4, <2>6, QuietJobs, PoolStutter
  <2> QED
    BY <1>3, <2>5, <2>6 DEF TryRun
<1> QED
  BY <1>1, <1>2, <1>3

\* The steps inside run().
LEMMA RunRefines ==
  ASSUME RInv, TypeOK', NEW t \in Thread, RunJob(t)
  PROVE  Claims' /\ Phase' /\ PoolStep
<1> USE ConstantFacts
<1>a. pc \in [Thread -> PC]
  BY DEF RInv, IInv, TypeOK
<1>1. ASSUME NEW j \in Node, FinishRun(t, j) PROVE Claims' /\ Phase' /\ PoolStep
  <2>1. runner[j] = t /\ j \notin hasRan /\ pc[t] \notin {"parse", "unborn"}
    BY <1>1, InsideClaimed DEF FinishRun
  <2>2. added' = added /\ \A u \in Thread : u # t => pc'[u] = pc[u]
    BY <1>a, <1>1 DEF FinishRun, queue
  <2>3. pc'[t] = pc[t] \/ pc'[t] = "deque"
    BY <1>a, <1>1 DEF FinishRun
  <2>4. Phase'
    BY <2>1, <2>2, <2>3, PhaseStep
  <2>5. Pool!Finish(t, j)
    BY <1>1, <2>1, <2>2 DEF Pool!Finish, FinishRun
  <2> QED
    BY <1>1, <2>4, <2>5, FinishStep DEF PoolStep, Pool!Next
<1>2. ASSUME NEW j \in Node, FailRun(t, j) PROVE Claims' /\ Phase' /\ PoolStep
  <2>1. pc[t] \notin {"parse", "unborn"}
    BY <1>2, InsideClaimed DEF FailRun
  <2>2. UNCHANGED jobs /\ added' = added
    BY <1>2 DEF FailRun, queue
  <2>3. pc'[t] = "failed" /\ \A u \in Thread : u # t => pc'[u] = pc[u]
    BY <1>a, <1>2 DEF FailRun, Goto
  <2> QED
    BY <2>1, <2>2, <2>3, PhaseStep, QuietJobs, PoolStutter
<1>3. ASSUME NEW j \in Node, NEW k \in Deps[j], AwaitInRun(t, j, k) PROVE Claims' /\ Phase' /\ PoolStep
  <2>1. runner[j] = t /\ j \notin hasRan /\ pc[t] \notin {"parse", "unborn"}
    BY <1>3, InsideClaimed DEF AwaitInRun
  <2>2. added' = added /\ pc' = pc /\ Claim(t, k) /\ k \in Node
    BY <1>3 DEF AwaitInRun, queue
  <2>3. k \in Pool!AwaitedBy(t)
    BY <2>1 DEF Pool!AwaitedBy
  <2>4. Phase'
    BY <2>1, <2>2, PhaseStep
  <2> QED
    BY <2>2, <2>3, <2>4, ClaimStep, PoolStart
<1> QED
  BY <1>1, <1>2, <1>3 DEF RunJob

\* Every step preserves the invariant and is a step of the pool or a stutter.
LEMMA NextRefines == RInv /\ [Next]_vars => RInv' /\ PoolStep
<1> SUFFICES ASSUME RInv, [Next]_vars PROVE RInv' /\ PoolStep
  OBVIOUS
<1>1. IInv'
  BY NextIInv DEF RInv
<1>2. TypeOK'
  BY <1>1 DEF IInv
<1>3. CASE UNCHANGED vars
  <2>1. UNCHANGED jobs /\ added' = added /\ pc' = pc
    BY <1>3 DEF vars, queue
  <2>2. Phase'
    BY <2>1 DEF RInv, Phase, jobs
  <2> QED
    BY <1>1, <2>1, <2>2, QuietJobs, PoolStutter DEF RInv
<1>4. CASE Next
  BY <1>1, <1>2, <1>4, MainRefines, WorkerRefines, RunRefines DEF Next, RInv
<1> QED
  BY <1>3, <1>4

---------------------------------------------------------------------------
(* Theorems                                                                *)

\* A thread that is inside a job claimed it, in every reachable state.
LEMMA InductiveRInv == Spec => []RInv
  BY InitRInv, NextRefines, PTL DEF Spec

\* The queue, the workers and the shutdown implement JobPool: every job is started by one
\* thread, once, after it was queued or while a job that awaits it runs, and finishes after
\* the jobs it awaits.
THEOREM Refinement == Spec => PoolSpec
<1>1. Init => Pool!Init
  BY ConstantFacts DEF Init, Pool!Init
<1>2. RInv /\ [Next]_vars => [Pool!Next]_(Pool!vars)
  BY NextRefines DEF PoolStep
<1> QED
  BY <1>1, <1>2, InductiveRInv, PTL DEF Spec, PoolSpec, Pool!Spec

---------------------------------------------------------------------------
(* main returns only when no thread is inside a job.                       *)

\* The program counters between the two accesses of workerMain to workerCount.
Living == PC \ {"unborn", "parse", "import", "compile", "start", "done", "exited", "failed"}

LivingThreads == {t \in Thread : pc[t] \in Living}

\* workerCount counts the threads inside workerMain.
Counting == Alive => workerCount = Cardinality(LivingThreads)

\* When main has returned, nobody is inside a job, and no job that throws was started.
Quiescent == pc[Main] = "exited" => \A t \in Thread : calls[t] = <<>>

FailsUnfinished == failing \subseteq Job /\ failing \cap hasRan = {}

EInv == RInv /\ Counting /\ Quiescent /\ FailsUnfinished

\* There are finitely many threads.
LEMMA LivingFinite == IsFiniteSet(LivingThreads)
<1>1. IsFiniteSet(Thread)
  BY FS_AddElement, ConstantsAssumption DEF Thread
<1>2. LivingThreads \in SUBSET Thread
  BY DEF LivingThreads
<1> QED
  BY <1>1, <1>2, FS_Subset

\* A step that moves nobody in or out of workerMain.
LEMMA CountingStay ==
  ASSUME Counting, Alive, workerCount' = workerCount,
         \A t \in Thread : pc'[t] \in Living <=> pc[t] \in Living
  PROVE  Counting'
<1>1. LivingThreads' = LivingThreads
  BY DEF LivingThreads
<1> QED
  BY <1>1 DEF Counting

\* A thread enters workerMain.
LEMMA CountingEnter ==
  ASSUME Counting, Alive, NEW t \in Thread, workerCount' = workerCount + 1,
         pc[t] \notin Living, pc'[t] \in Living, \A u \in Thread : u # t => pc'[u] = pc[u]
  PROVE  Counting'
<1>1. LivingThreads' = LivingThreads \cup {t} /\ t \notin LivingThreads
  BY DEF LivingThreads
<1>2. IsFiniteSet(LivingThreads)
  BY LivingFinite
<1>3. Cardinality(LivingThreads') = Cardinality(LivingThreads) + 1
  BY <1>1, <1>2, FS_AddElement
<1> QED
  BY <1>3 DEF Counting

\* A thread leaves workerMain.
LEMMA CountingLeave ==
  ASSUME Counting, Alive, NEW t \in Thread, workerCount' = workerCount - 1,
         pc[t] \in Living, pc'[t] \notin Living, \A u \in Thread : u # t => pc'[u] = pc[u]
  PROVE  Counting'
<1>1. LivingThreads' = LivingThreads \ {t} /\ t \in LivingThreads
  BY DEF LivingThreads
<1>2. IsFiniteSet(LivingThreads)
  BY LivingFinite
<1>3. Cardinality(LivingThreads') = Cardinality(LivingThreads) - 1
  BY <1>1, <1>2, FS_RemoveElement
<1> QED
  BY <1>3 DEF Counting

\* Every step keeps the count.
LEMMA NextCounting == ASSUME RInv, Counting, Next PROVE Counting'
<1> USE ConstantFacts
<1>a. pc \in [Thread -> PC] /\ workerCount \in Int
  BY DEF RInv, IInv, TypeOK
<1>1. CASE MainStep /\ ~Startup /\ ~AwaitShutdown
  <2>1. Alive /\ workerCount' = workerCount
    BY <1>1 DEF MainStep, QueueEarly, QueueLate, QueueLazy, ExchangeBack, CountQueued, LinkQueued,
                SkipStartup, AwaitImport, BeginCompile, SetQueueInitialized, At, Free, control
  <2>2. \A t \in Thread : pc'[t] = pc[t] \/ (pc[t] \notin Living /\ pc'[t] \notin Living)
    BY <1>a, <1>1 DEF MainStep, QueueEarly, QueueLate, QueueLazy, ExchangeBack, CountQueued, LinkQueued,
                SkipStartup, AwaitImport, BeginCompile, SetQueueInitialized, At, Goto, Living
  <2> QED
    BY <2>1, <2>2, CountingStay
<1>2. CASE Startup
  <2>1. Alive /\ workerCount' = workerCount
    BY <1>2 DEF Startup, At, Free, control
  <2>2. \A t \in Thread : pc[t] \in {"parse", "unborn"}
    BY <1>2 DEF Startup, At, RInv, IInv, Calling, Thread
  <2>3. \A t \in Thread : pc'[t] \in {"import", "start"}
    BY <1>2 DEF Startup
  <2> QED
    BY <2>1, <2>2, <2>3, CountingStay DEF Living
<1>3. CASE AwaitShutdown
  BY <1>a, <1>3 DEF AwaitShutdown, Goto, Counting, Alive
<1>4. ASSUME NEW t \in Thread, TryDeque(t) PROVE Counting'
  <2>1. Alive /\ workerCount' = workerCount
    BY <1>4 DEF TryDeque, LoadFront, LoadNext, Advance, AdvanceFails, Reload, Restore, Uncount,
                TestRan, At, Free, control
  <2>2. /\ \A u \in Thread : u # t => pc'[u] = pc[u]
        /\ pc[t] \in Living /\ pc'[t] \in Living
    BY <1>a, <1>4 DEF TryDeque, LoadFront, LoadNext, Advance, AdvanceFails, Reload, Restore, Uncount,
                TestRan, At, Goto, Living, PC
  <2>3. \A u \in Thread : pc'[u] \in Living <=> pc[u] \in Living
    BY <2>2
  <2> QED
    BY <2>1, <2>3, CountingStay
<1>5. ASSUME NEW t \in Thread, StartWorker(t) PROVE Counting'
  BY <1>a, <1>5, CountingEnter DEF StartWorker, At, Free, Goto, Living, PC
<1>6. ASSUME NEW t \in Thread, Leave(t) PROVE Counting'
  BY <1>a, <1>6, CountingLeave DEF Leave, At, Free, Goto, Living, PC
<1>7. ASSUME NEW t \in Thread, WorkerMain(t), ~StartWorker(t), ~Leave(t) PROVE Counting'
  <2>1. Alive /\ workerCount' = workerCount
    BY <1>7 DEF WorkerMain, TryRun, TestStop, TestCount, TestInitialized, LoadWaiters, TestLast,
                StopWorkers, BeginWait, EndWait, At, Free, control
  <2>2. /\ \A u \in Thread : u # t => pc'[u] = pc[u]
        /\ pc[t] \in Living /\ pc'[t] \in Living
    BY <1>a, <1>7 DEF WorkerMain, TryRun, TestStop, TestCount, TestInitialized, LoadWaiters, TestLast,
                StopWorkers, BeginWait, EndWait, At, Goto, Living, PC
  <2>3. \A u \in Thread : pc'[u] \in Living <=> pc[u] \in Living
    BY <2>2
  <2> QED
    BY <2>1, <2>3, CountingStay
<1>8. ASSUME NEW t \in Thread, NEW j \in Node, FinishRun(t, j) PROVE Counting'
  <2>1. Alive /\ workerCount' = workerCount
    BY <1>8 DEF FinishRun, Free, control
  <2>2. \A u \in Thread : pc'[u] = pc[u] \/ (pc[u] = "run" /\ pc'[u] = "deque")
    BY <1>a, <1>8 DEF FinishRun
  <2>3. \A u \in Thread : pc'[u] \in Living <=> pc[u] \in Living
    BY <2>2 DEF Living, PC
  <2> QED
    BY <2>1, <2>3, CountingStay
<1>9. ASSUME NEW t \in Thread, NEW j \in Node, FailRun(t, j) PROVE Counting'
  BY <1>a, <1>9 DEF FailRun, Goto, Counting, Alive
<1>10. ASSUME NEW t \in Thread, NEW j \in Node, NEW k \in Deps[j], AwaitInRun(t, j, k) PROVE Counting'
  BY <1>10, CountingStay DEF AwaitInRun, Free, control
<1> QED
  BY <1>1, <1>2, <1>3, <1>4, <1>5, <1>6, <1>7, <1>8, <1>9, <1>10 DEF Next, RunJob

\* main leaves awaitShutdown only when the count says that nobody runs anything.
LEMMA NextQuiescent == ASSUME RInv, TypeOK', Counting, Next PROVE Quiescent'
<1> USE ConstantFacts
<1>a. pc \in [Thread -> PC]
  BY DEF RInv, IInv, TypeOK
<1>1. CASE AwaitShutdown
  <2>1. Alive /\ workerCount = 0 /\ calls' = calls /\ pc[Main] = "done"
    BY <1>1 DEF AwaitShutdown, At, Free, jobs
  <2>2. IsFiniteSet(LivingThreads)
    BY LivingFinite
  <2>3. LivingThreads = {}
    BY <2>1, <2>2, FS_EmptySet DEF Counting
  <2>4. ASSUME NEW t \in Thread PROVE calls[t] = <<>>
    <3>1. pc[t] # "run"
      BY <2>3 DEF LivingThreads, Living, PC
    <3> QED
      BY <2>1, <3>1 DEF RInv, IInv, Calling, Alive
  <2> QED
    BY <2>1, <2>4 DEF Quiescent
<1>2. CASE ~AwaitShutdown
  <2>1. ASSUME pc[Main] # "exited" PROVE pc'[Main] # "exited"
    BY <1>a, <1>2, <2>1
    DEF Next, MainStep, QueueEarly, QueueLate, QueueLazy, ExchangeBack, CountQueued, LinkQueued,
        Startup, SkipStartup, AwaitImport, BeginCompile, SetQueueInitialized, TryDeque, LoadFront,
        LoadNext, Advance, AdvanceFails, Reload, Restore, Uncount, TestRan, WorkerMain, StartWorker,
        TryRun, TestStop, TestCount, TestInitialized, LoadWaiters, TestLast, StopWorkers, Leave,
        BeginWait, EndWait, RunJob, FinishRun, FailRun, AwaitInRun, Goto
  <2>2. Alive
    BY DEF Next, MainStep, QueueEarly, QueueLate, QueueLazy, CountQueued, LinkQueued,
        Startup, SkipStartup, AwaitImport, BeginCompile, SetQueueInitialized, AwaitShutdown,
        TryDeque, LoadFront,
        LoadNext, Advance, AdvanceFails, Reload, Restore, Uncount, TestRan, WorkerMain, StartWorker,
        TryRun, TestStop, TestCount, TestInitialized, LoadWaiters, TestLast, StopWorkers, Leave,
        BeginWait, EndWait, RunJob, FinishRun, FailRun, AwaitInRun, At, Free
  <2> QED
    BY <2>1, <2>2 DEF Quiescent, Alive
<1> QED
  BY <1>1, <1>2

\* A job that throws never counts as run.
LEMMA NextFailsUnfinished == ASSUME FailsUnfinished, Next PROVE FailsUnfinished'
<1>1. /\ failing' = failing
      /\ \/ hasRan' = hasRan
         \/ hasRan' = hasRan \cup {DefaultJob}
         \/ \E j \in Node : j \notin failing /\ hasRan' = hasRan \cup {j}
  BY ZenonT(30) DEF Next, MainStep, QueueEarly, QueueLate, QueueLazy, ExchangeBack, CountQueued, LinkQueued,
        Startup, SkipStartup, AwaitImport, BeginCompile, SetQueueInitialized, AwaitShutdown,
        TryDeque, LoadFront,
        LoadNext, Advance, AdvanceFails, Reload, Restore, Uncount, TestRan, WorkerMain, StartWorker,
        TryRun, TestStop, TestCount, TestInitialized, LoadWaiters, TestLast, StopWorkers, Leave,
        BeginWait, EndWait, RunJob, FinishRun, FailRun, AwaitInRun, Claim, jobs
<1> QED
  BY <1>1, ConstantsAssumption DEF FailsUnfinished

\* Initially nobody is inside workerMain.
LEMMA InitEInv == Init => EInv
<1> SUFFICES ASSUME Init PROVE EInv
  OBVIOUS
<1>1. \A t \in Thread : pc[t] \in {"parse", "unborn"}
  BY DEF Init
<1>2. LivingThreads = {}
  BY <1>1 DEF LivingThreads, Living
<1>3. Counting
  BY <1>2, FS_EmptySet DEF Counting, Init
<1>4. Quiescent /\ FailsUnfinished
  BY ConstantsAssumption DEF Init, Quiescent, FailsUnfinished
<1> QED
  BY <1>3, <1>4, InitRInv DEF EInv

\* Every step preserves the invariant.
LEMMA NextEInv == EInv /\ [Next]_vars => EInv'
<1> SUFFICES ASSUME EInv, [Next]_vars PROVE EInv'
  OBVIOUS
<1>1. RInv'
  BY NextRefines DEF EInv
<1>2. CASE Next
  BY <1>1, <1>2, NextCounting, NextQuiescent, NextFailsUnfinished DEF EInv, RInv, IInv
<1>3. CASE UNCHANGED vars
  <2>1. pc' = pc /\ workerCount' = workerCount /\ calls' = calls /\ hasRan' = hasRan /\ failing' = failing
    BY <1>3 DEF vars, control, jobs
  <2>2. Counting' /\ Quiescent' /\ FailsUnfinished'
    BY <2>1 DEF EInv, Counting, Quiescent, FailsUnfinished, Alive, LivingThreads
  <2> QED
    BY <1>1, <2>2 DEF EInv
<1> QED
  BY <1>2, <1>3

\* The invariant holds in every reachable state.
LEMMA InductiveEInv == Spec => []EInv
  BY InitEInv, NextEInv, PTL DEF Spec

\* What main's return means for a job: nobody is in the middle of it.
LEMMA ExitedJobs == EInv => ExitQuiescent /\ NoFalseSuccess
<1> SUFFICES ASSUME EInv, pc[Main] = "exited" PROVE ExitQuiescent /\ NoFalseSuccess
  BY DEF ExitQuiescent, NoFalseSuccess
<1>1. ASSUME NEW j \in Node, runner[j] # Null PROVE j \in hasRan
  <2>1. runner[j] \in Thread
    BY <1>1 DEF EInv, RInv, IInv, TypeOK
  <2>2. Frames(runner[j]) = {}
    BY <2>1 DEF EInv, Quiescent, Frames
  <2> QED
    BY <1>1, <2>2 DEF EInv, RInv, Claims
<1>2. \A j \in failing : runner[j] = Null
  BY <1>1 DEF EInv, FailsUnfinished, Node
<1> QED
  BY <1>1, <1>2 DEF ExitQuiescent, NoFalseSuccess

\* main returns only when no thread is in the middle of a job, however many workers there are.
THEOREM ExitCorrect == Spec => []ExitQuiescent
  BY InductiveEInv, ExitedJobs, PTL

\* main does not return success after a job has thrown.
THEOREM NoFalseSuccessCorrect == Spec => []NoFalseSuccess
  BY InductiveEInv, ExitedJobs, PTL

---------------------------------------------------------------------------
(* What the counters of the job manager are worth.  queuedItemCount is the *)
(* number of nodes behind the front, up to the threads that are between    *)
(* two steps of queueJob or tryDeque; waiterCount is the number of threads *)
(* in a timed wait.  A thread that reads both and finds itself the last    *)
(* one has seen the others with nothing in their hands, so all that has    *)
(* left the queue has run.  In a library compile, where only main runs     *)
(* jobs and no read is awaited before the queue is drained, nothing that   *)
(* was queued is left behind.                                              *)

---------------------------------------------------------------------------
(* The count of queued items                                               *)

\* The threads that have moved the front and not decremented the count yet.
Uncounting == {t \in Thread : pc[t] = "uncount"}

\* queueJob has put its job behind the back and not incremented the count yet.
Uncounted == IF adding # Null /\ ~counted THEN 1 ELSE 0

Accounting ==
  /\ IsFiniteSet(added)
  /\ queuedItemCount = Cardinality(added) - Cardinality(passed) - Uncounted + Cardinality(Uncounting)

\* Any set of threads is finite.
LEMMA ThreadsFinite == ASSUME NEW S \in SUBSET Thread PROVE IsFiniteSet(S) /\ Cardinality(S) \in Nat
<1>1. IsFiniteSet(Thread)
  BY FS_AddElement, ConstantsAssumption DEF Thread
<1>2. IsFiniteSet(S)
  BY <1>1, FS_Subset
<1> QED
  BY <1>2, FS_CardinalityType

\* The list has a first node, which is neither passed nor the one being added.
LEMMA FrontExists == ASSUME IInv PROVE \E f \in Node : IsFront(f) /\ f \in Queued \ passed /\ f # adding
<1>1. \E f \in Node : IsFront(f)
  <2>1. CASE front # Null
    BY <2>1 DEF IInv, TypeOK, IsFront
  <2>2. CASE front = Null
    <3>1. PICK t \in Thread : pc[t] = "restore"
      BY <2>2 DEF IInv, QueueInv, NullFrontOwned
    <3>2. fron[t] \in Node
      BY <3>1, HeldIsNode DEF HoldPC
    <3> QED
      BY <3>1, <3>2 DEF IsFront
  <2> QED
    BY <2>1, <2>2
<1> QED
  BY <1>1 DEF IInv, QueueInv, FrontQueued, PassedBehind

\* Passed nodes were queued, and the one being added is not passed.
LEMMA PassedQueued == ASSUME IInv PROVE passed \subseteq Queued \ {adding}
<1> SUFFICES ASSUME NEW n \in passed PROVE n \in Queued /\ n # adding
  OBVIOUS
<1>1. n \in Node /\ next[n] # Null
  BY DEF IInv, TypeOK, QueueInv, PassedBehind
<1>2. n \in Queued
  BY <1>1 DEF IInv, QueueInv, Links
<1>3. n # adding
  BY <1>1, ConstantFacts DEF IInv, QueueInv, Links, Adding
<1> QED
  BY <1>2, <1>3

\* The sizes of the sets that the count is made of.
LEMMA Sizes ==
  ASSUME IInv, IsFiniteSet(added)
  PROVE  /\ IsFiniteSet(Queued) /\ IsFiniteSet(passed)
         /\ Cardinality(added) \in Nat /\ Cardinality(passed) \in Nat
         /\ Cardinality(Queued) = Cardinality(added) + 1
<1>1. DefaultJob \notin added
  BY ConstantsAssumption DEF IInv, TypeOK
<1>2. IsFiniteSet(Queued) /\ Cardinality(Queued) = Cardinality(added) + 1
  BY <1>1, FS_AddElement DEF Queued
<1>3. passed \in SUBSET Queued
  BY PassedQueued
<1>4. IsFiniteSet(passed)
  BY <1>2, <1>3, FS_Subset
<1> QED
  BY <1>2, <1>4, FS_CardinalityType

\* The count never is decremented before it was incremented.
LEMMA CountNotNegative == ASSUME IInv, Accounting PROVE queuedItemCount >= 0
<1>1. PICK f \in Node : IsFront(f) /\ f \in Queued \ passed /\ f # adding
  BY FrontExists
<1> DEFINE Rest == Queued \ {f}
           Behind == Rest \ {adding}
<1>0. /\ IsFiniteSet(Queued) /\ Cardinality(Queued) = Cardinality(added) + 1
      /\ Cardinality(added) \in Nat /\ Cardinality(passed) \in Nat
  BY Sizes DEF Accounting
<1>2. IsFiniteSet(Rest) /\ Cardinality(Rest) = Cardinality(added)
  <2>1. IsFiniteSet(Rest) /\ Cardinality(Rest) = Cardinality(Queued) - 1
    BY <1>0, <1>1, FS_RemoveElement
  <2> QED
    BY <1>0, <2>1
<1>3. /\ IsFiniteSet(Behind)
      /\ Cardinality(Behind) = IF adding \in Rest THEN Cardinality(Rest) - 1 ELSE Cardinality(Rest)
  <2> HIDE DEF Rest
  <2> QED
    BY <1>2, FS_RemoveElement
<1>4. passed \in SUBSET Behind
  BY <1>1, PassedQueued
<1>5. Cardinality(passed) <= Cardinality(Behind)
  BY <1>3, <1>4, FS_Subset
<1>6. adding # Null => adding \in Rest
  BY <1>1 DEF IInv, QueueInv, Adding, Queued
<1>7. Cardinality(passed) <= Cardinality(added) - Uncounted
  BY <1>0, <1>2, <1>3, <1>5, <1>6 DEF Uncounted
<1>8. Cardinality(Uncounting) \in Nat
  BY ThreadsFinite DEF Uncounting
<1> QED
  BY <1>7, <1>8, Sizes DEF Accounting, Uncounted

\* A step that leaves the sets alone.
LEMMA AccountingStay ==
  ASSUME Accounting, UNCHANGED <<added, passed, queuedItemCount, adding, counted>>,
         \A t \in Thread : pc'[t] = "uncount" <=> pc[t] = "uncount"
  PROVE  Accounting'
<1>1. Uncounting' = Uncounting
  BY DEF Uncounting
<1> QED
  BY <1>1 DEF Accounting, Uncounted

\* queueJob takes its place: one job more, not counted yet.
LEMMA AccountingQueued ==
  ASSUME IInv, Accounting, NEW j \in Job, ExchangeBack(j), adding = Null PROVE Accounting'
<1>1. added' = added \cup {j} /\ j \notin added /\ adding' = j /\ ~counted' /\ j # Null
  BY ConstantFacts DEF ExchangeBack
<1>2. IsFiniteSet(added') /\ Cardinality(added') = Cardinality(added) + 1
  BY <1>1, FS_AddElement DEF Accounting
<1>3. Uncounted = 0 /\ Uncounted' = 1
  BY <1>1 DEF Uncounted
<1>4. Uncounting' = Uncounting /\ Cardinality(Uncounting) \in Nat
  BY ThreadsFinite DEF Uncounting, ExchangeBack
<1> QED
  BY <1>2, <1>3, <1>4, Sizes DEF Accounting, ExchangeBack

\* The front moves: one node passed, not counted down yet.
LEMMA AccountingAdvance ==
  ASSUME IInv, Accounting, NEW t \in Thread, Advance(t) PROVE Accounting'
<1>a. pc \in [Thread -> PC] /\ pc[t] = "advance"
  BY DEF IInv, TypeOK, Advance, At
<1>1. CASE nxt[t] = Null
  <2>1. \A u \in Thread : pc'[u] = "uncount" <=> pc[u] = "uncount"
    BY <1>a, <1>1 DEF Advance, Goto
  <2> QED
    BY <1>1, <2>1, AccountingStay DEF Advance, adder
<1>2. CASE nxt[t] # Null
  <2>1. fron[t] \in Node /\ front = fron[t]
    BY <1>a, HeldIsNode DEF Advance, HoldPC
  <2>2. fron[t] \notin passed
    BY <2>1 DEF IInv, QueueInv, PassedBehind, IsFront
  <2>3. Cardinality(passed') = Cardinality(passed) + 1
    BY <1>2, <2>2, Sizes, FS_AddElement DEF Advance, Accounting
  <2>4. Uncounting' = Uncounting \cup {t} /\ t \notin Uncounting
    BY <1>a, <1>2 DEF Advance, Goto, Uncounting
  <2>5. Cardinality(Uncounting') = Cardinality(Uncounting) + 1 /\ Cardinality(Uncounting) \in Nat
    <3>1. IsFiniteSet(Uncounting) /\ Cardinality(Uncounting) \in Nat
      BY ThreadsFinite DEF Uncounting
    <3> QED
      BY <2>4, <3>1, FS_AddElement
  <2>6. UNCHANGED <<added, queuedItemCount, Uncounted>>
    BY DEF Advance, adder, Uncounted
  <2> QED
    BY <2>3, <2>5, <2>6, Sizes DEF Accounting, Uncounted
<1> QED
  BY <1>1, <1>2

\* The count follows.
LEMMA AccountingUncount ==
  ASSUME IInv, Accounting, NEW t \in Thread, Uncount(t) PROVE Accounting'
<1>a. pc \in [Thread -> PC] /\ pc[t] = "uncount"
  BY DEF IInv, TypeOK, Uncount, At
<1>1. Uncounting' = Uncounting \ {t} /\ t \in Uncounting
  BY <1>a DEF Uncount, Goto, Uncounting
<1>2. Cardinality(Uncounting') = Cardinality(Uncounting) - 1 /\ Cardinality(Uncounting) \in Nat
  <2>1. IsFiniteSet(Uncounting) /\ Cardinality(Uncounting) \in Nat
    BY ThreadsFinite DEF Uncounting
  <2> QED
    BY <1>1, <2>1, FS_RemoveElement
<1>3. UNCHANGED <<added, passed, Uncounted>> /\ queuedItemCount' = queuedItemCount - 1
  BY DEF Uncount, adder, Uncounted
<1> QED
  BY <1>2, <1>3, Sizes DEF Accounting, Uncounted

\* Every step keeps the books.
LEMMA NextAccounting == ASSUME IInv, Accounting, Next PROVE Accounting'
<1> USE ConstantFacts
<1>a. pc \in [Thread -> PC]
  BY DEF IInv, TypeOK
<1>1. CASE QueueEarly \/ QueueLate \/ QueueLazy
  BY <1>1, AccountingQueued DEF QueueEarly, QueueLate, QueueLazy, At, Free
<1>2. CASE CountQueued
  <2>1. UNCHANGED <<added, passed, Uncounting>> /\ queuedItemCount' = queuedItemCount + 1
    BY <1>2 DEF CountQueued, Uncounting
  <2>2. Uncounted = 1 /\ Uncounted' = 0
    BY <1>2 DEF CountQueued, Uncounted
  <2>3. Cardinality(Uncounting) \in Nat
    BY ThreadsFinite DEF Uncounting
  <2> QED
    BY <2>1, <2>2, <2>3, Sizes DEF Accounting
<1>3. CASE LinkQueued
  <2>1. UNCHANGED <<added, passed, Uncounting, queuedItemCount>>
    BY <1>3 DEF LinkQueued, Uncounting
  <2>2. Uncounted = 0 /\ Uncounted' = 0
    BY <1>3 DEF LinkQueued, Uncounted
  <2> QED
    BY <2>1, <2>2 DEF Accounting
<1>4. CASE Startup
  <2>1. \A t \in Thread : pc[t] \in {"parse", "unborn"}
    BY <1>4 DEF Startup, At, IInv, Calling, Thread
  <2>2. \A t \in Thread : pc'[t] \in {"import", "start"}
    BY <1>4 DEF Startup
  <2> QED
    BY <1>4, <2>1, <2>2, AccountingStay DEF Startup, queue, adder
<1>5. CASE SkipStartup \/ AwaitImport \/ BeginCompile \/ SetQueueInitialized \/ AwaitShutdown
  <2>1. UNCHANGED <<queue, adder>> /\ pc[Main] # "uncount"
    BY <1>5
    DEF SkipStartup, AwaitImport, BeginCompile, SetQueueInitialized, AwaitShutdown, At, queue
  <2>2. pc' = pc \/ \E l \in {"import", "compile", "start", "exited"} : pc' = [pc EXCEPT ![Main] = l]
    BY <1>5 DEF SkipStartup, AwaitImport, BeginCompile, SetQueueInitialized, AwaitShutdown, Goto
  <2>3. \A t \in Thread : pc'[t] = "uncount" <=> pc[t] = "uncount"
    BY <1>a, <2>1, <2>2
  <2> QED
    BY <2>1, <2>3, AccountingStay DEF queue, adder
<1>6. ASSUME NEW t \in Thread, TryDeque(t) PROVE Accounting'
  <2>1. CASE Advance(t)
    BY <2>1, AccountingAdvance
  <2>2. CASE Uncount(t)
    BY <2>2, AccountingUncount
  <2>3. CASE LoadFront(t) \/ LoadNext(t) \/ AdvanceFails(t) \/ Reload(t) \/ Restore(t) \/ TestRan(t)
    <3>1. UNCHANGED <<added, passed, queuedItemCount, adding, counted>>
      BY <2>3 DEF LoadFront, LoadNext, AdvanceFails, Reload, Restore, TestRan, queue, adder
    <3>2. \A u \in Thread : pc'[u] = "uncount" <=> pc[u] = "uncount"
      BY <1>a, <2>3 DEF LoadFront, LoadNext, AdvanceFails, Reload, Restore, TestRan, At, Goto
    <3> QED
      BY <3>1, <3>2, AccountingStay
  <2> QED
    BY <1>6, <2>1, <2>2, <2>3 DEF TryDeque
<1>7. ASSUME NEW t \in Thread, WorkerMain(t) PROVE Accounting'
  <2>1. UNCHANGED <<queue, adder>>
    BY <1>7 DEF WorkerMain, StartWorker, TryRun, TestStop, TestCount, TestInitialized, LoadWaiters,
         TestLast, StopWorkers, Leave, BeginWait, EndWait, queue
  <2>2. \A u \in Thread : pc'[u] = "uncount" <=> pc[u] = "uncount"
    BY <1>a, <1>7 DEF WorkerMain, StartWorker, TryRun, TestStop, TestCount, TestInitialized, LoadWaiters,
         TestLast, StopWorkers, Leave, BeginWait, EndWait, At, Goto
  <2> QED
    BY <2>1, <2>2, AccountingStay DEF queue, adder
<1>8. ASSUME NEW t \in Thread, RunJob(t) PROVE Accounting'
  <2>1. UNCHANGED <<queue, adder>> /\ calls[t] # <<>>
    BY <1>8 DEF RunJob, FinishRun, FailRun, AwaitInRun, Inside, queue
  <2>2. pc[t] # "uncount"
    BY <2>1 DEF IInv, Calling
  <2>3. pc' = pc \/ \E l \in {"deque", "failed"} : pc' = [pc EXCEPT ![t] = l]
    BY <1>8 DEF RunJob, FinishRun, FailRun, AwaitInRun, Goto
  <2>4. \A u \in Thread : pc'[u] = "uncount" <=> pc[u] = "uncount"
    BY <1>a, <2>2, <2>3
  <2> QED
    BY <2>1, <2>4, AccountingStay DEF queue, adder
<1> QED
  BY <1>1, <1>2, <1>3, <1>4, <1>5, <1>6, <1>7, <1>8 DEF Next, MainStep

\* Accounting holds in every reachable state.
LEMMA InductiveAccounting == Spec => []Accounting
<1>1. Init => Accounting
  <2> SUFFICES ASSUME Init PROVE Accounting
    OBVIOUS
  <2>1. Uncounting = {}
    BY DEF Init, Uncounting
  <2> QED
    BY <2>1, FS_EmptySet DEF Init, Accounting, Uncounted
<1>2. IInv /\ Accounting /\ [Next]_vars => Accounting'
  <2> SUFFICES ASSUME IInv, Accounting, UNCHANGED vars PROVE Accounting'
    BY NextAccounting
  <2> QED
    BY AccountingStay DEF vars, queue, adder
<1> QED
  BY <1>1, <1>2, Inductive, PTL DEF Spec

\* The count of queued items is the number of nodes behind the front, however many threads
\* are in the middle of tryDeque, and as a size_t never wraps around.
THEOREM QueueAccountingCorrect == Spec => []QueueAccounting
<1>1. IInv /\ Accounting => QueueAccounting
  BY CountNotNegative DEF Accounting, QueueAccounting, Uncounted, Uncounting
<1> QED
  BY <1>1, Inductive, InductiveAccounting, PTL

---------------------------------------------------------------------------
(* The decision to stop                                                    *)

\* A node that has left the queue is in the hands of a thread of tryDeque, or was claimed.
Holding(t, n) == pc[t] \in {"uncount", "testRan", "tryRun"} /\ fron[t] = n

Handled == \A n \in passed : runner[n] # Null \/ \E t \in Thread : Holding(t, n)

\* waiterCount counts the threads in a timed wait.
WaitingThreads == {t \in Thread : pc[t] = "waiting"}

Waiting == waiterCount = Cardinality(WaitingThreads)

\* What the shutdown test has seen stays so.
Stages ==
  /\ \A t \in Thread : /\ pc[t] = "leave" => stopWorkers
                       /\ pc[t] \in {"loadWaiters", "testLast", "stop"} => queueInitialized
  /\ queueInitialized => pc[Main] \notin {"parse", "import", "compile"}

\* A thread that has counted all others as waiting had found the queue empty before; what had
\* left the queue by then has run.  Until someone decides to stop, no thread leaves, so that
\* threads that start meanwhile only make it see too few waiters.
Deciding ==
  \A t \in Thread :
    /\ drained[t] \subseteq passed
    /\ pc[t] = "testLast" /\ ~stopWorkers /\ waitersSeen[t] >= workerCount - 1 =>
         drained[t] \subseteq hasRan

DInv == Handled /\ Waiting /\ Stages /\ Deciding /\ DrainedJobsRan

\* What is passed, claimed, run or decided stays so.
LEMMA Monotone ==
  ASSUME IInv, Next
  PROVE  /\ hasRan \subseteq hasRan' /\ passed \subseteq passed'
         /\ stopWorkers => stopWorkers'
         /\ queueInitialized => queueInitialized'
         /\ \A n \in Node : runner[n] # Null => runner'[n] # Null
<1> USE ConstantFacts
<1>a. runner \in [Node -> Thread \cup {Null}] /\ stopWorkers \in BOOLEAN /\ queueInitialized \in BOOLEAN
  BY DEF IInv, TypeOK
<1>1. ASSUME NEW t \in Thread, NEW j \in Node, Claim(t, j)
      PROVE  /\ hasRan \subseteq hasRan'
             /\ \A n \in Node : runner[n] # Null => runner'[n] # Null
  BY <1>a, <1>1 DEF Claim
<1>2. ASSUME MainStep
      PROVE  /\ hasRan \subseteq hasRan' /\ passed \subseteq passed'
             /\ stopWorkers => stopWorkers'
             /\ queueInitialized => queueInitialized'
             /\ \A n \in Node : runner[n] # Null => runner'[n] # Null
  <2>1. CASE Startup
    BY <1>a, <2>1 DEF Startup, queue, control
  <2>2. CASE AwaitImport
    <3>1. \E j \in Node : Claim(Main, j)
      BY <2>2, ConstantsAssumption DEF AwaitImport
    <3> QED
      BY <1>1, <2>2, <3>1 DEF AwaitImport, queue, control
  <2>3. CASE ~Startup /\ ~AwaitImport
    BY <1>2, <2>3
    DEF MainStep, QueueEarly, QueueLate, QueueLazy, ExchangeBack, CountQueued, LinkQueued,
        SkipStartup, BeginCompile, SetQueueInitialized, AwaitShutdown, queue, control, jobs
  <2> QED
    BY <2>1, <2>2, <2>3
<1>3. ASSUME NEW t \in Thread, TryDeque(t)
      PROVE  /\ hasRan \subseteq hasRan' /\ passed \subseteq passed'
             /\ stopWorkers => stopWorkers'
             /\ queueInitialized => queueInitialized'
             /\ \A n \in Node : runner[n] # Null => runner'[n] # Null
  BY <1>3 DEF TryDeque, LoadFront, LoadNext, Advance, AdvanceFails, Reload, Restore, Uncount, TestRan,
              queue, control, jobs
<1>4. ASSUME NEW t \in Thread, WorkerMain(t)
      PROVE  /\ hasRan \subseteq hasRan' /\ passed \subseteq passed'
             /\ stopWorkers => stopWorkers'
             /\ queueInitialized => queueInitialized'
             /\ \A n \in Node : runner[n] # Null => runner'[n] # Null
  <2>1. CASE TryRun(t)
    <3>1. fron[t] \in Node
      BY <2>1, HeldIsNode DEF TryRun, At, HoldPC
    <3> QED
      BY <1>1, <2>1, <3>1 DEF TryRun, queue, control, jobs
  <2>2. CASE ~TryRun(t)
    BY <1>4, <2>2
    DEF WorkerMain, StartWorker, TestStop, TestCount, TestInitialized, LoadWaiters, TestLast,
        StopWorkers, Leave, BeginWait, EndWait, queue, control, jobs
  <2> QED
    BY <2>1, <2>2
<1>5. ASSUME NEW t \in Thread, RunJob(t)
      PROVE  /\ hasRan \subseteq hasRan' /\ passed \subseteq passed'
             /\ stopWorkers => stopWorkers'
             /\ queueInitialized => queueInitialized'
             /\ \A n \in Node : runner[n] # Null => runner'[n] # Null
  <2>1. ASSUME NEW j \in Node, NEW k \in Deps[j], AwaitInRun(t, j, k)
        PROVE  /\ hasRan \subseteq hasRan' /\ passed \subseteq passed'
               /\ stopWorkers => stopWorkers'
               /\ queueInitialized => queueInitialized'
               /\ \A n \in Node : runner[n] # Null => runner'[n] # Null
    BY <1>1, <2>1 DEF AwaitInRun, queue, control
  <2>2. CASE \E j \in Node : FinishRun(t, j) \/ FailRun(t, j)
    BY <2>2 DEF FinishRun, FailRun, queue, control, jobs
  <2> QED
    BY <1>5, <2>1, <2>2 DEF RunJob
<1> QED
  BY <1>2, <1>3, <1>4, <1>5 DEF Next

---------------------------------------------------------------------------
(* Who holds what has left the queue                                       *)

\* A step of t that keeps what the other threads hold, and lets go of nothing but a claimed node.
LEMMA HandledStep ==
  ASSUME IInv, Handled, Next, NEW t \in Thread,
         \A u \in Thread : u # t => pc'[u] = pc[u] /\ fron'[u] = fron[u],
         \A n \in passed : Holding(t, n) => Holding(t, n)' \/ runner'[n] # Null,
         \A n \in passed' \ passed : Holding(t, n)'
  PROVE  Handled'
<1> SUFFICES ASSUME NEW n \in passed' PROVE runner'[n] # Null \/ \E u \in Thread : Holding(u, n)'
  BY DEF Handled
<1>1. CASE n \notin passed
  BY <1>1
<1>2. CASE n \in passed
  <2>0. n \in Node
    BY <1>2 DEF IInv, TypeOK
  <2>1. CASE runner[n] # Null
    BY <2>0, <2>1, Monotone
  <2>2. ASSUME NEW u \in Thread, Holding(u, n)
        PROVE  runner'[n] # Null \/ Holding(u, n)'
    BY <1>2, <2>2 DEF Holding
  <2> QED
    BY <1>2, <2>1, <2>2 DEF Handled
<1> QED
  BY <1>1, <1>2

\* Every step keeps Handled.
LEMMA NextHandled == ASSUME RInv, Handled, Next PROVE Handled'
<1> USE ConstantFacts
<1>a. /\ pc \in [Thread -> PC] /\ fron \in [Thread -> Node \cup {Null}] /\ IInv /\ passed \subseteq Node
  BY DEF RInv, IInv, TypeOK
<1>1. CASE Startup
  <2>1. passed' = passed
    BY <1>1 DEF Startup, queue
  <2>2. \A t \in Thread : pc[t] \in {"parse", "unborn"}
    BY <1>a, <1>1 DEF Startup, At, IInv, Calling, Thread
  <2>3. \A n \in passed : runner[n] # Null
    BY <2>2 DEF Handled, Holding
  <2> QED
    BY <1>a, <2>1, <2>3, Monotone DEF Handled
<1>2. CASE MainStep /\ ~Startup
  <2>1. UNCHANGED <<fron, passed>>
    BY <1>2
    DEF MainStep, QueueEarly, QueueLate, QueueLazy, ExchangeBack, CountQueued, LinkQueued, AwaitImport,
        SkipStartup, BeginCompile, SetQueueInitialized, AwaitShutdown, queue, locals
  <2>2. \A u \in Thread : u # Main => pc'[u] = pc[u]
    BY <1>a, <1>2
    DEF MainStep, QueueEarly, QueueLate, QueueLazy, ExchangeBack, CountQueued, LinkQueued, AwaitImport,
        SkipStartup, BeginCompile, SetQueueInitialized, AwaitShutdown, Goto
  <2>3. pc'[Main] = pc[Main] \/ pc[Main] \in {"parse", "import", "compile", "done"}
    BY <1>a, <1>2
    DEF MainStep, QueueEarly, QueueLate, QueueLazy, ExchangeBack, CountQueued, LinkQueued, AwaitImport,
        SkipStartup, BeginCompile, SetQueueInitialized, AwaitShutdown, At
  <2>4. \A n \in passed : Holding(Main, n) => Holding(Main, n)'
    BY <2>1, <2>3 DEF Holding
  <2> QED
    BY <1>a, <2>1, <2>2, <2>4, HandledStep
<1>3. ASSUME NEW t \in Thread, TryDeque(t) PROVE Handled'
  <2>1. \A u \in Thread : u # t => pc'[u] = pc[u] /\ fron'[u] = fron[u]
    BY <1>a, <1>3 DEF TryDeque, LoadFront, LoadNext, Advance, AdvanceFails, Reload, Restore, Uncount, TestRan,
       Goto, locals
  <2>2. \A n \in passed : Holding(t, n) => Holding(t, n)' \/ runner'[n] # Null
    <3>1. CASE Uncount(t)
      BY <1>a, <3>1 DEF Uncount, Goto, At, Holding, locals
    <3>2. CASE TestRan(t)
      <4>1. \A n \in passed : n \in hasRan => runner'[n] # Null
        BY <1>a, <3>2 DEF TestRan, RInv, Claims, jobs
      <4> QED
        BY <1>a, <3>2, <4>1 DEF TestRan, Goto, At, Holding, locals
    <3>3. CASE ~Uncount(t) /\ ~TestRan(t)
      BY <1>3, <3>3 DEF TryDeque, LoadFront, LoadNext, Advance, AdvanceFails, Reload, Restore, At, Holding
    <3> QED
      BY <3>1, <3>2, <3>3
  <2>3. \A n \in passed' \ passed : Holding(t, n)'
    <3>1. CASE Advance(t)
      BY <1>a, <3>1 DEF Advance, Goto, Holding, locals
    <3>2. CASE ~Advance(t)
      BY <1>3, <3>2 DEF TryDeque, LoadFront, LoadNext, AdvanceFails, Reload, Restore, Uncount, TestRan, queue
    <3> QED
      BY <3>1, <3>2
  <2> QED
    BY <1>a, <2>1, <2>2, <2>3, HandledStep
<1>4. ASSUME NEW t \in Thread, WorkerMain(t) PROVE Handled'
  <2>1. UNCHANGED <<fron, passed>>
    BY <1>4 DEF WorkerMain, StartWorker, TryRun, TestStop, TestCount, TestInitialized, LoadWaiters,
       TestLast, StopWorkers, Leave, BeginWait, EndWait, queue, locals
  <2>2. \A u \in Thread : u # t => pc'[u] = pc[u]
    BY <1>a, <1>4 DEF WorkerMain, StartWorker, TryRun, TestStop, TestCount, TestInitialized, LoadWaiters,
       TestLast, StopWorkers, Leave, BeginWait, EndWait, Goto
  <2>3. \A n \in passed : Holding(t, n) => runner'[n] # Null
    <3>1. CASE TryRun(t)
      BY <1>a, <3>1 DEF TryRun, Claim, Holding, At, RInv, IInv, TypeOK, jobs
    <3>2. CASE ~TryRun(t)
      BY <1>4, <3>2 DEF WorkerMain, StartWorker, TestStop, TestCount, TestInitialized, LoadWaiters,
         TestLast, StopWorkers, Leave, BeginWait, EndWait, At, Holding
    <3> QED
      BY <3>1, <3>2
  <2> QED
    BY <1>a, <2>1, <2>2, <2>3, HandledStep
<1>5. ASSUME NEW t \in Thread, RunJob(t) PROVE Handled'
  <2>1. UNCHANGED <<fron, passed>> /\ calls[t] # <<>>
    BY <1>5 DEF RunJob, FinishRun, FailRun, AwaitInRun, Inside, queue, locals
  <2>2. \A u \in Thread : u # t => pc'[u] = pc[u]
    BY <1>a, <1>5 DEF RunJob, FinishRun, FailRun, AwaitInRun, Goto
  <2>3. \A n : ~Holding(t, n)
    BY <1>a, <2>1 DEF IInv, Calling, Holding
  <2> QED
    BY <1>a, <2>1, <2>2, <2>3, HandledStep
<1> QED
  BY <1>1, <1>2, <1>3, <1>4, <1>5 DEF Next

---------------------------------------------------------------------------
(* The count of waiting threads and the stages of the shutdown test        *)

\* A step that neither begins nor ends a wait.
LEMMA WaitingStay ==
  ASSUME Waiting, waiterCount' = waiterCount,
         \A t \in Thread : pc'[t] = "waiting" <=> pc[t] = "waiting"
  PROVE  Waiting'
<1>1. WaitingThreads' = WaitingThreads
  BY DEF WaitingThreads
<1> QED
  BY <1>1 DEF Waiting

\* Every step keeps the count of waiting threads.
LEMMA NextWaiting == ASSUME IInv, Waiting, Next PROVE Waiting'
<1> USE ConstantFacts
<1>a. pc \in [Thread -> PC]
  BY DEF IInv, TypeOK
<1>b. IsFiniteSet(WaitingThreads) /\ Cardinality(WaitingThreads) \in Nat
  BY ThreadsFinite DEF WaitingThreads
<1>1. CASE Startup
  <2>1. \A t \in Thread : pc[t] \in {"parse", "unborn"}
    BY <1>1 DEF Startup, At, IInv, Calling, Thread
  <2>2. \A t \in Thread : pc'[t] \in {"import", "start"}
    BY <1>1 DEF Startup
  <2> QED
    BY <1>1, <2>1, <2>2, WaitingStay DEF Startup, control
<1>2. CASE MainStep /\ ~Startup
  <2>1. waiterCount' = waiterCount
    BY <1>2
    DEF MainStep, QueueEarly, QueueLate, QueueLazy, ExchangeBack, CountQueued, LinkQueued, AwaitImport,
        SkipStartup, BeginCompile, SetQueueInitialized, AwaitShutdown, control
  <2>2. \A t \in Thread : pc'[t] = "waiting" <=> pc[t] = "waiting"
    BY <1>a, <1>2
    DEF MainStep, QueueEarly, QueueLate, QueueLazy, ExchangeBack, CountQueued, LinkQueued, AwaitImport,
        SkipStartup, BeginCompile, SetQueueInitialized, AwaitShutdown, At, Goto
  <2> QED
    BY <2>1, <2>2, WaitingStay
<1>3. ASSUME NEW t \in Thread, TryDeque(t) PROVE Waiting'
  <2>1. waiterCount' = waiterCount
    BY <1>3 DEF TryDeque, LoadFront, LoadNext, Advance, AdvanceFails, Reload, Restore, Uncount, TestRan,
       control
  <2>2. \A u \in Thread : pc'[u] = "waiting" <=> pc[u] = "waiting"
    BY <1>a, <1>3 DEF TryDeque, LoadFront, LoadNext, Advance, AdvanceFails, Reload, Restore, Uncount,
       TestRan, At, Goto
  <2> QED
    BY <2>1, <2>2, WaitingStay
<1>4. ASSUME NEW t \in Thread, BeginWait(t) PROVE Waiting'
  <2>1. WaitingThreads' = WaitingThreads \cup {t} /\ t \notin WaitingThreads
    BY <1>a, <1>4 DEF BeginWait, At, Goto, WaitingThreads
  <2>2. Cardinality(WaitingThreads') = Cardinality(WaitingThreads) + 1
    BY <1>b, <2>1, FS_AddElement
  <2> QED
    BY <1>4, <2>2 DEF BeginWait, Waiting
<1>5. ASSUME NEW t \in Thread, EndWait(t) PROVE Waiting'
  <2>1. WaitingThreads' = WaitingThreads \ {t} /\ t \in WaitingThreads
    BY <1>a, <1>5 DEF EndWait, At, Goto, WaitingThreads
  <2>2. Cardinality(WaitingThreads') = Cardinality(WaitingThreads) - 1
    BY <1>b, <2>1, FS_RemoveElement
  <2> QED
    BY <1>5, <2>2 DEF EndWait, Waiting
<1>6. ASSUME NEW t \in Thread, WorkerMain(t), ~BeginWait(t), ~EndWait(t) PROVE Waiting'
  <2>1. waiterCount' = waiterCount
    BY <1>6 DEF WorkerMain, StartWorker, TryRun, TestStop, TestCount, TestInitialized, LoadWaiters,
       TestLast, StopWorkers, Leave, control
  <2>2. \A u \in Thread : pc'[u] = "waiting" <=> pc[u] = "waiting"
    BY <1>a, <1>6 DEF WorkerMain, StartWorker, TryRun, TestStop, TestCount, TestInitialized, LoadWaiters,
       TestLast, StopWorkers, Leave, At, Goto
  <2> QED
    BY <2>1, <2>2, WaitingStay
<1>7. ASSUME NEW t \in Thread, RunJob(t) PROVE Waiting'
  <2>1. waiterCount' = waiterCount /\ calls[t] # <<>>
    BY <1>7 DEF RunJob, FinishRun, FailRun, AwaitInRun, Inside, control
  <2>2. pc[t] # "waiting"
    BY <2>1 DEF IInv, Calling
  <2>3. pc' = pc \/ \E l \in {"deque", "failed"} : pc' = [pc EXCEPT ![t] = l]
    BY <1>7 DEF RunJob, FinishRun, FailRun, AwaitInRun, Goto
  <2>4. \A u \in Thread : pc'[u] = "waiting" <=> pc[u] = "waiting"
    BY <1>a, <2>2, <2>3
  <2> QED
    BY <2>1, <2>4, WaitingStay
<1> QED
  BY <1>1, <1>2, <1>3, <1>4, <1>5, <1>6, <1>7 DEF Next

\* A step of t that enters none of these stages without its test, and does not take main back.
LEMMA StagesStep ==
  ASSUME IInv, Stages, Next, NEW t \in Thread,
         \A u \in Thread : u # t => pc'[u] = pc[u],
         pc'[t] = "leave" => pc[t] = "leave" \/ stopWorkers',
         pc'[t] \in {"loadWaiters", "testLast", "stop"} =>
           pc[t] \in {"loadWaiters", "testLast", "stop"} \/ queueInitialized',
         t = Main /\ pc[Main] \notin {"parse", "import", "compile"} =>
           pc'[Main] \notin {"parse", "import", "compile"},
         queueInitialized' = queueInitialized
  PROVE  Stages'
<1>1. Main \in Thread
  BY ConstantFacts
<1>2. stopWorkers => stopWorkers'
  BY Monotone
<1>3. \A u \in Thread : pc'[u] = "leave" => stopWorkers'
  BY <1>2 DEF Stages
<1>4. \A u \in Thread : pc'[u] \in {"loadWaiters", "testLast", "stop"} => queueInitialized'
  BY DEF Stages
<1>5. queueInitialized' => pc'[Main] \notin {"parse", "import", "compile"}
  BY <1>1 DEF Stages
<1> QED
  BY <1>3, <1>4, <1>5 DEF Stages

\* Every step keeps Stages.
LEMMA NextStages == ASSUME IInv, Stages, Next PROVE Stages'
<1> USE ConstantFacts
<1>a. pc \in [Thread -> PC]
  BY DEF IInv, TypeOK
<1>1. CASE Startup
  <2>1. pc[Main] = "parse" /\ queueInitialized' = queueInitialized
    BY <1>1 DEF Startup, At, control
  <2>2. \A t \in Thread : pc'[t] \in {"import", "start"}
    BY <1>1 DEF Startup
  <2> QED
    BY <2>1, <2>2 DEF Stages
<1>2. CASE SetQueueInitialized
  <2>1. queueInitialized' /\ pc'[Main] = "start" /\ stopWorkers' = stopWorkers
    BY <1>a, <1>2 DEF SetQueueInitialized, Goto
  <2>2. \A u \in Thread : u # Main => pc'[u] = pc[u]
    BY <1>a, <1>2 DEF SetQueueInitialized, Goto
  <2> QED
    BY <2>1, <2>2 DEF Stages
<1>3. CASE MainStep /\ ~Startup /\ ~SetQueueInitialized
  <2>1. queueInitialized' = queueInitialized
    BY <1>3
    DEF MainStep, QueueEarly, QueueLate, QueueLazy, ExchangeBack, CountQueued, LinkQueued, AwaitImport,
        SkipStartup, BeginCompile, AwaitShutdown, control
  <2>2. \A u \in Thread : u # Main => pc'[u] = pc[u]
    BY <1>a, <1>3
    DEF MainStep, QueueEarly, QueueLate, QueueLazy, ExchangeBack, CountQueued, LinkQueued, AwaitImport,
        SkipStartup, BeginCompile, AwaitShutdown, Goto
  <2>3. \/ pc'[Main] = pc[Main]
        \/ pc[Main] \in {"parse", "import"} /\ pc'[Main] \in {"import", "compile"}
        \/ pc'[Main] = "exited"
    BY <1>a, <1>3
    DEF MainStep, QueueEarly, QueueLate, QueueLazy, ExchangeBack, CountQueued, LinkQueued, AwaitImport,
        SkipStartup, BeginCompile, AwaitShutdown, At, Goto
  <2> QED
    BY <2>1, <2>2, <2>3, StagesStep
<1>4. ASSUME NEW t \in Thread, TryDeque(t) PROVE Stages'
  <2>1. queueInitialized' = queueInitialized
    BY <1>4 DEF TryDeque, LoadFront, LoadNext, Advance, AdvanceFails, Reload, Restore, Uncount, TestRan,
       control
  <2>2. \E l \in {"testStop", "loadNext", "testRan", "advance", "restore", "uncount", "reload",
                  "tryRun"} : pc' = [pc EXCEPT ![t] = l]
    BY <1>4 DEF TryDeque, LoadFront, LoadNext, Advance, AdvanceFails, Reload, Restore, Uncount, TestRan, Goto
  <2>3. /\ \A u \in Thread : u # t => pc'[u] = pc[u]
        /\ pc'[t] \notin {"leave", "loadWaiters", "testLast", "stop", "parse", "import", "compile"}
    BY <1>a, <2>2
  <2> QED
    BY <2>1, <2>3, StagesStep
<1>5. ASSUME NEW t \in Thread, WorkerMain(t) PROVE Stages'
  <2>1. queueInitialized' = queueInitialized
    BY <1>5 DEF WorkerMain, StartWorker, TryRun, TestStop, TestCount, TestInitialized, LoadWaiters,
       TestLast, StopWorkers, Leave, BeginWait, EndWait, control
  <2>2. \A u \in Thread : u # t => pc'[u] = pc[u]
    BY <1>a, <1>5 DEF WorkerMain, StartWorker, TryRun, TestStop, TestCount, TestInitialized, LoadWaiters,
       TestLast, StopWorkers, Leave, BeginWait, EndWait, Goto
  <2>3. /\ pc'[t] = "leave" => pc[t] = "leave" \/ stopWorkers'
        /\ pc'[t] \in {"loadWaiters", "testLast", "stop"} =>
             pc[t] \in {"loadWaiters", "testLast", "stop"} \/ queueInitialized'
        /\ pc'[t] \notin {"parse", "import", "compile"}
    BY <1>a, <1>5 DEF WorkerMain, StartWorker, TryRun, TestStop, TestCount, TestInitialized, LoadWaiters,
       TestLast, StopWorkers, Leave, BeginWait, EndWait, At, Goto, control
  <2> QED
    BY <2>1, <2>2, <2>3, StagesStep
<1>6. ASSUME NEW t \in Thread, RunJob(t) PROVE Stages'
  <2>1. queueInitialized' = queueInitialized
    BY <1>6 DEF RunJob, FinishRun, FailRun, AwaitInRun, control
  <2>2. pc' = pc \/ \E l \in {"deque", "failed"} : pc' = [pc EXCEPT ![t] = l]
    BY <1>6 DEF RunJob, FinishRun, FailRun, AwaitInRun, Goto
  <2>3. /\ \A u \in Thread : u # t => pc'[u] = pc[u]
        /\ pc'[t] = pc[t] \/ pc'[t] \in {"deque", "failed"}
    BY <1>a, <2>2
  <2> QED
    BY <2>1, <2>3, StagesStep
<1> QED
  BY <1>1, <1>2, <1>3, <1>4, <1>5, <1>6 DEF Next

---------------------------------------------------------------------------
(* The last thread                                                         *)

\* The number of waiting threads at the load settles it: if nobody else is alive and not
\* waiting, nobody holds a node or is inside a job, and whatever is passed has run.
LEMMA LastSeesAll ==
  ASSUME EInv, Handled, Waiting, Stages, NEW t \in Thread, LoadWaiters(t),
         waiterCount >= workerCount - 1
  PROVE  passed \subseteq hasRan
<1>a. /\ pc \in [Thread -> PC] /\ Alive /\ pc[t] = "loadWaiters" /\ queueInitialized /\ Main \in Thread
      /\ runner \in [Node -> Thread \cup {Null}] /\ passed \subseteq Node
  BY ConstantFacts DEF EInv, RInv, IInv, TypeOK, LoadWaiters, At, Free, Stages
<1>1. LivingThreads = WaitingThreads \cup {t}
  <2> DEFINE Known == WaitingThreads \cup {t}
  <2>1. IsFiniteSet(WaitingThreads) /\ Cardinality(WaitingThreads) \in Nat /\ t \notin WaitingThreads
    BY <1>a, ThreadsFinite DEF WaitingThreads
  <2>2. Cardinality(Known) = waiterCount + 1
    BY <2>1, FS_AddElement DEF Waiting
  <2>3. Known \in SUBSET LivingThreads
    BY <1>a DEF WaitingThreads, LivingThreads, Living, PC
  <2>4. IsFiniteSet(LivingThreads) /\ Cardinality(LivingThreads) = workerCount /\ workerCount \in Int
    BY <1>a, LivingFinite DEF EInv, Counting, RInv, IInv, TypeOK
  <2>5. Cardinality(Known) <= Cardinality(LivingThreads)
    BY <2>3, <2>4, FS_Subset
  <2>6. Cardinality(Known) = Cardinality(LivingThreads)
    BY <2>1, <2>2, <2>4, <2>5 DEF Waiting
  <2> QED
    BY <2>3, <2>4, <2>6, FS_Subset
<1>2. \A u \in Thread : pc[u] \in Living => pc[u] \in {"waiting", "loadWaiters"}
  BY <1>a, <1>1 DEF LivingThreads, WaitingThreads
<1> SUFFICES ASSUME NEW n \in passed, n \notin hasRan PROVE FALSE
  OBVIOUS
<1>3. runner[n] # Null
  BY <1>2 DEF Handled, Holding, Living, PC
<1> DEFINE u == runner[n]
<1>4. u \in Thread /\ n \in Node
  BY <1>a, <1>3
<1>5. calls[u] # <<>>
  <2>1. \E i \in Frames(u) : calls[u][i] = n
    BY <1>3, <1>4 DEF EInv, RInv, Claims
  <2> QED
    BY <2>1 DEF Frames
<1>6. pc[u] \in {"run", "failed"} \/ pc[Main] = "import"
  BY <1>4, <1>5 DEF EInv, RInv, IInv, Calling
<1> QED
  BY <1>a, <1>2, <1>4, <1>6 DEF Stages, Alive, Living, PC

\* A step that does not concern the decision of any thread but t.
LEMMA DecidingStep ==
  ASSUME IInv, Deciding, DrainedJobsRan, Next, NEW t \in Thread,
         \A u \in Thread : u # t => /\ pc'[u] = pc[u] /\ waitersSeen'[u] = waitersSeen[u]
                                    /\ drained'[u] = drained[u],
         workerCount' >= workerCount \/ stopWorkers,
         drained'[t] \subseteq passed',
         pc'[t] = "testLast" /\ ~stopWorkers' /\ waitersSeen'[t] >= workerCount' - 1 =>
           drained'[t] \subseteq hasRan',
         pc'[t] = "stop" /\ ~stopWorkers' => drained'[t] \subseteq hasRan'
  PROVE  Deciding' /\ DrainedJobsRan'
<1>1. workerCount \in Int /\ workerCount' \in Int /\ waitersSeen \in [Thread -> Int]
  <2>1. TypeOK'
    BY NextTypes
  <2> QED
    BY <2>1 DEF IInv, TypeOK
<1>2. hasRan \subseteq hasRan' /\ passed \subseteq passed' /\ (stopWorkers => stopWorkers')
  BY Monotone
<1>3. ASSUME NEW u \in Thread, u # t
      PROVE  /\ drained'[u] \subseteq passed'
             /\ pc'[u] = "testLast" /\ ~stopWorkers' /\ waitersSeen'[u] >= workerCount' - 1 =>
                  drained'[u] \subseteq hasRan'
             /\ pc'[u] = "stop" /\ ~stopWorkers' => drained'[u] \subseteq hasRan'
  <2>1. drained[u] \subseteq passed /\ waitersSeen[u] \in Int
    BY <1>1, <1>3 DEF Deciding
  <2>2. ASSUME pc'[u] = "testLast", ~stopWorkers', waitersSeen'[u] >= workerCount' - 1
        PROVE  drained'[u] \subseteq hasRan'
    <3>1. waitersSeen[u] >= workerCount - 1 /\ ~stopWorkers /\ pc[u] = "testLast"
      BY <1>1, <1>2, <1>3, <2>1, <2>2
    <3> QED
      BY <1>2, <1>3, <3>1 DEF Deciding
  <2>3. ASSUME pc'[u] = "stop", ~stopWorkers' PROVE drained'[u] \subseteq hasRan'
    BY <1>2, <1>3, <2>3 DEF DrainedJobsRan
  <2> QED
    BY <1>2, <1>3, <2>1, <2>2, <2>3
<1> QED
  BY <1>3 DEF Deciding, DrainedJobsRan

\* Every step keeps what the decision rests on.
LEMMA NextDeciding ==
  ASSUME EInv, Handled, Waiting, Stages, Deciding, DrainedJobsRan, Next
  PROVE  Deciding' /\ DrainedJobsRan'
<1> USE ConstantFacts
<1>a. /\ pc \in [Thread -> PC] /\ IInv /\ drained \in [Thread -> SUBSET Node]
      /\ waitersSeen \in [Thread -> Int] /\ workerCount \in Int /\ queuedItemCount \in Int
  BY DEF EInv, RInv, IInv, TypeOK
<1>b. hasRan \subseteq hasRan' /\ passed \subseteq passed' /\ (stopWorkers => stopWorkers')
  BY <1>a, Monotone
<1>1. CASE Startup
  <2>1. \A t \in Thread : pc'[t] \in {"import", "start"}
    BY <1>1 DEF Startup
  <2>2. UNCHANGED <<drained, passed>>
    BY <1>1 DEF Startup, queue, locals
  <2> QED
    BY <2>1, <2>2 DEF Deciding, DrainedJobsRan
<1>2. CASE MainStep /\ ~Startup
  <2>1. UNCHANGED <<drained, waitersSeen, workerCount>>
    BY <1>2
    DEF MainStep, QueueEarly, QueueLate, QueueLazy, ExchangeBack, CountQueued, LinkQueued, AwaitImport,
        SkipStartup, BeginCompile, SetQueueInitialized, AwaitShutdown, control, locals
  <2>2. /\ \A u \in Thread : u # Main => pc'[u] = pc[u]
        /\ pc'[Main] = pc[Main] \/ pc'[Main] \in {"import", "compile", "start", "exited"}
    BY <1>a, <1>2
    DEF MainStep, QueueEarly, QueueLate, QueueLazy, ExchangeBack, CountQueued, LinkQueued, AwaitImport,
        SkipStartup, BeginCompile, SetQueueInitialized, AwaitShutdown, Goto
  <2>3. drained'[Main] \subseteq passed'
    BY <1>b, <2>1 DEF Deciding
  <2>4. pc'[Main] = "testLast" /\ ~stopWorkers' /\ waitersSeen'[Main] >= workerCount' - 1 =>
          drained'[Main] \subseteq hasRan'
    BY <1>b, <2>1, <2>2 DEF Deciding
  <2>5. pc'[Main] = "stop" /\ ~stopWorkers' => drained'[Main] \subseteq hasRan'
    BY <1>b, <2>1, <2>2 DEF DrainedJobsRan
  <2> QED
    BY <1>a, <2>1, <2>2, <2>3, <2>4, <2>5, DecidingStep
<1>3. ASSUME NEW t \in Thread, TryDeque(t) PROVE Deciding' /\ DrainedJobsRan'
  <2>1. UNCHANGED <<drained, waitersSeen, workerCount>>
    BY <1>3 DEF TryDeque, LoadFront, LoadNext, Advance, AdvanceFails, Reload, Restore, Uncount, TestRan,
       control, locals
  <2>2. \E l \in {"testStop", "loadNext", "testRan", "advance", "restore", "uncount", "reload",
                  "tryRun"} : pc' = [pc EXCEPT ![t] = l]
    BY <1>3 DEF TryDeque, LoadFront, LoadNext, Advance, AdvanceFails, Reload, Restore, Uncount, TestRan, Goto
  <2>3. (\A u \in Thread : u # t => pc'[u] = pc[u]) /\ pc'[t] \notin {"testLast", "stop"}
    BY <1>a, <2>2
  <2>4. drained'[t] \subseteq passed'
    BY <1>b, <2>1 DEF Deciding
  <2> QED
    BY <1>a, <2>1, <2>3, <2>4, DecidingStep
<1>4. ASSUME NEW t \in Thread, RunJob(t) PROVE Deciding' /\ DrainedJobsRan'
  <2>1. UNCHANGED <<drained, waitersSeen, workerCount>> /\ calls[t] # <<>>
    BY <1>4 DEF RunJob, FinishRun, FailRun, AwaitInRun, Inside, control, locals
  <2>2. pc' = pc \/ \E l \in {"deque", "failed"} : pc' = [pc EXCEPT ![t] = l]
    BY <1>4 DEF RunJob, FinishRun, FailRun, AwaitInRun, Goto
  <2>3. pc[t] \notin {"testLast", "stop"}
    BY <1>a, <2>1 DEF IInv, Calling
  <2>4. (\A u \in Thread : u # t => pc'[u] = pc[u]) /\ pc'[t] \notin {"testLast", "stop"}
    BY <1>a, <2>2, <2>3
  <2>5. drained'[t] \subseteq passed'
    BY <1>b, <2>1 DEF Deciding
  <2> QED
    BY <1>a, <2>1, <2>4, <2>5, DecidingStep
<1>5. ASSUME NEW t \in Thread, LoadWaiters(t) PROVE Deciding' /\ DrainedJobsRan'
  <2>1. UNCHANGED <<drained, workerCount, passed>> /\ waitersSeen'[t] = waiterCount
    BY <1>a, <1>5 DEF LoadWaiters, control, queue
  <2>2. /\ \A u \in Thread : u # t => pc'[u] = pc[u] /\ waitersSeen'[u] = waitersSeen[u]
        /\ pc'[t] = "testLast"
    BY <1>a, <1>5 DEF LoadWaiters, Goto
  <2>3. ASSUME waitersSeen'[t] >= workerCount' - 1 PROVE drained'[t] \subseteq hasRan'
    <3>1. passed \subseteq hasRan
      BY <1>5, <2>1, <2>3, LastSeesAll
    <3> QED
      BY <1>b, <2>1, <3>1 DEF Deciding
  <2>4. drained'[t] \subseteq passed'
    BY <1>b, <2>1 DEF Deciding
  <2> QED
    BY <1>a, <2>1, <2>2, <2>3, <2>4, DecidingStep
<1>6. ASSUME NEW t \in Thread, TestLast(t) PROVE Deciding' /\ DrainedJobsRan'
  <2>1. UNCHANGED <<drained, waitersSeen, workerCount, passed>> /\ pc[t] = "testLast"
    BY <1>6 DEF TestLast, At, control, locals, queue
  <2>2. /\ \A u \in Thread : u # t => pc'[u] = pc[u]
        /\ pc'[t] = IF waitersSeen[t] = workerCount - 1 THEN "stop" ELSE "wait"
    BY <1>a, <1>6 DEF TestLast, Goto
  <2>3. ASSUME pc'[t] = "stop", ~stopWorkers' PROVE drained'[t] \subseteq hasRan'
    <3>1. waitersSeen[t] >= workerCount - 1 /\ ~stopWorkers
      BY <1>a, <1>b, <2>2, <2>3
    <3> QED
      BY <1>b, <2>1, <3>1 DEF Deciding
  <2>4. drained'[t] \subseteq passed'
    BY <1>b, <2>1 DEF Deciding
  <2> QED
    BY <1>a, <2>1, <2>2, <2>3, <2>4, DecidingStep
<1>7. ASSUME NEW t \in Thread, TestCount(t) PROVE Deciding' /\ DrainedJobsRan'
  <2>1. /\ UNCHANGED <<waitersSeen, workerCount, passed>>
        /\ \A u \in Thread : u # t => pc'[u] = pc[u] /\ drained'[u] = drained[u]
    BY <1>a, <1>7 DEF TestCount, Goto, control, queue
  <2>2. pc'[t] \in {"testInit", "wait"} /\ drained'[t] \in {passed, drained[t]}
    BY <1>a, <1>7 DEF TestCount, Goto
  <2>3. drained'[t] \subseteq passed'
    BY <2>1, <2>2 DEF Deciding
  <2> QED
    BY <1>a, <2>1, <2>2, <2>3, DecidingStep
<1>8. ASSUME NEW t \in Thread,
             WorkerMain(t), ~LoadWaiters(t), ~TestLast(t), ~TestCount(t)
      PROVE  Deciding' /\ DrainedJobsRan'
  <2>1. UNCHANGED <<drained, waitersSeen, passed>>
    BY <1>8 DEF WorkerMain, StartWorker, TryRun, TestStop, TestInitialized, StopWorkers, Leave,
       BeginWait, EndWait, queue, locals
  <2>2. /\ \A u \in Thread : u # t => pc'[u] = pc[u]
        /\ pc'[t] \notin {"testLast", "stop"}
    BY <1>a, <1>8 DEF WorkerMain, StartWorker, TryRun, TestStop, TestInitialized, StopWorkers, Leave,
       BeginWait, EndWait, Goto
  <2>3. workerCount' >= workerCount \/ stopWorkers
    <3>1. CASE Leave(t)
      BY <3>1 DEF Leave, At, Stages
    <3>2. CASE ~Leave(t)
      BY <1>a, <1>8, <3>2 DEF WorkerMain, StartWorker, TryRun, TestStop, TestInitialized, StopWorkers,
         BeginWait, EndWait, control
    <3> QED
      BY <3>1, <3>2
  <2>4. drained'[t] \subseteq passed'
    BY <2>1 DEF Deciding
  <2> QED
    BY <1>a, <2>1, <2>2, <2>3, <2>4, DecidingStep
<1> QED
  BY <1>1, <1>2, <1>3, <1>4, <1>5, <1>6, <1>7, <1>8 DEF Next

\* The invariant of the decision holds in every reachable state.
LEMMA InductiveDInv == Spec => []DInv
<1>1. Init => DInv
  <2> SUFFICES ASSUME Init PROVE DInv
    OBVIOUS
  <2>1. \A t \in Thread : pc[t] \in {"parse", "unborn"} /\ drained[t] = {}
    BY DEF Init
  <2>2. passed = {} /\ waiterCount = 0 /\ queueInitialized = FALSE
    BY DEF Init
  <2>3. WaitingThreads = {}
    BY <2>1 DEF WaitingThreads
  <2>4. Waiting
    BY <2>2, <2>3, FS_EmptySet DEF Waiting
  <2>5. Handled /\ Stages /\ Deciding /\ DrainedJobsRan
    BY <2>1, <2>2, ConstantFacts DEF Handled, Stages, Deciding, DrainedJobsRan
  <2> QED
    BY <2>4, <2>5 DEF DInv
<1>2. EInv /\ DInv /\ [Next]_vars => DInv'
  <2> SUFFICES ASSUME EInv, DInv, [Next]_vars PROVE DInv'
    OBVIOUS
  <2>1. CASE Next
    BY <2>1, NextHandled, NextWaiting, NextStages, NextDeciding DEF EInv, RInv, DInv
  <2>2. CASE UNCHANGED vars
    <3>1. UNCHANGED <<pc, passed, runner, fron, waiterCount, workerCount, stopWorkers, queueInitialized,
                      drained, waitersSeen, hasRan>>
      BY <2>2 DEF vars, queue, control, jobs, locals
    <3>2. Handled' /\ Waiting' /\ Stages' /\ Deciding' /\ DrainedJobsRan'
      BY <3>1 DEF DInv, Handled, Holding, Waiting, WaitingThreads, Stages, Deciding, DrainedJobsRan
    <3> QED
      BY <3>2 DEF DInv
  <2> QED
    BY <2>1, <2>2
<1> QED
  BY <1>1, <1>2, InductiveEInv, PTL DEF Spec

\* The thread that decides to stop the others has found the queue empty, and everything that
\* had left it by then has run to its end, for any jobs and any number of threads.
THEOREM DrainedJobsRanCorrect == Spec => []DrainedJobsRan
  BY InductiveDInv, PTL DEF DInv

---------------------------------------------------------------------------
(* The list in one piece                                                   *)

\* Following next from the front leads to every node that is not passed, but for the one
\* queueJob has not linked yet: any set that has the front and is closed under next has them.
Connected ==
  \A S \in SUBSET Node :
    (\A n \in Node : IsFront(n) => n \in S) /\ (\A n \in S : next[n] # Null => next[n] \in S) =>
      Queued \ (passed \cup {adding}) \subseteq S

\* A step that leaves the list alone.
LEMMA ConnectedStay ==
  ASSUME Connected, UNCHANGED <<added, passed, adding, next>>,
         \A n \in Node : IsFront(n)' <=> IsFront(n)
  PROVE  Connected'
  BY DEF Connected, Queued

\* queueJob takes its place: its job is not linked yet.
LEMMA ConnectedQueued == ASSUME IInv, Connected, NEW j \in Job, ExchangeBack(j), adding = Null PROVE Connected'
<1> USE ConstantFacts
<1>1. \A n : IsFront(n)' <=> IsFront(n)
  BY DEF IsFront, ExchangeBack, locals
<1>2. UNCHANGED <<passed, next>> /\ adding' = j /\ added' = added \cup {j}
  BY DEF ExchangeBack
<1> SUFFICES ASSUME NEW S \in SUBSET Node, \A n \in Node : IsFront(n) => n \in S,
                    \A n \in S : next[n] # Null => next[n] \in S
             PROVE  Queued' \ (passed \cup {j}) \subseteq S
  BY <1>1, <1>2 DEF Connected
<1>3. Queued \ (passed \cup {adding}) \subseteq S
  BY DEF Connected
<1>4. Null \notin Queued
  BY DEF Queued, IInv, TypeOK
<1> QED
  BY <1>2, <1>3, <1>4 DEF Queued

\* queueJob links its job: the node before it was reached already.
LEMMA ConnectedLinked == ASSUME IInv, Connected, LinkQueued PROVE Connected'
<1> USE ConstantFacts DEF IInv, TypeOK, QueueInv
<1>1. \A n : IsFront(n)' <=> IsFront(n)
  BY DEF IsFront, LinkQueued, locals
<1>2. /\ UNCHANGED <<passed, added>> /\ adding' = Null /\ adding # Null
      /\ next' = [next EXCEPT ![oldBack] = adding]
  BY DEF LinkQueued
<1>3. /\ adding \in Node /\ oldBack \in Queued /\ oldBack \in Node /\ oldBack # adding
      /\ next[oldBack] = Null /\ next[adding] = Null
  BY <1>2 DEF Adding, Links, Queued
<1> SUFFICES ASSUME NEW S \in SUBSET Node, \A n \in Node : IsFront(n) => n \in S,
                    \A n \in S : next'[n] # Null => next'[n] \in S
             PROVE  Queued \ (passed \cup {Null}) \subseteq S
  BY <1>1, <1>2 DEF Connected, Queued
<1> DEFINE T == S \cup {adding}
<1>4. Queued \ (passed \cup {adding}) \subseteq T
  <2>1. T \in SUBSET Node /\ \A n \in Node : IsFront(n) => n \in T
    BY <1>3
  <2>2. \A n \in T : next[n] # Null => next[n] \in T
    BY <1>2, <1>3
  <2> HIDE DEF T
  <2> QED
    BY <2>1, <2>2 DEF Connected
<1>5. oldBack \notin passed
  BY <1>3 DEF PassedBehind
<1>6. oldBack \in S
  BY <1>3, <1>4, <1>5
<1>7. next'[oldBack] = adding
  BY <1>2, <1>3
<1>8. adding \in S
  BY <1>2, <1>6, <1>7
<1> QED
  BY <1>4, <1>8

\* The front moves to its successor, which is reached from it.
LEMMA ConnectedAdvance ==
  ASSUME IInv, Connected, NEW t \in Thread, Advance(t), nxt[t] # Null PROVE Connected'
<1> USE ConstantFacts DEF IInv, TypeOK, QueueInv
<1> DEFINE f == fron[t]
           m == nxt[t]
<1>1. f \in Node /\ front = f /\ m = next[f] /\ m \in Job /\ pc[t] = "advance" /\ front # Null
  BY HeldIsNode DEF Locals, HoldPC, Advance, At
<1>2. UNCHANGED <<added, next, adding, fron>> /\ passed' = passed \cup {f} /\ front' = m
  BY DEF Advance, adder, locals
<1>3. \A n \in Node : IsFront(n) => n = f
  BY <1>1 DEF IsFront, NullFrontOwned
<1> SUFFICES ASSUME NEW S \in SUBSET Node, \A n \in Node : IsFront(n)' => n \in S,
                    \A n \in S : next[n] # Null => next[n] \in S
             PROVE  Queued \ (passed \cup {f} \cup {adding}) \subseteq S
  BY <1>2 DEF Connected, Queued
<1> DEFINE T == S \cup {f}
<1>4. m \in S
  BY <1>1, <1>2 DEF IsFront
<1>5. T \in SUBSET Node /\ (\A n \in Node : IsFront(n) => n \in T) /\ \A n \in T : next[n] # Null => next[n] \in T
  BY <1>1, <1>3, <1>4
<1>6. Queued \ (passed \cup {adding}) \subseteq T
  <2> HIDE DEF T
  <2> QED
    BY <1>5 DEF Connected
<1> QED
  BY <1>6

\* Every step keeps the list in one piece.
LEMMA NextConnected == ASSUME IInv, Connected, Next PROVE Connected'
<1> USE ConstantFacts
<1>a. pc \in [Thread -> PC] /\ fron \in [Thread -> Node \cup {Null}]
  BY DEF IInv, TypeOK
<1>1. CASE QueueEarly \/ QueueLate \/ QueueLazy
  BY <1>1, ConnectedQueued DEF QueueEarly, QueueLate, QueueLazy, At, Free
<1>2. CASE LinkQueued
  BY <1>2, ConnectedLinked
<1>3. CASE CountQueued
  <2>1. UNCHANGED <<front, pc, fron, added, passed, adding, next>>
    BY <1>3 DEF CountQueued, locals
  <2> QED
    BY <2>1, ConnectedStay DEF IsFront
<1>4. CASE Startup
  <2>1. \A t \in Thread : pc[t] # "restore"
    BY <1>4 DEF Startup, At, IInv, Calling, Thread
  <2>2. \A t \in Thread : pc'[t] # "restore"
    BY <1>4 DEF Startup
  <2>3. UNCHANGED <<front, added, passed, adding, next>>
    BY <1>4 DEF Startup, queue, adder
  <2> QED
    BY <2>1, <2>2, <2>3, ConnectedStay DEF IsFront
<1>5. CASE SkipStartup \/ AwaitImport \/ BeginCompile \/ SetQueueInitialized \/ AwaitShutdown
  <2>1. UNCHANGED <<front, fron, added, passed, adding, next>>
    BY <1>5
    DEF SkipStartup, AwaitImport, BeginCompile, SetQueueInitialized, AwaitShutdown, queue, locals, adder
  <2>2. \A t \in Thread : pc'[t] = "restore" <=> pc[t] = "restore"
    BY <1>a, <1>5
    DEF SkipStartup, AwaitImport, BeginCompile, SetQueueInitialized, AwaitShutdown, At, Goto
  <2> QED
    BY <2>1, <2>2, ConnectedStay DEF IsFront
<1>6. ASSUME NEW t \in Thread, TryDeque(t) PROVE Connected'
  <2>1. CASE Advance(t) /\ nxt[t] # Null
    BY <2>1, ConnectedAdvance
  <2>2. CASE Advance(t) /\ nxt[t] = Null
    <3>1. pc[t] = "advance" /\ front = fron[t] /\ front' = Null /\ UNCHANGED <<fron, added, passed, adding, next>>
      BY <2>2 DEF Advance, At, locals, adder
    <3>2. fron[t] \in Node /\ \A u \in Thread : pc[u] # "restore"
      BY <3>1, HeldIsNode DEF HoldPC, IInv, QueueInv, NullFrontOwned
    <3>3. \A u \in Thread : pc'[u] = IF u = t THEN "restore" ELSE pc[u]
      BY <1>a, <2>2 DEF Advance, Goto
    <3>4. \A n \in Node : IsFront(n)' <=> IsFront(n)
      BY <3>1, <3>2, <3>3 DEF IsFront
    <3> QED
      BY <3>1, <3>4, ConnectedStay
  <2>3. CASE Restore(t)
    <3>1. pc[t] = "restore" /\ UNCHANGED <<fron, added, passed, adding, next>>
      BY <2>3 DEF Restore, At, locals, adder
    <3>2. front = Null /\ \A u \in Thread : pc[u] = "restore" => u = t
      BY <3>1 DEF IInv, QueueInv, NullFrontOwned
    <3>3. front' = fron[t] /\ \A u \in Thread : pc'[u] = IF u = t THEN "testRan" ELSE pc[u]
      BY <1>a, <2>3, <3>2 DEF Restore, Goto
    <3>4. \A n \in Node : IsFront(n)' <=> IsFront(n)
      BY <3>1, <3>2, <3>3 DEF IsFront
    <3> QED
      BY <3>1, <3>4, ConnectedStay
  <2>4. CASE LoadFront(t) \/ LoadNext(t) \/ AdvanceFails(t) \/ Reload(t) \/ Uncount(t) \/ TestRan(t)
    <3>1. UNCHANGED <<front, added, passed, adding, next>>
      BY <2>4 DEF LoadFront, LoadNext, AdvanceFails, Reload, Uncount, TestRan, queue, adder
    <3>2. \A u \in Thread : (pc'[u] = "restore" <=> pc[u] = "restore") /\ (pc[u] = "restore" => fron'[u] = fron[u])
      BY <1>a, <2>4 DEF LoadFront, LoadNext, AdvanceFails, Reload, Uncount, TestRan, At, Goto, locals
    <3> QED
      BY <3>1, <3>2, ConnectedStay DEF IsFront
  <2> QED
    BY <1>6, <2>1, <2>2, <2>3, <2>4 DEF TryDeque
<1>7. ASSUME NEW t \in Thread, WorkerMain(t) PROVE Connected'
  <2>1. UNCHANGED <<front, fron, added, passed, adding, next>>
    BY <1>7 DEF WorkerMain, StartWorker, TryRun, TestStop, TestCount, TestInitialized, LoadWaiters,
         TestLast, StopWorkers, Leave, BeginWait, EndWait, queue, locals, adder
  <2>2. \A u \in Thread : pc'[u] = "restore" <=> pc[u] = "restore"
    BY <1>a, <1>7 DEF WorkerMain, StartWorker, TryRun, TestStop, TestCount, TestInitialized, LoadWaiters,
         TestLast, StopWorkers, Leave, BeginWait, EndWait, At, Goto
  <2> QED
    BY <2>1, <2>2, ConnectedStay DEF IsFront
<1>8. ASSUME NEW t \in Thread, RunJob(t) PROVE Connected'
  <2>1. UNCHANGED <<front, fron, added, passed, adding, next>> /\ calls[t] # <<>>
    BY <1>8 DEF RunJob, FinishRun, FailRun, AwaitInRun, Inside, queue, locals, adder
  <2>2. pc[t] # "restore"
    BY <2>1 DEF IInv, Calling
  <2>3. pc' = pc \/ \E l \in {"deque", "failed"} : pc' = [pc EXCEPT ![t] = l]
    BY <1>8 DEF RunJob, FinishRun, FailRun, AwaitInRun, Goto
  <2>4. \A u \in Thread : pc'[u] = "restore" <=> pc[u] = "restore"
    BY <1>a, <2>2, <2>3
  <2> QED
    BY <2>1, <2>4, ConnectedStay DEF IsFront
<1> QED
  BY <1>1, <1>2, <1>3, <1>4, <1>5, <1>6, <1>7, <1>8 DEF Next, MainStep

\* The list is in one piece in every reachable state.
LEMMA InductiveConnected == Spec => []Connected
<1>1. Init => Connected
  <2> SUFFICES ASSUME Init, NEW S \in SUBSET Node, \A n \in Node : IsFront(n) => n \in S
               PROVE  Queued \subseteq S
    BY DEF Connected
  <2> QED
    BY ConstantFacts DEF Init, Queued, IsFront
<1>2. IInv /\ Connected /\ [Next]_vars => Connected'
  <2> SUFFICES ASSUME IInv, Connected, UNCHANGED vars PROVE Connected'
    BY NextConnected
  <2>1. UNCHANGED <<front, pc, fron, added, passed, adding, next>>
    BY DEF vars, queue, locals, adder
  <2> QED
    BY <2>1, ConnectedStay DEF IsFront
<1> QED
  BY <1>1, <1>2, Inductive, PTL DEF Spec

---------------------------------------------------------------------------
(* A library compile                                                       *)

\* compileFromSource: no pool threads, no RenameImports, so that main awaits no read of its own
\* accord.  A readJob awaits nothing, nothing awaits a writeJob, and a lazy import is read
\* because the job of a script needs it.
Library ==
  /\ Worker = {} /\ Awaited = {}
  /\ \A j \in Early : Deps[j] = {}
  /\ \A j \in Node : Deps[j] \cap Late = {}
  /\ Lazy \subseteq UNION {Deps[j] : j \in Late}

Reads  == Early \cup {DefaultJob}
Before == {"parse", "import", "compile"}

\* Which jobs are queued in which phase of main.
Queueing ==
  /\ pc[Main] = "parse" => added \subseteq Early
  /\ pc[Main] # "parse" => Early \subseteq added
  /\ pc[Main] \in Before => added \cap Lazy = {} /\ \A n \in Node : runner[n] = Null
  /\ pc[Main] \notin Before \cup {"failed"} => Late \subseteq added
  /\ adding # Null => pc[Main] \in Before \cup (IF adding \in Lazy THEN {"run"} ELSE {})

\* The list has the reads of the constructors first, then the writes, then the lazy reads.
InOrder ==
  /\ \A n \in Node : /\ next[n] \in Early => n \in Reads
                     /\ next[n] \in Late => n \notin Lazy
  /\ adding \in Early => oldBack \in Reads
  /\ adding \in Late => oldBack \notin Lazy

\* A job with another behind it in the list is not claimed before it leaves the list, unless
\* the other is a lazy read that was queued while the job ran.
Fresh == \A n \in Queued \ passed : next[n] # Null /\ next[n] \notin Lazy => runner[n] = Null

\* What main knows of the front while it is in tryDeque.  It may find that the node it took has
\* run only if the node is still the front, or if a lazy read is.
Taken ==
  /\ pc[Main] \notin {"reload", "restore"}
  /\ pc[Main] \in {"loadNext", "advance"} => front = fron[Main]
  /\ pc[Main] = "advance" => nxt[Main] # Null
  /\ pc[Main] \in {"uncount", "testRan", "tryRun"} =>
       \/ front = fron[Main] /\ next[front] = Null
       \/ /\ fron[Main] \in passed /\ front = next[fron[Main]]
          /\ front \in Lazy \/ pc[Main] = "tryRun" \/ runner[fron[Main]] = Null
  /\ pc[Main] \in {"testStop", "testCount"} =>
       fron[Main] \in hasRan /\ (front = fron[Main] \/ front \in Lazy)

\* The reads of the constructors have left the list before anything that may await them runs.
ReadsFirst == \A j \in Node \ Reads : runner[j] # Null => Early \subseteq passed

Closed == \A j \in hasRan : Deps[j] \subseteq hasRan

AllRan ==
  /\ pc[Main] \in {"testInit", "loadWaiters", "testLast", "stop", "leave", "done", "exited"} =>
       Job \subseteq hasRan
  /\ stopWorkers => pc[Main] \in {"leave", "done", "exited"}

LInv == Queueing /\ InOrder /\ Fresh /\ Taken /\ ReadsFirst /\ Closed /\ AllRan

\* Main is the only thread.
LEMMA Alone == ASSUME Library PROVE Thread = {Main}
  BY DEF Library, Thread

\* The sorts of jobs are disjoint.
LEMMA Sorts ==
  /\ Job = Early \cup Late \cup Lazy /\ Early \cap Lazy = {} /\ Late \cap (Reads \cup Lazy) = {}
  /\ Reads \cap Lazy = {} /\ Reads \subseteq Node /\ Late \subseteq Job
  BY ConstantsAssumption DEF Late, Reads, Node

\* Nobody has put nullptr in the front.
LEMMA FrontIs ==
  ASSUME Library, IInv, Taken
  PROVE  /\ front \in Node /\ front \in Queued \ passed /\ front # adding
         /\ \A n : IsFront(n) <=> n = front
<1>1. \A t \in Thread : pc[t] # "restore"
  BY Alone DEF Taken
<1>2. front \in Node /\ \A n : IsFront(n) <=> n = front
  BY <1>1 DEF IInv, TypeOK, QueueInv, NullFrontOwned, IsFront
<1> QED
  BY <1>2 DEF IInv, QueueInv, FrontQueued, PassedBehind

\* When the front is none of the first reads, they all have left the list.
LEMMA FrontPastReads ==
  ASSUME Library, IInv, Taken, Connected, InOrder, front \notin Reads, adding = Null, Early \subseteq added
  PROVE  Early \subseteq passed
<1> DEFINE S == Node \ Reads
<1>1. \A n \in Node : IsFront(n) => n \in S
  BY FrontIs
<1>2. \A n \in S : next[n] # Null => next[n] \in S
  BY ConstantsAssumption DEF IInv, TypeOK, InOrder, Reads, Node
<1>3. Queued \ (passed \cup {Null}) \subseteq S
  <2> HIDE DEF S
  <2>1. S \in SUBSET Node
    BY DEF S
  <2> QED
    BY <1>1, <1>2, <2>1 DEF Connected
<1> QED
  BY <1>3, ConstantFacts DEF Queued, Reads

\* A thread that runs a job is in workerMain.
LEMMA RunsInQueue ==
  ASSUME Library, RInv, Queueing, Alive, calls[Main] # <<>>
  PROVE  pc[Main] = "run" /\ \A j : Inside(Main, j) => j \in Node /\ runner[j] = Main /\ j \notin hasRan
<1> USE ConstantFacts DEF RInv
<1>1. pc[Main] \in {"run", "import"}
  BY DEF IInv, Calling, Alive
<1>2. calls[Main] \in Seq(Node)
  BY DEF IInv, TypeOK
<1>3. 1 \in Frames(Main) /\ Head(calls[Main]) = calls[Main][1] /\ calls[Main][1] \in Node
  BY <1>2, Pop DEF Frames
<1>4. runner[calls[Main][1]] = Main /\ calls[Main][1] \notin hasRan
  BY <1>3 DEF Claims
<1>5. pc[Main] # "import"
  BY <1>3, <1>4 DEF Queueing, Before
<1> QED
  BY <1>1, <1>3, <1>4, <1>5 DEF Inside

\* The steps of queueJob's callers, of main's phases and of tryDeque that are left to main.
Queues ==
  \E j \in Job : /\ ExchangeBack(j) /\ adding = Null
                 /\ \/ pc[Main] = "parse" /\ j \in Early
                    \/ pc[Main] = "compile" /\ j \in Late
                    \/ pc[Main] = "run" /\ j \in Lazy

Proceeds == SkipStartup \/ BeginCompile \/ SetQueueInitialized \/ AwaitShutdown

Deques == LoadFront(Main) \/ LoadNext(Main) \/ Advance(Main) \/ Uncount(Main) \/ TestRan(Main)

\* The steps there are when main is alone: no compare-exchange fails, nothing is put back.
LEMMA SerialStep ==
  ASSUME Library, RInv, Queueing, Taken, Next
  PROVE  Queues \/ CountQueued \/ LinkQueued \/ Proceeds \/ Deques \/ WorkerMain(Main)
         \/ (RunJob(Main) /\ pc[Main] = "run" /\ adding = Null)
<1> USE ConstantFacts
<1>1. CASE MainStep
  <2>1. ~Startup /\ ~AwaitImport
    BY DEF Library, Startup, AwaitImport
  <2>2. CASE QueueLazy
    BY <2>2, RunsInQueue DEF QueueLazy, Queues, Free, Inside
  <2>3. CASE QueueEarly \/ QueueLate
    BY <2>3 DEF QueueEarly, QueueLate, Queues, At, Free
  <2> QED
    BY <1>1, <2>1, <2>2, <2>3 DEF MainStep, Proceeds
<1>2. ASSUME TryDeque(Main) PROVE Deques
  BY <1>2 DEF TryDeque, Deques, AdvanceFails, Reload, Restore, At, Taken
<1>3. ASSUME RunJob(Main) PROVE pc[Main] = "run" /\ adding = Null
  BY <1>3, RunsInQueue DEF RunJob, FinishRun, FailRun, AwaitInRun, Free, Inside
<1> QED
  BY <1>1, <1>2, <1>3, Alone DEF Next

\* The phases of main and the jobs queued in them.
LEMMA NextQueueing == ASSUME Library, RInv, Queueing, Taken, Next PROVE Queueing'
<1> USE ConstantFacts
<1>a. pc \in [Thread -> PC] /\ runner \in [Node -> Thread \cup {Null}]
  BY DEF RInv, IInv, TypeOK
<1>1. CASE Queues
  BY <1>1, Sorts DEF Queues, ExchangeBack, Queueing, Before, jobs
<1>2. CASE CountQueued \/ LinkQueued
  BY <1>2 DEF CountQueued, LinkQueued, Queueing, jobs
<1>3. CASE Proceeds
  <2>1. pc'[Main] \in {"import", "compile", "start", "exited"} /\ UNCHANGED <<added, runner, adding>>
    BY <1>3, <1>a
    DEF Proceeds, SkipStartup, BeginCompile, SetQueueInitialized, AwaitShutdown, Goto, queue, jobs, adder
  <2>2. \/ pc[Main] = "parse" /\ Early \subseteq added /\ pc'[Main] = "import"
        \/ pc[Main] = "import" /\ pc'[Main] = "compile"
        \/ pc[Main] = "compile" /\ Late \subseteq added /\ pc'[Main] = "start"
        \/ pc[Main] = "done" /\ pc'[Main] = "exited"
    BY <1>3, <1>a DEF Proceeds, SkipStartup, BeginCompile, SetQueueInitialized, AwaitShutdown, Goto, At
  <2>3. adding = Null
    BY <1>3 DEF Proceeds, SkipStartup, BeginCompile, SetQueueInitialized, AwaitShutdown, At, Free
  <2> QED
    BY <2>1, <2>2, <2>3, Sorts DEF Queueing, Before
<1>4. ASSUME pc[Main] \notin Before \cup {"failed"}, pc'[Main] \notin Before, added' = added,
             adding' = Null
      PROVE  Queueing'
  BY <1>4 DEF Queueing, Before
<1>5. CASE Deques
  <2>1. /\ pc[Main] \notin Before \cup {"failed"} /\ pc'[Main] \notin Before
        /\ added' = added /\ adding' = Null
    BY <1>5, <1>a DEF Deques, LoadFront, LoadNext, Advance, Uncount, TestRan, At, Free, Goto, Before, queue, adder
  <2> QED
    BY <1>4, <2>1
<1>6. CASE WorkerMain(Main)
  <2>1. pc[Main] \notin Before \cup {"failed"} /\ pc'[Main] \notin Before
    BY <1>6, <1>a DEF WorkerMain, StartWorker, TryRun, TestStop, TestCount, TestInitialized, LoadWaiters,
       TestLast, StopWorkers, Leave, BeginWait, EndWait, At, Goto, Before
  <2>2. added' = added /\ adding' = Null
    BY <1>6 DEF WorkerMain, StartWorker, TryRun, TestStop, TestCount, TestInitialized, LoadWaiters,
       TestLast, StopWorkers, Leave, BeginWait, EndWait, At, Free, queue, adder
  <2> QED
    BY <1>4, <2>1, <2>2
<1>7. CASE RunJob(Main) /\ pc[Main] = "run" /\ adding = Null
  <2>1. pc'[Main] \in {"run", "deque", "failed"} /\ added' = added /\ adding' = Null
    BY <1>7, <1>a DEF RunJob, FinishRun, FailRun, AwaitInRun, Goto, queue, adder
  <2> QED
    BY <1>4, <1>7, <2>1 DEF Before
<1> QED
  BY <1>1, <1>2, <1>3, <1>5, <1>6, <1>7, SerialStep

\* queueJob appends, so the order of the phases is the order of the list.
LEMMA NextInOrder == ASSUME Library, RInv, Queueing, InOrder, Taken, Next PROVE InOrder'
<1> USE ConstantFacts
<1>a. next \in [Node -> Job \cup {Null}] /\ back \in Queued
  BY DEF RInv, IInv, TypeOK, QueueInv, Links
<1>1. CASE Queues
  <2>1. PICK j \in Job : /\ next' = next /\ adding' = j /\ oldBack' = back
                         /\ \/ pc[Main] = "parse" /\ j \in Early
                            \/ pc[Main] = "compile" /\ j \in Late
                            \/ pc[Main] = "run" /\ j \in Lazy
    BY <1>1 DEF Queues, ExchangeBack
  <2>2. /\ pc[Main] = "parse" => back \in Reads
        /\ pc[Main] = "compile" => back \notin Lazy
    BY <1>a, Sorts DEF Queueing, Queued, Before, Reads
  <2> QED
    BY <2>1, <2>2, Sorts DEF InOrder, Reads
<1>2. CASE LinkQueued
  <2>1. /\ next' = [next EXCEPT ![oldBack] = adding] /\ adding' = Null /\ adding # Null
        /\ adding \in Node /\ oldBack \in Node
    BY <1>2 DEF LinkQueued, RInv, IInv, TypeOK, QueueInv, Adding, Queued
  <2> QED
    BY <1>a, <2>1, Sorts DEF InOrder
<1>3. CASE UNCHANGED <<next, adding, oldBack>>
  BY <1>3 DEF InOrder
<1>4. CASE CountQueued \/ Proceeds \/ Deques \/ WorkerMain(Main) \/ RunJob(Main)
  <2>1. UNCHANGED <<next, adding, oldBack>>
    BY <1>4 DEF CountQueued, Proceeds, SkipStartup, BeginCompile, SetQueueInitialized, AwaitShutdown,
       Deques, LoadFront, LoadNext, Advance, Uncount, TestRan, WorkerMain, StartWorker, TryRun, TestStop,
       TestCount, TestInitialized, LoadWaiters, TestLast, StopWorkers, Leave, BeginWait, EndWait, RunJob,
       FinishRun, FailRun, AwaitInRun, queue, adder
  <2> QED
    BY <1>3, <2>1
<1> QED
  BY <1>1, <1>2, <1>4, SerialStep

\* Main claims what it took from the list, or what a job it is inside of awaits.
Takes(j) == pc[Main] = "tryRun" /\ j = fron[Main]
Needs(j) == pc[Main] = "run" /\ \E c \in Node : runner[c] # Null /\ j \in Deps[c]

\* There is no other claim than these.
LEMMA WhoClaims ==
  ASSUME Library, RInv, Queueing, Taken, Next
  PROVE  \/ UNCHANGED runner
         \/ \E j \in Node : /\ Takes(j) \/ Needs(j)
                            /\ Claim(Main, j) /\ adding = Null /\ UNCHANGED <<queue, adder>>
<1> USE ConstantFacts
<1>1. CASE Queues \/ CountQueued \/ LinkQueued \/ Proceeds \/ Deques
  BY <1>1 DEF Queues, ExchangeBack, CountQueued, LinkQueued, Proceeds, SkipStartup, BeginCompile,
     SetQueueInitialized, AwaitShutdown, Deques, LoadFront, LoadNext, Advance, Uncount, TestRan, jobs
<1>2. CASE WorkerMain(Main)
  <2>1. CASE TryRun(Main)
    <3>1. fron[Main] \in Node
      BY <2>1, HeldIsNode DEF TryRun, At, HoldPC, RInv
    <3>2. adding = Null /\ pc[Main] = "tryRun" /\ UNCHANGED <<queue, adder>>
      BY <2>1 DEF TryRun, At, Free
    <3>3. UNCHANGED runner \/ Claim(Main, fron[Main])
      BY <2>1 DEF TryRun, jobs
    <3> QED
      BY <3>1, <3>2, <3>3 DEF Takes
  <2>2. CASE ~TryRun(Main)
    BY <1>2, <2>2 DEF WorkerMain, StartWorker, TestStop, TestCount, TestInitialized, LoadWaiters,
       TestLast, StopWorkers, Leave, BeginWait, EndWait, jobs
  <2> QED
    BY <2>1, <2>2
<1>3. CASE RunJob(Main) /\ pc[Main] = "run" /\ adding = Null
  <2>1. ASSUME NEW c \in Node, NEW j \in Deps[c], AwaitInRun(Main, c, j)
        PROVE  j \in Node /\ Needs(j) /\ Claim(Main, j) /\ UNCHANGED <<queue, adder>>
    <3>1. Inside(Main, c) /\ Claim(Main, j) /\ UNCHANGED <<queue, adder>>
      BY <2>1 DEF AwaitInRun
    <3>2. runner[c] # Null
      BY <3>1, InsideClaimed
    <3> QED
      BY <1>3, <3>1, <3>2 DEF Needs
  <2>2. CASE \E c \in Node : FinishRun(Main, c) \/ FailRun(Main, c)
    BY <2>2 DEF FinishRun, FailRun, jobs
  <2> QED
    BY <1>3, <2>1, <2>2 DEF RunJob
<1> QED
  BY <1>1, <1>2, <1>3, SerialStep

\* What is claimed comes after the first reads, and has nothing but lazy reads behind it if
\* it still is in the list.
LEMMA ClaimsInOrder ==
  ASSUME Library, RInv, Queueing, InOrder, Taken, ReadsFirst, Connected,
         NEW j \in Node, Takes(j) \/ Needs(j), adding = Null
  PROVE  /\ j \notin Reads => Early \subseteq passed
         /\ j \in Queued \ passed /\ next[j] # Null => next[j] \in Lazy
<1> USE ConstantFacts DEF RInv
<1>a. next \in [Node -> Job \cup {Null}] /\ Early \subseteq added
  BY DEF IInv, TypeOK, Queueing, Takes, Needs
<1>1. CASE Takes(j)
  <2>1. \/ front = j /\ next[j] = Null
        \/ j \in passed /\ front = next[j]
    BY <1>1 DEF Takes, Taken
  <2>2. j \notin Reads => front \notin Reads
    <3> SUFFICES ASSUME j \notin Reads, front \in Reads, front = next[j] PROVE FALSE
      BY <2>1
    <3>1. front \in Job
      BY <1>a, FrontIs
    <3>2. front \in Early
      BY <3>1, ConstantsAssumption DEF Reads
    <3> QED
      BY <3>2 DEF InOrder
  <2> QED
    BY <1>a, <2>1, <2>2, FrontPastReads
<1>2. CASE Needs(j)
  <2>1. PICK c \in Node : runner[c] # Null /\ j \in Deps[c]
    BY <1>2 DEF Needs
  <2>2. c \notin Reads
    BY <2>1, ConstantsAssumption DEF Library, Reads
  <2>3. Early \subseteq passed
    BY <2>1, <2>2 DEF ReadsFirst
  <2>4. j \in Job \ Late
    BY <2>1 DEF Library
  <2>5. CASE j \in Lazy
    <3>1. next[j] # Null => next[j] \in Job \ (Early \cup Late)
      BY <1>a, <2>5, Sorts DEF InOrder
    <3> QED
      BY <2>3, <3>1, Sorts
  <2>6. CASE j \notin Lazy
    BY <2>3, <2>4, <2>6, Sorts
  <2> QED
    BY <2>5, <2>6
<1> QED
  BY <1>1, <1>2

\* A job that is claimed in the list keeps only lazy reads behind it.
LEMMA NextFresh ==
  ASSUME Library, RInv, Queueing, InOrder, Fresh, Taken, ReadsFirst, Connected, Next PROVE Fresh'
<1> USE ConstantFacts
<1>a. next \in [Node -> Job \cup {Null}] /\ runner \in [Node -> Thread \cup {Null}]
  BY DEF RInv, IInv, TypeOK
<1>b. Queued \subseteq Node
  BY DEF RInv, IInv, TypeOK, Queued
<1>1. CASE UNCHANGED <<runner, next, added>> /\ passed \subseteq passed'
  BY <1>1 DEF Fresh, Queued
<1>2. ASSUME NEW j \in Node, Takes(j) \/ Needs(j), Claim(Main, j), adding = Null, UNCHANGED <<queue, adder>>
      PROVE  Fresh'
  <2>1. j \in Queued \ passed /\ next[j] # Null => next[j] \in Lazy
    BY <1>2, ClaimsInOrder
  <2>2. UNCHANGED <<next, added, passed>> /\ \A n \in Node : n # j => runner'[n] = runner[n]
    BY <1>2, <1>a DEF Claim, queue
  <2> QED
    BY <1>b, <2>1, <2>2 DEF Fresh, Queued
<1>3. CASE Queues
  <2>1. PICK j \in Job : /\ j \notin added /\ added' = added \cup {j}
                         /\ UNCHANGED <<next, passed, runner>>
    BY <1>3 DEF Queues, ExchangeBack, jobs
  <2>2. next[j] = Null
    BY <2>1, ConstantsAssumption DEF RInv, IInv, QueueInv, Links, Queued
  <2> QED
    BY <2>1, <2>2 DEF Fresh, Queued
<1>4. CASE LinkQueued
  <2>1. /\ next' = [next EXCEPT ![oldBack] = adding] /\ adding # Null
        /\ UNCHANGED <<added, passed, runner>>
    BY <1>4 DEF LinkQueued, jobs
  <2>2. adding \notin Lazy => \A n \in Node : runner[n] = Null
    BY <2>1 DEF Queueing
  <2> QED
    BY <1>a, <1>b, <2>1, <2>2 DEF Fresh, Queued
<1>5. CASE UNCHANGED runner /\ ~Queues /\ ~LinkQueued
  <2>1. CountQueued \/ Proceeds \/ Deques \/ WorkerMain(Main) \/ RunJob(Main)
    BY <1>5, SerialStep
  <2>2. UNCHANGED <<next, added>>
    BY <2>1 DEF CountQueued, Proceeds, SkipStartup, BeginCompile, SetQueueInitialized, AwaitShutdown,
       Deques, LoadFront, LoadNext, Advance, Uncount, TestRan, WorkerMain, StartWorker, TryRun, TestStop,
       TestCount, TestInitialized, LoadWaiters, TestLast, StopWorkers, Leave, BeginWait, EndWait, RunJob,
       FinishRun, FailRun, AwaitInRun, queue
  <2>3. passed \subseteq passed'
    BY Monotone DEF RInv
  <2> QED
    BY <1>1, <1>5, <2>2, <2>3
<1> QED
  BY <1>2, <1>3, <1>4, <1>5, WhoClaims

\* What may await the first reads is claimed when they have left the list.
LEMMA NextReadsFirst ==
  ASSUME Library, RInv, Queueing, InOrder, Taken, ReadsFirst, Connected, Next PROVE ReadsFirst'
<1> USE ConstantFacts
<1>a. runner \in [Node -> Thread \cup {Null}]
  BY DEF RInv, IInv, TypeOK
<1>b. passed \subseteq passed'
  BY Monotone DEF RInv
<1>1. CASE UNCHANGED runner
  BY <1>1, <1>b DEF ReadsFirst
<1>2. ASSUME NEW j \in Node, Takes(j) \/ Needs(j), Claim(Main, j), adding = Null PROVE ReadsFirst'
  <2>1. j \notin Reads => Early \subseteq passed
    BY <1>2, ClaimsInOrder
  <2>2. \A n \in Node : n # j => runner'[n] = runner[n]
    BY <1>2, <1>a DEF Claim
  <2> QED
    BY <1>b, <2>1, <2>2 DEF ReadsFirst
<1> QED
  BY <1>1, <1>2, WhoClaims

\* What main knows of the front.
LEMMA NextTaken == ASSUME Library, RInv, Queueing, Fresh, Taken, Next PROVE Taken'
<1> USE ConstantFacts DEF RInv
<1>a. /\ pc \in [Thread -> PC] /\ fron \in [Thread -> Node \cup {Null}] /\ nxt \in [Thread -> Job \cup {Null}]
      /\ runner \in [Node -> Thread \cup {Null}]
  BY DEF IInv, TypeOK
<1>1. CASE Queues
  <2>1. UNCHANGED <<front, next, passed, runner, hasRan, pc, fron, nxt>>
    BY <1>1 DEF Queues, ExchangeBack, jobs, locals
  <2> QED
    BY <2>1 DEF Taken
<1>2. CASE CountQueued
  <2>1. UNCHANGED <<front, next, passed, runner, hasRan, pc, fron, nxt>>
    BY <1>2 DEF CountQueued, jobs, locals
  <2> QED
    BY <2>1 DEF Taken
<1>3. CASE LinkQueued
  <2>1. pc'[Main] \in Before \cup {"run"}
    BY <1>3 DEF LinkQueued, Queueing
  <2> QED
    BY <2>1 DEF Taken, Before
<1>4. CASE Proceeds
  <2>1. pc'[Main] \in {"import", "compile", "start", "exited"}
    BY <1>4, <1>a DEF Proceeds, SkipStartup, BeginCompile, SetQueueInitialized, AwaitShutdown, Goto
  <2> QED
    BY <2>1 DEF Taken
<1>5. CASE LoadFront(Main)
  <2>1. front # Null
    BY FrontIs
  <2>2. pc'[Main] = "loadNext" /\ fron'[Main] = front /\ front' = front
    BY <1>5, <1>a, <2>1 DEF LoadFront, Goto, queue
  <2> QED
    BY <2>2 DEF Taken
<1>6. CASE LoadNext(Main)
  <2>1. front = fron[Main] /\ UNCHANGED <<front, next, fron>>
    BY <1>6 DEF LoadNext, At, Taken, queue
  <2>2. \/ pc'[Main] = "testRan" /\ next[fron[Main]] = Null
        \/ pc'[Main] = "advance" /\ nxt'[Main] # Null
    BY <1>6, <1>a DEF LoadNext, Goto
  <2> QED
    BY <2>1, <2>2 DEF Taken
<1>7. CASE Advance(Main)
  <2>1. pc[Main] = "advance" /\ front = fron[Main] /\ nxt[Main] # Null
    BY <1>7 DEF Advance, At, Taken
  <2>2. nxt[Main] = next[front]
    BY <2>1 DEF IInv, QueueInv, Locals
  <2>3. /\ pc'[Main] = "uncount" /\ front' = next[front] /\ passed' = passed \cup {front}
        /\ UNCHANGED <<next, fron, runner>>
    BY <1>7, <1>a, <2>1, <2>2 DEF Advance, Goto, jobs, locals
  <2>4. front' \in Lazy \/ runner[front] = Null
    BY <2>1, <2>2, <2>3, FrontIs DEF Fresh
  <2> QED
    BY <2>1, <2>3, <2>4 DEF Taken
<1>8. CASE Uncount(Main)
  <2>1. /\ pc[Main] = "uncount" /\ pc'[Main] = "testRan"
        /\ UNCHANGED <<front, next, passed, fron, runner>>
    BY <1>8, <1>a DEF Uncount, At, Goto, jobs, locals
  <2> QED
    BY <2>1 DEF Taken
<1>9. CASE TestRan(Main)
  <2>1. /\ pc[Main] = "testRan" /\ pc'[Main] = IF fron[Main] \in hasRan THEN "testStop" ELSE "tryRun"
        /\ UNCHANGED <<front, next, passed, fron, runner, hasRan>>
    BY <1>9, <1>a DEF TestRan, At, Goto, jobs, locals, queue
  <2>2. fron[Main] \in hasRan => runner[fron[Main]] # Null
    BY DEF Claims
  <2>3. \/ front = fron[Main] /\ next[front] = Null
        \/ /\ fron[Main] \in passed /\ front = next[fron[Main]]
           /\ front \in Lazy \/ runner[fron[Main]] = Null
    BY <2>1 DEF Taken
  <2>4. CASE fron[Main] \in hasRan
    BY <2>1, <2>2, <2>3, <2>4 DEF Taken
  <2>5. CASE fron[Main] \notin hasRan
    <3>1. pc'[Main] = "tryRun"
      BY <2>1, <2>5
    <3> QED
      BY <2>1, <2>3, <3>1 DEF Taken
  <2> QED
    BY <2>4, <2>5
<1>10. CASE TestStop(Main)
  <2>1. /\ pc[Main] = "testStop" /\ pc'[Main] \in {"leave", "testCount"}
        /\ UNCHANGED <<front, fron, hasRan>>
    BY <1>10, <1>a DEF TestStop, At, Goto, jobs, locals, queue
  <2> QED
    BY <2>1 DEF Taken
<1>11. CASE (WorkerMain(Main) /\ ~TestStop(Main)) \/ (RunJob(Main) /\ pc[Main] = "run")
  <2>1. pc'[Main] \in {"run", "deque", "failed", "testInit", "wait", "loadWaiters", "testLast", "stop", "leave",
                       "done", "waiting"}
    BY <1>11, <1>a DEF WorkerMain, StartWorker, TryRun, TestCount, TestInitialized, LoadWaiters, TestLast,
       StopWorkers, Leave, BeginWait, EndWait, RunJob, FinishRun, FailRun, AwaitInRun, Goto
  <2> QED
    BY <2>1 DEF Taken
<1> QED
  BY <1>1, <1>2, <1>3, <1>4, <1>5, <1>6, <1>7, <1>8, <1>9, <1>10, <1>11, SerialStep DEF Deques

\* A job returns after what it awaits.
LEMMA NextClosed == ASSUME Library, RInv, Closed, Queueing, Taken, Next PROVE Closed'
<1> USE ConstantFacts
<1>1. CASE UNCHANGED hasRan
  BY <1>1 DEF Closed
<1>2. ASSUME NEW j \in Node, FinishRun(Main, j) PROVE Closed'
  BY <1>2 DEF FinishRun, Closed
<1>3. CASE RunJob(Main)
  BY <1>1, <1>2, <1>3 DEF RunJob, FailRun, AwaitInRun, Claim, jobs
<1>4. CASE Queues \/ CountQueued \/ LinkQueued \/ Proceeds \/ Deques \/ WorkerMain(Main)
  <2>1. UNCHANGED hasRan
    BY <1>4 DEF Queues, ExchangeBack, CountQueued, LinkQueued, Proceeds, SkipStartup, BeginCompile,
       SetQueueInitialized, AwaitShutdown, Deques, LoadFront, LoadNext, Advance, Uncount, TestRan, WorkerMain,
       StartWorker, TryRun, Claim, TestStop, TestCount, TestInitialized, LoadWaiters, TestLast, StopWorkers,
       Leave, BeginWait, EndWait, jobs
  <2> QED
    BY <1>1, <2>1
<1> QED
  BY <1>3, <1>4, SerialStep

\* When main counts no queued item, the list is down to its last node.
LEMMA CountedOut ==
  ASSUME Library, IInv, Accounting, Taken, adding = Null, pc[Main] # "uncount", queuedItemCount = 0
  PROVE  Queued = passed \cup {front}
<1> DEFINE Rest == Queued \ {front}
<1>0. /\ IsFiniteSet(Queued) /\ Cardinality(Queued) = Cardinality(added) + 1
      /\ Cardinality(added) \in Nat /\ Cardinality(passed) \in Nat
  BY Sizes DEF Accounting
<1>1. front \in Queued \ passed
  BY FrontIs
<1>2. IsFiniteSet(Rest) /\ Cardinality(Rest) = Cardinality(added)
  <2>1. IsFiniteSet(Rest) /\ Cardinality(Rest) = Cardinality(Queued) - 1
    BY <1>0, <1>1, FS_RemoveElement
  <2> QED
    BY <1>0, <2>1
<1>3. passed \in SUBSET Rest
  BY <1>1, PassedQueued
<1>4. Cardinality(Uncounting) = 0
  <2>1. Uncounting = {}
    BY Alone DEF Uncounting
  <2> QED
    BY <2>1, FS_EmptySet
<1>5. Cardinality(Rest) = Cardinality(passed)
  BY <1>0, <1>2, <1>4, SMTT(30) DEF Accounting, Uncounted
<1>6. Rest = passed
  <2> HIDE DEF Rest
  <2> QED
    BY <1>2, <1>3, <1>5, FS_Subset
<1> QED
  BY <1>1, <1>6

\* Then every job has run: those that left the list, the one main took last, and the lazy
\* reads, which the scripts that made main queue them have awaited.
LEMMA AllHaveRan ==
  ASSUME Library, RInv, Accounting, Handled, Queueing, Taken, Closed, TestCount(Main), queuedItemCount = 0
  PROVE  Job \subseteq hasRan
<1> USE ConstantFacts DEF RInv
<1>1. pc[Main] = "testCount" /\ adding = Null
  BY DEF TestCount, At, Free
<1>2. Queued = passed \cup {front}
  BY <1>1, CountedOut
<1>3. passed \subseteq hasRan
  <2> SUFFICES ASSUME NEW n \in passed, n \notin hasRan PROVE FALSE
    OBVIOUS
  <2>1. runner[n] # Null
    BY <1>1, Alone DEF Handled, Holding
  <2>2. n \in Node /\ runner[n] = Main
    BY <2>1, Alone DEF IInv, TypeOK
  <2>3. calls[Main] = <<>>
    BY <1>1 DEF IInv, Calling
  <2>4. Frames(Main) = {}
    BY <2>3 DEF Frames
  <2> QED
    BY <2>1, <2>2, <2>4 DEF Claims
<1>4. Early \cup Late \subseteq Queued
  BY <1>1 DEF Queueing, Before, Queued
<1>5. front \in hasRan \/ front \in Lazy
  BY <1>1 DEF Taken
<1>6. Late \subseteq hasRan
  BY <1>2, <1>3, <1>4, <1>5, Sorts
<1>7. Lazy \subseteq hasRan
  BY <1>6 DEF Library, Closed
<1> QED
  BY <1>2, <1>3, <1>4, <1>5, <1>6, <1>7, Sorts

\* Main gets past its count of the queued items only when all jobs have run.
LEMMA NextAllRan ==
  ASSUME Library, RInv, Accounting, Handled, Queueing, Taken, Closed, AllRan, Next PROVE AllRan'
<1> USE ConstantFacts
<1>a. pc \in [Thread -> PC] /\ stopWorkers \in BOOLEAN
  BY DEF RInv, IInv, TypeOK
<1>b. hasRan \subseteq hasRan'
  BY Monotone DEF RInv
<1> DEFINE Past == {"testInit", "loadWaiters", "testLast", "stop", "leave", "done", "exited"}
<1>1. CASE Queues \/ CountQueued \/ LinkQueued
  <2>1. UNCHANGED <<pc, stopWorkers>>
    BY <1>1 DEF Queues, ExchangeBack, CountQueued, LinkQueued, control
  <2> QED
    BY <1>b, <2>1 DEF AllRan
<1>2. CASE Proceeds \/ Deques \/ RunJob(Main)
  <2>1. stopWorkers' = stopWorkers
    BY <1>2 DEF Proceeds, SkipStartup, BeginCompile, SetQueueInitialized, AwaitShutdown,
       Deques, LoadFront, LoadNext, Advance, Uncount, TestRan, RunJob, FinishRun, FailRun, AwaitInRun, control
  <2>2. \/ pc[Main] = "done" /\ pc'[Main] = "exited"
        \/ pc'[Main] = pc[Main]
        \/ pc[Main] \notin {"leave", "done", "exited"} /\ pc'[Main] \notin Past
    <3>1. CASE Proceeds
      BY <3>1, <1>a DEF Proceeds, SkipStartup, BeginCompile, SetQueueInitialized, AwaitShutdown, At, Goto
    <3>2. CASE Deques
      BY <3>2, <1>a DEF Deques, LoadFront, LoadNext, Advance, Uncount, TestRan, At, Goto
    <3>3. CASE RunJob(Main)
      <4>1. pc[Main] \in {"run", "failed", "import"}
        BY <3>3 DEF RunJob, FinishRun, FailRun, AwaitInRun, Inside, RInv, IInv, Calling
      <4>2. pc' = pc \/ \E l \in {"deque", "failed"} : pc' = [pc EXCEPT ![Main] = l]
        BY <3>3 DEF RunJob, FinishRun, FailRun, AwaitInRun, Goto
      <4> QED
        BY <4>1, <4>2, <1>a
    <3> QED
      BY <1>2, <3>1, <3>2, <3>3
  <2> QED
    BY <1>b, <2>1, <2>2 DEF AllRan
<1>3. CASE TestCount(Main)
  <2>1. /\ pc[Main] = "testCount" /\ stopWorkers' = stopWorkers
        /\ pc'[Main] = IF queuedItemCount = 0 THEN "testInit" ELSE "wait"
    BY <1>3, <1>a DEF TestCount, At, Goto, control
  <2>2. queuedItemCount = 0 => Job \subseteq hasRan
    BY <1>3, AllHaveRan
  <2> QED
    BY <1>b, <2>1, <2>2 DEF AllRan
<1>4. CASE TestStop(Main)
  <2>1. /\ pc[Main] = "testStop" /\ stopWorkers' = stopWorkers
        /\ pc'[Main] = IF stopWorkers THEN "leave" ELSE "testCount"
    BY <1>4, <1>a DEF TestStop, At, Goto, control
  <2> QED
    BY <1>b, <2>1 DEF AllRan
<1>5. CASE StopWorkers(Main)
  <2>1. pc[Main] = "stop" /\ pc'[Main] = "leave"
    BY <1>5, <1>a DEF StopWorkers, At, Goto
  <2> QED
    BY <1>b, <2>1 DEF AllRan
<1>6. CASE WorkerMain(Main) /\ ~TestCount(Main) /\ ~TestStop(Main) /\ ~StopWorkers(Main)
  <2>1. stopWorkers' = stopWorkers
    BY <1>6 DEF WorkerMain, StartWorker, TryRun, TestInitialized, LoadWaiters, TestLast, Leave, BeginWait,
       EndWait, control
  <2>2. \/ pc[Main] = "leave" /\ pc'[Main] = "done"
        \/ pc[Main] \in {"testInit", "loadWaiters", "testLast"} /\ pc'[Main] \in Past \cup {"wait"}
        \/ pc[Main] \notin Past /\ pc'[Main] \notin Past
    BY <1>6, <1>a DEF WorkerMain, StartWorker, TryRun, TestInitialized, LoadWaiters, TestLast, Leave, BeginWait,
       EndWait, At, Goto
  <2> QED
    BY <1>b, <2>1, <2>2 DEF AllRan
<1> QED
  BY <1>1, <1>2, <1>3, <1>4, <1>5, <1>6, SerialStep

\* Initially nothing but the default job is queued and nothing is claimed.
LEMMA InitLInv == ASSUME Library PROVE Init => LInv
<1> SUFFICES ASSUME Init PROVE LInv
  OBVIOUS
<1> USE ConstantFacts
<1>1. /\ pc[Main] = "parse" /\ added = {} /\ adding = Null /\ hasRan = {} /\ stopWorkers = FALSE
      /\ \A n \in Node : runner[n] = Null /\ next[n] = Null
  BY DEF Init
<1>2. Queueing /\ InOrder /\ Fresh
  BY <1>1, Sorts DEF Queueing, InOrder, Fresh, Before, Queued
<1>3. Taken /\ ReadsFirst /\ Closed /\ AllRan
  BY <1>1 DEF Taken, ReadsFirst, Closed, AllRan
<1> QED
  BY <1>2, <1>3 DEF LInv

\* Every step preserves the invariant of the library compile.
LEMMA NextLInv ==
  ASSUME Library PROVE RInv /\ Accounting /\ DInv /\ Connected /\ LInv /\ [Next]_vars => LInv'
<1> SUFFICES ASSUME RInv, Accounting, DInv, Connected, LInv, [Next]_vars PROVE LInv'
  OBVIOUS
<1>1. CASE Next
  <2>1. Queueing' /\ InOrder' /\ Taken'
    BY <1>1, NextQueueing, NextInOrder, NextTaken DEF LInv
  <2>2. Fresh' /\ ReadsFirst'
    BY <1>1, NextFresh, NextReadsFirst DEF LInv
  <2>3. Closed' /\ AllRan'
    BY <1>1, NextClosed, NextAllRan DEF LInv, DInv
  <2> QED
    BY <2>1, <2>2, <2>3 DEF LInv
<1>2. CASE UNCHANGED vars
  <2>1. UNCHANGED <<front, next, added, passed, stopWorkers, runner, hasRan, pc, fron, nxt, adding, oldBack>>
    BY <1>2 DEF vars, queue, control, jobs, locals, adder
  <2>2. Queueing' /\ InOrder' /\ Taken'
    BY <2>1 DEF LInv, Queueing, InOrder, Taken
  <2>3. Fresh' /\ ReadsFirst' /\ Closed' /\ AllRan'
    BY <2>1 DEF LInv, Fresh, Queued, ReadsFirst, Closed, AllRan
  <2> QED
    BY <2>2, <2>3 DEF LInv
<1> QED
  BY <1>1, <1>2

\* A library compile returns only when every job that was given to it, and every lazy read a
\* job made it queue, has run.  In a serial compile, main finds the queue empty too early (the
\* run JobManagerAbandoned) only after it has awaited a read outside of the queue.
THEOREM NothingAbandoned == ASSUME Library PROVE Spec => []NoJobAbandoned
<1>1. Init => LInv
  BY InitLInv
<1>2. RInv /\ Accounting /\ DInv /\ Connected /\ LInv /\ [Next]_vars => LInv'
  BY NextLInv
<1>3. LInv => NoJobAbandoned
  BY DEF LInv, AllRan, NoJobAbandoned
<1> QED
  BY <1>1, <1>2, <1>3, InductiveRInv, InductiveAccounting, InductiveDInv, InductiveConnected, PTL DEF Spec
=============================================================================
