------------------------------ MODULE JobPool ------------------------------
(***************************************************************************)
(* What the job system promises to the compiler, whatever the threads and  *)
(* the queue do: a job is started by one thread, once, only after somebody *)
(* submitted it or a running job awaits it, and it is finished only after  *)
(* every job it awaits is.  Nothing is promised about jobs nobody starts.  *)
(***************************************************************************)
CONSTANTS Job, Thread, Null, Deps

VARIABLES submitted, runner, hasRan

vars == <<submitted, runner, hasRan>>

Init ==
  /\ submitted \subseteq Job
  /\ runner = [j \in Job |-> Null]
  /\ hasRan = {}

Submit(j) ==
  /\ submitted' = submitted \cup {j}
  /\ UNCHANGED <<runner, hasRan>>

AwaitedBy(t) == UNION {Deps[j] : j \in {k \in Job : runner[k] = t /\ k \notin hasRan}}

Start(t, j) ==
  /\ runner[j] = Null
  /\ j \in submitted \cup AwaitedBy(t)
  /\ runner' = [runner EXCEPT ![j] = t]
  /\ UNCHANGED <<submitted, hasRan>>

Finish(t, j) ==
  /\ runner[j] = t /\ j \notin hasRan
  /\ Deps[j] \subseteq hasRan
  /\ hasRan' = hasRan \cup {j}
  /\ UNCHANGED <<submitted, runner>>

\* startup() runs the queue's own job on the spot
StartAndFinish(t, j) ==
  /\ runner[j] = Null /\ j \in submitted /\ Deps[j] \subseteq hasRan
  /\ runner' = [runner EXCEPT ![j] = t] /\ hasRan' = hasRan \cup {j}
  /\ UNCHANGED submitted

Next == \E j \in Job : \/ Submit(j)
                       \/ \E t \in Thread : Start(t, j) \/ Finish(t, j) \/ StartAndFinish(t, j)

Spec == Init /\ [][Next]_vars
============================================================================
