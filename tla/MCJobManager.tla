---------------------------- MODULE MCJobManager ----------------------------
(* JobManager with model values for the jobs and threads.  The cfg files     *)
(* choose the scripts and the workers; a writeJob here stands for the whole  *)
(* pipeline of its script, which awaits the readJobs named below.            *)
EXTENDS JobManager, TLC

CONSTANTS r1, r2, w1, w2, l1, l2, k1, k2

NoDeps == [n \in Node |-> {}]

\* two scripts, each awaiting its own read
ScriptDeps == [n \in Node |-> CASE n = w1 -> {r1} [] n = w2 -> {r2} [] OTHER  -> {}]

\* one script that needs an explicit import and two that the script provider finds
LibraryDeps == [n \in Node |-> IF n = w1 THEN {r1, r2, l1, l2} ELSE {}]

WorkerSymmetry == Permutations(Worker)
=============================================================================
