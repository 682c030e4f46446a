------------------------------ MODULE Pipeline ------------------------------
(***************************************************************************)
(* The seven jobs of a PapyrusCompilationNode and the types they resolve:  *)
(* which job awaits which, what a script provider adds to the namespaces   *)
(* in the middle of it, and how a compile ends.                            *)
(*                                                                         *)
(* A job awaited by a thread that finds it unclaimed runs on that thread,  *)
(* on top of the job that awaits it.  A frame holds what a job still has   *)
(* to do.  The queue hands out jobs as JobPool says; how it does that is   *)
(* in JobManager.  Structs, and whatever else of a script resolves no type *)
(* of another script, are left out.                                        *)
(***************************************************************************)
EXTENDS Naturals, Sequences, FiniteSets, SequencesExt

CONSTANTS
  Script,    \* names of scripts
  Null,
  Thread,
  Main,      \* the thread that filled the namespaces and has the provider
  Program,   \* the compiles there can be, see ProgramAssumption
  Again,     \* those that may follow another in one process
  MaxMade    \* how many nodes the provider may make per script: a bound that is not reached

Read == 1      PreParse == 2  Parse == 3  PreSemantic == 4
Semantic == 5  Compile == 6   Write == 7
Stage == 1 .. 7
Node  == Script \X (0 .. MaxMade)   \* <<s, 0>> is made by main, the others by the provider
Job   == Node \X Stage

ASSUME ProgramAssumption ==
  /\ IsFiniteSet(Script) /\ Null \notin Script \cup Node
  /\ Main \in Thread /\ MaxMade \in Nat /\ Again \subseteq Program
  /\ Program \subseteq
       [library   : BOOLEAN,                            \* compileFromSource, or the command line
        threads   : SUBSET Thread,                      \* main, and with -p the pool threads
        kind      : [Script -> {"compile", "import", "none"}],  \* of the nodes made at first
        provides  : SUBSET Script,                      \* the provider has a source for it
        qualified : SUBSET Script,                      \* it is asked for by a name with a ':'
        namespaced : SUBSET Script,                     \* it declares a name with a ':'
        broken    : SUBSET Script,                      \* the parser reports errors in its text
        extends   : [Script -> Script \cup {Null}],
        imports   : [Script -> Seq(Script)],
        signature : [Script -> Seq(Script)],            \* types of properties, parameters, results
        body      : [Script -> Seq(Script)]]            \* types in function bodies
  /\ \A p \in Program : Main \in p.threads /\ (p.library => p.threads = {Main})
                        /\ (p.library \/ (p.qualified \cup p.namespaced = {} /\ p.provides = {}))

VARIABLES
  program,
  registered,  \* main's rootNamespace: the node that is found under a name
  made,        \* how many nodes of a script the provider has made
  resolving,   \* PapyrusCompilationContext's currentlyResolving
  queue,       \* jobs queued and not taken
  locked,      \* jobs whose runningLock is taken
  ran,         \* jobs that have run
  stack,       \* stack[t]: the jobs thread t is inside of
  parent,      \* the node of the object preSemantic has found for parentClass
  errors,      \* nodes whose reportingContext has counted an error
  hung,        \* threads blocked forever
  process      \* "running", "success", "failed" (an exception ended it), "crashed"

vars == <<program, registered, made, resolving, queue, locked, ran, stack, parent, errors, hung,
          process>>

Kind(n) == IF n[2] = 0 THEN program.kind[n[1]] ELSE "import"

---------------------------------------------------------------------------
(* What the jobs do, one record per call that matters.                     *)

Await(n, st)   == [do |-> "await", job |-> <<n, st>>]
Resolve(x, st) == [do |-> "resolve", script |-> x, stage |-> st]    \* resolveType
Lookup(x, st)  == [do |-> "lookup", script |-> x, stage |-> st]     \* its call of tryFindType
Import(x)      == [do |-> "import", script |-> x]                   \* addImport
Add(n)         == [do |-> "add", node |-> n]                        \* its push_back
Resolved(x)    == [do |-> "resolved", script |-> x]                 \* leave currentlyResolving
Just(what)     == [do |-> what]

Each(F(_), s) == [i \in DOMAIN s |-> F(s[i])]
Imports(s) == Each(Import, program.imports[s])
Types(s, st) == Each(LAMBDA x : Resolve(x, st), s)
If(c, s) == IF c THEN s ELSE <<>>

ParseSteps(n) ==
  <<Await(n, PreParse), Just("parse")>> \o If(Kind(n) # "import", <<Just("check")>>)

\* resolveType is called without an object and without imports: it is a lookup.
PreSemanticSteps(n) ==
  LET super == program.extends[n[1]]
  IN <<Await(n, Parse)>> \o If(super # Null, <<Lookup(super, PreSemantic)>>) \o <<Just("check")>>

\* mutant of SemanticSteps: the parent is not awaited
SemanticAlone(n) ==
  <<Await(n, PreSemantic)>> \o Imports(n[1])
  \o Types(program.signature[n[1]], PreSemantic) \o If(Kind(n) # "import", <<Just("check")>>)

\* mutant of SemanticSteps: the types of signatures are resolved like those of bodies
SemanticEager(n) ==
  <<Await(n, PreSemantic), Just("super")>> \o Imports(n[1])
  \o Types(program.signature[n[1]], Semantic) \o If(Kind(n) # "import", <<Just("check")>>)

SemanticSteps(n) ==
  <<Await(n, PreSemantic), Just("super")>> \o Imports(n[1])
  \o Types(program.signature[n[1]], PreSemantic) \o If(Kind(n) # "import", <<Just("check")>>)

CompileSteps(n) ==
  <<Await(n, Semantic)>>
  \o If(Kind(n) = "compile",
        Imports(n[1]) \o Types(program.body[n[1]], Semantic) \o <<Just("check")>>)

Steps(j) ==
  CASE j[2] = Read        -> <<>>
    [] j[2] = PreParse    -> <<Await(j[1], Read)>>
    [] j[2] = Parse       -> ParseSteps(j[1])
    [] j[2] = PreSemantic -> PreSemanticSteps(j[1])
    [] j[2] = Semantic    -> SemanticSteps(j[1])
    [] j[2] = Compile     -> CompileSteps(j[1])
    [] j[2] = Write       -> <<Await(j[1], Compile)>>

Frame(j) == [job |-> j, todo |-> Steps(j), imported |-> <<>>]

---------------------------------------------------------------------------
(* The beginning of a compile.                                             *)

First(p)   == {<<s, 0>> : s \in {x \in Script : p.kind[x] # "none"}}
Inputs(p)  == {n \in First(p) : p.kind[n[1]] = "compile"}

\* reads are queued as the nodes are made, writes in whatever order the inputs are visited
Queues(p) == {SetToSeq(First(p) \X {Read}) \o w : w \in SetToSeqs(Inputs(p) \X {Write})}

Begin(p) ==
  [registered |-> [s \in Script |-> IF p.kind[s] # "none" THEN <<s, 0>> ELSE Null],
   made       |-> [s \in Script |-> 0],
   stack      |-> [t \in Thread |-> <<>>],
   parent     |-> [n \in Node |-> Null]]

Init ==
  /\ program \in Program
  /\ registered = Begin(program).registered /\ made = Begin(program).made
  /\ queue \in Queues(program)
  /\ stack = Begin(program).stack /\ parent = Begin(program).parent
  /\ locked = {} /\ ran = {} /\ resolving = {} /\ errors = {} /\ hung = {} /\ process = "running"

---------------------------------------------------------------------------
(* Steps of a thread.                                                      *)

Running(t) == process = "running" /\ t \in program.threads \ hung
Top(t)     == Last(stack[t])
Op(t)      == Head(Top(t).todo)
At(t, what) == Running(t) /\ stack[t] # <<>> /\ Top(t).todo # <<>> /\ Op(t).do = what
Self(t)    == Top(t).job[1]

\* thread t goes on with ops in place of the op it was at
Continue(t, ops) == stack' = [stack EXCEPT ![t][Len(stack[t])].todo = ops \o Tail(@)]
Inside(t) == {stack[t][i].job : i \in DOMAIN stack[t]}

\* an exception leaves run() and all that called it: main returns or the process is terminated
Throw == /\ process' = "failed"
         /\ UNCHANGED <<registered, made, resolving, queue, locked, ran, stack, parent, errors, hung>>

\* a worker takes a job, and finds out whether it was run already
TakeJob(t) ==
  /\ Running(t) /\ stack[t] = <<>> /\ queue # <<>>
  /\ queue' = Tail(queue)
  /\ IF Head(queue) \notin locked
     THEN /\ locked' = locked \cup {Head(queue)}
          /\ stack' = [stack EXCEPT ![t] = <<Frame(Head(queue))>>]
     ELSE UNCHANGED <<locked, stack>>
  /\ UNCHANGED <<registered, made, resolving, ran, parent, errors, hung, process>>

Finish(t) ==
  /\ Running(t) /\ stack[t] # <<>> /\ Top(t).todo = <<>>
  /\ ran' = ran \cup {Top(t).job}
  /\ stack' = [stack EXCEPT ![t] = Front(@)]
  /\ UNCHANGED <<registered, made, resolving, queue, locked, parent, errors, hung, process>>

AwaitRan(t) ==
  /\ At(t, "await") /\ Op(t).job \in ran
  /\ Continue(t, <<>>)
  /\ UNCHANGED <<registered, made, resolving, queue, locked, ran, parent, errors, hung, process>>

AwaitRun(t) ==
  /\ At(t, "await") /\ Op(t).job \notin locked
  /\ locked' = locked \cup {Op(t).job}
  /\ stack' = [stack EXCEPT ![t] = Append(@, Frame(Op(t).job))]
  /\ UNCHANGED <<registered, made, resolving, queue, ran, parent, errors, hung, process>>

\* await() of a job this thread is inside of locks a mutex it holds: undefined, it throws
\* system_error or never returns
AwaitSelf(t) ==
  /\ At(t, "await") /\ Op(t).job \in Inside(t)
  /\ \/ Throw
     \/ /\ hung' = hung \cup {t}
        /\ UNCHANGED <<registered, made, resolving, queue, locked, ran, stack, parent, errors, process>>

\* Of a script that is asked for by a name with a ':', that name is the name of the file, and no
\* name that the script declares matches it: parseObject reports an error.
Refused(p) == p.broken \cup p.qualified

ParseFile(t) ==
  /\ At(t, "parse")
  /\ errors' = IF Self(t)[1] \in Refused(program) THEN errors \cup {Self(t)} ELSE errors
  /\ Continue(t, <<>>)
  /\ UNCHANGED <<registered, made, resolving, queue, locked, ran, parent, hung, process>>

ExitIfErrors(t) ==
  /\ At(t, "check")
  /\ IF Self(t) \in errors THEN Throw
     ELSE /\ Continue(t, <<>>)
          /\ UNCHANGED <<registered, made, resolving, queue, locked, ran, parent, errors, hung, process>>

\* PapyrusObject::semantic awaits the semantic of the object preSemantic has found
AwaitSuper(t) ==
  /\ At(t, "super")
  /\ Continue(t, IF parent[Self(t)] = Null THEN <<>> ELSE <<Await(parent[Self(t)], Semantic)>>)
  /\ UNCHANGED <<registered, made, resolving, queue, locked, ran, parent, errors, hung, process>>

---------------------------------------------------------------------------
(* resolveType and addImport                                               *)

\* the object itself is found at once; otherwise its imports are awaited before the lookup,
\* an import that was not found through an uninitialised pointer
ResolveType(t) ==
  /\ At(t, "resolve")
  /\ LET one(n) == IF n = Null THEN Just("deref") ELSE Await(n, Op(t).stage)
     IN Continue(t, IF Op(t).script = Self(t)[1] THEN <<>>
                    ELSE Each(one, Top(t).imported) \o <<Lookup(Op(t).script, Op(t).stage)>>)
  /\ UNCHANGED <<registered, made, resolving, queue, locked, ran, parent, errors, hung, process>>

\* undefined: what was in that place may even be a node, or null
Dereference(t) ==
  /\ At(t, "deref")
  /\ \/ process' = "crashed" /\ UNCHANGED stack
     \/ Continue(t, <<>>) /\ UNCHANGED process
  /\ UNCHANGED <<registered, made, resolving, queue, locked, ran, parent, errors, hung>>

Wanted(t) == At(t, "lookup") \/ At(t, "import")

\* From its semantic on a script asks in the namespace of the name it declares.  No compile from
\* source makes a namespace: there is nothing to find in it, and the provider is not asked.
AsksApart(p, j) == j[2] >= Semantic /\ j[1][1] \in p.namespaced

\* What the thread's own namespaces have under a name.  A name with a ':' is looked up in a
\* child namespace, where no compile from source puts anything.
TryFind(t, x) ==
  IF t = Main /\ x \notin program.qualified /\ ~AsksApart(program, Top(t).job)
  THEN registered[x] ELSE Null

\* what a lookup or an import does with the node it has found
Use(t, n) == IF Op(t).do = "import" THEN <<Add(n)>> ELSE <<Await(n, Op(t).stage)>>

\* the type found for parentClass
SetParent(t, n) ==
  parent' = IF Top(t).job[2] = PreSemantic THEN [parent EXCEPT ![Self(t)] = n] ELSE parent

Found(t) ==
  /\ Wanted(t) /\ TryFind(t, Op(t).script) # Null
  /\ LET n == TryFind(t, Op(t).script)
     IN Continue(t, Use(t, n)) /\ SetParent(t, n)
  /\ UNCHANGED <<registered, made, resolving, queue, locked, ran, errors, hung, process>>

HasProvider(t) == t = Main /\ program.library /\ ~AsksApart(program, Top(t).job)

\* mutant of MayProvide: no guard against circular dependencies
MayProvideAgain(t, x) == HasProvider(t) /\ x \in program.provides

MayProvide(t, x) == HasProvider(t) /\ x \in program.provides /\ x \notin resolving

\* the provider's source becomes an import node, whose read is queued, which is registered
\* unless its name is taken, and whose preSemantic is awaited
Provide(t) ==
  /\ Wanted(t) /\ TryFind(t, Op(t).script) = Null /\ MayProvide(t, Op(t).script)
  /\ LET x == Op(t).script
         n == <<x, made[x] + 1>>
     IN /\ made[x] < MaxMade
        /\ made' = [made EXCEPT ![x] = @ + 1]
        /\ registered' = [registered EXCEPT ![x] = IF @ = Null THEN n ELSE @]
        /\ resolving' = resolving \cup {x}
        /\ queue' = Append(queue, <<n, Read>>)
        /\ Continue(t, <<Await(n, PreSemantic), Resolved(x)>> \o Use(t, n))
        /\ SetParent(t, n)
  /\ UNCHANGED <<locked, ran, errors, hung, process>>

LeaveResolving(t) ==
  /\ At(t, "resolved")
  /\ resolving' = resolving \ {Op(t).script}
  /\ Continue(t, <<>>)
  /\ UNCHANGED <<registered, made, queue, locked, ran, parent, errors, hung, process>>

Missing(t) == TryFind(t, Op(t).script) = Null /\ ~MayProvide(t, Op(t).script)

\* "Unable to resolve type" is fatal
TypeMissing(t) == At(t, "lookup") /\ Missing(t) /\ Throw

\* "Failed to find imported script" is an error, after which addImport goes on
ImportMissing(t) ==
  /\ At(t, "import") /\ Missing(t)
  /\ errors' = errors \cup {Self(t)}
  /\ Continue(t, <<Add(Null)>>)
  /\ UNCHANGED <<registered, made, resolving, queue, locked, ran, parent, hung, process>>

\* "Duplicate import" is an error; the pointer of a missing one may equal anything
AddImport(t) ==
  /\ At(t, "add")
  /\ LET n == Op(t).node
     IN /\ errors' = IF n \in ToSet(Top(t).imported) THEN errors \cup {Self(t)} ELSE errors
        /\ stack' = [stack EXCEPT ![t][Len(stack[t])] =
                       [job |-> Top(t).job, todo |-> Tail(Top(t).todo),
                        imported |-> Append(Top(t).imported, n)]]
  /\ UNCHANGED <<registered, made, resolving, queue, locked, ran, parent, hung, process>>

---------------------------------------------------------------------------
(* The end of a compile.                                                   *)

Exit ==
  /\ process = "running" /\ hung = {} /\ queue = <<>>
  /\ \A t \in Thread : stack[t] = <<>>
  /\ process' = "success"
  /\ UNCHANGED <<registered, made, resolving, queue, locked, ran, stack, parent, errors, hung>>

\* mutant of Recompile: the names a failed compile was resolving stay
RecompileResolving ==
  /\ program.library /\ process \in {"success", "failed"}
  /\ program' \in Again
  /\ registered' = Begin(program').registered /\ made' = Begin(program').made
  /\ queue' \in Queues(program')
  /\ stack' = Begin(program').stack /\ parent' = Begin(program').parent
  /\ locked' = {} /\ ran' = {}
  /\ errors' = {} /\ process' = "running" /\ UNCHANGED <<resolving, hung>>

\* The program that uses the library compiles another script: the provider is cleared, all
\* is reset, and the scripts are registered with a new job manager.
Recompile ==
  /\ program.library /\ process \in {"success", "failed"}
  /\ program' \in Again
  /\ registered' = Begin(program').registered /\ made' = Begin(program').made
  /\ queue' \in Queues(program')
  /\ stack' = Begin(program').stack /\ parent' = Begin(program').parent
  /\ locked' = {} /\ ran' = {}
  /\ resolving' = {} /\ errors' = {} /\ process' = "running" /\ UNCHANGED hung

Step(t) ==
  /\ \/ TakeJob(t) \/ Finish(t) \/ AwaitRan(t) \/ AwaitRun(t) \/ AwaitSelf(t)
     \/ ParseFile(t) \/ ExitIfErrors(t) \/ AwaitSuper(t)
     \/ ResolveType(t) \/ Dereference(t) \/ Found(t) \/ Provide(t) \/ LeaveResolving(t)
     \/ TypeMissing(t) \/ ImportMissing(t) \/ AddImport(t)
  /\ UNCHANGED program

Next == \/ \E t \in Thread : Step(t)
        \/ Exit /\ UNCHANGED program
        \/ Recompile

\* every thread runs; nothing is assumed of further compiles
Spec == Init /\ [][Next]_vars
        /\ \A t \in Thread : WF_vars(Step(t))
        /\ WF_vars(Exit /\ UNCHANGED program)

---------------------------------------------------------------------------
(* What a program is, whatever order it is compiled in.                    *)

\* the scripts above s: the least set with what s extends, and what those extend
Above(p, s) ==
  {x \in Script : \A S \in SUBSET Script :
     (\A y \in S \cup {s} : p.extends[y] # Null => p.extends[y] \in S) => x \in S}

Acyclic(p) == \A s \in Script : s \notin Above(p, s)

\* no name that is found again takes part in a cycle
Guarded(p) == \A s \in Script \ p.qualified : s \notin Above(p, s)

FoundFirst(p, x) == p.kind[x] # "none" /\ x \notin p.qualified
Findable(p, x)   == FoundFirst(p, x) \/ x \in p.provides

\* what script s finds from its semantic on
FindableFrom(p, s, x) == s \notin p.namespaced /\ Findable(p, x)

\* a script of which a type can be made: its ancestors exist and have no errors
HasType(p, s) ==
  \A x \in Above(p, s) \cup {s} :
    /\ x \notin Above(p, x) /\ x \notin Refused(p)
    /\ p.extends[x] # Null => Findable(p, p.extends[x])

\* a script whose public types can be resolved; what it imports is resolved if it is
\* provided, or if there is a type to look for
HasApi(p, s) ==
  /\ HasType(p, s)
  /\ \A x \in Above(p, s) \cup {s} :
       LET others == ToSet(p.signature[x]) \ {x}
       IN /\ \A y \in others : FindableFrom(p, x, y) /\ HasType(p, y)
          /\ \A i \in ToSet(p.imports[x]) :
               FindableFrom(p, x, i) /\ (~FoundFirst(p, i) \/ others # {}) => HasType(p, i)

\* A duplicate import is one if it is found as the same node, which a name with a ':' never is.
ImportsOnce(p, s) ==
  \A i, k \in DOMAIN p.imports[s] :
    p.imports[s][i] = p.imports[s][k] /\ p.imports[s][i] \notin p.qualified => i = k

\* an input without errors
Correct(p, s) ==
  LET others == ToSet(p.body[s]) \ {s}
  IN /\ HasApi(p, s)
     /\ \A i \in ToSet(p.imports[s]) : FindableFrom(p, s, i) /\ (others # {} => HasApi(p, i))
     /\ ImportsOnce(p, s)
     /\ \A y \in others : FindableFrom(p, s, y) /\ HasApi(p, y)

Compilable(p) == \A n \in Inputs(p) : Correct(p, n[1])

---------------------------------------------------------------------------
(* Properties                                                              *)

\* types, and what stands under a name or as a parent is a node of that script
TypeOK ==
  /\ registered \in [Script -> Node \cup {Null}]
  /\ \A x \in Script : registered[x] # Null => registered[x][1] = x
  /\ made \in [Script -> 0 .. MaxMade] /\ resolving \subseteq Script
  /\ queue \in Seq(Job) /\ locked \subseteq Job /\ ran \subseteq locked
  /\ \A t \in Thread : \A i \in DOMAIN stack[t] :
       stack[t][i].job \in Job /\ stack[t][i].imported \in Seq(Node \cup {Null})
  /\ parent \in [Node -> Node \cup {Null}]
  /\ \A n \in Node : parent[n] # Null => parent[n][1] = program.extends[n[1]]
  /\ errors \subseteq Node /\ hung \subseteq program.threads
  /\ process \in {"running", "success", "failed", "crashed"}

Ran(n, st) == <<n, st>> \in ran

\* What a script inherits is resolved before it: tryGetParentClass finds a resolved parent
\* wherever it is asked ("Something is wrong here, this should already have been resolved!"),
\* and its members are complete before semantic2 compares names with them.
AncestorsFirst ==
  \A n \in Node :
    /\ Ran(n, PreSemantic) /\ program.extends[n[1]] # Null =>
         parent[n] # Null /\ Ran(parent[n], PreSemantic)
    /\ Ran(n, Semantic) /\ parent[n] # Null => Ran(parent[n], Semantic)

\* the order of jobs: by stage, and within the two that follow parents, ancestors first
Before(p, i, j) ==
  \/ i[2] < j[2]
  \/ i[2] = j[2] /\ i[2] \in {PreSemantic, Semantic} /\ i[1][1] \in Above(p, j[1][1])

\* A thread only ever awaits jobs that are before all it is inside of, whatever the types in
\* signatures and bodies refer to.
AwaitsDescend ==
  \A t \in Thread : At(t, "await") => \A j \in Inside(t) : Before(program, Op(t).job, j)

\* So when no script is above itself, no threads are blocked in a circle, each by the job one of
\* them is inside of; nor does a thread await its own job, for which CapricaJob::await would
\* lock a mutex it holds.
NoCircle ==
  Acyclic(program) =>
    /\ hung = {}
    /\ \A S \in (SUBSET Thread) \ {{}} :
         \E t \in S : ~(At(t, "await") /\ \E u \in S : Op(t).job \in Inside(u))

SuccessIsDeserved ==
  process = "success" =>
    Compilable(program) /\ \A n \in Inputs(program) : Ran(n, Write) /\ n \notin errors

FailureIsDeserved ==
  process = "failed" /\ program.threads = {Main} => ~Compilable(program)

\* Success means that every input was written and none of them had an error to report.  A
\* serial compile fails only when an input, or what it needs, has an error: it does not
\* depend on the order of inputs, on who asked for a script first, or on an earlier compile.
ResultIsDeserved == SuccessIsDeserved /\ FailureIsDeserved

\* Any compile comes to an end unless a name that is found again is above itself: a circle
\* of scripts that are found only by the provider ends at currentlyResolving.
CompileEnds == (process = "running" /\ Guarded(program)) ~> process # "running"

\* main_options.cpp, "Compile files in parallel.": whether a compile succeeds does not
\* depend on which thread takes an input from the queue.
ParallelFailureIsDeserved == process = "failed" => ~Compilable(program)
=============================================================================
