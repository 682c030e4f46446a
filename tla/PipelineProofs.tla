--------------------------- MODULE PipelineProofs ---------------------------
(***************************************************************************)
(* Proofs about Pipeline for any scripts, threads and compiles.  The       *)
(* argument: what is left to do of a job j awaits, now or when a lookup    *)
(* has found a node, only jobs that are before j, whatever the program     *)
(* refers to; so the jobs a thread is inside of descend in an order that   *)
(* has no circle unless a script is above itself.                          *)
(***************************************************************************)
EXTENDS Pipeline, TLAPS, SequenceTheorems, FiniteSetTheorems, WellFoundedInduction

\* What job j of program p may have left to do.
Ops ==
  [do : {"await"}, job : Job]
  \cup [do : {"resolve", "lookup"}, script : Script, stage : {PreSemantic, Semantic}]
  \cup [do : {"import", "resolved"}, script : Script]
  \cup [do : {"add"}, node : Node \cup {Null}]
  \cup [do : {"parse", "check", "super", "deref"}]

Allowed(p, j, o) ==
  /\ o.do = "await"   => Before(p, o.job, j)
  /\ o.do = "resolve" => o.stage < j[2]
  /\ o.do = "lookup"  => \/ o.stage < j[2]
                         \/ /\ o.stage = PreSemantic /\ j[2] = PreSemantic
                            /\ o.script = p.extends[j[1][1]]
  /\ o.do = "import"  => j[2] > PreSemantic
  /\ o.do = "super"   => j[2] = Semantic

May(p, j) == {o \in Ops : Allowed(p, j, o)}

Frames(p) ==
  {f \in [job : Job, todo : Seq(Ops), imported : Seq(Node \cup {Null})] :
     f.todo \in Seq(May(p, f.job))}

\* The jobs of a stack are awaited by those under them.
Descending(p, s) == \A i, k \in 1 .. Len(s) : i < k => Before(p, s[k].job, s[i].job)

Stacks == /\ stack \in [Thread -> Seq(Frames(program))]
          /\ \A t \in Thread : Descending(program, stack[t])

Nodes == /\ registered \in [Script -> Node \cup {Null}]
         /\ \A x \in Script : registered[x] # Null => registered[x][1] = x
         /\ made \in [Script -> 0 .. MaxMade]

Parents == /\ parent \in [Node -> Node \cup {Null}]
           /\ \A n \in Node : parent[n] # Null => parent[n][1] = program.extends[n[1]]

Queued == queue \in Seq(Job)

IInv == program \in Program /\ Nodes /\ Parents /\ Queued /\ Stacks

---------------------------------------------------------------------------
(* The order of jobs.                                                      *)

\* What a script extends is above it.
LEMMA AboveExtends ==
  ASSUME NEW p \in Program, NEW s \in Script, p.extends[s] # Null
  PROVE  p.extends[s] \in Above(p, s)
<1>1. p.extends[s] \in Script
  BY ProgramAssumption
<1> QED
  BY <1>1 DEF Above

\* What is above a script that is above another is above that one.
LEMMA AboveTransitive ==
  ASSUME NEW p, NEW s \in Script, NEW x \in Above(p, s), NEW y \in Above(p, x)
  PROVE  y \in Above(p, s)
<1> DEFINE Closed(S, z) == \A w \in S \cup {z} : p.extends[w] # Null => p.extends[w] \in S
<1>1. SUFFICES ASSUME NEW S \in SUBSET Script, Closed(S, s) PROVE y \in S
  BY DEF Above
<1>2. x \in S
  BY <1>1 DEF Above
<1>3. Closed(S, x)
  BY <1>1, <1>2
<1> QED
  BY <1>3 DEF Above

\* The order of jobs is transitive.
LEMMA BeforeTransitive ==
  ASSUME NEW p, NEW h \in Job, NEW i \in Job, NEW j \in Job, Before(p, h, i), Before(p, i, j)
  PROVE  Before(p, h, j)
<1>1. \A k \in Job : k[2] \in 1 .. 7 /\ k[1][1] \in Script
  BY DEF Job, Node, Stage
<1>2. ASSUME h[1][1] \in Above(p, i[1][1]), i[1][1] \in Above(p, j[1][1])
      PROVE  h[1][1] \in Above(p, j[1][1])
  BY <1>1, <1>2, AboveTransitive
<1> QED
  BY <1>1, <1>2 DEF Before, PreSemantic, Semantic

\* It has no circle when no script is above itself.
LEMMA BeforeIrreflexive ==
  ASSUME NEW p, Acyclic(p), NEW j \in Job
  PROVE  ~Before(p, j, j)
  BY DEF Acyclic, Before, Job, Node, Stage

---------------------------------------------------------------------------
(* What jobs have to do.                                                   *)

\* an await of a job that is before it
LEMMA AwaitAllowed ==
  ASSUME NEW p, NEW j \in Job, NEW n \in Node, NEW st \in Stage, Before(p, <<n, st>>, j)
  PROVE  Await(n, st) \in May(p, j)
  BY DEF Await, May, Ops, Allowed, Job

\* the stages at which types are looked up
LEMMA StagesType == {PreSemantic, Semantic} \subseteq Stage
  BY DEF PreSemantic, Semantic, Stage

\* a type, at an earlier stage than its own
LEMMA ResolveAllowed ==
  ASSUME NEW p, NEW j \in Job, NEW x \in Script, NEW st \in {PreSemantic, Semantic}, st < j[2]
  PROVE  Resolve(x, st) \in May(p, j) /\ Lookup(x, st) \in May(p, j)
  BY DEF Resolve, Lookup, May, Ops, Allowed

\* an import, from the semantic of a script on
LEMMA ImportAllowed ==
  ASSUME NEW p, NEW j \in Job, NEW x \in Script, j[2] > PreSemantic
  PROVE  Import(x) \in May(p, j)
  BY DEF Import, May, Ops, Allowed

\* what awaits nothing; the parent, in semantic only
LEMMA OthersAllowed ==
  ASSUME NEW p, NEW j \in Job
  PROVE  /\ \A n \in Node \cup {Null} : Add(n) \in May(p, j)
         /\ \A x \in Script : Resolved(x) \in May(p, j)
         /\ \A w \in {"parse", "check", "deref"} : Just(w) \in May(p, j)
         /\ j[2] = Semantic => Just("super") \in May(p, j)
  BY DEF Add, Resolved, Just, May, Ops, Allowed

\* sequences of one and of no elements
LEMMA ShortSeq ==
  ASSUME NEW S, NEW e \in S
  PROVE  <<e>> \in Seq(S) /\ <<>> \in Seq(S)
  OBVIOUS

\* either branch of a condition
LEMMA IfType ==
  ASSUME NEW S, NEW s \in Seq(S), NEW c
  PROVE  If(c, s) \in Seq(S)
  BY DEF If

\* the imports a script is given
LEMMA ImportsType ==
  ASSUME NEW j \in Job, NEW s \in Script, program \in Program, j[2] > PreSemantic
  PROVE  Imports(s) \in Seq(May(program, j))
<1>1. program.imports[s] \in Seq(Script)
  BY ProgramAssumption
<1>2. \A x \in Script : Import(x) \in May(program, j)
  BY ImportAllowed
<1> QED
  BY <1>1, <1>2 DEF Imports, Each

\* the types in a signature or a body
LEMMA TypesType ==
  ASSUME NEW j \in Job, NEW s \in Seq(Script), NEW st \in {PreSemantic, Semantic}, st < j[2]
  PROVE  Types(s, st) \in Seq(May(program, j))
<1>1. \A x \in Script : Resolve(x, st) \in May(program, j)
  BY ResolveAllowed
<1> QED
  BY <1>1 DEF Types, Each

\* What a job has to do is allowed.
LEMMA StepsType ==
  ASSUME NEW j \in Job, program \in Program
  PROVE  Steps(j) \in Seq(May(program, j))
<1> DEFINE M == May(program, j)
           n == j[1]
           s == n[1]
<1>1. /\ n \in Node /\ s \in Script /\ j[2] \in 1 .. 7 /\ j = <<n, j[2]>>
      /\ program.extends[s] \in Script \cup {Null} /\ program.imports[s] \in Seq(Script)
      /\ program.signature[s] \in Seq(Script) /\ program.body[s] \in Seq(Script)
  BY ProgramAssumption DEF Job, Node, Stage
<1>2. \A st \in Stage : st < j[2] => <<Await(n, st)>> \in Seq(M)
  <2>1. \A st \in Stage : st < j[2] => Await(n, st) \in M
    BY <1>1, AwaitAllowed DEF Before
  <2> QED
    BY <2>1, ShortSeq
<1>3. \A w \in {"parse", "check"} : <<Just(w)>> \in Seq(M)
  BY OthersAllowed, ShortSeq
<1>4. \A c \in BOOLEAN : If(c, <<Just("check")>>) \in Seq(M)
  BY <1>3, IfType
<1> USE DEF Read, PreParse, Parse, PreSemantic, Semantic, Compile, Write, Stage
<1> HIDE DEF M, n, s
<1>5. CASE j[2] = 1
  BY <1>5, ShortSeq DEF Steps
<1>6. CASE j[2] = 2
  BY <1>2, <1>6 DEF Steps, n, M
<1>7. CASE j[2] = 3
  <2>1. <<Await(n, PreParse), Just("parse")>> \in Seq(M)
    <3>1. Await(n, PreParse) \in M /\ Just("parse") \in M
      BY <1>1, <1>7, AwaitAllowed, OthersAllowed DEF Before, M
    <3> QED
      BY <3>1
  <2>2. If(Kind(n) # "import", <<Just("check")>>) \in Seq(M)
    BY <1>4
  <2>3. ParseSteps(n) \in Seq(M)
    BY <2>1, <2>2, ConcatProperties DEF ParseSteps
  <2> QED
    BY <1>7, <2>3 DEF Steps, n, M
<1>8. CASE j[2] = 4
  <2>1. If(program.extends[s] # Null, <<Lookup(program.extends[s], PreSemantic)>>) \in Seq(M)
    <3>1. ASSUME program.extends[s] # Null
          PROVE  Lookup(program.extends[s], PreSemantic) \in M
      BY <1>1, <1>8, <3>1 DEF M, May, Ops, Allowed, Lookup, n, s
    <3> QED
      BY <3>1, ShortSeq DEF If
  <2>2. PreSemanticSteps(n) \in Seq(M)
    BY <1>2, <1>3, <1>8, <2>1, ConcatProperties DEF PreSemanticSteps, s
  <2> QED
    BY <1>8, <2>2 DEF Steps, n, M
<1>9. CASE j[2] = 5
  <2>1. <<Await(n, PreSemantic), Just("super")>> \in Seq(M)
    <3>1. Await(n, PreSemantic) \in M /\ Just("super") \in M
      BY <1>1, <1>9, AwaitAllowed, OthersAllowed DEF Before, M
    <3> QED
      BY <3>1
  <2>2. Imports(s) \in Seq(M) /\ Types(program.signature[s], PreSemantic) \in Seq(M)
    BY <1>1, <1>9, ImportsType, TypesType DEF M
  <2>3. If(Kind(n) # "import", <<Just("check")>>) \in Seq(M)
    BY <1>4
  <2>4. SemanticSteps(n) \in Seq(M)
    BY <2>1, <2>2, <2>3, ConcatProperties DEF SemanticSteps, s
  <2> QED
    BY <1>9, <2>4 DEF Steps, n, M
<1>10. CASE j[2] = 6
  <2>1. Imports(s) \in Seq(M) /\ Types(program.body[s], Semantic) \in Seq(M)
    BY <1>1, <1>10, ImportsType, TypesType DEF M
  <2>2. Imports(s) \o Types(program.body[s], Semantic) \o <<Just("check")>> \in Seq(M)
    BY <1>3, <2>1, ConcatProperties
  <2>3. If(Kind(n) = "compile",
           Imports(s) \o Types(program.body[s], Semantic) \o <<Just("check")>>) \in Seq(M)
    BY <2>2, IfType
  <2>4. CompileSteps(n) \in Seq(M)
    BY <1>2, <1>10, <2>3, ConcatProperties DEF CompileSteps, s
  <2> QED
    BY <1>10, <2>4 DEF Steps, n, M
<1>11. CASE j[2] = 7
  BY <1>2, <1>11 DEF Steps, n, M
<1> QED
  BY <1>1, <1>5, <1>6, <1>7, <1>8, <1>9, <1>10, <1>11

\* A frame for a job is one for which everything is still to be done.
LEMMA FrameType ==
  ASSUME NEW j \in Job, program \in Program
  PROVE  Frame(j) \in Frames(program) /\ Frame(j).job = j
<1>1. Steps(j) \in Seq(May(program, j)) /\ May(program, j) \subseteq Ops
  BY StepsType DEF May
<1>2. Steps(j) \in Seq(Ops)
  BY <1>1, SeqMonotonic
<1>3. /\ Frame(j) \in [job : Job, todo : Seq(Ops), imported : Seq(Node \cup {Null})]
      /\ Frame(j).job = j /\ Frame(j).todo = Steps(j)
  BY <1>2 DEF Frame
<1> QED
  BY <1>1, <1>3 DEF Frames

---------------------------------------------------------------------------
(* The invariant.                                                          *)

\* the frame at the top of the stack of a thread that is inside of a job
LEMMA TopType ==
  ASSUME IInv, NEW t \in Thread, stack[t] # <<>>
  PROVE  /\ Top(t) = stack[t][Len(stack[t])] /\ Len(stack[t]) \in Nat \ {0}
         /\ Top(t) \in Frames(program) /\ Top(t).job \in Job
         /\ Top(t).todo \in Seq(May(program, Top(t).job))
         /\ Top(t).imported \in Seq(Node \cup {Null})
         /\ Self(t) \in Node /\ Self(t)[1] \in Script
<1>1. stack[t] \in Seq(Frames(program))
  BY DEF IInv, Stacks
<1>2. Top(t) = stack[t][Len(stack[t])] /\ Len(stack[t]) \in Nat \ {0}
  BY <1>1 DEF Top, Last
<1>3. Top(t) \in Frames(program)
  BY <1>1, <1>2
<1>4. Top(t).job \in Job
  BY <1>3 DEF Frames
<1> QED
  BY <1>2, <1>3, <1>4 DEF Frames, Self, Job, Node

\* the op at which a thread is, and what is left after it
LEMMA OpType ==
  ASSUME IInv, NEW t \in Thread, stack[t] # <<>>, Top(t).todo # <<>>
  PROVE  Op(t) \in Ops /\ Allowed(program, Top(t).job, Op(t))
         /\ Tail(Top(t).todo) \in Seq(May(program, Top(t).job))
<1>1. Top(t).todo \in Seq(May(program, Top(t).job))
  BY TopType
<1>2. Op(t) \in May(program, Top(t).job)
  BY <1>1 DEF Op
<1> QED
  BY <1>1, <1>2 DEF May

\* A change of what is left to do of the job on top, and of its imports.
LEMMA ChangeTop ==
  ASSUME IInv, NEW t \in Thread, stack[t] # <<>>, program' = program,
         NEW todo \in Seq(May(program, Top(t).job)), NEW imported \in Seq(Node \cup {Null}),
         stack' = [stack EXCEPT ![t][Len(stack[t])] =
                     [job |-> Top(t).job, todo |-> todo, imported |-> imported]]
  PROVE  Stacks'
<1> DEFINE s == stack[t]
           f == [job |-> Top(t).job, todo |-> todo, imported |-> imported]
<1>1. s \in Seq(Frames(program)) /\ Len(s) \in 1 .. Len(s) /\ f.job = s[Len(s)].job
  BY TopType DEF IInv, Stacks
<1>2. f \in Frames(program)
  <2>1. todo \in Seq(Ops)
    BY SeqMonotonic DEF May
  <2> QED
    BY <2>1, TopType DEF Frames
<1> DEFINE s1 == [s EXCEPT ![Len(s)] = f]
<1>3. /\ s1 \in Seq(Frames(program)) /\ Len(s1) = Len(s)
      /\ \A i \in 1 .. Len(s) : s1[i] = IF i = Len(s) THEN f ELSE s[i]
  BY <1>1, <1>2, ExceptSeq
<1>4. stack' = [stack EXCEPT ![t] = s1]
  BY DEF IInv, Stacks
<1>5. Descending(program, s1)
  <2>1. \A i \in 1 .. Len(s) : s1[i].job = s[i].job
    BY <1>1, <1>3
  <2>2. Descending(program, s)
    BY DEF IInv, Stacks
  <2> QED
    BY <1>3, <2>1, <2>2 DEF Descending
<1> QED
  BY <1>3, <1>4, <1>5 DEF IInv, Stacks

\* a frame of which only what is left to do is changed
LEMMA FrameExcept ==
  ASSUME NEW A, NEW B, NEW C, NEW f \in [job : A, todo : B, imported : C], NEW e
  PROVE  [f EXCEPT !.todo = e] = [job |-> f.job, todo |-> e, imported |-> f.imported]
  OBVIOUS

\* Continue with ops that the job on top may have to do.
LEMMA ContinueStacks ==
  ASSUME IInv, NEW t \in Thread, stack[t] # <<>>, Top(t).todo # <<>>, program' = program,
         NEW ops \in Seq(May(program, Top(t).job)), Continue(t, ops)
  PROVE  Stacks'
<1> DEFINE f == stack[t][Len(stack[t])]
<1>1. f = Top(t) /\ f \in [job : Job, todo : Seq(Ops), imported : Seq(Node \cup {Null})]
  BY TopType DEF Frames
<1>2. ops \o Tail(Top(t).todo) \in Seq(May(program, Top(t).job))
  BY OpType, ConcatProperties
<1> DEFINE todo == ops \o Tail(Top(t).todo)
<1>3. [f EXCEPT !.todo = todo] = [job |-> Top(t).job, todo |-> todo, imported |-> Top(t).imported]
  <2> HIDE DEF todo, f
  <2> QED
    BY <1>1, FrameExcept
<1>4. stack' = [stack EXCEPT ![t][Len(stack[t])] =
                  [job |-> Top(t).job, todo |-> todo, imported |-> Top(t).imported]]
  <2>1. stack' = [stack EXCEPT ![t][Len(stack[t])] = [@ EXCEPT !.todo = todo]]
    BY <1>1 DEF Continue
  <2> QED
    BY <1>3, <2>1
<1> QED
  BY <1>2, <1>4, TopType, ChangeTop

\* Run a job that is before all that its thread is inside of.
LEMMA PushStacks ==
  ASSUME IInv, NEW t \in Thread, program' = program, NEW j \in Job,
         \A i \in 1 .. Len(stack[t]) : Before(program, j, stack[t][i].job),
         stack' = [stack EXCEPT ![t] = Append(stack[t], Frame(j))]
  PROVE  Stacks'
<1> DEFINE s == stack[t]
           s1 == Append(s, Frame(j))
<1>1. s \in Seq(Frames(program)) /\ Descending(program, s)
  BY DEF IInv, Stacks
<1>2. Frame(j) \in Frames(program) /\ Frame(j).job = j
  BY FrameType DEF IInv
<1>3. /\ s1 \in Seq(Frames(program)) /\ Len(s1) = Len(s) + 1 /\ Len(s) \in Nat
      /\ s1[Len(s) + 1] = Frame(j) /\ \A i \in 1 .. Len(s) : s1[i] = s[i]
  BY <1>1, <1>2, AppendProperties
<1>4. Descending(program, s1)
  BY <1>1, <1>2, <1>3 DEF Descending
<1> QED
  BY <1>3, <1>4 DEF IInv, Stacks

\* Return from the job on top.
LEMMA PopStacks ==
  ASSUME IInv, NEW t \in Thread, program' = program, stack[t] # <<>>,
         stack' = [stack EXCEPT ![t] = Front(stack[t])]
  PROVE  Stacks'
<1> DEFINE s == stack[t]
           s1 == Front(s)
<1>1. s \in Seq(Frames(program)) /\ Descending(program, s) /\ s # <<>>
  BY DEF IInv, Stacks
<1>2. /\ s1 \in Seq(Frames(program)) /\ Len(s1) = Len(s) - 1 /\ Len(s) \in Nat
      /\ \A i \in 1 .. Len(s1) : s1[i] = s[i]
  BY <1>1 DEF Front
<1>3. Descending(program, s1)
  BY <1>1, <1>2 DEF Descending
<1> QED
  BY <1>2, <1>3 DEF IInv, Stacks

\* What the job on top awaits now is before all that its thread is inside of.
LEMMA AwaitsBefore ==
  ASSUME IInv, NEW t \in Thread, At(t, "await")
  PROVE  /\ Op(t).job \in Job
         /\ \A i \in 1 .. Len(stack[t]) : Before(program, Op(t).job, stack[t][i].job)
<1>1. Op(t) \in Ops /\ Allowed(program, Top(t).job, Op(t)) /\ Op(t).do = "await"
  BY OpType DEF At
<1>2. Op(t).job \in Job /\ Before(program, Op(t).job, Top(t).job)
  BY <1>1 DEF Ops, Allowed
<1>3. stack[t] \in Seq(Frames(program)) /\ Descending(program, stack[t])
  BY DEF IInv, Stacks
<1>4. \A i \in 1 .. Len(stack[t]) : stack[t][i].job \in Job
  BY <1>3 DEF Frames
<1>5. /\ Top(t) = stack[t][Len(stack[t])] /\ Len(stack[t]) \in Nat \ {0}
  BY TopType DEF At
<1>6. ASSUME NEW i \in 1 .. Len(stack[t]) PROVE Before(program, Op(t).job, stack[t][i].job)
  <2>1. CASE i = Len(stack[t])
    BY <1>2, <1>5, <2>1
  <2>2. CASE i # Len(stack[t])
    <3>1. Before(program, Top(t).job, stack[t][i].job)
      BY <1>3, <1>5, <2>2 DEF Descending
    <3> QED
      BY <1>2, <1>4, <1>5, <3>1, BeforeTransitive
  <2> QED
    BY <2>1, <2>2
<1> QED
  BY <1>2, <1>6

\* the part of the invariant that is not about stacks
Rest == program \in Program /\ Nodes /\ Parents /\ Queued

\* It only depends on these variables.
LEMMA RestUnchanged ==
  ASSUME IInv, UNCHANGED <<program, registered, made, parent, queue>>
  PROVE  Rest'
  BY DEF IInv, Rest, Nodes, Parents, Queued

\* the two parts are the invariant
LEMMA RestAndStacks == IInv <=> Rest /\ Stacks
  BY DEF IInv, Rest

\* The queue at the beginning of a compile holds jobs.
LEMMA QueuesType ==
  ASSUME NEW p \in Program, NEW q \in Queues(p)
  PROVE  q \in Seq(Job)
<1> DEFINE R == First(p) \X {Read}
           W == Inputs(p) \X {Write}
<1>1. R \subseteq Job /\ W \subseteq Job /\ First(p) \subseteq Script \X {0}
  BY ProgramAssumption DEF First, Inputs, Job, Node, Stage, Read, Write
<1>2. IsFiniteSet(First(p))
  <2>1. IsFiniteSet(Script \X {0})
    BY ProgramAssumption, FS_Singleton, FS_Product
  <2> QED
    BY <1>1, <2>1, FS_Subset
<1>3. IsFiniteSet(R) /\ IsFiniteSet(W)
  <2>1. IsFiniteSet(Inputs(p))
    BY <1>2, FS_Subset DEF Inputs
  <2> QED
    BY <1>2, <2>1, FS_Singleton, FS_Product
<1>4. SetToSeq(R) \in Seq(Job)
  <2> HIDE DEF R
  <2>1. Cardinality(R) \in Nat /\ ExistsBijection(1 .. Cardinality(R), R)
    BY <1>3, FS_CardinalityType
  <2>2. \E f \in [1 .. Cardinality(R) -> R] : IsInjective(f)
    BY <2>1 DEF ExistsBijection, Bijection, Injection
  <2>3. SetToSeq(R) \in [1 .. Cardinality(R) -> R]
    BY <2>2 DEF SetToSeq
  <2> QED
    BY <1>1, <2>1, <2>3
<1>5. \A w \in SetToSeqs(W) : w \in Seq(Job)
  <2> HIDE DEF W
  <2>1. Cardinality(W) \in Nat
    BY <1>3, FS_CardinalityType
  <2>2. \A w \in SetToSeqs(W) : w \in [1 .. Cardinality(W) -> W]
    BY DEF SetToSeqs
  <2> QED
    BY <1>1, <2>1, <2>2
<1>6. PICK w \in SetToSeqs(W) : q = SetToSeq(R) \o w
  BY DEF Queues
<1> QED
  BY <1>4, <1>5, <1>6, ConcatProperties

\* The state in which a compile begins satisfies the invariant.
LEMMA BeginType ==
  ASSUME NEW p \in Program
  PROVE  /\ Begin(p).registered \in [Script -> Node \cup {Null}]
         /\ \A x \in Script : Begin(p).registered[x] # Null => Begin(p).registered[x][1] = x
         /\ Begin(p).made \in [Script -> 0 .. MaxMade]
         /\ Begin(p).stack = [t \in Thread |-> <<>>]
         /\ Begin(p).parent = [n \in Node |-> Null]
  BY ProgramAssumption DEF Begin, Node

\* a thread that is inside of no job
LEMMA EmptyStack ==
  ASSUME NEW p
  PROVE  <<>> \in Seq(Frames(p)) /\ Descending(p, <<>>)
<1>1. <<>> \in Seq(Frames(p)) /\ Len(<<>>) = 0
  BY EmptySeq
<1> QED
  BY <1>1 DEF Descending

\* The inductive invariant holds initially.
LEMMA InitIInv == Init => IInv
<1> SUFFICES ASSUME Init PROVE IInv
  OBVIOUS
<1>1. program \in Program /\ Nodes
  BY BeginType DEF Init, Nodes
<1>2. Parents
  BY <1>1, BeginType DEF Init, Parents
<1>3. Queued
  BY <1>1, QueuesType DEF Init, Queued
<1>4. Stacks
  BY <1>1, BeginType, EmptyStack DEF Init, Stacks
<1> QED
  BY <1>1, <1>2, <1>3, <1>4 DEF IInv

\* So does the one in which the next compile begins.
LEMMA RecompileIInv ==
  ASSUME IInv, Recompile
  PROVE  IInv'
<1>1. program' \in Program
  BY ProgramAssumption DEF Recompile
<1>2. Nodes'
  BY <1>1, BeginType DEF Recompile, Nodes
<1>3. Parents'
  BY <1>1, BeginType DEF Recompile, Parents
<1>4. Queued'
  BY <1>1, QueuesType DEF Recompile, Queued
<1>5. Stacks'
  <2>1. stack' = [t \in Thread |-> <<>>]
    BY <1>1, BeginType DEF Recompile
  <2>2. <<>> \in Seq(Frames(program')) /\ Descending(program', <<>>)
    BY EmptyStack
  <2> QED
    BY <2>1, <2>2 DEF Stacks
<1> QED
  BY <1>1, <1>2, <1>3, <1>4, <1>5 DEF IInv

---------------------------------------------------------------------------
(* The steps of a thread.                                                  *)

\* The thread that takes a job is inside of no other.
LEMMA TakeJobIInv ==
  ASSUME IInv, NEW t \in Thread, TakeJob(t), program' = program
  PROVE  IInv'
<1>1. Head(queue) \in Job /\ Queued'
  BY DEF IInv, Queued, TakeJob
<1>2. Stacks'
  <2>1. CASE stack' = stack
    BY <2>1 DEF IInv, Stacks
  <2>2. CASE stack' = [stack EXCEPT ![t] = <<Frame(Head(queue))>>]
    <3>1. stack[t] = <<>> /\ <<Frame(Head(queue))>> = Append(stack[t], Frame(Head(queue)))
      BY DEF TakeJob
    <3>2. 1 .. Len(stack[t]) = {}
      BY <3>1
    <3> QED
      BY <1>1, <2>2, <3>1, <3>2, PushStacks
  <2> QED
    BY <2>1, <2>2 DEF TakeJob
<1> QED
  BY <1>1, <1>2 DEF IInv, TakeJob, Nodes, Parents

\* run() returns.
LEMMA FinishIInv ==
  ASSUME IInv, NEW t \in Thread, Finish(t), program' = program
  PROVE  IInv'
<1>1. Rest'
  BY RestUnchanged DEF Finish
<1>2. Stacks'
  BY PopStacks DEF Finish
<1> QED
  BY <1>1, <1>2, RestAndStacks DEF IInv, Rest

\* a job that has run, one that is run here, and one of the thread's own
LEMMA AwaitIInv ==
  ASSUME IInv, NEW t \in Thread, AwaitRan(t) \/ AwaitRun(t) \/ AwaitSelf(t), program' = program
  PROVE  IInv'
<1>1. Rest'
  BY RestUnchanged DEF AwaitRan, AwaitRun, AwaitSelf, Throw
<1>2. Stacks'
  <2>1. CASE AwaitRan(t)
    BY <2>1, ContinueStacks, EmptySeq DEF AwaitRan, At
  <2>2. CASE AwaitRun(t)
    BY <2>2, AwaitsBefore, PushStacks DEF AwaitRun
  <2>3. CASE AwaitSelf(t)
    BY <2>3 DEF AwaitSelf, Throw, IInv, Stacks
  <2> QED
    BY <2>1, <2>2, <2>3
<1> QED
  BY <1>1, <1>2 DEF IInv, Rest

\* the steps that change no node, parent or queue, and go on with nothing new or not at all
LEMMA PlainIInv ==
  ASSUME IInv, NEW t \in Thread, program' = program,
         \/ ParseFile(t) \/ ExitIfErrors(t) \/ Dereference(t)
         \/ LeaveResolving(t) \/ TypeMissing(t)
  PROVE  IInv'
<1>1. Rest'
  BY RestUnchanged DEF ParseFile, ExitIfErrors, Dereference, LeaveResolving, TypeMissing, Throw
<1>2. stack' = stack \/ (Continue(t, <<>>) /\ stack[t] # <<>> /\ Top(t).todo # <<>>)
  BY DEF ParseFile, ExitIfErrors, Dereference, LeaveResolving, TypeMissing, Throw, At
<1>3. Stacks'
  <2>1. CASE stack' = stack
    BY <2>1 DEF IInv, Stacks
  <2>2. CASE stack' # stack
    BY <1>2, <2>2, ContinueStacks, EmptySeq
  <2> QED
    BY <2>1, <2>2
<1> QED
  BY <1>1, <1>3 DEF IInv, Rest

\* The parent of a script is above it, so its semantic is before that of the script.
LEMMA SuperOps ==
  ASSUME IInv, NEW t \in Thread, AwaitSuper(t)
  PROVE  (IF parent[Self(t)] = Null THEN <<>> ELSE <<Await(parent[Self(t)], Semantic)>>)
           \in Seq(May(program, Top(t).job))
<1>1. /\ stack[t] # <<>> /\ Top(t).todo # <<>>
      /\ Top(t).job \in Job /\ Self(t) \in Node /\ Self(t)[1] \in Script
      /\ Top(t).job[2] = Semantic
  BY TopType, OpType DEF AwaitSuper, At, Allowed
<1>2. CASE parent[Self(t)] = Null
  BY <1>2, EmptySeq
<1>3. CASE parent[Self(t)] # Null
  <2>1. /\ parent[Self(t)] \in Node /\ parent[Self(t)][1] = program.extends[Self(t)[1]]
    BY <1>1, <1>3 DEF IInv, Parents
  <2>2. parent[Self(t)][1] \in Script /\ Null \notin Script
    BY <2>1, ProgramAssumption DEF Node
  <2>3. program.extends[Self(t)[1]] \in Above(program, Self(t)[1])
    BY <1>1, <2>1, <2>2, AboveExtends DEF IInv
  <2>4. Before(program, <<parent[Self(t)], Semantic>>, Top(t).job)
    BY <1>1, <2>1, <2>3 DEF Before, Self
  <2>5. Await(parent[Self(t)], Semantic) \in May(program, Top(t).job)
    BY <1>1, <2>1, <2>4, AwaitAllowed, StagesType
  <2> QED
    BY <1>3, <2>5, ShortSeq
<1> QED
  BY <1>2, <1>3

\* the await of a parent
LEMMA AwaitSuperIInv ==
  ASSUME IInv, NEW t \in Thread, AwaitSuper(t), program' = program
  PROVE  IInv'
<1> DEFINE ops == IF parent[Self(t)] = Null THEN <<>> ELSE <<Await(parent[Self(t)], Semantic)>>
<1>1. Rest'
  BY RestUnchanged DEF AwaitSuper
<1>2. stack[t] # <<>> /\ Top(t).todo # <<>> /\ Continue(t, ops)
  BY DEF AwaitSuper, At
<1>3. ops \in Seq(May(program, Top(t).job))
  BY SuperOps
<1>4. Stacks'
  <2> HIDE DEF ops
  <2> QED
    BY <1>2, <1>3, ContinueStacks
<1> QED
  BY <1>1, <1>4 DEF IInv, Rest

\* what a lookup or an import goes on with, and the parent it sets, for a node n of that name
LEMMA UseType ==
  ASSUME IInv, NEW t \in Thread, stack[t] # <<>>, Top(t).todo # <<>>, Wanted(t),
         NEW n \in Node, n[1] = Op(t).script
  PROVE  /\ Use(t, n) \in Seq(May(program, Top(t).job))
         /\ SetParent(t, n) => (program' = program => Parents')
         /\ <<Await(n, PreSemantic), Resolved(Op(t).script)>> \in Seq(May(program, Top(t).job))
<1> DEFINE j == Top(t).job
<1>1. j \in Job /\ Self(t) = j[1] /\ Self(t) \in Node /\ Self(t)[1] \in Script /\ j[2] \in 1 .. 7
  BY TopType DEF Self, Job, Stage
<1>2. Op(t) \in Ops /\ Allowed(program, j, Op(t)) /\ Op(t).do \in {"lookup", "import"}
  BY OpType DEF Wanted, At
<1>3. Op(t).script \in Script
  BY <1>2 DEF Ops
<1>4. Op(t).do = "lookup" => Op(t).stage \in {PreSemantic, Semantic}
  BY <1>2 DEF Ops
<1>5. j[2] = PreSemantic => n[1] = program.extends[Self(t)[1]] /\ Op(t).do = "lookup"
                            /\ Op(t).stage = PreSemantic
  BY <1>1, <1>2, <1>4 DEF Allowed, PreSemantic, Semantic
<1>6. j[2] = PreSemantic => n[1] \in Above(program, Self(t)[1])
  <2>1. n[1] \in Script /\ Null \notin Script
    BY ProgramAssumption DEF Node
  <2> QED
    BY <1>1, <1>5, <2>1, AboveExtends DEF IInv
<1>7. /\ PreSemantic <= j[2]
      /\ Op(t).do = "lookup" => Op(t).stage < j[2] \/ (Op(t).stage = j[2] /\ j[2] = PreSemantic)
  BY <1>1, <1>2, <1>4 DEF Allowed, PreSemantic, Semantic
<1>8. Before(program, <<n, PreSemantic>>, j)
  BY <1>1, <1>6, <1>7 DEF Before, PreSemantic
<1>9. Op(t).do = "lookup" => Before(program, <<n, Op(t).stage>>, j)
  BY <1>1, <1>6, <1>7 DEF Before
<1>10. Use(t, n) \in Seq(May(program, j))
  <2>1. CASE Op(t).do = "import"
    BY <1>1, <2>1, OthersAllowed, ShortSeq DEF Use
  <2>2. CASE Op(t).do = "lookup"
    <3>1. Await(n, Op(t).stage) \in May(program, j)
      BY <1>1, <1>4, <1>9, <2>2, AwaitAllowed, StagesType
    <3> QED
      BY <2>2, <3>1, ShortSeq DEF Use
  <2> QED
    BY <1>2, <2>1, <2>2
<1>11. SetParent(t, n) => (program' = program => Parents')
  <2>1. j[2] = PreSemantic => n[1] = program.extends[Self(t)[1]]
    BY <1>5
  <2> QED
    BY <1>1, <2>1 DEF SetParent, IInv, Parents
<1>12. <<Await(n, PreSemantic), Resolved(Op(t).script)>> \in Seq(May(program, j))
  <2>1. Await(n, PreSemantic) \in May(program, j)
    BY <1>1, <1>8, AwaitAllowed, StagesType
  <2>2. Resolved(Op(t).script) \in May(program, j)
    BY <1>1, <1>3, OthersAllowed
  <2> QED
    BY <2>1, <2>2
<1> QED
  BY <1>10, <1>11, <1>12

\* a type or an import that has a name here
LEMMA FoundIInv ==
  ASSUME IInv, NEW t \in Thread, Found(t), program' = program
  PROVE  IInv'
<1> DEFINE n == TryFind(t, Op(t).script)
<1>1. stack[t] # <<>> /\ Top(t).todo # <<>> /\ Wanted(t) /\ Op(t).script \in Script
  <2>1. stack[t] # <<>> /\ Top(t).todo # <<>> /\ Wanted(t) /\ Op(t).do \in {"lookup", "import"}
    BY DEF Found, Wanted, At
  <2> QED
    BY <2>1, OpType DEF Ops
<1>2. n \in Node /\ n[1] = Op(t).script
  BY <1>1 DEF Found, TryFind, IInv, Nodes
<1>3. Continue(t, Use(t, n)) /\ SetParent(t, n)
  BY DEF Found
<1> HIDE DEF n
<1>4. Stacks' /\ Parents'
  BY <1>1, <1>2, <1>3, UseType, ContinueStacks
<1> QED
  BY <1>4 DEF IInv, Found, Nodes, Queued

\* one that the provider has a source for
LEMMA ProvideIInv ==
  ASSUME IInv, NEW t \in Thread, Provide(t), program' = program
  PROVE  IInv'
<1> DEFINE x == Op(t).script
           n == <<x, made[x] + 1>>
<1>1. stack[t] # <<>> /\ Top(t).todo # <<>> /\ Wanted(t) /\ x \in Script
  <2>1. stack[t] # <<>> /\ Top(t).todo # <<>> /\ Wanted(t) /\ Op(t).do \in {"lookup", "import"}
    BY DEF Provide, Wanted, At
  <2> QED
    BY <2>1, OpType DEF Ops
<1>2. made[x] + 1 \in 0 .. MaxMade
  BY <1>1, ProgramAssumption DEF Provide, IInv, Nodes
<1>3. n \in Node /\ n[1] = x
  BY <1>1, <1>2 DEF Node
<1>4. /\ Continue(t, <<Await(n, PreSemantic), Resolved(x)>> \o Use(t, n)) /\ SetParent(t, n)
      /\ queue' = Append(queue, <<n, Read>>)
      /\ registered' = [registered EXCEPT ![x] = IF @ = Null THEN n ELSE @]
      /\ made' = [made EXCEPT ![x] = @ + 1]
  BY DEF Provide
<1>5. Nodes'
  BY <1>1, <1>2, <1>3, <1>4 DEF IInv, Nodes
<1>6. Queued'
  <2>1. <<n, Read>> \in Job
    BY <1>3 DEF Job, Stage, Read
  <2> QED
    BY <1>4, <2>1 DEF IInv, Queued
<1> HIDE DEF n
<1>7. Stacks' /\ Parents'
  <2>1. <<Await(n, PreSemantic), Resolved(x)>> \o Use(t, n) \in Seq(May(program, Top(t).job))
    BY <1>1, <1>3, UseType, ConcatProperties
  <2> QED
    BY <1>1, <1>3, <1>4, <2>1, UseType, ContinueStacks
<1> QED
  BY <1>5, <1>6, <1>7 DEF IInv

\* What resolveType awaits first is the stage it looks up, of the imports the job has.
LEMMA ResolveOps ==
  ASSUME IInv, NEW t \in Thread, ResolveType(t)
  PROVE  \E ops \in Seq(May(program, Top(t).job)) : Continue(t, ops)
<1> DEFINE j == Top(t).job
           x == Op(t).script
           st == Op(t).stage
           one(n) == IF n = Null THEN Just("deref") ELSE Await(n, st)
           awaits == Each(one, Top(t).imported)
           ops == IF x = Self(t)[1] THEN <<>> ELSE awaits \o <<Lookup(x, st)>>
<1>2. stack[t] # <<>> /\ Top(t).todo # <<>> /\ Op(t).do = "resolve"
  BY DEF ResolveType, At
<1>3. j \in Job /\ Top(t).imported \in Seq(Node \cup {Null})
  BY <1>2, TopType
<1>4. x \in Script /\ st \in {PreSemantic, Semantic} /\ st < j[2]
  BY <1>2, OpType DEF Ops, Allowed
<1>5. ASSUME NEW n \in Node \cup {Null} PROVE one(n) \in May(program, j)
  <2>1. CASE n = Null
    BY <1>3, <2>1, OthersAllowed
  <2>2. CASE n # Null
    <3>1. Before(program, <<n, st>>, j)
      BY <1>4 DEF Before
    <3> QED
      BY <1>3, <1>4, <2>2, <3>1, AwaitAllowed, StagesType
  <2> QED
    BY <2>1, <2>2
<1>6. awaits \in Seq(May(program, j))
  <2> HIDE DEF one, j
  <2> QED
    BY <1>3, <1>5 DEF Each
<1>7. <<Lookup(x, st)>> \in Seq(May(program, j))
  BY <1>3, <1>4, ResolveAllowed, ShortSeq
<1>8. ops \in Seq(May(program, j))
  <2> HIDE DEF awaits
  <2> QED
    BY <1>6, <1>7, ConcatProperties, EmptySeq
<1>9. Continue(t, ops)
  BY DEF ResolveType
<1> QED
  BY <1>8, <1>9

\* a type that is resolved
LEMMA ResolveTypeIInv ==
  ASSUME IInv, NEW t \in Thread, ResolveType(t), program' = program
  PROVE  IInv'
<1>1. Rest'
  BY RestUnchanged DEF ResolveType
<1>2. stack[t] # <<>> /\ Top(t).todo # <<>>
  BY DEF ResolveType, At
<1>3. Stacks'
  BY <1>2, ResolveOps, ContinueStacks
<1> QED
  BY <1>1, <1>3 DEF IInv, Rest

\* an import that is not found
LEMMA ImportMissingIInv ==
  ASSUME IInv, NEW t \in Thread, ImportMissing(t), program' = program
  PROVE  IInv'
<1>1. Rest'
  BY RestUnchanged DEF ImportMissing
<1>2. stack[t] # <<>> /\ Top(t).todo # <<>> /\ Continue(t, <<Add(Null)>>)
  BY DEF ImportMissing, At
<1>3. <<Add(Null)>> \in Seq(May(program, Top(t).job))
  BY <1>2, TopType, OthersAllowed, ShortSeq
<1>4. Stacks'
  BY <1>2, <1>3, ContinueStacks
<1> QED
  BY <1>1, <1>4 DEF IInv, Rest

\* an import, found or not, joins those of the job
LEMMA AddImportIInv ==
  ASSUME IInv, NEW t \in Thread, AddImport(t), program' = program
  PROVE  IInv'
<1> DEFINE todo == Tail(Top(t).todo)
           imported == Append(Top(t).imported, Op(t).node)
<1>1. Rest'
  BY RestUnchanged DEF AddImport
<1>2. stack[t] # <<>> /\ Top(t).todo # <<>> /\ Op(t).do = "add"
  BY DEF AddImport, At
<1>3. todo \in Seq(May(program, Top(t).job))
  BY <1>2, OpType
<1>4. imported \in Seq(Node \cup {Null})
  BY <1>2, TopType, OpType DEF Ops
<1>5. stack' = [stack EXCEPT ![t][Len(stack[t])] =
                  [job |-> Top(t).job, todo |-> todo, imported |-> imported]]
  BY DEF AddImport
<1>6. Stacks'
  <2> HIDE DEF todo, imported
  <2> QED
    BY <1>2, <1>3, <1>4, <1>5, ChangeTop
<1> QED
  BY <1>1, <1>6 DEF IInv, Rest

\* Every step preserves the inductive invariant.
LEMMA NextIInv == IInv /\ [Next]_vars => IInv'
<1> SUFFICES ASSUME IInv, [Next]_vars PROVE IInv'
  OBVIOUS
<1>1. ASSUME NEW t \in Thread, Step(t) PROVE IInv'
  <2>1. program' = program
    BY <1>1 DEF Step
  <2> QED
    BY <1>1, <2>1, TakeJobIInv, FinishIInv, AwaitIInv, PlainIInv, AwaitSuperIInv, FoundIInv,
       ProvideIInv, ResolveTypeIInv, ImportMissingIInv, AddImportIInv DEF Step
<1>2. CASE Exit /\ UNCHANGED program
  <2>1. Rest'
    BY <1>2, RestUnchanged DEF Exit
  <2>2. Stacks'
    BY <1>2 DEF Exit, IInv, Stacks
  <2> QED
    BY <2>1, <2>2 DEF IInv, Rest
<1>3. CASE Recompile
  BY <1>3, RecompileIInv
<1>4. CASE UNCHANGED vars
  <2>1. Rest'
    BY <1>4, RestUnchanged DEF vars
  <2>2. Stacks'
    BY <1>4 DEF vars, IInv, Stacks
  <2> QED
    BY <2>1, <2>2 DEF IInv, Rest
<1> QED
  BY <1>1, <1>2, <1>3, <1>4 DEF Next

\* The inductive invariant holds in every reachable state.
LEMMA Inductive == Spec => []IInv
  BY InitIInv, NextIInv, PTL DEF Spec

---------------------------------------------------------------------------
(* What follows.                                                           *)

\* the jobs a thread is inside of
LEMMA InsideType ==
  ASSUME IInv, NEW t \in Thread, NEW j \in Inside(t)
  PROVE  j \in Job /\ \E i \in 1 .. Len(stack[t]) : j = stack[t][i].job
<1>1. stack[t] \in Seq(Frames(program))
  BY DEF IInv, Stacks
<1>2. PICK i \in 1 .. Len(stack[t]) : j = stack[t][i].job
  BY <1>1 DEF Inside
<1>3. stack[t][i] \in Frames(program)
  BY <1>1
<1> QED
  BY <1>2, <1>3 DEF Frames

\* AwaitsDescend follows.
LEMMA InvDescends == IInv => AwaitsDescend
<1> SUFFICES ASSUME IInv, NEW t \in Thread, At(t, "await"), NEW j \in Inside(t)
             PROVE  Before(program, Op(t).job, j)
  BY DEF AwaitsDescend
<1> QED
  BY InsideType, AwaitsBefore

\* A thread only ever awaits jobs that are before all it is inside of.
THEOREM AwaitsDescendCorrect == Spec => []AwaitsDescend
  BY Inductive, InvDescends, PTL

---------------------------------------------------------------------------
(* NoCircle needs two more facts: a thread is blocked only by a job it is  *)
(* inside of, and no compile follows one in which a thread is blocked, for *)
(* with a library there is no thread but main.                             *)

HungInv ==
  /\ hung \subseteq program.threads
  /\ Acyclic(program) => hung = {}
  /\ program.library /\ hung # {} => process = "running"

\* No thread is blocked at first.
LEMMA InitHung == Init => HungInv
  BY DEF Init, HungInv

\* A step changes hung only if it is AwaitSelf.
LEMMA HungUnchanged ==
  ASSUME NEW t \in Thread, Step(t), hung' # hung
  PROVE  AwaitSelf(t) /\ hung' = hung \cup {t} /\ process' = process
  BY DEF Step, TakeJob, Finish, AwaitRan, AwaitRun, AwaitSelf, ParseFile, ExitIfErrors,
     AwaitSuper, ResolveType, Dereference, Found, Provide, LeaveResolving, TypeMissing,
     ImportMissing, AddImport, Throw

\* Only a thread that runs makes a step.
LEMMA StepRuns ==
  ASSUME NEW t \in Thread, Step(t)
  PROVE  Running(t)
  BY DEF Step, TakeJob, Finish, AwaitRan, AwaitRun, AwaitSelf, ParseFile, ExitIfErrors,
     AwaitSuper, ResolveType, Dereference, Found, Provide, LeaveResolving, TypeMissing,
     ImportMissing, AddImport, At, Wanted

\* Every step preserves the two facts.
LEMMA NextHung == IInv /\ HungInv /\ [Next]_vars => HungInv'
<1> SUFFICES ASSUME IInv, HungInv, [Next]_vars PROVE HungInv'
  OBVIOUS
<1>1. ASSUME NEW t \in Thread, Step(t) PROVE HungInv'
  <2>1. program' = program /\ Running(t) /\ t \in program.threads /\ t \notin hung
    BY <1>1, StepRuns DEF Step, Running
  <2>2. CASE hung' = hung
    <3>1. program.library => hung = {}
      BY <2>1, ProgramAssumption DEF HungInv, IInv
    <3> QED
      BY <2>1, <2>2, <3>1 DEF HungInv
  <2>3. CASE hung' # hung
    <3>1. AwaitSelf(t) /\ hung' = hung \cup {t} /\ process' = process
      BY <1>1, <2>3, HungUnchanged
    <3>2. ~Acyclic(program)
      <4>1. At(t, "await") /\ Op(t).job \in Inside(t)
        BY <3>1 DEF AwaitSelf
      <4>2. Op(t).job \in Job /\ Before(program, Op(t).job, Op(t).job)
        BY <4>1, InsideType, AwaitsBefore
      <4> QED
        BY <4>2, BeforeIrreflexive
    <3> QED
      BY <2>1, <3>1, <3>2 DEF HungInv, Running
  <2> QED
    BY <2>2, <2>3
<1>2. CASE Exit /\ UNCHANGED program
  BY <1>2 DEF Exit, HungInv
<1>3. CASE Recompile
  BY <1>3 DEF Recompile, HungInv
<1>4. CASE UNCHANGED vars
  BY <1>4 DEF vars, HungInv
<1> QED
  BY <1>1, <1>2, <1>3, <1>4 DEF Next

\* a set of naturals has a least element
LEMMA Least ==
  ASSUME NEW S \in SUBSET Nat, S # {}
  PROVE  \E m \in S : \A k \in S : m <= k
<1> DEFINE R == OpToRel(<, Nat)
<1>1. PICK m \in S : \A k \in S : <<k, m>> \notin R
  <2> HIDE DEF R
  <2>1. IsWellFoundedOn(R, Nat)
    BY NatLessThanWellFounded DEF R
  <2> QED
    BY <2>1, WFMin
<1>2. \A k \in S : ~(k < m)
  BY <1>1 DEF OpToRel
<1> QED
  BY <1>2

\* Fewer scripts are above the one of the first of two jobs of the same stage.
LEMMA FewerAbove ==
  ASSUME NEW p, Acyclic(p), NEW s \in Script, NEW x \in Above(p, s)
  PROVE  /\ Cardinality(Above(p, s)) \in Nat /\ Cardinality(Above(p, x)) \in Nat
         /\ Cardinality(Above(p, x)) < Cardinality(Above(p, s))
<1>1. x \in Script /\ x \notin Above(p, x) /\ Above(p, x) \subseteq Above(p, s)
  BY AboveTransitive DEF Acyclic, Above
<1>2. IsFiniteSet(Above(p, s)) /\ IsFiniteSet(Above(p, x))
  <2>1. Above(p, s) \subseteq Script /\ Above(p, x) \subseteq Script
    BY DEF Above
  <2> QED
    BY <2>1, ProgramAssumption, FS_Subset
<1>3. Cardinality(Above(p, s)) \in Nat /\ Cardinality(Above(p, x)) \in Nat
  BY <1>2, FS_CardinalityType
<1>4. /\ Cardinality(Above(p, x)) <= Cardinality(Above(p, s))
      /\ Cardinality(Above(p, s)) = Cardinality(Above(p, x)) => Above(p, s) = Above(p, x)
  BY <1>1, <1>2, FS_Subset
<1> QED
  BY <1>1, <1>3, <1>4

\* NoCircle follows: of the threads of a circle take one whose awaited job is the least; the
\* thread that is inside of that job awaits one that is before it.
LEMMA InvNoCircle == IInv /\ HungInv => NoCircle
<1> SUFFICES ASSUME IInv, Acyclic(program), NEW S \in SUBSET Thread, S # {},
                    \A t \in S : At(t, "await") /\ \E u \in S : Op(t).job \in Inside(u)
             PROVE  FALSE
  BY DEF NoCircle, HungInv
<1> DEFINE job(t) == Op(t).job
           above(t) == Above(program, job(t)[1][1])
<1>1. \A t \in S : job(t) \in Job /\ job(t)[2] \in Nat /\ job(t)[1][1] \in Script
  <2>1. \A t \in S : job(t) \in Job
    BY InsideType
  <2> QED
    BY <2>1 DEF Job, Node, Stage
<1>2. \A t \in S : \E u \in S : Before(program, job(u), job(t))
  BY InvDescends DEF AwaitsDescend
<1> HIDE DEF job
<1>3. PICK m \in {job(t)[2] : t \in S} : \A k \in {job(t)[2] : t \in S} : m <= k
  <2>1. {job(t)[2] : t \in S} \in SUBSET Nat /\ {job(t)[2] : t \in S} # {}
    BY <1>1
  <2> QED
    BY <2>1, Least
<1> DEFINE S1 == {t \in S : job(t)[2] = m}
<1>4. S1 # {} /\ \A t \in S1 : \E u \in S1 : job(u)[1][1] \in above(t)
  <2>1. S1 # {}
    BY <1>3
  <2>2. ASSUME NEW t \in S1 PROVE \E u \in S1 : job(u)[1][1] \in above(t)
    <3>1. PICK u \in S : Before(program, job(u), job(t))
      BY <1>2
    <3>2. t \in S /\ job(t)[2] = m /\ m <= job(u)[2] /\ m \in Nat /\ job(u)[2] \in Nat
      BY <1>1, <1>3
    <3> QED
      BY <3>1, <3>2 DEF Before
  <2> QED
    BY <2>1, <2>2
<1>5. \A t \in S1 : \E u \in S1 : /\ Cardinality(above(u)) \in Nat
                                  /\ Cardinality(above(t)) \in Nat
                                  /\ Cardinality(above(u)) < Cardinality(above(t))
  BY <1>1, <1>4, FewerAbove
<1> HIDE DEF S1, above
<1>6. PICK c \in {Cardinality(above(t)) : t \in S1} :
        \A k \in {Cardinality(above(t)) : t \in S1} : c <= k
  <2>1. /\ {Cardinality(above(t)) : t \in S1} \in SUBSET Nat
        /\ {Cardinality(above(t)) : t \in S1} # {}
    BY <1>4, <1>5
  <2> QED
    BY <2>1, Least
<1> QED
  BY <1>5, <1>6

\* If no script is above itself, no thread is ever blocked by its own job, and no set of
\* threads, however many, is blocked in a circle of jobs that await each other.
THEOREM NoCircleCorrect == Spec => []NoCircle
<1>1. Spec => []HungInv
  BY Inductive, InitHung, NextHung, PTL DEF Spec
<1> QED
  BY <1>1, Inductive, InvNoCircle, PTL

---------------------------------------------------------------------------
(* TypeOK: that what has run was claimed needs to know that what a thread  *)
(* is inside of was.                                                       *)

Claims ==
  /\ resolving \subseteq Script /\ errors \subseteq Node
  /\ locked \subseteq Job /\ ran \subseteq locked
  /\ \A t \in Thread : \A i \in 1 .. Len(stack[t]) : stack[t][i].job \in locked
  /\ process \in {"running", "success", "failed", "crashed"}

\* The jobs on the stacks stay claimed when a frame is changed, pushed or popped.
LEMMA StacksClaimed ==
  ASSUME IInv, Claims, NEW t \in Thread, NEW s,
         stack' = [stack EXCEPT ![t] = s], locked \subseteq locked',
         Len(s) \in Nat,
         \A i \in 1 .. Len(s) : s[i].job \in locked'
  PROVE  \A u \in Thread : \A i \in 1 .. Len(stack'[u]) : stack'[u][i].job \in locked'
  BY DEF IInv, Stacks, Claims

\* a frame whose job stays the same
LEMMA ContinueClaims ==
  ASSUME IInv, Claims, NEW t \in Thread, stack[t] # <<>>, locked' = locked,
         \/ \E ops : Continue(t, ops)
         \/ AddImport(t)
  PROVE  \A u \in Thread : \A i \in 1 .. Len(stack'[u]) : stack'[u][i].job \in locked'
<1> DEFINE n == Len(stack[t])
<1>1. PICK f : stack' = [stack EXCEPT ![t] = [stack[t] EXCEPT ![n] = f]] /\ f.job = stack[t][n].job
  <2>1. CASE AddImport(t)
    <3> DEFINE f == [job |-> Top(t).job, todo |-> Tail(Top(t).todo),
                     imported |-> Append(Top(t).imported, Op(t).node)]
    <3>1. stack' = [stack EXCEPT ![t] = [stack[t] EXCEPT ![n] = f]]
      BY <2>1 DEF AddImport
    <3>2. f.job = stack[t][n].job
      BY TopType
    <3> QED
      BY <3>1, <3>2
  <2>2. ASSUME NEW ops, Continue(t, ops)
        PROVE  \E f : /\ stack' = [stack EXCEPT ![t] = [stack[t] EXCEPT ![n] = f]]
                      /\ f.job = stack[t][n].job
    <3> DEFINE f == [stack[t][n] EXCEPT !.todo = ops \o Tail(@)]
    <3>1. stack' = [stack EXCEPT ![t] = [stack[t] EXCEPT ![n] = f]]
      BY <2>2 DEF Continue
    <3>2. stack[t][n] \in Frames(program)
      BY TopType
    <3>3. f.job = stack[t][n].job
      BY <3>2 DEF Frames
    <3> QED
      BY <3>1, <3>3
  <2> QED
    BY <2>1, <2>2
<1>2. stack[t] \in Seq(Frames(program)) /\ n \in Nat
  BY TopType DEF IInv, Stacks
<1>3. \A i \in 1 .. n : stack[t][i].job \in locked
  BY DEF Claims
<1> DEFINE s == [stack[t] EXCEPT ![n] = f]
<1>4. Len(s) = n /\ \A i \in 1 .. n : s[i] = IF i = n THEN f ELSE stack[t][i]
  BY <1>2
<1>5. \A i \in 1 .. n : s[i].job \in locked
  BY <1>1, <1>3, <1>4
<1>6. stack' = [stack EXCEPT ![t] = s] /\ Len(s) \in Nat
  BY <1>1, <1>2, <1>4
<1>7. \A i \in 1 .. Len(s) : s[i].job \in locked'
  BY <1>4, <1>5
<1> HIDE DEF s
<1> QED
  BY <1>6, <1>7, StacksClaimed

\* Every step of a thread preserves the claims.
LEMMA StepClaims ==
  ASSUME IInv, Claims, NEW t \in Thread, Step(t)
  PROVE  Claims'
<1> DEFINE Others == /\ resolving' \subseteq Script /\ errors' \subseteq Node
                     /\ process' \in {"running", "success", "failed", "crashed"}
<1>1. CASE TakeJob(t)
  <2>1. Head(queue) \in Job /\ Frame(Head(queue)).job = Head(queue)
    BY <1>1, FrameType DEF TakeJob, IInv, Queued
  <2>2. CASE stack' = stack /\ locked' = locked
    BY <1>1, <2>2 DEF TakeJob, Claims
  <2>3. CASE /\ locked' = locked \cup {Head(queue)}
             /\ stack' = [stack EXCEPT ![t] = <<Frame(Head(queue))>>]
    <3> DEFINE s == <<Frame(Head(queue))>>
    <3>1. /\ Len(s) = 1 /\ Len(s) \in Nat /\ locked \subseteq locked'
          /\ \A i \in 1 .. Len(s) : s[i].job \in locked'
      BY <2>1, <2>3
    <3>2. \A u \in Thread : \A i \in 1 .. Len(stack'[u]) : stack'[u][i].job \in locked'
      <4> HIDE DEF s
      <4>1. stack' = [stack EXCEPT ![t] = s]
        BY <2>3 DEF s
      <4> QED
        BY <3>1, <4>1, StacksClaimed
    <3> QED
      BY <1>1, <2>1, <2>3, <3>2 DEF TakeJob, Claims
  <2> QED
    BY <1>1, <2>2, <2>3 DEF TakeJob
<1>2. CASE Finish(t)
  <2> DEFINE s == Front(stack[t])
  <2>1. stack[t] \in Seq(Frames(program)) /\ stack[t] # <<>>
    BY <1>2 DEF Finish, IInv, Stacks
  <2>2. Len(s) = Len(stack[t]) - 1 /\ \A i \in 1 .. Len(s) : s[i] = stack[t][i]
    BY <2>1 DEF Front
  <2>3. Len(s) \in Nat /\ \A i \in 1 .. Len(s) : s[i].job \in locked'
    BY <1>2, <2>1, <2>2 DEF Finish, Claims
  <2>4. Top(t).job \in locked
    BY <2>1, TopType DEF Claims
  <2>5. stack' = [stack EXCEPT ![t] = s] /\ locked' = locked
    BY <1>2 DEF Finish
  <2>6. \A u \in Thread : \A i \in 1 .. Len(stack'[u]) : stack'[u][i].job \in locked'
    <3> HIDE DEF s
    <3> QED
      BY <2>3, <2>5, StacksClaimed
  <2> QED
    BY <1>2, <2>4, <2>6 DEF Finish, Claims
<1>3. CASE AwaitRun(t)
  <2> DEFINE j == Op(t).job
             s == Append(stack[t], Frame(j))
  <2>1. j \in Job /\ Frame(j).job = j
    BY <1>3, AwaitsBefore, FrameType DEF AwaitRun, IInv
  <2>2. stack[t] \in Seq(Frames(program)) /\ Frame(j) \in Frames(program)
    BY <2>1, FrameType DEF IInv, Stacks
  <2>3. /\ Len(s) \in Nat /\ Len(s) = Len(stack[t]) + 1
        /\ \A i \in 1 .. Len(s) : s[i] = IF i = Len(s) THEN Frame(j) ELSE stack[t][i]
    BY <2>2
  <2>4. stack' = [stack EXCEPT ![t] = s] /\ locked' = locked \cup {j}
    BY <1>3 DEF AwaitRun
  <2>5. \A i \in 1 .. Len(s) : s[i].job \in locked'
    BY <2>1, <2>2, <2>3, <2>4 DEF Claims
  <2>6. \A u \in Thread : \A i \in 1 .. Len(stack'[u]) : stack'[u][i].job \in locked'
    <3> HIDE DEF s
    <3> QED
      BY <2>3, <2>4, <2>5, StacksClaimed
  <2> QED
    BY <1>3, <2>1, <2>4, <2>6 DEF AwaitRun, Claims
<1>4. CASE stack' = stack /\ locked' = locked /\ ran' = ran /\ Others
  BY <1>4 DEF Claims
<1>5. CASE /\ (\E ops : Continue(t, ops)) \/ AddImport(t)
           /\ stack[t] # <<>> /\ locked' = locked /\ ran' = ran /\ Others
  <2>1. \A u \in Thread : \A i \in 1 .. Len(stack'[u]) : stack'[u][i].job \in locked'
    BY <1>5, ContinueClaims
  <2> QED
    BY <1>5, <2>1 DEF Claims
<1>6. ASSUME stack[t] # <<>>, Top(t).todo # <<>>
      PROVE  Self(t) \in Node /\ (Wanted(t) => Op(t).script \in Script)
  BY <1>6, TopType, OpType DEF Wanted, At, Ops
<1>7. CASE AwaitSelf(t) \/ TypeMissing(t) \/ ExitIfErrors(t) \/ Dereference(t)
  BY <1>4, <1>5, <1>7 DEF AwaitSelf, TypeMissing, ExitIfErrors, Dereference, Throw, At, Claims
<1>8. CASE AwaitRan(t) \/ ParseFile(t) \/ AwaitSuper(t) \/ ResolveType(t) \/ Found(t)
  BY <1>5, <1>6, <1>8 DEF AwaitRan, ParseFile, AwaitSuper, ResolveType, Found, At, Wanted, Claims
<1>9. CASE Provide(t) \/ LeaveResolving(t) \/ ImportMissing(t) \/ AddImport(t)
  BY <1>5, <1>6, <1>9 DEF Provide, LeaveResolving, ImportMissing, AddImport, At, Wanted, Claims
<1> QED
  BY <1>1, <1>2, <1>3, <1>7, <1>8, <1>9 DEF Step

\* Every step preserves the claims.
LEMMA NextClaims == IInv /\ Claims /\ [Next]_vars => Claims'
<1> SUFFICES ASSUME IInv, Claims, [Next]_vars PROVE Claims'
  OBVIOUS
<1>1. CASE \E t \in Thread : Step(t)
  BY <1>1, StepClaims
<1>2. CASE Exit
  BY <1>2 DEF Exit, Claims
<1>3. CASE Recompile
  <2>1. program' \in Program
    BY <1>3, ProgramAssumption DEF Recompile
  <2>2. stack' = [t \in Thread |-> <<>>]
    BY <1>3, <2>1, BeginType DEF Recompile
  <2> QED
    BY <1>3, <2>2 DEF Recompile, Claims
<1>4. CASE UNCHANGED vars
  BY <1>4 DEF vars, Claims
<1> QED
  BY <1>1, <1>2, <1>3, <1>4 DEF Next

\* Nothing is claimed at first.
LEMMA InitClaims == Init => Claims
<1> SUFFICES ASSUME Init PROVE Claims
  OBVIOUS
<1>1. stack = [t \in Thread |-> <<>>]
  BY BeginType DEF Init
<1> QED
  BY <1>1 DEF Init, Claims

\* TypeOK follows.
LEMMA InvType == IInv /\ Claims /\ HungInv => TypeOK
<1> SUFFICES ASSUME IInv, Claims, HungInv PROVE TypeOK
  OBVIOUS
<1>1. ASSUME NEW t \in Thread, NEW i \in DOMAIN stack[t]
      PROVE  stack[t][i].job \in Job /\ stack[t][i].imported \in Seq(Node \cup {Null})
  <2>1. stack[t][i] \in Frames(program)
    BY DEF IInv, Stacks
  <2> QED
    BY <2>1 DEF Frames
<1> QED
  BY <1>1 DEF TypeOK, IInv, Nodes, Parents, Queued, Claims, HungInv

\* The types, and that a node under a name or as a parent is one of that script.
THEOREM TypeCorrect == Spec => []TypeOK
<1>1. Spec => []Claims
  BY Inductive, InitClaims, NextClaims, PTL DEF Spec
<1>2. Spec => []HungInv
  BY Inductive, InitHung, NextHung, PTL DEF Spec
<1> QED
  BY <1>1, <1>2, Inductive, InvType, PTL

---------------------------------------------------------------------------
(* AncestorsFirst: until a job has run, what it inherits is still on its   *)
(* list, or has been found and is awaited, or has run.                     *)

Lookups(f)   == {k \in 1 .. Len(f.todo) : f.todo[k].do = "lookup"}
Awaits(f, j) == \E k \in 1 .. Len(f.todo) : f.todo[k].do = "await" /\ f.todo[k].job = j
AtSuper(f)   == \E k \in 1 .. Len(f.todo) : f.todo[k].do = "super"

\* preSemantic has its parent to look up once, or it has found one (in program p, where par are
\* the parents that have been found and r is what has run).
FindsParent(p, par, r, f) ==
  LET n == f.job[1]
  IN f.job[2] = PreSemantic =>
       /\ \A k, l \in Lookups(f) : k = l
       /\ p.extends[n[1]] # Null /\ Lookups(f) = {} =>
            par[n] # Null /\ (<<par[n], PreSemantic>> \in r \/ Awaits(f, <<par[n], PreSemantic>>))

\* semantic has not begun, or preSemantic has run, after which the parent stays what it is.
NotBegun(f) ==
  Len(f.todo) >= 2 /\ f.todo[1] = Await(f.job[1], PreSemantic) /\ f.todo[2] = Just("super")

AwaitsParent(par, r, f) ==
  LET n == f.job[1]
  IN f.job[2] = Semantic =>
       \/ NotBegun(f)
       \/ /\ <<n, PreSemantic>> \in r
          /\ \/ par[n] = Null
             \/ <<par[n], Semantic>> \in r
             \/ Awaits(f, <<par[n], Semantic>>)
             \/ AtSuper(f)

\* No job is begun twice, nor is one that is being run counted as one that has run.
Once ==
  \A t \in Thread : \A i \in 1 .. Len(stack[t]) :
    /\ stack[t][i].job \notin ran
    /\ \A u \in Thread : \A k \in 1 .. Len(stack[u]) :
         stack[t][i].job = stack[u][k].job => t = u /\ i = k

FramesOK == \A t \in Thread : \A i \in 1 .. Len(stack[t]) :
              /\ FindsParent(program, parent, ran, stack[t][i])
              /\ AwaitsParent(parent, ran, stack[t][i])

InOrder == \A n \in Node : Ran(n, Semantic) => Ran(n, PreSemantic)

AInv == IInv /\ Claims /\ Once /\ FramesOK /\ InOrder /\ AncestorsFirst

\* A step of thread t goes on with todo in the frame on top, and leaves the other frames.
GoesOn(t, todo) ==
  /\ stack[t] # <<>> /\ Top(t).todo # <<>>
  /\ \A u \in Thread : Len(stack'[u]) = Len(stack[u])
  /\ \A u \in Thread : \A i \in 1 .. Len(stack[u]) :
       IF u = t /\ i = Len(stack[t])
       THEN stack'[u][i].job = Top(t).job /\ stack'[u][i].todo = todo
       ELSE stack'[u][i] = stack[u][i]

\* It pushes a frame for job j, which was not claimed.
Begins(t, j) ==
  /\ j \in Job \ locked
  /\ \A u \in Thread : Len(stack'[u]) = IF u = t THEN Len(stack[u]) + 1 ELSE Len(stack[u])
  /\ \A u \in Thread : \A i \in 1 .. Len(stack[u]) : stack'[u][i] = stack[u][i]
  /\ stack'[t][Len(stack[t]) + 1] = Frame(j)

\* It returns from the job on top, which has nothing left to do.
Returns(t) ==
  /\ stack[t] # <<>> /\ Top(t).todo = <<>>
  /\ \A u \in Thread : Len(stack'[u]) = IF u = t THEN Len(stack[u]) - 1 ELSE Len(stack[u])
  /\ \A u \in Thread : \A i \in 1 .. Len(stack'[u]) : stack'[u][i] = stack[u][i]

\* What Continue does.
LEMMA ContinueGoesOn ==
  ASSUME IInv, NEW t \in Thread, stack[t] # <<>>, Top(t).todo # <<>>, NEW ops, Continue(t, ops)
  PROVE  GoesOn(t, ops \o Tail(Top(t).todo))
<1> DEFINE n == Len(stack[t])
           f == [stack[t][n] EXCEPT !.todo = ops \o Tail(@)]
           s == [stack[t] EXCEPT ![n] = f]
<1>1. stack' = [stack EXCEPT ![t] = s]
  BY DEF Continue
<1>2. stack[t] \in Seq(Frames(program)) /\ n \in Nat /\ n \in 1 .. n /\ Top(t) = stack[t][n]
  BY TopType DEF IInv, Stacks
<1>3. f.job = Top(t).job /\ f.todo = ops \o Tail(Top(t).todo)
  BY <1>2, TopType DEF Frames
<1>4. Len(s) = n /\ \A i \in 1 .. n : s[i] = IF i = n THEN f ELSE stack[t][i]
  <2> HIDE DEF f
  <2> QED
    BY <1>2
<1>5. stack'[t] = s /\ \A u \in Thread : u # t => stack'[u] = stack[u]
  <2> HIDE DEF s
  <2> QED
    BY <1>1 DEF IInv, Stacks
<1> HIDE DEF f, s
<1> QED
  BY <1>3, <1>4, <1>5 DEF GoesOn

\* What addImport's push_back does.
LEMMA AddGoesOn ==
  ASSUME IInv, NEW t \in Thread, AddImport(t) PROVE GoesOn(t, Tail(Top(t).todo))
<1> DEFINE n == Len(stack[t])
           f == [job |-> Top(t).job, todo |-> Tail(Top(t).todo),
                 imported |-> Append(Top(t).imported, Op(t).node)]
           s == [stack[t] EXCEPT ![n] = f]
<1>0. stack[t] # <<>> /\ Top(t).todo # <<>>
  BY DEF AddImport, At
<1>1. stack' = [stack EXCEPT ![t] = s]
  BY DEF AddImport
<1>2. stack[t] \in Seq(Frames(program)) /\ n \in Nat /\ n \in 1 .. n
  BY <1>0, TopType DEF IInv, Stacks
<1>3. f.job = Top(t).job /\ f.todo = Tail(Top(t).todo)
  OBVIOUS
<1>4. Len(s) = n /\ \A i \in 1 .. n : s[i] = IF i = n THEN f ELSE stack[t][i]
  <2> HIDE DEF f
  <2> QED
    BY <1>2
<1>5. stack'[t] = s /\ \A u \in Thread : u # t => stack'[u] = stack[u]
  <2> HIDE DEF s
  <2> QED
    BY <1>1 DEF IInv, Stacks
<1> HIDE DEF f, s
<1> QED
  BY <1>0, <1>3, <1>4, <1>5 DEF GoesOn

\* What claiming a job does, from the queue or in an await.
LEMMA ClaimBegins ==
  ASSUME IInv, NEW t \in Thread, NEW j \in Job \ locked, NEW s,
         s = stack[t] \/ (s = <<>> /\ stack[t] = <<>>),
         stack' = [stack EXCEPT ![t] = Append(s, Frame(j))]
  PROVE  Begins(t, j)
<1>1. stack[t] \in Seq(Frames(program)) /\ s = stack[t] /\ Frame(j) \in Frames(program)
  BY FrameType DEF IInv, Stacks
<1> DEFINE s1 == Append(s, Frame(j))
<1>2. /\ Len(s1) = Len(s) + 1 /\ s1[Len(s) + 1] = Frame(j)
      /\ \A i \in 1 .. Len(s) : s1[i] = s[i]
  BY <1>1, AppendProperties
<1>3. stack'[t] = s1 /\ \A u \in Thread : u # t => stack'[u] = stack[u]
  <2>1. stack' = [stack EXCEPT ![t] = s1]
    OBVIOUS
  <2> HIDE DEF s1
  <2> QED
    BY <2>1 DEF IInv, Stacks
<1> HIDE DEF s1
<1> QED
  BY <1>1, <1>2, <1>3 DEF Begins

\* What the end of a job does.
LEMMA FinishReturns == ASSUME IInv, NEW t \in Thread, Finish(t) PROVE Returns(t)
<1> DEFINE s == Front(stack[t])
<1>0. stack[t] # <<>> /\ Top(t).todo = <<>> /\ stack' = [stack EXCEPT ![t] = s]
  BY DEF Finish
<1>1. stack[t] \in Seq(Frames(program))
  BY DEF IInv, Stacks
<1>2. Len(s) = Len(stack[t]) - 1 /\ \A i \in 1 .. Len(s) : s[i] = stack[t][i]
  BY <1>0, <1>1 DEF Front
<1>3. stack'[t] = s /\ \A u \in Thread : u # t => stack'[u] = stack[u]
  <2> HIDE DEF s
  <2> QED
    BY <1>0 DEF IInv, Stacks
<1> HIDE DEF s
<1> QED
  BY <1>0, <1>2, <1>3 DEF Returns

\* A concatenation begins like its first part.
LEMMA ConcatStart ==
  ASSUME NEW S, NEW u \in Seq(S), NEW v \in Seq(S), Len(u) >= 2
  PROVE  (u \o v) \in Seq(S) /\ Len(u \o v) >= 2 /\ (u \o v)[1] = u[1] /\ (u \o v)[2] = u[2]
  OBVIOUS

\* Three ops in a row.
LEMMA TwoAndOne ==
  ASSUME NEW a, NEW b, NEW c
  PROVE  LET s == <<a, b>> \o <<c>> IN Len(s) = 3 /\ s[1] = a /\ s[2] = b /\ s[3] = c
<1> DEFINE S == {a, b, c}
<1>1. <<a, b>> \in Seq(S) /\ <<c>> \in Seq(S)
  OBVIOUS
<1> HIDE DEF S
<1> QED
  BY <1>1, ConcatProperties

\* What semantic begins with.
LEMMA SemanticBegins ==
  ASSUME program \in Program, NEW n \in Node
  PROVE  LET s == SemanticSteps(n)
         IN /\ s \in Seq(May(program, <<n, Semantic>>)) /\ Len(s) >= 2
            /\ s[1] = Await(n, PreSemantic) /\ s[2] = Just("super")
<1> DEFINE j == <<n, Semantic>>
           M == May(program, j)
           a == <<Await(n, PreSemantic), Just("super")>>
           x == Imports(n[1])
           y == Types(program.signature[n[1]], PreSemantic)
           z == If(Kind(n) # "import", <<Just("check")>>)
<1>1. j \in Job /\ j[2] = Semantic /\ j[2] > PreSemantic /\ PreSemantic < j[2] /\ n[1] \in Script
  BY DEF Job, Stage, Semantic, PreSemantic, Node
<1>2. Before(program, <<n, PreSemantic>>, j)
  BY DEF Before, PreSemantic, Semantic
<1>3. Await(n, PreSemantic) \in M /\ Just("super") \in M /\ Just("check") \in M
  BY <1>1, <1>2, AwaitAllowed, OthersAllowed, StagesType
<1>4. x \in Seq(M)
  BY <1>1, ImportsType
<1>5. y \in Seq(M)
  <2>1. program.signature[n[1]] \in Seq(Script)
    BY <1>1, ProgramAssumption
  <2> QED
    BY <1>1, <2>1, TypesType
<1>6. z \in Seq(M)
  BY <1>3, ShortSeq, IfType
<1>7. a \in Seq(M) /\ Len(a) = 2 /\ a[1] = Await(n, PreSemantic) /\ a[2] = Just("super")
  BY <1>3
<1>8. SemanticSteps(n) = ((a \o x) \o y) \o z
  BY DEF SemanticSteps
<1> HIDE DEF a, x, y, z, M
<1>9. /\ a \o x \in Seq(M) /\ Len(a \o x) >= 2
      /\ (a \o x)[1] = a[1] /\ (a \o x)[2] = a[2]
  <2>1. a \in Seq(M) /\ Len(a) >= 2
    BY <1>7
  <2> QED
    BY <1>4, <2>1, ConcatStart
<1> DEFINE ax == a \o x
<1>10. /\ ax \o y \in Seq(M) /\ Len(ax \o y) >= 2
       /\ (ax \o y)[1] = a[1] /\ (ax \o y)[2] = a[2]
  BY <1>5, <1>9, ConcatStart
<1> DEFINE axy == ax \o y
<1>11. /\ axy \o z \in Seq(M) /\ Len(axy \o z) >= 2
       /\ (axy \o z)[1] = a[1] /\ (axy \o z)[2] = a[2]
  BY <1>6, <1>10, ConcatStart
<1> QED
  BY <1>7, <1>8, <1>11 DEF M

\* What preSemantic has to do: one lookup if the script extends another.
LEMMA PreSemanticBegins ==
  ASSUME program \in Program, NEW n \in Node, NEW f, f.todo = PreSemanticSteps(n)
  PROVE  Lookups(f) = IF program.extends[n[1]] # Null THEN {2} ELSE {}
  BY DEF Lookups, PreSemanticSteps, If, Await, Lookup, Just

\* Where the ops of ops \o Tail(todo) come from, and where those of todo go.
LEMMA AfterOps ==
  ASSUME NEW S, NEW ops \in Seq(S), NEW todo \in Seq(S), todo # <<>>
  PROVE  LET new == ops \o Tail(todo)
         IN /\ new \in Seq(S) /\ Len(new) = Len(ops) + Len(todo) - 1
            /\ \A k \in 1 .. Len(new) :
                 new[k] = IF k <= Len(ops) THEN ops[k] ELSE todo[k - Len(ops) + 1]
  OBVIOUS

\* What a step of thread t that goes on means for what the job on top inherits.
Does(t, ops) ==
  LET o == Op(t)
  IN \/ /\ o.do = "await" /\ o.job \in ran /\ ops = <<>> /\ parent' = parent
     \/ /\ o.do \in {"parse", "check", "deref", "resolved", "add"} /\ ops = <<>> /\ parent' = parent
     \/ /\ o.do = "super" /\ parent' = parent
        /\ ops = IF parent[Self(t)] = Null THEN <<>> ELSE <<Await(parent[Self(t)], Semantic)>>
     \/ o.do \in {"resolve", "import"} /\ parent' = parent
     \/ /\ o.do = "lookup"
        /\ \E n \in Node : /\ SetParent(t, n)
                           /\ \E k \in 1 .. Len(ops) : ops[k] = Await(n, o.stage)
        /\ \A k \in 1 .. Len(ops) : ops[k].do # "lookup"

\* Every step of a thread is one of these.
StepShape(t) ==
  \/ UNCHANGED <<stack, ran, parent, locked>>
  \/ \E j : Begins(t, j) /\ locked' = locked \cup {j} /\ UNCHANGED <<ran, parent>>
  \/ Returns(t) /\ ran' = ran \cup {Top(t).job} /\ UNCHANGED <<locked, parent>>
  \/ \E ops \in Seq(May(program, Top(t).job)) :
       GoesOn(t, ops \o Tail(Top(t).todo)) /\ Does(t, ops) /\ UNCHANGED <<ran, locked>>

\* a lookup or an import that finds or makes a node
LEMMA UseDoes ==
  ASSUME IInv, NEW t \in Thread, Wanted(t), NEW n \in Node, SetParent(t, n), NEW pre,
         pre = <<>> \/ (\E x : pre = <<Await(n, PreSemantic), Resolved(x)>>)
  PROVE  Does(t, pre \o Use(t, n))
<1>1. Op(t).do \in {"lookup", "import"} /\ stack[t] # <<>> /\ Top(t).todo # <<>>
  BY DEF Wanted, At
<1>2. CASE Op(t).do = "import"
  <2>1. Top(t).job[2] # PreSemantic
    BY <1>1, <1>2, OpType DEF Allowed, PreSemantic
  <2>2. parent' = parent
    BY <2>1 DEF SetParent
  <2> QED
    BY <1>2, <2>2 DEF Does
<1>3. CASE Op(t).do = "lookup"
  <2> DEFINE ops == pre \o Use(t, n)
  <2>1. Use(t, n) = <<Await(n, Op(t).stage)>>
    BY <1>3 DEF Use
  <2>2. CASE pre = <<>>
    <3>1. ops = <<Await(n, Op(t).stage)>>
      BY <2>1, <2>2
    <3>2. Len(ops) = 1 /\ ops[1] = Await(n, Op(t).stage) /\ ops[1].do = "await"
      BY <3>1 DEF Await
    <3> QED
      BY <1>3, <3>2 DEF Does
  <2>3. CASE \E x : pre = <<Await(n, PreSemantic), Resolved(x)>>
    <3>1. PICK x : pre = <<Await(n, PreSemantic), Resolved(x)>>
      BY <2>3
    <3>2. /\ Len(ops) = 3 /\ ops[1] = Await(n, PreSemantic) /\ ops[2] = Resolved(x)
          /\ ops[3] = Await(n, Op(t).stage)
      BY <2>1, <3>1, TwoAndOne
    <3>3. ops[1].do = "await" /\ ops[2].do = "resolved" /\ ops[3].do = "await"
      BY <3>2 DEF Await, Resolved
    <3>4. \A k \in 1 .. Len(ops) : ops[k].do # "lookup"
      BY <3>2, <3>3
    <3> QED
      BY <1>3, <3>2, <3>4 DEF Does
  <2> QED
    BY <2>2, <2>3
<1> QED
  BY <1>1, <1>2, <1>3

\* The steps of a thread have these shapes.
LEMMA StepHasShape == ASSUME IInv, Claims, NEW t \in Thread, Step(t) PROVE StepShape(t)
<1> DEFINE M == May(program, Top(t).job)
<1>1. CASE TakeJob(t)
  <2>1. Head(queue) \in Job /\ stack[t] = <<>> /\ UNCHANGED <<ran, parent>>
    BY <1>1 DEF TakeJob, IInv, Queued
  <2>2. CASE Head(queue) \in locked
    BY <1>1, <2>1, <2>2 DEF TakeJob, StepShape
  <2>3. CASE Head(queue) \notin locked
    <3>1. /\ locked' = locked \cup {Head(queue)}
          /\ stack' = [stack EXCEPT ![t] = <<Frame(Head(queue))>>]
      BY <1>1, <2>3 DEF TakeJob
    <3>2. stack' = [stack EXCEPT ![t] = Append(<<>>, Frame(Head(queue)))]
      BY <3>1
    <3>3. Begins(t, Head(queue))
      BY <2>1, <2>3, <3>2, ClaimBegins
    <3> QED
      BY <2>1, <3>1, <3>3 DEF StepShape
  <2> QED
    BY <2>2, <2>3
<1>2. CASE Finish(t)
  BY <1>2, FinishReturns DEF Finish, StepShape
<1>3. CASE AwaitRun(t)
  <2>1. Op(t).job \in Job \ locked
    BY <1>3, AwaitsBefore DEF AwaitRun
  <2>2. Begins(t, Op(t).job)
    BY <1>3, <2>1, ClaimBegins DEF AwaitRun
  <2> QED
    BY <1>3, <2>2 DEF AwaitRun, StepShape
<1>4. ASSUME stack[t] # <<>>, Top(t).todo # <<>>, NEW ops \in Seq(M),
             Continue(t, ops), Does(t, ops), UNCHANGED <<ran, locked>>
      PROVE  StepShape(t)
  BY <1>4, ContinueGoesOn DEF StepShape
<1>5. CASE AwaitRan(t)
  BY <1>4, <1>5, EmptySeq DEF AwaitRan, At, Does
<1>6. CASE ParseFile(t) \/ LeaveResolving(t)
  BY <1>4, <1>6, EmptySeq DEF ParseFile, LeaveResolving, At, Does
<1>7. CASE ExitIfErrors(t) \/ Dereference(t)
  <2>1. CASE stack' = stack
    BY <1>7, <2>1 DEF ExitIfErrors, Dereference, Throw, StepShape
  <2>2. CASE Continue(t, <<>>)
    BY <1>4, <1>7, <2>2, EmptySeq DEF ExitIfErrors, Dereference, Throw, At, Does
  <2> QED
    BY <1>7, <2>1, <2>2 DEF ExitIfErrors, Dereference, Throw
<1>8. CASE AwaitSelf(t) \/ TypeMissing(t)
  BY <1>8 DEF AwaitSelf, TypeMissing, Throw, StepShape
<1>9. CASE AwaitSuper(t)
  <2> DEFINE ops == IF parent[Self(t)] = Null THEN <<>> ELSE <<Await(parent[Self(t)], Semantic)>>
  <2>1. ops \in Seq(M) /\ stack[t] # <<>> /\ Top(t).todo # <<>>
    BY <1>9, SuperOps DEF AwaitSuper, At
  <2>2. Does(t, ops)
    BY <1>9 DEF AwaitSuper, At, Does
  <2>3. Continue(t, ops) /\ UNCHANGED <<ran, locked>>
    BY <1>9 DEF AwaitSuper
  <2> HIDE DEF ops
  <2> QED
    BY <1>4, <2>1, <2>2, <2>3
<1>10. CASE ResolveType(t)
  <2>1. PICK ops \in Seq(M) : Continue(t, ops)
    BY <1>10, ResolveOps
  <2> QED
    BY <1>4, <1>10, <2>1 DEF ResolveType, At, Does
<1>11. CASE Found(t)
  <2> DEFINE n == TryFind(t, Op(t).script)
  <2>1. stack[t] # <<>> /\ Top(t).todo # <<>> /\ Wanted(t) /\ Op(t).script \in Script
    <3>1. stack[t] # <<>> /\ Top(t).todo # <<>> /\ Wanted(t) /\ Op(t).do \in {"lookup", "import"}
      BY <1>11 DEF Found, Wanted, At
    <3> QED
      BY <3>1, OpType DEF Ops
  <2>2. n \in Node /\ n[1] = Op(t).script
    BY <1>11, <2>1 DEF Found, TryFind, IInv, Nodes
  <2>3. Continue(t, Use(t, n)) /\ SetParent(t, n) /\ UNCHANGED <<ran, locked>>
    BY <1>11 DEF Found
  <2> HIDE DEF n
  <2>4. Use(t, n) \in Seq(M)
    BY <2>1, <2>2, UseType
  <2>5. <<>> \o Use(t, n) = Use(t, n)
    BY <2>4, ConcatEmptySeq
  <2>6. Does(t, Use(t, n))
    BY <2>1, <2>2, <2>3, <2>5, UseDoes
  <2> QED
    BY <1>4, <2>1, <2>3, <2>4, <2>6
<1>12. CASE Provide(t)
  <2> DEFINE x == Op(t).script
             n == <<x, made[x] + 1>>
             pre == <<Await(n, PreSemantic), Resolved(x)>>
  <2>1. stack[t] # <<>> /\ Top(t).todo # <<>> /\ Wanted(t) /\ x \in Script
    <3>1. stack[t] # <<>> /\ Top(t).todo # <<>> /\ Wanted(t) /\ Op(t).do \in {"lookup", "import"}
      BY <1>12 DEF Provide, Wanted, At
    <3> QED
      BY <3>1, OpType DEF Ops
  <2>2. made[x] + 1 \in 0 .. MaxMade
    BY <1>12, <2>1, ProgramAssumption DEF Provide, IInv, Nodes
  <2>3. n \in Node /\ n[1] = x
    BY <2>1, <2>2 DEF Node
  <2>4. Continue(t, pre \o Use(t, n)) /\ SetParent(t, n) /\ UNCHANGED <<ran, locked>>
    BY <1>12 DEF Provide
  <2> HIDE DEF n
  <2>5. Use(t, n) \in Seq(M) /\ pre \in Seq(M)
    BY <2>1, <2>3, UseType
  <2>6. pre \o Use(t, n) \in Seq(M)
    <3> HIDE DEF pre
    <3> QED
      BY <2>5, ConcatProperties
  <2>7. Does(t, pre \o Use(t, n))
    BY <2>1, <2>3, <2>4, UseDoes
  <2> QED
    BY <1>4, <2>1, <2>4, <2>6, <2>7
<1>13. CASE ImportMissing(t)
  <2>1. stack[t] # <<>> /\ Top(t).todo # <<>>
    BY <1>13 DEF ImportMissing, At
  <2>2. <<Add(Null)>> \in Seq(M)
    BY <2>1, TopType, OthersAllowed, ShortSeq
  <2>3. Does(t, <<Add(Null)>>)
    BY <1>13 DEF ImportMissing, At, Does
  <2> QED
    BY <1>4, <1>13, <2>1, <2>2, <2>3 DEF ImportMissing
<1>14. CASE AddImport(t)
  <2>1. GoesOn(t, Tail(Top(t).todo)) /\ stack[t] # <<>> /\ Top(t).todo # <<>>
    BY <1>14, AddGoesOn DEF AddImport, At
  <2>2. Tail(Top(t).todo) \in Seq(M)
    BY <2>1, OpType
  <2>3. <<>> \o Tail(Top(t).todo) = Tail(Top(t).todo)
    BY <2>2, ConcatEmptySeq
  <2>4. Does(t, <<>>) /\ UNCHANGED <<ran, locked>>
    BY <1>14 DEF AddImport, At, Does
  <2> QED
    BY <2>1, <2>3, <2>4, EmptySeq DEF StepShape
<1> QED
  BY <1>1, <1>2, <1>3, <1>5, <1>6, <1>7, <1>8, <1>9, <1>10, <1>11, <1>12, <1>13, <1>14 DEF Step

\* No job begins twice.
LEMMA StepOnce == ASSUME IInv, Claims, Once, NEW t \in Thread, StepShape(t) PROVE Once'
<1>1. \A u \in Thread : Len(stack[u]) \in Nat
  BY DEF IInv, Stacks
<1>2. CASE UNCHANGED <<stack, ran, parent, locked>>
  BY <1>2 DEF Once
<1>3. ASSUME NEW j, Begins(t, j), UNCHANGED ran PROVE Once'
  <2>1. j \notin ran /\ \A u \in Thread : \A i \in 1 .. Len(stack[u]) : stack[u][i].job # j
    BY <1>3 DEF Begins, Claims
  <2>2. Frame(j).job = j
    BY <1>3, FrameType DEF Begins, IInv
  <2>3. ASSUME NEW u \in Thread, NEW i \in 1 .. Len(stack'[u])
        PROVE  \/ /\ i \in 1 .. Len(stack[u]) /\ stack'[u][i] = stack[u][i]
                  /\ stack[u][i].job # j /\ stack[u][i].job \notin ran
               \/ u = t /\ i = Len(stack[t]) + 1 /\ stack'[u][i].job = j
    <3>1. CASE i \in 1 .. Len(stack[u])
      BY <1>3, <2>1, <3>1 DEF Begins, Once
    <3>2. CASE i \notin 1 .. Len(stack[u])
      <4>1. u = t /\ i = Len(stack[t]) + 1
        BY <1>1, <1>3, <2>3, <3>2 DEF Begins
      <4> QED
        BY <1>3, <2>2, <4>1 DEF Begins
    <3> QED
      BY <3>1, <3>2
  <2>4. ASSUME NEW u \in Thread, NEW i \in 1 .. Len(stack'[u]),
               NEW v \in Thread, NEW k \in 1 .. Len(stack'[v]),
               stack'[u][i].job = stack'[v][k].job
        PROVE  u = v /\ i = k
    <3>1. CASE stack'[u][i].job = j
      BY <2>3, <2>4, <3>1
    <3>2. CASE stack'[u][i].job # j
      <4>1. /\ i \in 1 .. Len(stack[u]) /\ stack'[u][i] = stack[u][i]
            /\ k \in 1 .. Len(stack[v]) /\ stack'[v][k] = stack[v][k]
        BY <2>3, <2>4, <3>2
      <4> QED
        BY <2>4, <4>1 DEF Once
    <3> QED
      BY <3>1, <3>2
  <2>5. \A u \in Thread : \A i \in 1 .. Len(stack'[u]) : stack'[u][i].job \notin ran'
    BY <1>3, <2>1, <2>3
  <2> QED
    BY <2>4, <2>5 DEF Once
<1>4. ASSUME Returns(t), ran' = ran \cup {Top(t).job} PROVE Once'
  <2>1. Top(t) = stack[t][Len(stack[t])] /\ Len(stack[t]) \in 1 .. Len(stack[t])
    BY <1>4, TopType DEF Returns
  <2>2. ASSUME NEW u \in Thread, NEW i \in 1 .. Len(stack'[u])
        PROVE  /\ i \in 1 .. Len(stack[u]) /\ stack'[u][i] = stack[u][i]
               /\ stack[u][i].job # Top(t).job
    <3>1. i \in 1 .. Len(stack[u]) /\ stack'[u][i] = stack[u][i] /\ (u = t => i # Len(stack[t]))
      BY <1>1, <1>4, <2>2 DEF Returns
    <3> QED
      BY <2>1, <3>1 DEF Once
  <2>3. ASSUME NEW u \in Thread, NEW i \in 1 .. Len(stack'[u]) PROVE stack'[u][i].job \notin ran'
    <3>1. stack[u][i].job \notin ran
      BY <2>2 DEF Once
    <3> QED
      BY <1>4, <2>2, <3>1
  <2>4. ASSUME NEW u \in Thread, NEW i \in 1 .. Len(stack'[u]),
               NEW v \in Thread, NEW k \in 1 .. Len(stack'[v]),
               stack'[u][i].job = stack'[v][k].job
        PROVE  u = v /\ i = k
    <3>1. /\ i \in 1 .. Len(stack[u]) /\ stack'[u][i] = stack[u][i]
          /\ k \in 1 .. Len(stack[v]) /\ stack'[v][k] = stack[v][k]
      BY <2>2
    <3> QED
      BY <2>4, <3>1 DEF Once
  <2> QED
    BY <2>3, <2>4 DEF Once
<1>5. ASSUME NEW todo, GoesOn(t, todo), UNCHANGED ran PROVE Once'
  <2>1. Top(t) = stack[t][Len(stack[t])]
    BY <1>5, TopType DEF GoesOn
  <2>2. \A u \in Thread : /\ Len(stack'[u]) = Len(stack[u])
                         /\ \A i \in 1 .. Len(stack[u]) : stack'[u][i].job = stack[u][i].job
    BY <1>5, <2>1 DEF GoesOn
  <2> QED
    BY <1>5, <2>2 DEF Once
<1> QED
  BY <1>2, <1>3, <1>4, <1>5 DEF StepShape

\* Only preSemantic sets a parent, that of its own node.
LEMMA ParentStays ==
  ASSUME IInv, Once, NEW t \in Thread, StepShape(t), NEW n \in Node, parent'[n] # parent[n]
  PROVE  stack[t] # <<>> /\ Top(t).job = <<n, PreSemantic>> /\ <<n, PreSemantic>> \notin ran
<1>1. PICK ops : GoesOn(t, ops \o Tail(Top(t).todo)) /\ Does(t, ops)
  BY DEF StepShape
<1>2. PICK m : SetParent(t, m)
  BY <1>1 DEF Does
<1>3. stack[t] # <<>> /\ Top(t).job[2] = PreSemantic
  BY <1>1, <1>2 DEF SetParent, GoesOn
<1>4. parent \in [Node -> Node \cup {Null}] /\ Self(t) \in Node
  BY <1>3, TopType DEF IInv, Parents
<1>5. n = Self(t)
  BY <1>2, <1>4 DEF SetParent
<1>6. Top(t).job = <<n, PreSemantic>>
  BY <1>3, <1>5, TopType DEF Self, Job
<1>7. Top(t) = stack[t][Len(stack[t])] /\ Len(stack[t]) \in 1 .. Len(stack[t])
  BY <1>3, TopType
<1> QED
  BY <1>3, <1>6, <1>7 DEF Once

\* What holds of a frame stays true while the parent of its node is what it is.
LEMMA FrameKept ==
  ASSUME NEW p, NEW par, NEW par2, NEW r, NEW r2, NEW f, r \subseteq r2,
         FindsParent(p, par, r, f), AwaitsParent(par, r, f),
         \/ par2[f.job[1]] = par[f.job[1]]
         \/ <<f.job[1], PreSemantic>> \notin r /\ f.job[2] # PreSemantic
  PROVE  FindsParent(p, par2, r2, f) /\ AwaitsParent(par2, r2, f)
  BY DEF FindsParent, AwaitsParent

\* It holds of a frame that begins.
LEMMA FrameBegins ==
  ASSUME program \in Program, NEW j \in Job, NEW par, NEW r
  PROVE  FindsParent(program, par, r, Frame(j)) /\ AwaitsParent(par, r, Frame(j))
<1>1. Frame(j).job = j /\ Frame(j).todo = Steps(j) /\ j[1] \in Node
  BY DEF Frame, Job
<1>2. CASE j[2] = PreSemantic
  <2>1. Steps(j) = PreSemanticSteps(j[1])
    BY <1>2 DEF Steps, Read, PreParse, Parse, PreSemantic, Semantic, Compile, Write
  <2>2. Lookups(Frame(j)) = IF program.extends[j[1][1]] # Null THEN {2} ELSE {}
    BY <1>1, <2>1, PreSemanticBegins
  <2> QED
    BY <1>1, <1>2, <2>2 DEF FindsParent, AwaitsParent, PreSemantic, Semantic
<1>3. CASE j[2] = Semantic
  <2>1. Steps(j) = SemanticSteps(j[1])
    BY <1>3 DEF Steps, Read, PreParse, Parse, PreSemantic, Semantic, Compile, Write
  <2>2. LET s == SemanticSteps(j[1])
        IN Len(s) >= 2 /\ s[1] = Await(j[1], PreSemantic) /\ s[2] = Just("super")
    BY <1>1, SemanticBegins
  <2>3. NotBegun(Frame(j))
    BY <1>1, <2>1, <2>2 DEF NotBegun
  <2> QED
    BY <1>1, <1>3, <2>3 DEF FindsParent, AwaitsParent, PreSemantic, Semantic
<1> QED
  BY <1>1, <1>2, <1>3 DEF FindsParent, AwaitsParent

\* Where the ops of ops \o Tail(u) come from, and where they go.
LEMMA OpsAfter ==
  ASSUME NEW S, NEW ops \in Seq(S), NEW u \in Seq(S), u # <<>>, NEW v, v = ops \o Tail(u)
  PROVE  /\ \A k \in 1 .. Len(ops) : k \in 1 .. Len(v) /\ v[k] = ops[k]
         /\ \A k \in 2 .. Len(u) : k + Len(ops) - 1 \in 1 .. Len(v) /\ v[k + Len(ops) - 1] = u[k]
         /\ \A k \in 1 .. Len(v) :
              \/ k \in 1 .. Len(ops) /\ v[k] = ops[k]
              \/ k - Len(ops) + 1 \in 2 .. Len(u) /\ v[k] = u[k - Len(ops) + 1]
<1>1. /\ Len(v) = Len(ops) + Len(u) - 1
      /\ \A k \in 1 .. Len(v) : v[k] = IF k <= Len(ops) THEN ops[k] ELSE u[k - Len(ops) + 1]
  BY AfterOps
<1>2. Len(ops) \in Nat /\ Len(u) \in Nat /\ Len(u) >= 1
  OBVIOUS
<1>3. ASSUME NEW k \in 1 .. Len(ops) PROVE k \in 1 .. Len(v) /\ v[k] = ops[k]
  BY <1>1, <1>2
<1>4. ASSUME NEW k \in 2 .. Len(u)
      PROVE  k + Len(ops) - 1 \in 1 .. Len(v) /\ v[k + Len(ops) - 1] = u[k]
  <2> DEFINE l == k + Len(ops) - 1
  <2>1. l \in 1 .. Len(v) /\ ~(l <= Len(ops)) /\ l - Len(ops) + 1 = k
    BY <1>1, <1>2
  <2> HIDE DEF l
  <2>2. v[l] = u[k]
    BY <1>1, <2>1
  <2> QED
    BY <2>1, <2>2 DEF l
<1>5. ASSUME NEW k \in 1 .. Len(v)
      PROVE  \/ k \in 1 .. Len(ops) /\ v[k] = ops[k]
             \/ k - Len(ops) + 1 \in 2 .. Len(u) /\ v[k] = u[k - Len(ops) + 1]
  BY <1>1, <1>2
<1> QED
  BY <1>3, <1>4, <1>5

\* So whom f awaits g awaits, unless the op f was at is that await.
LEMMA AwaitsAfter ==
  ASSUME NEW S, NEW ops \in Seq(S), NEW f, NEW g, f.todo \in Seq(S), f.todo # <<>>,
         g.todo = ops \o Tail(f.todo)
  PROVE  /\ \A j : Awaits(f, j) /\ ~(f.todo[1].do = "await" /\ f.todo[1].job = j) => Awaits(g, j)
         /\ AtSuper(f) /\ f.todo[1].do # "super" => AtSuper(g)
         /\ \A k \in 1 .. Len(ops) : ops[k].do = "await" => Awaits(g, ops[k].job)
<1>0. Len(f.todo) \in Nat
  OBVIOUS
<1>9. /\ \A k \in 1 .. Len(ops) : k \in 1 .. Len(g.todo) /\ g.todo[k] = ops[k]
      /\ \A k \in 2 .. Len(f.todo) : \E l \in 1 .. Len(g.todo) : g.todo[l] = f.todo[k]
  <2>1. /\ \A k \in 1 .. Len(ops) : k \in 1 .. Len(g.todo) /\ g.todo[k] = ops[k]
        /\ \A k \in 2 .. Len(f.todo) : /\ k + Len(ops) - 1 \in 1 .. Len(g.todo)
                                      /\ g.todo[k + Len(ops) - 1] = f.todo[k]
    BY OpsAfter
  <2> QED
    BY <2>1
<1>1. ASSUME NEW j, Awaits(f, j), ~(f.todo[1].do = "await" /\ f.todo[1].job = j)
      PROVE  Awaits(g, j)
  <2>1. PICK k \in 2 .. Len(f.todo) : f.todo[k].do = "await" /\ f.todo[k].job = j
    BY <1>0, <1>1 DEF Awaits
  <2>2. PICK l \in 1 .. Len(g.todo) : g.todo[l] = f.todo[k]
    BY <1>9
  <2> QED
    BY <2>1, <2>2 DEF Awaits
<1>2. ASSUME AtSuper(f), f.todo[1].do # "super" PROVE AtSuper(g)
  <2>1. PICK k \in 2 .. Len(f.todo) : f.todo[k].do = "super"
    BY <1>0, <1>2 DEF AtSuper
  <2>2. PICK l \in 1 .. Len(g.todo) : g.todo[l] = f.todo[k]
    BY <1>9
  <2> QED
    BY <2>1, <2>2 DEF AtSuper
<1>3. ASSUME NEW k \in 1 .. Len(ops), ops[k].do = "await" PROVE Awaits(g, ops[k].job)
  <2>1. k \in 1 .. Len(g.todo) /\ g.todo[k] = ops[k]
    BY <1>9
  <2> QED
    BY <1>3, <2>1 DEF Awaits
<1> QED
  BY <1>1, <1>2, <1>3

\* What holds of the frame on top goes on to hold when its job goes on.
LEMMA FrameGoesOn ==
  ASSUME IInv, NEW t \in Thread, NEW f, f = Top(t), NEW o, o = Op(t), NEW par2, par2 = parent',
         stack[t] # <<>>, f.todo # <<>>, NEW ops \in Seq(May(program, f.job)), Does(t, ops),
         NEW g, g.job = f.job, g.todo = ops \o Tail(f.todo),
         FindsParent(program, parent, ran, f), AwaitsParent(parent, ran, f)
  PROVE  FindsParent(program, par2, ran, g) /\ AwaitsParent(par2, ran, g)
<1> DEFINE n == f.job[1]
           M == May(program, f.job)
           d == Len(ops)
<1>1. /\ f.job \in Job /\ n \in Node /\ f.todo \in Seq(M) /\ o = f.todo[1] /\ 1 \in 1 .. Len(f.todo)
      /\ o \in Ops /\ Allowed(program, f.job, o) /\ d \in Nat /\ Len(f.todo) \in Nat
  <2>1. f.job \in Job /\ n \in Node /\ f.todo \in Seq(M) /\ o = Head(f.todo)
    BY TopType DEF Frames, Job, Op
  <2> HIDE DEF M
  <2>2. o = f.todo[1] /\ 1 \in 1 .. Len(f.todo) /\ o \in M /\ Len(f.todo) \in Nat
    BY <2>1
  <2> QED
    BY <2>1, <2>2 DEF May, M
<1>2. /\ \A k \in 1 .. d : k \in 1 .. Len(g.todo) /\ g.todo[k] = ops[k]
      /\ \A k \in 2 .. Len(f.todo) :
           k + d - 1 \in 1 .. Len(g.todo) /\ g.todo[k + d - 1] = f.todo[k]
      /\ \A k \in 1 .. Len(g.todo) :
           \/ k \in 1 .. d /\ g.todo[k] = ops[k]
           \/ k - d + 1 \in 2 .. Len(f.todo) /\ g.todo[k] = f.todo[k - d + 1]
  BY <1>1, OpsAfter
<1>3. /\ \A j : Awaits(f, j) /\ ~(o.do = "await" /\ o.job = j) => Awaits(g, j)
      /\ AtSuper(f) /\ o.do # "super" => AtSuper(g)
      /\ \A k \in 1 .. d : ops[k].do = "await" => Awaits(g, ops[k].job)
  BY <1>1, AwaitsAfter
<1> HIDE DEF d, M
<1>6. ASSUME f.job[2] = PreSemantic, o.do # "lookup" PROVE FindsParent(program, par2, ran, g)
  <2>1. o.do \notin {"resolve", "import", "super"}
    BY <1>1, <1>6 DEF Allowed, Ops, PreSemantic, Semantic
  <2>2. ops = <<>> /\ par2 = parent /\ (o.do = "await" => o.job \in ran)
    BY <1>6, <2>1 DEF Does
  <2>3. \A k \in 2 .. Len(f.todo) : k \in Lookups(f) <=> (k - 1) \in Lookups(g)
    BY <1>1, <1>2, <2>2 DEF Lookups, d
  <2>4. 1 \notin Lookups(f) /\ \A k \in Lookups(g) : k + 1 \in Lookups(f)
    BY <1>1, <1>2, <1>6, <2>2 DEF Lookups, d
  <2>5. Lookups(f) \subseteq 1 .. Len(f.todo) /\ Lookups(g) \subseteq Nat /\ Len(f.todo) \in Nat
    BY <1>1 DEF Lookups
  <2>6. \A k, l \in Lookups(g) : k = l
    BY <1>6, <2>4, <2>5 DEF FindsParent
  <2>7. Lookups(g) = {} => Lookups(f) = {}
    BY <2>3, <2>4, <2>5
  <2> QED
    BY <1>3, <1>6, <2>2, <2>6, <2>7 DEF FindsParent
<1>7. ASSUME f.job[2] = PreSemantic, o.do = "lookup" PROVE FindsParent(program, par2, ran, g)
  <2>1. PICK m \in Node : SetParent(t, m) /\ \E k \in 1 .. d : ops[k] = Await(m, o.stage)
    BY <1>7 DEF Does, d
  <2>2. \A k \in 1 .. d : ops[k].do # "lookup"
    BY <1>7 DEF Does, d
  <2>3. 1 \in Lookups(f)
    BY <1>1, <1>7 DEF Lookups
  <2>4. \A k \in 2 .. Len(f.todo) : k \notin Lookups(f)
    BY <1>7, <2>3 DEF FindsParent
  <2>5. Lookups(g) = {}
    BY <1>2, <2>2, <2>4, SMTT(30) DEF Lookups
  <2>6. par2[n] = m /\ m # Null
    BY <1>1, <1>7, <2>1, ProgramAssumption DEF SetParent, Self, IInv, Parents
  <2>7. o.stage = PreSemantic
    BY <1>1, <1>7 DEF Allowed, Ops, PreSemantic, Semantic
  <2>8. Awaits(g, <<m, PreSemantic>>)
    <3>1. PICK k \in 1 .. d : ops[k] = Await(m, o.stage)
      BY <2>1
    <3>2. ops[k].do = "await" /\ ops[k].job = <<m, PreSemantic>>
      BY <2>7, <3>1 DEF Await
    <3> QED
      BY <1>3, <3>2
  <2> QED
    BY <2>5, <2>6, <2>8 DEF FindsParent
<1>8. ASSUME f.job[2] = Semantic PROVE AwaitsParent(par2, ran, g)
  <2>1. par2 = parent
    BY <1>8 DEF Does, SetParent, PreSemantic, Semantic
  <2>2. CASE NotBegun(f)
    <3>1. o = Await(n, PreSemantic) /\ f.todo[2] = Just("super") /\ 2 \in 2 .. Len(f.todo)
      BY <1>1, <2>2 DEF NotBegun
    <3>2. <<n, PreSemantic>> \in ran
      BY <3>1 DEF Await, Does
    <3>3. AtSuper(g)
      BY <1>2, <3>1 DEF AtSuper, Just
    <3> QED
      BY <3>2, <3>3 DEF AwaitsParent
  <2>3. CASE ~NotBegun(f)
    <3>1. <<n, PreSemantic>> \in ran
      BY <1>8, <2>3 DEF AwaitsParent
    <3>2. CASE parent[n] = Null \/ <<parent[n], Semantic>> \in ran
      BY <2>1, <3>1, <3>2 DEF AwaitsParent
    <3>3. CASE Awaits(f, <<parent[n], Semantic>>)
      <4>1. CASE o.do = "await" /\ o.job = <<parent[n], Semantic>>
        BY <2>1, <3>1, <4>1 DEF AwaitsParent, Does
      <4> QED
        BY <1>3, <2>1, <3>1, <3>3, <4>1 DEF AwaitsParent
    <3>4. CASE AtSuper(f) /\ parent[n] # Null
      <4>1. CASE o.do = "super"
        <5>1. ops = <<Await(parent[n], Semantic)>>
          BY <3>4, <4>1 DEF Does, Self
        <5>2. 1 \in 1 .. d /\ ops[1] = Await(parent[n], Semantic)
          BY <5>1 DEF d
        <5>3. Awaits(g, <<parent[n], Semantic>>)
          <6>1. ops[1].do = "await" /\ ops[1].job = <<parent[n], Semantic>>
            BY <5>2 DEF Await
          <6> QED
            BY <1>3, <5>2, <6>1
        <5> QED
          BY <2>1, <3>1, <5>3 DEF AwaitsParent
      <4> QED
        BY <1>3, <3>1, <3>4, <4>1 DEF AwaitsParent
    <3> QED
      BY <1>8, <2>3, <3>2, <3>3, <3>4 DEF AwaitsParent
  <2> QED
    BY <2>2, <2>3
<1> QED
  BY <1>6, <1>7, <1>8 DEF FindsParent, AwaitsParent

\* Every step of a thread keeps what holds of the frames.
LEMMA StepFrames ==
  ASSUME IInv, Claims, Once, FramesOK, NEW t \in Thread, StepShape(t), program' = program
  PROVE  FramesOK'
<1> DEFINE OK(f) == FindsParent(program, parent, ran, f) /\ AwaitsParent(parent, ran, f)
           OK2(f) == FindsParent(program, parent', ran', f) /\ AwaitsParent(parent', ran', f)
<1>0. SUFFICES ASSUME NEW u \in Thread, NEW i \in 1 .. Len(stack'[u]) PROVE OK2(stack'[u][i])
  BY DEF FramesOK
<1>1. /\ \A v \in Thread : stack[v] \in Seq(Frames(program)) /\ Len(stack[v]) \in Nat
      /\ \A v \in Thread : \A k \in 1 .. Len(stack[v]) : OK(stack[v][k]) /\ stack[v][k].job \in Job
      /\ ran \subseteq ran'
  <2>1. \A v \in Thread : stack[v] \in Seq(Frames(program)) /\ Len(stack[v]) \in Nat
    BY DEF IInv, Stacks
  <2>2. ASSUME NEW v \in Thread, NEW k \in 1 .. Len(stack[v])
        PROVE  OK(stack[v][k]) /\ stack[v][k].job \in Job
    <3>1. stack[v][k] \in Frames(program)
      BY <2>1
    <3> QED
      BY <3>1 DEF Frames, FramesOK
  <2>3. ran \subseteq ran'
    BY DEF StepShape
  <2> QED
    BY <2>1, <2>2, <2>3
<1>2. ASSUME i \in 1 .. Len(stack[u]), stack'[u][i] = stack[u][i],
             stack[t] = <<>> \/ stack[u][i].job # Top(t).job \/ parent' = parent
      PROVE  OK2(stack'[u][i])
  <2> DEFINE f == stack[u][i]
  <2>1. f.job \in Job /\ f.job[1] \in Node /\ OK(f)
    BY <1>1, <1>2 DEF Job
  <2>2. \/ parent'[f.job[1]] = parent[f.job[1]]
        \/ <<f.job[1], PreSemantic>> \notin ran /\ f.job[2] # PreSemantic
    <3>1. CASE parent'[f.job[1]] # parent[f.job[1]]
      <4>1. Top(t).job = <<f.job[1], PreSemantic>> /\ <<f.job[1], PreSemantic>> \notin ran
            /\ stack[t] # <<>>
        BY <2>1, <3>1, ParentStays
      <4>2. f.job = <<f.job[1], f.job[2]>>
        BY <2>1 DEF Job
      <4> QED
        BY <1>2, <3>1, <4>1, <4>2
    <3> QED
      BY <3>1
  <2> QED
    BY <1>1, <1>2, <2>1, <2>2, FrameKept
<1>3. CASE UNCHANGED <<stack, ran, parent, locked>>
  BY <1>2, <1>3
<1>4. ASSUME NEW j, Begins(t, j), UNCHANGED <<ran, parent>> PROVE OK2(stack'[u][i])
  <2>1. CASE i \in 1 .. Len(stack[u])
    BY <1>2, <1>4, <2>1 DEF Begins
  <2>2. CASE i \notin 1 .. Len(stack[u])
    <3>1. u = t /\ i = Len(stack[t]) + 1
      BY <1>1, <1>4, <2>2 DEF Begins
    <3> QED
      BY <1>4, <3>1, FrameBegins DEF Begins, IInv
  <2> QED
    BY <2>1, <2>2
<1>5. CASE Returns(t) /\ UNCHANGED parent
  <2>1. i \in 1 .. Len(stack[u]) /\ stack'[u][i] = stack[u][i]
    BY <1>1, <1>5 DEF Returns
  <2> QED
    BY <1>2, <1>5, <2>1
<1>6. ASSUME NEW ops \in Seq(May(program, Top(t).job)), GoesOn(t, ops \o Tail(Top(t).todo)),
             Does(t, ops), UNCHANGED ran
      PROVE  OK2(stack'[u][i])
  <2>1. /\ stack[t] # <<>> /\ Top(t).todo # <<>> /\ i \in 1 .. Len(stack[u])
        /\ Top(t) = stack[t][Len(stack[t])] /\ Len(stack[t]) \in 1 .. Len(stack[t])
    BY <1>6, TopType DEF GoesOn
  <2>2. CASE u = t /\ i = Len(stack[t])
    <3>1. stack'[u][i].job = Top(t).job /\ stack'[u][i].todo = ops \o Tail(Top(t).todo)
      BY <1>6, <2>1, <2>2 DEF GoesOn
    <3>2. OK(Top(t))
      BY <1>1, <2>1
    <3>3. PICK g : g = stack'[u][i]
      OBVIOUS
    <3> QED
      BY <1>6, <2>1, <3>1, <3>2, <3>3, FrameGoesOn
  <2>3. CASE ~(u = t /\ i = Len(stack[t]))
    <3>1. stack'[u][i] = stack[u][i]
      BY <1>6, <2>1, <2>3 DEF GoesOn
    <3>2. stack[u][i].job # Top(t).job
      BY <2>1, <2>3 DEF Once
    <3> QED
      BY <1>2, <2>1, <3>1, <3>2
  <2> QED
    BY <2>2, <2>3
<1> QED
  BY <1>3, <1>4, <1>5, <1>6 DEF StepShape

\* Every step of a thread keeps the order in which jobs have run.
LEMMA StepAncestors ==
  ASSUME AInv, NEW t \in Thread, StepShape(t), program' = program
  PROVE  InOrder' /\ AncestorsFirst'
<1>1. \A n \in Node : Ran(n, PreSemantic) => parent'[n] = parent[n]
  BY ParentStays DEF AInv, Ran
<1>2. CASE ran' = ran
  BY <1>1, <1>2 DEF AInv, InOrder, AncestorsFirst, Ran
<1>3. CASE Returns(t) /\ ran' = ran \cup {Top(t).job} /\ UNCHANGED parent
  <2> DEFINE f == Top(t)
  <2>1. /\ stack[t] # <<>> /\ f.todo = <<>> /\ f = stack[t][Len(stack[t])]
        /\ Len(stack[t]) \in 1 .. Len(stack[t])
    BY <1>3, TopType DEF AInv, Returns
  <2>2. FindsParent(program, parent, ran, f) /\ AwaitsParent(parent, ran, f)
    BY <2>1 DEF AInv, FramesOK
  <2>3. Lookups(f) = {} /\ ~AtSuper(f) /\ ~NotBegun(f) /\ \A j : ~Awaits(f, j)
    BY <2>1 DEF Lookups, AtSuper, NotBegun, Awaits
  <2>4. ASSUME NEW n \in Node, f.job = <<n, PreSemantic>>, program.extends[n[1]] # Null
        PROVE  parent[n] # Null /\ <<parent[n], PreSemantic>> \in ran
    BY <2>2, <2>3, <2>4 DEF FindsParent
  <2>5. ASSUME NEW n \in Node, f.job = <<n, Semantic>>
        PROVE  /\ <<n, PreSemantic>> \in ran
               /\ parent[n] # Null => <<parent[n], Semantic>> \in ran
    BY <2>2, <2>3, <2>5 DEF AwaitsParent
  <2> HIDE DEF f
  <2>6. ran' = ran \cup {f.job}
    BY <1>3 DEF f
  <2> QED
    BY <1>3, <2>4, <2>5, <2>6 DEF AInv, InOrder, AncestorsFirst, Ran, PreSemantic, Semantic
<1> QED
  BY <1>2, <1>3 DEF StepShape

\* Nothing runs and nothing has run at first.
LEMMA NothingRun ==
  ASSUME stack = [t \in Thread |-> <<>>], ran = {}
  PROVE  Once /\ FramesOK /\ InOrder /\ AncestorsFirst
  BY DEF Once, FramesOK, InOrder, AncestorsFirst, Ran

\* Every step preserves the invariant.
LEMMA NextAInv == AInv /\ [Next]_vars => AInv'
<1> SUFFICES ASSUME AInv, [Next]_vars PROVE AInv'
  OBVIOUS
<1>0. IInv /\ Claims /\ Once /\ FramesOK /\ InOrder /\ AncestorsFirst /\ IInv' /\ Claims'
  BY NextIInv, NextClaims DEF AInv
<1>1. ASSUME NEW t \in Thread, Step(t) PROVE AInv'
  <2>1. StepShape(t) /\ program' = program
    BY <1>0, <1>1, StepHasShape DEF Step
  <2> QED
    BY <1>0, <2>1, StepOnce, StepFrames, StepAncestors DEF AInv
<1>2. CASE (Exit /\ UNCHANGED program) \/ UNCHANGED vars
  <2>1. UNCHANGED <<program, stack, ran, parent>>
    BY <1>2 DEF Exit, vars
  <2> QED
    BY <1>0, <2>1 DEF AInv, Once, FramesOK, InOrder, AncestorsFirst, Ran
<1>3. CASE Recompile
  <2>1. stack' = [t \in Thread |-> <<>>] /\ ran' = {}
    BY <1>3, BeginType, ProgramAssumption DEF Recompile
  <2>2. Once' /\ FramesOK' /\ InOrder' /\ AncestorsFirst'
    BY <2>1 DEF Once, FramesOK, InOrder, AncestorsFirst, Ran
  <2> QED
    BY <1>0, <2>2 DEF AInv
<1> QED
  BY <1>1, <1>2, <1>3 DEF Next

\* A script whose preSemantic has run has found its parent, and that one's has run too; one
\* whose semantic has run has a parent that is complete.
THEOREM AncestorsFirstCorrect == Spec => []AncestorsFirst
<1>1. Init => AInv
  BY InitIInv, InitClaims, BeginType, NothingRun DEF Init, AInv
<1>2. AInv => AncestorsFirst
  BY DEF AInv
<1> QED
  BY <1>1, <1>2, NextAInv, PTL DEF Spec
=============================================================================
