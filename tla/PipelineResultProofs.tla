------------------------ MODULE PipelineResultProofs ------------------------
(***************************************************************************)
(* What success and failure of a compile mean, for any scripts, threads    *)
(* and compiles.  The argument: what a job has found is what the program   *)
(* says, so that a job that has run has done so because its script, or     *)
(* what it needs of it, has no errors; and when no input has an error,     *)
(* a thread that has all namespaces only comes to jobs, types and imports  *)
(* that are in order.                                                      *)
(***************************************************************************)
EXTENDS PipelineProofs

In(o, s) == \E k \in 1 .. Len(s) : s[k] = o

\* of which kind a node is
KindIn(p, n) == IF n[2] = 0 THEN p.kind[n[1]] ELSE "import"

\* what a job of stage st that has run says of script x
Settled(p, x, st) == IF st = PreSemantic THEN HasType(p, x) ELSE HasApi(p, x)

\* the types job j resolves, at the stage before its own, and what its script imports
Named(p, j) == ToSet(IF j[2] = Semantic THEN p.signature[j[1][1]] ELSE p.body[j[1][1]])
Refs(p, j) == Named(p, j) \ {j[1][1]}
Imported(p, j) == ToSet(p.imports[j[1][1]])

\* what it finds under a name
Reaches(p, j, x) == ~AsksApart(p, j) /\ Findable(p, x)

\* the jobs that do that
Resolves(p, j) == j[2] = Semantic \/ (j[2] = Compile /\ KindIn(p, j[1]) = "compile")

---------------------------------------------------------------------------
(* What frame f of thread t knows of program p; r are the jobs that have   *)
(* run, e the nodes with errors, reg what is registered, md what was made. *)

OKJob(p, j) ==
  /\ KindIn(p, j[1]) # "none"
  /\ j[2] \in {Compile, Write} => KindIn(p, j[1]) = "compile"

OKImport(p, md, j, m) ==
  m # Null => /\ m[2] <= md[m[1]] /\ KindIn(p, m) # "none"
              /\ Reaches(p, j, m[1]) /\ m[1] \in Imported(p, j)

OKOp(p, md, j, o) ==
  /\ o.do = "await"  => OKJob(p, o.job)
  /\ o.do = "add"    => Resolves(p, j) /\ OKImport(p, md, j, o.node)
  /\ o.do = "import" => Resolves(p, j) /\ o.script \in Imported(p, j)
  /\ o.do = "parse"  => j[2] = Parse
  /\ o.do = "check"  => j[2] = PreSemantic \/ KindIn(p, j[1]) = "compile"

\* it awaits and imports what there is
Sound(p, md, f) ==
  /\ OKJob(p, f.job)
  /\ \A a : In(a, f.todo) => OKOp(p, md, f.job, a)
  /\ \A m \in ToSet(f.imported) : OKImport(p, md, f.job, m)

\* imports come before types, the push_back of one before the next, the error count last
MayPrecede(a, b) ==
  /\ b.do = "add"    => a.do \notin {"import", "add", "resolve", "lookup", "check"}
  /\ b.do = "import" => a.do \notin {"resolve", "lookup", "check"}

Ordered(s) == \A k, l \in 1 .. Len(s) : k < l => MayPrecede(s[k], s[l])

\* the stage before it comes first
Own(r, f) ==
  f.job[2] >= PreSemantic =>
    \/ <<f.job[1], f.job[2] - 1>> \in r
    \/ f.todo # <<>> /\ f.todo[1] = Await(f.job[1], f.job[2] - 1)

Parsed(p, e, f) ==
  f.job[2] = Parse => In(Just("parse"), f.todo) \/ (f.job[1][1] \in Refused(p) => f.job[1] \in e)

Checked(p, r, e, f) ==
  LET n == f.job[1]
  IN /\ f.job[2] = PreSemantic => In(Just("check"), f.todo) \/ n[1] \notin Refused(p)
     /\ f.job[2] = Compile =>
          \/ In(Just("check"), f.todo)
          \/ /\ n \notin e /\ <<n, Semantic>> \in r
             /\ \A a : In(a, f.todo) => a.do \notin {"import", "add"}

Awaited(f, x, st) == \E m \in Node : m[1] = x /\ In(Await(m, st), f.todo)

\* each type is still to be resolved, or was found and is awaited or settled
Typed(p, t, f) ==
  LET st == f.job[2] - 1
  IN f.job[2] \in {Semantic, Compile} =>
       \A y \in Refs(p, f.job) :
         \/ In(Resolve(y, st), f.todo) \/ In(Lookup(y, st), f.todo)
         \/ t = Main /\ Reaches(p, f.job, y) /\ (Settled(p, y, st) \/ Awaited(f, y, st))

\* each import is still to be found, or was, or there is none
ImportsAdded(p, t, f) ==
  f.job[2] \in {Semantic, Compile} =>
    \A i \in Imported(p, f.job) :
      \/ In(Import(i), f.todo) \/ t # Main \/ ~Reaches(p, f.job, i)
      \/ \E m \in Node : m[1] = i /\ (In(Add(m), f.todo) \/ m \in ToSet(f.imported))

\* what the provider gave is awaited at once
ImportsTyped(p, f) ==
  f.job[2] = Semantic =>
    \A i \in Imported(p, f.job) :
      \/ In(Import(i), f.todo) \/ Awaited(f, i, PreSemantic)
      \/ Reaches(p, f.job, i) /\ ~FoundFirst(p, i) => HasType(p, i)

\* the first type awaits all imports
ImportsSettled(p, t, f) ==
  LET st == f.job[2] - 1
  IN f.job[2] \in {Semantic, Compile} /\ Refs(p, f.job) # {} =>
       \A i \in Imported(p, f.job) :
         \/ \E y \in Refs(p, f.job) : In(Resolve(y, st), f.todo)
         \/ t # Main \/ ~Reaches(p, f.job, i) \/ Settled(p, i, st) \/ Awaited(f, i, st)

\* a missing import is an error
ImportsFound(p, e, f) ==
  f.job[2] = Compile =>
    \A i \in Imported(p, f.job) : In(Import(i), f.todo) \/ f.job[1] \in e \/ Reaches(p, f.job, i)

\* so is an import that is there twice: it is found to be one before the end
Twice(o, s) == \E k, l \in 1 .. Len(s) : k < l /\ s[k] = o /\ s[l] = o

Duplicates(p, e, reg, f) ==
  f.job[2] = Compile /\ ~ImportsOnce(p, f.job[1][1]) /\ f.job[1] \notin e =>
    \E i \in Script \ p.qualified :
      \/ Twice(Import(i), f.todo)
      \/ /\ reg[i] # Null /\ In(Import(i), f.todo)
         /\ In(Add(reg[i]), f.todo) \/ reg[i] \in ToSet(f.imported)
      \/ reg[i] # Null /\ In(Add(reg[i]), f.todo) /\ reg[i] \in ToSet(f.imported)

Knows(p, md, r, e, reg, t, f) ==
  /\ Sound(p, md, f) /\ Ordered(f.todo) /\ Own(r, f) /\ Parsed(p, e, f) /\ Checked(p, r, e, f)
  /\ Typed(p, t, f) /\ ImportsAdded(p, t, f) /\ ImportsTyped(p, f) /\ ImportsSettled(p, t, f)
  /\ ImportsFound(p, e, f) /\ Duplicates(p, e, reg, f)

FramesKnow == \A t \in Thread : \A i \in 1 .. Len(stack[t]) :
                Knows(program, made, ran, errors, registered, t, stack[t][i])

---------------------------------------------------------------------------
(* What is known of the rest.                                              *)

\* a frame awaits the job on top of it
Linked ==
  \A t \in Thread : \A i \in 1 .. Len(stack[t]) - 1 :
    LET u == stack[t][i].todo IN u # <<>> /\ u[1].do = "await" /\ u[1].job = stack[t][i + 1].job

\* a frame of stack s is at the await of node m's preSemantic
AtAwait(s, m) == \E i \in 1 .. Len(s) : s[i].todo # <<>> /\ s[i].todo[1] = Await(m, PreSemantic)

\* or at that of the node the provider gave for x, or has just been
AtProvider(s, x) ==
  \E i \in 1 .. Len(s) :
    LET u == s[i].todo
    IN /\ u # <<>>
       /\ \/ u[1] = Resolved(x)
          \/ /\ Len(u) > 1 /\ u[2] = Resolved(x)
             /\ \E m \in Node : m[1] = x /\ u[1] = Await(m, PreSemantic)

\* a name is being resolved as long as the frame that asked the provider awaits the node it got
Resolving == \A x \in resolving : AtProvider(stack[Main], x)

\* what is registered is there from the start, or was provided and is awaited or has a type
Registered ==
  /\ \A x \in Script : LET m == registered[x] IN
       m # Null => /\ m[2] <= made[x]
                   /\ IF m[2] = 0 THEN program.kind[x] # "none"
                      ELSE /\ x \in program.provides
                           /\ Ran(m, PreSemantic) \/ AtAwait(stack[Main], m)
  /\ \A x \in Script : FoundFirst(program, x) => registered[x] # Null

ParentsThere ==
  \A n \in Node : parent[n] # Null =>
    KindIn(program, parent[n]) # "none" /\ Findable(program, parent[n][1])

QueueThere ==
  /\ \A k \in 1 .. Len(queue) : queue[k][2] \in {Read, Write} /\ OKJob(program, queue[k])
  /\ \A n \in Inputs(program) : In(<<n, Write>>, queue) \/ <<n, Write>> \in locked

\* a job that is claimed and has not run is inside of some thread
Busy == \A j \in locked \ ran : \E t \in Thread : \E i \in 1 .. Len(stack[t]) : stack[t][i].job = j

\* what it means that a job has run
Meant(p, r, e) ==
  \A n \in Node :
    /\ <<n, Parse>> \in r /\ n[1] \in Refused(p) => n \in e
    /\ <<n, PreSemantic>> \in r => <<n, Parse>> \in r /\ HasType(p, n[1])
    /\ <<n, Semantic>> \in r    => HasApi(p, n[1])
    /\ <<n, Compile>> \in r     => <<n, Semantic>> \in r /\ n \notin e /\ Correct(p, n[1])
    /\ <<n, Write>> \in r       => <<n, Compile>> \in r

Results == Meant(program, ran, errors)

Ended == process = "success" => queue = <<>> /\ \A t \in Thread : stack[t] = <<>>

RInv == /\ FramesKnow /\ Linked /\ Resolving /\ Registered /\ ParentsThere /\ QueueThere /\ Busy
        /\ Results /\ Ended

---------------------------------------------------------------------------
(* A compile that must not fail.                                           *)

Fair(p) == p.threads = {Main} /\ Compilable(p)

\* a job that can do what it is there for
Due(p, j) == (j[2] = PreSemantic => HasType(p, j[1][1])) /\ (j[2] = Semantic => HasApi(p, j[1][1]))

\* op o of job j can
DueOp(p, j, o) ==
  /\ o.do = "await"   => Due(p, o.job)
  /\ o.do = "lookup"  => Reaches(p, j, o.script) /\ Settled(p, o.script, o.stage)
  /\ o.do = "resolve" => \/ o.script = j[1][1]
                         \/ /\ Reaches(p, j, o.script) /\ Settled(p, o.script, o.stage)
                            /\ \A i \in Imported(p, j) : Reaches(p, j, i) => Settled(p, i, o.stage)

\* no import of an input is there twice
Distinct(p, f) ==
  KindIn(p, f.job[1]) = "compile" =>
    /\ \A i \in Script \ p.qualified :
         /\ ~Twice(Import(i), f.todo)
         /\ In(Import(i), f.todo) =>
              \A m \in Node : m[1] = i => m \notin ToSet(f.imported) /\ ~In(Add(m), f.todo)
    /\ \A m : In(Add(m), f.todo) => m \notin ToSet(f.imported)

Able(p, f) ==
  Due(p, f.job) /\ (\A a : In(a, f.todo) => DueOp(p, f.job, a)) /\ Distinct(p, f)

\* only imports have errors
ErrorsApart == \A n \in errors : KindIn(program, n) # "compile"
                                 /\ (n[1] \in Refused(program) \/ Ran(n, PreSemantic))

FInv == Fair(program) => /\ process # "failed" /\ ErrorsApart
                         /\ \A i \in 1 .. Len(stack[Main]) : Able(program, stack[Main][i])

---------------------------------------------------------------------------
(* What a script inherits.                                                 *)

\* the types of what a program says of a script
LEMMA ProgramType ==
  ASSUME NEW p \in Program, NEW s \in Script
  PROVE  /\ p.extends[s] \in Script \cup {Null} /\ Null \notin Script \cup Node
         /\ p.imports[s] \in Seq(Script) /\ p.signature[s] \in Seq(Script)
         /\ p.body[s] \in Seq(Script)
         /\ ToSet(p.imports[s]) \subseteq Script
         /\ ToSet(p.signature[s]) \subseteq Script /\ ToSet(p.body[s]) \subseteq Script
<1>1. /\ p.extends[s] \in Script \cup {Null} /\ Null \notin Script \cup Node
      /\ p.imports[s] \in Seq(Script) /\ p.signature[s] \in Seq(Script) /\ p.body[s] \in Seq(Script)
  BY ProgramAssumption
<1>2. \A u \in Seq(Script) : ToSet(u) \subseteq Script
  BY DEF ToSet
<1> QED
  BY <1>1, <1>2

\* Nothing is above a script that extends none; otherwise what it extends is, and what is
\* above that.
LEMMA AboveIs ==
  ASSUME NEW p \in Program, NEW s \in Script
  PROVE  Above(p, s) = IF p.extends[s] = Null THEN {}
                       ELSE {p.extends[s]} \cup Above(p, p.extends[s])
<1> DEFINE x == p.extends[s]
<1>1. CASE x = Null
  BY <1>1 DEF Above
<1>2. CASE x # Null
  <2> DEFINE S == {x} \cup Above(p, x)
  <2>1. x \in Script /\ x \in Above(p, s)
    BY <1>2, ProgramType, AboveExtends
  <2>2. Above(p, x) \subseteq Above(p, s)
    BY <2>1, AboveTransitive
  <2>3. S \subseteq Script
    BY <2>1 DEF Above
  <2>4. ASSUME NEW y \in S \cup {s}, p.extends[y] # Null PROVE p.extends[y] \in S
    <3>1. y \in Script /\ p.extends[y] \in Above(p, y)
      BY <2>3, <2>4, AboveExtends
    <3>2. CASE y \in Above(p, x)
      BY <2>1, <3>1, <3>2, AboveTransitive
    <3> QED
      BY <2>4, <3>1, <3>2
  <2>5. Above(p, s) \subseteq S
    <3> HIDE DEF S
    <3> QED
      BY <2>3, <2>4 DEF Above
  <2> QED
    BY <1>2, <2>1, <2>2, <2>5
<1> QED
  BY <1>1, <1>2

\* A type can be made of a script if it has no errors and one can be made of what it extends.
LEMMA HasTypeIs ==
  ASSUME NEW p \in Program, NEW s \in Script
  PROVE  HasType(p, s) <=>
           /\ s \notin Refused(p)
           /\ p.extends[s] # Null => Findable(p, p.extends[s]) /\ HasType(p, p.extends[s])
<1> DEFINE x == p.extends[s]
           Fine(y) == /\ y \notin Above(p, y) /\ y \notin Refused(p)
                      /\ p.extends[y] # Null => Findable(p, p.extends[y])
<1>1. CASE x = Null
  <2>1. Above(p, s) = {}
    BY <1>1, AboveIs
  <2> QED
    BY <1>1, <2>1 DEF HasType
<1>2. CASE x # Null
  <2>1. Above(p, s) = {x} \cup Above(p, x) /\ x \in Script
    BY <1>2, AboveIs, ProgramType
  <2>2. HasType(p, s) <=> Fine(s) /\ HasType(p, x)
    BY <2>1 DEF HasType
  <2>3. ASSUME HasType(p, x) PROVE s \notin Above(p, s)
    <3>1. s # x
      BY <1>2, <2>1, <2>3 DEF HasType
    <3>2. ASSUME s \in Above(p, x) PROVE FALSE
      <4>1. s \notin Above(p, s)
        BY <2>3, <3>2 DEF HasType
      <4>2. x \in Above(p, s)
        BY <2>1
      <4>3. s \in Above(p, s)
        BY <3>2, <4>2, AboveTransitive
      <4> QED
        BY <4>1, <4>3
    <3> QED
      BY <2>1, <3>1, <3>2
  <2> QED
    BY <1>2, <2>2, <2>3
<1> QED
  BY <1>1, <1>2

\* A script of which a type can be made is not above itself.
LEMMA NotAboveItself ==
  ASSUME NEW p, NEW s, HasType(p, s) PROVE s \notin Above(p, s) /\ s \notin Refused(p)
  BY DEF HasType

\* what is found, and has a type, of what script x itself names
OwnTypes(p, x) ==
  LET others == ToSet(p.signature[x]) \ {x}
  IN /\ \A y \in others : FindableFrom(p, x, y) /\ HasType(p, y)
     /\ \A i \in ToSet(p.imports[x]) :
          FindableFrom(p, x, i) /\ (~FoundFirst(p, i) \/ others # {}) => HasType(p, i)

\* The public types of a script are its own and those of what it extends.
LEMMA HasApiIs ==
  ASSUME NEW p \in Program, NEW s \in Script
  PROVE  HasApi(p, s) <=> /\ HasType(p, s) /\ OwnTypes(p, s)
                          /\ p.extends[s] # Null => HasApi(p, p.extends[s])
<1> DEFINE x == p.extends[s]
<1>1. \A y : HasApi(p, y) <=> HasType(p, y) /\ \A z \in Above(p, y) \cup {y} : OwnTypes(p, z)
  BY DEF HasApi, OwnTypes
<1>2. CASE x = Null
  <2>1. Above(p, s) = {}
    BY <1>2, AboveIs
  <2> QED
    BY <1>1, <1>2, <2>1
<1>3. CASE x # Null
  <2>1. Above(p, s) = {x} \cup Above(p, x) /\ x \in Script
    BY <1>3, AboveIs, ProgramType
  <2>2. HasType(p, s) => HasType(p, x)
    BY <1>3, HasTypeIs
  <2> QED
    BY <1>1, <1>3, <2>1, <2>2
<1> QED
  BY <1>2, <1>3

\* What is settled at either stage has a type.
LEMMA SettledType == ASSUME NEW p, NEW x, NEW st, Settled(p, x, st) PROVE HasType(p, x)
  BY DEF Settled, HasApi

\* The types of a script are found from it, and its parent whatever it declares itself to be.
LEMMA ReachesIs ==
  ASSUME NEW p, NEW j, NEW x
  PROVE  /\ j[2] \in {Semantic, Compile} => (Reaches(p, j, x) <=> FindableFrom(p, j[1][1], x))
         /\ Resolves(p, j) => (Reaches(p, j, x) <=> FindableFrom(p, j[1][1], x))
         /\ j[2] = PreSemantic => (Reaches(p, j, x) <=> Findable(p, x))
         /\ Reaches(p, j, x) => Findable(p, x)
  BY DEF Reaches, AsksApart, FindableFrom, Resolves, PreSemantic, Semantic, Compile

\* A provided script is one of a library compile, in which main is the only thread.
LEMMA ProvidedByMain ==
  ASSUME NEW p \in Program, NEW x, Findable(p, x), ~FoundFirst(p, x)
  PROVE  x \in p.provides /\ p.library /\ p.threads = {Main}
<1>1. p.library => p.threads = {Main}
  BY ProgramAssumption
<1>2. p.library \/ p.provides = {}
  BY ProgramAssumption
<1> QED
  BY <1>1, <1>2 DEF Findable

---------------------------------------------------------------------------
(* Ops, and sequences of them.                                             *)

\* the fields of each op
LEMMA Fields ==
  /\ \A n, st : Await(n, st).do = "await" /\ Await(n, st).job = <<n, st>>
  /\ \A x, st : /\ Resolve(x, st).do = "resolve" /\ Resolve(x, st).script = x
                /\ Resolve(x, st).stage = st
  /\ \A x, st : /\ Lookup(x, st).do = "lookup" /\ Lookup(x, st).script = x
                /\ Lookup(x, st).stage = st
  /\ \A x : Import(x).do = "import" /\ Import(x).script = x
  /\ \A n : Add(n).do = "add" /\ Add(n).node = n
  /\ \A x : Resolved(x).do = "resolved" /\ Resolved(x).script = x
  /\ \A w : Just(w).do = w
  BY DEF Await, Resolve, Lookup, Import, Add, Resolved, Just

\* an op is what its fields say
LEMMA OpIs ==
  ASSUME NEW o \in Ops
  PROVE  /\ o.do \in {"await", "resolve", "lookup", "import", "resolved", "add", "parse", "check",
                      "super", "deref"}
         /\ o.do = "await" => /\ o.job \in Job /\ o.job[1] \in Node /\ o.job[2] \in Stage
                              /\ o = Await(o.job[1], o.job[2]) /\ o.job = <<o.job[1], o.job[2]>>
         /\ o.do \in {"resolve", "lookup"} =>
              o.script \in Script /\ o.stage \in {PreSemantic, Semantic}
         /\ o.do = "resolve" => o = Resolve(o.script, o.stage)
         /\ o.do = "lookup" => o = Lookup(o.script, o.stage)
         /\ o.do \in {"import", "resolved"} => o.script \in Script
         /\ o.do = "import" => o = Import(o.script)
         /\ o.do = "resolved" => o = Resolved(o.script)
         /\ o.do = "add" => o.node \in Node \cup {Null} /\ o = Add(o.node)
         /\ o.do \in {"parse", "check", "super", "deref"} => o = Just(o.do)
<1>1. CASE o \in [do : {"await"}, job : Job]
  <2>1. o.do = "await" /\ o.job \in Job /\ o = [do |-> "await", job |-> o.job]
    BY <1>1
  <2>2. o.job[1] \in Node /\ o.job[2] \in Stage /\ o.job = <<o.job[1], o.job[2]>>
    BY <2>1 DEF Job
  <2> QED
    BY <2>1, <2>2 DEF Await
<1>2. CASE o \in [do : {"resolve", "lookup"}, script : Script, stage : {PreSemantic, Semantic}]
  BY <1>2 DEF Resolve, Lookup
<1>3. CASE o \in [do : {"import", "resolved"}, script : Script]
  BY <1>3 DEF Import, Resolved
<1>4. CASE o \in [do : {"add"}, node : Node \cup {Null}]
  BY <1>4 DEF Add
<1>5. CASE o \in [do : {"parse", "check", "super", "deref"}]
  BY <1>5 DEF Just
<1> QED
  BY <1>1, <1>2, <1>3, <1>4, <1>5 DEF Ops

\* What is in the concatenation of two sequences.
LEMMA InConcat ==
  ASSUME NEW S, NEW u \in Seq(S), NEW v \in Seq(S)
  PROVE  /\ \A o : In(o, u \o v) <=> In(o, u) \/ In(o, v)
         /\ u \o v \in Seq(S)
<1>1. /\ Len(u \o v) = Len(u) + Len(v) /\ Len(u) \in Nat /\ Len(v) \in Nat
      /\ \A k \in 1 .. Len(u) + Len(v) : (u \o v)[k] = IF k <= Len(u) THEN u[k] ELSE v[k - Len(u)]
  BY ConcatProperties
<1>2. ASSUME NEW o, In(o, u) PROVE In(o, u \o v)
  <2>1. PICK k \in 1 .. Len(u) : u[k] = o
    BY <1>2 DEF In
  <2>2. k \in 1 .. Len(u \o v) /\ (u \o v)[k] = o
    BY <1>1, <2>1
  <2> QED
    BY <2>2 DEF In
<1>3. ASSUME NEW o, In(o, v) PROVE In(o, u \o v)
  <2>1. PICK k \in 1 .. Len(v) : v[k] = o
    BY <1>3 DEF In
  <2>2. k + Len(u) \in 1 .. Len(u \o v) /\ ~(k + Len(u) <= Len(u)) /\ k + Len(u) - Len(u) = k
    BY <1>1
  <2>3. (u \o v)[k + Len(u)] = o
    BY <1>1, <2>1, <2>2
  <2> QED
    BY <2>2, <2>3 DEF In
<1>4. ASSUME NEW o, In(o, u \o v) PROVE In(o, u) \/ In(o, v)
  <2>1. PICK k \in 1 .. Len(u \o v) : (u \o v)[k] = o
    BY <1>4 DEF In
  <2>2. CASE k <= Len(u)
    BY <1>1, <2>1, <2>2 DEF In
  <2>3. CASE ~(k <= Len(u))
    <3>1. k - Len(u) \in 1 .. Len(v) /\ v[k - Len(u)] = o
      BY <1>1, <2>1, <2>3
    <3> QED
      BY <3>1 DEF In
  <2> QED
    BY <2>2, <2>3
<1> QED
  BY <1>2, <1>3, <1>4, ConcatProperties

\* A concatenation is ordered if its parts are, and all of the first may precede all of the second.
LEMMA OrderedConcat ==
  ASSUME NEW S, NEW u \in Seq(S), NEW v \in Seq(S), Ordered(u), Ordered(v),
         \A i \in 1 .. Len(u), k \in 1 .. Len(v) : MayPrecede(u[i], v[k])
  PROVE  Ordered(u \o v)
<1>1. /\ Len(u \o v) = Len(u) + Len(v) /\ Len(u) \in Nat /\ Len(v) \in Nat
      /\ \A k \in 1 .. Len(u) + Len(v) : (u \o v)[k] = IF k <= Len(u) THEN u[k] ELSE v[k - Len(u)]
  BY ConcatProperties
<1> SUFFICES ASSUME NEW i \in 1 .. Len(u \o v), NEW k \in 1 .. Len(u \o v), i < k
             PROVE  MayPrecede((u \o v)[i], (u \o v)[k])
  BY DEF Ordered
<1>2. CASE k <= Len(u)
  <2>1. i \in 1 .. Len(u) /\ k \in 1 .. Len(u) /\ (u \o v)[i] = u[i] /\ (u \o v)[k] = u[k]
    BY <1>1, <1>2
  <2> QED
    BY <2>1 DEF Ordered
<1>3. CASE ~(i <= Len(u))
  <2>1. /\ i - Len(u) \in 1 .. Len(v) /\ k - Len(u) \in 1 .. Len(v) /\ i - Len(u) < k - Len(u)
        /\ (u \o v)[i] = v[i - Len(u)] /\ (u \o v)[k] = v[k - Len(u)]
    BY <1>1, <1>3
  <2> QED
    BY <2>1 DEF Ordered
<1>4. CASE i <= Len(u) /\ ~(k <= Len(u))
  <2>1. /\ i \in 1 .. Len(u) /\ k - Len(u) \in 1 .. Len(v)
        /\ (u \o v)[i] = u[i] /\ (u \o v)[k] = v[k - Len(u)]
    BY <1>1, <1>4
  <2> QED
    BY <2>1
<1> QED
  BY <1>1, <1>2, <1>3, <1>4

\* What is in a sequence is one of its elements.
LEMMA InIndex ==
  ASSUME NEW S, NEW u \in Seq(S)
  PROVE  /\ \A k \in 1 .. Len(u) : In(u[k], u) /\ u[k] \in S
         /\ \A o : In(o, u) => o \in S
         /\ \A o : In(o, u) <=> o \in ToSet(u)
  BY DEF In, ToSet

\* short sequences
LEMMA InShort ==
  /\ \A o : ~In(o, <<>>)
  /\ \A o, a : In(o, <<a>>) <=> o = a
  /\ \A o, a, b : In(o, <<a, b>>) <=> o = a \/ o = b
  /\ Ordered(<<>>) /\ \A a : Ordered(<<a>>)
  BY DEF In, Ordered

\* What is in a concatenation twice.
LEMMA TwiceConcat ==
  ASSUME NEW S, NEW u \in Seq(S), NEW v \in Seq(S), NEW o
  PROVE  Twice(o, u \o v) <=> Twice(o, u) \/ Twice(o, v) \/ (In(o, u) /\ In(o, v))
<1>1. /\ Len(u \o v) = Len(u) + Len(v) /\ Len(u) \in Nat /\ Len(v) \in Nat
      /\ \A k \in 1 .. Len(u) + Len(v) : (u \o v)[k] = IF k <= Len(u) THEN u[k] ELSE v[k - Len(u)]
  BY ConcatProperties
<1>2. \A k \in 1 .. Len(u) : k \in 1 .. Len(u \o v) /\ (u \o v)[k] = u[k]
  BY <1>1
<1>3. \A k \in 1 .. Len(v) : k + Len(u) \in 1 .. Len(u \o v) /\ (u \o v)[k + Len(u)] = v[k]
  <2> SUFFICES ASSUME NEW k \in 1 .. Len(v)
               PROVE  k + Len(u) \in 1 .. Len(u \o v) /\ (u \o v)[k + Len(u)] = v[k]
    OBVIOUS
  <2>1. /\ k + Len(u) \in 1 .. Len(u) + Len(v) /\ ~(k + Len(u) <= Len(u))
        /\ k + Len(u) - Len(u) = k
    BY <1>1
  <2> QED
    BY <1>1, <2>1
<1>4. ASSUME Twice(o, u) PROVE Twice(o, u \o v)
  BY <1>2, <1>4 DEF Twice
<1>5. ASSUME Twice(o, v) PROVE Twice(o, u \o v)
  <2>1. PICK k \in 1 .. Len(v), l \in 1 .. Len(v) : k < l /\ v[k] = o /\ v[l] = o
    BY <1>5 DEF Twice
  <2>2. k + Len(u) < l + Len(u)
    BY <1>1, <2>1
  <2> QED
    BY <1>3, <2>1, <2>2 DEF Twice
<1>6. ASSUME In(o, u), In(o, v) PROVE Twice(o, u \o v)
  <2>1. PICK k \in 1 .. Len(u) : u[k] = o
    BY <1>6 DEF In
  <2>2. PICK l \in 1 .. Len(v) : v[l] = o
    BY <1>6 DEF In
  <2>3. k < l + Len(u)
    BY <1>1
  <2> QED
    BY <1>2, <1>3, <2>1, <2>2, <2>3 DEF Twice
<1>7. ASSUME Twice(o, u \o v) PROVE Twice(o, u) \/ Twice(o, v) \/ (In(o, u) /\ In(o, v))
  <2>1. PICK k \in 1 .. Len(u \o v), l \in 1 .. Len(u \o v) :
          k < l /\ (u \o v)[k] = o /\ (u \o v)[l] = o
    BY <1>7 DEF Twice
  <2>2. CASE l <= Len(u)
    <3>1. k \in 1 .. Len(u) /\ l \in 1 .. Len(u) /\ u[k] = o /\ u[l] = o
      BY <1>1, <2>1, <2>2
    <3> QED
      BY <2>1, <3>1 DEF Twice
  <2>3. CASE ~(k <= Len(u))
    <3>1. /\ k - Len(u) \in 1 .. Len(v) /\ l - Len(u) \in 1 .. Len(v) /\ k - Len(u) < l - Len(u)
          /\ v[k - Len(u)] = o /\ v[l - Len(u)] = o
      BY <1>1, <2>1, <2>3
    <3> QED
      BY <3>1 DEF Twice
  <2>4. CASE k <= Len(u) /\ ~(l <= Len(u))
    <3>1. k \in 1 .. Len(u) /\ u[k] = o /\ l - Len(u) \in 1 .. Len(v) /\ v[l - Len(u)] = o
      BY <1>1, <2>1, <2>4
    <3> QED
      BY <3>1 DEF In
  <2> QED
    BY <1>1, <2>2, <2>3, <2>4
<1> QED
  BY <1>4, <1>5, <1>6, <1>7

\* What is not in a sequence is not there twice, nor is anything in a short one.
LEMMA TwiceIn ==
  /\ \A o, u : Twice(o, u) => In(o, u)
  /\ \A o, a : ~Twice(o, <<a>>) /\ ~Twice(o, <<>>)
  /\ \A o, a, b : Twice(o, <<a, b>>) => a = b
  BY DEF Twice, In

---------------------------------------------------------------------------
(* What a job has to do.                                                   *)

\* its imports
LEMMA ImportsAre ==
  ASSUME program \in Program, NEW s \in Script
  PROVE  LET u == Imports(s) IN
         /\ u \in Seq(Ops) /\ Ordered(u)
         /\ \A o : In(o, u) <=> \E i \in ToSet(program.imports[s]) : o = Import(i)
         /\ \A i : Twice(Import(i), u) <=> Twice(i, program.imports[s])
<1> DEFINE u == Imports(s)
           q == program.imports[s]
<1>1. q \in Seq(Script) /\ DOMAIN q = 1 .. Len(q) /\ Len(q) \in Nat
  BY ProgramType
<1>2. \A x \in Script : Import(x) \in Ops
  BY DEF Import, Ops
<1>3. u = [k \in 1 .. Len(q) |-> Import(q[k])]
  BY <1>1 DEF Imports, Each
<1>4. u \in Seq(Ops) /\ Len(u) = Len(q) /\ \A k \in 1 .. Len(u) : u[k] = Import(q[k])
  BY <1>1, <1>2, <1>3
<1> HIDE DEF u
<1>5. Ordered(u)
  BY <1>4, Fields DEF Ordered, MayPrecede
<1>6. ASSUME NEW o PROVE In(o, u) <=> \E i \in ToSet(q) : o = Import(i)
  BY <1>1, <1>4 DEF In, ToSet
<1>7. ASSUME NEW i PROVE Twice(Import(i), u) <=> Twice(i, q)
  BY <1>1, <1>4, Fields DEF Twice
<1> QED
  BY <1>4, <1>5, <1>6, <1>7 DEF u

\* its types
LEMMA TypesAre ==
  ASSUME NEW q \in Seq(Script), NEW st \in {PreSemantic, Semantic}
  PROVE  LET u == Types(q, st) IN
         /\ u \in Seq(Ops) /\ Ordered(u)
         /\ \A o : In(o, u) <=> \E y \in ToSet(q) : o = Resolve(y, st)
<1> DEFINE u == Types(q, st)
<1>1. DOMAIN q = 1 .. Len(q) /\ Len(q) \in Nat
  OBVIOUS
<1>2. \A x \in Script : Resolve(x, st) \in Ops
  BY DEF Resolve, Ops
<1>3. u = [k \in 1 .. Len(q) |-> Resolve(q[k], st)]
  BY <1>1 DEF Types, Each
<1>4. u \in Seq(Ops) /\ Len(u) = Len(q) /\ \A k \in 1 .. Len(u) : u[k] = Resolve(q[k], st)
  BY <1>1, <1>2, <1>3
<1> HIDE DEF u
<1>5. Ordered(u)
  BY <1>4, Fields DEF Ordered, MayPrecede
<1>6. ASSUME NEW o PROVE In(o, u) <=> \E y \in ToSet(q) : o = Resolve(y, st)
  BY <1>1, <1>4 DEF In, ToSet
<1> QED
  BY <1>4, <1>5, <1>6 DEF u

\* A concatenation of parts in this order.
Apart(u, v) == \A a, b : In(a, u) /\ In(b, v) => MayPrecede(a, b)

Joined(u, v, w) ==
  /\ w \in Seq(Ops) /\ Ordered(w)
  /\ \A o : In(o, w) <=> In(o, u) \/ In(o, v)
  /\ \A o : Twice(o, w) <=> Twice(o, u) \/ Twice(o, v) \/ (In(o, u) /\ In(o, v))
  /\ u # <<>> => w # <<>> /\ w[1] = u[1]

LEMMA Parts ==
  ASSUME NEW u \in Seq(Ops), NEW v \in Seq(Ops), Ordered(u), Ordered(v), Apart(u, v),
         NEW w, w = u \o v
  PROVE  Joined(u, v, w)
<1>1. \A i \in 1 .. Len(u), k \in 1 .. Len(v) : MayPrecede(u[i], v[k])
  BY InIndex DEF Apart
<1>2. Ordered(u \o v)
  BY <1>1, OrderedConcat
<1>3. u # <<>> => u \o v # <<>> /\ (u \o v)[1] = u[1]
  OBVIOUS
<1> QED
  BY <1>2, <1>3, InConcat, TwiceConcat DEF Joined

\* the error count at the end of a stage, which nodes that are only imported do not have
Checks(n) == If(Kind(n) # "import", <<Just("check")>>)

LEMMA CheckPart ==
  ASSUME NEW n
  PROVE  /\ Checks(n) \in Seq(Ops) /\ Ordered(Checks(n))
         /\ \A o : In(o, Checks(n)) <=> Kind(n) # "import" /\ o = Just("check")
<1> DEFINE z == Checks(n)
<1>1. Just("check") \in Ops
  BY DEF Just, Ops
<1> DEFINE k == Just("check")
<1> HIDE DEF k
<1>2. <<k>> \in Seq(Ops) /\ <<>> \in Seq(Ops)
  BY <1>1, ShortSeq DEF k
<1>3. CASE Kind(n) # "import"
  <2>1. z = <<k>>
    BY <1>3 DEF k, If, Checks
  <2> HIDE DEF z
  <2>2. z \in Seq(Ops) /\ Ordered(z) /\ \A o : In(o, z) <=> o = k
    BY <1>2, <2>1, InShort
  <2> QED
    BY <1>3, <2>2 DEF k, z
<1>4. CASE Kind(n) = "import"
  <2>1. z = <<>>
    BY <1>4 DEF If, Checks
  <2> HIDE DEF z
  <2>2. z \in Seq(Ops) /\ Ordered(z) /\ \A o : ~In(o, z)
    BY <1>2, <2>1, InShort
  <2> QED
    BY <1>4, <2>2 DEF z
<1> QED
  BY <1>3, <1>4

\* The await of the stage before, and what comes with it.
Prior(j) == Await(j[1], j[2] - 1)

LEMMA FirstPart ==
  ASSUME NEW j \in Job, j[2] # Read
  PROVE  /\ Prior(j) \in Ops /\ Prior(j).do = "await" /\ Prior(j).job = <<j[1], j[2] - 1>>
         /\ \A a : a = <<Prior(j)>> =>
              /\ a \in Seq(Ops) /\ Ordered(a) /\ a # <<>> /\ a[1] = Prior(j)
              /\ \A o : In(o, a) <=> o = Prior(j)
         /\ \A w \in {"parse", "super"} : \A a : a = <<Prior(j), Just(w)>> =>
              /\ a \in Seq(Ops) /\ Ordered(a) /\ a # <<>> /\ a[1] = Prior(j)
              /\ \A o : In(o, a) <=> o = Prior(j) \/ o = Just(w)
<1> DEFINE b == Prior(j)
<1>1. b \in Ops /\ b.do = "await" /\ b.job = <<j[1], j[2] - 1>>
  <2>1. j[1] \in Node /\ j[2] - 1 \in Stage
    BY DEF Job, Stage, Read
  <2> QED
    BY <2>1 DEF Prior, Await, Ops, Job
<1> HIDE DEF b
<1>2. ASSUME NEW a, a = <<b>>
      PROVE  /\ a \in Seq(Ops) /\ Ordered(a) /\ a # <<>> /\ a[1] = b
             /\ \A o : In(o, a) <=> o = b
  BY <1>1, <1>2, ShortSeq, InShort
<1>3. ASSUME NEW w \in {"parse", "super"}, NEW a, a = <<b, Just(w)>>
      PROVE  /\ a \in Seq(Ops) /\ Ordered(a) /\ a # <<>> /\ a[1] = b
             /\ \A o : In(o, a) <=> o = b \/ o = Just(w)
  <2> DEFINE d == Just(w)
  <2>1. d \in Ops /\ d.do = w
    BY DEF Just, Ops
  <2> HIDE DEF d
  <2>2. a = <<b, d>>
    BY <1>3 DEF d
  <2>3. a \in Seq(Ops) /\ a # <<>> /\ a[1] = b
    BY <1>1, <2>1, <2>2
  <2>4. Ordered(a)
    BY <1>1, <2>1, <2>2 DEF Ordered, MayPrecede
  <2> QED
    BY <2>2, <2>3, <2>4, InShort DEF d
<1> QED
  BY <1>1, <1>2, <1>3 DEF b
\* The parts of semantic and compile that the script says.
OnlyChecks(z) == z \in Seq(Ops) /\ Ordered(z) /\ \A o : In(o, z) => o.do = "check"

Said(p, s, q, st, z, w) ==
  /\ w \in Seq(Ops) /\ Ordered(w)
  /\ \A o : In(o, w) <=> \/ \E i \in ToSet(p.imports[s]) : o = Import(i)
                         \/ \E y \in ToSet(q) : o = Resolve(y, st)
                         \/ In(o, z)
  /\ \A i : Twice(Import(i), w) <=> Twice(i, p.imports[s])

LEMMA Middle ==
  ASSUME program \in Program, NEW s \in Script, NEW q \in Seq(Script),
         NEW st \in {PreSemantic, Semantic}, NEW z, OnlyChecks(z),
         NEW w, w = Imports(s) \o Types(q, st) \o z
  PROVE  Said(program, s, q, st, z, w)
<1>0. z \in Seq(Ops) /\ Ordered(z) /\ \A o : In(o, z) => o.do = "check"
  BY DEF OnlyChecks
<1> DEFINE x == Imports(s)
           y == Types(q, st)
           xy == x \o y
<1>1. /\ x \in Seq(Ops) /\ Ordered(x)
      /\ \A o : In(o, x) <=> \E i \in ToSet(program.imports[s]) : o = Import(i)
      /\ \A i : Twice(Import(i), x) <=> Twice(i, program.imports[s])
  BY ImportsAre
<1>2. /\ y \in Seq(Ops) /\ Ordered(y)
      /\ \A o : In(o, y) <=> \E v \in ToSet(q) : o = Resolve(v, st)
  BY TypesAre
<1>3. w = xy \o z
  OBVIOUS
<1> HIDE DEF x, y
<1>4. Apart(x, y)
  BY <1>1, <1>2, Fields DEF Apart, MayPrecede
<1> HIDE DEF xy
<1>5. Joined(x, y, xy)
  BY <1>1, <1>2, <1>4, Parts DEF xy
<1>6. Apart(xy, z)
  <2>1. \A a : In(a, xy) => a.do # "check"
    <3>1. \A a : In(a, x) => a.do # "check"
      BY <1>1, Fields
    <3>2. \A a : In(a, y) => a.do # "check"
      BY <1>2, Fields
    <3> QED
      BY <1>5, <3>1, <3>2 DEF Joined
  <2> QED
    BY <1>0, <2>1 DEF Apart, MayPrecede
<1>7. Joined(xy, z, w)
  <2>1. xy \in Seq(Ops) /\ Ordered(xy)
    BY <1>5 DEF Joined
  <2> QED
    BY <1>0, <1>3, <1>6, <2>1, Parts
<1>8. ASSUME NEW i PROVE ~In(Import(i), y) /\ ~In(Import(i), z)
  <2>1. Import(i).do = "import" /\ \A v : Resolve(v, st).do = "resolve"
    BY Fields
  <2> QED
    BY <1>0, <1>2, <2>1
<1>9. \A i : Twice(Import(i), w) <=> Twice(i, program.imports[s])
  BY <1>1, <1>5, <1>7, <1>8, TwiceIn DEF Joined
<1>10. \A o : In(o, w) <=> \/ \E i \in ToSet(program.imports[s]) : o = Import(i)
                           \/ \E v \in ToSet(q) : o = Resolve(v, st)
                           \/ In(o, z)
  BY <1>1, <1>2, <1>5, <1>7, Zenon DEF Joined
<1> QED
  BY <1>7, <1>9, <1>10 DEF Joined, Said

\* What job j of program p has to do.
Given(p, j, o) ==
  LET s == j[1][1]
  IN \/ o = Prior(j) /\ j[2] # Read
     \/ o = Just("parse") /\ j[2] = Parse
     \/ /\ o = Just("check")
        /\ \/ j[2] = PreSemantic
           \/ j[2] \in {Parse, Semantic} /\ KindIn(p, j[1]) # "import"
           \/ j[2] = Compile /\ KindIn(p, j[1]) = "compile"
     \/ o = Just("super") /\ j[2] = Semantic
     \/ o = Lookup(p.extends[s], PreSemantic) /\ j[2] = PreSemantic /\ p.extends[s] # Null
     \/ Resolves(p, j) /\ \E i \in Imported(p, j) : o = Import(i)
     \/ Resolves(p, j) /\ \E y \in Named(p, j) : o = Resolve(y, j[2] - 1)

Planned(p, j, u) ==
  /\ u \in Seq(Ops) /\ Ordered(u)
  /\ j[2] >= PreSemantic => u # <<>> /\ u[1] = Prior(j)
  /\ \A o : In(o, u) <=> Given(p, j, o)
  /\ \A i : Twice(Import(i), u) <=> Resolves(p, j) /\ Twice(i, p.imports[j[1][1]])

\* The jobs that only await, and those that parse.
LEMMA PlainSteps ==
  ASSUME program \in Program, NEW j \in Job, j[2] \in {Read, PreParse, Parse, Write}
  PROVE  Planned(program, j, Steps(j))
<1> DEFINE u == Steps(j)
           n == j[1]
<1> USE DEF Read, PreParse, Parse, PreSemantic, Semantic, Compile, Write
<1>1. ~Resolves(program, j)
  BY DEF Resolves
<1>2. CASE j[2] = Read
  <2>1. u = <<>>
    BY <1>2 DEF Steps
  <2>2. \A o : ~Given(program, j, o)
    BY <1>1, <1>2 DEF Given
  <2> HIDE DEF u
  <2>3. u \in Seq(Ops) /\ \A o : ~In(o, u) /\ ~Twice(o, u)
    BY <2>1, InShort, TwiceIn
  <2> QED
    BY <1>1, <1>2, <2>1, <2>2, <2>3, InShort DEF Planned, u
<1>3. CASE j[2] \in {PreParse, Write}
  <2>1. u = <<Prior(j)>>
    BY <1>3 DEF Steps, Prior
  <2>2. \A o : Given(program, j, o) <=> o = Prior(j)
    BY <1>1, <1>3 DEF Given
  <2> HIDE DEF u
  <2>3. /\ u \in Seq(Ops) /\ Ordered(u) /\ u # <<>> /\ u[1] = Prior(j)
        /\ \A o : In(o, u) <=> o = Prior(j)
    BY <1>3, <2>1, FirstPart
  <2>4. \A o : ~Twice(o, u)
    BY <2>1, TwiceIn
  <2> QED
    BY <1>1, <2>2, <2>3, <2>4 DEF Planned, u
<1>4. CASE j[2] = Parse
  <2> DEFINE a == <<Prior(j), Just("parse")>>
             z == Checks(n)
  <2>1. u = a \o z
    BY <1>4 DEF Steps, ParseSteps, Prior, Checks
  <2>2. /\ a \in Seq(Ops) /\ Ordered(a) /\ a # <<>> /\ a[1] = Prior(j)
        /\ \A o : In(o, a) <=> o = Prior(j) \/ o = Just("parse")
    BY <1>4, FirstPart
  <2>3. z \in Seq(Ops) /\ Ordered(z) /\ \A o : In(o, z) <=> Kind(n) # "import" /\ o = Just("check")
    BY CheckPart
  <2> HIDE DEF a, u, z
  <2>4. \A o : Given(program, j, o) <=> In(o, a) \/ In(o, z)
    BY <1>1, <1>4, <2>2, <2>3 DEF Given, Kind, KindIn
  <2>5. Apart(a, z)
    BY <2>3, Fields DEF Apart, MayPrecede
  <2>6. Joined(a, z, u)
    BY <2>1, <2>2, <2>3, <2>5, Parts
  <2>7. \A i : ~Twice(Import(i), u)
    BY <2>2, <2>3, <2>6, TwiceIn, Fields DEF Prior, Joined
  <2> QED
    BY <1>1, <2>2, <2>4, <2>6, <2>7 DEF Planned, Joined, u
<1> QED
  BY <1>2, <1>3, <1>4

\* PreSemantic looks its parent up.
LEMMA PreSemanticPlanned ==
  ASSUME program \in Program, NEW j \in Job, j[2] = PreSemantic
  PROVE  Planned(program, j, Steps(j))
<1> DEFINE u == Steps(j)
           n == j[1]
           s == n[1]
           e == program.extends[s]
           a == <<Prior(j)>>
           x == If(e # Null, <<Lookup(e, PreSemantic)>>)
           z == <<Just("check")>>
           ax == a \o x
<1>1. n \in Node /\ s \in Script
  BY DEF Job, Node
<1>2. e \in Script \cup {Null}
  BY <1>1, ProgramType
<1>3. u = ax \o z
  <2>1. Prior(j) = Await(n, Parse)
    BY DEF PreSemantic, Parse, Prior
  <2>2. Steps(j) = PreSemanticSteps(n)
    <3> HIDE DEF a, x, z, ax, u, e, s
    <3> QED
      BY DEF Steps, Read, PreParse, Parse, PreSemantic, Semantic, Compile, Write
  <2> QED
    BY <2>1, <2>2 DEF PreSemanticSteps
<1>4. /\ a \in Seq(Ops) /\ Ordered(a) /\ a # <<>> /\ a[1] = Prior(j) /\ Prior(j).do = "await"
      /\ \A o : In(o, a) <=> o = Prior(j)
  <2>1. a = <<Prior(j)>> /\ j[2] # Read
    BY DEF PreSemantic, Read
  <2> HIDE DEF a
  <2> QED
    BY <2>1, FirstPart
<1>5. /\ x \in Seq(Ops) /\ Ordered(x)
      /\ \A o : In(o, x) <=> e # Null /\ o = Lookup(e, PreSemantic)
  <2>1. CASE e # Null
    <3> DEFINE l == Lookup(e, PreSemantic)
    <3>1. l \in Ops /\ x = <<l>>
      BY <1>2, <2>1 DEF Lookup, Ops, If
    <3> HIDE DEF l, x
    <3>2. x \in Seq(Ops) /\ Ordered(x) /\ \A o : In(o, x) <=> o = l
      BY <3>1, ShortSeq, InShort
    <3> QED
      BY <2>1, <3>2 DEF l
  <2>2. CASE e = Null
    <3>1. x = <<>>
      BY <2>2 DEF If
    <3> HIDE DEF x
    <3> QED
      BY <2>2, <3>1, InShort
  <2> QED
    BY <2>1, <2>2
<1>6. /\ z \in Seq(Ops) /\ Ordered(z) /\ \A o : In(o, z) <=> o = Just("check")
  <2> DEFINE k == Just("check")
  <2>1. k \in Ops /\ z = <<k>>
    BY DEF Just, Ops
  <2> HIDE DEF k, z
  <2>2. z \in Seq(Ops) /\ Ordered(z) /\ \A o : In(o, z) <=> o = k
    BY <2>1, ShortSeq, InShort
  <2> QED
    BY <2>2 DEF k
<1> HIDE DEF a, x, z, u, n, s, e
<1>7. Apart(a, x)
  BY <1>5, Fields DEF Apart, MayPrecede
<1> HIDE DEF ax
<1>8. Joined(a, x, ax)
  BY <1>4, <1>5, <1>7, Parts DEF ax
<1>9. Apart(ax, z)
  BY <1>6, Fields DEF Apart, MayPrecede
<1>10. Joined(ax, z, u)
  <2>1. ax \in Seq(Ops) /\ Ordered(ax)
    BY <1>8 DEF Joined
  <2> QED
    BY <1>3, <1>6, <1>9, <2>1, Parts
<1>11. ~Resolves(program, j) /\ j[2] \notin {Read, Parse, Semantic, Compile}
  BY DEF Resolves, Read, Parse, PreSemantic, Semantic, Compile
<1>12. \A o : In(o, u) <=> \/ o = Prior(j) \/ (e # Null /\ o = Lookup(e, PreSemantic))
                           \/ o = Just("check")
  BY <1>4, <1>5, <1>6, <1>8, <1>10 DEF Joined
<1>13. \A o : In(o, u) <=> Given(program, j, o)
  BY <1>11, <1>12, Zenon DEF Given, e, s, n
<1>14. \A i : ~Twice(Import(i), u)
  BY <1>4, <1>12, TwiceIn, Fields
<1> QED
  BY <1>4, <1>8, <1>10, <1>11, <1>13, <1>14 DEF Planned, Joined, u

\* Semantic has its parent awaited, and resolves the types of signatures.
LEMMA SemanticPlanned ==
  ASSUME program \in Program, NEW j \in Job, j[2] = Semantic
  PROVE  Planned(program, j, Steps(j))
<1> DEFINE u == Steps(j)
           n == j[1]
           s == n[1]
           a == <<Prior(j), Just("super")>>
           x == Imports(s)
           y == Types(program.signature[s], PreSemantic)
           z == Checks(n)
           w == x \o y \o z
<1>1. n \in Node /\ s \in Script
  BY DEF Job, Node
<1>2. program.signature[s] \in Seq(Script)
  BY <1>1, ProgramType
<1>3. /\ a \in Seq(Ops) /\ Ordered(a) /\ a # <<>> /\ a[1] = Prior(j) /\ Prior(j).do = "await"
      /\ \A o : In(o, a) <=> o = Prior(j) \/ o = Just("super")
  <2>1. a = <<Prior(j), Just("super")>> /\ j[2] # Read
    BY DEF Semantic, Read
  <2> HIDE DEF a
  <2> QED
    BY <2>1, FirstPart
<1>4. z \in Seq(Ops) /\ Ordered(z) /\ \A o : In(o, z) <=> Kind(n) # "import" /\ o = Just("check")
  BY CheckPart
<1>5. x \in Seq(Ops) /\ y \in Seq(Ops)
  BY <1>1, <1>2, ImportsAre, TypesAre
<1>6. u = ((a \o x) \o y) \o z
  <2>1. Prior(j) = Await(n, PreSemantic)
    BY DEF Semantic, PreSemantic, Prior
  <2>2. Steps(j) = SemanticSteps(n)
    <3> HIDE DEF a, x, y, z, w, u, s
    <3> QED
      BY DEF Steps, Read, PreParse, Parse, PreSemantic, Semantic, Compile, Write
  <2> QED
    BY <2>1, <2>2 DEF SemanticSteps, Checks
<1>7. w = (x \o y) \o z
  OBVIOUS
<1> HIDE DEF a, x, y, z, w, u, n, s
<1>8. u = a \o w
  <2>1. (a \o x) \o y = a \o (x \o y) /\ x \o y \in Seq(Ops)
    BY <1>3, <1>5, ConcatAssociative, ConcatProperties
  <2> DEFINE xy == x \o y
  <2> HIDE DEF xy
  <2>2. (a \o xy) \o z = a \o (xy \o z)
    BY <1>3, <1>4, <2>1, ConcatAssociative DEF xy
  <2> QED
    BY <1>6, <1>7, <2>1, <2>2 DEF xy
<1>9. /\ w \in Seq(Ops) /\ Ordered(w)
      /\ \A o : In(o, w) <=> \/ \E i \in ToSet(program.imports[s]) : o = Import(i)
                             \/ \E v \in ToSet(program.signature[s]) : o = Resolve(v, PreSemantic)
                             \/ In(o, z)
      /\ \A i : Twice(Import(i), w) <=> Twice(i, program.imports[s])
  <2>1. OnlyChecks(z)
    BY <1>4, Fields DEF OnlyChecks
  <2>2. w = Imports(s) \o Types(program.signature[s], PreSemantic) \o z
    BY DEF w, x, y
  <2>3. PreSemantic \in {PreSemantic, Semantic}
    OBVIOUS
  <2>4. Said(program, s, program.signature[s], PreSemantic, z, w)
    BY <1>1, <1>2, <2>1, <2>2, <2>3, Middle
  <2> QED
    BY <2>4 DEF Said
<1>10. Apart(a, w)
  <2>1. \A o : In(o, a) => o.do \in {"await", "super"}
    BY <1>3, Fields
  <2> QED
    BY <2>1 DEF Apart, MayPrecede
<1>11. Joined(a, w, u)
  <2>1. w \in Seq(Ops) /\ Ordered(w)
    BY <1>9
  <2> QED
    BY <1>3, <1>8, <1>10, <2>1, Parts
<1>12. /\ Resolves(program, j) /\ j[2] \notin {Read, Parse, PreSemantic, Compile}
       /\ j[2] - 1 = PreSemantic /\ j[2] >= PreSemantic
       /\ Imported(program, j) = ToSet(program.imports[s])
       /\ Named(program, j) = ToSet(program.signature[s])
  BY DEF Resolves, Imported, Named, Read, Parse, PreSemantic, Semantic, Compile, s, n
<1>13. \A o : In(o, u) <=> \/ o = Prior(j) \/ o = Just("super")
                           \/ \E i \in Imported(program, j) : o = Import(i)
                           \/ \E v \in Named(program, j) : o = Resolve(v, j[2] - 1)
                           \/ (Kind(n) # "import" /\ o = Just("check"))
  BY <1>3, <1>4, <1>9, <1>11, <1>12, Zenon DEF Joined
<1>14. \A o : In(o, u) <=> Given(program, j, o)
  <2>1. Kind(n) = KindIn(program, j[1]) /\ j[2] # Read /\ j[2] \in {Parse, Semantic}
    BY DEF Kind, KindIn, n, Semantic, Read
  <2> QED
    BY <1>12, <1>13, <2>1, Zenon DEF Given
<1>15. \A i : Twice(Import(i), u) <=> Twice(i, program.imports[s])
  <2>1. \A i : ~In(Import(i), a)
    BY <1>3, Fields
  <2> QED
    BY <1>9, <1>11, <2>1, TwiceIn DEF Joined
<1> QED
  BY <1>3, <1>11, <1>12, <1>14, <1>15 DEF Planned, Joined, u, s, n

\* Compile resolves the types of bodies, of an input.
LEMMA CompilePlanned ==
  ASSUME program \in Program, NEW j \in Job, j[2] = Compile
  PROVE  Planned(program, j, Steps(j))
<1> DEFINE u == Steps(j)
           n == j[1]
           s == n[1]
           a == <<Prior(j)>>
           z == <<Just("check")>>
           w == Imports(s) \o Types(program.body[s], Semantic) \o z
<1>1. n \in Node /\ s \in Script
  BY DEF Job, Node
<1>2. program.body[s] \in Seq(Script)
  BY <1>1, ProgramType
<1>3. /\ a \in Seq(Ops) /\ Ordered(a) /\ a # <<>> /\ a[1] = Prior(j) /\ Prior(j).do = "await"
      /\ \A o : In(o, a) <=> o = Prior(j)
  <2>1. a = <<Prior(j)>> /\ j[2] # Read
    BY DEF Compile, Read
  <2> HIDE DEF a
  <2> QED
    BY <2>1, FirstPart
<1>4. z \in Seq(Ops) /\ Ordered(z) /\ \A o : In(o, z) <=> o = Just("check")
  <2> DEFINE k == Just("check")
  <2>1. k \in Ops /\ z = <<k>>
    BY DEF Just, Ops
  <2> HIDE DEF k, z
  <2>2. z \in Seq(Ops) /\ Ordered(z) /\ \A o : In(o, z) <=> o = k
    BY <2>1, ShortSeq, InShort
  <2> QED
    BY <2>2 DEF k
<1>5. u = a \o (IF Kind(n) = "compile" THEN w ELSE <<>>)
  <2>1. Prior(j) = Await(n, Semantic)
    BY DEF Semantic, Compile, Prior
  <2>2. Steps(j) = CompileSteps(n)
    <3> HIDE DEF a, z, w, u, s
    <3> QED
      BY DEF Steps, Read, PreParse, Parse, PreSemantic, Semantic, Compile, Write
  <2> QED
    BY <2>1, <2>2 DEF CompileSteps, If
<1> HIDE DEF z
<1>6. /\ w \in Seq(Ops) /\ Ordered(w)
      /\ \A o : In(o, w) <=> \/ \E i \in ToSet(program.imports[s]) : o = Import(i)
                             \/ \E v \in ToSet(program.body[s]) : o = Resolve(v, Semantic)
                             \/ In(o, z)
      /\ \A i : Twice(Import(i), w) <=> Twice(i, program.imports[s])
  <2>1. OnlyChecks(z)
    BY <1>4, Fields DEF OnlyChecks
  <2>2. w = Imports(s) \o Types(program.body[s], Semantic) \o z
    OBVIOUS
  <2> HIDE DEF w, n, s
  <2>3. Semantic \in {PreSemantic, Semantic}
    OBVIOUS
  <2>4. Said(program, s, program.body[s], Semantic, z, w)
    BY <1>1, <1>2, <2>1, <2>2, <2>3, Middle
  <2> QED
    BY <2>4 DEF Said
<1> HIDE DEF a, w, u, n, s
<1>7. /\ j[2] \notin {Read, Parse, PreSemantic, Semantic}
      /\ j[2] - 1 = Semantic /\ j[2] >= PreSemantic
      /\ Imported(program, j) = ToSet(program.imports[s])
      /\ Named(program, j) = ToSet(program.body[s])
      /\ Kind(n) = KindIn(program, j[1])
      /\ Resolves(program, j) <=> Kind(n) = "compile"
  BY DEF Resolves, Imported, Named, Read, Parse, PreSemantic, Semantic, Compile, s, n, Kind, KindIn
<1>8. CASE Kind(n) = "compile"
  <2>1. Apart(a, w)
    <3>1. \A o : In(o, a) => o.do = "await"
      BY <1>3
    <3> QED
      BY <3>1 DEF Apart, MayPrecede
  <2>2. Joined(a, w, u)
    <3>1. w \in Seq(Ops) /\ Ordered(w) /\ u = a \o w
      BY <1>5, <1>6, <1>8
    <3> QED
      BY <1>3, <2>1, <3>1, Parts
  <2>3. \A o : In(o, u) <=> \/ o = Prior(j)
                            \/ \E i \in Imported(program, j) : o = Import(i)
                            \/ \E v \in Named(program, j) : o = Resolve(v, j[2] - 1)
                            \/ o = Just("check")
    BY <1>3, <1>4, <1>6, <1>7, <2>2, Zenon DEF Joined
  <2>4. \A o : In(o, u) <=> Given(program, j, o)
    <3>1. KindIn(program, j[1]) = "compile" /\ j[2] # Read /\ Resolves(program, j)
      BY <1>7, <1>8 DEF Compile, Read
    <3>2. j[2] \notin {Parse, Semantic} /\ j[2] # Parse /\ j[2] # Semantic /\ j[2] # PreSemantic
      BY <1>7
    <3> QED
      BY <2>3, <3>1, <3>2, Zenon DEF Given
  <2>5. \A i : Twice(Import(i), u) <=> Twice(i, program.imports[s])
    <3>1. \A i : ~In(Import(i), a)
      BY <1>3, Fields
    <3> QED
      BY <1>6, <2>2, <3>1, TwiceIn DEF Joined
  <2> QED
    BY <1>3, <1>7, <1>8, <2>2, <2>4, <2>5 DEF Planned, Joined, u, s, n
<1>9. CASE Kind(n) # "compile"
  <2>1. u = a
    BY <1>3, <1>5, <1>9
  <2>2. \A o : In(o, u) <=> Given(program, j, o)
    <3>1. KindIn(program, j[1]) # "compile" /\ j[2] # Read /\ ~Resolves(program, j)
      BY <1>7, <1>9 DEF Compile, Read
    <3>2. j[2] \notin {Parse, Semantic} /\ j[2] # Parse /\ j[2] # Semantic /\ j[2] # PreSemantic
      BY <1>7
    <3>3. \A o : In(o, u) <=> o = Prior(j)
      BY <1>3, <2>1
    <3> QED
      BY <3>1, <3>2, <3>3, Zenon DEF Given
  <2>3. \A i : ~Twice(Import(i), u)
    BY <1>3, <2>1, TwiceIn, Fields
  <2> QED
    BY <1>3, <1>7, <1>9, <2>1, <2>2, <2>3 DEF Planned, u
<1> QED
  BY <1>8, <1>9

\* What a job begins with.
LEMMA StepsPlanned ==
  ASSUME program \in Program, NEW j \in Job
  PROVE  Planned(program, j, Steps(j))
<1>1. \/ j[2] \in {Read, PreParse, Parse, Write}
      \/ j[2] = PreSemantic \/ j[2] = Semantic \/ j[2] = Compile
  BY DEF Job, Stage, Read, PreParse, Parse, PreSemantic, Semantic, Compile, Write
<1> QED
  BY <1>1, PlainSteps, PreSemanticPlanned, SemanticPlanned, CompilePlanned

---------------------------------------------------------------------------
(* A job that goes on.                                                     *)

\* What is left to do after the first op.
LEMMA TailIs ==
  ASSUME NEW u \in Seq(Ops), u # <<>>
  PROVE  /\ Tail(u) \in Seq(Ops) /\ u[1] \in Ops
         /\ \A a : In(a, u) <=> a = u[1] \/ In(a, Tail(u))
         /\ \A a : Twice(a, u) <=> Twice(a, Tail(u)) \/ (a = u[1] /\ In(a, Tail(u)))
         /\ Ordered(u) => Ordered(Tail(u)) /\ \A a : In(a, Tail(u)) => MayPrecede(u[1], a)
<1> DEFINE v == Tail(u)
           b == <<u[1]>>
<1>1. v \in Seq(Ops) /\ u[1] \in Ops /\ u = b \o v /\ b \in Seq(Ops)
  <2>1. v \in Seq(Ops) /\ u[1] \in Ops /\ Len(u) \in Nat /\ Len(u) >= 1 /\ Len(v) = Len(u) - 1
        /\ \A k \in 1 .. Len(v) : v[k] = u[k + 1]
    OBVIOUS
  <2>2. b \in Seq(Ops) /\ Len(b) = 1 /\ b[1] = u[1]
    BY <2>1
  <2> HIDE DEF v, b
  <2>3. b \o v \in Seq(Ops) /\ Len(b \o v) = Len(u)
        /\ \A k \in 1 .. Len(u) : (b \o v)[k] = IF k <= 1 THEN b[k] ELSE v[k - 1]
    <3>0. b \in Seq(Ops) /\ v \in Seq(Ops)
      BY <2>1, <2>2
    <3>1. b \o v \in Seq(Ops) /\ Len(b \o v) = Len(b) + Len(v)
          /\ \A k \in 1 .. Len(b) + Len(v) :
               (b \o v)[k] = IF k <= Len(b) THEN b[k] ELSE v[k - Len(b)]
      BY <3>0, ConcatProperties
    <3>2. Len(b) + Len(v) = Len(u)
      BY <2>1, <2>2
    <3> QED
      BY <2>2, <3>1, <3>2
  <2>4. \A k \in 1 .. Len(u) : (b \o v)[k] = u[k]
    <3> SUFFICES ASSUME NEW k \in 1 .. Len(u) PROVE (b \o v)[k] = u[k]
      OBVIOUS
    <3>1. CASE k = 1
      BY <2>2, <2>3, <3>1
    <3>2. CASE k # 1
      <4>1. k - 1 \in 1 .. Len(v) /\ ~(k <= 1) /\ k - 1 + 1 = k
        BY <2>1, <3>2
      <4> QED
        BY <2>1, <2>3, <4>1
    <3> QED
      BY <3>1, <3>2
  <2> QED
    BY <2>1, <2>2, <2>3, <2>4, SeqEqual
<1> HIDE DEF v
<1>2. /\ \A a : In(a, u) <=> In(a, b) \/ In(a, v)
      /\ \A a : Twice(a, u) <=> Twice(a, b) \/ Twice(a, v) \/ (In(a, b) /\ In(a, v))
  <2> HIDE DEF b
  <2> QED
    <3>1. \A a : In(a, b \o v) <=> In(a, b) \/ In(a, v)
      BY <1>1, InConcat
    <3>2. \A a : Twice(a, b \o v) <=> Twice(a, b) \/ Twice(a, v) \/ (In(a, b) /\ In(a, v))
      BY <1>1, TwiceConcat
    <3> QED
      BY <1>1, <3>1, <3>2
<1>3. \A a : (In(a, b) <=> a = u[1]) /\ ~Twice(a, b)
  BY InShort, TwiceIn
<1>4. ASSUME Ordered(u) PROVE Ordered(v) /\ \A a : In(a, v) => MayPrecede(u[1], a)
  <2>1. Len(u) \in Nat /\ Len(u) >= 1 /\ Len(v) = Len(u) - 1
        /\ \A k \in 1 .. Len(v) : v[k] = u[k + 1]
    BY DEF v
  <2>2. \A k \in 1 .. Len(v) : 1 \in 1 .. Len(u) /\ k + 1 \in 1 .. Len(u) /\ 1 < k + 1
    BY <2>1
  <2>3. \A k, l \in 1 .. Len(v) : k < l => k + 1 < l + 1
    BY <2>1
  <2>4. Ordered(v)
    BY <1>4, <2>1, <2>2, <2>3 DEF Ordered
  <2>5. ASSUME NEW a, In(a, v) PROVE MayPrecede(u[1], a)
    <3>1. PICK k \in 1 .. Len(v) : v[k] = a
      BY <2>5 DEF In
    <3> QED
      BY <1>4, <2>1, <2>2, <3>1 DEF Ordered
  <2> QED
    BY <2>4, <2>5
<1> HIDE DEF b
<1> QED
  BY <1>1, <1>2, <1>3, <1>4 DEF v

\* Frame f becomes g: ops come in place of its first op, after which it has another import
\* if that op was the push_back of one.
Goes(f, g, ops) ==
  /\ f.job \in Job /\ f.todo \in Seq(Ops) /\ f.todo # <<>> /\ ops \in Seq(Ops)
  /\ f.imported \in Seq(Node \cup {Null})
  /\ g.job = f.job /\ g.todo = ops \o Tail(f.todo)
  /\ g.imported = IF f.todo[1].do = "add" THEN Append(f.imported, f.todo[1].node) ELSE f.imported

\* the errors then are e2, and were e
Blames(f, e, e2) ==
  /\ e \subseteq e2 /\ e2 \subseteq e \cup {f.job[1]}
  /\ e2 # e => f.todo[1].do \in {"parse", "import", "add"}

\* what it may come to do
NewOps(p, md2, f, ops) ==
  /\ Ordered(ops)
  /\ \A a : In(a, ops) =>
       /\ a.do \in {"await", "lookup", "deref", "resolved", "add"} /\ OKOp(p, md2, f.job, a)
       /\ a.do = "add" => f.todo[1].do = "import"
       /\ a.do = "lookup" => /\ f.todo[1].do = "resolve" /\ a.script = f.todo[1].script
                             /\ a.stage = f.todo[1].stage

\* a node with the name is found or made: where, and what is known of it
Gets(p, t, j, x, m) == m \in Node /\ m[1] = x /\ t = Main /\ Reaches(p, j, x)

\* what the first op does, at most
OpDone(p, t, r, e, e2, reg2, f, ops) ==
  LET n == f.job[1]
      o == f.todo[1]
  IN /\ o.do = "await"  => o.job \in r
     /\ o.do = "parse"  => (n[1] \in Refused(p) => n \in e2)
     /\ o.do = "check"  => n \notin e
     /\ o.do = "resolve" =>
          \/ o.script = n[1]
          \/ /\ In(Lookup(o.script, o.stage), ops)
             /\ \A m \in ToSet(f.imported) : m # Null => In(Await(m, o.stage), ops)
     /\ o.do = "lookup" => \E m : Gets(p, t, f.job, o.script, m) /\ In(Await(m, o.stage), ops)
     /\ o.do = "import" =>
          \/ /\ n \in e2
             /\ t # Main \/ ~Reaches(p, f.job, o.script)
          \/ \E m : /\ Gets(p, t, f.job, o.script, m) /\ In(Add(m), ops)
                    /\ o.script \notin p.qualified => reg2[o.script] = m
                    /\ \/ In(Await(m, PreSemantic), ops)
                       \/ FoundFirst(p, o.script) \/ HasType(p, o.script)
     /\ o.do = "add" => (o.node \in ToSet(f.imported) => n \in e2)

\* where new ops and errors stem from; par are the parents that have been found
Stems(p, t, par, e, e2, f, ops) ==
  LET n == f.job[1]
      o == f.todo[1]
  IN /\ \A a : In(a, ops) /\ a.do = "await" =>
          \/ o.do = "super" /\ par[n] # Null /\ a = Await(par[n], Semantic)
          \/ /\ o.do = "resolve" /\ o.script # n[1]
             /\ \E m \in ToSet(f.imported) : m # Null /\ a = Await(m, o.stage)
          \/ /\ o.do = "lookup"
             /\ \E m : m[1] = o.script /\ (a = Await(m, o.stage) \/ a = Await(m, PreSemantic))
          \/ /\ o.do = "import" /\ ~FoundFirst(p, o.script) /\ Reaches(p, f.job, o.script)
             /\ \E m : m[1] = o.script /\ a = Await(m, PreSemantic)
     /\ \A a : In(a, ops) /\ a.do = "lookup" => o.script # n[1]
     /\ \A a : In(a, ops) /\ a.do = "add" =>
          \/ t # Main \/ ~Reaches(p, f.job, o.script)
          \/ /\ a.node # Null /\ a.node[1] = o.script
             /\ o.script \in p.qualified => a.node \notin ToSet(f.imported)
     /\ e2 # e => \/ o.do = "parse" /\ n[1] \in Refused(p)
                  \/ o.do = "import" /\ (t # Main \/ ~Reaches(p, f.job, o.script))
                  \/ o.do = "add" /\ o.node \in ToSet(f.imported)

\* No more is registered in place of what was, and no fewer nodes are made.
Later(md, md2, reg, reg2) ==
  /\ \A x \in Script : md[x] \in Nat /\ md2[x] \in Nat /\ md[x] <= md2[x]
  /\ \A x \in Script : reg[x] # Null => reg2[x] = reg[x]

\* Where the ops of g come from and where those of f go.
LEMMA Moves ==
  ASSUME NEW f, NEW g, NEW ops, Goes(f, g, ops)
  PROVE  /\ f.todo[1] \in Ops /\ In(f.todo[1], f.todo) /\ g.todo \in Seq(Ops)
         /\ \A a : In(a, f.todo) => a = f.todo[1] \/ In(a, g.todo)
         /\ \A a : In(a, ops) => In(a, g.todo)
         /\ \A a : In(a, g.todo) => In(a, ops) \/ In(a, Tail(f.todo))
         /\ \A a : In(a, Tail(f.todo)) => In(a, f.todo) /\ In(a, g.todo)
         /\ \A a : Twice(a, f.todo) =>
              IF a = f.todo[1] THEN In(a, Tail(f.todo)) ELSE Twice(a, g.todo)
         /\ \A a : Twice(a, g.todo) =>
              Twice(a, ops) \/ Twice(a, f.todo) \/ (In(a, ops) /\ In(a, Tail(f.todo)))
         /\ In(f.todo[1], Tail(f.todo)) => Twice(f.todo[1], f.todo)
         /\ Ordered(f.todo) => \A a : In(a, Tail(f.todo)) => MayPrecede(f.todo[1], a)
<1> DEFINE v == Tail(f.todo)
           o == f.todo[1]
           u == f.todo
           w == g.todo
<1>1. /\ v \in Seq(Ops) /\ o \in Ops
      /\ \A a : In(a, u) <=> a = o \/ In(a, v)
      /\ \A a : Twice(a, u) <=> Twice(a, v) \/ (a = o /\ In(a, v))
      /\ Ordered(u) => Ordered(v) /\ \A a : In(a, v) => MayPrecede(o, a)
  <2>1. u \in Seq(Ops) /\ u # <<>>
    BY DEF Goes
  <2> HIDE DEF u
  <2>2. /\ Tail(u) \in Seq(Ops) /\ u[1] \in Ops
        /\ \A a : In(a, u) <=> a = u[1] \/ In(a, Tail(u))
        /\ \A a : Twice(a, u) <=> Twice(a, Tail(u)) \/ (a = u[1] /\ In(a, Tail(u)))
        /\ Ordered(u) => Ordered(Tail(u)) /\ \A a : In(a, Tail(u)) => MayPrecede(u[1], a)
    BY <2>1, TailIs
  <2> QED
    BY <2>2 DEF u
<1>2. ops \in Seq(Ops) /\ w = ops \o v
  BY DEF Goes
<1> HIDE DEF v, o, u, w
<1>3. ops \o v \in Seq(Ops) /\ \A a : In(a, ops \o v) <=> In(a, ops) \/ In(a, v)
  <2>1. v \in Seq(Ops)
    BY <1>1
  <2> QED
    BY <1>2, <2>1, InConcat
<1>4. \A a : Twice(a, ops \o v) <=> Twice(a, ops) \/ Twice(a, v) \/ (In(a, ops) /\ In(a, v))
  <2>1. v \in Seq(Ops)
    BY <1>1
  <2> QED
    BY <1>2, <2>1, TwiceConcat
<1>5. /\ \A a : Twice(a, u) => IF a = o THEN In(a, v) ELSE Twice(a, w)
      /\ \A a : Twice(a, w) => Twice(a, ops) \/ Twice(a, u) \/ (In(a, ops) /\ In(a, v))
  <2>1. \A a : Twice(a, v) => In(a, v)
    BY TwiceIn
  <2> QED
    BY <1>1, <1>2, <1>4, <2>1
<1>6. /\ w \in Seq(Ops) /\ In(o, u)
      /\ \A a : In(a, u) => a = o \/ In(a, w)
      /\ \A a : In(a, ops) => In(a, w)
      /\ \A a : In(a, w) => In(a, ops) \/ In(a, v)
      /\ \A a : In(a, v) => In(a, u) /\ In(a, w)
  BY <1>1, <1>2, <1>3
<1> QED
  BY <1>1, <1>5, <1>6 DEF v, o, u, w

\* The imports of g.
LEMMA ImportedNow ==
  ASSUME NEW f, NEW g, NEW ops, Goes(f, g, ops)
  PROVE  /\ ToSet(g.imported) = IF f.todo[1].do = "add" THEN ToSet(f.imported) \cup {f.todo[1].node}
                                ELSE ToSet(f.imported)
         /\ ToSet(f.imported) \subseteq Node \cup {Null}
         /\ ToSet(f.imported) \subseteq ToSet(g.imported)
<1>1. f.imported \in Seq(Node \cup {Null}) /\ f.todo[1] \in Ops
  BY Moves DEF Goes
<1>2. ToSet(f.imported) \subseteq Node \cup {Null}
  BY <1>1 DEF ToSet
<1>3. CASE f.todo[1].do = "add"
  <2> DEFINE m == f.todo[1].node
             u == f.imported
             w == Append(u, m)
  <2>1. m \in Node \cup {Null} /\ g.imported = w
    BY <1>1, <1>3, OpIs DEF Goes
  <2> HIDE DEF m, u
  <2>2. /\ w \in Seq(Node \cup {Null}) /\ Len(w) = Len(u) + 1 /\ w[Len(u) + 1] = m /\ Len(u) \in Nat
        /\ \A i \in 1 .. Len(u) : w[i] = u[i]
    BY <1>1, <2>1, AppendProperties DEF u
  <2> HIDE DEF w
  <2>3. ToSet(w) = {w[i] : i \in 1 .. Len(w)} /\ ToSet(u) = {u[i] : i \in 1 .. Len(u)}
    BY <1>1, <2>2 DEF ToSet, u
  <2>4. ToSet(w) = ToSet(u) \cup {m}
    BY <2>2, <2>3
  <2> QED
    BY <1>2, <1>3, <2>1, <2>4 DEF m, u
<1>4. CASE f.todo[1].do # "add"
  BY <1>2, <1>4 DEF Goes
<1> QED
  BY <1>3, <1>4

\* It awaits and imports what there is.
LEMMA SoundOn ==
  ASSUME NEW p, NEW md, NEW md2, NEW reg, NEW reg2, NEW f, NEW g, NEW ops,
         Goes(f, g, ops), NewOps(p, md2, f, ops), Later(md, md2, reg, reg2), Sound(p, md, f)
  PROVE  Sound(p, md2, g)
<1> DEFINE j == f.job
           o == f.todo[1]
<1>1. ASSUME NEW m \in Node \cup {Null}, OKImport(p, md, j, m) PROVE OKImport(p, md2, j, m)
  <2>1. m # Null => m[2] \in Nat /\ m[1] \in Script
    BY ProgramAssumption DEF Node
  <2> QED
    BY <1>1, <2>1 DEF OKImport, Later
<1>2. ASSUME NEW a \in Ops, OKOp(p, md, j, a) PROVE OKOp(p, md2, j, a)
  <2>1. a.do = "add" => a.node \in Node \cup {Null}
    BY OpIs
  <2> QED
    BY <1>1, <1>2, <2>1 DEF OKOp
<1>3. \A a : In(a, f.todo) => a \in Ops /\ OKOp(p, md, j, a)
  BY InIndex DEF Goes, Sound
<1>4. ASSUME NEW a, In(a, g.todo) PROVE OKOp(p, md2, j, a)
  <2>1. CASE In(a, ops)
    BY <2>1 DEF NewOps
  <2>2. CASE In(a, f.todo)
    BY <1>2, <1>3, <2>2
  <2> QED
    BY <1>4, <2>1, <2>2, Moves
<1>5. ASSUME NEW m \in ToSet(g.imported) PROVE OKImport(p, md2, j, m)
  <2>1. CASE m \in ToSet(f.imported)
    BY <1>1, <2>1, ImportedNow DEF Sound
  <2>2. CASE o.do = "add" /\ m = o.node
    <3>1. o \in Ops /\ OKOp(p, md, j, o)
      BY <1>3, Moves
    <3>2. m \in Node \cup {Null} /\ OKImport(p, md, j, m)
      BY <2>2, <3>1, OpIs DEF OKOp
    <3> QED
      BY <1>1, <3>2
  <2> QED
    BY <2>1, <2>2, ImportedNow
<1> QED
  BY <1>4, <1>5 DEF Sound, Goes

\* Its ops are in order.
LEMMA OrderedOn ==
  ASSUME NEW p, NEW md2, NEW f, NEW g, NEW ops,
         Goes(f, g, ops), NewOps(p, md2, f, ops), Ordered(f.todo)
  PROVE  Ordered(g.todo)
<1> DEFINE o == f.todo[1]
           v == Tail(f.todo)
<1>1. f.todo \in Seq(Ops) /\ f.todo # <<>> /\ ops \in Seq(Ops) /\ g.todo = ops \o v
  BY DEF Goes
<1>2. v \in Seq(Ops) /\ Ordered(v) /\ \A b : In(b, v) => MayPrecede(o, b)
  BY <1>1, TailIs
<1>3. ASSUME NEW a, NEW b, In(a, ops), In(b, v) PROVE MayPrecede(a, b)
  <2>1. /\ a.do \in {"await", "lookup", "deref", "resolved", "add"}
        /\ a.do = "add" => o.do = "import"
        /\ a.do = "lookup" => o.do = "resolve"
    BY <1>3 DEF NewOps
  <2>2. MayPrecede(o, b)
    BY <1>2, <1>3
  <2> QED
    BY <2>1, <2>2 DEF MayPrecede
<1> HIDE DEF v
<1>4. Apart(ops, v)
  BY <1>3 DEF Apart
<1>5. Ordered(ops)
  BY DEF NewOps
<1>6. Joined(ops, v, g.todo)
  BY <1>1, <1>2, <1>4, <1>5, Parts
<1> QED
  BY <1>6 DEF Joined

\* The stage before it came first.
LEMMA OwnOn ==
  ASSUME NEW p, NEW t, NEW r, NEW e, NEW e2, NEW reg2, NEW f, NEW g, NEW ops,
         Goes(f, g, ops), OpDone(p, t, r, e, e2, reg2, f, ops), Own(r, f)
  PROVE  Own(r, g)
<1>1. ASSUME f.todo[1] = Await(f.job[1], f.job[2] - 1) PROVE <<f.job[1], f.job[2] - 1>> \in r
  <2>1. f.todo[1].do = "await" /\ f.todo[1].job = <<f.job[1], f.job[2] - 1>>
    BY <1>1, Fields
  <2> QED
    BY <2>1 DEF OpDone
<1>2. g.job = f.job
  BY DEF Goes
<1> QED
  BY <1>1, <1>2 DEF Own

\* What the parser reports it reports.
LEMMA ParsedOn ==
  ASSUME NEW p, NEW t, NEW r, NEW e, NEW e2, NEW reg2, NEW f, NEW g, NEW ops,
         Goes(f, g, ops), Blames(f, e, e2), OpDone(p, t, r, e, e2, reg2, f, ops), Parsed(p, e, f)
  PROVE  Parsed(p, e2, g)
<1>1. g.job = f.job /\ e \subseteq e2
  BY DEF Goes, Blames
<1>2. ASSUME f.todo[1] = Just("parse") PROVE f.job[1][1] \in Refused(p) => f.job[1] \in e2
  BY <1>2, Fields DEF OpDone
<1>3. In(Just("parse"), f.todo) => f.todo[1] = Just("parse") \/ In(Just("parse"), g.todo)
  BY Moves
<1> QED
  BY <1>1, <1>2, <1>3 DEF Parsed

\* After the error count there are no errors, and in compile nothing more that may be one.
LEMMA CheckedOn ==
  ASSUME NEW p, NEW md, NEW md2, NEW t, NEW r, NEW e, NEW e2, NEW reg2, NEW f, NEW g, NEW ops,
         Goes(f, g, ops), Blames(f, e, e2), NewOps(p, md2, f, ops),
         OpDone(p, t, r, e, e2, reg2, f, ops), Meant(p, r, e),
         Sound(p, md, f), Ordered(f.todo), Own(r, f), Checked(p, r, e, f)
  PROVE  Checked(p, r, e2, g)
<1> DEFINE n == f.job[1]
           o == f.todo[1]
<1>1. /\ g.job = f.job /\ f.job \in Job /\ n \in Node /\ f.todo # <<>>
      /\ e2 # e => o.do \in {"parse", "import", "add"}
  BY DEF Goes, Blames, Job
<1>2. In(Just("check"), f.todo) => o = Just("check") \/ In(Just("check"), g.todo)
  BY Moves
<1>3. ASSUME o = Just("check"), f.job[2] >= PreSemantic
      PROVE  n \notin e /\ e2 = e /\ <<n, f.job[2] - 1>> \in r
  <2>1. o.do = "check"
    BY <1>3, Fields
  <2>2. o # Await(n, f.job[2] - 1)
    BY <2>1, Fields
  <2> QED
    BY <1>1, <1>3, <2>1, <2>2 DEF OpDone, Own
<1>4. \A a : In(a, ops) => a.do # "import" /\ (a.do = "add" => o.do = "import")
  BY DEF NewOps
<1>5. ASSUME f.job[2] = PreSemantic PROVE In(Just("check"), g.todo) \/ n[1] \notin Refused(p)
  <2>1. CASE o = Just("check")
    <3>1. n \notin e /\ <<n, Parse>> \in r
      BY <1>3, <1>5, <2>1 DEF PreSemantic, Parse
    <3> QED
      BY <1>1, <3>1 DEF Meant
  <2> QED
    BY <1>2, <1>5, <2>1 DEF Checked
<1>6. ASSUME f.job[2] = Compile
      PROVE  \/ In(Just("check"), g.todo)
             \/ /\ n \notin e2 /\ <<n, Semantic>> \in r
                /\ \A a : In(a, g.todo) => a.do \notin {"import", "add"}
  <2>1. CASE o = Just("check")
    <3>1. n \notin e /\ e2 = e /\ <<n, Semantic>> \in r
      BY <1>3, <1>6, <2>1 DEF PreSemantic, Semantic, Compile
    <3>2. o.do = "check"
      BY <2>1, Fields
    <3>3. \A a : In(a, Tail(f.todo)) => a.do \notin {"import", "add"}
      BY <3>2, Moves DEF MayPrecede
    <3>4. \A a : In(a, g.todo) => a.do \notin {"import", "add"}
      BY <1>4, <3>2, <3>3, Moves
    <3> QED
      BY <3>1, <3>4
  <2>2. CASE /\ n \notin e /\ <<n, Semantic>> \in r
             /\ \A a : In(a, f.todo) => a.do \notin {"import", "add"}
    <3>1. In(o, f.todo)
      BY Moves
    <3>2. o.do \notin {"import", "add", "parse"}
      BY <1>6, <2>2, <3>1 DEF Sound, OKOp, Compile, Parse
    <3>3. \A a : In(a, g.todo) => In(a, ops) \/ In(a, f.todo)
      BY Moves
    <3>4. \A a : In(a, ops) => a.do \notin {"import", "add"}
      BY <1>4, <3>2
    <3>5. \A a : In(a, g.todo) => a.do \notin {"import", "add"}
      BY <2>2, <3>3, <3>4
    <3> QED
      BY <1>1, <2>2, <3>2, <3>5
  <2> QED
    BY <1>2, <1>6, <2>1, <2>2 DEF Checked
<1> QED
  BY <1>1, <1>5, <1>6 DEF Checked

\* What is awaited is awaited until it is settled.
LEMMA AwaitedOn ==
  ASSUME NEW p, NEW t, NEW r, NEW e, NEW e2, NEW reg2, NEW f, NEW g, NEW ops,
         Goes(f, g, ops), OpDone(p, t, r, e, e2, reg2, f, ops), Meant(p, r, e),
         NEW x, NEW st \in {PreSemantic, Semantic}, Awaited(f, x, st)
  PROVE  Settled(p, x, st) \/ Awaited(g, x, st)
<1>1. PICK m \in Node : m[1] = x /\ In(Await(m, st), f.todo)
  BY DEF Awaited
<1>2. CASE f.todo[1] = Await(m, st)
  <2>1. <<m, st>> \in r
    BY <1>2, Fields DEF OpDone
  <2> QED
    BY <1>1, <2>1 DEF Meant, Settled, PreSemantic, Semantic
<1>3. CASE In(Await(m, st), g.todo)
  BY <1>1, <1>3 DEF Awaited
<1> QED
  BY <1>1, <1>2, <1>3, Moves

\* the stage before
LEMMA StageBefore ==
  ASSUME NEW j \in Job, j[2] \in {Semantic, Compile}
  PROVE  j[2] - 1 \in {PreSemantic, Semantic} /\ (j[2] = Semantic => j[2] - 1 = PreSemantic)
  BY DEF PreSemantic, Semantic, Compile

\* Each type is still to be resolved, or was found.
LEMMA TypedOn ==
  ASSUME NEW p, NEW t, NEW r, NEW e, NEW e2, NEW reg2, NEW f, NEW g, NEW ops,
         Goes(f, g, ops), OpDone(p, t, r, e, e2, reg2, f, ops), Meant(p, r, e), Typed(p, t, f)
  PROVE  Typed(p, t, g)
<1> DEFINE st == f.job[2] - 1
           o == f.todo[1]
<1>1. g.job = f.job /\ f.job \in Job
  BY DEF Goes
<1> SUFFICES ASSUME f.job[2] \in {Semantic, Compile}, NEW y \in Refs(p, f.job)
             PROVE  \/ In(Resolve(y, st), g.todo) \/ In(Lookup(y, st), g.todo)
                    \/ t = Main /\ Reaches(p, f.job, y) /\ (Settled(p, y, st) \/ Awaited(g, y, st))
  BY <1>1 DEF Typed
<1>2. st \in {PreSemantic, Semantic}
  BY <1>1, StageBefore
<1> HIDE DEF st
<1>3. CASE o = Resolve(y, st)
  <2>1. o.do = "resolve" /\ o.script = y /\ o.stage = st
    BY <1>3, Fields
  <2>2. y # f.job[1][1]
    BY DEF Refs
  <2>3. In(Lookup(y, st), ops)
    BY <2>1, <2>2 DEF OpDone
  <2> QED
    BY <2>3, Moves
<1>4. CASE o = Lookup(y, st)
  <2>1. o.do = "lookup" /\ o.script = y /\ o.stage = st
    BY <1>4, Fields
  <2>2. PICK m : Gets(p, t, f.job, y, m) /\ In(Await(m, st), ops)
    BY <2>1 DEF OpDone
  <2> QED
    BY <2>2, Moves DEF Gets, Awaited
<1>5. CASE t = Main /\ Reaches(p, f.job, y) /\ (Settled(p, y, st) \/ Awaited(f, y, st))
  BY <1>2, <1>5, AwaitedOn
<1>6. \/ In(Resolve(y, st), f.todo) \/ In(Lookup(y, st), f.todo)
      \/ t = Main /\ Reaches(p, f.job, y) /\ (Settled(p, y, st) \/ Awaited(f, y, st))
  BY DEF Typed, st
<1> QED
  BY <1>3, <1>4, <1>5, <1>6, Moves

\* Each import is still to be found, or was, or there is none.
LEMMA ImportsAddedOn ==
  ASSUME NEW p, NEW t, NEW r, NEW e, NEW e2, NEW reg2, NEW f, NEW g, NEW ops,
         Goes(f, g, ops), OpDone(p, t, r, e, e2, reg2, f, ops), ImportsAdded(p, t, f)
  PROVE  ImportsAdded(p, t, g)
<1> DEFINE o == f.todo[1]
           Given2(i) == \E m \in Node : m[1] = i /\ (In(Add(m), g.todo) \/ m \in ToSet(g.imported))
<1>1. g.job = f.job /\ f.job \in Job
  BY DEF Goes
<1> SUFFICES ASSUME f.job[2] \in {Semantic, Compile}, NEW i \in Imported(p, f.job)
             PROVE  In(Import(i), g.todo) \/ t # Main \/ ~Reaches(p, f.job, i) \/ Given2(i)
  BY <1>1 DEF ImportsAdded
<1>2. CASE o = Import(i)
  <2>1. o.do = "import" /\ o.script = i
    BY <1>2, Fields
  <2>2. t # Main \/ ~Reaches(p, f.job, i) \/ \E m : Gets(p, t, f.job, i, m) /\ In(Add(m), ops)
    BY <2>1 DEF OpDone
  <2> QED
    BY <2>2, Moves DEF Gets
<1>3. ASSUME NEW m \in Node, m[1] = i, In(Add(m), f.todo) \/ m \in ToSet(f.imported) PROVE Given2(i)
  <2>1. CASE o = Add(m)
    <3>1. o.do = "add" /\ o.node = m
      BY <2>1, Fields
    <3>2. m \in ToSet(g.imported)
      BY <3>1, ImportedNow
    <3> QED
      BY <1>3, <3>2
  <2> QED
    BY <1>3, <2>1, Moves, ImportedNow
<1>4. \/ In(Import(i), f.todo) \/ t # Main \/ ~Reaches(p, f.job, i)
      \/ \E m \in Node : m[1] = i /\ (In(Add(m), f.todo) \/ m \in ToSet(f.imported))
  BY DEF ImportsAdded
<1> QED
  BY <1>2, <1>3, <1>4, Moves

\* What the provider gave has a type, or is awaited.
LEMMA ImportsTypedOn ==
  ASSUME NEW p \in Program, NEW t \in p.threads,
         NEW r, NEW e, NEW e2, NEW reg2, NEW f, NEW g, NEW ops,
         Goes(f, g, ops), OpDone(p, t, r, e, e2, reg2, f, ops), Meant(p, r, e), ImportsTyped(p, f)
  PROVE  ImportsTyped(p, g)
<1> DEFINE o == f.todo[1]
           Has(i) == Reaches(p, f.job, i) /\ ~FoundFirst(p, i) => HasType(p, i)
<1>1. g.job = f.job
  BY DEF Goes
<1> SUFFICES ASSUME f.job[2] = Semantic, NEW i \in Imported(p, f.job)
             PROVE  In(Import(i), g.todo) \/ Awaited(g, i, PreSemantic) \/ Has(i)
  BY <1>1 DEF ImportsTyped
<1>2. CASE o = Import(i)
  <2>1. o.do = "import" /\ o.script = i
    BY <1>2, Fields
  <2>2. CASE t # Main \/ ~Reaches(p, f.job, i)
    BY <2>2, ProvidedByMain, ReachesIs
  <2>3. ASSUME NEW m, Gets(p, t, f.job, i, m),
               In(Await(m, PreSemantic), ops) \/ FoundFirst(p, i) \/ HasType(p, i)
        PROVE  Awaited(g, i, PreSemantic) \/ Has(i)
    BY <2>3, Moves DEF Gets, Awaited
  <2> QED
    BY <2>1, <2>2, <2>3 DEF OpDone
<1>3. CASE Awaited(f, i, PreSemantic)
  <2>1. Settled(p, i, PreSemantic) \/ Awaited(g, i, PreSemantic)
    BY <1>3, AwaitedOn
  <2> QED
    BY <2>1, SettledType
<1>4. In(Import(i), f.todo) \/ Awaited(f, i, PreSemantic) \/ Has(i)
  BY DEF ImportsTyped
<1> QED
  BY <1>2, <1>3, <1>4, Moves

\* The first type awaits all imports, for they come before it.
LEMMA ImportsSettledOn ==
  ASSUME NEW p, NEW t, NEW r, NEW e, NEW e2, NEW reg2, NEW f, NEW g, NEW ops,
         Goes(f, g, ops), OpDone(p, t, r, e, e2, reg2, f, ops), Meant(p, r, e),
         Ordered(f.todo), ImportsAdded(p, t, f), ImportsSettled(p, t, f)
  PROVE  ImportsSettled(p, t, g)
<1> DEFINE st == f.job[2] - 1
           o == f.todo[1]
<1>1. g.job = f.job /\ f.job \in Job
  BY DEF Goes
<1> SUFFICES ASSUME f.job[2] \in {Semantic, Compile}, Refs(p, f.job) # {},
                    NEW i \in Imported(p, f.job), t = Main, Reaches(p, f.job, i)
             PROVE  \/ \E y \in Refs(p, f.job) : In(Resolve(y, st), g.todo)
                    \/ Settled(p, i, st) \/ Awaited(g, i, st)
  BY <1>1 DEF ImportsSettled
<1>2. st \in {PreSemantic, Semantic}
  BY <1>1, StageBefore
<1>3. ASSUME NEW y \in Refs(p, f.job), o = Resolve(y, st) PROVE Awaited(g, i, st)
  <2>1. o.do = "resolve" /\ o.script = y /\ o.stage = st
    BY <1>3, Fields
  <2>2. y # f.job[1][1]
    BY DEF Refs
  <2>3. \A m \in ToSet(f.imported) : m # Null => In(Await(m, st), ops)
    BY <2>1, <2>2 DEF OpDone
  <2>4. \A a : In(a, f.todo) => a.do \notin {"import", "add"}
    <3>1. \A a : In(a, Tail(f.todo)) => MayPrecede(o, a)
      BY Moves
    <3>2. \A a : In(a, f.todo) => a = o \/ In(a, Tail(f.todo))
      <4>1. f.todo \in Seq(Ops) /\ f.todo # <<>>
        BY DEF Goes
      <4> QED
        BY <4>1, TailIs
    <3> QED
      BY <2>1, <3>1, <3>2 DEF MayPrecede
  <2>5. ~In(Import(i), f.todo) /\ \A m : ~In(Add(m), f.todo)
    BY <2>4, Fields
  <2>6. PICK m \in Node : m[1] = i /\ m \in ToSet(f.imported)
    BY <2>5 DEF ImportsAdded
  <2>7. m # Null
    BY ProgramAssumption
  <2> QED
    BY <2>3, <2>6, <2>7, Moves DEF Awaited
<1> HIDE DEF st
<1>4. CASE Awaited(f, i, st)
  BY <1>2, <1>4, AwaitedOn
<1>5. \/ \E y \in Refs(p, f.job) : In(Resolve(y, st), f.todo)
      \/ Settled(p, i, st) \/ Awaited(f, i, st)
  BY DEF ImportsSettled, st
<1> QED
  BY <1>3, <1>4, <1>5, Moves

\* A missing import is an error.
LEMMA ImportsFoundOn ==
  ASSUME NEW p, NEW t, NEW r, NEW e, NEW e2, NEW reg2, NEW f, NEW g, NEW ops,
         Goes(f, g, ops), Blames(f, e, e2), OpDone(p, t, r, e, e2, reg2, f, ops),
         ImportsFound(p, e, f)
  PROVE  ImportsFound(p, e2, g)
<1>1. g.job = f.job /\ e \subseteq e2
  BY DEF Goes, Blames
<1> SUFFICES ASSUME f.job[2] = Compile, NEW i \in Imported(p, f.job)
             PROVE  In(Import(i), g.todo) \/ f.job[1] \in e2 \/ Reaches(p, f.job, i)
  BY <1>1 DEF ImportsFound
<1>2. CASE f.todo[1] = Import(i)
  <2>1. f.todo[1].do = "import" /\ f.todo[1].script = i
    BY <1>2, Fields
  <2> QED
    BY <2>1 DEF OpDone, Gets
<1>3. In(Import(i), f.todo) \/ f.job[1] \in e \/ Reaches(p, f.job, i)
  BY DEF ImportsFound
<1> QED
  BY <1>1, <1>2, <1>3, Moves

\* An import that is there twice is found to be.
LEMMA DuplicatesOn ==
  ASSUME NEW p, NEW md, NEW md2, NEW t, NEW r, NEW e, NEW e2, NEW reg, NEW reg2,
         NEW f, NEW g, NEW ops,
         Goes(f, g, ops), Blames(f, e, e2), OpDone(p, t, r, e, e2, reg2, f, ops),
         Later(md, md2, reg, reg2), Ordered(f.todo), Duplicates(p, e, reg, f)
  PROVE  Duplicates(p, e2, reg2, g)
<1> DEFINE n == f.job[1]
           o == f.todo[1]
           Two(i) == \/ Twice(Import(i), g.todo)
                     \/ /\ reg2[i] # Null /\ In(Import(i), g.todo)
                        /\ In(Add(reg2[i]), g.todo) \/ reg2[i] \in ToSet(g.imported)
                     \/ reg2[i] # Null /\ In(Add(reg2[i]), g.todo) /\ reg2[i] \in ToSet(g.imported)
<1>1. g.job = f.job /\ e \subseteq e2
  BY DEF Goes, Blames
<1> SUFFICES ASSUME f.job[2] = Compile, ~ImportsOnce(p, n[1]), n \notin e2
             PROVE  \E i \in Script \ p.qualified : Two(i)
  BY <1>1 DEF Duplicates
<1>2. PICK i \in Script \ p.qualified :
        \/ Twice(Import(i), f.todo)
        \/ /\ reg[i] # Null /\ In(Import(i), f.todo)
           /\ In(Add(reg[i]), f.todo) \/ reg[i] \in ToSet(f.imported)
        \/ reg[i] # Null /\ In(Add(reg[i]), f.todo) /\ reg[i] \in ToSet(f.imported)
  BY <1>1 DEF Duplicates
<1>3. reg[i] # Null => reg2[i] = reg[i]
  BY DEF Later
<1>4. ASSUME o = Import(i) PROVE In(Add(reg2[i]), g.todo) /\ reg2[i] # Null
  <2>1. o.do = "import" /\ o.script = i
    BY <1>4, Fields
  <2>2. PICK m : Gets(p, t, f.job, i, m) /\ In(Add(m), ops) /\ reg2[i] = m
    BY <2>1 DEF OpDone
  <2>3. m # Null
    BY <2>2, ProgramAssumption DEF Gets
  <2> QED
    BY <2>2, <2>3, Moves
<1>5. ASSUME o = Add(reg[i])
      PROVE  /\ reg[i] \in ToSet(g.imported) /\ reg[i] \notin ToSet(f.imported)
             /\ o # Import(i)
  <2>1. o.do = "add" /\ o.node = reg[i]
    BY <1>5, Fields
  <2>2. o # Import(i)
    BY <2>1, Fields
  <2> QED
    BY <2>1, <2>2, ImportedNow DEF OpDone
<1>6. ToSet(f.imported) \subseteq ToSet(g.imported)
  BY ImportedNow
<1>7. CASE Twice(Import(i), f.todo)
  <2>1. CASE o = Import(i)
    <3>1. In(Import(i), g.todo)
      BY <1>7, <2>1, Moves
    <3> QED
      BY <1>4, <2>1, <3>1
  <2>2. CASE o # Import(i)
    <3>1. Twice(Import(i), g.todo)
      BY <1>7, <2>2, Moves
    <3> QED
      BY <3>1
  <2> QED
    BY <2>1, <2>2
<1>8. CASE /\ reg[i] # Null /\ In(Import(i), f.todo)
           /\ In(Add(reg[i]), f.todo) \/ reg[i] \in ToSet(f.imported)
  <2>1. CASE o = Import(i)
    <3>1. ~In(Add(reg[i]), f.todo)
      <4>1. o.do = "import" /\ Add(reg[i]).do = "add"
        BY <2>1, Fields
      <4>2. \A a : In(a, f.todo) => a = o \/ In(a, Tail(f.todo))
        <5>1. f.todo \in Seq(Ops) /\ f.todo # <<>>
          BY DEF Goes
        <5> QED
          BY <5>1, TailIs
      <4>3. \A a : In(a, Tail(f.todo)) => MayPrecede(o, a)
        BY Moves
      <4> QED
        BY <4>1, <4>2, <4>3 DEF MayPrecede
    <3>2. reg2[i] # Null /\ In(Add(reg2[i]), g.todo) /\ reg2[i] \in ToSet(g.imported)
      BY <1>3, <1>4, <1>6, <1>8, <2>1, <3>1
    <3> QED
      BY <3>2
  <2>2. CASE o # Import(i)
    <3>1. In(Import(i), g.todo)
      BY <1>8, <2>2, Moves
    <3>2. In(Add(reg[i]), g.todo) \/ reg[i] \in ToSet(g.imported)
      BY <1>5, <1>6, <1>8, Moves
    <3> QED
      BY <1>3, <1>8, <3>1, <3>2
  <2> QED
    BY <2>1, <2>2
<1>9. CASE reg[i] # Null /\ In(Add(reg[i]), f.todo) /\ reg[i] \in ToSet(f.imported)
  <2>1. In(Add(reg[i]), g.todo)
    BY <1>5, <1>9, Moves
  <2> QED
    BY <1>3, <1>6, <1>9, <2>1
<1> QED
  BY <1>2, <1>7, <1>8, <1>9

\* So all that a frame knows it still knows when its job goes on.
LEMMA Proceeds ==
  ASSUME NEW p \in Program, NEW t \in p.threads, NEW md, NEW md2, NEW r, NEW e, NEW e2,
         NEW reg, NEW reg2, NEW f, NEW g, NEW ops,
         Goes(f, g, ops), Blames(f, e, e2), NewOps(p, md2, f, ops),
         OpDone(p, t, r, e, e2, reg2, f, ops), Later(md, md2, reg, reg2), Meant(p, r, e),
         Knows(p, md, r, e, reg, t, f)
  PROVE  Knows(p, md2, r, e2, reg2, t, g)
<1>1. /\ Sound(p, md, f) /\ Ordered(f.todo) /\ Own(r, f) /\ Parsed(p, e, f) /\ Checked(p, r, e, f)
      /\ Typed(p, t, f) /\ ImportsAdded(p, t, f) /\ ImportsTyped(p, f) /\ ImportsSettled(p, t, f)
      /\ ImportsFound(p, e, f) /\ Duplicates(p, e, reg, f)
  BY DEF Knows
<1>2. Sound(p, md2, g) /\ Ordered(g.todo)
  BY <1>1, SoundOn, OrderedOn
<1>3. Own(r, g) /\ Parsed(p, e2, g)
  BY <1>1, OwnOn, ParsedOn
<1>4. Checked(p, r, e2, g)
  BY <1>1, CheckedOn
<1>5. Typed(p, t, g) /\ ImportsAdded(p, t, g)
  BY <1>1, TypedOn, ImportsAddedOn
<1>6. ImportsTyped(p, g) /\ ImportsSettled(p, t, g)
  BY <1>1, ImportsTypedOn, ImportsSettledOn
<1>7. ImportsFound(p, e2, g) /\ Duplicates(p, e2, reg2, g)
  BY <1>1, ImportsFoundOn, DuplicatesOn
<1> QED
  BY <1>2, <1>3, <1>4, <1>5, <1>6, <1>7 DEF Knows

\* A frame that waits knows what it knew, as more jobs run and more errors are found elsewhere.
LEMMA Remains ==
  ASSUME NEW p \in Program, NEW t, NEW md, NEW md2, NEW r, NEW r2, NEW e, NEW e2,
         NEW reg, NEW reg2, NEW f,
         f.job \in Job, f.todo \in Seq(Ops), f.imported \in Seq(Node \cup {Null}),
         r \subseteq r2, e \subseteq e2, Later(md, md2, reg, reg2),
         <<f.job[1], Semantic>> \in r /\ f.job[1] \in e2 => f.job[1] \in e \/ f.job[2] # Compile,
         Knows(p, md, r, e, reg, t, f)
  PROVE  Knows(p, md2, r2, e2, reg2, t, f)
<1>1. /\ Sound(p, md, f) /\ Ordered(f.todo) /\ Own(r, f) /\ Parsed(p, e, f) /\ Checked(p, r, e, f)
      /\ Typed(p, t, f) /\ ImportsAdded(p, t, f) /\ ImportsTyped(p, f) /\ ImportsSettled(p, t, f)
      /\ ImportsFound(p, e, f) /\ Duplicates(p, e, reg, f)
  BY DEF Knows
<1>2. ASSUME NEW j, NEW m \in Node \cup {Null}, OKImport(p, md, j, m) PROVE OKImport(p, md2, j, m)
  <2>1. m # Null => m[2] \in Nat /\ m[1] \in Script
    BY ProgramAssumption DEF Node
  <2> QED
    BY <1>2, <2>1 DEF OKImport, Later
<1>3. Sound(p, md2, f)
  <2>1. ASSUME NEW a, In(a, f.todo) PROVE OKOp(p, md2, f.job, a)
    <3>1. a \in Ops /\ OKOp(p, md, f.job, a)
      BY <1>1, <2>1, InIndex DEF Sound
    <3>2. a.do = "add" => a.node \in Node \cup {Null}
      BY <3>1, OpIs
    <3> QED
      BY <1>2, <3>1, <3>2 DEF OKOp
  <2>2. \A m \in ToSet(f.imported) : m \in Node \cup {Null}
    BY DEF ToSet
  <2> QED
    BY <1>1, <1>2, <2>1, <2>2 DEF Sound
<1>4. Own(r2, f) /\ Parsed(p, e2, f)
  BY <1>1 DEF Own, Parsed
<1>5. Checked(p, r2, e2, f)
  BY <1>1 DEF Checked
<1>6. ImportsFound(p, e2, f)
  BY <1>1 DEF ImportsFound
<1>7. Duplicates(p, e2, reg2, f)
  BY <1>1 DEF Duplicates, Later
<1> QED
  BY <1>1, <1>3, <1>4, <1>5, <1>6, <1>7 DEF Knows

\* A frame that begins knows it.
LEMMA Starts ==
  ASSUME program \in Program, NEW j \in Job, OKJob(program, j),
         NEW t, NEW md, NEW r, NEW e, NEW reg
  PROVE  Knows(program, md, r, e, reg, t, Frame(j))
<1> DEFINE f == Frame(j)
           u == Steps(j)
           n == j[1]
<1>1. f.job = j /\ f.todo = u /\ f.imported = <<>>
  BY DEF Frame
<1>2. Planned(program, j, u)
  BY StepsPlanned
<1>3. /\ u \in Seq(Ops) /\ Ordered(u)
      /\ j[2] >= PreSemantic => u # <<>> /\ u[1] = Prior(j)
      /\ \A o : In(o, u) <=> Given(program, j, o)
      /\ \A i : Twice(Import(i), u) <=> Resolves(program, j) /\ Twice(i, program.imports[n[1]])
  BY <1>2 DEF Planned
<1> HIDE DEF f, u
<1>4. /\ n \in Node /\ n[1] \in Script /\ j[2] \in 1 .. 7
      /\ KindIn(program, n) \in {"compile", "import"}
  <2>1. n \in Node /\ n[1] \in Script /\ j[2] \in 1 .. 7
    BY DEF Job, Node, Stage
  <2>2. program.kind[n[1]] \in {"compile", "import", "none"}
    BY <2>1, ProgramAssumption
  <2> QED
    BY <2>1, <2>2 DEF KindIn, OKJob
<1>5. j[2] \in {Semantic, Compile} => Resolves(program, j)
  BY DEF Resolves, OKJob
<1>6. Sound(program, md, f)
  <2>1. ASSUME NEW a, In(a, u) PROVE OKOp(program, md, j, a)
    <3>1. Given(program, j, a)
      BY <1>3, <2>1
    <3>2. CASE a = Prior(j)
      <4>1. a.do = "await" /\ a.job = <<n, j[2] - 1>>
        BY <3>2, Fields DEF Prior
      <4>2. OKJob(program, <<n, j[2] - 1>>)
        BY <1>4 DEF OKJob, Compile, Write
      <4> QED
        BY <4>1, <4>2 DEF OKOp
    <3>3. CASE a = Just("parse") /\ j[2] = Parse
      BY <3>3, Fields DEF OKOp
    <3>4. CASE /\ a = Just("check")
               /\ \/ j[2] = PreSemantic
                  \/ j[2] \in {Parse, Semantic} /\ KindIn(program, j[1]) # "import"
                  \/ j[2] = Compile /\ KindIn(program, j[1]) = "compile"
      BY <1>4, <3>4, Fields DEF OKOp
    <3>5. CASE a = Just("super") \/ \E x, st : a = Lookup(x, st) \/ a = Resolve(x, st)
      <4>1. a.do \in {"super", "lookup", "resolve"}
        BY <3>5, Fields
      <4> QED
        BY <4>1 DEF OKOp
    <3>6. ASSUME Resolves(program, j), NEW i \in Imported(program, j), a = Import(i)
          PROVE  OKOp(program, md, j, a)
      <4>1. a.do = "import" /\ a.script = i
        BY <3>6, Fields
      <4> QED
        BY <3>6, <4>1 DEF OKOp
    <3> QED
      BY <3>1, <3>2, <3>3, <3>4, <3>5, <3>6 DEF Given
  <2>2. ToSet(f.imported) = {}
    BY <1>1 DEF ToSet
  <2> QED
    BY <1>1, <2>1, <2>2 DEF Sound
<1>7. Own(r, f)
  BY <1>1, <1>3 DEF Own, Prior
<1>8. Parsed(program, e, f) /\ Checked(program, r, e, f)
  <2>1. j[2] = Parse => In(Just("parse"), u)
    BY <1>3 DEF Given
  <2>2. j[2] \in {PreSemantic, Compile} => In(Just("check"), u)
    BY <1>3 DEF Given, OKJob
  <2> QED
    BY <1>1, <2>1, <2>2 DEF Parsed, Checked
<1>9. j[2] \in {Semantic, Compile} =>
        /\ \A i \in Imported(program, j) : In(Import(i), u)
        /\ \A y \in Refs(program, j) : In(Resolve(y, j[2] - 1), u)
  BY <1>3, <1>5 DEF Given, Refs
<1>10. /\ Typed(program, t, f) /\ ImportsAdded(program, t, f) /\ ImportsTyped(program, f)
       /\ ImportsSettled(program, t, f) /\ ImportsFound(program, e, f)
  BY <1>1, <1>9 DEF Typed, ImportsAdded, ImportsTyped, ImportsSettled, ImportsFound
<1>11. Duplicates(program, e, reg, f)
  <2>1. SUFFICES ASSUME j[2] = Compile, ~ImportsOnce(program, n[1])
                 PROVE  \E i \in Script \ program.qualified : Twice(Import(i), u)
    BY <1>1 DEF Duplicates
  <2> DEFINE q == program.imports[n[1]]
  <2>2. q \in Seq(Script) /\ Len(q) \in Nat /\ DOMAIN q = 1 .. Len(q)
    BY <1>4, ProgramType
  <2>3. PICK i \in DOMAIN q, k \in DOMAIN q : q[i] = q[k] /\ q[i] \notin program.qualified /\ i # k
    BY <2>1 DEF ImportsOnce
  <2>4. Twice(q[i], q) /\ q[i] \in Script
    <3>1. i \in 1 .. Len(q) /\ k \in 1 .. Len(q) /\ (i < k \/ k < i)
      BY <2>2, <2>3
    <3> QED
      BY <2>2, <2>3, <3>1 DEF Twice
  <2> QED
    BY <1>3, <1>5, <2>1, <2>3, <2>4
<1> QED
  BY <1>1, <1>3, <1>6, <1>7, <1>8, <1>10, <1>11 DEF Knows, f

---------------------------------------------------------------------------
(* The steps of a thread.                                                  *)

\* Thread t goes on with ops in place of the op it was at.
Advances(t, ops) ==
  /\ GoesOn(t, ops \o Tail(Top(t).todo))
  /\ Goes(Top(t), stack'[t][Len(stack[t])], ops)
  /\ Blames(Top(t), errors, errors')
  /\ NewOps(program, made', Top(t), ops)
  /\ OpDone(program, t, ran, errors, errors', registered', Top(t), ops)
  /\ Stems(program, t, parent, errors, errors', Top(t), ops)
  /\ Later(made, made', registered, registered')
  /\ UNCHANGED <<ran, locked>>

\* What a step of a thread does.
ResultShape(t) ==
  \/ UNCHANGED <<stack, ran, locked, errors, made, registered>>
  \/ \E j : /\ Begins(t, j) /\ OKJob(program, j) /\ locked' = locked \cup {j}
            /\ \/ stack[t] = <<>> /\ j[2] \in {Read, Write}
               \/ At(t, "await") /\ Op(t).job = j
            /\ UNCHANGED <<ran, errors, made, registered>>
  \/ /\ Returns(t) /\ ran' = ran \cup {Top(t).job}
     /\ UNCHANGED <<locked, errors, made, registered>>
  \/ \E ops : Advances(t, ops)

\* the op at which a thread is
LEMMA TopOp ==
  ASSUME IInv, NEW t \in Thread, stack[t] # <<>>, Top(t).todo # <<>>
  PROVE  /\ Op(t) = Top(t).todo[1] /\ Top(t).todo \in Seq(Ops) /\ Top(t).job \in Job
         /\ Op(t) \in Ops /\ In(Op(t), Top(t).todo) /\ Self(t) = Top(t).job[1]
         /\ Self(t) \in Node /\ Top(t).imported \in Seq(Node \cup {Null})
<1>1. /\ Top(t).todo \in Seq(Ops) /\ Top(t).job \in Job /\ Self(t) \in Node
      /\ Top(t).imported \in Seq(Node \cup {Null})
  BY TopType DEF Frames
<1>2. Op(t) = Top(t).todo[1] /\ Len(Top(t).todo) >= 1
  BY <1>1 DEF Op
<1>3. 1 \in 1 .. Len(Top(t).todo)
  BY <1>1, <1>2
<1> QED
  BY <1>1, <1>2, <1>3, InIndex DEF Self, In

\* what the frame on top knows
LEMMA TopKnows ==
  ASSUME IInv, FramesKnow, NEW t \in Thread, stack[t] # <<>>
  PROVE  Knows(program, made, ran, errors, registered, t, Top(t)) /\ Sound(program, made, Top(t))
<1>1. Top(t) = stack[t][Len(stack[t])] /\ Len(stack[t]) \in 1 .. Len(stack[t])
  BY TopType
<1> QED
  BY <1>1 DEF FramesKnow, Knows

\* Continue is a Goes.
LEMMA ContinueGoes ==
  ASSUME IInv, NEW t \in Thread, stack[t] # <<>>, Top(t).todo # <<>>,
         NEW ops \in Seq(May(program, Top(t).job)), Continue(t, ops), Op(t).do # "add"
  PROVE  Goes(Top(t), stack'[t][Len(stack[t])], ops)
<1> DEFINE n == Len(stack[t])
           todo == ops \o Tail(Top(t).todo)
           f == stack[t][n]
           g == [job |-> f.job, todo |-> todo, imported |-> f.imported]
           s == [stack[t] EXCEPT ![n] = g]
<1>1. f = Top(t) /\ f \in [job : Job, todo : Seq(Ops), imported : Seq(Node \cup {Null})]
  BY TopType DEF Frames
<1>2. [f EXCEPT !.todo = todo] = g
  <2> HIDE DEF todo, f
  <2> QED
    BY <1>1, FrameExcept
<1>3. stack' = [stack EXCEPT ![t] = s]
  <2>1. stack' = [stack EXCEPT ![t] = [stack[t] EXCEPT ![n] = [f EXCEPT !.todo = todo]]]
    BY <1>1 DEF Continue
  <2> QED
    BY <1>2, <2>1
<1>4. stack[t] \in Seq(Frames(program)) /\ n \in Nat /\ n \in 1 .. n
  BY TopType DEF IInv, Stacks
<1>5. s[n] = g
  <2> HIDE DEF g
  <2> QED
    BY <1>4
<1>6. stack'[t] = s
  <2> HIDE DEF s
  <2> QED
    BY <1>3 DEF IInv, Stacks
<1>7. ops \in Seq(Ops)
  BY SeqMonotonic DEF May
<1>8. stack'[t][n] = g
  BY <1>5, <1>6
<1>9. g.job = f.job /\ g.todo = todo /\ g.imported = f.imported
  OBVIOUS
<1>10. /\ f.todo \in Seq(Ops) /\ f.todo # <<>> /\ f.job \in Job
       /\ f.imported \in Seq(Node \cup {Null}) /\ f.todo[1].do # "add"
  BY <1>1, TopOp
<1> HIDE DEF g, s
<1> QED
  BY <1>1, <1>7, <1>8, <1>9, <1>10 DEF Goes

\* So is AddImport.
LEMMA AddGoes ==
  ASSUME IInv, NEW t \in Thread, AddImport(t)
  PROVE  Goes(Top(t), stack'[t][Len(stack[t])], <<>>)
<1> DEFINE n == Len(stack[t])
           f == Top(t)
           g == [job |-> f.job, todo |-> Tail(f.todo), imported |-> Append(f.imported, Op(t).node)]
           s == [stack[t] EXCEPT ![n] = g]
<1>0. stack[t] # <<>> /\ f.todo # <<>> /\ Op(t).do = "add"
  BY DEF AddImport, At
<1>1. stack' = [stack EXCEPT ![t] = s]
  BY DEF AddImport
<1>2. stack[t] \in Seq(Frames(program)) /\ n \in Nat /\ n \in 1 .. n
  BY <1>0, TopType DEF IInv, Stacks
<1>3. s[n] = g
  <2> HIDE DEF g
  <2> QED
    BY <1>2
<1>4. stack'[t] = s
  <2> HIDE DEF s
  <2> QED
    BY <1>1 DEF IInv, Stacks
<1>5. /\ g.job = f.job /\ g.todo = Tail(f.todo)
      /\ g.imported = Append(f.imported, Op(t).node)
  OBVIOUS
<1>6. /\ f.todo \in Seq(Ops) /\ f.job \in Job /\ f.imported \in Seq(Node \cup {Null})
      /\ Op(t) = f.todo[1]
  BY <1>0, TopOp
<1>7. <<>> \o Tail(f.todo) = Tail(f.todo) /\ <<>> \in Seq(Ops)
  <2>1. Tail(f.todo) \in Seq(Ops)
    BY <1>0, <1>6
  <2> QED
    BY <2>1, ConcatEmptySeq, EmptySeq
<1>8. stack'[t][n] = g
  BY <1>3, <1>4
<1> HIDE DEF f, g, s
<1> QED
  BY <1>0, <1>5, <1>6, <1>7, <1>8 DEF Goes, f

\* A job that goes on is one of stage preSemantic or before while main awaits a preSemantic.
LEMMA NotInside ==
  ASSUME IInv, Linked, stack[Main] # <<>>, Top(Main).todo # <<>>, Op(Main).do # "await",
         NEW m \in Node, AtAwait(stack[Main], m)
  PROVE  Top(Main).job[2] <= PreSemantic
<1> DEFINE s == stack[Main]
           l == Len(s)
<1>0. Main \in Thread
  BY ProgramAssumption
<1>1. /\ Top(Main) = s[l] /\ l \in Nat \ {0} /\ Descending(program, s)
      /\ Op(Main) = Top(Main).todo[1] /\ Top(Main).job \in Job
  BY <1>0, TopType, TopOp DEF IInv, Stacks
<1>2. PICK i \in 1 .. l : s[i].todo # <<>> /\ s[i].todo[1] = Await(m, PreSemantic)
  BY DEF AtAwait
<1>3. i # l
  BY <1>1, <1>2, Fields
<1>4. s[i + 1].job = <<m, PreSemantic>> /\ i + 1 \in 1 .. l
  BY <1>0, <1>1, <1>2, <1>3, Fields DEF Linked
<1>5. CASE i + 1 = l
  BY <1>1, <1>4, <1>5 DEF PreSemantic
<1>6. CASE i + 1 # l
  <2>1. \A k \in 1 .. l : k < l => Before(program, s[l].job, s[k].job)
    BY <1>1 DEF Descending
  <2>2. Before(program, s[l].job, s[i + 1].job)
    BY <1>1, <1>4, <1>6, <2>1
  <2> QED
    BY <1>1, <1>4, <2>2 DEF Before, Job, Stage, PreSemantic
<1> QED
  BY <1>5, <1>6

\* what has been registered and made is still there
LEMMA LaterSame ==
  ASSUME IInv, made' = made, registered' = registered
  PROVE  Later(made, made', registered, registered')
<1>1. \A x \in Script : made[x] \in Nat
  BY ProgramAssumption DEF IInv, Nodes
<1> QED
  BY <1>1 DEF Later

\* The steps after which there is nothing new to do.
LEMMA PlainAdvances ==
  ASSUME IInv, NEW t \in Thread, stack[t] # <<>>, Top(t).todo # <<>>, Continue(t, <<>>),
         Op(t).do \in {"await", "parse", "check", "deref", "resolved"},
         UNCHANGED <<made, registered, ran, locked>>, Blames(Top(t), errors, errors'),
         Op(t).do = "await" => Op(t).job \in ran,
         Op(t).do = "parse" => (Self(t)[1] \in Refused(program) => Self(t) \in errors'),
         Op(t).do = "check" => Self(t) \notin errors,
         errors' # errors => Op(t).do = "parse" /\ Self(t)[1] \in Refused(program)
  PROVE  Advances(t, <<>>)
<1>1. /\ Op(t) = Top(t).todo[1] /\ Self(t) = Top(t).job[1]
  BY TopOp
<1>2. GoesOn(t, <<>> \o Tail(Top(t).todo))
  BY ContinueGoesOn
<1>3. Goes(Top(t), stack'[t][Len(stack[t])], <<>>)
  BY ContinueGoes, EmptySeq
<1>4. NewOps(program, made', Top(t), <<>>)
  BY InShort DEF NewOps
<1>5. OpDone(program, t, ran, errors, errors', registered', Top(t), <<>>)
  BY <1>1 DEF OpDone
<1>6. Stems(program, t, parent, errors, errors', Top(t), <<>>)
  BY <1>1, InShort DEF Stems
<1> QED
  BY <1>2, <1>3, <1>4, <1>5, <1>6, LaterSame DEF Advances

\* Those that await, parse and count errors, and the end of a provider's call.
LEMMA StraightAdvances ==
  ASSUME IInv, FramesKnow, NEW t \in Thread, program' = program,
         AwaitRan(t) \/ ParseFile(t) \/ ExitIfErrors(t) \/ Dereference(t) \/ LeaveResolving(t)
  PROVE  ResultShape(t)
<1>1. stack[t] # <<>> /\ Top(t).todo # <<>> /\ UNCHANGED <<made, registered, ran, locked>>
  BY DEF AwaitRan, ParseFile, ExitIfErrors, Dereference, LeaveResolving, Throw, At
<1>2. Self(t) = Top(t).job[1] /\ Op(t) = Top(t).todo[1]
  BY <1>1, TopOp
<1>3. CASE Continue(t, <<>>)
  <2>1. /\ Op(t).do \in {"await", "parse", "check", "deref", "resolved"}
        /\ Op(t).do = "await" => Op(t).job \in ran
        /\ Op(t).do = "parse" => (Self(t)[1] \in Refused(program) => Self(t) \in errors')
        /\ errors \subseteq errors' /\ errors' \subseteq errors \cup {Self(t)}
        /\ errors' # errors => Op(t).do = "parse" /\ Self(t)[1] \in Refused(program)
    BY DEF AwaitRan, ParseFile, ExitIfErrors, Dereference, LeaveResolving, Throw, At
  <2>2. CASE Op(t).do = "check" /\ Self(t) \in errors
    <3>1. UNCHANGED <<stack, ran, locked, errors, made, registered>>
      BY <2>2 DEF AwaitRan, ParseFile, ExitIfErrors, Dereference, LeaveResolving, Throw, At
    <3> QED
      BY <3>1 DEF ResultShape
  <2>3. CASE ~(Op(t).do = "check" /\ Self(t) \in errors)
    <3>1. Blames(Top(t), errors, errors')
      BY <1>2, <2>1 DEF Blames
    <3>2. Advances(t, <<>>)
      BY <1>1, <1>3, <2>1, <2>3, <3>1, PlainAdvances
    <3> QED
      BY <3>2 DEF ResultShape
  <2> QED
    BY <2>2, <2>3
<1>4. CASE ~Continue(t, <<>>)
  <2>1. UNCHANGED <<stack, ran, locked, errors, made, registered>>
    BY <1>4 DEF AwaitRan, ParseFile, ExitIfErrors, Dereference, LeaveResolving, Throw, At
  <2> QED
    BY <2>1 DEF ResultShape
<1> QED
  BY <1>3, <1>4

\* Ops of which none is an import, a push_back or the error count are in order.
LEMMA OrderedPlain ==
  ASSUME NEW s, \A a : In(a, s) => a.do \notin {"import", "add"} PROVE Ordered(s)
  BY DEF Ordered, MayPrecede, In

\* The await of a parent.
LEMMA AwaitSuperAdvances ==
  ASSUME IInv, ParentsThere, NEW t \in Thread, AwaitSuper(t)
  PROVE  ResultShape(t)
<1> DEFINE m == parent[Self(t)]
           ops == IF m = Null THEN <<>> ELSE <<Await(m, Semantic)>>
<1>1. /\ stack[t] # <<>> /\ Top(t).todo # <<>> /\ Continue(t, ops) /\ Op(t).do = "super"
      /\ UNCHANGED <<made, registered, ran, locked, errors>>
  BY DEF AwaitSuper, At
<1>2. Op(t) = Top(t).todo[1] /\ Self(t) \in Node
  BY <1>1, TopOp
<1>3. \A a : In(a, ops) => m # Null /\ a = Await(m, Semantic)
  <2>1. CASE m = Null
    BY <2>1, InShort
  <2>2. CASE m # Null
    BY <2>2, InShort
  <2> QED
    BY <2>1, <2>2
<1>4. m # Null => OKJob(program, <<m, Semantic>>)
  BY <1>2 DEF ParentsThere, OKJob, Semantic, Compile, Write
<1>5. ops \in Seq(May(program, Top(t).job))
  BY SuperOps
<1> HIDE DEF m, ops
<1>6. GoesOn(t, ops \o Tail(Top(t).todo)) /\ Goes(Top(t), stack'[t][Len(stack[t])], ops)
  BY <1>1, <1>5, ContinueGoesOn, ContinueGoes
<1>7. NewOps(program, made', Top(t), ops)
  <2>1. \A a : In(a, ops) => a.do = "await" /\ OKOp(program, made', Top(t).job, a)
    BY <1>3, <1>4, Fields DEF OKOp
  <2> QED
    BY <2>1, OrderedPlain DEF NewOps
<1>8. OpDone(program, t, ran, errors, errors', registered', Top(t), ops)
  BY <1>1, <1>2 DEF OpDone
<1>9. Blames(Top(t), errors, errors')
  BY <1>1 DEF Blames
<1>10. Stems(program, t, parent, errors, errors', Top(t), ops)
  <2>1. /\ Await(m, Semantic).do = "await" /\ m = parent[Top(t).job[1]]
        /\ Top(t).todo[1].do = "super"
    BY <1>1, <1>2, Fields DEF m, Self
  <2> QED
    BY <1>1, <1>3, <2>1 DEF Stems
<1>11. Advances(t, ops)
  BY <1>1, <1>6, <1>7, <1>8, <1>9, <1>10, LaterSame DEF Advances
<1> QED
  BY <1>11 DEF ResultShape

\* What resolveType awaits, and the lookup that follows.
LEMMA ResolveAdvances ==
  ASSUME IInv, FramesKnow, NEW t \in Thread, ResolveType(t)
  PROVE  ResultShape(t)
<1> DEFINE x == Op(t).script
           st == Op(t).stage
           one(m) == IF m = Null THEN Just("deref") ELSE Await(m, st)
           q == Top(t).imported
           awaits == Each(one, q)
           last == <<Lookup(x, st)>>
           ops == IF x = Self(t)[1] THEN <<>> ELSE awaits \o last
           S == May(program, Top(t).job)
<1>1. /\ stack[t] # <<>> /\ Top(t).todo # <<>> /\ Op(t).do = "resolve"
      /\ UNCHANGED <<made, registered, ran, locked, errors>>
  BY DEF ResolveType, At
<1>2. Continue(t, ops)
  BY DEF ResolveType
<1>3. /\ Op(t) = Top(t).todo[1] /\ Op(t) \in Ops /\ q \in Seq(Node \cup {Null})
      /\ Top(t).job \in Job
      /\ Self(t) = Top(t).job[1]
  BY <1>1, TopOp
<1>4. x \in Script /\ st \in {PreSemantic, Semantic} /\ st < Top(t).job[2]
  BY <1>1, <1>3, OpIs, OpType DEF Allowed
<1>5. ASSUME NEW m \in Node \cup {Null} PROVE one(m) \in S
  <2>1. CASE m = Null
    BY <1>3, <2>1, OthersAllowed
  <2>2. CASE m # Null
    <3>1. Before(program, <<m, st>>, Top(t).job)
      BY <1>4 DEF Before
    <3> QED
      BY <1>3, <1>4, <2>2, <3>1, AwaitAllowed, StagesType
  <2> QED
    BY <2>1, <2>2
<1> HIDE DEF S
<1>6. awaits \in Seq(S) /\ Len(awaits) = Len(q) /\ \A k \in 1 .. Len(q) : awaits[k] = one(q[k])
  <2> HIDE DEF one
  <2> QED
    BY <1>3, <1>5 DEF Each
<1>7. last \in Seq(S)
  BY <1>3, <1>4, ResolveAllowed, ShortSeq DEF S
<1>8. \A a : In(a, awaits) <=> \E m \in ToSet(q) : a = one(m)
  <2> HIDE DEF awaits, one
  <2> QED
    BY <1>3, <1>6 DEF In, ToSet
<1>9. \A m \in ToSet(q) : /\ m \in Node \cup {Null} /\ OKImport(program, made, Top(t).job, m)
  <2>1. Sound(program, made, Top(t))
    BY <1>1, TopKnows
  <2> QED
    BY <1>3, <2>1 DEF Sound, ToSet
<1>10. \A m \in ToSet(q) : m # Null => OKJob(program, <<m, st>>)
  BY <1>4, <1>9 DEF OKImport, OKJob, PreSemantic, Semantic, Compile, Write
<1> DEFINE look == Lookup(x, st)
           Fine(a) == \/ a = look
                      \/ a = Just("deref")
                      \/ \E m \in ToSet(q) : m # Null /\ a = Await(m, st)
<1>11. /\ ops \in Seq(S)
       /\ \A a : In(a, ops) => Fine(a)
       /\ x # Self(t)[1] => In(look, ops)
                            /\ \A m \in ToSet(q) : m # Null => In(Await(m, st), ops)
       /\ x = Self(t)[1] => \A a : ~In(a, ops)
  <2>1. CASE x = Self(t)[1]
    BY <2>1, InShort, EmptySeq
  <2>2. CASE x # Self(t)[1]
    <3>1. ops = awaits \o last
      BY <2>2
    <3>2. /\ awaits \o last \in Seq(S)
          /\ \A a : In(a, awaits \o last) <=> In(a, awaits) \/ In(a, last)
      <4> HIDE DEF awaits, last
      <4> QED
        BY <1>6, <1>7, InConcat
    <3>3. \A a : In(a, last) <=> a = look
      BY InShort
    <3> HIDE DEF awaits, last, ops, look
    <3>4. \A a : In(a, ops) <=> a = look \/ \E m \in ToSet(q) : a = one(m)
      BY <1>8, <3>1, <3>2, <3>3
    <3> QED
      BY <2>2, <3>1, <3>2, <3>4
  <2> QED
    BY <2>1, <2>2
<1>12. \A a : Fine(a) => /\ a.do \in {"await", "lookup", "deref"}
                         /\ OKOp(program, made', Top(t).job, a)
                         /\ a.do = "lookup" => a.script = x /\ a.stage = st
                         /\ a.do = "await" => \E m \in ToSet(q) : m # Null /\ a = Await(m, st)
  <2>1. /\ look.do = "lookup" /\ look.script = x /\ look.stage = st /\ Just("deref").do = "deref"
        /\ \A m : Await(m, st).do = "await" /\ Await(m, st).job = <<m, st>>
    BY Fields
  <2> HIDE DEF look
  <2> QED
    BY <1>10, <2>1 DEF OKOp
<1> HIDE DEF ops, Fine, look
<1>13. GoesOn(t, ops \o Tail(Top(t).todo)) /\ Goes(Top(t), stack'[t][Len(stack[t])], ops)
  BY <1>1, <1>2, <1>11, ContinueGoesOn, ContinueGoes DEF S
<1>14. NewOps(program, made', Top(t), ops)
  <2>1. Ordered(ops)
    BY <1>11, <1>12, OrderedPlain
  <2> QED
    BY <1>1, <1>3, <1>11, <1>12, <2>1 DEF NewOps
<1>15. OpDone(program, t, ran, errors, errors', registered', Top(t), ops)
  <2>1. \/ x = Top(t).job[1][1]
        \/ In(Lookup(x, st), ops) /\ \A m \in ToSet(q) : m # Null => In(Await(m, st), ops)
    BY <1>3, <1>11 DEF look
  <2> QED
    BY <1>1, <1>3, <2>1 DEF OpDone
<1>16. Blames(Top(t), errors, errors')
  BY <1>1 DEF Blames
<1>17. Stems(program, t, parent, errors, errors', Top(t), ops)
  BY <1>1, <1>3, <1>11, <1>12 DEF Stems
<1>18. Advances(t, ops)
  BY <1>1, <1>13, <1>14, <1>15, <1>16, <1>17, LaterSame DEF Advances
<1> QED
  BY <1>18 DEF ResultShape

\* A lookup or an import that finds or makes node n, after pre.
LEMMA UseAdvances ==
  ASSUME IInv, FramesKnow, NEW t \in Thread, Wanted(t), t = Main,
         NEW n \in Node, n[1] = Op(t).script, Reaches(program, Top(t).job, n[1]), KindIn(program, n) # "none",
         n[2] <= made'[n[1]], n[1] \notin program.qualified => registered'[n[1]] = n,
         Later(made, made', registered, registered'), UNCHANGED <<ran, locked, errors>>,
         NEW pre, \/ pre = <<>>
                  \/ pre = <<Await(n, PreSemantic), Resolved(n[1])>> /\ ~FoundFirst(program, n[1]),
         n[1] \in program.qualified => n \notin ToSet(Top(t).imported),
         Continue(t, pre \o Use(t, n)),
         pre # <<>> \/ FoundFirst(program, n[1]) \/ HasType(program, n[1]) \/ Op(t).do = "lookup"
  PROVE  ResultShape(t)
<1> DEFINE x == n[1]
           st == Op(t).stage
           use == Use(t, n)
           ops == pre \o use
           S == May(program, Top(t).job)
           last == IF Op(t).do = "import" THEN Add(n) ELSE Await(n, st)
<1>1. stack[t] # <<>> /\ Top(t).todo # <<>> /\ Op(t).do \in {"lookup", "import"}
  BY DEF Wanted, At
<1>2. /\ Op(t) = Top(t).todo[1] /\ Op(t) \in Ops /\ In(Op(t), Top(t).todo) /\ x \in Script
      /\ Op(t).do = "lookup" => st \in {PreSemantic, Semantic}
  BY <1>1, TopOp, OpIs
<1>3. use = <<last>> /\ use \in Seq(S)
  BY <1>1, UseType DEF Use
<1>4. pre \in Seq(S)
  BY <1>1, UseType, EmptySeq
<1>5. S \subseteq Ops
  BY DEF May
<1> HIDE DEF S, use
<1>6. use \in Seq(Ops) /\ pre \in Seq(Ops) /\ pre \o use \in Seq(S)
  BY <1>3, <1>4, <1>5, SeqMonotonic, ConcatProperties
<1>7. GoesOn(t, ops \o Tail(Top(t).todo)) /\ Goes(Top(t), stack'[t][Len(stack[t])], ops)
  <2>1. Continue(t, ops) /\ Op(t).do # "add"
    BY <1>1 DEF use
  <2> HIDE DEF ops
  <2> QED
    BY <1>1, <1>6, <2>1, ContinueGoesOn, ContinueGoes DEF S, ops
<1>8. /\ \A a : In(a, use) <=> a = last
      /\ \A a : In(a, pre) => a = Await(n, PreSemantic) \/ a = Resolved(x)
      /\ pre # <<>> => In(Await(n, PreSemantic), pre)
      /\ (\E a : In(a, pre)) => ~FoundFirst(program, x)
  <2>1. \A a : In(a, use) <=> a = last
    BY <1>3, InShort
  <2> HIDE DEF last
  <2>2. CASE pre = <<>>
    BY <2>1, <2>2, InShort
  <2>3. CASE pre = <<Await(n, PreSemantic), Resolved(x)>>
    BY <2>1, <2>3, InShort
  <2> QED
    BY <2>2, <2>3
<1>9. /\ last.do = "add" \/ last.do = "await"
      /\ last.do = "add" => last = Add(n) /\ last.node = n /\ Op(t).do = "import"
      /\ last.do = "await" => last.job = <<n, st>> /\ Op(t).do = "lookup"
  BY <1>1, Fields
<1> HIDE DEF last
<1>10. /\ Await(n, PreSemantic).do = "await" /\ Await(n, PreSemantic).job = <<n, PreSemantic>>
       /\ Resolved(x).do = "resolved"
  BY Fields
<1>11. Joined(pre, use, ops)
  <2>1. Ordered(pre)
    BY <1>8, <1>10, OrderedPlain
  <2>2. Ordered(use)
    BY <1>3, InShort
  <2>3. Apart(pre, use)
    BY <1>8, <1>9, <1>10 DEF Apart, MayPrecede
  <2>4. ops = pre \o use
    OBVIOUS
  <2> HIDE DEF ops
  <2> QED
    BY <1>6, <2>1, <2>2, <2>3, <2>4, Parts
<1> HIDE DEF ops
<1>12. /\ Ordered(ops)
       /\ \A a : In(a, ops) <=> In(a, pre) \/ In(a, use)
  BY <1>11 DEF Joined
<1>13. Op(t).do = "import" => Resolves(program, Top(t).job) /\ x \in Imported(program, Top(t).job)
  <2>1. Sound(program, made, Top(t))
    BY <1>1, TopKnows
  <2> QED
    BY <1>2, <2>1 DEF Sound, OKOp
<1>14. NewOps(program, made', Top(t), ops)
  <2>1. ASSUME NEW a, a = Await(n, PreSemantic) \/ a = Resolved(x) \/ a = last
        PROVE  /\ a.do \in {"await", "resolved", "add"} /\ OKOp(program, made', Top(t).job, a)
               /\ a.do = "add" => Op(t).do = "import"
    <3>1. CASE a = Await(n, PreSemantic)
      BY <1>10, <3>1 DEF OKOp, OKJob, PreSemantic, Compile, Write
    <3>2. CASE a = Resolved(x)
      BY <1>10, <3>2 DEF OKOp
    <3>3. CASE a = last /\ last.do = "add"
      BY <1>9, <1>13, <3>3 DEF OKOp, OKImport
    <3>4. CASE a = last /\ last.do = "await"
      BY <1>2, <1>9, <3>4 DEF OKOp, OKJob, PreSemantic, Semantic, Compile, Write
    <3> QED
      BY <1>9, <2>1, <3>1, <3>2, <3>3, <3>4
  <2> QED
    BY <1>2, <1>8, <1>12, <2>1 DEF NewOps
<1>15. OpDone(program, t, ran, errors, errors', registered', Top(t), ops)
  <2>1. In(last, ops) /\ (pre # <<>> => In(Await(n, PreSemantic), ops)) /\ Gets(program, t, Top(t).job, x, n)
    BY <1>8, <1>12 DEF Gets
  <2>2. Op(t).do = "lookup" => last = Await(n, st)
    BY <1>9 DEF last
  <2>3. Op(t).do = "import" => last = Add(n)
    BY <1>9 DEF last
  <2>4. Op(t).do = "import" => /\ x \notin program.qualified => registered'[x] = n
                               /\ \/ In(Await(n, PreSemantic), ops)
                                  \/ FoundFirst(program, x) \/ HasType(program, x)
    BY <2>1
  <2> QED
    BY <1>1, <1>2, <2>1, <2>2, <2>3, <2>4 DEF OpDone
<1>16. Blames(Top(t), errors, errors')
  BY DEF Blames
<1>17. Stems(program, t, parent, errors, errors', Top(t), ops)
  <2>1. ASSUME NEW a, In(a, ops)
        PROVE  \/ a = last
               \/ a = Await(n, PreSemantic) /\ ~FoundFirst(program, x)
               \/ a = Resolved(x)
    BY <1>8, <1>12, <2>1
  <2>2. last.do = "await" => last = Await(n, st) /\ Op(t).do = "lookup"
    BY <1>9 DEF last
  <2>3. ASSUME NEW a, In(a, ops), a.do = "await"
        PROVE  \/ Op(t).do = "lookup" /\ (a = Await(n, st) \/ a = Await(n, PreSemantic))
               \/ /\ Op(t).do = "import" /\ ~FoundFirst(program, x) /\ a = Await(n, PreSemantic)
    BY <1>1, <1>10, <2>1, <2>2, <2>3
  <2>4. ASSUME NEW a, In(a, ops), a.do = "add"
        PROVE  a.node = n /\ n # Null /\ n[1] = x
    BY <1>9, <1>10, <2>1, <2>4, ProgramAssumption
  <2>5. \A a : In(a, ops) => a.do # "lookup"
    BY <1>9, <1>10, <2>1
  <2> QED
    BY <1>2, <2>3, <2>4, <2>5 DEF Stems
<1>18. Advances(t, ops)
  BY <1>7, <1>14, <1>15, <1>16, <1>17 DEF Advances
<1> QED
  BY <1>18 DEF ResultShape

\* What is registered.
LEMMA RegisteredIs ==
  ASSUME IInv, Registered, NEW x \in Script, registered[x] # Null, x \notin program.qualified
  PROVE  /\ registered[x] \in Node /\ registered[x][1] = x /\ registered[x][2] <= made[x]
         /\ KindIn(program, registered[x]) # "none" /\ Findable(program, x)
         /\ \/ FoundFirst(program, x)
            \/ Ran(registered[x], PreSemantic) \/ AtAwait(stack[Main], registered[x])
  BY DEF IInv, Nodes, Registered, KindIn, Findable, FoundFirst

\* Main is not inside of a preSemantic that it awaits when it imports.
LEMMA ImportOutside ==
  ASSUME IInv, FramesKnow, Linked, NEW t \in Thread, t = Main, At(t, "import"),
         NEW m \in Node, AtAwait(stack[Main], m)
  PROVE  FALSE
<1>1. stack[t] # <<>> /\ Top(t).todo # <<>> /\ Op(t).do = "import"
  BY DEF At
<1>2. Resolves(program, Top(t).job)
  BY <1>1, TopOp, TopKnows DEF Sound, OKOp
<1>3. Top(t).job[2] <= PreSemantic
  BY <1>1, NotInside
<1> QED
  BY <1>2, <1>3 DEF Resolves, PreSemantic, Semantic, Compile

\* What is found under a name.
LEMMA FoundAdvances ==
  ASSUME IInv, FramesKnow, Registered, Linked, Results, NEW t \in Thread, Found(t)
  PROVE  ResultShape(t)
<1> DEFINE n == TryFind(t, Op(t).script)
<1>1. /\ stack[t] # <<>> /\ Top(t).todo # <<>> /\ Wanted(t) /\ Op(t).do \in {"lookup", "import"}
      /\ n # Null
  BY DEF Found, Wanted, At
<1>2. Op(t).script \in Script
  BY <1>1, TopOp, OpIs
<1>3. /\ t = Main /\ Op(t).script \notin program.qualified /\ n = registered[Op(t).script]
      /\ ~AsksApart(program, Top(t).job)
  BY <1>1 DEF TryFind
<1>4. Continue(t, Use(t, n)) /\ UNCHANGED <<ran, locked, errors, made, registered>>
  BY DEF Found
<1> HIDE DEF n
<1>5. /\ n \in Node /\ n[1] = Op(t).script /\ n[2] <= made[n[1]]
      /\ KindIn(program, n) # "none" /\ Findable(program, n[1])
      /\ FoundFirst(program, n[1]) \/ Ran(n, PreSemantic) \/ AtAwait(stack[Main], n)
  BY <1>1, <1>2, <1>3, RegisteredIs
<1>6. FoundFirst(program, n[1]) \/ HasType(program, n[1]) \/ Op(t).do = "lookup"
  <2>1. CASE Ran(n, PreSemantic)
    BY <1>5, <2>1 DEF Results, Meant, Ran
  <2>2. CASE AtAwait(stack[Main], n) /\ Op(t).do = "import"
    <3>1. At(t, "import")
      BY <1>1, <2>2 DEF Wanted, At
    <3> QED
      BY <1>3, <1>5, <2>2, <3>1, ImportOutside
  <2> QED
    BY <1>1, <1>5, <2>1, <2>2
<1>7. Use(t, n) \in Seq(May(program, Top(t).job))
  BY <1>1, <1>5, UseType
<1>8. Continue(t, <<>> \o Use(t, n))
  BY <1>4, <1>7, ConcatEmptySeq
<1>9. Reaches(program, Top(t).job, n[1])
  BY <1>3, <1>5 DEF Reaches
<1> QED
  BY <1>1, <1>3, <1>4, <1>5, <1>6, <1>8, <1>9, LaterSame, UseAdvances

\* What the provider gives.
LEMMA ProvideAdvances ==
  ASSUME IInv, FramesKnow, Registered, NEW t \in Thread, Provide(t)
  PROVE  ResultShape(t)
<1> DEFINE x == Op(t).script
           n == <<x, made[x] + 1>>
<1>1. /\ stack[t] # <<>> /\ Top(t).todo # <<>> /\ Wanted(t) /\ Op(t).do \in {"lookup", "import"}
  BY DEF Provide, Wanted, At
<1>2. x \in Script
  BY <1>1, TopOp, OpIs
<1>3. made[x] + 1 \in 1 .. MaxMade /\ made \in [Script -> 0 .. MaxMade] /\ MaxMade \in Nat
  BY <1>2, ProgramAssumption DEF Provide, IInv, Nodes
<1>4. n \in Node /\ n[1] = x /\ n[2] = made[x] + 1 /\ n[2] # 0
  BY <1>2, <1>3 DEF Node
<1>5. t = Main /\ x \in program.provides /\ ~AsksApart(program, Top(t).job)
  BY DEF Provide, MayProvide, HasProvider
<1>6. /\ made' = [made EXCEPT ![x] = @ + 1]
      /\ registered' = [registered EXCEPT ![x] = IF @ = Null THEN n ELSE @]
      /\ Continue(t, <<Await(n, PreSemantic), Resolved(x)>> \o Use(t, n))
      /\ UNCHANGED <<ran, locked, errors>> /\ TryFind(t, x) = Null
  BY DEF Provide
<1> HIDE DEF n
<1>7. x \notin program.qualified => registered'[x] = n
  BY <1>2, <1>5, <1>6 DEF TryFind, IInv, Nodes
<1>8. Later(made, made', registered, registered') /\ n[2] <= made'[x]
  BY <1>2, <1>3, <1>4, <1>6 DEF Later, IInv, Nodes
<1>9. KindIn(program, n) # "none" /\ Reaches(program, Top(t).job, x)
  BY <1>4, <1>5 DEF KindIn, Findable, Reaches
<1> DEFINE pre == <<Await(n, PreSemantic), Resolved(n[1])>>
<1>10. pre = <<Await(n, PreSemantic), Resolved(x)>> /\ pre # <<>>
  BY <1>4
<1> HIDE DEF pre
<1>11. ~FoundFirst(program, n[1])
  BY <1>2, <1>4, <1>5, <1>6 DEF Registered, TryFind, FoundFirst
<1>12. n \notin ToSet(Top(t).imported)
  <2>1. Sound(program, made, Top(t))
    BY <1>1, TopKnows
  <2>2. n # Null /\ ~(n[2] <= made[n[1]])
    BY <1>2, <1>3, <1>4, ProgramAssumption
  <2> QED
    BY <2>1, <2>2 DEF Sound, OKImport
<1> QED
  BY <1>1, <1>4, <1>5, <1>6, <1>7, <1>8, <1>9, <1>10, <1>11, <1>12, UseAdvances DEF pre

\* An import that main cannot find is not there to be found.
LEMMA ImportMissingAdvances ==
  ASSUME IInv, FramesKnow, Registered, Resolving, Linked, NEW t \in Thread, ImportMissing(t)
  PROVE  ResultShape(t)
<1> DEFINE x == Op(t).script
           ops == <<Add(Null)>>
<1>1. /\ stack[t] # <<>> /\ Top(t).todo # <<>> /\ Op(t).do = "import" /\ At(t, "import")
      /\ Continue(t, ops) /\ UNCHANGED <<ran, locked, made, registered>>
      /\ errors' = errors \cup {Self(t)}
      /\ TryFind(t, x) = Null /\ ~MayProvide(t, x)
  BY DEF ImportMissing, Missing, At
<1>2. /\ Op(t) = Top(t).todo[1] /\ Op(t) \in Ops /\ In(Op(t), Top(t).todo) /\ x \in Script
      /\ Self(t) = Top(t).job[1] /\ Top(t).job \in Job
  BY <1>1, TopOp, OpIs
<1>3. t # Main \/ ~Reaches(program, Top(t).job, x)
  <2> SUFFICES ASSUME t = Main, Reaches(program, Top(t).job, x) PROVE FALSE
    OBVIOUS
  <2>0. Findable(program, x) /\ ~AsksApart(program, Top(t).job)
    BY DEF Reaches
  <2>1. ~FoundFirst(program, x)
    <3>1. FoundFirst(program, x) => registered[x] # Null
      BY <1>2 DEF Registered
    <3> QED
      BY <1>1, <2>0, <3>1 DEF TryFind, FoundFirst
  <2>2. x \in program.provides /\ program.library
    BY <2>0, <2>1, ProvidedByMain DEF IInv
  <2>3. x \in resolving
    BY <1>1, <2>0, <2>2 DEF MayProvide, HasProvider
  <2>4. PICK i \in 1 .. Len(stack[Main]) :
          LET u == stack[Main][i].todo
          IN /\ u # <<>>
             /\ \/ u[1] = Resolved(x)
                \/ \E m \in Node : u[1] = Await(m, PreSemantic)
    BY <2>3 DEF Resolving, AtProvider
  <2>5. CASE stack[Main][i].todo[1] = Resolved(x)
    <3>1. stack[Main][i].todo[1].do = "resolved"
      BY <2>5, Fields
    <3>2. Top(t) = stack[Main][Len(stack[Main])] /\ Len(stack[Main]) \in Nat
      BY <1>1, TopType
    <3>3. i # Len(stack[Main])
      BY <1>1, <1>2, <3>1, <3>2
    <3> QED
      BY <2>4, <3>1, <3>2, <3>3 DEF Linked
  <2>6. ASSUME NEW m \in Node, stack[Main][i].todo[1] = Await(m, PreSemantic) PROVE FALSE
    <3>1. AtAwait(stack[Main], m)
      BY <2>4, <2>6 DEF AtAwait
    <3> QED
      BY <1>1, <3>1, ImportOutside
  <2> QED
    BY <2>4, <2>5, <2>6
<1>4. ops \in Seq(May(program, Top(t).job))
  BY <1>2, OthersAllowed, ShortSeq
<1>5. \A a : In(a, ops) <=> a = Add(Null)
  BY InShort
<1>6. Ordered(ops)
  BY InShort
<1> HIDE DEF ops
<1>7. GoesOn(t, ops \o Tail(Top(t).todo)) /\ Goes(Top(t), stack'[t][Len(stack[t])], ops)
  BY <1>1, <1>4, ContinueGoesOn, ContinueGoes
<1>8. NewOps(program, made', Top(t), ops)
  <2>1. Resolves(program, Top(t).job)
    BY <1>1, <1>2, TopKnows DEF Sound, OKOp
  <2>2. Add(Null).do = "add" /\ Add(Null).node = Null
    BY Fields
  <2>3. OKOp(program, made', Top(t).job, Add(Null))
    BY <2>1, <2>2 DEF OKOp, OKImport
  <2> QED
    BY <1>1, <1>2, <1>5, <1>6, <2>2, <2>3 DEF NewOps
<1>9. OpDone(program, t, ran, errors, errors', registered', Top(t), ops)
  BY <1>1, <1>2, <1>3 DEF OpDone
<1>10. Blames(Top(t), errors, errors')
  BY <1>1, <1>2 DEF Blames
<1>11. Stems(program, t, parent, errors, errors', Top(t), ops)
  <2>1. Add(Null).do = "add"
    BY Fields
  <2> QED
    BY <1>1, <1>2, <1>3, <1>5, <2>1 DEF Stems
<1>12. Advances(t, ops)
  BY <1>1, <1>7, <1>8, <1>9, <1>10, <1>11, LaterSame DEF Advances
<1> QED
  BY <1>12 DEF ResultShape

\* An import joins those of the job.
LEMMA AddImportAdvances ==
  ASSUME IInv, NEW t \in Thread, AddImport(t)
  PROVE  ResultShape(t)
<1>1. /\ stack[t] # <<>> /\ Top(t).todo # <<>> /\ Op(t).do = "add"
      /\ UNCHANGED <<ran, locked, made, registered>>
      /\ errors' = IF Op(t).node \in ToSet(Top(t).imported) THEN errors \cup {Self(t)} ELSE errors
  BY DEF AddImport, At
<1>2. Op(t) = Top(t).todo[1] /\ Self(t) = Top(t).job[1] /\ Top(t).todo \in Seq(Ops)
  BY <1>1, TopOp
<1>3. GoesOn(t, <<>> \o Tail(Top(t).todo)) /\ Goes(Top(t), stack'[t][Len(stack[t])], <<>>)
  <2>1. Tail(Top(t).todo) \in Seq(Ops)
    BY <1>1, <1>2
  <2>2. <<>> \o Tail(Top(t).todo) = Tail(Top(t).todo)
    BY <2>1, ConcatEmptySeq
  <2> QED
    BY <2>2, AddGoesOn, AddGoes
<1>4. NewOps(program, made', Top(t), <<>>)
  BY InShort DEF NewOps
<1>5. OpDone(program, t, ran, errors, errors', registered', Top(t), <<>>)
  BY <1>1, <1>2 DEF OpDone
<1>6. Blames(Top(t), errors, errors')
  BY <1>1, <1>2 DEF Blames
<1>7. Stems(program, t, parent, errors, errors', Top(t), <<>>)
  BY <1>1, <1>2, InShort DEF Stems
<1>8. Advances(t, <<>>)
  BY <1>1, <1>3, <1>4, <1>5, <1>6, <1>7, LaterSame DEF Advances
<1> QED
  BY <1>8 DEF ResultShape

\* Every step of a thread is one of these.
LEMMA StepHasResult ==
  ASSUME IInv, RInv, NEW t \in Thread, Step(t)
  PROVE  ResultShape(t)
<1>0. FramesKnow /\ Linked /\ Resolving /\ Registered /\ ParentsThere /\ QueueThere /\ Results
      /\ program' = program
  BY DEF RInv, Step
<1>1. CASE TakeJob(t)
  <2>1. Head(queue) \in Job /\ stack[t] = <<>> /\ UNCHANGED <<ran, errors, made, registered>>
        /\ queue # <<>> /\ queue \in Seq(Job)
    BY <1>1 DEF TakeJob, IInv, Queued
  <2>2. CASE Head(queue) \in locked
    BY <1>1, <2>1, <2>2 DEF TakeJob, ResultShape
  <2>3. CASE Head(queue) \notin locked
    <3>1. /\ locked' = locked \cup {Head(queue)}
          /\ stack' = [stack EXCEPT ![t] = <<Frame(Head(queue))>>]
      BY <1>1, <2>3 DEF TakeJob
    <3>2. stack' = [stack EXCEPT ![t] = Append(<<>>, Frame(Head(queue)))]
      BY <3>1
    <3>3. Begins(t, Head(queue))
      BY <2>1, <2>3, <3>2, ClaimBegins
    <3>4. OKJob(program, Head(queue)) /\ Head(queue)[2] \in {Read, Write}
      <4>1. Head(queue) = queue[1] /\ 1 \in 1 .. Len(queue)
        BY <2>1
      <4> QED
        BY <1>0, <4>1 DEF QueueThere
    <3> QED
      BY <2>1, <3>1, <3>3, <3>4 DEF ResultShape
  <2> QED
    BY <2>2, <2>3
<1>2. CASE Finish(t)
  BY <1>2, FinishReturns DEF Finish, ResultShape
<1>3. CASE AwaitRun(t)
  <2>1. /\ Op(t).job \in Job \ locked /\ At(t, "await") /\ stack[t] # <<>> /\ Top(t).todo # <<>>
        /\ Op(t).do = "await" /\ locked' = locked \cup {Op(t).job}
        /\ UNCHANGED <<ran, errors, made, registered>>
    BY <1>3, AwaitsBefore DEF AwaitRun, At
  <2>2. Begins(t, Op(t).job)
    BY <1>3, <2>1, ClaimBegins DEF AwaitRun
  <2>3. OKJob(program, Op(t).job)
    BY <1>0, <2>1, TopOp, TopKnows DEF Sound, OKOp
  <2> QED
    BY <2>1, <2>2, <2>3 DEF ResultShape
<1>4. CASE AwaitSelf(t) \/ TypeMissing(t)
  BY <1>4 DEF AwaitSelf, TypeMissing, Throw, ResultShape
<1>5. CASE AwaitRan(t) \/ ParseFile(t) \/ ExitIfErrors(t) \/ Dereference(t) \/ LeaveResolving(t)
  BY <1>0, <1>5, StraightAdvances
<1>6. CASE AwaitSuper(t) \/ ResolveType(t) \/ AddImport(t)
  BY <1>0, <1>6, AwaitSuperAdvances, ResolveAdvances, AddImportAdvances
<1>7. CASE Found(t) \/ Provide(t) \/ ImportMissing(t)
  BY <1>0, <1>7, FoundAdvances, ProvideAdvances, ImportMissingAdvances
<1> QED
  BY <1>1, <1>2, <1>3, <1>4, <1>5, <1>6, <1>7 DEF Step

\* Once the semantic of a node has run, only its compile finds errors.
LEMMA BlameLate ==
  ASSUME AInv, FramesKnow, Results, NEW t \in Thread, NEW ops, Advances(t, ops),
         NEW n \in Node, n \in errors' \ errors, <<n, Semantic>> \in ran
  PROVE  Top(t).job = <<n, Compile>>
<1>1. /\ stack[t] # <<>> /\ Top(t).todo # <<>> /\ Top(t).job[1] = n
      /\ Top(t).todo[1].do \in {"parse", "import", "add"}
  BY DEF Advances, GoesOn, Blames
<1>2. /\ Top(t).job \in Job /\ Top(t).job = <<n, Top(t).job[2]>> /\ Top(t).job \notin ran
      /\ In(Top(t).todo[1], Top(t).todo)
  <2>1. Top(t) = stack[t][Len(stack[t])] /\ Len(stack[t]) \in 1 .. Len(stack[t])
    BY <1>1, TopType DEF AInv
  <2>2. Top(t).job \in Job /\ In(Top(t).todo[1], Top(t).todo)
    BY <1>1, TopOp DEF AInv
  <2>3. Top(t).job = <<Top(t).job[1], Top(t).job[2]>>
    BY <2>2 DEF Job
  <2> QED
    BY <1>1, <2>1, <2>2, <2>3 DEF AInv, Once
<1>3. Top(t).job[2] = Parse \/ Resolves(program, Top(t).job)
  <2>1. Sound(program, made, Top(t))
    BY <1>1, TopKnows DEF AInv
  <2> QED
    BY <1>1, <1>2, <2>1 DEF Sound, OKOp
<1>4. <<n, PreSemantic>> \in ran /\ <<n, Parse>> \in ran
  BY DEF AInv, InOrder, Ran, Results, Meant
<1> QED
  BY <1>2, <1>3, <1>4 DEF Resolves

\* Every step keeps what the frames know.
LEMMA StepFramesKnow ==
  ASSUME AInv, RInv, NEW t \in Thread, t \in program.threads, ResultShape(t), program' = program
  PROVE  FramesKnow'
<1>0. SUFFICES ASSUME NEW u \in Thread, NEW i \in 1 .. Len(stack'[u])
               PROVE  Knows(program, made', ran', errors', registered', u, stack'[u][i])
  BY DEF FramesKnow
<1>1. /\ \A v \in Thread : stack[v] \in Seq(Frames(program)) /\ Len(stack[v]) \in Nat
      /\ \A v \in Thread : \A k \in 1 .. Len(stack[v]) :
           /\ Knows(program, made, ran, errors, registered, v, stack[v][k])
           /\ stack[v][k].job \in Job /\ stack[v][k].todo \in Seq(Ops)
           /\ stack[v][k].imported \in Seq(Node \cup {Null})
      /\ program \in Program /\ Meant(program, ran, errors)
  <2>1. \A v \in Thread : stack[v] \in Seq(Frames(program)) /\ Len(stack[v]) \in Nat
    BY DEF AInv, IInv, Stacks
  <2>2. ASSUME NEW v \in Thread, NEW k \in 1 .. Len(stack[v])
        PROVE  /\ stack[v][k].job \in Job /\ stack[v][k].todo \in Seq(Ops)
               /\ stack[v][k].imported \in Seq(Node \cup {Null})
    <3>1. stack[v][k] \in Frames(program)
      BY <2>1
    <3> QED
      BY <3>1 DEF Frames
  <2> QED
    BY <2>1, <2>2 DEF RInv, FramesKnow, AInv, IInv, Results
<1>2. CASE UNCHANGED <<stack, ran, locked, errors, made, registered>>
  BY <1>1, <1>2
<1>3. ASSUME NEW j, Begins(t, j), OKJob(program, j), UNCHANGED <<ran, errors, made, registered>>
      PROVE  Knows(program, made', ran', errors', registered', u, stack'[u][i])
  <2>1. CASE i \in 1 .. Len(stack[u])
    BY <1>1, <1>3, <2>1 DEF Begins
  <2>2. CASE i \notin 1 .. Len(stack[u])
    <3>1. u = t /\ i = Len(stack[t]) + 1
      BY <1>1, <1>3, <2>2 DEF Begins
    <3>2. stack'[u][i] = Frame(j) /\ j \in Job
      BY <1>3, <3>1 DEF Begins
    <3> QED
      BY <1>1, <1>3, <3>2, Starts
  <2> QED
    BY <2>1, <2>2
<1>4. CASE Returns(t) /\ ran' = ran \cup {Top(t).job} /\ UNCHANGED <<errors, made, registered>>
  <2>1. i \in 1 .. Len(stack[u]) /\ stack'[u][i] = stack[u][i]
    BY <1>1, <1>4 DEF Returns
  <2>2. Later(made, made', registered, registered')
    BY <1>4, LaterSame DEF AInv
  <2>3. PICK f : f = stack[u][i]
    OBVIOUS
  <2>4. Knows(program, made', ran', errors', registered', u, f)
    BY <1>1, <1>4, <2>1, <2>2, <2>3, Remains
  <2> QED
    BY <2>1, <2>3, <2>4
<1>5. ASSUME NEW ops, Advances(t, ops)
      PROVE  Knows(program, made', ran', errors', registered', u, stack'[u][i])
  <2>1. /\ stack[t] # <<>> /\ Top(t).todo # <<>> /\ i \in 1 .. Len(stack[u])
        /\ Top(t) = stack[t][Len(stack[t])] /\ Len(stack[t]) \in 1 .. Len(stack[t])
    BY <1>5, TopType DEF Advances, GoesOn, AInv
  <2>2. /\ Blames(Top(t), errors, errors') /\ NewOps(program, made', Top(t), ops)
        /\ Goes(Top(t), stack'[t][Len(stack[t])], ops)
        /\ OpDone(program, t, ran, errors, errors', registered', Top(t), ops)
        /\ Later(made, made', registered, registered') /\ ran' = ran
    BY <1>5 DEF Advances
  <2>3. CASE u = t /\ i = Len(stack[t])
    <3>1. Knows(program, made, ran, errors, registered, t, Top(t))
      BY <1>1, <2>1
    <3>2. PICK f, g : f = Top(t) /\ g = stack'[t][Len(stack[t])]
      OBVIOUS
    <3>3. Knows(program, made', ran, errors', registered', t, g)
      BY <1>1, <2>2, <3>1, <3>2, Proceeds
    <3> QED
      BY <2>2, <2>3, <3>2, <3>3
  <2>4. CASE ~(u = t /\ i = Len(stack[t]))
    <3>1. stack'[u][i] = stack[u][i]
      BY <1>5, <2>1, <2>4 DEF Advances, GoesOn
    <3>2. stack[u][i].job # Top(t).job
      BY <2>1, <2>4 DEF AInv, Once
    <3>3. PICK f : f = stack[u][i]
      OBVIOUS
    <3>4. f.job \in Job /\ f.job[1] \in Node /\ f.job = <<f.job[1], f.job[2]>>
      BY <1>1, <2>1, <3>3 DEF Job
    <3>5. <<f.job[1], Semantic>> \in ran /\ f.job[1] \in errors' =>
            f.job[1] \in errors \/ f.job[2] # Compile
      BY <1>5, <3>2, <3>3, <3>4, BlameLate DEF RInv
    <3>6. errors \subseteq errors'
      BY <2>2 DEF Blames
    <3>7. Knows(program, made', ran, errors', registered', u, f)
      BY <1>1, <2>1, <2>2, <3>3, <3>5, <3>6, Remains
    <3> QED
      BY <2>2, <3>1, <3>3, <3>7
  <2> QED
    BY <2>3, <2>4
<1> QED
  BY <1>2, <1>3, <1>4, <1>5 DEF ResultShape

\* What it means that a job has run, when it returns.
LEMMA RanMeans ==
  ASSUME AInv, Results, ParentsThere, NEW t, NEW f, f.job \in Job, f.todo = <<>>,
         Knows(program, made, ran, errors, registered, t, f),
         FindsParent(program, parent, ran, f), AwaitsParent(parent, ran, f)
  PROVE  Meant(program, ran \cup {f.job}, errors)
<1> DEFINE n == f.job[1]
           s == n[1]
           st == f.job[2]
<1>1. /\ n \in Node /\ s \in Script /\ f.job = <<n, st>> /\ program \in Program
      /\ Meant(program, ran, errors) /\ Null \notin Node
  BY ProgramAssumption DEF Job, Node, AInv, IInv, Results
<1>2. /\ Own(ran, f) /\ Parsed(program, errors, f) /\ Checked(program, ran, errors, f)
      /\ Typed(program, t, f) /\ ImportsTyped(program, f) /\ ImportsSettled(program, t, f)
      /\ ImportsFound(program, errors, f) /\ Duplicates(program, errors, registered, f)
  BY DEF Knows
<1>3. /\ \A a : ~In(a, f.todo) /\ ~Twice(a, f.todo)
      /\ ~AtSuper(f) /\ ~NotBegun(f) /\ Lookups(f) = {} /\ \A j : ~Awaits(f, j)
      /\ \A x, y : ~Awaited(f, x, y)
  <2>1. \A a : ~In(a, f.todo) /\ ~Twice(a, f.todo)
    BY InShort, TwiceIn
  <2> QED
    BY <2>1 DEF AtSuper, NotBegun, Lookups, Awaits, Awaited
<1>4. st >= PreSemantic => <<n, st - 1>> \in ran
  BY <1>2 DEF Own
<1>5. st = Parse => (s \in Refused(program) => n \in errors)
  BY <1>2, <1>3 DEF Parsed
<1>6. \A m \in Node : parent[m] # Null =>
        parent[m] \in Node /\ parent[m][1] = program.extends[m[1]]
                                          /\ Findable(program, parent[m][1])
  BY DEF AInv, IInv, Parents, ParentsThere
<1>7. ASSUME st = PreSemantic PROVE <<n, Parse>> \in ran /\ HasType(program, s)
  <2>1. <<n, Parse>> \in ran /\ s \notin Refused(program)
    BY <1>2, <1>3, <1>4, <1>7 DEF Checked, PreSemantic, Parse
  <2>2. ASSUME program.extends[s] # Null
        PROVE  Findable(program, program.extends[s]) /\ HasType(program, program.extends[s])
    <3>1. parent[n] # Null /\ <<parent[n], PreSemantic>> \in ran
      BY <1>3, <1>7, <2>2 DEF FindsParent
    <3> QED
      BY <1>1, <1>6, <3>1 DEF Meant
  <2> QED
    BY <1>1, <2>1, <2>2, HasTypeIs
<1>8. ASSUME st = Semantic PROVE HasApi(program, s)
  <2>0. <<n, PreSemantic>> \in ran
    BY <1>4, <1>8 DEF PreSemantic, Semantic
  <2>1. <<n, PreSemantic>> \in ran /\ HasType(program, s)
    BY <1>1, <2>0 DEF Meant
  <2>2. ASSUME program.extends[s] # Null PROVE HasApi(program, program.extends[s])
    <3>1. parent[n] # Null
      BY <1>1, <2>1, <2>2 DEF AInv, AncestorsFirst, Ran
    <3>2. <<parent[n], Semantic>> \in ran
      BY <1>3, <1>8, <3>1 DEF AwaitsParent
    <3> QED
      BY <1>1, <1>6, <3>1, <3>2 DEF Meant
  <2>3. st - 1 = PreSemantic /\ st \in {Semantic, Compile}
    BY <1>8 DEF PreSemantic, Semantic
  <2>4. /\ Refs(program, f.job) = ToSet(program.signature[s]) \ {s}
        /\ Imported(program, f.job) = ToSet(program.imports[s])
    BY <1>8 DEF Refs, Named, Imported
  <2>5. \A y \in Refs(program, f.job) : t = Main /\ Reaches(program, f.job, y) /\ HasType(program, y)
    BY <1>2, <1>3, <2>3 DEF Typed, Settled
  <2>6. ASSUME NEW i \in Imported(program, f.job), Reaches(program, f.job, i),
               ~FoundFirst(program, i) \/ Refs(program, f.job) # {}
        PROVE  HasType(program, i)
    <3>1. CASE ~FoundFirst(program, i)
      BY <1>2, <1>3, <1>8, <2>6, <3>1 DEF ImportsTyped
    <3>2. CASE Refs(program, f.job) # {}
      BY <1>2, <1>3, <2>3, <2>5, <2>6, <3>2 DEF ImportsSettled, Settled
    <3> QED
      BY <2>6, <3>1, <3>2
  <2>7. OwnTypes(program, s)
    <3>1. \A y : Reaches(program, f.job, y) <=> FindableFrom(program, s, y)
      BY <2>3, ReachesIs
    <3> QED
      BY <2>4, <2>5, <2>6, <3>1 DEF OwnTypes
  <2> QED
    BY <1>1, <2>1, <2>2, <2>7, HasApiIs
<1>9. ASSUME st = Compile PROVE <<n, Semantic>> \in ran /\ n \notin errors /\ Correct(program, s)
  <2>1. <<n, Semantic>> \in ran /\ n \notin errors /\ HasApi(program, s)
    BY <1>1, <1>2, <1>3, <1>9 DEF Checked, Meant, PreSemantic, Semantic, Compile
  <2>2. st - 1 = Semantic /\ st \in {Semantic, Compile} /\ Semantic # PreSemantic /\ st # Semantic
    BY <1>9 DEF PreSemantic, Semantic, Compile
  <2>3. /\ Refs(program, f.job) = ToSet(program.body[s]) \ {s}
        /\ Imported(program, f.job) = ToSet(program.imports[s])
    BY <2>2 DEF Refs, Named, Imported
  <2>4. \A y \in Refs(program, f.job) : t = Main /\ Reaches(program, f.job, y) /\ HasApi(program, y)
    BY <1>2, <1>3, <2>2 DEF Typed, Settled
  <2>5. \A i \in Imported(program, f.job) : Reaches(program, f.job, i)
    BY <1>2, <1>3, <1>9, <2>1 DEF ImportsFound
  <2>6. ASSUME NEW i \in Imported(program, f.job), Refs(program, f.job) # {}
        PROVE  HasApi(program, i)
    BY <1>2, <1>3, <2>2, <2>4, <2>5, <2>6 DEF ImportsSettled, Settled
  <2>7. ImportsOnce(program, s)
    BY <1>2, <1>3, <1>9, <2>1 DEF Duplicates
  <2>8. \A y : Reaches(program, f.job, y) <=> FindableFrom(program, s, y)
    BY <2>2, ReachesIs
  <2> QED
    BY <2>1, <2>3, <2>4, <2>5, <2>6, <2>7, <2>8 DEF Correct
<1>10. st = Write => <<n, Compile>> \in ran
  BY <1>4 DEF Write, PreSemantic, Compile
<1> HIDE DEF n, s, st
<1>11. \A m \in Node : \A k : <<m, k>> \in ran \cup {f.job} => <<m, k>> \in ran \/ (m = n /\ k = st)
  BY <1>1
<1>12. ASSUME NEW m \in Node
       PROVE  /\ <<m, Parse>> \in ran /\ m[1] \in Refused(program) => m \in errors
              /\ <<m, PreSemantic>> \in ran => <<m, Parse>> \in ran /\ HasType(program, m[1])
              /\ <<m, Semantic>> \in ran    => HasApi(program, m[1])
              /\ <<m, Compile>> \in ran     => /\ <<m, Semantic>> \in ran /\ m \notin errors
                                              /\ Correct(program, m[1])
              /\ <<m, Write>> \in ran       => <<m, Compile>> \in ran
  BY <1>1 DEF Meant
<1>13. SUFFICES ASSUME NEW m \in Node
                PROVE  LET r == ran \cup {f.job}
                       IN /\ <<m, Parse>> \in r /\ m[1] \in Refused(program) => m \in errors
                          /\ <<m, PreSemantic>> \in r =>
                               <<m, Parse>> \in r /\ HasType(program, m[1])
                          /\ <<m, Semantic>> \in r => HasApi(program, m[1])
                          /\ <<m, Compile>> \in r =>
                               <<m, Semantic>> \in r /\ m \notin errors /\ Correct(program, m[1])
                          /\ <<m, Write>> \in r => <<m, Compile>> \in r
  BY DEF Meant
<1>14. <<m, Parse>> \in ran \cup {f.job} /\ m[1] \in Refused(program) => m \in errors
  BY <1>5, <1>11, <1>12 DEF s
<1>15. <<m, PreSemantic>> \in ran \cup {f.job} =>
         <<m, Parse>> \in ran /\ HasType(program, m[1])
  BY <1>7, <1>11, <1>12 DEF s
<1>16. <<m, Semantic>> \in ran \cup {f.job} => HasApi(program, m[1])
  BY <1>8, <1>11, <1>12 DEF s
<1>17. <<m, Compile>> \in ran \cup {f.job} =>
         <<m, Semantic>> \in ran /\ m \notin errors /\ Correct(program, m[1])
  BY <1>9, <1>11, <1>12 DEF s
<1>18. <<m, Write>> \in ran \cup {f.job} => <<m, Compile>> \in ran
  BY <1>10, <1>11, <1>12
<1> QED
  BY <1>14, <1>15, <1>16, <1>17, <1>18

\* Every step keeps what it means that a job has run.
LEMMA StepResults ==
  ASSUME AInv, RInv, NEW t \in Thread, ResultShape(t), program' = program
  PROVE  Results'
<1>1. FramesKnow /\ ParentsThere /\ Results /\ Meant(program, ran, errors)
  BY DEF RInv, Results
<1>2. CASE UNCHANGED <<ran, errors>>
  BY <1>1, <1>2 DEF Results
<1>3. CASE Returns(t) /\ ran' = ran \cup {Top(t).job} /\ UNCHANGED errors
  <2>1. /\ Top(t).job \in Job /\ Top(t).todo = <<>> /\ stack[t] # <<>>
        /\ Top(t) = stack[t][Len(stack[t])] /\ Len(stack[t]) \in 1 .. Len(stack[t])
    BY <1>3, TopType DEF AInv, Returns
  <2>2. FindsParent(program, parent, ran, Top(t)) /\ AwaitsParent(parent, ran, Top(t))
    BY <2>1 DEF AInv, FramesOK
  <2>3. Knows(program, made, ran, errors, registered, t, Top(t))
    BY <1>1, <2>1, TopKnows DEF AInv
  <2>4. PICK f : f = Top(t)
    OBVIOUS
  <2>5. Meant(program, ran \cup {f.job}, errors)
    BY <1>1, <2>1, <2>2, <2>3, <2>4, RanMeans
  <2> QED
    BY <1>3, <2>4, <2>5 DEF Results
<1>4. ASSUME NEW ops, Advances(t, ops) PROVE Results'
  <2>1. ran' = ran /\ errors \subseteq errors'
    BY <1>4 DEF Advances, Blames
  <2>2. ASSUME NEW n \in Node, <<n, Compile>> \in ran PROVE n \notin errors'
    <3>1. n \notin errors /\ <<n, Semantic>> \in ran
      BY <1>1, <2>2 DEF Meant
    <3>2. SUFFICES ASSUME n \in errors' PROVE FALSE
      OBVIOUS
    <3>3. Top(t).job = <<n, Compile>>
      BY <1>1, <1>4, <3>1, <3>2, BlameLate
    <3>4. Top(t) = stack[t][Len(stack[t])] /\ Len(stack[t]) \in 1 .. Len(stack[t])
      BY <1>4, TopType DEF AInv, Advances, GoesOn
    <3> QED
      BY <2>2, <3>3, <3>4 DEF AInv, Once
  <2>3. Meant(program, ran, errors')
    BY <1>1, <2>1, <2>2 DEF Meant
  <2> QED
    BY <2>1, <2>3 DEF Results
<1> QED
  BY <1>2, <1>3, <1>4 DEF ResultShape

\* Every step leaves each frame at the await of the job on top of it.
LEMMA StepLinked ==
  ASSUME AInv, RInv, NEW t \in Thread, ResultShape(t)
  PROVE  Linked'
<1>0. SUFFICES ASSUME NEW u \in Thread, NEW i \in 1 .. Len(stack'[u]) - 1
               PROVE  LET v == stack'[u][i].todo
                      IN v # <<>> /\ v[1].do = "await" /\ v[1].job = stack'[u][i + 1].job
  BY DEF Linked
<1>1. /\ \A v \in Thread : Len(stack[v]) \in Nat
      /\ \A v \in Thread : \A k \in 1 .. Len(stack[v]) - 1 :
           LET w == stack[v][k].todo
           IN w # <<>> /\ w[1].do = "await" /\ w[1].job = stack[v][k + 1].job
  BY DEF AInv, IInv, Stacks, RInv, Linked
<1>2. CASE UNCHANGED stack
  BY <1>1, <1>2
<1>3. ASSUME NEW j, Begins(t, j), stack[t] = <<>> \/ (At(t, "await") /\ Op(t).job = j)
      PROVE  LET v == stack'[u][i].todo
             IN v # <<>> /\ v[1].do = "await" /\ v[1].job = stack'[u][i + 1].job
  <2>1. CASE i \in 1 .. Len(stack[u]) - 1
    <3>1. /\ i \in 1 .. Len(stack[u]) /\ i + 1 \in 1 .. Len(stack[u])
          /\ stack'[u][i] = stack[u][i] /\ stack'[u][i + 1] = stack[u][i + 1]
      BY <1>1, <1>3, <2>1 DEF Begins
    <3> QED
      BY <1>1, <2>1, <3>1
  <2>2. CASE i \notin 1 .. Len(stack[u]) - 1
    <3>1. u = t /\ i = Len(stack[t]) /\ i \in 1 .. Len(stack[t])
      BY <1>1, <1>3, <2>2 DEF Begins
    <3>2. stack[t] # <<>> /\ stack'[t][i] = stack[t][i] /\ stack'[t][i + 1] = Frame(j)
      BY <1>1, <1>3, <3>1 DEF Begins
    <3>3. At(t, "await") /\ Op(t).job = j
      BY <1>3, <3>2
    <3>4. Top(t) = stack[t][i] /\ Top(t).todo # <<>> /\ Op(t) = Top(t).todo[1] /\ Op(t).do = "await"
      BY <3>1, <3>2, <3>3, TopType, TopOp DEF At, AInv
    <3>5. Frame(j).job = j
      BY DEF Frame
    <3> QED
      BY <3>1, <3>2, <3>3, <3>4, <3>5
  <2> QED
    BY <2>1, <2>2
<1>4. CASE Returns(t)
  <2>1. /\ i \in 1 .. Len(stack[u]) - 1
        /\ stack'[u][i] = stack[u][i] /\ stack'[u][i + 1] = stack[u][i + 1]
    BY <1>1, <1>4 DEF Returns
  <2> QED
    BY <1>1, <2>1
<1>5. ASSUME NEW todo, GoesOn(t, todo)
      PROVE  LET v == stack'[u][i].todo
             IN v # <<>> /\ v[1].do = "await" /\ v[1].job = stack'[u][i + 1].job
  <2>1. /\ i \in 1 .. Len(stack[u]) - 1 /\ i \in 1 .. Len(stack[u]) /\ i + 1 \in 1 .. Len(stack[u])
        /\ i # Len(stack[u])
    BY <1>1, <1>5 DEF GoesOn
  <2>2. Top(t) = stack[t][Len(stack[t])]
    BY <1>5, TopType DEF AInv, GoesOn
  <2>3. stack'[u][i] = stack[u][i] /\ stack'[u][i + 1].job = stack[u][i + 1].job
    BY <1>5, <2>1, <2>2 DEF GoesOn
  <2> QED
    BY <1>1, <2>1, <2>3
<1> QED
  BY <1>2, <1>3, <1>4, <1>5 DEF ResultShape, Advances

\* A frame is at the await of a preSemantic until that has run.
LEMMA AwaitStays ==
  ASSUME AInv, NEW t \in Thread, ResultShape(t), NEW m \in Node, AtAwait(stack[Main], m)
  PROVE  AtAwait(stack'[Main], m) \/ <<m, PreSemantic>> \in ran'
<1>0. Main \in Thread
  BY ProgramAssumption
<1>1. PICK i \in 1 .. Len(stack[Main]) :
        stack[Main][i].todo # <<>> /\ stack[Main][i].todo[1] = Await(m, PreSemantic)
  BY DEF AtAwait
<1>2. Len(stack[Main]) \in Nat
  BY <1>0 DEF AInv, IInv, Stacks
<1>3. ASSUME i \in 1 .. Len(stack'[Main]), stack'[Main][i] = stack[Main][i]
      PROVE  AtAwait(stack'[Main], m)
  BY <1>1, <1>3 DEF AtAwait
<1>4. CASE UNCHANGED stack
  BY <1>3, <1>4
<1>5. ASSUME NEW j, Begins(t, j) PROVE AtAwait(stack'[Main], m)
  BY <1>0, <1>1, <1>2, <1>3, <1>5 DEF Begins
<1>6. CASE Returns(t)
  <2>1. t = Main => i # Len(stack[Main])
    BY <1>1, <1>6, TopType DEF AInv, Returns
  <2> QED
    BY <1>0, <1>1, <1>2, <1>3, <1>6, <2>1 DEF Returns
<1>7. ASSUME NEW ops, Advances(t, ops) PROVE AtAwait(stack'[Main], m) \/ <<m, PreSemantic>> \in ran'
  <2>1. CASE t = Main /\ i = Len(stack[t])
    <3>1. Top(t) = stack[Main][i]
      BY <1>7, <2>1, TopType DEF AInv, Advances, GoesOn
    <3>2. Top(t).todo[1].do = "await" /\ Top(t).todo[1].job = <<m, PreSemantic>>
      BY <1>1, <3>1, Fields
    <3> QED
      BY <1>7, <3>2 DEF Advances, OpDone
  <2>2. CASE ~(t = Main /\ i = Len(stack[t]))
    BY <1>0, <1>1, <1>3, <1>7, <2>2 DEF Advances, GoesOn
  <2> QED
    BY <2>1, <2>2
<1> QED
  BY <1>4, <1>5, <1>6, <1>7 DEF ResultShape

\* A claimed job is inside of a thread until it has run.
LEMMA StepBusy ==
  ASSUME AInv, RInv, NEW t \in Thread, ResultShape(t)
  PROVE  Busy'
<1>0. SUFFICES ASSUME NEW h \in locked' \ ran'
               PROVE  \E u \in Thread : \E i \in 1 .. Len(stack'[u]) : stack'[u][i].job = h
  BY DEF Busy
<1>1. \A v \in Thread : Len(stack[v]) \in Nat
  BY DEF AInv, IInv, Stacks
<1>2. CASE UNCHANGED <<stack, ran, locked>>
  BY <1>2 DEF RInv, Busy
<1>3. ASSUME NEW j, Begins(t, j), locked' = locked \cup {j}, UNCHANGED ran
      PROVE  \E u \in Thread : \E i \in 1 .. Len(stack'[u]) : stack'[u][i].job = h
  <2>1. CASE h = j
    <3>1. stack'[t][Len(stack[t]) + 1].job = j /\ Len(stack[t]) + 1 \in 1 .. Len(stack'[t])
      BY <1>1, <1>3 DEF Begins, Frame
    <3> QED
      BY <2>1, <3>1
  <2>2. CASE h # j
    <3>1. PICK u \in Thread : \E i \in 1 .. Len(stack[u]) : stack[u][i].job = h
      BY <1>3, <2>2 DEF RInv, Busy
    <3>0. PICK i \in 1 .. Len(stack[u]) : stack[u][i].job = h
      BY <3>1
    <3>2. i \in 1 .. Len(stack'[u]) /\ stack'[u][i] = stack[u][i]
      BY <1>1, <1>3 DEF Begins
    <3> QED
      BY <3>0, <3>2
  <2> QED
    BY <2>1, <2>2
<1>4. CASE Returns(t) /\ ran' = ran \cup {Top(t).job} /\ UNCHANGED locked
  <2>1. PICK u \in Thread : \E i \in 1 .. Len(stack[u]) : stack[u][i].job = h
    BY <1>4 DEF RInv, Busy
  <2>0. PICK i \in 1 .. Len(stack[u]) : stack[u][i].job = h
    BY <2>1
  <2>2. Top(t) = stack[t][Len(stack[t])]
    BY <1>4, TopType DEF AInv, Returns
  <2>3. ~(u = t /\ i = Len(stack[t]))
    BY <1>4, <2>0, <2>2
  <2>4. i \in 1 .. Len(stack'[u]) /\ stack'[u][i] = stack[u][i]
    BY <1>1, <1>4, <2>3 DEF Returns
  <2> QED
    BY <2>0, <2>4
<1>5. ASSUME NEW todo, GoesOn(t, todo), UNCHANGED <<ran, locked>>
      PROVE  \E u \in Thread : \E i \in 1 .. Len(stack'[u]) : stack'[u][i].job = h
  <2>1. PICK u \in Thread : \E i \in 1 .. Len(stack[u]) : stack[u][i].job = h
    BY <1>5 DEF RInv, Busy
  <2>0. PICK i \in 1 .. Len(stack[u]) : stack[u][i].job = h
    BY <2>1
  <2>2. Top(t) = stack[t][Len(stack[t])]
    BY <1>5, TopType DEF AInv, GoesOn
  <2>3. i \in 1 .. Len(stack'[u]) /\ stack'[u][i].job = stack[u][i].job
    BY <1>5, <2>2 DEF GoesOn
  <2> QED
    BY <2>0, <2>3
<1> QED
  BY <1>2, <1>3, <1>4, <1>5 DEF ResultShape, Advances

\* three ops, and what comes after them
LEMMA TwoFirst ==
  ASSUME NEW a, NEW b, NEW c, NEW S, NEW v \in Seq(S)
  PROVE  LET s == (<<a, b>> \o <<c>>) \o v IN Len(s) > 1 /\ s # <<>> /\ s[1] = a /\ s[2] = b
<1> DEFINE T == S \cup {a, b, c}
           u == <<a, b>> \o <<c>>
<1>1. <<a, b>> \in Seq(T) /\ <<c>> \in Seq(T) /\ v \in Seq(T)
  <2>1. <<a, b>> \in Seq(T) /\ <<c>> \in Seq(T)
    OBVIOUS
  <2>2. v \in Seq(T)
    BY SeqMonotonic
  <2> QED
    BY <2>1, <2>2
<1>2. Len(u) = 3 /\ u[1] = a /\ u[2] = b
  BY TwoAndOne
<1> HIDE DEF T
<1>3. u \in Seq(T)
  BY <1>1, ConcatProperties
<1> HIDE DEF u
<1>4. (u \o v) \in Seq(T) /\ Len(u \o v) >= 2 /\ (u \o v)[1] = u[1] /\ (u \o v)[2] = u[2]
  <2>1. v \in Seq(T) /\ Len(u) >= 2
    BY <1>1, <1>2
  <2> QED
    BY <1>3, <2>1, ConcatStart
<1>5. Len(u \o v) > 1 /\ (u \o v) # <<>>
  BY <1>4
<1> QED
  BY <1>2, <1>4, <1>5 DEF u

\* What main does first with what the provider gave.
LEMMA ProvideTop ==
  ASSUME IInv, NEW t \in Thread, Provide(t)
  PROVE  LET x == Op(t).script
             w == stack'[t][Len(stack[t])].todo
         IN /\ Len(stack[t]) \in 1 .. Len(stack'[t])
            /\ Len(w) > 1 /\ w # <<>> /\ w[1] = Await(<<x, made[x] + 1>>, PreSemantic)
            /\ w[2] = Resolved(x)
<1> DEFINE x == Op(t).script
           n == <<x, made[x] + 1>>
           ops == <<Await(n, PreSemantic), Resolved(x)>> \o Use(t, n)
           v == Tail(Top(t).todo)
<1>1. stack[t] # <<>> /\ Top(t).todo # <<>> /\ Continue(t, ops)
  BY DEF Provide, Wanted, At
<1>2. Use(t, n) = <<Use(t, n)[1]>>
  BY DEF Use
<1>3. v \in Seq(Ops)
  BY <1>1, TopOp
<1>4. Len(stack[t]) \in 1 .. Len(stack'[t]) /\ stack'[t][Len(stack[t])].todo = ops \o v
  <2> HIDE DEF ops
  <2>1. GoesOn(t, ops \o v)
    BY <1>1, ContinueGoesOn
  <2>2. Len(stack[t]) \in Nat \ {0}
    BY <1>1, TopType
  <2> HIDE DEF v, n, x
  <2>3. PICK w : w = ops \o v
    OBVIOUS
  <2>4. GoesOn(t, w)
    BY <2>1, <2>3
  <2>5. Len(stack'[t]) = Len(stack[t]) /\ Len(stack[t]) \in 1 .. Len(stack[t])
    BY <2>2, <2>4 DEF GoesOn
  <2>6. stack'[t][Len(stack[t])].todo = w
    BY <2>4, <2>5 DEF GoesOn
  <2> QED
    BY <2>3, <2>5, <2>6
<1> HIDE DEF n, x, v
<1>5. PICK a, b, c : a = Await(n, PreSemantic) /\ b = Resolved(x) /\ c = Use(t, n)[1]
  OBVIOUS
<1>6. ops = <<a, b>> \o <<c>>
  BY <1>2, <1>5
<1> HIDE DEF ops
<1>7. LET s == (<<a, b>> \o <<c>>) \o v IN Len(s) > 1 /\ s # <<>> /\ s[1] = a /\ s[2] = b
  BY <1>3, TwoFirst
<1> QED
  BY <1>4, <1>5, <1>6, <1>7 DEF n, x

\* What is registered changes in Provide alone.
LEMMA StepRegistered ==
  ASSUME AInv, RInv, NEW t \in Thread, Step(t)
  PROVE  Registered'
<1>0. /\ IInv /\ Registered /\ ResultShape(t) /\ program' = program /\ program \in Program
  BY StepHasResult DEF AInv, IInv, RInv, Step
<1>1. ASSUME NEW m \in Node, Ran(m, PreSemantic) \/ AtAwait(stack[Main], m)
      PROVE  <<m, PreSemantic>> \in ran' \/ AtAwait(stack'[Main], m)
  <2>1. ran \subseteq ran'
    BY <1>0 DEF ResultShape, Advances
  <2> QED
    BY <1>0, <1>1, <2>1, AwaitStays DEF Ran
<1>2. CASE UNCHANGED <<made, registered>>
  <2>1. SUFFICES ASSUME NEW x \in Script, registered[x] # Null
                 PROVE  /\ registered[x][2] <= made[x]
                        /\ IF registered[x][2] = 0 THEN program.kind[x] # "none"
                           ELSE /\ x \in program.provides
                                /\ \/ <<registered[x], PreSemantic>> \in ran'
                                   \/ AtAwait(stack'[Main], registered[x])
    BY <1>0, <1>2 DEF Registered, Ran
  <2>2. registered[x] \in Node
    BY <2>1 DEF AInv, IInv, Nodes
  <2> QED
    BY <1>0, <1>1, <2>1, <2>2 DEF Registered
<1>3. CASE Provide(t)
  <2> DEFINE x == Op(t).script
             n == <<x, made[x] + 1>>
             ops == <<Await(n, PreSemantic), Resolved(x)>> \o Use(t, n)
  <2>1. /\ stack[t] # <<>> /\ Top(t).todo # <<>> /\ t = Main /\ x \in program.provides
        /\ Continue(t, ops) /\ made[x] < MaxMade
        /\ made' = [made EXCEPT ![x] = @ + 1]
        /\ registered' = [registered EXCEPT ![x] = IF @ = Null THEN n ELSE @]
        /\ Op(t).do \in {"lookup", "import"}
    BY <1>3 DEF Provide, Wanted, At, MayProvide, HasProvider
  <2>2. x \in Script /\ made \in [Script -> 0 .. MaxMade] /\ MaxMade \in Nat
        /\ registered \in [Script -> Node \cup {Null}]
    BY <1>0, <2>1, TopOp, OpIs, ProgramAssumption DEF IInv, Nodes
  <2>3. n \in Node /\ n[2] = made[x] + 1 /\ n[2] # 0 /\ n[1] = x
    BY <2>1, <2>2 DEF Node
  <2>5. AtAwait(stack'[Main], n)
    BY <1>0, <1>3, <2>1, ProvideTop DEF AtAwait
  <2> HIDE DEF n, x
  <2>6. ASSUME NEW y \in Script, registered'[y] # Null
        PROVE  /\ registered'[y][2] <= made'[y]
               /\ IF registered'[y][2] = 0 THEN program.kind[y] # "none"
                  ELSE /\ y \in program.provides
                       /\ \/ <<registered'[y], PreSemantic>> \in ran'
                          \/ AtAwait(stack'[Main], registered'[y])
    <3>1. CASE y = x /\ registered[y] = Null
      <4>1. registered'[y] = n /\ made'[y] = made[x] + 1
        BY <2>1, <2>2, <3>1
      <4> QED
        BY <2>1, <2>2, <2>3, <2>5, <3>1, <4>1
    <3>2. CASE ~(y = x /\ registered[y] = Null)
      <4>1. /\ registered'[y] = registered[y] /\ made[y] <= made'[y]
            /\ made[y] \in Nat /\ made'[y] \in Nat
        BY <2>1, <2>2, <3>2
      <4>2. registered[y] \in Node /\ registered[y][2] \in Nat
        BY <2>2, <2>6, <4>1 DEF Node
      <4> QED
        BY <1>0, <1>1, <2>6, <4>1, <4>2 DEF Registered
    <3> QED
      BY <3>1, <3>2
  <2>7. \A y \in Script : registered[y] # Null => registered'[y] = registered[y]
    BY <2>1, <2>2
  <2>8. \A y \in Script : FoundFirst(program, y) => registered'[y] # Null
    BY <1>0, <2>7 DEF Registered
  <2> QED
    BY <1>0, <2>6, <2>8 DEF Registered, Ran
<1>4. UNCHANGED <<made, registered>> \/ Provide(t)
  BY DEF Step, TakeJob, Finish, AwaitRan, AwaitRun, AwaitSelf, ParseFile, ExitIfErrors, AwaitSuper,
         ResolveType, Dereference, Found, LeaveResolving, TypeMissing, ImportMissing, AddImport,
         Throw
<1> QED
  BY <1>2, <1>3, <1>4

\* A parent is a node that was found or provided.
LEMMA StepParents ==
  ASSUME AInv, RInv, NEW t \in Thread, Step(t)
  PROVE  ParentsThere'
<1>0. IInv /\ Registered /\ ParentsThere /\ program' = program
  BY DEF AInv, RInv, Step
<1>1. CASE parent' = parent
  BY <1>0, <1>1 DEF ParentsThere, KindIn, Findable, FoundFirst
<1>2. ASSUME NEW n, SetParent(t, n), KindIn(program, n) # "none", Findable(program, n[1]),
             stack[t] # <<>>
      PROVE  ParentsThere'
  <2>1. Self(t) \in Node /\ parent \in [Node -> Node \cup {Null}]
    BY <1>0, <1>2, TopType DEF IInv, Parents
  <2>2. \A m \in Node : parent'[m] = parent[m] \/ parent'[m] = n
    BY <1>2, <2>1 DEF SetParent
  <2> QED
    BY <1>0, <1>2, <2>2 DEF ParentsThere
<1>3. CASE Found(t)
  <2> DEFINE n == TryFind(t, Op(t).script)
  <2>1. /\ stack[t] # <<>> /\ Top(t).todo # <<>> /\ Op(t).do \in {"lookup", "import"}
        /\ n # Null /\ SetParent(t, n)
    BY <1>3 DEF Found, Wanted, At
  <2>2. Op(t).script \in Script
    BY <1>0, <2>1, TopOp, OpIs
  <2>3. Op(t).script \notin program.qualified /\ n = registered[Op(t).script]
    BY <2>1 DEF TryFind
  <2> HIDE DEF n
  <2>4. KindIn(program, n) # "none" /\ n[1] = Op(t).script /\ Findable(program, n[1])
    BY <1>0, <2>1, <2>2, <2>3, RegisteredIs
  <2> QED
    BY <1>2, <2>1, <2>4
<1>4. CASE Provide(t)
  <2> DEFINE x == Op(t).script
             n == <<x, made[x] + 1>>
  <2>1. /\ stack[t] # <<>> /\ Top(t).todo # <<>> /\ Op(t).do \in {"lookup", "import"}
        /\ SetParent(t, n) /\ x \in program.provides
    BY <1>4 DEF Provide, Wanted, At, MayProvide, HasProvider
  <2>2. x \in Script /\ made[x] \in Nat
    BY <1>0, <2>1, TopOp, OpIs, ProgramAssumption DEF IInv, Nodes
  <2>3. KindIn(program, n) # "none" /\ Findable(program, n[1])
    BY <2>1, <2>2 DEF KindIn, Findable
  <2> QED
    BY <1>2, <2>1, <2>3
<1>5. parent' = parent \/ Found(t) \/ Provide(t)
  BY DEF Step, TakeJob, Finish, AwaitRan, AwaitRun, AwaitSelf, ParseFile, ExitIfErrors, AwaitSuper,
         ResolveType, Dereference, LeaveResolving, TypeMissing, ImportMissing, AddImport, Throw
<1> QED
  BY <1>1, <1>3, <1>4, <1>5

\* What is queued is read or written.
LEMMA StepQueue ==
  ASSUME AInv, RInv, NEW t \in Thread, Step(t)
  PROVE  QueueThere'
<1>0. IInv /\ QueueThere /\ program' = program /\ queue \in Seq(Job) /\ Len(queue) \in Nat
      /\ \A k \in 1 .. Len(queue) : queue[k][2] \in {Read, Write} /\ OKJob(program, queue[k])
      /\ \A n \in Inputs(program) : In(<<n, Write>>, queue) \/ <<n, Write>> \in locked
  BY DEF AInv, IInv, Queued, RInv, QueueThere, Step
<1>1. CASE queue' = queue /\ locked \subseteq locked'
  BY <1>0, <1>1 DEF QueueThere
<1>2. CASE TakeJob(t)
  <2>1. queue # <<>> /\ queue' = Tail(queue) /\ Head(queue) \in locked' /\ locked \subseteq locked'
    BY <1>2 DEF TakeJob
  <2>2. Len(queue') = Len(queue) - 1 /\ \A k \in 1 .. Len(queue') : queue'[k] = queue[k + 1]
    BY <1>0, <2>1
  <2>3. \A k \in 1 .. Len(queue') : k + 1 \in 1 .. Len(queue)
    BY <1>0, <2>2
  <2>4. ASSUME NEW j, In(j, queue) PROVE In(j, queue') \/ j \in locked'
    <3>1. PICK k \in 1 .. Len(queue) : queue[k] = j
      BY <2>4 DEF In
    <3>2. CASE k = 1
      BY <2>1, <3>1, <3>2
    <3>3. CASE k # 1
      <4>1. k - 1 \in 1 .. Len(queue') /\ k - 1 + 1 = k
        BY <1>0, <2>2, <3>3
      <4> QED
        BY <2>2, <3>1, <4>1 DEF In
    <3> QED
      BY <3>2, <3>3
  <2> QED
    BY <1>0, <2>1, <2>2, <2>3, <2>4 DEF QueueThere
<1>3. CASE Provide(t)
  <2> DEFINE x == Op(t).script
             n == <<x, made[x] + 1>>
             j == <<n, Read>>
  <2>1. /\ stack[t] # <<>> /\ Top(t).todo # <<>> /\ Op(t).do \in {"lookup", "import"}
        /\ queue' = Append(queue, j) /\ locked' = locked /\ made[x] < MaxMade
    BY <1>3 DEF Provide, Wanted, At
  <2>2. x \in Script /\ made[x] \in Nat /\ MaxMade \in Nat
    BY <1>0, <2>1, TopOp, OpIs, ProgramAssumption DEF IInv, Nodes
  <2>3. j \in Job /\ j[2] \in {Read, Write} /\ OKJob(program, j)
    BY <2>1, <2>2 DEF Job, Node, Stage, Read, Write, Compile, OKJob, KindIn
  <2> HIDE DEF j
  <2>4. Len(queue') = Len(queue) + 1 /\ \A k \in 1 .. Len(queue') :
          queue'[k] = IF k <= Len(queue) THEN queue[k] ELSE j
    BY <1>0, <2>1, <2>3
  <2>5. ASSUME NEW i, In(i, queue) PROVE In(i, queue')
    <3>1. PICK k \in 1 .. Len(queue) : queue[k] = i
      BY <2>5 DEF In
    <3>2. k \in 1 .. Len(queue') /\ queue'[k] = i
      BY <1>0, <2>4, <3>1
    <3> QED
      BY <3>2 DEF In
  <2>6. \A k \in 1 .. Len(queue') : queue'[k][2] \in {Read, Write} /\ OKJob(program, queue'[k])
    <3>1. ASSUME NEW k \in 1 .. Len(queue')
          PROVE  queue'[k] = j \/ (k \in 1 .. Len(queue) /\ queue'[k] = queue[k])
      BY <1>0, <2>4
    <3> QED
      BY <1>0, <2>3, <3>1
  <2> QED
    BY <1>0, <2>1, <2>5, <2>6 DEF QueueThere
<1>4. (queue' = queue /\ locked \subseteq locked') \/ TakeJob(t) \/ Provide(t)
  BY DEF Step, Finish, AwaitRan, AwaitRun, AwaitSelf, ParseFile, ExitIfErrors, AwaitSuper, Found,
         ResolveType, Dereference, LeaveResolving, TypeMissing, ImportMissing, AddImport, Throw
<1> QED
  BY <1>1, <1>2, <1>3, <1>4

\* A name is being resolved until the frame that asked for it comes to its end.
LEMMA StepResolving ==
  ASSUME AInv, RInv, NEW t \in Thread, Step(t)
  PROVE  Resolving'
<1>0. IInv /\ Resolving /\ StepShape(t) /\ Main \in Thread
  BY StepHasShape, ProgramAssumption DEF AInv, RInv
<1>1. SUFFICES ASSUME NEW x \in resolving' PROVE AtProvider(stack'[Main], x)
  BY DEF Resolving
<1>2. CASE Provide(t) /\ x = Op(t).script
  <2>1. /\ stack[t] # <<>> /\ Top(t).todo # <<>> /\ Op(t).do \in {"lookup", "import"} /\ t = Main
        /\ made[x] < MaxMade
    BY <1>2 DEF Provide, Wanted, At, MayProvide, HasProvider
  <2>2. <<x, made[x] + 1>> \in Node
    <3>1. x \in Script /\ made[x] \in Nat /\ MaxMade \in Nat
      BY <1>0, <1>2, <2>1, TopOp, OpIs, ProgramAssumption DEF IInv, Nodes
    <3> QED
      BY <2>1, <3>1 DEF Node
  <2>3. PICK m \in Node : m = <<x, made[x] + 1>> /\ m[1] = x
    BY <2>2
  <2>4. LET w == stack'[Main][Len(stack[t])].todo
        IN /\ Len(stack[t]) \in 1 .. Len(stack'[Main]) /\ Len(w) > 1 /\ w # <<>>
           /\ w[1] = Await(m, PreSemantic) /\ w[2] = Resolved(x)
    BY <1>0, <1>2, <2>1, <2>3, ProvideTop
  <2> QED
    BY <2>3, <2>4 DEF AtProvider
<1>3. CASE x \in resolving /\ ~(At(t, "resolved") /\ Op(t).script = x)
  <2>1. PICK i \in 1 .. Len(stack[Main]) :
          LET u == stack[Main][i].todo
          IN /\ u # <<>>
             /\ \/ u[1] = Resolved(x)
                \/ /\ Len(u) > 1 /\ u[2] = Resolved(x)
                   /\ \E m \in Node : m[1] = x /\ u[1] = Await(m, PreSemantic)
    BY <1>0, <1>3 DEF Resolving, AtProvider
  <2>2. Len(stack[Main]) \in Nat
    BY <1>0 DEF IInv, Stacks
  <2>3. ASSUME i \in 1 .. Len(stack'[Main]), stack'[Main][i] = stack[Main][i]
        PROVE  AtProvider(stack'[Main], x)
    BY <2>1, <2>3 DEF AtProvider
  <2>4. CASE UNCHANGED stack
    BY <2>3, <2>4
  <2>5. ASSUME NEW j, Begins(t, j) PROVE AtProvider(stack'[Main], x)
    BY <1>0, <2>1, <2>2, <2>3, <2>5 DEF Begins
  <2>6. CASE Returns(t)
    <3>1. t = Main => i # Len(stack[Main])
      BY <1>0, <2>1, <2>6, TopType DEF Returns
    <3> QED
      BY <1>0, <2>1, <2>2, <2>3, <2>6, <3>1 DEF Returns
  <2>7. ASSUME NEW ops \in Seq(May(program, Top(t).job)), GoesOn(t, ops \o Tail(Top(t).todo)),
               Does(t, ops)
        PROVE  AtProvider(stack'[Main], x)
    <3>1. CASE t = Main /\ i = Len(stack[t])
      <4>1. /\ Top(t) = stack[Main][i] /\ stack[t] # <<>> /\ Top(t).todo # <<>>
            /\ Len(stack'[Main]) = Len(stack[Main])
            /\ stack'[Main][i].todo = ops \o Tail(Top(t).todo)
        BY <1>0, <2>1, <2>7, <3>1, TopType DEF GoesOn
      <4>2. Op(t) = Top(t).todo[1] /\ Top(t).todo \in Seq(Ops)
        BY <1>0, <4>1, TopOp
      <4>3. Top(t).todo[1] # Resolved(x)
        <5>1. SUFFICES ASSUME Op(t) = Resolved(x) PROVE FALSE
          BY <4>2
        <5>2. Op(t).do = "resolved" /\ Op(t).script = x
          BY <5>1, Fields
        <5>3. At(t, "resolved")
          <6>1. Running(t)
            BY <4>1 DEF Step, TakeJob, Finish, AwaitRan, AwaitRun, AwaitSelf, ParseFile,
                        ExitIfErrors, AwaitSuper, ResolveType, Dereference, Found, Provide,
                        LeaveResolving, TypeMissing, ImportMissing, AddImport, Wanted, At
          <6> QED
            BY <4>1, <5>2, <6>1 DEF At
        <5> QED
          BY <1>3, <5>2, <5>3
      <4>4. PICK m \in Node : m[1] = x /\ Top(t).todo[1] = Await(m, PreSemantic)
        BY <2>1, <4>1, <4>3
      <4>5. Len(Top(t).todo) > 1 /\ Top(t).todo[2] = Resolved(x)
        BY <2>1, <4>1, <4>3
      <4>6. ops = <<>>
        BY <2>7, <4>2, <4>4, Fields DEF Does
      <4>7. PICK v : v = Top(t).todo
        OBVIOUS
      <4>8. Tail(v) \in Seq(Ops) /\ Tail(v) # <<>> /\ Tail(v)[1] = v[2]
        <5>1. v \in Seq(Ops) /\ Len(v) > 1 /\ Len(v) \in Nat
          BY <4>2, <4>5, <4>7
        <5>2. /\ Tail(v) \in Seq(Ops) /\ Len(Tail(v)) = Len(v) - 1
              /\ \A k \in 1 .. Len(Tail(v)) : Tail(v)[k] = v[k + 1]
          BY <5>1
        <5>3. PICK w : w = Tail(v)
          OBVIOUS
        <5>4. w \in Seq(Ops) /\ 1 \in 1 .. Len(w) /\ w[1] = v[1 + 1] /\ 1 + 1 = 2
          BY <5>1, <5>2, <5>3
        <5>5. w # <<>>
          BY <5>4
        <5> QED
          BY <5>3, <5>4, <5>5
      <4>9. stack'[Main][i].todo = Tail(v)
        BY <4>1, <4>6, <4>7, <4>8, ConcatEmptySeq
      <4> QED
        BY <2>1, <4>1, <4>5, <4>7, <4>8, <4>9 DEF AtProvider
    <3>2. CASE ~(t = Main /\ i = Len(stack[t]))
      BY <1>0, <2>1, <2>3, <2>7, <3>2 DEF GoesOn
    <3> QED
      BY <3>1, <3>2
  <2> QED
    BY <1>0, <2>4, <2>5, <2>6, <2>7 DEF StepShape
<1>4. \/ Provide(t) /\ x = Op(t).script
      \/ x \in resolving /\ ~(At(t, "resolved") /\ Op(t).script = x)
  BY <1>1 DEF Step, TakeJob, Finish, AwaitRan, AwaitRun, AwaitSelf, ParseFile, ExitIfErrors,
         AwaitSuper, ResolveType, Dereference, Found, Provide, LeaveResolving, TypeMissing,
         ImportMissing, AddImport, Wanted, At, Throw
<1> QED
  BY <1>2, <1>3, <1>4

---------------------------------------------------------------------------
(* The beginning and the end of a compile.                                 *)

\* The elements of a finite set in a row.
LEMMA InARow ==
  ASSUME NEW S, IsFiniteSet(S)
  PROVE  /\ SetToSeq(S) \in Seq(S)
         /\ \A w \in SetToSeqs(S) : w \in Seq(S) /\ \A x \in S : In(x, w)
<1>1. Cardinality(S) \in Nat /\ ExistsBijection(1 .. Cardinality(S), S)
  BY FS_CardinalityType
<1>2. SetToSeq(S) \in Seq(S)
  <2>1. \E f \in [1 .. Cardinality(S) -> S] : IsInjective(f)
    BY <1>1 DEF ExistsBijection, Bijection, Injection
  <2>2. SetToSeq(S) \in [1 .. Cardinality(S) -> S]
    BY <2>1 DEF SetToSeq
  <2> QED
    BY <1>1, <2>2
<1>3. ASSUME NEW w \in SetToSeqs(S) PROVE w \in Seq(S) /\ \A x \in S : In(x, w)
  <2>1. /\ w \in [1 .. Cardinality(S) -> S]
        /\ \A i, k \in 1 .. Cardinality(S) : i # k => w[i] # w[k]
    BY DEF SetToSeqs
  <2>2. w \in Seq(S) /\ Len(w) = Cardinality(S)
    BY <1>1, <2>1
  <2>3. ASSUME NEW x \in S, ~In(x, w) PROVE FALSE
    <3>1. w \in [1 .. Cardinality(S) -> S \ {x}]
      BY <2>1, <2>2, <2>3 DEF In
    <3>2. IsFiniteSet(S \ {x}) /\ Cardinality(S \ {x}) = Cardinality(S) - 1
      BY <2>3, FS_RemoveElement
    <3>3. 1 \in Int /\ Cardinality(S) \in Int
      BY <1>1
    <3>4. IsFiniteSet(1 .. Cardinality(S)) /\ Cardinality(1 .. Cardinality(S)) = Cardinality(S)
      <4>1. /\ IsFiniteSet(1 .. Cardinality(S))
            /\ Cardinality(1 .. Cardinality(S)) =
                 IF 1 > Cardinality(S) THEN 0 ELSE Cardinality(S) - 1 + 1
        BY <3>3, FS_Interval
      <4> QED
        BY <1>1, <4>1
    <3>5. Cardinality(S \ {x}) < Cardinality(1 .. Cardinality(S))
      BY <1>1, <3>2, <3>4
    <3>6. PICK D, E : D = 1 .. Cardinality(S) /\ E = S \ {x}
      OBVIOUS
    <3>7. /\ IsFiniteSet(D) /\ IsFiniteSet(E) /\ Cardinality(E) < Cardinality(D)
          /\ w \in [D -> E]
      BY <3>1, <3>2, <3>4, <3>5, <3>6
    <3>8. \E i, k \in D : i # k /\ w[i] = w[k]
      BY <3>7, FS_PigeonHole
    <3> QED
      BY <2>1, <3>6, <3>8
  <2> QED
    BY <2>2, <2>3
<1> QED
  BY <1>2, <1>3

\* The queue at the beginning of a compile has the writes of all inputs.
LEMMA QueuesThere ==
  ASSUME NEW p \in Program, NEW q \in Queues(p)
  PROVE  /\ \A k \in 1 .. Len(q) : q[k][2] \in {Read, Write} /\ OKJob(p, q[k])
         /\ \A n \in Inputs(p) : In(<<n, Write>>, q)
<1> DEFINE R == First(p) \X {Read}
           W == Inputs(p) \X {Write}
<1>1. First(p) \subseteq Script \X {0} /\ Inputs(p) \subseteq First(p)
  BY DEF First, Inputs
<1>2. IsFiniteSet(R) /\ IsFiniteSet(W)
  <2>1. IsFiniteSet(Script \X {0})
    BY ProgramAssumption, FS_Singleton, FS_Product
  <2>2. IsFiniteSet(First(p))
    BY <1>1, <2>1, FS_Subset
  <2>3. IsFiniteSet(Inputs(p))
    BY <1>1, <2>2, FS_Subset
  <2> QED
    BY <2>2, <2>3, FS_Singleton, FS_Product
<1>3. \A j \in R \cup W : j[2] \in {Read, Write} /\ OKJob(p, j)
  <2>1. \A n \in First(p) : KindIn(p, n) # "none"
    BY DEF First, KindIn
  <2>2. \A n \in Inputs(p) : KindIn(p, n) = "compile"
    BY DEF Inputs, First, KindIn
  <2> QED
    BY <2>1, <2>2, <1>1 DEF OKJob, Read, Write, Compile
<1>4. \A n \in Inputs(p) : <<n, Write>> \in W
  OBVIOUS
<1>5. PICK w \in SetToSeqs(W) : q = SetToSeq(R) \o w
  BY DEF Queues
<1> HIDE DEF R, W
<1>6. SetToSeq(R) \in Seq(R) /\ w \in Seq(W) /\ \A x \in W : In(x, w)
  BY <1>2, InARow
<1>7. SetToSeq(R) \in Seq(R \cup W) /\ w \in Seq(R \cup W)
  BY <1>6, SeqMonotonic
<1>8. q \in Seq(R \cup W) /\ \A a : In(a, q) <=> In(a, SetToSeq(R)) \/ In(a, w)
  BY <1>5, <1>7, ConcatProperties, InConcat
<1>9. \A k \in 1 .. Len(q) : q[k] \in R \cup W
  BY <1>8
<1> QED
  BY <1>3, <1>4, <1>6, <1>8, <1>9

\* Every compile begins like this.
Fresh ==
  /\ program \in Program
  /\ registered = Begin(program).registered /\ made = Begin(program).made
  /\ queue \in Queues(program) /\ stack = Begin(program).stack /\ parent = Begin(program).parent
  /\ locked = {} /\ ran = {} /\ resolving = {} /\ errors = {} /\ process = "running"

\* At first nothing is known, and nothing needs to be.
LEMMA FreshRInv == Fresh => RInv
<1> SUFFICES ASSUME Fresh PROVE RInv
  OBVIOUS
<1>1. /\ program \in Program /\ queue \in Queues(program) /\ parent = [n \in Node |-> Null]
      /\ locked = {} /\ ran = {} /\ resolving = {} /\ process = "running"
      /\ stack = [t \in Thread |-> <<>>]
  BY BeginType DEF Fresh
<1>2. FramesKnow /\ Linked /\ Busy /\ Ended
  BY <1>1 DEF FramesKnow, Linked, Busy, Ended
<1>3. Resolving /\ ParentsThere /\ Results
  BY <1>1 DEF Resolving, ParentsThere, Results, Meant
<1>4. Registered
  <2>1. /\ registered = [s \in Script |-> IF program.kind[s] # "none" THEN <<s, 0>> ELSE Null]
        /\ made = [s \in Script |-> 0]
    BY DEF Fresh, Begin
  <2>2. ASSUME NEW x \in Script
        PROVE  /\ registered[x] # Null => program.kind[x] # "none" /\ registered[x] = <<x, 0>>
               /\ program.kind[x] # "none" => registered[x] # Null
               /\ made[x] = 0
    BY <2>1, ProgramAssumption DEF Node
  <2>3. \A x \in Script : registered[x] # Null => registered[x][2] = 0 /\ program.kind[x] # "none"
    BY <2>2
  <2> QED
    BY <2>2, <2>3 DEF Registered, FoundFirst
<1>5. QueueThere
  BY <1>1, QueuesThere DEF QueueThere
<1> QED
  BY <1>2, <1>3, <1>4, <1>5 DEF RInv

\* Every step keeps what is known.
LEMMA NextRInv == AInv /\ RInv /\ [Next]_vars => RInv'
<1> SUFFICES ASSUME AInv, RInv, [Next]_vars PROVE RInv'
  OBVIOUS
<1>1. ASSUME NEW t \in Thread, Step(t) PROVE RInv'
  <2>1. ResultShape(t) /\ program' = program /\ t \in program.threads
    <3>1. t \in program.threads
      BY <1>1 DEF Step, TakeJob, Finish, AwaitRan, AwaitRun, AwaitSelf, ParseFile,
                  ExitIfErrors, AwaitSuper, ResolveType, Dereference, Found, Provide,
                  LeaveResolving, TypeMissing, ImportMissing, AddImport, Wanted, At, Running
    <3> QED
      BY <1>1, <3>1, StepHasResult DEF AInv, Step
  <2>2. FramesKnow' /\ Linked' /\ Results' /\ Busy'
    BY <2>1, StepFramesKnow, StepLinked, StepResults, StepBusy
  <2>3. Resolving' /\ Registered' /\ ParentsThere' /\ QueueThere'
    BY <1>1, StepResolving, StepRegistered, StepParents, StepQueue
  <2>4. process' # "success"
    BY <1>1 DEF Step, TakeJob, Finish, AwaitRan, AwaitRun, AwaitSelf, ParseFile,
                ExitIfErrors, AwaitSuper, ResolveType, Dereference, Found, Provide,
                LeaveResolving, TypeMissing, ImportMissing, AddImport, Wanted, At, Running, Throw
  <2> QED
    BY <2>2, <2>3, <2>4 DEF RInv, Ended
<1>2. CASE Exit /\ UNCHANGED program
  <2>1. /\ UNCHANGED <<program, registered, made, resolving, queue, locked, ran, stack, parent,
                       errors>>
        /\ queue = <<>> /\ \A t \in Thread : stack[t] = <<>>
    BY <1>2 DEF Exit
  <2>2. UNCHANGED <<FramesKnow, Linked, Busy>>
    BY <2>1 DEF FramesKnow, Linked, Busy
  <2>3. UNCHANGED <<Resolving, ParentsThere, Results>>
    BY <2>1 DEF Resolving, ParentsThere, Results
  <2>4. UNCHANGED <<Registered, QueueThere>>
    BY <2>1 DEF Registered, QueueThere, Ran
  <2>5. Ended'
    BY <2>1 DEF Ended
  <2> QED
    BY <2>2, <2>3, <2>4, <2>5 DEF RInv
<1>3. CASE Recompile
  <2>1. Fresh'
    BY <1>3, ProgramAssumption DEF Recompile, Fresh
  <2> QED
    BY <2>1, FreshRInv, PTL
<1>4. CASE UNCHANGED vars
  <2>1. UNCHANGED <<program, registered, made, resolving, queue, locked, ran, stack, parent, errors,
                    process>>
    BY <1>4 DEF vars
  <2>2. UNCHANGED <<FramesKnow, Linked, Busy, Ended>>
    BY <2>1 DEF FramesKnow, Linked, Busy, Ended
  <2>3. UNCHANGED <<Resolving, ParentsThere, Results>>
    BY <2>1 DEF Resolving, ParentsThere, Results
  <2>4. UNCHANGED <<Registered, QueueThere>>
    BY <2>1 DEF Registered, QueueThere, Ran
  <2> QED
    BY <2>2, <2>3, <2>4 DEF RInv
<1> QED
  BY <1>1, <1>2, <1>3, <1>4 DEF Next

\* When a compile is over all that was claimed has run, and so all inputs were written.
LEMMA InvSuccess == AInv /\ RInv => SuccessIsDeserved
<1> SUFFICES ASSUME AInv, RInv, process = "success"
             PROVE  /\ Compilable(program)
                    /\ \A n \in Inputs(program) : Ran(n, Write) /\ n \notin errors
  BY DEF SuccessIsDeserved
<1>1. queue = <<>> /\ \A t \in Thread : stack[t] = <<>>
  BY DEF RInv, Ended
<1>2. locked \subseteq ran
  BY <1>1 DEF RInv, Busy
<1>3. ASSUME NEW n \in Inputs(program)
      PROVE  <<n, Write>> \in ran /\ n \notin errors /\ Correct(program, n[1])
  <2>1. n \in Node
    BY ProgramAssumption DEF Inputs, First, Node
  <2>2. <<n, Write>> \in locked
    BY <1>1, InShort DEF RInv, QueueThere
  <2> QED
    BY <1>2, <2>1, <2>2 DEF RInv, Results, Meant
<1> QED
  BY <1>3 DEF Compilable, Ran

---------------------------------------------------------------------------
(* No job of a compile that must not fail comes to what it cannot do.      *)

\* An input of a program that can be compiled has no errors.
LEMMA InputCorrect ==
  ASSUME NEW p \in Program, Compilable(p), NEW n \in Node, KindIn(p, n) = "compile"
  PROVE  Correct(p, n[1])
<1>1. n[2] = 0 /\ p.kind[n[1]] = "compile" /\ n[1] \in Script /\ n = <<n[1], n[2]>>
  BY DEF KindIn, Node
<1>2. n \in Inputs(p)
  BY <1>1 DEF Inputs, First
<1> QED
  BY <1>2 DEF Compilable

\* What is due at a stage is settled for it.
LEMMA SettledDue ==
  ASSUME NEW p, NEW m, NEW st, Settled(p, m[1], st)
  PROVE  Due(p, <<m, st>>) /\ Due(p, <<m, PreSemantic>>)
  BY SettledType DEF Due, Settled, PreSemantic, Semantic

\* a job that resolves types has those of its script
LEMMA ApiOf ==
  ASSUME NEW p \in Program, Compilable(p), NEW j \in Job, OKJob(p, j), Due(p, j), Resolves(p, j)
  PROVE  /\ HasApi(p, j[1][1]) /\ OwnTypes(p, j[1][1])
         /\ \A i \in Imported(p, j) : Reaches(p, j, i) /\ ~FoundFirst(p, i) => HasType(p, i)
         /\ j[2] = Compile => Correct(p, j[1][1])
<1>1. j[1] \in Node /\ j[1][1] \in Script
  BY DEF Job, Node
<1>2. HasApi(p, j[1][1])
  BY <1>1, InputCorrect DEF Resolves, Due, Correct
<1>3. OwnTypes(p, j[1][1])
  BY <1>1, <1>2, HasApiIs
<1>4. j[2] = Compile => Correct(p, j[1][1])
  BY <1>1, InputCorrect DEF OKJob
<1>5. \A i \in Imported(p, j) : Reaches(p, j, i) /\ ~FoundFirst(p, i) => HasType(p, i)
  <2> DEFINE s == j[1][1]
  <2>1. \A i \in ToSet(p.imports[s]) :
          FindableFrom(p, s, i) /\ (~FoundFirst(p, i) \/ ToSet(p.signature[s]) \ {s} # {})
            => HasType(p, i)
    BY <1>3 DEF OwnTypes
  <2>2. \A i : Reaches(p, j, i) <=> FindableFrom(p, s, i)
    BY ReachesIs
  <2> QED
    BY <2>1, <2>2 DEF Imported
<1> QED
  BY <1>2, <1>3, <1>4, <1>5

\* what such a job can resolve
LEMMA RefsSettled ==
  ASSUME NEW p \in Program, Compilable(p), NEW j \in Job, OKJob(p, j), Due(p, j), Resolves(p, j),
         NEW y \in Refs(p, j)
  PROVE  /\ Reaches(p, j, y) /\ Settled(p, y, j[2] - 1)
         /\ \A i \in Imported(p, j) : Reaches(p, j, i) => Settled(p, i, j[2] - 1)
<1> DEFINE s == j[1][1]
<1>1. OwnTypes(p, s) /\ (j[2] = Compile => Correct(p, s))
  BY ApiOf
<1>4. \A i : Reaches(p, j, i) <=> FindableFrom(p, s, i)
  BY ReachesIs
<1>2. CASE j[2] = Semantic
  <2>1. /\ Refs(p, j) = ToSet(p.signature[s]) \ {s} /\ Imported(p, j) = ToSet(p.imports[s])
        /\ j[2] - 1 = PreSemantic
    BY <1>2 DEF Refs, Named, Imported, PreSemantic, Semantic
  <2> QED
    BY <1>1, <1>4, <2>1 DEF OwnTypes, Settled
<1>3. CASE j[2] = Compile
  <2>1. /\ Refs(p, j) = ToSet(p.body[s]) \ {s} /\ Imported(p, j) = ToSet(p.imports[s])
        /\ j[2] - 1 = Semantic
    BY <1>3 DEF Refs, Named, Imported, Compile, Semantic
  <2>2. Settled(p, y, Semantic) <=> HasApi(p, y)
    BY DEF Settled, PreSemantic, Semantic
  <2>3. \A i : Settled(p, i, Semantic) <=> HasApi(p, i)
    BY DEF Settled, PreSemantic, Semantic
  <2> QED
    BY <1>1, <1>3, <1>4, <2>1, <2>3 DEF Correct
<1> QED
  BY <1>2, <1>3 DEF Resolves

\* A job that is due begins with what it can do.
LEMMA AbleStarts ==
  ASSUME program \in Program, Compilable(program), NEW j \in Job, OKJob(program, j), Due(program, j)
  PROVE  Able(program, Frame(j))
<1> DEFINE f == Frame(j)
           u == Steps(j)
           n == j[1]
           s == n[1]
<1>1. f.job = j /\ f.todo = u /\ f.imported = <<>>
  BY DEF Frame
<1>2. Planned(program, j, u)
  BY StepsPlanned
<1>3. /\ \A o : In(o, u) <=> Given(program, j, o)
      /\ \A i : Twice(Import(i), u) <=> Resolves(program, j) /\ Twice(i, program.imports[n[1]])
  BY <1>2 DEF Planned
<1> HIDE DEF f, u
<1>4. n \in Node /\ s \in Script /\ j[2] \in 1 .. 7 /\ ToSet(f.imported) = {}
  BY <1>1 DEF Job, Node, Stage, ToSet
<1>5. ASSUME NEW a, Given(program, j, a) PROVE DueOp(program, j, a) /\ a.do # "add"
  <2>1. CASE a = Prior(j)
    <3>1. a.do = "await" /\ a.job = <<n, j[2] - 1>>
      BY <2>1, Fields DEF Prior
    <3>2. Due(program, <<n, j[2] - 1>>)
      <4>1. CASE j[2] = Semantic
        BY <4>1 DEF Due, HasApi, PreSemantic, Semantic
      <4>2. CASE j[2] = Compile
        <5>1. HasApi(program, s)
          BY <1>4, <4>2, InputCorrect DEF OKJob, Correct
        <5> QED
          BY <4>2, <5>1 DEF Due, PreSemantic, Semantic, Compile
      <4>3. CASE j[2] # Semantic /\ j[2] # Compile
        BY <1>4, <4>3 DEF Due, PreSemantic, Semantic, Compile
      <4> QED
        BY <4>1, <4>2, <4>3
    <3> QED
      BY <3>1, <3>2 DEF DueOp
  <2>2. CASE a = Just("parse") \/ a = Just("check") \/ a = Just("super")
    BY <2>2, Fields DEF DueOp
  <2>3. CASE /\ a = Lookup(program.extends[s], PreSemantic) /\ j[2] = PreSemantic
             /\ program.extends[s] # Null
    <3>1. /\ a.do = "lookup" /\ a.script = program.extends[s] /\ a.stage = PreSemantic
      BY <2>3, Fields
    <3>2. Findable(program, program.extends[s]) /\ HasType(program, program.extends[s])
      BY <1>4, <2>3, HasTypeIs DEF Due
    <3>3. Reaches(program, j, program.extends[s])
      BY <2>3, <3>2, ReachesIs
    <3> QED
      BY <3>1, <3>2, <3>3 DEF DueOp, Settled
  <2>4. ASSUME NEW i \in Imported(program, j), a = Import(i)
        PROVE  DueOp(program, j, a) /\ a.do # "add"
    BY <2>4, Fields DEF DueOp
  <2>5. ASSUME Resolves(program, j), NEW y \in Named(program, j), a = Resolve(y, j[2] - 1)
        PROVE  DueOp(program, j, a) /\ a.do # "add"
    <3>1. a.do = "resolve" /\ a.script = y /\ a.stage = j[2] - 1
      BY <2>5, Fields
    <3>2. y = s \/ y \in Refs(program, j)
      BY DEF Refs
    <3> QED
      BY <2>5, <3>1, <3>2, RefsSettled DEF DueOp
  <2> QED
    BY <1>5, <2>1, <2>2, <2>3, <2>4, <2>5 DEF Given
<1>6. ASSUME KindIn(program, n) = "compile", NEW i \in Script \ program.qualified,
             Twice(Import(i), u)
      PROVE  FALSE
  <2> DEFINE q == program.imports[s]
  <2>1. q \in Seq(Script) /\ DOMAIN q = 1 .. Len(q) /\ Len(q) \in Nat
    BY <1>4, ProgramType
  <2>2. PICK k \in 1 .. Len(q) : \E l \in 1 .. Len(q) : k < l /\ q[k] = i /\ q[l] = i
    BY <1>3, <1>6 DEF Twice
  <2>3. PICK l \in 1 .. Len(q) : k < l /\ q[k] = i /\ q[l] = i
    BY <2>2
  <2>4. ImportsOnce(program, s)
    BY <1>4, <1>6, InputCorrect DEF Correct
  <2>5. k = l
    BY <2>1, <2>3, <2>4 DEF ImportsOnce
  <2> QED
    BY <2>3, <2>5
<1>7. \A m : ~In(Add(m), u)
  BY <1>3, <1>5, Fields
<1>8. Distinct(program, f)
  BY <1>1, <1>4, <1>6, <1>7 DEF Distinct
<1> QED
  BY <1>1, <1>3, <1>5, <1>8 DEF Able, f

\* So it can do all it comes to: what it awaits then is due, and no import is there twice.
LEMMA AbleOn ==
  ASSUME NEW p \in Program, Compilable(p), NEW par \in [Node -> Node \cup {Null}],
         NEW md, NEW md2, NEW e, NEW e2, NEW f, NEW g, NEW ops,
         Goes(f, g, ops), NewOps(p, md2, f, ops), Stems(p, Main, par, e, e2, f, ops),
         Sound(p, md, f), Ordered(f.todo), Allowed(p, f.job, f.todo[1]),
         par[f.job[1]] # Null => par[f.job[1]][1] = p.extends[f.job[1][1]],
         Able(p, f)
  PROVE  Able(p, g)
<1> DEFINE j == f.job
           n == f.job[1]
           o == f.todo[1]
<1>1. /\ g.job = j /\ j \in Job /\ n \in Node /\ n[1] \in Script /\ o \in Ops /\ In(o, f.todo)
      /\ f.imported \in Seq(Node \cup {Null})
  BY Moves DEF Goes, Job, Node
<1>2. OKJob(p, j) /\ Due(p, j) /\ OKOp(p, md, j, o) /\ DueOp(p, j, o) /\ Distinct(p, f)
  BY <1>1 DEF Sound, Able
<1>3. ASSUME o.do = "import"
      PROVE  /\ Reaches(p, j, o.script) /\ ~FoundFirst(p, o.script) => HasType(p, o.script)
             /\ KindIn(p, n) = "compile" => Reaches(p, j, o.script)
  <2>1. Resolves(p, j) /\ o.script \in Imported(p, j)
    BY <1>2, <1>3 DEF OKOp
  <2>2. Reaches(p, j, o.script) /\ ~FoundFirst(p, o.script) => HasType(p, o.script)
    BY <1>1, <1>2, <2>1, ApiOf
  <2>3. KindIn(p, n) = "compile" => Correct(p, n[1])
    BY <1>1, InputCorrect
  <2>4. Correct(p, n[1]) => \A i \in Imported(p, j) : Reaches(p, j, i)
    <3>1. \A i : Reaches(p, j, i) <=> FindableFrom(p, n[1], i)
      BY <2>1, ReachesIs
    <3> QED
      BY <3>1 DEF Correct, Imported
  <2> QED
    BY <2>1, <2>2, <2>3, <2>4
<1>4. ASSUME NEW a, In(a, ops) PROVE DueOp(p, j, a)
  <2>1. /\ a.do \in {"await", "lookup", "deref", "resolved", "add"}
        /\ a.do = "lookup" => o.do = "resolve" /\ a.script = o.script /\ a.stage = o.stage
    BY <1>4 DEF NewOps
  <2>2. CASE a.do = "lookup"
    <3>1. o.script # n[1]
      BY <1>4, <2>2 DEF Stems
    <3> QED
      BY <1>2, <2>1, <2>2, <3>1 DEF DueOp
  <2>3. CASE a.do = "await" /\ o.do = "super" /\ par[n] # Null /\ a = Await(par[n], Semantic)
    <3>1. j[2] = Semantic
      BY <2>3 DEF Allowed
    <3>2. HasApi(p, n[1])
      BY <1>2, <3>1 DEF Due
    <3>3. p.extends[n[1]] # Null
      BY <1>1, <2>3, ProgramType DEF Node
    <3>4. HasApi(p, par[n][1])
      BY <1>1, <2>3, <3>2, <3>3, HasApiIs
    <3>5. Settled(p, par[n][1], Semantic)
      BY <3>4 DEF Settled, PreSemantic, Semantic
    <3>6. a.job = <<par[n], Semantic>>
      BY <2>3, Fields
    <3> QED
      BY <2>3, <3>5, <3>6, SettledDue DEF DueOp
  <2>4. ASSUME a.do = "await", o.do = "resolve", o.script # n[1], NEW m \in ToSet(f.imported),
               m # Null, a = Await(m, o.stage)
        PROVE  DueOp(p, j, a)
    <3>1. OKImport(p, md, j, m)
      BY <2>4 DEF Sound
    <3>2. m[1] \in Imported(p, j) /\ Reaches(p, j, m[1])
      BY <2>4, <3>1 DEF OKImport
    <3>3. Settled(p, m[1], o.stage) \/ o.script = n[1]
      BY <1>2, <2>4, <3>2 DEF DueOp
    <3>4. a.job = <<m, o.stage>>
      BY <2>4, Fields
    <3> QED
      BY <2>4, <3>3, <3>4, SettledDue DEF DueOp
  <2>5. ASSUME a.do = "await", o.do = "lookup", NEW m, m[1] = o.script,
               a = Await(m, o.stage) \/ a = Await(m, PreSemantic)
        PROVE  DueOp(p, j, a)
    <3>1. Settled(p, m[1], o.stage)
      BY <1>2, <2>5 DEF DueOp
    <3>2. a.job = <<m, o.stage>> \/ a.job = <<m, PreSemantic>>
      BY <2>5, Fields
    <3> QED
      BY <2>5, <3>1, <3>2, SettledDue DEF DueOp
  <2>6. ASSUME a.do = "await", o.do = "import", ~FoundFirst(p, o.script), Reaches(p, j, o.script),
               NEW m, m[1] = o.script, a = Await(m, PreSemantic)
        PROVE  DueOp(p, j, a)
    <3>1. Settled(p, m[1], PreSemantic)
      BY <1>3, <2>6 DEF Settled
    <3>2. a.job = <<m, PreSemantic>>
      BY <2>6, Fields
    <3> QED
      BY <2>6, <3>1, <3>2, SettledDue DEF DueOp
  <2>7. CASE a.do \notin {"await", "lookup"}
    BY <2>1, <2>7 DEF DueOp
  <2>8. a.do = "await" =>
          \/ o.do = "super" /\ par[n] # Null /\ a = Await(par[n], Semantic)
          \/ /\ o.do = "resolve" /\ o.script # n[1]
             /\ \E m \in ToSet(f.imported) : m # Null /\ a = Await(m, o.stage)
          \/ /\ o.do = "lookup"
             /\ \E m : m[1] = o.script /\ (a = Await(m, o.stage) \/ a = Await(m, PreSemantic))
          \/ /\ o.do = "import" /\ ~FoundFirst(p, o.script) /\ Reaches(p, j, o.script)
             /\ \E m : m[1] = o.script /\ a = Await(m, PreSemantic)
    BY <1>4 DEF Stems
  <2> QED
    BY <2>2, <2>3, <2>4, <2>5, <2>6, <2>7, <2>8
<1>5. \A a : In(a, g.todo) => DueOp(p, j, a)
  BY <1>4, Moves DEF Able
<1>6. ASSUME KindIn(p, n) = "compile" PROVE Distinct(p, g)
  <2>1. /\ \A a : In(a, g.todo) => In(a, ops) \/ In(a, Tail(f.todo))
        /\ \A a : In(a, Tail(f.todo)) => In(a, f.todo)
        /\ \A a : Twice(a, g.todo) =>
             Twice(a, ops) \/ Twice(a, f.todo) \/ (In(a, ops) /\ In(a, Tail(f.todo)))
        /\ In(o, Tail(f.todo)) => Twice(o, f.todo)
        /\ \A a : In(a, Tail(f.todo)) => MayPrecede(o, a)
        /\ ToSet(g.imported) = IF o.do = "add" THEN ToSet(f.imported) \cup {o.node}
                               ELSE ToSet(f.imported)
        /\ \A a : Twice(a, ops) => In(a, ops)
    BY Moves, ImportedNow, TwiceIn
  <2>2. \A i : ~In(Import(i), ops)
    BY Fields DEF NewOps
  <2>3. ASSUME NEW m, In(Add(m), ops)
        PROVE  /\ o.do = "import" /\ m # Null /\ m[1] = o.script
               /\ o.script \in p.qualified => m \notin ToSet(f.imported)
    <3>1. Add(m).do = "add" /\ Add(m).node = m
      BY Fields
    <3>2. o.do = "import"
      BY <2>3, <3>1 DEF NewOps
    <3> QED
      BY <1>3, <1>6, <2>3, <3>1, <3>2 DEF Stems
  <2>4. \A i \in Script \ p.qualified : ~Twice(Import(i), g.todo)
    BY <1>2, <1>6, <2>1, <2>2 DEF Distinct
  <2>5. ASSUME NEW i \in Script \ p.qualified, In(Import(i), g.todo), NEW m \in Node, m[1] = i
        PROVE  m \notin ToSet(g.imported) /\ ~In(Add(m), g.todo)
    <3>1. In(Import(i), Tail(f.todo)) /\ In(Import(i), f.todo)
      BY <2>1, <2>2, <2>5
    <3>2. m \notin ToSet(f.imported) /\ ~In(Add(m), f.todo)
      BY <1>2, <1>6, <2>5, <3>1 DEF Distinct
    <3>3. o.do = "add" => o = Add(o.node)
      BY <1>1, OpIs
    <3>4. m \notin ToSet(g.imported)
      BY <1>1, <2>1, <3>2, <3>3
    <3>5. ASSUME In(Add(m), ops) PROVE FALSE
      <4>1. o.do = "import" /\ o.script = i
        BY <2>3, <2>5, <3>5
      <4>2. o = Import(i)
        BY <1>1, <4>1, OpIs
      <4> QED
        BY <1>2, <1>6, <2>1, <3>1, <4>2 DEF Distinct
    <3> QED
      BY <2>1, <3>2, <3>4, <3>5
  <2>6. ASSUME NEW m, In(Add(m), g.todo) PROVE m \notin ToSet(g.imported)
    <3>1. CASE In(Add(m), ops)
      <4>1. /\ o.do = "import" /\ m # Null /\ m[1] = o.script /\ o.do # "add"
            /\ o.script \in p.qualified => m \notin ToSet(f.imported)
        BY <2>3, <3>1
      <4>2. CASE o.script \in p.qualified
        BY <2>1, <4>1, <4>2
      <4>3. CASE o.script \notin p.qualified
        <5>1. o = Import(o.script) /\ o.script \in Script
          BY <1>1, <4>1, OpIs
        <5>2. \A k \in Node : k[1] = o.script => k \notin ToSet(f.imported)
          BY <1>1, <1>2, <1>6, <4>3, <5>1 DEF Distinct
        <5>3. ToSet(f.imported) \subseteq Node \cup {Null}
          BY ImportedNow
        <5> QED
          BY <2>1, <4>1, <5>2, <5>3
      <4> QED
        BY <4>2, <4>3
    <3>2. CASE In(Add(m), Tail(f.todo))
      <4>1. m \notin ToSet(f.imported)
        BY <1>2, <1>6, <2>1, <3>2 DEF Distinct
      <4>2. o.do # "add"
        BY <2>1, <3>2, Fields DEF MayPrecede
      <4> QED
        BY <2>1, <4>1, <4>2
    <3> QED
      BY <2>1, <2>6, <3>1, <3>2
  <2> QED
    BY <2>4, <2>5, <2>6 DEF Distinct
<1>7. Distinct(p, g)
  BY <1>1, <1>6 DEF Distinct
<1> QED
  BY <1>1, <1>2, <1>5, <1>7 DEF Able

\* the frames of the thread that has it all
LEMMA StepAble ==
  ASSUME AInv, RInv, FInv, Fair(program), ResultShape(Main), program' = program,
         NEW i \in 1 .. Len(stack'[Main])
  PROVE  Able(program, stack'[Main][i])
<1>1. /\ Main \in Thread /\ IInv /\ FramesKnow /\ program \in Program /\ Compilable(program)
      /\ Len(stack[Main]) \in Nat /\ \A k \in 1 .. Len(stack[Main]) : Able(program, stack[Main][k])
  BY ProgramAssumption DEF AInv, IInv, Stacks, RInv, FInv, Fair
<1>2. CASE UNCHANGED <<stack, ran, locked, errors, made, registered>>
  BY <1>1, <1>2
<1>3. ASSUME NEW j, Begins(Main, j), OKJob(program, j),
             \/ stack[Main] = <<>> /\ j[2] \in {Read, Write}
             \/ At(Main, "await") /\ Op(Main).job = j
      PROVE  Able(program, stack'[Main][i])
  <2>1. CASE i \in 1 .. Len(stack[Main])
    BY <1>1, <1>3, <2>1 DEF Begins
  <2>2. CASE i \notin 1 .. Len(stack[Main])
    <3>1. i = Len(stack[Main]) + 1 /\ j \in Job /\ stack'[Main][i] = Frame(j)
      BY <1>1, <1>3, <2>2 DEF Begins
    <3>2. Due(program, j)
      <4>1. CASE j[2] \in {Read, Write}
        BY <4>1 DEF Due, Read, Write, PreSemantic, Semantic
      <4>2. CASE At(Main, "await") /\ Op(Main).job = j
        <5>1. /\ stack[Main] # <<>> /\ Top(Main).todo # <<>> /\ Op(Main).do = "await"
          BY <4>2 DEF At
        <5>2. Able(program, Top(Main)) /\ In(Op(Main), Top(Main).todo)
          BY <1>1, <5>1, TopType, TopOp
        <5> QED
          BY <4>2, <5>1, <5>2 DEF Able, DueOp
      <4> QED
        BY <1>3, <4>1, <4>2
    <3> QED
      BY <1>1, <1>3, <3>1, <3>2, AbleStarts
  <2> QED
    BY <2>1, <2>2
<1>4. CASE Returns(Main)
  BY <1>1, <1>4 DEF Returns
<1>5. ASSUME NEW ops, Advances(Main, ops)
      PROVE  Able(program, stack'[Main][i])
  <2>1. /\ stack[Main] # <<>> /\ Top(Main).todo # <<>> /\ i \in 1 .. Len(stack[Main])
        /\ Top(Main) = stack[Main][Len(stack[Main])] /\ Len(stack[Main]) \in 1 .. Len(stack[Main])
    BY <1>1, <1>5, TopType DEF Advances, GoesOn
  <2>2. CASE i = Len(stack[Main])
    <3>1. /\ Goes(Top(Main), stack'[Main][Len(stack[Main])], ops)
          /\ NewOps(program, made', Top(Main), ops)
          /\ Stems(program, Main, parent, errors, errors', Top(Main), ops)
      BY <1>5 DEF Advances
    <3>2. /\ Sound(program, made, Top(Main)) /\ Ordered(Top(Main).todo) /\ Able(program, Top(Main))
      BY <1>1, <2>1, TopKnows DEF Knows
    <3>3. /\ Allowed(program, Top(Main).job, Top(Main).todo[1])
          /\ Top(Main).job[1] \in Node
      BY <1>1, <2>1, OpType, TopOp
    <3>4. /\ parent \in [Node -> Node \cup {Null}]
          /\ parent[Top(Main).job[1]] # Null =>
               parent[Top(Main).job[1]][1] = program.extends[Top(Main).job[1][1]]
      BY <1>1, <3>3 DEF IInv, Parents
    <3>5. PICK f, g : f = Top(Main) /\ g = stack'[Main][Len(stack[Main])]
      OBVIOUS
    <3>6. Able(program, g)
      BY <1>1, <3>1, <3>2, <3>3, <3>4, <3>5, AbleOn
    <3> QED
      BY <2>2, <3>5, <3>6
  <2>3. CASE i # Len(stack[Main])
    BY <1>1, <1>5, <2>1, <2>3 DEF Advances, GoesOn
  <2> QED
    BY <2>2, <2>3
<1> QED
  BY <1>2, <1>3, <1>4, <1>5 DEF ResultShape

\* What has an error is an import, and is broken or past the stage at which it would matter.
LEMMA StepErrorsApart ==
  ASSUME AInv, RInv, FInv, Fair(program), ResultShape(Main), program' = program
  PROVE  ErrorsApart'
<1>1. /\ Main \in Thread /\ IInv /\ FramesKnow /\ program \in Program /\ Compilable(program)
      /\ ErrorsApart /\ \A k \in 1 .. Len(stack[Main]) : Able(program, stack[Main][k])
  BY ProgramAssumption DEF AInv, IInv, RInv, FInv, Fair
<1>2. ran \subseteq ran'
  BY DEF ResultShape, Advances
<1>3. CASE errors' = errors
  BY <1>1, <1>2, <1>3 DEF ErrorsApart, Ran
<1>4. ASSUME NEW ops, Advances(Main, ops), errors' # errors
      PROVE  ErrorsApart'
  <2> DEFINE f == Top(Main)
             j == f.job
             n == j[1]
             o == f.todo[1]
  <2>1. stack[Main] # <<>> /\ f.todo # <<>> /\ j \in Job /\ n \in Node /\ o \in Ops /\ In(o, f.todo)
    BY <1>1, <1>4, TopOp DEF Advances, GoesOn, Self
  <2>2. /\ Sound(program, made, f) /\ Own(ran, f) /\ Able(program, f)
    BY <1>1, <2>1, TopKnows, TopType DEF Knows
  <2>3. /\ errors' \subseteq errors \cup {n}
        /\ \/ o.do = "parse" /\ n[1] \in Refused(program)
           \/ o.do = "import" /\ ~Reaches(program, j, o.script)
           \/ o.do = "add" /\ o.node \in ToSet(f.imported)
    BY <1>4 DEF Advances, Blames, Stems
  <2>4. KindIn(program, n) = "compile" => Correct(program, n[1])
    BY <1>1, <2>1, InputCorrect
  <2>5. ASSUME o.do = "parse", n[1] \in Refused(program)
        PROVE  KindIn(program, n) # "compile"
    BY <2>4, <2>5, NotAboveItself DEF Correct, HasApi
  <2>6. ASSUME o.do \in {"import", "add"}, KindIn(program, n) # "compile"
        PROVE  <<n, PreSemantic>> \in ran
    <3>1. j[2] = Semantic
      BY <2>1, <2>2, <2>6 DEF Sound, OKOp, Resolves
    <3> QED
      BY <2>2, <2>6, <3>1, Fields DEF Own, Semantic, PreSemantic
  <2>7. ASSUME o.do = "import", ~Reaches(program, j, o.script)
        PROVE  KindIn(program, n) # "compile"
    <3>1. o.script \in ToSet(program.imports[n[1]]) /\ Resolves(program, j)
      BY <2>1, <2>2, <2>7 DEF Sound, OKOp, Imported
    <3>2. ~FindableFrom(program, n[1], o.script)
      BY <2>7, <3>1, ReachesIs
    <3> QED
      BY <2>4, <3>1, <3>2 DEF Correct
  <2>8. ASSUME o.do = "add", o.node \in ToSet(f.imported)
        PROVE  KindIn(program, n) # "compile"
    <3>1. In(Add(o.node), f.todo)
      BY <2>1, <2>8, OpIs
    <3> QED
      BY <2>2, <2>8, <3>1 DEF Able, Distinct
  <2>9. KindIn(program, n) # "compile" /\ (n[1] \in Refused(program) \/ <<n, PreSemantic>> \in ran)
    BY <2>3, <2>5, <2>6, <2>7, <2>8
  <2> HIDE DEF n
  <2> QED
    BY <1>1, <1>2, <2>3, <2>9 DEF ErrorsApart, Ran
<1> QED
  BY <1>3, <1>4 DEF ResultShape

\* No job it awaits is one it is inside of.
LEMMA NoneItself ==
  ASSUME AInv, RInv, FInv, Fair(program)
  PROVE  ~AwaitSelf(Main)
<1> SUFFICES ASSUME AwaitSelf(Main) PROVE FALSE
  OBVIOUS
<1>1. /\ Main \in Thread /\ IInv /\ program \in Program
      /\ \A k \in 1 .. Len(stack[Main]) : Able(program, stack[Main][k])
  BY ProgramAssumption DEF AInv, IInv, FInv
<1>2. At(Main, "await") /\ Op(Main).job \in Inside(Main)
  BY DEF AwaitSelf
<1>3. PICK k \in 1 .. Len(stack[Main]) : Op(Main).job = stack[Main][k].job
  BY <1>1, <1>2, InsideType
<1>4. PICK j : j = stack[Main][k].job
  OBVIOUS
<1>5. Before(program, j, j) /\ Due(program, j) /\ j \in Job
  BY <1>1, <1>2, <1>3, <1>4, AwaitsBefore DEF Able
<1>6. j[2] \in {PreSemantic, Semantic} /\ j[1][1] \in Above(program, j[1][1])
  BY <1>5 DEF Before, Job, Stage
<1>7. HasType(program, j[1][1])
  BY <1>5, <1>6 DEF Due, HasApi
<1> QED
  BY <1>6, <1>7, NotAboveItself

\* No count of errors finds any.
LEMMA NoErrors ==
  ASSUME AInv, RInv, FInv, Fair(program), At(Main, "check")
  PROVE  Self(Main) \notin errors
<1> DEFINE f == Top(Main)
           j == f.job
           n == j[1]
<1>1. /\ Main \in Thread /\ IInv /\ FramesKnow /\ ErrorsApart /\ stack[Main] # <<>> /\ f.todo # <<>>
      /\ Op(Main).do = "check"
  BY ProgramAssumption DEF AInv, RInv, FInv, At
<1>2. /\ In(Op(Main), f.todo) /\ j \in Job /\ Self(Main) = n /\ f = stack[Main][Len(stack[Main])]
      /\ Len(stack[Main]) \in 1 .. Len(stack[Main])
  BY <1>1, TopOp, TopType
<1>3. j[2] = PreSemantic \/ KindIn(program, n) = "compile"
  BY <1>1, <1>2, TopKnows DEF Sound, OKOp
<1>4. Due(program, j)
  BY <1>2 DEF FInv, Able
<1>5. j \notin ran
  BY <1>1, <1>2 DEF AInv, Once
<1>6. CASE KindIn(program, n) = "compile"
  BY <1>1, <1>2, <1>6 DEF ErrorsApart
<1>7. CASE j[2] = PreSemantic
  <2>1. n[1] \notin Refused(program)
    BY <1>4, <1>7, NotAboveItself DEF Due
  <2>2. j = <<n, PreSemantic>>
    BY <1>2, <1>7 DEF Job
  <2> QED
    BY <1>1, <1>2, <1>5, <2>1, <2>2 DEF ErrorsApart, Ran
<1> QED
  BY <1>3, <1>6, <1>7

\* No script whose type is looked up is being resolved: it would be above itself.
LEMMA NotResolving ==
  ASSUME IInv, Linked, Resolving, At(Main, "lookup"), HasType(program, Op(Main).script)
  PROVE  Op(Main).script \notin resolving
<1> DEFINE s == stack[Main]
           l == Len(s)
           j == Top(Main).job
           x == Op(Main).script
<1> SUFFICES ASSUME x \in resolving PROVE FALSE
  OBVIOUS
<1>1. /\ Main \in Thread /\ s # <<>> /\ Top(Main).todo # <<>> /\ Op(Main).do = "lookup"
      /\ program \in Program
  BY ProgramAssumption DEF At, IInv
<1>2. /\ Top(Main) = s[l] /\ l \in Nat \ {0} /\ Descending(program, s) /\ j \in Job
      /\ Op(Main) = Top(Main).todo[1] /\ Op(Main) \in Ops /\ Allowed(program, j, Op(Main))
      /\ j[1] \in Node /\ j[1][1] \in Script
  BY <1>1, TopType, TopOp, OpType DEF IInv, Stacks, Self
<1>3. x \in Script /\ Op(Main).stage \in {PreSemantic, Semantic}
  BY <1>1, <1>2, OpIs
<1>4. AtProvider(s, x)
  BY DEF Resolving
<1>5. PICK i \in 1 .. l :
        /\ s[i].todo # <<>>
        /\ \/ s[i].todo[1] = Resolved(x)
           \/ \E m \in Node : m[1] = x /\ s[i].todo[1] = Await(m, PreSemantic)
  BY <1>4 DEF AtProvider
<1>6. i # l
  BY <1>1, <1>2, <1>5, Fields
<1>7. s[i].todo[1].do = "await" /\ s[i].todo[1].job = s[i + 1].job /\ i + 1 \in 1 .. l
  BY <1>1, <1>2, <1>6 DEF Linked
<1>8. PICK m \in Node : m[1] = x /\ s[i].todo[1] = Await(m, PreSemantic)
  BY <1>5, <1>7, Fields
<1>9. j[2] <= PreSemantic
  <2>1. AtAwait(s, m)
    BY <1>5, <1>8 DEF AtAwait
  <2> QED
    BY <1>1, <2>1, NotInside
<1>10. j[2] = PreSemantic /\ x = program.extends[j[1][1]]
  BY <1>1, <1>2, <1>3, <1>9 DEF Allowed, Job, Stage, PreSemantic, Semantic
<1>11. x \in Above(program, j[1][1])
  BY <1>1, <1>2, <1>3, <1>10, AboveExtends, ProgramAssumption
<1>12. s[i + 1].job = <<m, PreSemantic>>
  BY <1>7, <1>8, Fields
<1>13. x \in Above(program, x)
  <2>1. CASE i + 1 = l
    <3>1. j[1][1] = x
      BY <1>2, <1>8, <1>12, <2>1
    <3> QED
      BY <1>11, <3>1
  <2>2. CASE i + 1 # l
    <3>1. Before(program, j, s[i + 1].job)
      BY <1>2, <1>7, <2>2 DEF Descending
    <3>2. j[1][1] \in Above(program, x)
      BY <1>8, <1>10, <1>12, <3>1 DEF Before, PreSemantic
    <3> QED
      BY <1>3, <1>11, <3>2, AboveTransitive
  <2> QED
    BY <2>1, <2>2
<1> QED
  BY <1>13, NotAboveItself

\* No type it looks up is missing.
LEMMA NoneMissing ==
  ASSUME AInv, RInv, FInv, Fair(program), At(Main, "lookup")
  PROVE  ~Missing(Main)
<1> DEFINE x == Op(Main).script
<1>1. /\ Main \in Thread /\ IInv /\ Registered /\ Linked /\ Resolving /\ stack[Main] # <<>>
      /\ Top(Main).todo # <<>> /\ Op(Main).do = "lookup" /\ program \in Program
  BY ProgramAssumption DEF AInv, IInv, RInv, At
<1>2. /\ In(Op(Main), Top(Main).todo) /\ Op(Main) \in Ops
      /\ Top(Main) = stack[Main][Len(stack[Main])]
      /\ Len(stack[Main]) \in 1 .. Len(stack[Main])
  BY <1>1, TopOp, TopType
<1>3. x \in Script
  BY <1>1, <1>2, OpIs
<1>4. Reaches(program, Top(Main).job, x) /\ HasType(program, x)
  <2>1. DueOp(program, Top(Main).job, Op(Main))
    BY <1>2 DEF FInv, Able
  <2> QED
    BY <1>1, <2>1 DEF DueOp, Settled, HasApi
<1>5. Findable(program, x) /\ ~AsksApart(program, Top(Main).job)
  BY <1>4 DEF Reaches
<1>7. CASE FoundFirst(program, x)
  BY <1>1, <1>3, <1>5, <1>7 DEF Registered, FoundFirst, Missing, TryFind
<1>6. CASE ~FoundFirst(program, x)
  <2>1. x \in program.provides
    BY <1>5, <1>6 DEF Findable
  <2>2. program.library
    BY <1>1, <2>1, ProgramAssumption
  <2>3. x \notin resolving
    BY <1>1, <1>4, NotResolving
  <2> QED
    BY <1>5, <2>1, <2>2, <2>3 DEF Missing, MayProvide, HasProvider
<1> QED
  BY <1>6, <1>7

\* So no exception ends it.
LEMMA StepThrowsNot ==
  ASSUME AInv, RInv, FInv, Fair(program), Step(Main)
  PROVE  process' # "failed"
<1>1. process = "running"
  BY StepRuns, ProgramAssumption DEF Running
<1>2. ~AwaitSelf(Main)
  BY NoneItself
<1>3. CASE ExitIfErrors(Main)
  BY <1>1, <1>3, NoErrors DEF ExitIfErrors
<1>4. ~TypeMissing(Main)
  BY NoneMissing DEF TypeMissing
<1> QED
  BY <1>1, <1>2, <1>3, <1>4
     DEF Step, TakeJob, Finish, AwaitRan, AwaitRun, ParseFile, AwaitSuper, ResolveType,
         Dereference, Found, Provide, LeaveResolving, ImportMissing, AddImport

\* It has not failed when it begins.
LEMMA FreshFInv == Fresh => FInv
<1> SUFFICES ASSUME Fresh PROVE FInv
  OBVIOUS
<1>1. /\ Main \in Thread /\ process = "running" /\ errors = {}
      /\ stack = [t \in Thread |-> <<>>]
  BY BeginType, ProgramAssumption DEF Fresh
<1> QED
  BY <1>1 DEF FInv, ErrorsApart

\* Nor does a step make it fail.
LEMMA NextFInv == AInv /\ RInv /\ FInv /\ [Next]_vars => FInv'
<1> SUFFICES ASSUME AInv, RInv, FInv, [Next]_vars PROVE FInv'
  OBVIOUS
<1>1. ASSUME NEW t \in Thread, Step(t) PROVE FInv'
  <2>1. program' = program /\ t \in program.threads
    BY <1>1, StepRuns DEF Step, Running
  <2>2. CASE ~Fair(program)
    BY <2>1, <2>2 DEF FInv
  <2>3. CASE Fair(program)
    <3>1. t = Main
      BY <2>1, <2>3 DEF Fair
    <3>2. ResultShape(Main) /\ Step(Main)
      BY <1>1, <3>1, StepHasResult DEF AInv
    <3> QED
      BY <2>1, <2>3, <3>2, StepAble, StepErrorsApart, StepThrowsNot DEF FInv
  <2> QED
    BY <2>2, <2>3
<1>2. CASE (Exit /\ UNCHANGED program) \/ UNCHANGED vars
  <2>1. /\ UNCHANGED <<program, ran, stack, errors>>
        /\ process' = process \/ process' = "success"
    BY <1>2 DEF Exit, vars
  <2> QED
    BY <2>1 DEF FInv, ErrorsApart, Ran
<1>3. CASE Recompile
  <2>1. Fresh'
    BY <1>3, ProgramAssumption DEF Recompile, Fresh
  <2> QED
    BY <2>1, FreshFInv, PTL
<1> QED
  BY <1>1, <1>2, <1>3 DEF Next

\* Success means that every input was written and none of them had an error to report; a
\* serial compile fails only when an input, or what it needs, has an error.
THEOREM ResultIsDeservedCorrect == Spec => []ResultIsDeserved
<1> DEFINE Inv == AInv /\ RInv /\ FInv
<1>1. Init => Inv
  <2>1. Init => AInv
    BY InitIInv, InitClaims, BeginType, NothingRun DEF Init, AInv
  <2>2. Init => Fresh
    BY DEF Init, Fresh
  <2> QED
    BY <2>1, <2>2, FreshRInv, FreshFInv
<1>2. Inv /\ [Next]_vars => Inv'
  BY NextAInv, NextRInv, NextFInv
<1>3. Inv => ResultIsDeserved
  <2>1. Inv => SuccessIsDeserved
    BY InvSuccess
  <2>2. Inv => FailureIsDeserved
    BY DEF FInv, Fair, FailureIsDeserved
  <2> QED
    BY <2>1, <2>2 DEF ResultIsDeserved
<1> QED
  BY <1>1, <1>2, <1>3, PTL DEF Spec
=============================================================================
