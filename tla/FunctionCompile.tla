-------------------------- MODULE FunctionCompile --------------------------
(***************************************************************************)
(* A function on its way from the syntax tree to the engine: the semantic  *)
(* pass over its body (PapyrusFunction::semantic2), the generation of its  *)
(* code (PapyrusFunction::buildPex), the optimizer if it is enabled, and   *)
(* then the engine, which is no part of the repository, running the code   *)
(* one instruction at a time and answering whatever leaves the function    *)
(* with any of the inputs.                                                 *)
(*                                                                         *)
(* What the code does is compared with the meaning of the statements on    *)
(* the inputs that were taken.                                             *)
(***************************************************************************)
EXTENDS PapyrusCFG, Integers, Sequences, SequencesExt, TLC

CONSTANTS TempTypes,               \* the types of temporaries
          EnableCKOptimizations,   \* conf::CodeGeneration
          Programs,    \* functions: [body, returns] and
                       \* the variables [variables] of the script they use
          Inputs,      \* what the engine answers
          MaxInputs    \* bound: the answers of the engine in a run

Code      == INSTANCE Lowering
Optimizer == INSTANCE PexOptimizer
Language  == INSTANCE PapyrusMeaning

VARIABLES program, phase,
          warned,    \* W1000 was reported
          fn,        \* the code
          pc, env,   \* the engine: the next instruction, the variables,
          held,      \* how often each guard is locked,
          trace,     \* the events so far,
          taken,     \* the answers given,
          result     \* and the value of the function, a sequence of one; it
                     \* is empty if control left the code at its end

vars == <<program, phase, warned, fn, pc, env, held, trace, taken, result>>
engine == <<pc, env, held, trace, taken, result>>

NoCode == [code |-> <<>>, lines |-> <<>>, locals |-> <<>>,
           broken |-> FALSE, failed |-> FALSE]

Init ==
  /\ program \in Programs
  /\ phase = "parsed"
  /\ warned = FALSE
  /\ fn = NoCode
  /\ pc = 0 /\ env = <<>> /\ held = <<>> /\ trace = <<>> /\ taken = <<>>
  /\ result = <<>>

-----------------------------------------------------------------------------
(* The compiler. *)

\* A Break or Continue out of nothing is reported, and the graph is built all
\* the same.
Errors(body) == JumpErrors(body, FALSE, FALSE) \cup LockErrors(body)

\* The graph of every function and the code of those without an error, as
\* functions that are worked out once, before any state.
GraphOf == [p \in Programs |-> processStatements(p.body, EmptyCFG)] @@ <<>>

CodeOf ==
  [p \in {q \in Programs : Errors(q.body) = {}} |->
     Code!buildFunction(p.body, CheckLocalNames(p.body), 1)] @@ <<>>

Semantic ==
  LET g == GraphOf[program]
  IN /\ phase = "parsed"
     /\ phase' = IF g.broken THEN "crashed"
                 ELSE IF g.errors \cup Errors(program.body) # {} THEN "rejected"
                 ELSE "analyzed"
     /\ warned' = (program.returns /\ Not_All_Control_Paths_Return(g))
     /\ UNCHANGED <<program, fn, engine>>

BuildPex ==
  /\ phase = "analyzed"
  /\ fn' = CodeOf[program]
  /\ phase' = IF fn'.failed \/ fn'.broken THEN "crashed" ELSE "built"
  /\ UNCHANGED <<program, warned, engine>>

\* killInstruction gives an instruction that is a part of the file's pool to
\* delete, which is undefined: the heap may end the process over it, or not.
Optimize ==
  /\ phase = "built"
  /\ \/ fn' = Optimizer!optimize(fn) /\ phase' = "optimized"
     \/ /\ Optimizer!Killed(fn.code) # {}
        /\ phase' = "aborted"
        /\ UNCHANGED fn
  /\ UNCHANGED <<program, warned, engine>>

-----------------------------------------------------------------------------
(* The engine. *)

Call ==
  /\ phase \in {"built", "optimized"}
  /\ phase' = "running"
  /\ UNCHANGED <<program, warned, fn, engine>>

Running == phase = "running" /\ pc < Len(fn.code)

Instruction == fn.code[pc + 1]

Value(v) ==
  CASE v.k = "int"  -> v.n
    [] v.k = "none" -> 0
    [] v.k = "id"   -> IF v.n = "self" THEN Language!SelfReference
                       ELSE IF v.n \in DOMAIN env THEN env[v.n] ELSE 0

\* The local variable an instruction writes to, and its type; what is no local
\* variable has none.
Dest == Instruction.args[Code!DestArg[Instruction.op]].n

DestType ==
  IF \E l \in DOMAIN fn.locals : fn.locals[l].name = Dest
  THEN fn.locals[CHOOSE l \in DOMAIN fn.locals :
                   fn.locals[l].name = Dest].type
  ELSE "Unknown"

Writes(v) == env' = (Dest :> v) @@ env

\* What an instruction reads.
Sources ==
  LET d   == Code!DestArg[Instruction.op]
      own == IF d = 0 THEN Instruction.args
             ELSE RemoveAt(Instruction.args, d)
  IN [i \in DOMAIN own |-> Value(own[i])]
     \o [i \in DOMAIN Instruction.variadicArgs |->
           Value(Instruction.variadicArgs[i])]

GuardOps == {"lockguards", "trylockguards", "unlockguards"}
Names    == [i \in DOMAIN Instruction.variadicArgs |->
               Instruction.variadicArgs[i].n]

Event ==
  IF Instruction.op \in GuardOps
  THEN Language!Event(Instruction.op, ToString(Names), <<>>)
  ELSE Language!Event(Instruction.op, Instruction.name, Sources)

Internal == {"assign", "cast", "not", "ineg", "iadd", "isub", "imul",
             "cmpeq", "cmplt", "cmplte", "cmpgt", "cmpgte"}

\* A call of a function that returns nothing is not answered.
IsAnswered ==
  /\ Code!DestArg[Instruction.op] # 0
  /\ Instruction.op \notin Internal
  /\ DestType # "None"

Compute ==
  LET s == Sources
      v == CASE Instruction.op = "assign" -> s[1]
             [] Instruction.op = "cast" -> Language!Converted(DestType, s[1])
             [] Instruction.op = "not"  -> Language!Truth(s[1] = 0)
             [] Instruction.op = "ineg" -> -s[1]
             [] OTHER -> Language!Compute(Instruction.op, s[1], s[2])
  IN /\ Running /\ Instruction.op \in Internal
     /\ Writes(v)
     /\ pc' = pc + 1
     /\ UNCHANGED <<program, phase, warned, fn, held, trace, taken, result>>

Jump ==
  LET cond == Value(Instruction.args[1])
      goes == CASE Instruction.op = "jmp"  -> TRUE
                [] Instruction.op = "jmpt" -> cond # 0
                [] Instruction.op = "jmpf" -> cond = 0
  IN /\ Running /\ Code!IsBranch(Instruction.op)
     /\ pc' = IF goes THEN Optimizer!branchTarget(fn.code, pc + 1) - 1
              ELSE pc + 1
     /\ UNCHANGED <<program, phase, warned, fn, env, held, trace, taken,
                    result>>

CountOf(g)   == IF g \in DOMAIN held THEN held[g] ELSE 0
HeldPlus(by) == [g \in Range(Names) |-> CountOf(g) + by] @@ held

\* An operation that is not answered.
Tell ==
  /\ Running
  /\ ~Code!IsBranch(Instruction.op) /\ Instruction.op \notin Internal
  /\ Instruction.op # "ret" /\ ~IsAnswered
  /\ trace' = Append(trace, Event)
  /\ held' = CASE Instruction.op = "lockguards"   -> HeldPlus(1)
               [] Instruction.op = "unlockguards" -> HeldPlus(-1)
               [] OTHER -> held
  /\ pc' = pc + 1
  /\ UNCHANGED <<program, phase, warned, fn, env, taken, result>>

Ask ==
  /\ Running /\ IsAnswered
  /\ Len(taken) < MaxInputs
  /\ \E answer \in Inputs :
       /\ taken' = Append(taken, answer)
       /\ Writes(answer)
       /\ held' = IF Instruction.op = "trylockguards" /\ answer # 0
                  THEN HeldPlus(1) ELSE held
  /\ trace' = Append(trace, Event)
  /\ pc' = pc + 1
  /\ UNCHANGED <<program, phase, warned, fn, result>>

Ret ==
  /\ Running /\ Instruction.op = "ret"
  /\ phase' = "ended"
  /\ result' = <<Value(Instruction.args[1])>>
  /\ UNCHANGED <<program, warned, fn, pc, env, held, trace, taken>>

FallOff ==
  /\ phase = "running" /\ pc = Len(fn.code)
  /\ phase' = "ended"
  /\ UNCHANGED <<program, warned, fn, engine>>

Next == \/ Semantic \/ BuildPex \/ Optimize \/ Call
        \/ Compute \/ Jump \/ Tell \/ Ask \/ Ret \/ FallOff

Spec == Init /\ [][Next]_vars /\ WF_vars(Next)
-----------------------------------------------------------------------------
(* Properties. *)

\* The code does what the statements mean: at every moment what it did outside
\* the function is what the meaning does first on the same answers, and when
\* it ends nothing is missing, the value is that of the meaning and so are the
\* variables of the script.  This is about all of the generation of code: the
\* order of the instructions, the labels, the temporaries that are used again
\* (PexFunctionBuilder::fixup), the unlocking before a return, the mangled
\* names, and what the optimizer removes.
BehaviourPreserved ==
  phase \in {"running", "ended"} =>
    LET m == Language!Meaning(program.body, taken)
    IN /\ IsPrefix(trace, m.trace)
       /\ phase = "ended" =>
            /\ trace = m.trace
            /\ \/ m.flow = "next" /\ result = <<>>
               \/ m.flow = "return" /\ result = <<m.val>>
            /\ \A x \in program.variables :
                 Language!Get(m, x) = IF x \in DOMAIN env THEN env[x] ELSE 0

Uses(kind) == \E s \in Range(Visited(program.body)) : s.k = kind

\* The code that is handed over is whole: each jump goes to an instruction or
\* right behind the last, each local variable has a name of its own, there is
\* a line for every instruction, and the lines never go back.
CodeIsWhole ==
  phase \in {"built", "optimized", "running", "ended"} =>
    /\ \A i \in DOMAIN fn.code :
         Code!IsBranch(fn.code[i].op) =>
           Optimizer!branchTarget(fn.code, i) \in 1..(Len(fn.code) + 1)
    /\ \A k, l \in DOMAIN fn.locals :
         fn.locals[k].name = fn.locals[l].name => k = l
    /\ Len(fn.lines) = Len(fn.code)
    /\ \A i \in 1..(Len(fn.lines) - 1) : fn.lines[i] <= fn.lines[i + 1]

\* Where a function ends no guard is held, and none was unlocked more often than
\* locked on the way: of the guards around a Return each is unlocked, whatever
\* loops and branches are between.
GuardsBalanced ==
  \A g \in DOMAIN held : /\ held[g] >= 0
                        /\ phase = "ended" => held[g] = 0

\* A Switch without a Case, which the grammar allows (README.md, "Switch").
CaselessSwitch ==
  \E s \in Range(Visited(program.body)) : s.k = "switch" /\ s.cases = <<>>

\* An instruction that does nothing: it assigns a variable to itself or jumps to
\* the next one.
Idle(code, i) ==
  \/ code[i].op = "assign" /\ code[i].args[1] = code[i].args[2]
  \/ code[i].op = "jmp" /\ code[i].args[1].n = 1

\* The graph and the builder stop over a function without an error for one
\* reason only, a Switch without a Case, for whose first condition
\* PapyrusSwitchStatement writes through a null pointer: no stack of the graph
\* is used when it is empty, each label is placed and each temporary assigned
\* before it is read (the logicalFatals of PexFunctionBuilder), and the
\* temporaries that are kept for a loop are kept until its end.  The optimizer
\* stops over a function only where an instruction does nothing, which it frees.
NoErrorNoCrash ==
  /\ phase = "crashed" => Errors(program.body) # {} \/ CaselessSwitch
  /\ phase = "aborted" => \E i \in DOMAIN fn.code : Idle(fn.code, i)

\* A statement the graph takes for the end of the function although control may
\* get past it.
MayBePassed(s) ==
  /\ buildCFG(s, pushBreakTerminal(EmptyCFG)).terminal
  /\ \/ s.k = "if" /\ s.otherwise = <<>>
     \/ s.k = "tryguard"
     \/ s.k = "switch" /\ s.default = <<>>
     \/ s.k \in Loops \ {"dowhile"}
     \/ /\ s.k = "dowhile"
        /\ \E t \in Range(Visited(s.body)) : t.k = "continue"

\* Where control leaves a function that returns a value without one, and no
\* statement is of the kinds above, W1000 was reported.
FallOffIsWarned ==
  (/\ phase = "ended" /\ result = <<>> /\ program.returns
   /\ \A s \in Range(Visited(program.body)) : ~MayBePassed(s))
  => warned

\* A function with a For does what its statements mean, where For is that of
\* VB.Net, as the README has it.
ForIsThatOfVBNet == Uses("for") => BehaviourPreserved

\* A function runs to its end if the engine answers it: no jump of the code
\* goes round in a circle the statements do not have.
RunsToItsEnd ==
  <>(\/ phase \in {"rejected", "crashed", "aborted", "ended"}
     \/ Len(taken) = MaxInputs)
=============================================================================
