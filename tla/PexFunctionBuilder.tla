------------------------- MODULE PexFunctionBuilder -------------------------
(***************************************************************************)
(* The builder of the code of one function, pex/PexFunctionBuilder.h and   *)
(* .cpp: the instructions emitted so far, the local variables, the         *)
(* temporaries that are handed out and taken back through one intrusive    *)
(* stack per type, the labels, and the stacks of the targets of Break and  *)
(* Continue and of the guards held.  The builder is a record; an operation *)
(* of the class is an operator from builder to builder, and the PexValue   *)
(* an operation returns is left in the field val.                          *)
(*                                                                         *)
(* A value of an instruction is a record [k, n].  Positions of             *)
(* instructions are counted from 0, as in the code, so that the            *)
(* instruction at position i is code[i + 1].                               *)
(***************************************************************************)
EXTENDS Integers, Sequences, SequencesExt, TLC

CONSTANTS Null,       \* a null pointer, and a label without a target
          TempTypes   \* the types temporaries are made for

-----------------------------------------------------------------------------
(* Values. *)

Id(x)      == [k |-> "id", n |-> x]
Lit(i)     == [k |-> "int", n |-> i]
Temp(i)    == [k |-> "tmp", n |-> i]
Label(l)   == [k |-> "label", n |-> l]
NoneValue  == [k |-> "none", n |-> 0]
Invalid    == [k |-> "invalid", n |-> 0]
Self       == Id("self")

SameValue(v, w) == v.k = w.k /\ v.n = w.n

\* The position, from 1, of the argument an instruction writes to; 0 if there
\* is none.  Names of functions, properties and members are not arguments
\* here but the field name of the instruction, so that a position is that of
\* the code less the names before it.
DestArg ==
  [op \in {"assign", "cast", "not", "ineg", "iadd", "isub", "imul", "cmpeq",
           "cmplt", "cmplte", "cmpgt", "cmpgte", "arraycreate", "arraylength",
           "arraygetelement", "is", "structcreate", "structget",
           "callstatic", "callparent", "trylockguards"} |-> 1]
  @@ [op \in {"propget", "callmethod", "find", "rfind", "findstruct",
              "rfindstruct", "getmatchingstructs"} |-> 2]
  @@ [op \in {"jmp", "jmpt", "jmpf", "ret", "propset", "arraysetelement",
              "structset", "add", "insert", "remove", "removelast", "clear",
              "lockguards", "unlockguards"} |-> 0]

IsBranch(op) == op \in {"jmp", "jmpt", "jmpf"}

-----------------------------------------------------------------------------
(* The builder.  failed records that the compiler stopped with a           *)
(* logicalFatal or a fatal error, broken that an assertion did not hold.    *)

NewBuilder(line) ==
  [code |-> <<>>, lines |-> <<>>, loc |-> line, val |-> Invalid,
   locals |-> <<>>, temps |-> <<>>, labels |-> <<>>, currentTempI |-> 0,
   root |-> [t \in TempTypes |-> Null], count |-> [t \in TempTypes |-> 0],
   next |-> <<>>, longLived |-> {},
   breakStack |-> <<>>, continueStack |-> <<>>, lockStack |-> <<>>,
   failed |-> FALSE, broken |-> FALSE]

At(b, line)   == [b EXCEPT !.loc = line]
Give(b, v)    == [b EXCEPT !.val = v]
Fail(b)       == [b EXCEPT !.failed = TRUE]
NameOf(b, l)  == b.locals[l].name

\* The local variable that is the temporary called x, Null if x is no
\* temporary.
TempNamed(b, x) ==
  IF \E l \in DOMAIN b.locals : b.locals[l].temp /\ b.locals[l].name = x
  THEN CHOOSE l \in DOMAIN b.locals :
         b.locals[l].temp /\ b.locals[l].name = x
  ELSE Null

\* IntrusiveStack: the node carries the link, and a node pushed while it is
\* in the stack has its link overwritten.
PushFree(b, l) ==
  [b EXCEPT !.next[l] = b.root[b.locals[l].type],
            !.root[b.locals[l].type] = l,
            !.count[b.locals[l].type] = @ + 1]

PopFree(b, t) ==
  [b EXCEPT !.root[t] = b.next[b.root[t]], !.count[t] = @ - 1]

\* The temporary a value stands for, Null if it is none.
TempOf(b, v) ==
  CASE v.k = "id" -> TempNamed(b, v.n)
    [] v.k = "tmp" -> b.temps[v.n].var
    [] OTHER -> Null

GiveBackLongLivedToo(b, l) == IF l = Null THEN b ELSE PushFree(b, l)

GiveBack(b, l) == IF l = Null \/ l \in b.longLived THEN b ELSE PushFree(b, l)

freeValueIfTemp(b, v) == GiveBack(b, TempOf(b, v))

AddLocal(b, x, t, temp) ==
  [b EXCEPT !.locals = Append(@, [name |-> x, type |-> t, temp |-> temp]),
            !.next = Append(@, Null)]

allocateLocal(b, x, t) == AddLocal(b, x, t, FALSE)

\* Leaves in val the number of the local variable that is handed out.
internalAllocateTempVar(b, t) ==
  IF b.count[t] > 0
  THEN Give(PopFree(b, t), b.root[t])
  ELSE Give([AddLocal(b, "::temp" \o ToString(b.currentTempI), t, TRUE)
               EXCEPT !.currentTempI = @ + 1],
            Len(b.locals) + 1)

getNoneLocal(b) ==
  Give(IF \E l \in DOMAIN b.locals : b.locals[l].name = "::nonevar"
       THEN b
       ELSE allocateLocal(b, "::nonevar", "None"),
       Id("::nonevar"))

MarkLongLived(b) == [b EXCEPT !.longLived = @ \cup {b.val}]

allocLongLivedTemp(b, t) == MarkLongLived(internalAllocateTempVar(b, t))

freeLongLivedTemp(b, l) ==
  freeValueIfTemp([b EXCEPT !.longLived = @ \ {l},
                            !.broken = @ \/ l \notin b.longLived],
                  Id(NameOf(b, l)))

allocTemp(b, t) ==
  Give([b EXCEPT !.temps = Append(@, [type |-> t, var |-> Null])],
       Temp(Len(b.temps) + 1))

-----------------------------------------------------------------------------
(* Labels and scopes. *)

NewLabel(b) ==
  Give([b EXCEPT !.labels = Append(@, Null)], Label(Len(b.labels) + 1))

Place(b, label) == [b EXCEPT !.labels[label.n] = Len(b.code)]

currentBreakTarget(b)    == Last(b.breakStack)
currentContinueTarget(b) == Last(b.continueStack)

pushBreakScope(b, label) == [b EXCEPT !.breakStack = Append(@, label)]
popBreakScope(b)         == [b EXCEPT !.breakStack = Front(@)]

pushBreakContinueScope(b, breakLabel, continueLabel) ==
  [b EXCEPT !.breakStack = Append(@, breakLabel),
            !.continueStack = Append(@, continueLabel)]
popBreakContinueScope(b) ==
  [b EXCEPT !.breakStack = Front(@), !.continueStack = Front(@)]

pushLockScope(b, guards) == [b EXCEPT !.lockStack = Append(@, guards)]
popLockScope(b)          == [b EXCEPT !.lockStack = Front(@)]

-----------------------------------------------------------------------------
(* Emitting an instruction. *)

\* A reference to a temporary that has its variable is that variable.
Resolve(b, v) ==
  IF v.k = "tmp" /\ b.temps[v.n].var # Null
  THEN Id(NameOf(b, b.temps[v.n].var))
  ELSE v

ResolveAll(b, vs) == [i \in DOMAIN vs |-> Resolve(b, vs[i])]

\* The destination of an instruction whose other arguments gave their
\* variables back, so that it may be one of theirs.
AssignVariable(b, temp) == [b EXCEPT !.temps[temp].var = b.val]

AllocateDest(b, op, args) ==
  IF DestArg[op] # 0 /\ args[DestArg[op]].k = "tmp"
  THEN AssignVariable(
         internalAllocateTempVar(b, b.temps[args[DestArg[op]].n].type),
         args[DestArg[op]].n)
  ELSE b

ResolveDest(b, op, args) ==
  IF DestArg[op] = 0 THEN args
  ELSE [args EXCEPT ![DestArg[op]] = Resolve(b, @)]

Unusable(vs) == \E i \in DOMAIN vs : vs[i].k \in {"invalid", "tmp"}

AppendInstruction(b, op, name, args, variadicArgs) ==
  [b EXCEPT
     !.code   = Append(@, [op |-> op, name |-> name, args |-> args,
                           variadicArgs |-> variadicArgs]),
     !.lines  = Append(@, b.loc),
     !.failed = @ \/ Unusable(args) \/ Unusable(variadicArgs)]

FreeAll(b, vs) ==
  LET after[i \in 0..Len(vs)] ==
        IF i = 0 THEN b ELSE freeValueIfTemp(after[i - 1], vs[i])
  IN after[Len(vs)]

\* The arguments are resolved already, b is the builder after that.
Finish(b, op, name, args, variadicArgs) ==
  AppendInstruction(b, op, name, ResolveDest(b, op, args), variadicArgs)

FreeAndFinish(b, op, name, args, variadicArgs) ==
  Finish(AllocateDest(FreeAll(b, args \o variadicArgs), op, args),
         op, name, args, variadicArgs)

fixup(b, op, name, args, variadicArgs) ==
  FreeAndFinish(b, op, name, ResolveAll(b, args), ResolveAll(b, variadicArgs))

Emit(b, op, args) == fixup(b, op, "", args, <<>>)

\* An instruction that leaves its result in a new temporary.
EmitToVal(b, op, name, before, after) ==
  Give(fixup(b, op, name, before \o <<b.val>> \o after, <<>>), b.val)

EmitTo(b, t, op, name, before, after) ==
  EmitToVal(allocTemp(b, t), op, name, before, after)

generateUnlockGuardsForCurrentLockScope(b) ==
  FoldLeft(LAMBDA c, guards : fixup(c, "unlockguards", "", <<>>, guards),
           b, Reverse(b.lockStack))

-----------------------------------------------------------------------------
(* Handing the function over. *)

\* A label becomes the distance to its target.
Distance(b, i, v) ==
  IF v.k # "label" THEN v
  ELSE IF b.labels[v.n] = Null THEN Invalid
  ELSE Lit(b.labels[v.n] - (i - 1))

LinesAsTheyAre(lines) == lines

\* No line of the debug information is smaller than the one before it.
Clamped(lines) ==
  [i \in DOMAIN lines |-> Max({lines[j] : j \in 1..i})]

populateFunction(b) ==
  [code   |-> [i \in DOMAIN b.code |->
                 [b.code[i] EXCEPT !.args =
                    [a \in DOMAIN @ |-> Distance(b, i, @[a])]]],
   lines  |-> Clamped(b.lines),
   locals |-> b.locals,
   broken |-> b.broken,
   failed |-> \/ b.failed
              \/ \E l \in DOMAIN b.labels : b.labels[l] = Null
              \/ \E t \in DOMAIN b.temps : b.temps[t].var = Null]
=============================================================================
