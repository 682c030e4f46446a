------------------------------ MODULE Lowering ------------------------------
(***************************************************************************)
(* From the syntax tree of a function to its instructions: generateLoad    *)
(* and generateStore of the expressions and identifiers, buildPex of the   *)
(* statements (papyrus/expressions, papyrus/statements and                 *)
(* PapyrusIdentifier.cpp).  The tree is the one the semantic pass leaves:  *)
(* identifiers are resolved, and implicit conversions are cast nodes.      *)
(*                                                                         *)
(* An expression is a record with its kind k and its type t.  A statement  *)
(* is a record with its kind k and its line; the expressions of a          *)
(* statement are on its line.  Floats and strings take the same paths as   *)
(* integers do and are left out.                                           *)
(***************************************************************************)
EXTENDS PexFunctionBuilder

CONSTANT EnableCKOptimizations   \* conf::CodeGeneration

RECURSIVE Load(_, _), LoadAll(_, _), buildPex(_, _), BuildAll(_, _)

-----------------------------------------------------------------------------
(* Identifiers. *)

\* A property of the script itself that is the variable under it.
ReadsVariable(id, base) ==
  /\ EnableCKOptimizations
  /\ id.auto
  /\ SameValue(base, Self)

\* A local is called what its declaration is called, which the mangling of
\* the names may have changed: names, a field of the builder, says how.
LoadIdentifier(id, base, b) ==
  CASE id.kind = "local"    -> Give(b, Id(b.names[id.decl]))
    [] id.kind = "variable" -> Give(b, Id(id.name))
    [] id.kind = "property" ->
         IF ReadsVariable(id, base)
         THEN Give(b, Id(id.autoVarName))
         ELSE EmitTo(b, id.t, "propget", id.name, <<base>>, <<>>)
    [] id.kind = "member" ->
         EmitTo(b, id.t, "structget", id.name, <<>>, <<base>>)

StoreIdentifier(id, base, v, b) ==
  CASE id.kind = "local" -> Emit(b, "assign", <<Id(b.names[id.decl]), v>>)
    [] id.kind = "variable" -> Emit(b, "assign", <<Id(id.name), v>>)
    [] id.kind = "property" ->
         IF ReadsVariable(id, base)
         THEN Emit(b, "assign", <<Id(id.autoVarName), v>>)
         ELSE fixup(b, "propset", id.name, <<base, v>>, <<>>)
    [] id.kind = "member" ->
         fixup(b, "structset", id.name, <<base, v>>, <<>>)

-----------------------------------------------------------------------------
(* Expressions. *)

\* An operation on the values loaded last, its result in a new temporary.
Operate(b, t, op, name) == EmitTo(b, t, op, name, <<>>, b.val)

AssignVal(b, x)      == Emit(b, "assign", <<x, b.val>>)
JumpUnless(b, label) == Emit(b, "jmpf", <<b.val, label>>)
FreeVal(b)           == freeValueIfTemp(b, b.val)

\* The left operand is the result unless it leaves the decision to the right
\* one; the result is in one temporary on both ways.  b has the label in val.
RightUnlessDecided(e, dest, b) ==
  LET test == Emit(b, IF e.op = "or" THEN "jmpt" ELSE "jmpf", <<dest, b.val>>)
  IN Give(Place(AssignVal(Load(e.right, test), dest), b.val), dest)

BooleanInto(e, left, b) ==
  RightUnlessDecided(e, b.val,
                     NewLabel(Emit(b, "assign", <<b.val, left>>)))

LoadBoolean(e, l) == BooleanInto(e, l.val, allocTemp(l, "Bool"))

NotVal(b) == Give(Emit(b, "not", <<b.val, b.val>>), b.val)

LoadBinaryOp(e, b) ==
  CASE e.op \in {"or", "and"} -> LoadBoolean(e, Load(e.left, b))
    [] e.op = "cmpneq" ->
         NotVal(Operate(LoadAll(<<e.left, e.right>>, b), "Bool", "cmpeq", ""))
    [] OTHER -> Operate(LoadAll(<<e.left, e.right>>, b), e.t, e.op, "")

LoadUnaryOp(e, b) == Operate(LoadAll(<<e.inner>>, b), e.t, e.op, "")
LoadCast(e, b)    == Operate(LoadAll(<<e.inner>>, b), e.t, "cast", "")
LoadIs(e, b)      == Operate(LoadAll(<<e.inner>>, b), "Bool", "is", e.name)

LoadArrayIndex(e, b) ==
  Operate(LoadAll(<<e.base, e.index>>, b), e.t, "arraygetelement", "")

SetElement(v, b) == Emit(b, "arraysetelement", Append(b.val, v))

StoreArrayIndex(e, v, b) == SetElement(v, LoadAll(<<e.base, e.index>>, b))

LoadNew(e, b) ==
  IF e.k = "newstruct"
  THEN EmitTo(b, e.t, "structcreate", "", <<>>, <<>>)
  ELSE Operate(LoadAll(<<e.length>>, b), e.t, "arraycreate", "")

\* The functions every array has.  What they are called on is loaded before
\* the arguments here.
ArrayFunctionsWithResult ==
  {"find", "rfind", "findstruct", "rfindstruct", "getmatchingstructs"}

CallArray(e, b) ==
  IF e.name \in ArrayFunctionsWithResult
  THEN EmitTo(b, e.t, e.name, "", <<Head(b.val)>>, Tail(b.val))
  ELSE Give(Emit(b, e.name, b.val), Invalid)

LoadArrayCall(e, b) == CallArray(e, LoadAll(<<e.base>> \o e.args, b))

\* A call of a function: the arguments are loaded first, the object it is
\* called on last.
CallWith(e, dest, b) ==
  IF e.call = "method"
  THEN fixup(b, "callmethod", e.name, <<Last(b.val), dest>>, Front(b.val))
  ELSE fixup(b, IF e.call = "static" THEN "callstatic" ELSE "callparent",
             e.name, <<dest>>, b.val)

CallInto(e, b) ==
  Give(CallWith(e, b.val,
                LoadAll(IF e.call = "method" THEN Append(e.args, e.base)
                        ELSE e.args, b)),
       IF e.t = "None" THEN Invalid ELSE b.val)

LoadCall(e, b) ==
  IF ~e.shouldEmit THEN Give(b, Invalid)
  ELSE CallInto(e, IF e.t = "None" THEN getNoneLocal(b)
                   ELSE allocTemp(b, e.t))

AccessMember(e, b) ==
  IF e.access.k = "length"
  THEN EmitTo(b, "Int", "arraylength", "", <<>>, <<b.val>>)
  ELSE LoadIdentifier(e.access, b.val, b)

LoadMemberAccess(e, b) == AccessMember(e, Load(e.base, b))

Load(e, b) ==
  CASE e.k = "lit"    -> Give(b, Lit(e.value))
    [] e.k = "self"   -> Give(b, Self)
    [] e.k = "id"     -> LoadIdentifier(e, Self, b)
    [] e.k = "binop"  -> LoadBinaryOp(e, b)
    [] e.k = "unop"   -> LoadUnaryOp(e, b)
    [] e.k = "cast"   -> LoadCast(e, b)
    [] e.k = "is"     -> LoadIs(e, b)
    [] e.k = "index"  -> LoadArrayIndex(e, b)
    [] e.k = "array"  -> LoadArrayCall(e, b)
    [] e.k = "call"   -> LoadCall(e, b)
    [] e.k = "access" -> LoadMemberAccess(e, b)
    [] e.k \in {"newarray", "newstruct"} -> LoadNew(e, b)

\* The values of a sequence of expressions, in order.
AppendVal(vals, b) == Give(b, Append(vals, b.val))
LoadAfter(e, b)    == AppendVal(b.val, Load(e, b))

LoadAll(es, b) ==
  IF es = <<>> THEN Give(b, <<>>)
  ELSE LoadAfter(Last(es), LoadAll(Front(es), b))

-----------------------------------------------------------------------------
(* Simple statements. *)

Declare(s, b) ==
  IF s.init = Null THEN allocateLocal(b, b.names[s.decl], s.t)
  ELSE AssignVal(Load(s.init, At(allocateLocal(b, b.names[s.decl], s.t),
                                 s.line)),
                 Id(b.names[s.decl]))

StoreMember(id, v, b) == StoreIdentifier(id, b.val, v, b)

Store(target, v, b) ==
  CASE target.k = "id"     -> StoreIdentifier(target, Self, v, b)
    [] target.k = "index"  -> StoreArrayIndex(target, v, b)
    [] target.k = "access" ->
         StoreMember(target.access, v, Load(target.base, b))

StoreVal(target, b) == Store(target, b.val, b)

\* Of x += e the value is that of x + e: what is in x is evaluated for the
\* sum and again for the store.
Assign(s, b) ==
  StoreVal(s.left,
           Load(IF s.op = "assign" THEN s.right
                ELSE [k |-> "binop", op |-> s.op, t |-> s.left.t,
                      left |-> s.left, right |-> s.right],
                At(b, s.line)))

ExpressionStatement(s, b) == FreeVal(Load(s.e, At(b, s.line)))

LoadResult(s, b) ==
  IF s.e = Null THEN Give(At(b, s.line), NoneValue)
  ELSE Load(s.e, At(b, s.line))

ReturnVal(b) == Emit(b, "ret", <<b.val>>)

ReturnWithGuards(s, b) == ReturnVal(LoadResult(s, b))

\* The value is computed with the guards held.
ReturnStatement(s, b) ==
  ReturnVal(generateUnlockGuardsForCurrentLockScope(LoadResult(s, b)))

-----------------------------------------------------------------------------
(* Branches. *)

\* b has the label of the next test in val.
IfBody(s, i, afterAll, b) ==
  LET then == BuildAll(i.body,
                       JumpUnless(Load(i.cond, At(b, s.line)), b.val))
  IN Place(Emit(At(then, s.line), "jmp", <<afterAll>>), b.val)

IfBodies(s, b) ==
  Place(BuildAll(s.otherwise,
                 FoldLeft(LAMBDA c, i : IfBody(s, i, b.val, NewLabel(c)),
                          b, s.bodies)),
        b.val)

If(s, b) == IfBodies(s, NewLabel(b))

\* b has the label of the next case in val.
Case(s, i, tmp, b) ==
  Place(BuildAll(i.body,
                 JumpUnless(EmitTo(At(b, s.line), "Bool", "cmpeq", "", <<>>,
                                   <<Id(NameOf(b, tmp)), Lit(i.value)>>),
                            b.val)),
        b.val)

\* Without a case there is no label to place after the last of them, and the
\* code writes through a null pointer.
Cases(s, tmp, b) ==
  IF s.cases = <<>> THEN Fail(b)
  ELSE FoldLeft(LAMBDA c, i : Case(s, i, tmp, NewLabel(c)), b, s.cases)

CasesUpTo(s, tmp, b) ==
  Place(popBreakScope(
          BuildAll(s.default,
                   freeLongLivedTemp(Cases(s, tmp, pushBreakScope(b, b.val)),
                                     tmp))),
        b.val)

SwitchOn(s, tmp, b) ==
  CasesUpTo(s, tmp, NewLabel(AssignVal(b, Id(NameOf(b, tmp)))))

SwitchWith(s, b) == SwitchOn(s, b.val, Load(s.cond, At(b, s.line)))

Switch(s, b) == SwitchWith(s, allocLongLivedTemp(b, s.cond.t))

-----------------------------------------------------------------------------
(* Loops. *)

\* Continue goes to the condition.
WhileLoop(s, before, after, b) ==
  LET cond == Load(s.cond, At(pushBreakContinueScope(b, after, before), s.line))
      body == BuildAll(s.body, JumpUnless(cond, after))
  IN popBreakContinueScope(
       Place(Emit(At(body, s.line), "jmp", <<before>>), after))

While(s, b) ==
  LET before == NewLabel(b)
      after  == NewLabel(Place(before, before.val))
  IN WhileLoop(s, before.val, after.val, after)

JumpIf(b, label) == Emit(b, "jmpt", <<b.val, label>>)

DoWhileLoop(s, before, after, body, b) ==
  LET inside == BuildAll(s.body,
                         Place(pushBreakContinueScope(b, after, before), body))
      cond   == Load(s.cond, At(Place(inside, before), s.line))
  IN popBreakContinueScope(Place(JumpIf(cond, body), after))

DoWhile(s, b) ==
  LET before == NewLabel(b)
      after  == NewLabel(before)
      body   == NewLabel(after)
  IN DoWhileLoop(s, before.val, after.val, body.val, body)

\* A value a loop keeps from its start: a literal is used as it is, another
\* goes to a temporary of its own, whose local variable is then in var.
KeepLiteral(e, b) == [b |-> b, var |-> Null, val |-> Lit(e.value)]

KeepVal(tmp, b) == [b |-> AssignVal(b, Id(NameOf(b, tmp))), var |-> tmp,
                    val |-> Id(NameOf(b, tmp))]

\* The temporary of the step is taken after the step is computed, that of the
\* limit before.
KeepComputed(v, b) == KeepVal(b.val, Give(b, v))
KeepLoaded(b)      == KeepComputed(b.val, allocLongLivedTemp(b, "Int"))
KeepTarget(e, b)   == KeepVal(b.val, Load(e, b))

Step(e, b)   == IF e.k = "lit" THEN KeepLiteral(e, b) ELSE KeepLoaded(Load(e, b))
Target(e, b) == IF e.k = "lit" THEN KeepLiteral(e, b)
                ELSE KeepTarget(e, allocLongLivedTemp(b, "Int"))

\* Which way a step goes that is not known from the text.
SignInto(step, b) ==
  [b |-> Emit(b, "cmpgt", <<Id(NameOf(b, b.val)), step.val, Lit(0)>>),
   var |-> b.val, val |-> Id(NameOf(b, b.val))]

Sign(step, b) ==
  IF step.var = Null THEN [b |-> b, var |-> Null, val |-> Invalid]
  ELSE SignInto(step, allocLongLivedTemp(b, "Bool"))

Release(b, var) == IF var = Null THEN b ELSE freeLongLivedTemp(b, var)

\* The test of a For for a step whose sign is known from the text.
CompareByLiteral(b, temp, counter, target, step) ==
  CASE step.n > 0 -> Emit(b, "cmplte", <<temp, counter, target>>)
    [] step.n < 0 -> Emit(b, "cmpgte", <<temp, counter, target>>)
    [] OTHER      -> b

CompareByStep(b, temp, counter, target, lowerStep) ==
  LET aComp  == NewLabel(b)
      gtComp == NewLabel(aComp)
      up     == Emit(Emit(Emit(gtComp, "jmpf", <<lowerStep, gtComp.val>>),
                          "cmplte", <<temp, counter, target>>),
                     "jmp", <<aComp.val>>)
  IN Place(Emit(Place(up, gtComp.val), "cmpgte", <<temp, counter, target>>),
           aComp.val)

\* The labels of a loop with a counter, and the builder inside it: Continue goes
\* to where the counter is advanced.
EnterContinuingAtCondition(b) ==
  LET before   == NewLabel(b)
      after    == NewLabel(before)
      continue == NewLabel(after)
  IN [before |-> before.val, after |-> after.val, continue |-> continue.val,
      b |-> pushBreakContinueScope(continue, after.val, before.val)]

EnterCounting(b) ==
  LET before   == NewLabel(b)
      after    == NewLabel(before)
      continue == NewLabel(after)
  IN [before |-> before.val, after |-> after.val, continue |-> continue.val,
      b |-> pushBreakContinueScope(continue, after.val, continue.val)]

\* The counter is the local variable the statement declares, or a variable or
\* property that was there before and is loaded for each use.
Counter(s, b) == Id(b.names[s.decl])

LoadCounter(s, b) ==
  IF s.decl # Null THEN Give(b, Counter(s, b))
  ELSE LoadIdentifier(s.iter, Self, b)

StoreCounter(s, b) == StoreIdentifier(s.iter, Self, b.val, b)

StartCounter(s, b) ==
  IF s.decl # Null
  THEN AssignVal(allocateLocal(b, b.names[s.decl], "Int"), Counter(s, b))
  ELSE StoreCounter(s, b)

\* b has the counter in val.
AddStep(s, step, b) ==
  EmitTo(b, s.iter.t, "iadd", "", <<>>, <<b.val, step.val>>)

AdvanceCounter(s, step, b) ==
  IF s.decl # Null
  THEN Emit(b, "iadd", <<Counter(s, b), Counter(s, b), step.val>>)
  ELSE StoreCounter(s, AddStep(s, step, LoadIdentifier(s.iter, Self, b)))

ForCompare(kept, counter, b) ==
  IF kept.sign.var = Null
  THEN CompareByLiteral(b, b.val, counter, kept.target.val, kept.step.val)
  ELSE CompareByStep(b, b.val, counter, kept.target.val, kept.sign.val)

ForTestInto(loop, kept, counter, b) ==
  JumpUnless(Give(ForCompare(kept, counter, b), b.val), loop.after)

ForTest(loop, kept, b) ==
  ForTestInto(loop, kept, b.val, allocTemp(b, "Bool"))

ForBody(s, loop, kept, b) ==
  AdvanceCounter(s, kept.step,
                 At(Place(BuildAll(s.body, ForTest(loop, kept, b)),
                          loop.continue), s.line))

ReleaseKept(kept, b) ==
  Release(Release(Release(b, kept.step.var), kept.sign.var), kept.target.var)

ForLoop(s, loop, kept) ==
  Place(popBreakContinueScope(
          ReleaseKept(kept,
            Emit(ForBody(s, loop, kept,
                         LoadCounter(s, Place(kept.sign.b, loop.before))),
                 "jmp", <<loop.before>>))),
        loop.after)

\* The step is kept first, then the limit, and the sign of the step last.
ForWithTarget(s, loop, step, target) ==
  ForLoop(s, loop, [step |-> step, target |-> target,
                    sign |-> Sign(step, target.b)])

ForWithStep(s, loop, step) ==
  ForWithTarget(s, loop, step, Target(s.target, step.b))

ForInside(s, loop) ==
  ForWithStep(s, loop,
              Step(s.step,
                   StartCounter(s, Load(s.init, At(loop.b, s.line)))))

For(s, b) == ForInside(s, EnterCounting(b))

\* Of what is iterated the length is asked for again before each iteration.
LoadLength(s, over, b) ==
  IF s.array
  THEN EmitTo(b, "Int", "arraylength", "", <<>>, <<over>>)
  ELSE EmitTo(b, "Int", "callmethod", s.getCount, <<over>>, <<>>)

TestCount(count, b) ==
  EmitTo(b, "Bool", "cmplt", "", <<>>, <<count, b.val>>)

LoadItem(s, count, over, b) ==
  IF s.array
  THEN Emit(b, "arraygetelement", <<Counter(s, b), over, count>>)
  ELSE fixup(b, "callmethod", "GetAt", <<over, Counter(s, b)>>, <<count>>)

ForEachBody(s, loop, count, over, b) ==
  LET test == JumpUnless(TestCount(count, LoadLength(s, over, b)), loop.after)
      item == LoadItem(s, count, over,
                       allocateLocal(test, b.names[s.decl], s.t))
  IN Place(At(BuildAll(s.body, item), s.line), loop.continue)

ForEachLoop(s, loop, count, over, b) ==
  LET base == Load(s.over, Emit(At(b, s.line), "assign", <<count, Lit(0)>>))
      body == ForEachBody(s, loop, count, over,
                          Place(AssignVal(base, over), loop.before))
      next == Emit(body, "iadd", <<count, count, Lit(1)>>)
  IN Emit(next, "jmp", <<loop.before>>)

LeaveForEach(loop, counter, iter, b) ==
  Place(popBreakContinueScope(
          freeLongLivedTemp(freeLongLivedTemp(b, iter), counter)),
        loop.after)

\* b has the temporary of what is iterated in val.
ForEachOver(s, loop, counter, b) ==
  LeaveForEach(loop, counter, b.val,
               ForEachLoop(s, loop, Id(NameOf(b, counter)),
                           Id(NameOf(b, b.val)), b))

ForEachWith(s, loop, b) ==
  ForEachOver(s, loop, b.val, allocLongLivedTemp(b, s.over.t))

ForEachInside(s, loop) ==
  ForEachWith(s, loop, allocLongLivedTemp(loop.b, "Int"))

ForEach(s, b) == ForEachInside(s, EnterCounting(b))

-----------------------------------------------------------------------------
(* Guards. *)

Guards(s) == [i \in DOMAIN s.guards |-> Id(s.guards[i])]

Guarded(s, b) == popLockScope(BuildAll(s.body, pushLockScope(b, Guards(s))))

Guard(s, b) ==
  LET lock == fixup(At(b, s.line), "lockguards", "", <<>>, Guards(s))
  IN fixup(At(Guarded(s, lock), s.line), "unlockguards", "", <<>>, Guards(s))

\* b has the result of the attempt in val, before it is made.
TryGuardInto(s, after, b) ==
  LET try  == JumpUnless(Give(fixup(b, "trylockguards", "", <<b.val>>,
                                    Guards(s)),
                              b.val),
                         after)
      free == fixup(At(Guarded(s, try), s.line), "unlockguards", "", <<>>,
                    Guards(s))
  IN Place(Emit(free, "jmp", <<after>>), after)

TryGuardFrom(s, b) ==
  TryGuardInto(s, b.val, allocTemp(At(b, s.line), "Bool"))

TryGuard(s, b) == TryGuardFrom(s, NewLabel(b))

-----------------------------------------------------------------------------
(* All statements, and the function. *)

buildPex(s, b) ==
  CASE s.k = "declare"  -> Declare(s, b)
    [] s.k = "assign"   -> Assign(s, b)
    [] s.k = "expr"     -> ExpressionStatement(s, b)
    [] s.k = "if"       -> If(s, b)
    [] s.k = "switch"   -> Switch(s, b)
    [] s.k = "while"    -> While(s, b)
    [] s.k = "dowhile"  -> DoWhile(s, b)
    [] s.k = "for"      -> For(s, b)
    [] s.k = "foreach"  -> ForEach(s, b)
    [] s.k = "break"    -> Emit(b, "jmp", <<currentBreakTarget(b)>>)
    [] s.k = "continue" -> Emit(b, "jmp", <<currentContinueTarget(b)>>)
    [] s.k = "return"   -> ReturnStatement(s, b)
    [] s.k = "guard"    -> Guard(s, b)
    [] s.k = "tryguard" -> TryGuard(s, b)

BuildAll(stmts, b) ==
  IF stmts = <<>> THEN b ELSE buildPex(Last(stmts), BuildAll(Front(stmts), b))

\* names says what the declarations of the function are called.
buildFunction(statements, names, line) ==
  populateFunction(BuildAll(statements,
                            [names |-> names] @@ NewBuilder(line)))
=============================================================================
