--------------------------- MODULE PapyrusMeaning ---------------------------
(***************************************************************************)
(* What a function means: the language, as far as the syntax trees of      *)
(* Lowering go, given a meaning of its own that the code made for a        *)
(* function is compared with.                                              *)
(*                                                                         *)
(* Whatever leaves the function is an event [op, name, args]: a call, a    *)
(* property or a member read or written, an operation on an array, a guard *)
(* locked or unlocked.  What such an operation returns is the next of the  *)
(* inputs, and where the inputs end the meaning stops.  A value is an      *)
(* integer, of a Bool 0 or 1; a variable that was not assigned is 0.       *)
(* A call does not change the variables of the script.                     *)
(*                                                                         *)
(* The state is a record: the variables, the events so far, the inputs     *)
(* left, the guards held from the outermost on, the value of the last      *)
(* expression, and flow: how the last statement ended.                     *)
(***************************************************************************)
EXTENDS Integers, Sequences, SequencesExt, TLC

CONSTANTS Null,
          EnableCKOptimizations   \* own Auto properties are variables

RECURSIVE Eval(_, _), EvalAll(_, _), Exec(_, _), Run(_, _),
          Count(_, _, _, _), Each(_, _, _, _)

SelfReference == -1

Truth(p) == IF p THEN 1 ELSE 0

Start(inputs) == [vars |-> <<>>, trace |-> <<>>, inputs |-> inputs,
                  guards |-> <<>>, val |-> 0, flow |-> "next"]

Going(r)     == r.flow = "next"
Val(r, v)    == [r EXCEPT !.val = v]
Get(r, x)    == IF x \in DOMAIN r.vars THEN r.vars[x] ELSE 0
Set(r, x, v) == IF Going(r) THEN [r EXCEPT !.vars = (x :> v) @@ @] ELSE r

Event(op, name, args) == [op |-> op, name |-> name, args |-> args]

Tell(r, op, name, args) ==
  IF Going(r) THEN [r EXCEPT !.trace = Append(@, Event(op, name, args))]
  ELSE r

Ask(r, op, name, args) ==
  IF ~Going(r) THEN Val(r, 0)
  ELSE IF r.inputs = <<>> THEN [r EXCEPT !.flow = "stop", !.val = 0]
  ELSE [Tell(r, op, name, args) EXCEPT !.val = Head(r.inputs),
                                       !.inputs = Tail(@)]

-----------------------------------------------------------------------------
(* Expressions, from left to right; the arguments of a call come before    *)
(* the object it is called on.                                             *)

Compute(op, v, w) ==
  CASE op = "iadd"   -> v + w
    [] op = "isub"   -> v - w
    [] op = "imul"   -> v * w
    [] op = "cmpeq"  -> Truth(v = w)
    [] op = "cmpneq" -> Truth(v # w)
    [] op = "cmplt"  -> Truth(v < w)
    [] op = "cmplte" -> Truth(v <= w)
    [] op = "cmpgt"  -> Truth(v > w)
    [] op = "cmpgte" -> Truth(v >= w)

Converted(t, v) == IF t = "Bool" THEN Truth(v # 0) ELSE v

IsVariable(id, base) ==
  EnableCKOptimizations /\ id.auto /\ base = SelfReference

ReadName(id, base, r) ==
  CASE id.kind = "local"    -> Val(r, Get(r, id.decl))
    [] id.kind = "variable" -> Val(r, Get(r, id.name))
    [] id.kind = "member"   -> Ask(r, "structget", id.name, <<base>>)
    [] id.kind = "property" ->
         IF IsVariable(id, base) THEN Val(r, Get(r, id.autoVarName))
         ELSE Ask(r, "propget", id.name, <<base>>)

WriteName(id, base, v, r) ==
  CASE id.kind = "local"    -> Set(r, id.decl, v)
    [] id.kind = "variable" -> Set(r, id.name, v)
    [] id.kind = "member"   -> Tell(r, "structset", id.name, <<base, v>>)
    [] id.kind = "property" ->
         IF IsVariable(id, base) THEN Set(r, id.autoVarName, v)
         ELSE Tell(r, "propset", id.name, <<base, v>>)

Combine(op, v, r) == Val(r, Compute(op, v, r.val))

\* l has the left operand; and and or leave the right one alone if they can.
EvalRight(e, l) ==
  CASE e.op \in {"or", "and"} ->
         IF (e.op = "or") <=> (l.val # 0) THEN l ELSE Eval(e.right, l)
    [] OTHER -> Combine(e.op, l.val, Eval(e.right, l))

\* An operation outside the function on the values in val.
AskVal(r, op, name)  == Ask(r, op, name, r.val)
TellVal(r, op, name) == Tell(r, op, name, r.val)

EvalCall(e, r) ==
  IF e.t = "None" THEN TellVal(r, "call" \o e.call, e.name)
  ELSE AskVal(r, "call" \o e.call, e.name)

\* What a method is called on comes first in the event.
LastFirst(r) == Val(r, <<Last(r.val)>> \o Front(r.val))

EvalArguments(e, r) ==
  IF e.call = "method" THEN LastFirst(EvalAll(Append(e.args, e.base), r))
  ELSE EvalAll(e.args, r)

EvalArrayCall(e, r) ==
  IF e.t = "None" THEN TellVal(r, e.name, "") ELSE AskVal(r, e.name, "")

EvalAccess(e, r) ==
  IF e.access.k = "length" THEN Ask(r, "arraylength", "", <<r.val>>)
  ELSE ReadName(e.access, r.val, r)

EvalUnary(e, r) == Val(r, IF e.op = "not" THEN Truth(r.val = 0) ELSE -r.val)
EvalCast(e, r)  == Val(r, Converted(e.t, r.val))

Eval(e, r) ==
  IF ~Going(r) THEN Val(r, 0)
  ELSE CASE e.k = "lit"    -> Val(r, e.value)
         [] e.k = "self"   -> Val(r, SelfReference)
         [] e.k = "id"     -> ReadName(e, SelfReference, r)
         [] e.k = "binop"  -> EvalRight(e, Eval(e.left, r))
         [] e.k = "unop"   -> EvalUnary(e, Eval(e.inner, r))
         [] e.k = "cast"   -> EvalCast(e, Eval(e.inner, r))
         [] e.k = "is"     -> AskVal(EvalAll(<<e.inner>>, r), "is", e.name)
         [] e.k = "index"  -> AskVal(EvalAll(<<e.base, e.index>>, r),
                                     "arraygetelement", "")
         [] e.k = "array"  -> EvalArrayCall(e, EvalAll(<<e.base>> \o e.args, r))
         [] e.k = "call"   -> IF e.shouldEmit
                              THEN EvalCall(e, EvalArguments(e, r)) ELSE r
         [] e.k = "access" -> EvalAccess(e, Eval(e.base, r))
         [] e.k = "newstruct" -> Ask(r, "structcreate", "", <<>>)
         [] e.k = "newarray"  -> AskVal(EvalAll(<<e.length>>, r),
                                        "arraycreate", "")

\* The values of a sequence of expressions, in order.
AppendVal(vals, r) == Val(r, Append(vals, r.val))
EvalAfter(e, r)    == AppendVal(r.val, Eval(e, r))

EvalAll(es, r) ==
  IF es = <<>> THEN Val(r, <<>>)
  ELSE EvalAfter(Last(es), EvalAll(Front(es), r))

-----------------------------------------------------------------------------
(* Statements. *)

SetElement(v, r)      == Tell(r, "arraysetelement", "", Append(r.val, v))
WriteMember(id, v, r) == WriteName(id, r.val, v, r)

Store(target, v, r) ==
  CASE target.k = "id" -> WriteName(target, SelfReference, v, r)
    [] target.k = "index" ->
         SetElement(v, EvalAll(<<target.base, target.index>>, r))
    [] target.k = "access" ->
         WriteMember(target.access, v, Eval(target.base, r))

StoreVal(target, r) == Store(target, r.val, r)

CombineWith(s, old) == Combine(s.op, old.val, Eval(s.right, old))

\* Op-equals evaluates what it assigns to for the value and for the store.
Assign(s, r) ==
  StoreVal(s.left, IF s.op = "assign" THEN Eval(s.right, r)
                   ELSE CombineWith(s, Eval(s.left, r)))

Ended(r, how) == IF Going(r) THEN [r EXCEPT !.flow = how] ELSE r

\* What a statement caught of a jump that was meant for it.
Caught(r, jump) == IF r.flow = jump THEN [r EXCEPT !.flow = "next"] ELSE r

GuardNames(guards) == ToString(guards)

Unlock(r, guards) == Tell(r, "unlockguards", GuardNames(guards), <<>>)

\* A return evaluates its value and lets go of all guards, the innermost
\* first.
ReturnVal(r) == Ended(FoldLeft(Unlock, r, Reverse(r.guards)), "return")

Return(s, r) == ReturnVal(IF s.e = Null THEN Val(r, 0) ELSE Eval(s.e, r))

\* The body of a guard, however it is left, leaves without the guard.
LeaveGuard(s, outer, r) ==
  IF r.flow \in {"return", "stop"} THEN [r EXCEPT !.guards = outer]
  ELSE [Unlock([r EXCEPT !.guards = outer, !.flow = "next"], s.guards)
          EXCEPT !.flow = r.flow]

Guarded(s, r) ==
  IF ~Going(r) THEN r
  ELSE LeaveGuard(s, r.guards,
                  Run(s.body, [r EXCEPT !.guards = Append(@, s.guards)]))

\* The first body whose condition is true.
IfOn(s, c) ==
  IF c.val # 0 THEN Run(Head(s.bodies).body, c)
  ELSE Exec([s EXCEPT !.bodies = Tail(@)], c)

If(s, r) ==
  IF s.bodies = <<>> THEN Run(s.otherwise, r)
  ELSE IfOn(s, Eval(Head(s.bodies).cond, r))

\* The body of the first case with the value, and no other.
Chosen(s, v) ==
  LET equal == {i \in DOMAIN s.cases : s.cases[i].value = v}
  IN IF equal = {} THEN s.default
     ELSE s.cases[CHOOSE i \in equal : \A j \in equal : i <= j].body

SwitchOn(s, c) == Caught(Run(Chosen(s, c.val), c), "break")

\* b is after the body.
LoopAfter(s, b) == IF Going(b) THEN Exec(s, b) ELSE Caught(b, "break")

While(s, c) ==
  IF c.val = 0 THEN c
  ELSE LoopAfter(s, Caught(Run(s.body, c), "continue"))

\* The condition is asked for after the body, a continued one too.
DoAgain(s, c) == IF c.val # 0 THEN Exec(s, c) ELSE c

DoWhile(s, b) ==
  IF ~Going(b) THEN Caught(b, "break") ELSE DoAgain(s, Eval(s.cond, b))

\* The For of VB.Net: the limit and the step are evaluated once, and which way
\* the counter is compared with the limit is up to the sign of the step.
Counter(s) == IF s.decl = Null THEN s.iter
              ELSE [kind |-> "local", decl |-> s.decl]

ReadCounter(s, r)    == ReadName(Counter(s), SelfReference, r)
AddCounter(s, by, r) == WriteName(Counter(s), SelfReference, r.val + by, r)

CountAfter(s, limit, step, b) ==
  IF Going(b) THEN Count(s, limit, step, AddCounter(s, step, ReadCounter(s, b)))
  ELSE Caught(b, "break")

CountOn(s, limit, step, c) ==
  IF \/ ~Going(c)
     \/ IF step >= 0 THEN c.val > limit ELSE c.val < limit
  THEN c
  ELSE CountAfter(s, limit, step, Caught(Run(s.body, c), "continue"))

Count(s, limit, step, r) == CountOn(s, limit, step, ReadCounter(s, r))

ForTo(s, step, r) == Count(s, r.val, step, r)
ForStep(s, r)     == ForTo(s, r.val, Eval(s.target, r))
For(s, r)         == ForStep(s, Eval(s.step, AddCounter(s, 0, r)))

\* What is iterated is evaluated once; its length is asked for each time.
Length(s, over, r) ==
  IF s.array THEN Ask(r, "arraylength", "", <<over>>)
  ELSE Ask(r, "callmethod", s.getCount, <<over>>)

Item(s, over, i, r) ==
  IF s.array THEN Ask(r, "arraygetelement", "", <<over, i>>)
  ELSE Ask(r, "callmethod", "GetAt", <<over, i>>)

Declared(s, r) == Set(r, s.decl, r.val)

EachAfter(s, over, i, b) ==
  IF Going(b) THEN Each(s, over, i + 1, b) ELSE Caught(b, "break")

EachOn(s, over, i, n) ==
  IF i >= n.val THEN n
  ELSE EachAfter(s, over, i,
                 Caught(Run(s.body, Declared(s, Item(s, over, i, n))),
                        "continue"))

Each(s, over, i, r) == EachOn(s, over, i, Length(s, over, r))

ForEach(s, r) == Each(s, r.val, 0, r)

\* A guard that cannot be had at once is gone without.
TryGuard(s, r) == IF r.val # 0 THEN Guarded(s, r) ELSE r

Exec(s, r) ==
  IF ~Going(r) THEN r
  ELSE CASE s.k = "declare"  -> IF s.init = Null THEN r
                                ELSE Declared(s, Eval(s.init, r))
         [] s.k = "assign"   -> Assign(s, r)
         [] s.k = "expr"     -> Eval(s.e, r)
         [] s.k = "if"       -> If(s, r)
         [] s.k = "switch"   -> SwitchOn(s, Eval(s.cond, r))
         [] s.k = "while"    -> While(s, Eval(s.cond, r))
         [] s.k = "dowhile"  -> DoWhile(s, Caught(Run(s.body, r), "continue"))
         [] s.k = "for"      -> For(s, Eval(s.init, r))
         [] s.k = "foreach"  -> ForEach(s, Eval(s.over, r))
         [] s.k = "break"    -> Ended(r, "break")
         [] s.k = "continue" -> Ended(r, "continue")
         [] s.k = "return"   -> Return(s, r)
         [] s.k = "guard"    ->
              Guarded(s, Tell(r, "lockguards", GuardNames(s.guards), <<>>))
         [] s.k = "tryguard" ->
              TryGuard(s, Ask(r, "trylockguards", GuardNames(s.guards), <<>>))

Run(stmts, r) ==
  IF stmts = <<>> \/ ~Going(r) THEN r
  ELSE Run(Tail(stmts), Exec(Head(stmts), r))

Meaning(stmts, inputs) == Run(stmts, Start(inputs))
=============================================================================
