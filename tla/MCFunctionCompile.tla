------------------------- MODULE MCFunctionCompile -------------------------
(* FunctionCompile for the expressions up to a depth and for the functions  *)
(* in which one compound statement is inside another.                       *)
EXTENDS FunctionCompile

MCTypes == {"Int", "Bool", "Object", "Array"}

-----------------------------------------------------------------------------
(* Expressions. *)

Name(kind, name, t) ==
  [k |-> "id", kind |-> kind, name |-> name, t |-> t, auto |-> FALSE]

Variable(x, t) == Name("variable", x, t)
Own(p, t)  == [Name("property", p, t) EXCEPT !.auto = TRUE]
              @@ [autoVarName |-> "::" \o p \o "_var"]
Local(d, t) == [Name("local", "", t) EXCEPT !.auto = FALSE] @@ [decl |-> d]
Number(n)     == [k |-> "lit", value |-> n, t |-> "Int"]
MySelf     == [k |-> "self", t |-> "Object"]

CallOf(call, f, base, args, t) ==
  [k |-> "call", call |-> call, name |-> f, base |-> base, args |-> args,
   t |-> t, shouldEmit |-> TRUE]

Ask0(f, t)        == CallOf("static", f, Null, <<>>, t)
Binary(op, t, l, r) ==
  [k |-> "binop", op |-> op, t |-> t, left |-> l, right |-> r]
Unary(op, t, i)   == [k |-> "unop", op |-> op, t |-> t, inner |-> i]
Cast(t, i)        == [k |-> "cast", t |-> t, inner |-> i]
Access(base, id)  == [k |-> "access", base |-> base, access |-> id, t |-> id.t]
LengthOf(base)    == Access(base, [k |-> "length", t |-> "Int"])
Index(base, i)    == [k |-> "index", base |-> base, index |-> i, t |-> "Int"]

Ints == {Number(1), Variable("v", "Int"), Own("p", "Int"), Name("property", "q", "Int"),
         Ask0("f", "Int"), LengthOf(Ask0("g", "Array")),
         Access(Ask0("h", "Object"), Name("member", "m", "Int")),
         Access(MySelf, Own("p", "Int")),
         Access(Ask0("h", "Object"), Own("p", "Int"))}

Simple == {Variable("v", "Int"), Own("p", "Int"), Ask0("f", "Int")}

Bools == {Binary(op, "Bool", a, b) : op \in {"cmpeq", "cmplt"}, a \in Simple,
                                     b \in Simple}

Deeper ==
  {Binary(op, "Int", a, b) : op \in {"iadd", "isub"}, a \in Ints, b \in Ints}
  \cup {Binary("imul", "Int", Binary("iadd", "Int", a, b), c) :
          a \in Simple, b \in Simple, c \in Simple}
  \cup {Binary("imul", "Int", Binary("iadd", "Int", a, b),
                              Binary("isub", "Int", c, d)) :
          a \in Simple, b \in Simple, c \in Simple, d \in Simple}
  \cup {Binary(op, "Bool", a, b) : op \in {"and", "or"}, a \in Bools,
                                   b \in {Cast("Bool", Ask0("f", "Int"))}}
  \cup {Unary("not", "Bool", a) : a \in Bools}
  \cup {Unary("ineg", "Int", a) : a \in Ints}
  \cup {Cast("Bool", Binary("isub", "Int", a, b)) : a \in Simple, b \in Simple}
  \cup {Binary("cmpneq", "Bool", a, b) : a \in Simple, b \in Simple}
  \cup {Index(Ask0("g", "Array"), a) : a \in Ints}
  \cup {CallOf("method", "f", b, <<a, Binary("iadd", "Int", a, c)>>, "Int") :
          b \in {MySelf, Ask0("h", "Object")}, a \in Ints, c \in Simple}
  \cup {CallOf("parent", "f", Null, <<a>>, "Int") : a \in Ints}
  \cup {[k |-> "array", name |-> "find", base |-> Ask0("g", "Array"),
         args |-> <<a, b>>, t |-> "Int"] : a \in Simple, b \in Simple}
  \cup {[k |-> "newarray", length |-> a, t |-> "Array"] : a \in Simple}
  \cup {[k |-> "newstruct", t |-> "Object"]}
  \cup {[k |-> "is", name |-> "T", inner |-> Ask0("h", "Object"), t |-> "Bool"]}

-----------------------------------------------------------------------------
(* Statements, without their lines. *)

Do(f)        == [k |-> "expr", e |-> CallOf("static", f, Null, <<>>, "None")]
Break        == [k |-> "break"]
Continue     == [k |-> "continue"]
Return(e)    == [k |-> "return", e |-> e]
Let(l, op, e) == [k |-> "assign", left |-> l, op |-> op, right |-> e]
Declare(d, x, t, e) ==
  [k |-> "declare", decl |-> d, name |-> x, t |-> t, init |-> e]

Condition(f)   == Cast("Bool", Ask0(f, "Int"))
IfThen(f, b, e) ==
  [k |-> "if", bodies |-> <<[cond |-> Condition(f), body |-> b]>>,
   otherwise |-> e]
Looping(kind, f, b) == [k |-> kind, cond |-> Condition(f), body |-> b]
SwitchOn(f, b, c, e) ==
  [k |-> "switch", cond |-> Ask0(f, "Int"), default |-> e,
   cases |-> <<[value |-> 0, body |-> b], [value |-> 1, body |-> c]>>]
ForTo(d, x, from, to, step, b) ==
  [k |-> "for", decl |-> d, name |-> x, init |-> from, target |-> to,
   step |-> step, iter |-> Null, body |-> b]
ForOn(id, from, to, step, b) ==
  [k |-> "for", decl |-> Null, iter |-> id, init |-> from, target |-> to,
   step |-> step, body |-> b]
Over(d, x, b) ==
  [k |-> "foreach", decl |-> d, name |-> x, t |-> "Int", array |-> TRUE,
   over |-> Ask0("g", "Array"), body |-> b]
OverCollection(d, x, b) ==
  [Over(d, x, b) EXCEPT !.array = FALSE, !.over = Ask0("h", "Object")]
  @@ [getCount |-> "GetSize"]
Locked(kind, guards, b) == [k |-> kind, guards |-> guards, body |-> b]

Leaves == {<<Do("a")>>, <<Break>>, <<Continue>>, <<Return(Ask0("r", "Int"))>>}

Compound(n, blocks) ==
  {IfThen("c", b, <<>>) : b \in blocks}
  \cup {IfThen("c", b, <<Do("e")>>) : b \in blocks}
  \cup {IfThen("c", <<Return(Number(1))>>, b) : b \in blocks}
  \cup {Looping(kind, "w", b) : kind \in {"while", "dowhile"}, b \in blocks}
  \cup {SwitchOn("s", b, <<Break>>, e) : b \in blocks,
                                         e \in {<<>>, <<Return(Number(2))>>}}
  \cup {ForTo("i" \o n, "i", Number(1), Number(2), Number(1), b) : b \in blocks}
  \cup {Over("o" \o n, "o", b) : b \in blocks}
  \cup {Locked("guard", <<"g" \o n>>, b) : b \in blocks}
  \cup {Locked("tryguard", <<"g" \o n, "k">>, b) : b \in blocks}

Inner  == Compound("1", Leaves)
Outer  == Compound("2", {<<s>> : s \in Inner}
                        \cup {<<s, Do("b")>> : s \in Inner})

\* Not every jump out of a guard lets go of it.
JumpsOutOfGuard(stmts) ==
  \E s \in Range(Visited(stmts)) :
    /\ s.k \in {"guard", "tryguard"}
    /\ \E t \in Range(Visited(s.body)) : t.k \in {"break", "continue"}

-----------------------------------------------------------------------------
(* Functions. *)

\* The statements get lines in the order they are in.
RECURSIVE Numbered(_, _), Lines(_)
Lines(stmts) == Len(Visited(stmts))
Shift(bodies, line) ==
  [i \in DOMAIN bodies |->
     [bodies[i] EXCEPT !.body =
        Numbered(@, line + FoldFunctionOnSet(+, 0,
                             [j \in DOMAIN bodies |-> Lines(bodies[j].body)],
                             1..(i - 1)))]]
Numbered(stmts, line) ==
  IF stmts = <<>> THEN <<>>
  ELSE LET s == Head(stmts) @@ [line |-> line]
           t == CASE s.k = "if" -> [s EXCEPT !.bodies = Shift(@, line + 1)]
                  [] s.k = "switch" -> [s EXCEPT !.cases = Shift(@, line + 1)]
                  [] s.k \in Loops \cup {"guard", "tryguard"} ->
                       [s EXCEPT !.body = Numbered(@, line + 1)]
                  [] OTHER -> s
           first == line + Lines(<<s>>)
           u == CASE s.k = "if" ->
                       [t EXCEPT !.otherwise =
                          Numbered(@, first - Lines(@))]
                  [] s.k = "switch" ->
                       [t EXCEPT !.default = Numbered(@, first - Lines(@))]
                  [] OTHER -> t
       IN <<u>> \o Numbered(Tail(stmts), first)

Function(body) == [body |-> Numbered(body, 2), returns |-> TRUE,
                   variables |-> {"v", "::p_var"}]

Expressions == {Function(<<Return(e)>>) : e \in Deeper}

Nested == {Function(<<s>>) : s \in Outer}

-----------------------------------------------------------------------------
(* Single functions. *)

V == Variable("v", "Int")

Assignments ==
  {Function(<<Let(l, op, e), Let(V, "iadd", Number(2)), Return(V)>>) :
     l \in {V, Own("p", "Int"), Name("property", "q", "Int"),
            Index(Ask0("g", "Array"), Ask0("f", "Int")),
            Access(Ask0("h", "Object"), Name("member", "m", "Int"))},
     op \in {"assign", "isub"},
     e \in {Number(1), V, Ask0("f", "Int"),
            Binary("iadd", "Int", V, Own("p", "Int"))}}

\* two scopes that have a local of the same name each
Mangling ==
  {Function(<<IfThen("c", <<Declare("d1", "x", "Int", Ask0("f", "Int"))>>, <<>>),
              IfThen("c", <<Declare("d2", "x", "Int", Null),
                            Let(V, "assign", Local("d2", "Int"))>>, <<>>),
              Declare("d3", "x", "Int", e),
              Return(Binary("iadd", "Int", V, Local("d3", "Int")))>>) :
     e \in {Null, Number(1)}}

\* loops whose step or limit is a variable, and loops in loops
Fors ==
  {Function(<<Declare("d1", "s", "Int", step),
              ForTo("d2", "i", from, to, Local("d1", "Int"),
                    <<Let(V, "iadd", Local("d2", "Int")), Do("a")>>),
              Return(V)>>) :
     step \in {Number(1), Number(-1)}, from \in {Number(1), Number(2)},
     to \in {Number(0), Number(3), Binary("isub", "Int", Ask0("f", "Int"), Number(1))}}
  \cup
  {Function(<<ForOn(id, Number(0), Number(1), Number(1),
                    <<OverCollection("d1", "o", <<Let(V, "iadd", Local("d1", "Int"))>>)>>),
              Return(V)>>) :
     id \in {Own("p", "Int"), Variable("u", "Int"), Name("property", "q", "Int")}}

\* A Switch without a Case, with and without a Default, also in a loop and behind an error.
CaselessSwitches ==
  LET Caseless(e) == [SwitchOn("s", <<>>, <<>>, e) EXCEPT !.cases = <<>>]
  IN {Function(<<s, Return(Number(1))>>) :
        s \in {Caseless(<<>>), Caseless(<<Do("e")>>), Caseless(<<Return(Number(2))>>),
               Looping("while", "w", <<Caseless(<<Break>>)>>),
               IfThen("c", <<Caseless(<<>>)>>, <<Break>>)}}

\* A case of a Switch with a statement control gets past, which the graph takes
\* for its end.
FallsThrough(stmts) ==
  \E s \in Range(Visited(stmts)) :
    /\ s.k = "switch"
    /\ \E b \in Range(Bodies(s)) : \E t \in Range(Visited(b)) : MayBePassed(t)

\* A For with a step that is a variable, after a comparison.
AfterComparison ==
  {Function(<<Declare("d1", "b", "Bool", Binary(op, "Bool", V, Number(1))),
              Declare("d2", "s", "Int", Number(-1)),
              ForTo("d3", "i", Number(2), Number(1), Local("d2", "Int"),
                    <<Do("a")>>),
              Return(Number(0))>>) :
     op \in {"cmpeq", "cmpneq"}}

\* Without jumps out of a Guard, whose meaning no document gives, and without a case that
\* control runs past, behind which the code has no jump.
Well ==
  {f \in Expressions \cup Nested \cup Assignments \cup Mangling \cup Fors
         \cup CaselessSwitches :
     ~JumpsOutOfGuard(f.body) /\ ~FallsThrough(f.body)}
=============================================================================
