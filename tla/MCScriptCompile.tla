-------------------------- MODULE MCScriptCompile --------------------------
(* ScriptCompile for scripts that have every kind of declaration and of     *)
(* statement, for children that go against what their parent declares, and  *)
(* for texts with one token missing.                                        *)
EXTENDS ScriptCompile

MCFlags ==
  <<[name |-> "hidden", on |-> {"Property", "Script", "Variable"}, bit |-> 0,
     data |-> {"hidden"}],
    [name |-> "kept", on |-> {"Variable"}, bit |-> 3, data |-> {"kept"}],
    [name |-> "default", on |-> {"Property"}, bit |-> 2, data |-> {"default"}]>>

MCNative    == {"Form"}
MCQualified == ("N:C" :> <<"N", "C">>) @@ ("O:T" :> <<"O", "T">>)
MCElements  == {"Int", "String", "P", "O", "O#T"}
MCEvents    == {"OnInit", "OnHit", "OnNew"}

-----------------------------------------------------------------------------
(* Statements and their code. *)

T(n)         == Leaf("type", n)
N(n)         == Leaf("id", n)
I(n)         == Leaf("int", n)
B(s)         == Node("body", "", s)
E(e)         == Node("expression", "", <<e>>)
Bin(o, a, b) == Node("binop", o, <<a, b>>)
Arg(n, e)    == Node("argument", n, <<e>>)
CallTo(n, a) == Node("call", n, a)
Dot(a, b)    == Node("access", "", <<a, b>>)
At(a, b)     == Node("index", "", <<a, b>>)
Ret(e)       == <<Node("Return", "", e)>>

Statements ==
  <<E(CallTo("f", <<Arg("", I(-1)), Arg("n", N("x"))>>)),
    Node("assign", "+=",
         <<At(Dot(N("a"), CallTo("g", <<>>)), I(1)),
           Bin("*", Bin("+", N("a"), I(2)),
               Node("unop", "-", <<Node("As", "", <<N("q"), Leaf("array", "Int")>>)>>))>>),
    Node("declare", "v", <<T("O"), Leaf("string", <<"a">>)>>),
    Node("declare", "w", <<Leaf("array", "O")>>),
    Node("If", "", <<N("a"), B(Ret(<<>>)), N("b"), B(<<>>), B(Ret(<<Leaf("none", "")>>))>>),
    Node("If", "", <<Node("unop", "!", <<N("a")>>), B(<<>>), B(<<>>)>>),
    Node("While", "", <<Bin("||", N("a"), Bin("&&", N("b"), Bin("<", N("a"), I(3)))), B(<<>>)>>),
    E(Dot(Dot(Leaf("Self", ""), N("c")), Leaf("Length", ""))),
    E(Bin("-", Bin("-", N("a"), N("b")), Bin("-", N("a"), N("b"))))>>

Extended ==
  <<Node("auto", "", <<Node("declare", "u", <<Leaf("auto", "")>>),
                       Node("newarray", "", <<T("Int"), I(3)>>)>>),
    Node("Do", "", <<B(<<Node("Continue", "", <<>>)>>), N("a")>>),
    Node("For", "", <<N("i"), I(0), I(3), I(1), B(<<>>)>>),
    Node("For", "", <<Node("declare", "i", <<T("Int")>>), I(0), I(3), B(<<>>)>>),
    Node("ForEach", "", <<Node("declare", "i", <<Leaf("auto", "")>>), N("l"), B(<<>>)>>),
    Node("Switch", <<E(N("z"))>>,
         <<N("a"), I(1), B(<<>>), I(2), B(<<Node("Break", "", <<>>)>>)>>)>>

Locked ==
  <<Node("Guard", "", <<Leaf("lock", "g"), Leaf("lock", "h"), B(Ret(<<>>))>>),
    Node("If", "", <<Node("unop", "!", <<N("a")>>),
                     B(<<Node("TryGuard", "", <<Leaf("lock", "g"), B(<<>>)>>)>>), B(<<>>)>>)>>

str(s) == [kind |-> "str", n |-> s]
int(n) == [kind |-> "int", n |-> n]

MCCode(s) ==
  CASE s = <<>> -> [locals |-> <<>>, instructions |-> <<>>, lines |-> <<>>]
    [] s[1].kind = "Guard" ->
         [locals |-> <<>>, lines |-> <<3, 4>>,
          instructions |-> <<Instruction("LockGuards", <<>>, <<id("g"), id("h")>>),
                             Instruction("UnlockGuards", <<>>, <<id("g")>>)>>]
    [] s[1].kind = "Return" ->
         [locals |-> <<>>, lines |-> <<2>>,
          instructions |-> <<Instruction("Return", <<[kind |-> "bool", n |-> TRUE]>>, <<>>)>>]
    [] OTHER ->
         [locals |-> <<[name |-> "a", type |-> "Int"]>>, lines |-> <<5, 6, 6, 9>>,
          instructions |->
            <<Instruction("JmpF", <<id("a"), int(3)>>, <<>>),
              Instruction("CallMethod", <<id("f"), id("self"), id("a")>>,
                          <<int(-1), str(<<"a", "\n", "\"", "\\">>),
                            [kind |-> "none", n |-> 0], [kind |-> "flt", n |-> 5000000]>>),
              Instruction("IAdd", <<id("a"), id("a"), int(1)>>, <<>>),
              Instruction("Jmp", <<int(-2)>>, <<>>)>>]

-----------------------------------------------------------------------------
(* The library. *)

Param(t, n)      == [Fresh.Parameter EXCEPT !.name = n, !.type = t]
Fun(n, t, ps, s) == [NewFunction("Function") EXCEPT !.name = n, !.returnType = t,
                                                    !.parameters = ps, !.statements = s]
On(n, ps, s)     == [NewFunction("Event") EXCEPT !.name = n, !.parameters = ps, !.statements = s]
InState(n, fs)   == [NewState(FALSE) EXCEPT !.name = n, !.functions = fs]
Script(n, fs)    == [Fresh.Object EXCEPT !.name = n, !.states = <<InState("", fs)>>]
StructOf(n, ms)  == [name |-> n, members |-> ms]
Member(t, n)     == [Fresh.StructMember EXCEPT !.type = t, !.name = n]
Var(t, n)        == [Fresh.Variable EXCEPT !.type = t, !.name = n]
Prop(t, n, v, f) == [Fresh.Property EXCEPT !.type = t, !.name = n, !.defaultValue = v,
                                           !.userFlags = f]
Get(t, s)        == [NewFunction("Getter") EXCEPT !.name = "Get", !.returnType = t,
                                                  !.statements = s]
Set(t, s)        == [NewFunction("Setter") EXCEPT !.name = "Set", !.statements = s,
                                                  !.parameters = <<Param(t, "x")>>]
Full(t, n)       == [Prop(t, n, Absent, {}) EXCEPT
                       !.readFunction = <<Get(t, Ret(<<I(1)>>))>>,
                       !.writeFunction = <<Set(t, Statements)>>]
GroupOf(n, ps)   == [Fresh.Group EXCEPT !.name = n, !.properties = ps]

Hit == <<Param(T("Int"), "p")>>
Base(n) == [Script(n, <<On("OnInit", <<>>, <<>>), On("OnHit", Hit, <<>>)>>) EXCEPT !.userFlags = {"Native"}]
Below(n, x) == [x EXCEPT !.parentClass = T(n)]

MCLibrary ==
  ("ScriptObject" :> Base("ScriptObject")) @@ ("__ScriptObject" :> Base("__ScriptObject"))
  @@ ("T" :> Below("ScriptObject", Script("T", <<>>)))
  @@ ("K" :> [Below("ScriptObject", Script("K", <<>>)) EXCEPT !.userFlags = {"Const"}])
  @@ ("O" :> [Below("ScriptObject", Script("O", <<>>)) EXCEPT
                !.structs = <<StructOf("T", <<Member(T("Int"), "m")>>)>>])

-----------------------------------------------------------------------------
(* Parents. *)

Foo(t, s) == Fun("Foo", T("Int"), <<Param(t, "a"), Param(T("T"), "b")>>, s)

Root(game) == IF game = Pex!Skyrim THEN "__ScriptObject" ELSE "ScriptObject"

\* What every game has
Parent(game) ==
  [Below(Root(game), Script("P", <<Foo(Leaf("array", "Int"), Statements), On("OnHit", Hit, <<>>)>>))
   EXCEPT !.userFlags = {"hidden"}, !.documentationString = <<"p">>,
          !.variables = <<[Var(T("Float"), "pv") EXCEPT !.defaultValue = I(2)]>>,
          !.propertyGroups =
            <<GroupOf("", <<Prop(T("Int"), "A", I(3), {"Auto", "hidden", "kept"}),
                            Prop(T("String"), "R", Leaf("string", <<"r">>),
                                 {"Auto", "AutoReadOnly", "default"}),
                            Full(T("O"), "F")>>)>>,
          !.states = @ \o <<[NewState(TRUE) EXCEPT
                               !.name = "S1",
                               !.functions = <<Foo(Leaf("array", "Int"), Ret(<<I(1)>>))>>]>>]

\* And with what came with the later games
Modern(game) ==
  [Parent(game) EXCEPT
     !.structs = <<StructOf("S", <<[Member(T("Int"), "m") EXCEPT !.defaultValue = I(3),
                                                                 !.userFlags = {"Const"},
                                                                 !.documentationString = <<"m">>],
                                   Member(T("O"), "o")>>)>>,
     !.customEvents = <<"ce">>,
     !.propertyGroups = Append(@, [GroupOf("G", <<Prop(T("Float"), "H", I(1), {"Auto", "Const"})>>)
                                   EXCEPT !.documentationComment = <<"g">>])]

WithGuard(x) == [x EXCEPT !.guards = <<"pg">>]

\* A structure in what other scripts see
Showing(x) ==
  [x EXCEPT !.states[1].functions =
              Append(@, Fun("Qux", T("S"), <<Param(Leaf("array", "O:T"), "s")>>, <<>>))]

\* Functions that take the name of an event, as those of ScriptObject do
Register(t) == Fun("Register", NoType, <<Param(T(t), "e")>>, <<>>)
Send        == Fun("Send", NoType, <<Param(Leaf("array", "ScriptEventName"), "es")>>, <<>>)

Telling(x) == [x EXCEPT !.states[1].functions = @ \o <<Register("CustomEventName"), Send>>]

-----------------------------------------------------------------------------
(* Children. *)

Heir(fs) == Below("P", Script("C", fs))
Adding(fs) == Heir(<<Fun("Bar", NoType, <<>>, <<>>)>> \o fs)

\* That declare nothing their parent does not allow
Good ==
  {Adding(<<>>),
   [Adding(<<Foo(Leaf("array", "Int"), Statements), On("OnInit", <<>>, Ret(<<>>))>>) EXCEPT
      !.states = @ \o <<InState("S1", <<Foo(Leaf("array", "Int"), <<>>)>>),
                        InState("S2", <<On("OnHit", Hit, <<>>)>>)>>,
      !.variables = <<Var(T("P"), "p"), Var(Leaf("array", "O"), "os"), Var(T("Int"), "pv")>>,
      !.propertyGroups = <<GroupOf("", <<Prop(T("P"), "D", Leaf("none", ""), {"Auto"})>>)>>],
   [Adding(<<>>) EXCEPT !.imports = <<"O">>,
                        !.variables = <<Var(T("T"), "t")>>]}

\* That go against what they inherit
Clashing ==
  {Adding(<<Fun("Foo", T("Int"), <<Param(T("Int"), "a"), Param(T("T"), "b")>>, <<>>)>>),
   [Adding(<<Foo(Leaf("array", "Int"), <<>>)>>) EXCEPT !.imports = <<"O">>],
   [Adding(<<>>) EXCEPT !.states = Append(@, InState("S1", <<Fun("Foo", T("Int"), <<>>, <<>>)>>))],
   [Adding(<<>>) EXCEPT !.states = Append(@, InState("S1", <<Fun("Bar", T("Int"), <<>>, <<>>)>>))],
   [Adding(<<>>) EXCEPT !.states = Append(@, InState("S1", <<Fun("New", NoType, <<>>, <<>>)>>))],
   [Adding(<<>>) EXCEPT !.states = Append(@, InState("S1", <<>>)) \o <<InState("S1", <<>>)>>],
   [Adding(<<>>) EXCEPT !.variables = <<Var(T("Int"), "A")>>],
   [Adding(<<>>) EXCEPT !.variables = <<Var(T("Int"), "x"), Var(T("String"), "x")>>],
   [Adding(<<>>) EXCEPT !.variables = <<Var(T("K"), "k")>>],
   [Adding(<<>>) EXCEPT !.variables = <<Var(T("P#S"), "s")>>],
   [Adding(<<>>) EXCEPT !.propertyGroups = <<GroupOf("", <<Prop(T("Int"), "F", Absent, {"Auto"})>>)>>],
   [Adding(<<>>) EXCEPT !.variables = <<Var(T("Int"), "D")>>,
                        !.propertyGroups = <<GroupOf("", <<Prop(T("Int"), "D", Absent, {"Auto"})>>)>>],
   [Adding(<<>>) EXCEPT !.userFlags = {"Native"}, !.variables = <<Var(T("Int"), "x")>>],
   [Adding(<<>>) EXCEPT !.propertyGroups =
                          <<GroupOf("", <<Prop(T("P"), "D", I(1), {"Auto"})>>)>>],
   Adding(<<On("OnNew", <<>>, <<>>)>>),
   Adding(<<[Fun("Raw", NoType, <<>>, <<>>) EXCEPT !.userFlags = {"Native"}]>>),
   Adding(<<Fun("Two", NoType, <<Param(T("Int"), "a"), Param(T("P"), "a")>>, <<>>)>>)}

\* With what came with the later games
ModernChildren ==
  {[Adding(<<>>) EXCEPT !.structs = <<StructOf("A", <<Member(T("Int"), "m")>>)>>],
   [Adding(<<>>) EXCEPT !.structs = <<StructOf("S", <<Member(T("Int"), "m")>>)>>],
   [Adding(<<>>) EXCEPT !.structs = <<StructOf("U", <<Member(Leaf("array", "Int"), "m")>>)>>],
   [Adding(<<Fun("Qux", T("S"), <<Param(Leaf("array", "O:T"), "s")>>, <<>>)>>) EXCEPT
      !.variables = <<Var(T("S"), "s"), Var(T("Var"), "any")>>],
   [Adding(<<>>) EXCEPT !.propertyGroups =
      <<GroupOf("G1", <<Prop(T("Int"), "D", Absent, {"Auto"})>>),
        GroupOf("G2", <<Prop(T("P"), "D", Absent, {"Auto"})>>)>>],
   [Adding(<<>>) EXCEPT !.userFlags = {"Const"},
      !.propertyGroups = <<GroupOf("", <<Prop(T("Int"), "D", Absent, {"Auto"})>>)>>],
   Adding(<<Register("CustomEventName")>>),
   [Adding(<<>>) EXCEPT !.states = Append(@, InState("S1", <<Send>>))],
   Adding(<<Register("String")>>),
   Adding(<<Fun("Own", NoType, <<Param(T("ScriptEventName"), "e")>>, <<>>)>>)}

\* With everything
Whole ==
  [Adding(<<Foo(Leaf("array", "Int"), Statements \o Extended), Fun("Lock", NoType, <<>>, Locked),
            [NewFunction("RemoteEvent") EXCEPT
               !.name = "::remote_P_OnHit", !.remoteEventParent = "P", !.remoteEventName = "OnHit",
               !.parameters = <<Param(T("P"), "from"),
                                [Param(T("Int"), "n") EXCEPT !.defaultValue = I(7)]>>],
            [Fun("Out", T("Int"), <<>>, Ret(<<I(1)>>)) EXCEPT
               !.userFlags = {"Global", "DebugOnly"}, !.documentationComment = <<"d">>]>>)
   EXCEPT !.name = "N:C", !.imports = <<"K">>, !.documentationString = <<"c">>,
          !.structs = <<StructOf("U", <<[Member(T("Int"), "m") EXCEPT !.defaultValue = I(3),
                                                                     !.userFlags = {"Const"}]>>)>>,
          !.variables = <<[Var(Leaf("array", "U"), "us") EXCEPT !.userFlags = {"kept"}]>>,
          !.guards = <<"g", "h">>, !.customEvents = <<"mine">>,
          !.propertyGroups = <<[GroupOf("G", <<Full(T("Int"), "W")>>) EXCEPT
                                  !.documentationComment = <<"x">>],
                               GroupOf("", <<Prop(T("Float"), "V", I(3), {"Auto", "AutoReadOnly"})>>)>>,
          !.states = @ \o <<[NewState(TRUE) EXCEPT !.name = "S9",
                               !.functions = <<Fun("Bar", NoType, <<>>, Extended)>>]>>]

-----------------------------------------------------------------------------
(* What is compiled. *)

Options(game, debug, extensions, shadowing, events) ==
  [game |-> game, debugInfo |-> debug, extensions |-> extensions, shadowing |-> shadowing,
   unknownEvents |-> events]

Ways(game) == IF game = Pex!Skyrim
              THEN {Options(game, TRUE, FALSE, FALSE, TRUE), Options(game, FALSE, FALSE, TRUE, TRUE)}
              ELSE {Options(game, debug, FALSE, FALSE, FALSE) : debug \in BOOLEAN}

Pair(o, p, c) == [opts |-> o, parent |-> p, child |-> c, tears |-> FALSE]

Earlier == {Pair(o, Parent(Pex!Skyrim), c) : o \in Ways(Pex!Skyrim), c \in Good \union Clashing}

Later(g) == {Pair(o, p, c) : o \in Ways(g),
                             p \in {Modern(g), Showing(Modern(g)), Telling(Modern(g))},
                             c \in Good \union Clashing \union ModernChildren}

All == Options(Pex!Starfield, TRUE, TRUE, FALSE, FALSE)

Torn == {[Pair(All, WithGuard(Modern(Pex!Starfield)), Whole) EXCEPT !.tears = TRUE]}

MCInputs == Earlier \union UNION {Later(g) : g \in Pex!Fallout4..Pex!Starfield} \union Torn
=============================================================================
