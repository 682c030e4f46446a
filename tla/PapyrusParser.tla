--------------------------- MODULE PapyrusParser ---------------------------
(***************************************************************************)
(* PapyrusParser: from the tokens of a script to its tree.  A production   *)
(* is a sequence of items, done from left to right; an item takes          *)
(* something from the tokens and puts it into a member of the structure    *)
(* being made, or stands for further items, which it chooses by the        *)
(* tokens that follow.  Statements and expressions are nodes [kind, n, sub];  *)
(* a type is the node of a type or of an array of it.                      *)
(***************************************************************************)
EXTENDS TokenStream, FiniteSets, SequencesExt, TLC

CONSTANTS
  UserFlagsDefinition,   \* the registered flags: [name, on, bit, data]
  SkyrimNativeClasses,   \* skyrim_native_classes
  Qualified              \* the pieces of a name with colons, by that name

Node(k, n, sub) == [kind |-> k, n |-> n, sub |-> sub]
Leaf(k, n)      == Node(k, n, <<>>)
Absent          == Leaf("absent", "")
NoType          == Leaf("type", "None")

peek(s, i) == IF i + 2 > Len(s.rest) THEN "END" ELSE s.rest[i + 2].t

-----------------------------------------------------------------------------
(* Types, values and flags.                                                *)

BasicTypes == {"Bool", "Float", "Int", "String", "Var"}
TypeTokens == BasicTypes \union {"Identifier"}
Named      == {"CustomEventName", "ScriptEventName"}

BaseType(t) == IF t.t = "Identifier" THEN t.v ELSE t.t

ArrayOf(s, base) ==
  IF ~s.fatal /\ cur(s).t = "[" /\ peek(s, 0) = "]"
  THEN Val(consume(consume(s)), Leaf("array", base))
  ELSE Val(s, Leaf("type", base))

\* expectConsumePapyrusType
ParseType(s) ==
  IF cur(s).t \in TypeTokens \union Named
  THEN ArrayOf(consume(s), BaseType(cur(s))) ELSE Fatal(s)

Literals == {"float", "int", "string", "none", "true", "false"}

\* expectConsumePapyrusValue
ParseValue(s) ==
  IF cur(s).t \in Literals THEN Val(consume(s), Leaf(cur(s).t, cur(s).v))
  ELSE Fatal(s)

\* CapricaUserFlagsDefinition::findFlag: an unknown one is taken for the first
findFlag(name) ==
  LET found == SelectSeq(UserFlagsDefinition, LAMBDA f: f.name = name)
  IN (found \o UserFlagsDefinition)[1]

\* CapricaUserFlagsDefinition::UserFlag::isValidOn
isValidOn(flag, loc) ==
  loc \in flag.on \/ (loc = "Property" /\ "Variable" \in flag.on)

Known(name) == \E i \in DOMAIN UserFlagsDefinition : UserFlagsDefinition[i].name = name

OwnFlags == [Auto |-> {"Auto"}, AutoReadOnly |-> {"Auto", "AutoReadOnly"},
             BetaOnly |-> {"BetaOnly"}, Const |-> {"Const"},
             DebugOnly |-> {"DebugOnly"}, Global |-> {"Global"},
             Native |-> {"Native"}]

FlagName(s) == IF cur(s).t = "Default" THEN "default" ELSE cur(s).v

RECURSIVE ParseFlags(_, _, _)
\* maybeConsumeUserFlags
ParseFlags(loc, got, s) ==
  IF s.fatal THEN s
  ELSE IF cur(s).t \in DOMAIN OwnFlags
  THEN ParseFlags(loc, got \union OwnFlags[cur(s).t], consume(s))
  ELSE IF cur(s).t \notin {"Identifier", "Default"} THEN Val(s, got)
  ELSE IF UserFlagsDefinition = <<>> THEN Fatal(s)
  ELSE ParseFlags(loc, got \union findFlag(FlagName(s)).data,
                  IF Known(FlagName(s)) /\ isValidOn(findFlag(FlagName(s)), loc)
                  THEN consume(s) ELSE Err(consume(s)))

RECURSIVE maybeConsumeEOLs(_)
maybeConsumeEOLs(s) ==
  IF ~s.fatal /\ cur(s).t = "EOL" THEN maybeConsumeEOLs(consume(s)) ELSE s

expectConsumeEOLs(s) == maybeConsumeEOLs(expectConsume(s, "EOL"))

\* maybeConsumeDocStringRef
ParseDoc(s) ==
  IF cur(s).t = "DocComment"
  THEN Val(expectConsumeEOLs(consume(s)), cur(s).v)
  ELSE Val(maybeConsumeEOLs(s), <<>>)

-----------------------------------------------------------------------------
(* Items and the structures they fill.                                     *)

Item(t, f, x) == [t |-> t, f |-> f, x |-> x]

Tok(t)        == Item("token", "", t)
Ident(f)      == Item("ident", f, "")
Type(f)       == Item("type", f, "")
Value(f)      == Item("value", f, "")
Doc(f)        == Item("doc", f, "")
UserFlags(on) == Item("flags", "userFlags", on)
Eols          == Item("eols", "", "")
Expr          == Item("expression", "sub", "")
Bad           == Item("bad", "", "")
Child(f, k)   == Item("child", f, k)          \* a structure of its own
Const(f, v)   == Item("const", f, v)          \* nothing of the tokens
Body(f, ends) == Item("body", f, ends)        \* statements up to a token
If(ts, a, b)  == Item("if", "", <<ts, a, b>>) \* a before one of ts, else b
List(a)       == Item("list", "", a)          \* a, and again after a comma
More(a)       == Item("more", "", a)
Also(choice)  == Item("choice", "", choice)   \* chosen by Choice

Maybe(t, a) == If({t}, <<Tok(t)>> \o a, <<>>)

NewFunction(functionType) ==
  [name |-> "", returnType |-> NoType, functionType |-> functionType,
   remoteEventParent |-> "", remoteEventName |-> "", parameters |-> <<>>,
   userFlags |-> {}, documentationComment |-> <<>>, statements |-> <<>>]

NewState(isAuto) == [name |-> "", isAuto |-> isAuto, functions |-> <<>>]

Fresh ==
  [Object |-> [name |-> "", parentClass |-> NoType, userFlags |-> {},
               documentationString |-> <<>>, imports |-> <<>>,
               structs |-> <<>>, variables |-> <<>>, guards |-> <<>>,
               propertyGroups |-> <<>>, states |-> <<NewState(FALSE)>>,
               customEvents |-> <<>>],
   State |-> NewState(FALSE), AutoState |-> NewState(TRUE),
   Struct |-> [name |-> "", members |-> <<>>],
   StructMember |-> [name |-> "", type |-> NoType, defaultValue |-> Absent,
                     userFlags |-> {}, documentationString |-> <<>>],
   Variable |-> [name |-> "", type |-> NoType, defaultValue |-> Absent,
                 userFlags |-> {}],
   Group |-> [name |-> "", userFlags |-> {}, documentationComment |-> <<>>,
              properties |-> <<>>],
   Property |-> [name |-> "", type |-> NoType, defaultValue |-> Absent,
                 userFlags |-> {}, documentationComment |-> <<>>,
                 readFunction |-> <<>>, writeFunction |-> <<>>],
   Function |-> NewFunction("Function"), Event |-> NewFunction("Event"),
   TypedFunction |-> NewFunction("Function"),
   Setter |-> NewFunction("Setter"), Getter |-> NewFunction("Getter"),
   Parameter |-> [name |-> "", type |-> NoType, defaultValue |-> Absent],
   Declared |-> Leaf("declare", ""), Argument |-> Leaf("argument", ""),
   Call |-> Leaf("call", "")]

Lists == {"sub", "imports", "structs", "variables", "guards", "states",
          "propertyGroups", "customEvents", "members", "properties",
          "parameters"}

WithFunction(functions, f) ==
  IF \E i \in DOMAIN functions : functions[i].name = f.name THEN functions
  ELSE Append(functions, f)

\* getRootPropertyGroup, which is made when it is first asked for
RootGroup(groups) ==
  IF \E i \in DOMAIN groups : groups[i].name = "" THEN groups
  ELSE Append(groups, Fresh.Group)

RootProperty(groups, p) ==
  [i \in DOMAIN RootGroup(groups) |->
     IF RootGroup(groups)[i].name = ""
     THEN [RootGroup(groups)[i] EXCEPT !.properties = Append(@, p)]
     ELSE groups[i]]

\* The structure r with v in its member f.  A map of functions keeps the one
\* it has.
Put(f, r, v) ==
  CASE f = ""              -> r
    [] f \in Lists         -> [r EXCEPT ![f] = Append(@, v)]
    [] f = "functions"     -> [r EXCEPT !.functions = WithFunction(@, v)]
    [] f = "rootFunctions" -> [r EXCEPT !.states[1].functions = WithFunction(@, v)]
    [] f = "rootProperty"  -> [r EXCEPT !.propertyGroups = RootProperty(@, v)]
    [] f = "default"       -> [r EXCEPT !.n = @ \o v.sub]
    [] f = "operator"      -> [r EXCEPT !.kind = "assign", !.n = v]
    [] f \in {"readFunction", "writeFunction"} -> [r EXCEPT ![f] = <<v>>]
    [] f = "remote" -> [r EXCEPT !.functionType = "RemoteEvent",
                                 !.remoteEventParent = r.name,
                                 !.remoteEventName = v,
                                 !.name = "::remote_" \o @ \o "_" \o v]
    [] f = "statements" -> [r EXCEPT !.statements = v.sub]
    [] OTHER -> [r EXCEPT ![f] = v]

HasValue(v)          == v.defaultValue.kind # "absent"
ConstWithoutValue(v) == "Const" \in v.userFlags /\ ~HasValue(v)

\* The errors the parser reports of what is put into a member.
Wrong(f, r, v) ==
  CASE f = "states"    -> v.isAuto /\ \E i \in DOMAIN r.states : r.states[i].isAuto
    [] f = "members"   -> ConstWithoutValue(v)
    [] f = "variables" -> ConstWithoutValue(v)
    [] f \in {"properties", "rootProperty"} ->
         "AutoReadOnly" \in v.userFlags /\ ~HasValue(v)
    [] f = "writeFunction" -> \/ r.writeFunction # <<>>
                              \/ v.name # "Set"
                              \/ Len(v.parameters) # 1
                              \/ v.parameters[1].type # r.type
    [] f = "readFunction"  -> \/ r.readFunction # <<>>
                              \/ v.name # "Get"
                              \/ v.parameters # <<>>
                              \/ v.returnType # r.type
    [] OTHER -> FALSE

-----------------------------------------------------------------------------
(* The productions of an object.                                           *)

\* expectConsumePapyrusType is followed by this token.
AfterType(s) == IF peek(s, 0) = "[" /\ peek(s, 1) = "]" THEN peek(s, 2) ELSE peek(s, 0)

Arguments(a) == <<Tok("("), If({")"}, <<>>, <<List(a)>>), Tok(")")>>

\* parseFunction, up to the token that ends it
Function(end) ==
  <<Ident("name")>>
  \o (IF end = "EndEvent" THEN <<Maybe(".", <<Ident("remote")>>)>> ELSE <<>>)
  \o Arguments(<<Child("parameters", "Parameter")>>)
  \o <<UserFlags("Function"), Eols, Doc("documentationComment"), Also(end)>>

Production ==
  [Object |-> <<Item("maybe eols", "", ""), Tok("ScriptName"), Ident("name"),
                If({"Extends"}, <<Tok("Extends"), Item("parent", "parentClass", "")>>,
                   <<Also("parent")>>),
                UserFlags("Script"), Also("native"), Eols,
                Doc("documentationString"), Also("members")>>,
   State        |-> <<Ident("name"), Eols, Also("functions")>>,
   AutoState    |-> <<Ident("name"), Eols, Also("functions")>>,
   Struct       |-> <<Ident("name"), Eols, Also("struct")>>,
   StructMember |-> <<Type("type"), Ident("name"), Maybe("=", <<Value("defaultValue")>>),
                      UserFlags("StructMember"), Eols, Doc("documentationString")>>,
   Variable     |-> <<Type("type"), Ident("name"), Maybe("=", <<Value("defaultValue")>>),
                      UserFlags("Variable"), Eols>>,
   Group        |-> <<Ident("name"), UserFlags("PropertyGroup"), Eols,
                      Doc("documentationComment"), Also("group")>>,
   Property     |-> <<Type("type"), Tok("Property"), Ident("name"),
                      Maybe("=", <<Value("defaultValue")>>), UserFlags("Property"),
                      Eols, Doc("documentationComment"), Also("property")>>,
   Function      |-> <<Tok("Function")>> \o Function("EndFunction"),
   Setter        |-> <<Tok("Function")>> \o Function("EndFunction"),
   TypedFunction |-> <<Type("returnType"), Tok("Function")>> \o Function("EndFunction"),
   Getter        |-> <<Type("returnType"), Tok("Function")>> \o Function("EndFunction"),
   Event         |-> <<Tok("Event")>> \o Function("EndEvent"),
   Parameter     |-> <<Type("type"), Ident("name"), Maybe("=", <<Value("defaultValue")>>)>>,
   Declared      |-> <<If({"Auto"}, <<Tok("Auto"), Const("sub", Leaf("auto", ""))>>,
                          <<Type("sub")>>),
                       Ident("n")>>,
   Argument      |-> <<Also("argument"), Expr>>,
   Call          |-> <<Ident("n")>> \o Arguments(<<Child("sub", "Argument")>>)]

\* What begins with a type: a function, a property or a variable
OfType(s) ==
  CASE AfterType(s) = "Function" -> <<Child("rootFunctions", "TypedFunction")>>
    [] AfterType(s) = "Property" -> <<Child("rootProperty", "Property")>>
    [] OTHER                     -> <<Child("variables", "Variable")>>

\* parseObject: one declaration of an object
Declaration(s) ==
  CASE cur(s).t = "Import"      -> <<Tok("Import"), Ident("imports"), Eols>>
    [] cur(s).t = "Auto"        -> <<Tok("Auto"), Tok("State"), Child("states", "AutoState")>>
    [] cur(s).t = "State"       -> <<Tok("State"), Child("states", "State")>>
    [] cur(s).t = "Guard"       -> <<Tok("Guard"), Ident("guards"), Eols>>
    [] cur(s).t = "Struct"      -> <<Tok("Struct"), Child("structs", "Struct")>>
    [] cur(s).t = "Group"       -> <<Tok("Group"), Child("propertyGroups", "Group")>>
    [] cur(s).t = "CustomEvent" -> <<Tok("CustomEvent"), Ident("customEvents"), Eols>>
    [] cur(s).t = "Event"       -> <<Child("rootFunctions", "Event")>>
    [] cur(s).t = "Function"    -> <<Child("rootFunctions", "Function")>>
    [] cur(s).t \in TypeTokens  -> OfType(s)
    [] OTHER                    -> <<Bad>>

\* The body of a function; only its end is an error that is not fatal.
FunctionBody(end, r) ==
  IF "Native" \in r.userFlags THEN <<>>
  ELSE <<Body("statements", {end, "END"}),
         If({"END"}, <<Item("unexpected end", "", "")>>, <<Tok(end), Eols>>)>>

\* The get and the set function of a property with neither value nor Auto
Accessors(r) ==
  IF HasValue(r) \/ "Auto" \in r.userFlags THEN <<>>
  ELSE <<Also("accessor"), Also("accessor"), Tok("EndProperty"), Eols>>

Accessor(s) ==
  CASE cur(s).t = "Function"    -> <<Child("writeFunction", "Setter")>>
    [] cur(s).t \in TypeTokens  -> <<Child("readFunction", "Getter")>>
    [] cur(s).t = "EndProperty" -> <<>>
    [] OTHER                    -> <<Bad>>

\* The loops of parseState, parseStruct and parsePropertyGroup
StateMember(s) ==
  CASE cur(s).t = "EndState"   -> <<Tok("EndState"), Eols>>
    [] cur(s).t = "Event"      -> <<Child("functions", "Event"), Also("functions")>>
    [] cur(s).t = "Function"   -> <<Child("functions", "Function"), Also("functions")>>
    [] cur(s).t \in TypeTokens -> <<Child("functions", "TypedFunction"), Also("functions")>>
    [] OTHER                   -> <<Bad>>

LoopOf(s, f, k, end, choice) ==
  CASE cur(s).t = end          -> <<Tok(end), Eols>>
    [] cur(s).t \in TypeTokens -> <<Child(f, k), Also(choice)>>
    [] OTHER                   -> <<Bad>>

\* The script every script extends that names no other
DefaultParent(game, name) ==
  LET base == IF game = "Skyrim" THEN "__ScriptObject" ELSE "ScriptObject"
  IN IF name = base THEN NoType ELSE Leaf("type", base)

-----------------------------------------------------------------------------
(* The productions of the statements.                                      *)

AssignOperators == {"=", "+=", "-=", "*=", "/=", "%="}
Locks == <<If({"Identifier"}, <<List(<<Item("lock", "sub", "")>>)>>, <<Bad>>), Eols,
           Body("sub", {"EndGuard"}), Tok("EndGuard"), Eols>>
EndOfDeclare == <<Maybe("Const", <<Const("sub", Leaf("const", ""))>>), Eols>>
Declare == <<Type("sub"), Ident("n"), Maybe("=", <<Expr>>)>> \o EndOfDeclare

\* parseStatement, by the keyword that begins it
Keyword ==
  [Return    |-> <<If({"EOL"}, <<>>, <<Expr>>), Eols>>,
   Guard     |-> Locks,
   TryGuard  |-> Locks,
   If        |-> <<Also("if")>>,
   Break     |-> <<Eols>>,
   Continue  |-> <<Eols>>,
   Do        |-> <<Eols, Body("sub", {"LoopWhile"}), Tok("LoopWhile"), Expr, Eols>>,
   For       |-> <<Also("for"), Tok("="), Expr, Tok("To"), Expr, Maybe("Step", <<Expr>>),
                   Eols, Body("sub", {"EndFor"}), Tok("EndFor"), Eols>>,
   ForEach   |-> <<If({"("}, <<Tok("("), Child("sub", "Declared"), Tok("In"), Expr, Tok(")")>>,
                      <<Child("sub", "Declared"), Tok("In"), Expr>>),
                   Eols, Body("sub", {"EndForEach"}), Tok("EndForEach"), Eols>>,
   Switch    |-> <<Const("n", <<>>), Expr, Eols, Also("switch")>>,
   While     |-> <<Expr, Eols, Body("sub", {"EndWhile"}), Tok("EndWhile"), Eols>>]

CaseEnds == {"Case", "EndSwitch", "Default"}

Cases(s) ==
  CASE cur(s).t = "Case"      -> <<Tok("Case"), Value("sub"), Eols, Body("sub", CaseEnds),
                                   Also("switch")>>
    [] cur(s).t = "Default"   -> <<Also("once"), Tok("Default"), Eols,
                                   Body("default", CaseEnds), Also("switch")>>
    [] cur(s).t = "EndSwitch" -> <<Tok("EndSwitch"), Eols>>
    [] OTHER                  -> <<Bad>>

ElseOf(s) ==
  CASE cur(s).t = "ElseIf" -> <<Tok("ElseIf"), Also("if")>>
    [] cur(s).t = "Else"   -> <<Tok("Else"), Eols, Body("sub", {"EndIf"}), Tok("EndIf"), Eols>>
    [] OTHER               -> <<Const("sub", Leaf("body", "")), Tok("EndIf"), Eols>>

\* What an item that is chosen by its context stands for
Choice(choice, r, s) ==
  CASE choice = "members"   -> IF cur(s).t = "END" THEN <<>>
                               ELSE Append(Declaration(s), Also("members"))
    [] choice = "parent"    -> <<Const("parentClass", DefaultParent(s.game, r.name))>>
    [] choice = "native"    -> IF s.game = "Skyrim" /\ r.name \in SkyrimNativeClasses
                               THEN <<Const("userFlags", r.userFlags \union {"Native"})>>
                               ELSE <<>>
    [] choice = "functions" -> StateMember(s)
    [] choice = "struct"    -> LoopOf(s, "members", "StructMember", "EndStruct", choice)
    [] choice = "group"     -> LoopOf(s, "properties", "Property", "EndGroup", choice)
    [] choice = "property"  -> Accessors(r)
    [] choice = "accessor"  -> Accessor(s)
    [] choice \in {"EndFunction", "EndEvent"} -> FunctionBody(choice, r)
    [] choice = "argument"  -> IF cur(s).t = "Identifier" /\ peek(s, 0) = "="
                               THEN <<Ident("n"), Tok("=")>> ELSE <<>>
    [] choice = "if"        -> <<Expr, Eols, Body("sub", {"ElseIf", "Else", "EndIf"}),
                                 Also("else")>>
    [] choice = "else"      -> ElseOf(s)
    [] choice = "for"       -> IF peek(s, 0) = "Identifier" THEN <<Child("sub", "Declared")>>
                               ELSE <<Item("id", "sub", "")>>
    [] choice = "switch"    -> Cases(s)
    [] choice = "once"      -> IF r.n = <<>> THEN <<>> ELSE <<Item("default twice", "", "")>>
    [] choice = "operator"  -> IF cur(s).t \in AssignOperators
                               THEN <<Item("operator", "operator", ""), Expr>> ELSE <<>>

Chosen == {"if", "list", "more", "choice"}

Expand(i, r, s) ==
  CASE i.t = "if"     -> IF cur(s).t \in i.x[1] THEN i.x[2] ELSE i.x[3]
    [] i.t = "list"   -> <<Maybe(",", <<>>)>> \o i.x \o <<More(i.x)>>
    [] i.t = "more"   -> IF cur(s).t = "," THEN <<List(i.x)>> ELSE <<>>
    [] i.t = "choice" -> Choice(i.x, r, s)

IsDeclaration(s) ==
  \/ cur(s).t \in BasicTypes
  \/ /\ cur(s).t = "Identifier"
     /\ \/ peek(s, 0) = "Identifier"
        \/ peek(s, 0) = "[" /\ peek(s, 1) = "]" /\ peek(s, 2) = "Identifier"

-----------------------------------------------------------------------------
(* Parsing.                                                                *)

Levels == <<{"||"}, {"&&"}, {"==", "!=", "<", "<=", ">", ">="}, {"+", "-"}, {"*", "/", "%"}>>
Additive == 4

Negative(s) == cur(s).t \in {"int", "float"} /\ cur(s).v < 0

Made(k, n, s)       == IF s.fatal THEN s ELSE Val(s, Node(k, n, <<s.val>>))
Joined(k, n, a, s)  == IF s.fatal THEN s ELSE Val(s, Node(k, n, <<a, s.val>>))
NameAs(k, s)       == Val(expectConsume(s, "Identifier"), Leaf(k, cur(s).v))
Closed(t, s)        == Val(expectConsume(s, t), s.val)

RECURSIVE Parse(_, _, _), ParseBody(_, _, _), ParseBinary(_, _), Operators(_, _),
          Accesses(_), ParseFuncOrId(_)

\* mutant of Operators: they associate to the right
RightOperators(l, s) ==
  IF ~s.fatal /\ cur(s).t \in Levels[l]
  THEN Joined("binop", cur(s).t, s.val, ParseBinary(l, consume(s))) ELSE s

\* parseExpression, parseAndExpression, parseCmpExpression, parseAddExpression
\* and parseMultExpression: s.val is the left operand so far.  A literal that
\* follows an operand and is negative can be told to be an addition.
Operators(l, s) ==
  IF s.fatal THEN s
  ELSE IF cur(s).t \in Levels[l]
  THEN Operators(l, Joined("binop", cur(s).t, s.val, ParseBinary(l + 1, consume(s))))
  ELSE IF l = Additive /\ s.negatives /\ Negative(s)
  THEN Operators(l, Joined("binop", "+", s.val, ParseBinary(l + 1, s)))
  ELSE s

Indexed(s) ==
  IF s.fatal \/ cur(s).t # "[" THEN s
  ELSE Closed("]", Joined("index", "", s.val, ParseBinary(1, consume(s))))

\* parseFuncOrIdExpression
ParseFuncOrId(s) ==
  CASE s.fatal -> s
    [] cur(s).t \in {"Length", "Parent", "Self"} -> Val(consume(s), Leaf(cur(s).t, ""))
    [] cur(s).t = "Identifier" ->
         IF peek(s, 0) = "(" THEN Parse(Production.Call, Fresh.Call, s) ELSE NameAs("id", s)
    [] OTHER -> Fatal(s)

\* parseAtomExpression
NewOf(s) ==
  IF s.fatal \/ cur(s).t # "[" THEN Made("newstruct", "", s)
  ELSE Closed("]", Joined("newarray", "", s.val, ParseBinary(1, consume(s))))

ParseAtom(s) ==
  CASE cur(s).t = "("   -> Closed(")", ParseBinary(1, consume(s)))
    [] cur(s).t = "New" -> NewOf(ParseType(consume(s)))
    [] OTHER            -> ParseFuncOrId(s)

\* parseDotExpression: after each member one index may follow.
Accesses(s) ==
  IF s.fatal \/ cur(s).t # "." THEN s
  ELSE Accesses(Indexed(Joined("access", "", s.val, ParseFuncOrId(consume(s)))))

ParseDot(s) == IF cur(s).t \in Literals THEN ParseValue(s)
               ELSE Accesses(Indexed(ParseAtom(s)))

\* parseCastExpression
CastOf(s) == IF s.fatal \/ cur(s).t \notin {"Is", "As"} THEN s
             ELSE Joined(cur(s).t, "", s.val, ParseType(consume(s)))

\* parseUnaryExpression
ParseUnary(s) ==
  IF cur(s).t \in {"!", "-"} THEN Made("unop", cur(s).t, CastOf(ParseDot(consume(s))))
  ELSE CastOf(ParseDot(s))

ParseBinary(l, s) ==
  IF s.fatal THEN s
  ELSE IF l > Len(Levels) THEN ParseUnary(s) ELSE Operators(l, ParseBinary(l + 1, s))

\* parseStatement
ParseStatement(s) ==
  CASE cur(s).t \in DOMAIN Keyword ->
         Parse(Keyword[cur(s).t], Leaf(cur(s).t, ""), consume(s))
    [] cur(s).t = "Auto" /\ s.extensions ->
         Parse(<<Child("sub", "Declared"), Tok("="), Expr, Eols>>, Leaf("auto", ""), s)
    [] IsDeclaration(s) -> Parse(Declare, Leaf("declare", ""), s)
    [] OTHER -> Parse(<<Expr, Also("operator"), Eols>>, Leaf("expression", ""), s)

ParseBody(ends, got, s) ==
  IF s.fatal THEN s
  ELSE IF cur(s).t \in ends THEN Val(s, Node("body", "", got))
  ELSE LET one == ParseStatement(s) IN ParseBody(ends, Append(got, one.val), one)

\* What a single item takes from the tokens
Take(i, s) ==
  CASE i.t = "token"      -> expectConsume(s, i.x)
    [] i.t = "ident"      -> expectConsume(s, "Identifier")
    [] i.t = "operator"   -> Val(consume(s), cur(s).t)
    [] i.t = "parent"     -> NameAs("type", s)
    [] i.t = "id"         -> NameAs("id", s)
    [] i.t = "lock"       -> NameAs("lock", s)
    [] i.t = "type"       -> ParseType(s)
    [] i.t = "value"      -> ParseValue(s)
    [] i.t = "flags"      -> ParseFlags(i.x, {}, s)
    [] i.t = "doc"        -> ParseDoc(s)
    [] i.t = "eols"       -> expectConsumeEOLs(s)
    [] i.t = "maybe eols" -> maybeConsumeEOLs(s)
    [] i.t = "const"      -> Val(s, i.x)
    [] i.t = "expression" -> ParseBinary(1, s)
    [] i.t = "body"       -> ParseBody(i.x, <<>>, s)
    [] i.t = "child"      -> Parse(Production[i.x], Fresh[i.x], s)
    [] i.t \in {"unexpected end", "default twice"} -> Err(s)
    [] i.t = "bad"        -> Fatal(s)

Taken(items, i, r, s) ==
  IF s.fatal THEN s
  ELSE Parse(items, Put(i.f, r, s.val), IF Wrong(i.f, r, s.val) THEN Err(s) ELSE s)

Parse(items, r, s) ==
  IF s.fatal \/ items = <<>> THEN Val(s, r)
  ELSE IF Head(items).t \in Chosen
  THEN Parse(Expand(Head(items), r, s) \o Tail(items), r, s)
  ELSE Taken(Tail(items), Head(items), r, Take(Head(items), s))

-----------------------------------------------------------------------------
(* A script.                                                               *)

Pieces(name) == IF name \in DOMAIN Qualified THEN Qualified[name] ELSE <<name>>

\* doesScriptNameMatchNextPartOfDir
NameMatches(path, name) == IsSuffix(Pieces(name), path)

Start(game, extensions, negatives, tokens) ==
  [rest |-> tokens, fatal |-> FALSE, errors |-> FALSE, val |-> 0,
   game |-> game, extensions |-> extensions, negatives |-> negatives]

\* parseScript
ParseScript(path, s) ==
  LET p == Parse(Production.Object, Fresh.Object, s)
  IN [ok |-> ~p.fatal /\ ~p.errors /\ NameMatches(path, p.val.name),
      val |-> IF p.fatal THEN Fresh.Object ELSE p.val]
=============================================================================
