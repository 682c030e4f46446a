-------------------------- MODULE PapyrusGrammar --------------------------
(***************************************************************************)
(* The language the parser is meant to accept, stated the other way round: *)
(* the tokens a tree is written with.  Parentheses are written only where  *)
(* the precedence of the operators calls for them.  The parser is checked  *)
(* against it in module ScriptCompile.                                     *)
(***************************************************************************)
EXTENDS PapyrusParser

Word(t)    == <<Token(t, t)>>
Name(n)    == <<Token("Identifier", n)>>
Eol        == <<Token("EOL", "")>>
Optional(c, s) == IF c THEN s ELSE <<>>

TypeText(type) ==
  (IF type.n \in BasicTypes \union Named THEN Word(type.n) ELSE Name(type.n))
  \o Optional(type.kind = "array", Word("[") \o Word("]"))

LiteralText(v) == <<Token(v.kind, v.n)>>

-----------------------------------------------------------------------------
(* Expressions.                                                            *)

Precedence(op) == CHOOSE l \in DOMAIN Levels : op \in Levels[l]
Unary == 6
Cast  == 7
Dot   == 8
Atom  == 9

\* How tightly an expression is bound
Binding(e) ==
  CASE e.kind = "binop"               -> Precedence(e.n)
    [] e.kind = "unop"                -> Unary
    [] e.kind \in {"As", "Is"}        -> Cast
    [] e.kind \in {"access", "index"} -> Dot
    [] OTHER                       -> Atom

IsMember(e) == e.kind \in {"id", "call", "Length", "Parent", "Self"}

\* What a member can be taken of, and what can be indexed, without parentheses
HasMembers(e) == e.kind \in {"access", "index", "newarray", "newstruct"} \/ IsMember(e)
HasElements(e) == e.kind \in {"access", "newarray"} \/ IsMember(e)

RECURSIVE ExprText(_), ArgumentTexts(_)

Bracketed(c, e) == IF c THEN ExprText(e)
                   ELSE Word("(") \o ExprText(e) \o Word(")")
Operand(e, l)   == Bracketed(Binding(e) >= l, e)

ArgumentText(a) ==
  Optional(a.n # "", Name(a.n) \o Word("=")) \o ExprText(a.sub[1])

ArgumentTexts(as) ==
  IF as = <<>> THEN <<>>
  ELSE ArgumentText(as[1])
       \o Optional(Len(as) > 1, Word(",") \o ArgumentTexts(Tail(as)))

ExprText(e) ==
  CASE e.kind = "binop" -> Operand(e.sub[1], Precedence(e.n)) \o Word(e.n)
                        \o Operand(e.sub[2], Precedence(e.n) + 1)
    [] e.kind = "unop"  -> Word(e.n) \o Operand(e.sub[1], Cast)
    [] e.kind \in {"As", "Is"} -> Operand(e.sub[1], Dot) \o Word(e.kind) \o TypeText(e.sub[2])
    [] e.kind = "access" -> Bracketed(HasMembers(e.sub[1]), e.sub[1]) \o Word(".")
                         \o ExprText(e.sub[2])
    [] e.kind = "index"  -> Bracketed(HasElements(e.sub[1]), e.sub[1])
                         \o Word("[") \o ExprText(e.sub[2]) \o Word("]")
    [] e.kind = "call"   -> Name(e.n) \o Word("(") \o ArgumentTexts(e.sub) \o Word(")")
    [] e.kind = "newarray"  -> Word("New") \o TypeText(e.sub[1])
                            \o Word("[") \o ExprText(e.sub[2]) \o Word("]")
    [] e.kind = "newstruct" -> Word("New") \o TypeText(e.sub[1])
    [] e.kind = "id"        -> Name(e.n)
    [] e.kind \in Literals  -> LiteralText(e)
    [] OTHER             -> Word(e.kind)

-----------------------------------------------------------------------------
(* Statements.                                                             *)

RECURSIVE StatementText(_), ClauseTexts(_), LockTexts(_)

BodyText(b) == Each(b.sub, StatementText)

DeclaredText(d) ==
  (IF d.sub[1].kind = "auto" THEN Word("Auto") ELSE TypeText(d.sub[1])) \o Name(d.n)

LockTexts(ls) ==
  Name(ls[1].n) \o Optional(Len(ls) > 1, Word(",") \o LockTexts(Tail(ls)))

\* Conditions and bodies in turn, then the body of the else
ClauseTexts(s) ==
  IF Len(s) = 1
  THEN Optional(s[1].sub # <<>>, Word("Else") \o Eol \o BodyText(s[1]))
  ELSE ExprText(s[1]) \o Eol \o BodyText(s[2])
       \o Optional(Len(s) > 3, Word("ElseIf")) \o ClauseTexts(SubSeq(s, 3, Len(s)))

DeclareText(d) ==
  LET init == SelectSeq(Tail(d.sub), LAMBDA x: x.kind # "const")
  IN DeclaredText(d) \o Each(init, LAMBDA x: Word("=") \o ExprText(x))
     \o Optional(\E i \in DOMAIN d.sub : d.sub[i].kind = "const", Word("Const")) \o Eol

CaseTexts(s) ==
  Each([i \in 1..(Len(s) \div 2) |-> <<s[2 * i - 1], s[2 * i]>>],
       LAMBDA c: Word("Case") \o LiteralText(c[1]) \o Eol \o BodyText(c[2]))

ForText(s) ==
  (IF s[1].kind = "declare" THEN DeclaredText(s[1]) ELSE Name(s[1].n))
  \o Word("=") \o ExprText(s[2]) \o Word("To") \o ExprText(s[3])
  \o Optional(Len(s) = 5, Word("Step") \o ExprText(s[4])) \o Eol
  \o BodyText(Last(s)) \o Word("EndFor") \o Eol

StatementText(x) ==
  LET s == x.sub IN
  CASE x.kind = "Return" -> Word("Return") \o Each(s, ExprText) \o Eol
    [] x.kind \in {"Guard", "TryGuard"} ->
         Word(x.kind) \o LockTexts(Front(s)) \o Eol \o BodyText(Last(s)) \o Word("EndGuard") \o Eol
    [] x.kind = "If" -> Word("If") \o ClauseTexts(s) \o Word("EndIf") \o Eol
    [] x.kind \in {"Break", "Continue"} -> Word(x.kind) \o Eol
    [] x.kind = "Do" -> Word("Do") \o Eol \o BodyText(s[1])
                     \o Word("LoopWhile") \o ExprText(s[2]) \o Eol
    [] x.kind = "For" -> Word("For") \o ForText(s)
    [] x.kind = "ForEach" -> Word("ForEach") \o DeclaredText(s[1]) \o Word("In") \o ExprText(s[2])
                          \o Eol \o BodyText(s[3]) \o Word("EndForEach") \o Eol
    [] x.kind = "Switch" -> Word("Switch") \o ExprText(s[1]) \o Eol \o CaseTexts(Tail(s))
                         \o Optional(x.n # <<>>, Word("Default") \o Eol
                                                 \o Each(x.n, StatementText))
                         \o Word("EndSwitch") \o Eol
    [] x.kind = "While" -> Word("While") \o ExprText(s[1]) \o Eol \o BodyText(s[2])
                        \o Word("EndWhile") \o Eol
    [] x.kind = "auto" -> DeclaredText(s[1]) \o Word("=") \o ExprText(s[2]) \o Eol
    [] x.kind = "declare" -> DeclareText(x)
    [] x.kind = "assign" -> ExprText(s[1]) \o Word(x.n) \o ExprText(s[2]) \o Eol
    [] x.kind = "expression" -> ExprText(s[1]) \o Eol

-----------------------------------------------------------------------------
(* Declarations.                                                           *)

FlagTexts(flags) ==
  Each(SelectSeq(<<"AutoReadOnly", "BetaOnly", "Const", "DebugOnly", "Global", "Native">>,
                 LAMBDA f: f \in flags), Word)
  \o Optional("Auto" \in flags /\ "AutoReadOnly" \notin flags, Word("Auto"))
  \o Each(SelectSeq(UserFlagsDefinition, LAMBDA f: f.name \in flags),
          LAMBDA f: IF f.name = "default" THEN Word("Default") ELSE Name(f.name))

ValueText(v) == Optional(v.kind # "absent", Word("=") \o LiteralText(v))
DocText(doc) == Optional(doc # <<>>, <<Token("DocComment", doc)>> \o Eol)

ParameterText(p) == TypeText(p.type) \o Name(p.name) \o ValueText(p.defaultValue)

RECURSIVE ParameterTexts(_)
ParameterTexts(ps) ==
  IF ps = <<>> THEN <<>>
  ELSE ParameterText(ps[1])
       \o Optional(Len(ps) > 1, Word(",") \o ParameterTexts(Tail(ps)))

FunctionName(f) == IF f.functionType = "RemoteEvent"
                   THEN Name(f.remoteEventParent) \o Word(".") \o Name(f.remoteEventName)
                   ELSE Name(f.name)

IsEvent(f) == f.functionType \in {"Event", "RemoteEvent"}

FunctionText(f) ==
  LET kind == IF IsEvent(f) THEN "Event" ELSE "Function"
  IN Optional(f.returnType # NoType, TypeText(f.returnType)) \o Word(kind) \o FunctionName(f)
     \o Word("(") \o ParameterTexts(f.parameters) \o Word(")")
     \o FlagTexts(f.userFlags) \o Eol \o DocText(f.documentationComment)
     \o Optional("Native" \notin f.userFlags,
                 Each(f.statements, StatementText) \o Word("End" \o kind) \o Eol)

MemberText(v) == TypeText(v.type) \o Name(v.name) \o ValueText(v.defaultValue)
                 \o FlagTexts(v.userFlags) \o Eol

StructText(x) == Word("Struct") \o Name(x.name) \o Eol
                 \o Each(x.members, LAMBDA m: MemberText(m) \o DocText(m.documentationString))
                 \o Word("EndStruct") \o Eol

IsFull(p) == ~HasValue(p) /\ "Auto" \notin p.userFlags

PropertyText(p) ==
  TypeText(p.type) \o Word("Property") \o Name(p.name) \o ValueText(p.defaultValue)
  \o FlagTexts(p.userFlags) \o Eol \o DocText(p.documentationComment)
  \o Optional(IsFull(p), Each(p.readFunction \o p.writeFunction, FunctionText)
                         \o Word("EndProperty") \o Eol)

GroupText(g) ==
  IF g.name = "" THEN Each(g.properties, PropertyText)
  ELSE Word("Group") \o Name(g.name) \o FlagTexts(g.userFlags) \o Eol
       \o DocText(g.documentationComment) \o Each(g.properties, PropertyText)
       \o Word("EndGroup") \o Eol

\* The functions of the empty state are written outside of a state.
StateText(x) ==
  IF x.name = "" THEN Each(x.functions, FunctionText)
  ELSE Optional(x.isAuto, Word("Auto")) \o Word("State") \o Name(x.name) \o Eol
       \o Each(x.functions, FunctionText) \o Word("EndState") \o Eol

ObjectText(game, x) ==
  Word("ScriptName") \o Name(x.name)
  \o Optional(x.parentClass # DefaultParent(game, x.name),
              Word("Extends") \o Name(x.parentClass.n))
  \o FlagTexts(x.userFlags) \o Eol \o DocText(x.documentationString)
  \o Each(x.imports, LAMBDA n: Word("Import") \o Name(n) \o Eol)
  \o Each(x.structs, StructText) \o Each(x.variables, MemberText)
  \o Each(x.guards, LAMBDA n: Word("Guard") \o Name(n) \o Eol)
  \o Each(x.customEvents, LAMBDA n: Word("CustomEvent") \o Name(n) \o Eol)
  \o Each(x.propertyGroups, GroupText) \o Each(x.states, StateText)
=============================================================================
