---------------------------- MODULE PexAssembly ----------------------------
(***************************************************************************)
(* The text form of a pex file: what the writeAsm functions print, what    *)
(* PexAsmLexer makes of it, and what PexAsmParser builds from the tokens.  *)
(* The text is a sequence of words, one line ending in the word Eol; a     *)
(* word is what was printed between two blanks and still has to be lexed.  *)
(* The names of a file are strings; its texts (documentation, the strings  *)
(* of the code, where it was compiled) are sequences of characters, since  *)
(* printing and lexing them is not the identity.                           *)
(***************************************************************************)
EXTENDS PexFiles, TokenStream

MaxInt == 2147483647       \* INT_MAX
MinInt == -MaxInt - 1      \* INT_MIN

LF  == "\n"
CR  == "\r"
TAB == "\t"

\* Words
Word(w, v) == [w |-> w, v |-> v]
Dot(d)     == Word("dot", d)         \* a directive
Text(s)    == Word("text", s)        \* a name as it is
Colon(s)   == Word("colon", s)       \* a name and a colon
Quoted(s)  == Word("quoted", s)      \* a text between quotation marks
Digits(n)  == Word("digits", n)
AtLine(n)  == Word("line", n)        \* ;@line and a number
Remark     == Word("remark", "")     \* a comment
Eol        == Word("eol", "")

-----------------------------------------------------------------------------
(* Printing.                                                               *)

\* PexInstruction::opCodeToPexAsm, in the order of OpCodes
Mnemonics ==
  <<"noop", "iadd", "fadd", "isubtract", "fsubtract", "imultiply",
    "fmultiply", "idivide", "fdivide", "imod", "not", "inegate", "fnegate",
    "assign", "cast", "compareeq", "comparelt", "comparelte", "comparegt",
    "comparegte", "jump", "jumpt", "jumpf", "callmethod", "callparent",
    "callstatic", "return", "strcat", "propget", "propset", "arraycreate",
    "arraylength", "arraygetelement", "arraysetelement", "arrayfindelement",
    "arrayrfindelement", "is", "structcreate", "structget", "structset",
    "arrayfindstruct", "arrayrfindstruct", "arrayaddelements",
    "arrayinsertelement", "arrayremovelastelement", "arrayremoveelements",
    "arrayclearelements", "arraygetallmatchingstructs", "lockguards",
    "unlockguards", "trylockguards">>

\* PexAsmWriter::escapeString
Escape(c) == CASE c = LF   -> <<"\\", "n">>
               [] c = TAB  -> <<"\\", "t">>
               [] c = "\"" -> <<"\\", "\"">>
               [] c = "\\" -> <<"\\", "\\">>
               [] OTHER    -> <<c>>

Escaped(s) == Each(s, Escape)

\* writeKV of a text, of a number, and a line of a directive and words
Said(d, s)       == <<Dot(d), Quoted(Escaped(s)), Eol>>
Line(d, words)   == <<Dot(d)>> \o words \o <<Eol>>
Flags(x)         == Line("userFlags", <<Digits(x.userFlags)>>)
Documentation(x) == Said("docString", x.documentationString)

\* What a float prints as with %f: six digits after the point.
Printed(x) == IF x = Infinite THEN Text("inf") ELSE Word("fraction", 10 * ((x + 5) \div 10))

\* PexValue::writeAsm
ValueAsm(v) ==
  CASE v.kind = "none" -> <<Text("none")>>
    [] v.kind = "id"   -> <<Text(v.n)>>
    [] v.kind = "str"  -> <<Quoted(Escaped(v.n))>>
    [] v.kind = "int"  -> <<Digits(v.n)>>
    [] v.kind = "flt"  -> <<Printed(v.n)>>
    [] v.kind = "bool" -> <<Text(IF v.n THEN "true" ELSE "false")>>
    [] OTHER        -> <<Word("logicalFatal", v.kind)>>

ValuesAsm(s) == Each(s, ValueAsm)

\* PexInstruction::isBranch and branchTarget; the position is from 0
IsBranch(x) == x.opCode \in {"Jmp", "JmpT", "JmpF"}
Target(x, at) == Last(x.args).n + at

\* The targets of the branches in the order of their labels' numbers
LabelMap(code) ==
  FoldLeft(LAMBDA m, i: IF IsBranch(code[i]) /\ Target(code[i], i - 1) \notin Range(m)
                        THEN Append(m, Target(code[i], i - 1)) ELSE m,
           <<>>, [i \in DOMAIN code |-> i])

Label(m, target) ==
  "label" \o ToString((CHOOSE i \in DOMAIN m : m[i] = target) - 1)

LabelAt(m, at) ==
  When(at \in Range(m), <<Colon(Label(m, at)), Eol>>)

InstructionAsm(m, x, at) ==
  <<Text(Mnemonics[Number(x.opCode)])>>
  \o (IF IsBranch(x) THEN ValuesAsm(Front(x.args))
                          \o <<Text(Label(m, Target(x, at)))>>
      ELSE ValuesAsm(x.args) \o ValuesAsm(x.variadicArgs))

\* PexFile::tryFindFunctionDebugInfo: the lines of the first entry that fits
DebugLines(file, object, state, name, functionType) ==
  LET fits(d) == /\ d.objectName = object /\ d.stateName = state
                 /\ d.functionName = name /\ d.functionType = functionType
      found == SelectSeq(IF file.hasDebugInfo THEN file.debugInfo.functions
                         ELSE <<>>, fits)
  IN IF found = <<>> THEN <<>> ELSE found[1].instructionLineMap

CodeAsm(code, lines, m) ==
  FlattenSeq([i \in DOMAIN code |->
                LabelAt(m, i - 1) \o InstructionAsm(m, code[i], i - 1)
                \o When(i <= Len(lines), <<AtLine(lines[i])>>) \o <<Eol>>] \o <<>>)
  \o LabelAt(m, Len(code))

VariableList(d, x) == Each(x, LAMBDA v: Line(d, <<Text(v.name), Text(v.type)>>))

\* PexFunction::writeAsm, with what is printed as the name and the lines
FunctionAsm(x, name, lines) ==
  Line("function", <<Text(name)>> \o When("native" \in x.flags, <<Text("native")>>)
                   \o When("global" \in x.flags, <<Text("static")>>))
  \o Flags(x) \o Documentation(x) \o Line("return", <<Text(x.returnTypeName)>>)
  \o Line("paramTable", <<>>) \o VariableList("param", x.parameters)
  \o Line("endParamTable", <<>>)
  \o When("native" \notin x.flags,
          Line("localTable", <<>>) \o VariableList("local", x.locals)
          \o Line("endLocalTable", <<>>) \o Line("code", <<>>)
          \o CodeAsm(x.instructions, lines, LabelMap(x.instructions))
          \o Line("endCode", <<>>))
  \o Line("endFunction", <<>>)

\* PexProperty::writeAsm
PropertyAsm(file, object, x) ==
  Line("property", <<Text(x.name), Text(x.typeName)>>
                   \o When("auto" \in x.flags, <<Text("auto")>>))
  \o Flags(x) \o Documentation(x)
  \o (IF "auto" \in x.flags THEN Line("autoVar", <<Text(x.autoVar)>>)
      ELSE When("readable" \in x.flags,
                FunctionAsm(x.readFunction, "get",
                            DebugLines(file, object, "", x.name, "Getter")))
           \o When("writable" \in x.flags,
                   FunctionAsm(x.writeFunction, "set",
                               DebugLines(file, object, "", x.name, "Setter"))))
  \o Line("endProperty", <<>>)

\* PexVariable::writeAsm and PexStructMember::writeAsm
VariableAsm(x, documentation) ==
  Line("variable", <<Text(x.name), Text(x.typeName)>>
                   \o When(x.isConst, <<Text("const")>>))
  \o Flags(x) \o Line("initialValue", ValueAsm(x.defaultValue))
  \o documentation \o Line("endVariable", <<>>)

\* PexStruct::writeAsm
StructAsm(x) ==
  Line("struct", <<Text(x.name)>>)
  \o Each(x.members, LAMBDA m: VariableAsm(m, Documentation(m)))
  \o Line("endStruct", <<>>)

\* PexDebugPropertyGroup::writeAsm
GroupAsm(x) ==
  Line("propertyGroup", <<Text(x.groupName)>>) \o Flags(x) \o Documentation(x)
  \o Each(x.properties, LAMBDA p: Line("property", <<Text(p)>>))
  \o Line("endPropertyGroup", <<>>)

\* PexState::writeAsm
StateAsm(file, object, x) ==
  Line("state", <<Text(x.name)>>)
  \o Each(x.functions,
           LAMBDA f: FunctionAsm(f, f.name, DebugLines(file, object, x.name,
                                                       f.name, "Normal")))
  \o Line("endState", <<>>)

GroupsOf(file, object) ==
  SelectSeq(IF file.hasDebugInfo THEN file.debugInfo.propertyGroups ELSE <<>>,
            LAMBDA g: g.objectName = object)

\* PexObject::writeAsm
ObjectAsm(file, x) ==
  Line("object", <<Text(x.name), Text(x.parentClassName)>>
                 \o When(x.isConst, <<Text("const")>>))
  \o Flags(x) \o Documentation(x) \o Line("autoState", <<Text(x.autoStateName)>>)
  \o Line("structTable", <<>>) \o Each(x.structs, StructAsm)
  \o Line("endStructTable", <<>>)
  \o Line("variableTable", <<>>)
  \o Each(x.variables, LAMBDA v: VariableAsm(v, <<>>))
  \o Line("endVariableTable", <<>>)
  \o Line("guardTable", <<>>)
  \o Each(x.guards, LAMBDA g: Line("guard", <<Text(g.name)>>))
  \o Line("endGuardTable", <<>>)
  \o Line("propertyTable", <<>>)
  \o Each(x.properties, LAMBDA p: PropertyAsm(file, x.name, p))
  \o Line("endPropertyTable", <<>>)
  \o Line("propertyGroupTable", <<>>)
  \o Each(GroupsOf(file, x.name), GroupAsm)
  \o Line("endPropertyGroupTable", <<>>)
  \o Line("stateTable", <<>>)
  \o Each(x.states, LAMBDA s: StateAsm(file, x.name, s))
  \o Line("endStateTable", <<>>) \o Line("endObject", <<>>)

\* PexFile::writeAsm
WriteAsm(file) ==
  Line("info", <<>>) \o Said("source", file.sourceFileName)
  \o (IF file.hasDebugInfo
      THEN Line("modifyTime", <<Digits(file.debugInfo.modificationTime)>>)
      ELSE Line("modifyTime", <<Digits(0), Remark>>))
  \o Line("compileTime", <<Digits(file.compilationTime)>>)
  \o Said("user", file.userName) \o Said("computer", file.computerName)
  \o Line("endInfo", <<>>)
  \o Line("userFlagsRef", <<>>)
  \o Each(file.userFlagTable,
           LAMBDA f: Line("flag", <<Text(f.name), Digits(f.bit)>>))
  \o Line("endUserFlagsRef", <<>>)
  \o Line("objectTable", <<>>)
  \o Each(file.objects, LAMBDA x: ObjectAsm(file, x))
  \o Line("endObjectTable", <<>>)

-----------------------------------------------------------------------------
(* PexAsmLexer: the tokens of a text, [t, v].                              *)

Directives ==
  {"autoState", "autoVar", "code", "compileTime", "computer", "docString",
   "endCode", "endFunction", "endGuardTable", "endInfo", "endLocalTable",
   "endObject", "endObjectTable", "endParamTable", "endProperty",
   "endPropertyTable", "endPropertyGroup", "endPropertyGroupTable",
   "endState", "endStateTable", "endStruct", "endStructTable",
   "endUserFlagsRef", "endVariable", "endVariableTable", "flag", "function",
   "guard", "guardTable", "info", "initialValue", "local", "localTable",
   "modifyTime", "object", "objectTable", "param", "paramTable", "property",
   "propertyTable", "propertyGroup", "propertyGroupTable", "return",
   "source", "state", "stateTable", "struct", "structTable", "user",
   "userFlags", "userFlagsRef", "variable", "variableTable"}

\* mutant of Unescape: every escaped character stands for itself
Itself(c) == c

Unescape(c) == CASE c = "n" -> LF [] c = "t" -> TAB [] OTHER -> c

RECURSIVE StringToken(_, _)
\* The text up to the quotation mark, which the end of the line must not precede
StringToken(s, got) ==
  IF s = <<>> THEN Token("string", got)
  ELSE IF Head(s) \in {LF, CR, "\""} THEN Token("fatal", "Unclosed string!")
  ELSE IF Head(s) # "\\" THEN StringToken(Tail(s), Append(got, Head(s)))
  ELSE IF Len(s) > 1 /\ s[2] \in {"n", "t", "\\", "\""}
       THEN StringToken(SubSeq(s, 3, Len(s)), Append(got, Unescape(s[2])))
       ELSE Token("fatal", "Unrecognized escape sequence")

\* PexAsmLexer::consume
Lexed(word) ==
  CASE word.w = "dot"      -> <<Token(IF word.v \in Directives THEN "dir"
                                      ELSE "fatal", word.v)>>
    [] word.w = "text"     -> When(word.v # "", <<Token("ident", word.v)>>)
    [] word.w = "colon"    -> <<Token("label", word.v)>>
    [] word.w = "quoted"   -> <<StringToken(word.v, <<>>)>>
    [] word.w = "digits"   -> <<Token("int", word.v)>>
    [] word.w = "fraction" -> <<Token("float", word.v)>>
    [] word.w = "line"     -> <<Token("line", ""), Token("int", word.v)>>
    [] word.w = "remark"   -> <<>>
    [] word.w = "eol"      -> <<Token("EOL", "")>>
    [] OTHER               -> <<Token("fatal", word.v)>>

-----------------------------------------------------------------------------
(* PexAsmParser.  A state holds the tokens left, whether a fatal error has *)
(* stopped the parser, the errors reported, the debug information made so  *)
(* far, the names of what is being parsed, and the value just taken.       *)

Start(tokens) ==
  [rest |-> tokens, fatal |-> FALSE, errors |-> FALSE, val |-> 0,
   hasDebug |-> FALSE, debug |-> New["PexDebugInfo"], lines |-> <<>>,
   object |-> "", state |-> "", property |-> ""]

IsDir(s, d) == cur(s).t = "dir" /\ cur(s).v = d

ExpectEOL(s) ==
  LET e == expectConsume(s, "EOL") IN [e EXCEPT !.val = s.val]

\* expectConsumeInteger leaves out both ends of the 32 bits.
ExpectInteger(s) ==
  LET i == expectConsume(s, "int")
  IN IF ~i.fatal /\ i.val \in {MaxInt, MinInt} THEN Fatal(i) ELSE i

Boolean == [none |-> NoneValue, true |-> [kind |-> "bool", n |-> TRUE],
            false |-> [kind |-> "bool", n |-> FALSE]]

\* expectConsumeValue
ExpectValue(s) ==
  LET t == cur(s).t IN
  CASE t = "int"    -> LET i == ExpectInteger(s)
                       IN Val(i, [kind |-> "int", n |-> i.val])
    [] t = "float"  -> Val(consume(s), [kind |-> "flt", n |-> cur(s).v])
    [] t = "string" -> Val(consume(s), [kind |-> "str", n |-> cur(s).v])
    [] t = "ident"  -> Val(consume(s), IF cur(s).v \in DOMAIN Boolean
                                       THEN Boolean[cur(s).v]
                                       ELSE [kind |-> "id", n |-> cur(s).v])
    [] OTHER        -> Fatal(s)

\* One word of a line, by what the parser asks for
Take(what, s) ==
  CASE what = "ident"    -> expectConsume(s, "ident")
    [] what = "string"   -> expectConsume(s, "string")
    [] what = "long"     -> expectConsume(s, "int")
    [] what = "integer"  -> ExpectInteger(s)
    [] what = "value"    -> ExpectValue(s)
    [] what = "bit"      -> LET i == ExpectInteger(s)
                            IN IF ~i.fatal /\ i.val \notin 0..255
                               THEN Fatal(i) ELSE i
    [] what = "autoState" -> IF cur(s).t = "ident" THEN consume(s) ELSE Val(s, "")
    [] what = "or empty" -> IF cur(s).t # "EOL" THEN expectConsume(s, "ident")
                            ELSE Val(s, "")
    [] what = "const"    -> IF cur(s).t = "EOL" THEN Val(s, FALSE)
                            ELSE IF cur(s).t # "ident" THEN Fatal(s)
                            ELSE IF cur(s).v = "const" THEN Val(consume(s), TRUE)
                            ELSE Val(s, FALSE)
    [] what = "auto"     -> IF cur(s).t = "EOL" THEN Val(s, {})
                            ELSE LET i == expectConsume(s, "ident")
                                 IN IF i.fatal \/ i.val # "auto" THEN Fatal(i)
                                    ELSE Val(i, {"auto", "readable", "writable"})

\* The words behind a directive that opens a structure, with the member each
\* goes into; a const comes before the name of the parent.
Header ==
  [PexObject |-> <<<<"name", "ident">>, <<"isConst", "const">>,
                   <<"parentClassName", "or empty">>>>,
   PexStruct |-> <<<<"name", "ident">>>>,
   PexStructMember |-> <<<<"name", "ident">>, <<"typeName", "ident">>,
                         <<"isConst", "const">>>>,
   PexVariable |-> <<<<"name", "ident">>, <<"typeName", "ident">>,
                     <<"isConst", "const">>>>,
   PexGuard |-> <<<<"name", "ident">>>>,
   PexProperty |-> <<<<"name", "ident">>, <<"typeName", "ident">>,
                     <<"flags", "auto">>>>,
   PexDebugPropertyGroup |-> <<<<"groupName", "or empty">>>>,
   PexState |-> <<<<"name", "or empty">>>>,
   PexFunctionParameter |-> <<<<"name", "ident">>, <<"type", "ident">>>>,
   PexLocalVariable |-> <<<<"name", "ident">>, <<"type", "ident">>>>,
   UserFlag |-> <<<<"name", "ident">>, <<"bit", "bit">>>>]

\* The directive that ends a structure; those without one are one line.
EndOf == [PexObject |-> "endObject", PexStruct |-> "endStruct",
          PexStructMember |-> "endVariable", PexVariable |-> "endVariable",
          PexProperty |-> "endProperty", PexState |-> "endState",
          PexDebugPropertyGroup |-> "endPropertyGroup"]

Member(f, what)        == [how |-> "member", f |-> f, t |-> what, open |-> "", end |-> ""]
Table(f, t, open, end) == [how |-> "table", f |-> f, t |-> t, open |-> open, end |-> end]
Element(f, t)          == [how |-> "element", f |-> f, t |-> t, open |-> "", end |-> ""]
Section(t, end)        == [how |-> "section", f |-> "", t |-> t, open |-> "", end |-> end]

\* What each directive inside of a structure stands for
Children ==
  [PexFile |->
     [info |-> Section("Info", "endInfo"),
      userFlagsRef |-> Table("userFlagTable", "UserFlag", "flag", "endUserFlagsRef"),
      objectTable |-> Table("objects", "PexObject", "object", "endObjectTable")],
   Info |->
     [source |-> Member("sourceFileName", "string"),
      modifyTime |-> Member("modificationTime", "long"),
      compileTime |-> Member("compilationTime", "long"),
      user |-> Member("userName", "string"),
      computer |-> Member("computerName", "string")],
   PexObject |->
     [userFlags |-> Member("userFlags", "integer"),
      docString |-> Member("documentationString", "string"),
      autoState |-> Member("autoStateName", "autoState"),
      structTable |-> Table("structs", "PexStruct", "struct", "endStructTable"),
      variableTable |-> Table("variables", "PexVariable", "variable",
                              "endVariableTable"),
      guardTable |-> Table("guards", "PexGuard", "guard", "endGuardTable"),
      propertyTable |-> Table("properties", "PexProperty", "property",
                              "endPropertyTable"),
      propertyGroupTable |-> Table("groups", "PexDebugPropertyGroup",
                                   "propertyGroup", "endPropertyGroupTable"),
      stateTable |-> Table("states", "PexState", "state", "endStateTable")],
   PexStruct |-> [variable |-> Element("members", "PexStructMember")],
   PexStructMember |->
     [userFlags |-> Member("userFlags", "integer"),
      docString |-> Member("documentationString", "string"),
      initialValue |-> Member("defaultValue", "value")],
   PexVariable |-> [userFlags |-> Member("userFlags", "integer"),
                    initialValue |-> Member("defaultValue", "value")],
   PexProperty |-> [userFlags |-> Member("userFlags", "integer"),
                    docString |-> Member("documentationString", "string"),
                    autoVar |-> Member("autoVar", "ident"),
                    function |-> Element("accessor", "Accessor")],
   PexDebugPropertyGroup |->
     [userFlags |-> Member("userFlags", "integer"),
      docString |-> Member("documentationString", "string"),
      property |-> Element("properties", "Name")],
   PexState |-> [function |-> Element("functions", "PexFunction")],
   PexFunction |->
     [userFlags |-> Member("userFlags", "integer"),
      docString |-> Member("documentationString", "string"),
      return |-> Member("returnTypeName", "ident"),
      paramTable |-> Table("parameters", "PexFunctionParameter", "param",
                           "endParamTable"),
      localTable |-> Table("locals", "PexLocalVariable", "local",
                           "endLocalTable"),
      code |-> Section("Code", "endCode")]]

-----------------------------------------------------------------------------
(* The code of a function.                                                 *)

EndsOperands(s) == cur(s).t \in {"line", "EOL", "END"}

RECURSIVE ReadValues(_, _)
ReadValues(got, s) ==
  IF s.fatal \/ EndsOperands(s) THEN Val(s, got)
  ELSE LET v == ExpectValue(s) IN ReadValues(Append(got, v.val), v)

\* PexInstruction::tryParseOpCode
tryParseOpCode(word) ==
  LET found == {i \in DOMAIN Mnemonics : Mnemonics[i] = word}
  IN IF found = {} THEN "Invalid" ELSE OpCodes[CHOOSE i \in found : TRUE]

Instruction(opCode, args, variadicArgs) ==
  [opCode |-> opCode, args |-> args, variadicArgs |-> variadicArgs]

ExpectLabel(opCode, args, s) ==
  LET l == expectConsume(s, "ident")
  IN Val(l, Instruction(opCode, Append(args, [kind |-> "label", n |-> l.val]), <<>>))

ConditionalJump(opCode, s) ==
  LET v == ExpectValue(s)
  IN IF v.fatal THEN v ELSE ExpectLabel(opCode, <<v.val>>, v)

\* A call takes n arguments of its own in front of those it passes on.
Call(opCode, n, s) ==
  IF s.fatal \/ Len(s.val) < n THEN Fatal(s)
  ELSE Val(s, Instruction(opCode, SubSeq(s.val, 1, n),
                          SubSeq(s.val, n + 1, Len(s.val))))

\* Any other instruction keeps all of its operands as its arguments, of which
\* there is room for six.
Plain(word, s) ==
  IF s.fatal \/ Len(s.val) > 6 THEN Fatal(s)
  ELSE [s EXCEPT !.val = Instruction(tryParseOpCode(word), s.val, <<>>),
                 !.errors = @ \/ tryParseOpCode(word) = "Invalid"]

ReadInstructionAsm(word, s) ==
  CASE word = "jump"       -> ExpectLabel("Jmp", <<>>, s)
    [] word = "jumpf"      -> ConditionalJump("JmpF", s)
    [] word = "jumpt"      -> ConditionalJump("JmpT", s)
    [] word = "callmethod" -> Call("CallMethod", 3, ReadValues(<<>>, s))
    [] word = "callparent" -> Call("CallParent", 2, ReadValues(<<>>, s))
    [] word = "callstatic" -> Call("CallStatic", 3, ReadValues(<<>>, s))
    [] OTHER               -> Plain(word, ReadValues(<<>>, s))

LineNumber(s) ==
  LET n == ExpectInteger(s) IN
  IF n.fatal \/ n.val \notin 0..65535 THEN Fatal(n)
  ELSE [n EXCEPT !.lines = IF s.hasDebug THEN Append(@, n.val) ELSE @]

\* The line of the n-th instruction: given, or that of the one before
AfterInstruction(n, s) ==
  ExpectEOL(IF cur(s).t = "line" THEN LineNumber(consume(s))
            ELSE IF s.hasDebug /\ Len(s.lines) \notin {0, n}
            THEN [s EXCEPT !.lines = Append(@, Last(@))] ELSE s)

\* Labels become distances; a label that was never placed is a logicalFatal.
Resolve(code, labels, s) ==
  LET isLabel(v) == v.kind = "label"
      distance(i, v) == IF isLabel(v) THEN [kind |-> "int", n |-> labels[v.n] - (i - 1)]
                        ELSE v
      unresolved == \E i \in DOMAIN code : \E j \in DOMAIN code[i].args :
                       isLabel(code[i].args[j])
                       /\ code[i].args[j].n \notin DOMAIN labels
  IN IF unresolved THEN Fatal(s)
     ELSE Val(s, [i \in DOMAIN code |->
                    [code[i] EXCEPT !.args = [j \in DOMAIN @ |-> distance(i, @[j])]]])

RECURSIVE ReadCode(_, _, _), AddInstruction(_, _, _)

AddInstruction(code, labels, s) ==
  IF s.fatal THEN s
  ELSE ReadCode(Append(code, s.val), labels, AfterInstruction(Len(code) + 1, s))

ReadCode(code, labels, s) ==
  IF s.fatal THEN s
  ELSE IF IsDir(s, "endCode") THEN Resolve(code, labels, ExpectEOL(consume(s)))
  ELSE IF cur(s).t = "label"
  THEN ReadCode(code, (cur(s).v :> Len(code)) @@ labels, ExpectEOL(consume(s)))
  ELSE IF cur(s).t = "ident"
  THEN AddInstruction(code, labels, ReadInstructionAsm(cur(s).v, consume(s)))
  ELSE Fatal(s)

-----------------------------------------------------------------------------
(* The structures around the code.                                         *)

Static(s) == IF s.val = "static" THEN {"global"} ELSE {}

\* The words behind the name of a function
FunctionFlags(s) ==
  IF cur(s).t = "EOL" THEN Val(s, {})
  ELSE LET first == expectConsume(s, "ident")
           second == expectConsume(first, "ident")
       IN IF first.fatal THEN first
          ELSE IF first.val # "native" THEN Val(first, Static(first))
          ELSE IF cur(first).t = "EOL" THEN Val(first, {"native"})
          ELSE Val(second, {"native"} \union Static(second))

\* The debug information of a function, made only when the file has some
AddDebug(s, name, functionType) ==
  IF ~s.hasDebug THEN s
  ELSE [s EXCEPT !.debug.functions =
          Append(@, [objectName |-> s.object, functionType |-> functionType,
                     stateName |-> IF functionType = "Normal" THEN s.state ELSE "",
                     functionName |-> name, instructionLineMap |-> s.lines]),
                 !.lines = <<>>]

Ensured(s) == [s EXCEPT !.hasDebug = TRUE]

\* PexFile::getUserFlag: a name keeps its first bit.
WithFlags(table, flags) ==
  FoldLeft(LAMBDA t, f: IF \E i \in DOMAIN t : t[i].name = f.name THEN t
                        ELSE Append(t, f), table, flags)

\* The structure r with what a child of it has left in s.val
Stored(e, r, s) ==
  CASE e.how = "section" /\ e.t = "Info" -> s.val
    [] e.how = "section" /\ e.t = "Code" -> [r EXCEPT !.instructions = s.val]
    [] e.f \in {"modificationTime", "groups"} -> r
    [] e.f = "userFlagTable" -> [r EXCEPT !.userFlagTable = WithFlags(@, s.val)]
    [] e.f = "accessor" /\ s.val.name = "get" ->
         [r EXCEPT !.flags = @ \union {"readable"},
                   !.readFunction = [s.val EXCEPT !.name = NoString]]
    [] e.f = "accessor" /\ s.val.name = "set" ->
         [r EXCEPT !.flags = @ \union {"writable"},
                   !.writeFunction = [s.val EXCEPT !.name = NoString]]
    [] e.how = "member"  -> [r EXCEPT ![e.f] = s.val]
    [] e.how = "table"   -> [r EXCEPT ![e.f] = @ \o s.val]
    [] e.how = "element" -> [r EXCEPT ![e.f] = Append(@, s.val)]

\* What a child of r leaves in the file and in the context
Noted(e, r, s) ==
  CASE e.f = "modificationTime" -> [Ensured(s) EXCEPT !.debug.modificationTime = s.val]
    [] e.f = "groups" /\ s.val # <<>> ->
         [Ensured(s) EXCEPT !.debug.propertyGroups = @ \o s.val]
    [] e.f = "accessor" -> AddDebug(s, s.property, IF s.val.name = "get"
                                                   THEN "Getter" ELSE "Setter")
    [] e.f = "functions" -> AddDebug(s, s.val.name, "Normal")
    \* A native function can have neither locals nor a body.
    [] e.f = "locals" \/ e.t = "Code" ->
         [s EXCEPT !.errors = @ \/ "native" \in r.flags]
    [] OTHER -> s

Enter(T, s) ==
  CASE T = "PexObject"   -> [s EXCEPT !.object = s.val.name]
    [] T = "PexState"    -> [s EXCEPT !.state = s.val.name]
    [] T = "PexProperty" -> [s EXCEPT !.property = s.val.name]
    [] OTHER -> s

Fresh(T, s) == IF T = "PexDebugPropertyGroup"
               THEN [New[T] EXCEPT !.objectName = s.object] ELSE New[T]

RECURSIVE ReadHeader(_, _, _), ReadChildren(_, _, _, _), ReadTable(_, _, _),
          ReadElement(_, _), ReadFunctionAsm(_, _), ReadBody(_, _)

ReadHeader(items, r, s) ==
  IF items = <<>> \/ s.fatal THEN Val(s, r)
  ELSE LET one == Take(items[1][2], s)
       IN ReadHeader(Tail(items), IF one.fatal THEN r
                                  ELSE [r EXCEPT ![items[1][1]] = one.val], one)

ReadChild(e, r, s) ==
  CASE e.how = "member"  -> ExpectEOL(Take(e.t, s))
    [] e.how = "table"   -> ReadTable(e, <<>>, ExpectEOL(s))
    [] e.how = "element" -> ReadElement(e.t, s)
    [] e.how = "section" /\ e.t = "Info" -> ReadChildren("Info", e.end, r, ExpectEOL(s))
    [] e.how = "section" /\ e.t = "Code" -> ReadCode(<<>>, <<>>, ExpectEOL(s))

NextChild(T, end, r, e, s) ==
  IF s.fatal THEN s ELSE ReadChildren(T, end, Stored(e, r, s), Noted(e, r, s))

\* The loop over the directives inside of a structure, up to the one that ends
\* it; a file ends with its tokens.
ReadChildren(T, end, r, s) ==
  IF s.fatal \/ (T = "PexFile" /\ cur(s).t = "END") THEN Val(s, r)
  ELSE IF IsDir(s, end) THEN Val(ExpectEOL(consume(s)), r)
  ELSE IF cur(s).t # "dir" \/ cur(s).v \notin DOMAIN Children[T] THEN Fatal(s)
  ELSE NextChild(T, end, r, Children[T][cur(s).v],
                 ReadChild(Children[T][cur(s).v], r, consume(s)))

ReadTable(e, got, s) ==
  IF s.fatal THEN s
  ELSE IF IsDir(s, e.end) THEN Val(ExpectEOL(consume(s)), got)
  ELSE IF ~IsDir(s, e.open) THEN Fatal(s)
  ELSE LET one == ReadElement(e.t, consume(s))
       IN ReadTable(e, Append(got, one.val), one)

\* The structure behind a directive; the end of the line of a guard is never
\* taken.
ReadBody(T, s) ==
  IF s.fatal \/ T = "PexGuard" THEN s
  ELSE LET e == ExpectEOL(s)
       IN IF e.fatal \/ T \notin DOMAIN EndOf THEN e
          ELSE ReadChildren(T, EndOf[T], e.val, Enter(T, e))

\* PexAsmParser::parseFunction, from its name on
ReadFunctionAsm(name, s) ==
  IF s.fatal THEN s
  ELSE ReadChildren("PexFunction", "endFunction",
                    [NewFunction EXCEPT !.name = name, !.flags = s.val], ExpectEOL(s))

ReadElement(T, s) ==
  CASE T = "Name" -> ExpectEOL(expectConsume(s, "ident"))
    [] T \in {"PexFunction", "Accessor"} ->
         LET n == expectConsume(s, "ident")
             f == ReadFunctionAsm(n.val, FunctionFlags(n))
         IN IF T = "Accessor" /\ ~f.fatal /\ f.val.name \notin {"get", "set"}
            THEN Fatal(f) ELSE f
    [] OTHER -> ReadBody(T, ReadHeader(Header[T], Fresh(T, s), s))

\* PexAsmParser::parseFile: the file, whose game and version nothing sets
Assembled(s) == [ok |-> ~s.fatal /\ ~s.errors,
                 val |-> IF s.fatal THEN New["PexFile"]
                         ELSE [s.val EXCEPT !.hasDebugInfo = s.hasDebug,
                                            !.debugInfo = IF s.hasDebug THEN s.debug
                                                          ELSE <<>>]]

AsmTokens(words) == Each(words, Lexed)

ParseAsm(words) ==
  Assembled(ReadChildren("PexFile", "", New["PexFile"], Start(AsmTokens(words))))
=============================================================================
