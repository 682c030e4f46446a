--------------------------- MODULE PapyrusObjects ---------------------------
(***************************************************************************)
(* What becomes of the tree of a script: semantic() gives the declarations *)
(* that other scripts see their types, semantic2() checks the rest, and    *)
(* buildPex() makes the pex structures.  A world is the scripts that can   *)
(* be found, by name, and which of them were reflected from a pex file;    *)
(* how a name is looked up in the namespaces is module Namespaces.  One    *)
(* name stands for all of its spellings.  The statements of a function     *)
(* become its code by the constant Code: that is module FunctionCompile.   *)
(***************************************************************************)
EXTENDS PapyrusParser

CONSTANTS
  NoString,    \* a PexString without an index
  Code(_)      \* statements to [locals, instructions, lines]

Pex == INSTANCE PexFiles

NamesOf(s) == {s[i].name : i \in DOMAIN s}

-----------------------------------------------------------------------------
(* Types.                                                                  *)

Object(n)     == Leaf("object", n)
Struct(o, s)  == Node("struct", s, <<Object(o)>>)
Unresolved(n) == Leaf("unresolved", n)

IntType   == Leaf("type", "Int")
FloatType == Leaf("type", "Float")
BuiltIn   == BasicTypes \union Named \union {"None"}

RECURSIVE Lineage(_, _)
\* A script and what tryGetParentClass finds from there on
Lineage(w, n) ==
  IF w.objects[n].parentClass.n \notin DOMAIN w.objects THEN <<n>>
  ELSE <<n>> \o Lineage(w, w.objects[n].parentClass.n)

\* tryResolveStruct in the first of some scripts
WithStruct(w, names, s) ==
  SelectSeq(names, LAMBDA n: n \in DOMAIN w.objects /\ s \in NamesOf(w.objects[n].structs))

\* The script and the structure of a name such as Script:Structure
IsStructOf(w, p) ==
  Len(p) = 2 /\ p[1] \in DOMAIN w.objects /\ WithStruct(w, Lineage(w, p[1]), p[2]) # <<>>

\* resolveType in the script o; what is not found there is fatal
ResolveName(w, o, n) ==
  CASE n \in BuiltIn -> Leaf("type", n)
    [] WithStruct(w, Lineage(w, o.name), n) # <<>> ->
         Struct(WithStruct(w, Lineage(w, o.name), n)[1], n)
    [] n = o.name -> Object(n)
    [] WithStruct(w, o.imports, n) # <<>> -> Struct(WithStruct(w, o.imports, n)[1], n)
    [] n \in DOMAIN w.objects -> Object(n)
    [] IsStructOf(w, Pieces(n)) ->
         Struct(WithStruct(w, Lineage(w, Pieces(n)[1]), Pieces(n)[2])[1], Pieces(n)[2])
    [] OTHER -> Unresolved(n)

resolveType(w, o, t) ==
  IF t.kind = "array" THEN Node("array", "", <<ResolveName(w, o, t.n)>>)
  ELSE ResolveName(w, o, t.n)

ElementOf(t) == IF t.kind = "array" THEN t.sub[1] ELSE t

\* PapyrusType::getTypeStringAsRef
NameOfType(t) ==
  CASE t.kind = "struct" -> t.sub[1].n \o "#" \o t.n
    [] t.n \in Named     -> "String"
    [] OTHER             -> t.n

TypeString(t) ==
  IF t.kind = "array" THEN NameOfType(ElementOf(t)) \o "[]" ELSE NameOfType(t)

-----------------------------------------------------------------------------
(* Initial values.                                                         *)

\* PapyrusValue::getPapyrusType
getPapyrusType(v) ==
  CASE v.kind = "none"   -> NoType
    [] v.kind = "string" -> Leaf("type", "String")
    [] v.kind = "int"    -> IntType
    [] v.kind = "float"  -> FloatType
    [] OTHER             -> Leaf("type", "Bool")

\* coerceDefaultValue: what it reports, and what it makes
CanInitialize(v, t) ==
  \/ v.kind = "absent"
  \/ getPapyrusType(v) = t
  \/ v.kind = "int" /\ t = FloatType
  \/ v.kind = "none" /\ t.kind \in {"array", "object", "struct"}

Coerced(v, t) ==
  IF v.kind = "int" /\ t = FloatType THEN Leaf("float", v.n * Pex!OneFloat) ELSE v

-----------------------------------------------------------------------------
(* semantic(): the types of what other scripts see.                        *)

Typed(w, o, x) ==
  [x EXCEPT !.type = resolveType(w, o, x.type),
            !.defaultValue = Coerced(@, resolveType(w, o, x.type))]

AllTyped(w, o, s) == [i \in DOMAIN s |-> Typed(w, o, s[i])]

TypedFunctions(w, o, s) ==
  [i \in DOMAIN s |-> [s[i] EXCEPT !.returnType = resolveType(w, o, @),
                                   !.parameters = AllTyped(w, o, @)]]

TypedProperties(w, o, s) ==
  [i \in DOMAIN s |-> [Typed(w, o, s[i]) EXCEPT
                         !.readFunction = TypedFunctions(w, o, @),
                         !.writeFunction = TypedFunctions(w, o, @)]]

Semantic(w, o) ==
  [o EXCEPT
     !.structs = [i \in DOMAIN @ |-> [@[i] EXCEPT !.members = AllTyped(w, o, @)]],
     !.propertyGroups =
       [i \in DOMAIN @ |-> [@[i] EXCEPT !.properties = TypedProperties(w, o, @)]],
     !.states = [i \in DOMAIN @ |-> [@[i] EXCEPT !.functions = TypedFunctions(w, o, @)]]]

MembersOf(x)    == Each(x.structs, LAMBDA s: s.members)
PropertiesOf(x) == Each(x.propertyGroups, LAMBDA g: g.properties)
AccessorsOf(p)  == p.readFunction \o p.writeFunction

FunctionsOf(x) ==
  Each(PropertiesOf(x), AccessorsOf) \o Each(x.states, LAMBDA s: s.functions)

\* Everything with a type and an initial value
Initialized(x) ==
  MembersOf(x) \o PropertiesOf(x)
  \o Each(FunctionsOf(x), LAMBDA f: f.parameters)

TypesOf(x) == {Initialized(x)[i].type : i \in DOMAIN Initialized(x)}
              \union {FunctionsOf(x)[i].returnType : i \in DOMAIN FunctionsOf(x)}

Fatalities(x) == \E t \in TypesOf(x) : ElementOf(t).kind = "unresolved"

Unique(s) == \A i, j \in DOMAIN s : s[i].name = s[j].name => i = j

Distinct(s) == \A i, j \in DOMAIN s : s[i] = s[j] => i = j

NotInStruct(t) == t.kind \in {"array", "struct"} \/ t = Leaf("type", "Var")

SemanticErrors(w, opts, x) ==
  \/ \E i \in DOMAIN x.imports : x.imports[i] \notin DOMAIN w.objects
  \/ ~Distinct(x.imports)
  \/ \E i \in DOMAIN x.structs : ~Unique(x.structs[i].members)
  \/ ~opts.extensions /\ \E i \in DOMAIN MembersOf(x) : NotInStruct(MembersOf(x)[i].type)
  \/ \E i \in DOMAIN Initialized(x) :
       ~CanInitialize(Initialized(x)[i].defaultValue, Initialized(x)[i].type)

-----------------------------------------------------------------------------
(* semantic2(): what is left to check of the script that is compiled.  v   *)
(* is the world after semantic().                                          *)

\* checkForInheritedIdentifierConflicts: the names in the order of the checks
Claim(kind, s) == [i \in DOMAIN s |-> [name |-> s[i], kind |-> kind]]
NameList(s)    == [i \in DOMAIN s |-> s[i].name]

ClaimsOf(x, own) ==
  Claim("property", NameList(PropertiesOf(x))) \o Claim("struct", NameList(x.structs))
  \o (IF own THEN Claim("variable", NameList(x.variables)) ELSE <<>>)
  \o Claim("guard", x.guards)

\* mutant of Claims: without what is inherited
OwnClaims(w, n) == ClaimsOf(w.objects[n], TRUE)

Claims(w, n) ==
  LET line == Reverse(Lineage(w, n))
  IN Each(line, LAMBDA a: ClaimsOf(w.objects[a], a = n))

Shadows(opts, first, c) ==
  /\ opts.game = Pex!Skyrim
  /\ opts.shadowing
  /\ first.kind = "property"
  /\ c.kind = "variable"

Conflicts(opts, cs) ==
  \E i \in DOMAIN cs, j \in DOMAIN cs :
    /\ j < i
    /\ cs[j].name = cs[i].name
    /\ \A k \in 1..(j - 1) : cs[k].name # cs[i].name
    /\ ~Shadows(opts, cs[j], cs[i])

\* ensureNamesAreUnique of the states
FirstState(x, n) == SelectSeq(x.states, LAMBDA s: s.name = n)[1]

StatesUnique(opts, x) ==
  \/ Unique(x.states)
  \/ /\ opts.game = Pex!Skyrim
     /\ \A i, j \in DOMAIN x.states :
          i # j /\ x.states[i].name = x.states[j].name
            => FirstState(x, x.states[i].name).functions = <<>>

\* searchRootStateForFunction
BaseFunction(v, names, f) ==
  Each(names, LAMBDA n: SelectSeq(v.objects[n].states[1].functions, LAMBDA g: g.name = f.name))

\* mutant of hasSameSignature: the types of the parameters are not compared
hasSameArity(f, g) ==
  f.returnType = g.returnType /\ Len(f.parameters) = Len(g.parameters)

hasSameSignature(f, g) ==
  /\ f.returnType = g.returnType
  /\ Len(f.parameters) = Len(g.parameters)
  /\ \A i \in DOMAIN f.parameters : f.parameters[i].type = g.parameters[i].type

IsNative(x) == "Native" \in x.userFlags
IsConst(x)  == "Const" \in x.userFlags

FunctionErrors(x, state, f) ==
  \/ "Global" \in f.userFlags /\ state # ""
  \/ IsNative(f) /\ ~IsNative(x)
  \/ ~Unique(f.parameters)

\* base and inherited are what searchRootStateForFunction finds
StateFunctionErrors(opts, x, state, f, base, inherited) ==
  \/ state # "" /\ (base = <<>> \/ ~hasSameSignature(base[1], f))
  \/ /\ x.parentClass # NoType
     /\ f.functionType = "Event"
     /\ inherited = <<>>
     /\ ~IsNative(x)
     /\ ~(opts.game = Pex!Skyrim /\ opts.unknownEvents)
  \/ inherited # <<>> /\ ~hasSameSignature(inherited[1], f)
  \/ FunctionErrors(x, state, f)

StateErrors(v, opts, x, s) ==
  \/ s.name # "" /\ (IsConst(x) \/ IsNative(x))
  \/ \E i \in DOMAIN s.functions :
       StateFunctionErrors(opts, x, s.name, s.functions[i],
                           BaseFunction(v, Lineage(v, x.name), s.functions[i]),
                           BaseFunction(v, Tail(Lineage(v, x.name)), s.functions[i]))

PropertyErrors(x, p) ==
  \/ /\ "AutoReadOnly" \notin p.userFlags
     /\ AccessorsOf(p) = <<>>
     /\ IsNative(x) \/ (IsConst(x) /\ ~IsConst(p))
  \/ \E i \in DOMAIN AccessorsOf(p) :
       \/ AccessorsOf(p)[i].userFlags \intersect {"Global", "Native"} # {}
       \/ FunctionErrors(x, "", AccessorsOf(p)[i])

VariableErrors(v, x, m) ==
  \/ IsNative(x)
  \/ IsConst(x) /\ ~IsConst(m)
  \/ m.type.kind = "object" /\ IsConst(v.objects[m.type.n])
  \/ ~CanInitialize(m.defaultValue, m.type)

Semantic2Errors(v, opts, x) ==
  \/ ~Unique(x.structs) \/ ~Unique(x.variables) \/ ~Unique(x.propertyGroups)
  \/ ~Distinct(x.guards) \/ ~Distinct(x.customEvents)
  \/ ~StatesUnique(opts, x)
  \/ Conflicts(opts, Claims(v, x.name))
  \/ \E i \in DOMAIN x.variables : VariableErrors(v, x, x.variables[i])
  \/ \E i \in DOMAIN x.propertyGroups : ~Unique(x.propertyGroups[i].properties)
  \/ \E i \in DOMAIN PropertiesOf(x) : PropertyErrors(x, PropertiesOf(x)[i])
  \/ \E i \in DOMAIN x.states : StateErrors(v, opts, x, x.states[i])
  \/ x.customEvents # <<>> /\ IsNative(x)

-----------------------------------------------------------------------------
(* FilePreSemanticJob, FileSemanticJob and the first half of               *)
(* FileCompileJob, for the script of some name.                            *)

Parented(w, n) ==
  \A i \in DOMAIN Lineage(w, n) :
    LET p == w.objects[Lineage(w, n)[i]].parentClass
    IN p = NoType \/ p.n \in DOMAIN w.objects

\* The world after semantic(), and the script with its variables too
Resolved(w) == [w EXCEPT !.objects = [n \in DOMAIN @ |-> Semantic(w, @[n])]]
Final(w, v, n) == [v.objects[n] EXCEPT !.variables = AllTyped(w, w.objects[n], @)]

\* The scripts whose semantic() a script waits for
Awaited(w, x) ==
  UNION {Range(Lineage(w, n)) : n \in {x.name} \union
           {ElementOf(x.variables[i].type).n :
              i \in {j \in DOMAIN x.variables :
                       ElementOf(x.variables[j].type).kind = "object"}}}

\* An imported source may have errors; a reflected pex file and the script
\* itself may not.  v is Resolved(w) and x is Final(w, v, n).
Compiles(w, v, opts, n, x) ==
  /\ \A i \in DOMAIN x.variables : ElementOf(x.variables[i].type).kind # "unresolved"
  /\ \A a \in Awaited(w, x) :
       /\ Parented(w, a)
       /\ ~Fatalities(v.objects[a])
       /\ a \in w.reflected \union {n} => ~SemanticErrors(w, opts, v.objects[a])
  /\ ~Semantic2Errors([v EXCEPT !.objects[n] = x], opts, x)

-----------------------------------------------------------------------------
(* buildPex().                                                             *)

New == Pex!New

\* PapyrusUserFlags::buildPex, limited to what is valid in some locations
Everywhere == UNION {UserFlagsDefinition[i].on : i \in DOMAIN UserFlagsDefinition}

FlagsOf(flags, locations) ==
  SelectSeq(UserFlagsDefinition, LAMBDA f: f.name \in flags /\ f.on \intersect locations # {})

FlagBits(flags, locations) ==
  FoldLeft(LAMBDA bits, f: bits + 2^f.bit, 0, FlagsOf(flags, locations))

\* PapyrusValue::buildPex
ValuePex(v) ==
  CASE v.kind \in {"absent", "none"} -> Pex!NoneValue
    [] v.kind = "string" -> [kind |-> "str", n |-> v.n]
    [] v.kind = "int"    -> [kind |-> "int", n |-> v.n]
    [] v.kind = "float"  -> [kind |-> "flt", n |-> v.n]
    [] OTHER             -> [kind |-> "bool", n |-> v.kind = "true"]

\* PapyrusFunction::buildPex; the functions of a property have no name
FunctionPex(f, name) ==
  [New["PexFunction"] EXCEPT
     !.name = name,
     !.returnTypeName = TypeString(f.returnType),
     !.documentationString = f.documentationComment,
     !.userFlags = FlagBits(f.userFlags, Everywhere),
     !.flags = (IF "Global" \in f.userFlags THEN {"global"} ELSE {})
               \union (IF IsNative(f) THEN {"native"} ELSE {}),
     !.parameters = [i \in DOMAIN f.parameters |->
                       [name |-> f.parameters[i].name,
                        type |-> TypeString(f.parameters[i].type)]],
     !.locals = Code(f.statements).locals,
     !.instructions = Code(f.statements).instructions]

FunctionDebug(x, state, name, functionType, lines) ==
  [objectName |-> x.name, stateName |-> state, functionName |-> name,
   functionType |-> functionType, instructionLineMap |-> lines]

DebugFunctions(x, state, name, functionType, s) ==
  [i \in DOMAIN s |-> FunctionDebug(x, state, name, functionType, Code(s[i].statements).lines)]

\* PapyrusProperty::buildPex.  Read only means readable by a function that
\* returns the value; of the rest, Auto means a variable of the compiler's.
ReadOnly(p) == "AutoReadOnly" \in p.userFlags
Auto(p)     == "Auto" \in p.userFlags /\ ~ReadOnly(p)
AutoVar(p)  == "::" \o p.name \o "_var"

ReturnsValue(p) ==
  [New["PexFunction"] EXCEPT
     !.returnTypeName = TypeString(p.type), !.documentationString = <<>>,
     !.instructions = <<[New["PexInstruction"] EXCEPT
                           !.opCode = "Return", !.args = <<ValuePex(p.defaultValue)>>]>>]

PropertyFlags(p) ==
  CASE ReadOnly(p) -> {"readable"}
    [] Auto(p)     -> {"auto", "readable", "writable"}
    [] OTHER       -> (IF p.readFunction # <<>> THEN {"readable"} ELSE {})
                      \union (IF p.writeFunction # <<>> THEN {"writable"} ELSE {})

PropertyPex(p) ==
  [New["PexProperty"] EXCEPT
     !.name = p.name, !.typeName = TypeString(p.type),
     !.documentationString = p.documentationComment,
     !.userFlags = FlagBits(p.userFlags, {"Property"}),
     !.flags = PropertyFlags(p),
     !.autoVar = IF Auto(p) THEN AutoVar(p) ELSE @,
     !.readFunction = IF ReadOnly(p) THEN ReturnsValue(p)
                      ELSE IF ~Auto(p) /\ p.readFunction # <<>>
                      THEN FunctionPex(p.readFunction[1], NoString) ELSE @,
     !.writeFunction = IF ~ReadOnly(p) /\ ~Auto(p) /\ p.writeFunction # <<>>
                       THEN FunctionPex(p.writeFunction[1], NoString) ELSE @]

PropertyDebug(x, p) ==
  CASE ReadOnly(p) -> <<FunctionDebug(x, "", p.name, "Getter", <<1>>)>>
    [] Auto(p)     -> <<>>
    [] OTHER       -> DebugFunctions(x, "", p.name, "Getter", p.readFunction)
                      \o DebugFunctions(x, "", p.name, "Setter", p.writeFunction)

\* A variable, and the variable of an automatic property
VariablePex(m, name, bits, isConst) ==
  [New["PexVariable"] EXCEPT !.name = name, !.typeName = TypeString(m.type),
                             !.userFlags = bits, !.isConst = isConst,
                             !.defaultValue = ValuePex(m.defaultValue)]

VariablesPex(opts, x) ==
  [i \in DOMAIN x.variables |->
     VariablePex(x.variables[i], x.variables[i].name,
                 FlagBits(x.variables[i].userFlags, Everywhere),
                 opts.game > Pex!Skyrim /\ IsConst(x.variables[i]))]
  \o LET s == SelectSeq(PropertiesOf(x), Auto)
     IN [i \in DOMAIN s |-> VariablePex(s[i], AutoVar(s[i]),
                                        FlagBits(s[i].userFlags, {"Variable"}), IsConst(s[i]))]

\* PapyrusStruct::buildPex and PapyrusStructMember::buildPex
MemberPex(m) ==
  [New["PexStructMember"] EXCEPT
     !.name = m.name, !.typeName = TypeString(m.type),
     !.userFlags = FlagBits(m.userFlags, Everywhere),
     !.defaultValue = ValuePex(m.defaultValue), !.isConst = IsConst(m),
     !.documentationString = m.documentationString]

StructPex(s) == [name |-> s.name, members |-> [i \in DOMAIN s.members |-> MemberPex(s.members[i])]]

\* makeGetState and makeGotoState, which every script of Skyrim has
id(n) == [kind |-> "id", n |-> n]

Instruction(op, args, more) == [opCode |-> op, args |-> args, variadicArgs |-> more]

Notify(event) ==
  Instruction("CallMethod", <<id(event), id("self"), id("::nonevar")>>, <<>>)

GetState ==
  [New["PexFunction"] EXCEPT
     !.name = "GetState", !.returnTypeName = "String",
     !.documentationString = <<"Function that returns the current state">>,
     !.instructions = <<Instruction("Return", <<id("::State")>>, <<>>)>>]

GotoState ==
  [New["PexFunction"] EXCEPT
     !.name = "GotoState", !.returnTypeName = "None",
     !.documentationString = <<"Function that switches this object to the specified state">>,
     !.parameters = <<[name |-> "newState", type |-> "String"]>>,
     !.locals = <<[name |-> "::nonevar", type |-> "None"]>>,
     !.instructions = <<Notify("onEndState"),
                        Instruction("Assign", <<id("::State"), id("newState")>>, <<>>),
                        Notify("onBeginState")>>]

StatePex(opts, s) ==
  [name |-> s.name,
   functions |->
     (IF opts.game = Pex!Skyrim /\ s.name = "" THEN <<GetState, GotoState>> ELSE <<>>)
     \o [i \in DOMAIN s.functions |-> FunctionPex(s.functions[i], s.functions[i].name)]]

\* PapyrusObject::buildPex
ParentName(opts, x) ==
  IF x.parentClass = NoType \/ (opts.game = Pex!Skyrim /\ x.parentClass.n = "__ScriptObject")
  THEN "" ELSE x.parentClass.n

AutoState(x) ==
  LET autos == SelectSeq(x.states, LAMBDA s: s.isAuto)
  IN IF autos = <<>> THEN "" ELSE autos[1].name

ObjectPex(opts, x) ==
  [New["PexObject"] EXCEPT
     !.name = x.name, !.parentClassName = ParentName(opts, x),
     !.documentationString = x.documentationString, !.isConst = IsConst(x),
     !.userFlags = FlagBits(x.userFlags, Everywhere), !.autoStateName = AutoState(x),
     !.structs = IF opts.game > Pex!Skyrim
                 THEN [i \in DOMAIN x.structs |-> StructPex(x.structs[i])] ELSE @,
     !.variables = VariablesPex(opts, x),
     !.guards = IF opts.game = Pex!Starfield
                THEN [i \in DOMAIN x.guards |-> [name |-> x.guards[i]]] ELSE @,
     !.properties = [i \in DOMAIN PropertiesOf(x) |-> PropertyPex(PropertiesOf(x)[i])],
     !.states = [i \in DOMAIN x.states |-> StatePex(opts, x.states[i])]]

\* The user flags in the order in which getUserFlag meets them
PropertyUses(p) ==
  FlagsOf(p.userFlags, {"Property"})
  \o IF Auto(p) THEN FlagsOf(p.userFlags, {"Variable"}) ELSE <<>>

FlagUses(opts, x) ==
  LET all(s) == Each(s, LAMBDA m: FlagsOf(m.userFlags, Everywhere))
  IN FlagsOf(x.userFlags, Everywhere)
     \o (IF opts.game > Pex!Skyrim THEN all(MembersOf(x)) ELSE <<>>)
     \o all(x.variables)
     \o (IF opts.debugInfo /\ opts.game > Pex!Skyrim THEN all(x.propertyGroups) ELSE <<>>)
     \o Each(PropertiesOf(x), PropertyUses)
     \o all(FunctionsOf(x))

getUserFlag(table, f) ==
  IF f.name \in NamesOf(table) THEN table ELSE Append(table, [name |-> f.name, bit |-> f.bit])

\* The debug information that the build functions leave
GroupDebug(x, g) ==
  [objectName |-> x.name, groupName |-> g.name, documentationString |-> g.documentationComment,
   userFlags |-> FlagBits(g.userFlags, Everywhere), properties |-> NameList(g.properties)]

StateDebug(x, s) ==
  Each(s.functions, LAMBDA f: DebugFunctions(x, s.name, f.name, "Normal", <<f>>))

DebugInfo(opts, x) ==
  [New["PexDebugInfo"] EXCEPT
     !.functions =
       Each(PropertiesOf(x), LAMBDA p: PropertyDebug(x, p))
       \o Each(x.states, LAMBDA s: StateDebug(x, s)),
     !.propertyGroups = IF opts.game = Pex!Skyrim THEN @
                        ELSE [i \in DOMAIN x.propertyGroups |-> GroupDebug(x, x.propertyGroups[i])],
     !.structOrders = IF opts.game = Pex!Skyrim THEN @
                      ELSE [i \in DOMAIN x.structs |->
                              [objectName |-> x.name, structName |-> x.structs[i].name,
                               members |-> NameList(x.structs[i].members)]]]

\* PexFile::setGameAndVersion
MinorVersion(game) ==
  CASE game = Pex!Skyrim    -> 2
    [] game = Pex!Fallout4  -> 9
    [] game = Pex!Fallout76 -> 15
    [] game = Pex!Starfield -> 12

\* PapyrusScript::buildPex
BuildPex(opts, x) ==
  [New["PexFile"] EXCEPT
     !.gameID = opts.game, !.majorVersion = 3, !.minorVersion = MinorVersion(opts.game),
     !.sourceFileName = <<x.name>>, !.userName = <<"unknown">>, !.computerName = <<"unknown">>,
     !.hasDebugInfo = opts.debugInfo,
     !.debugInfo = IF opts.debugInfo THEN DebugInfo(opts, x) ELSE @,
     !.userFlagTable = FoldLeft(getUserFlag, <<>>, FlagUses(opts, x)),
     !.objects = <<ObjectPex(opts, x)>>]
=============================================================================
