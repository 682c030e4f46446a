------------------------------ MODULE PexFiles ------------------------------
(***************************************************************************)
(* The binary format of compiled scripts: the write and read functions of  *)
(* the pex classes.  A structure is a record with the members of its       *)
(* class; WriteLayout lists, in the order of the write function of a       *)
(* class, what it puts into the stream, and ReadLayout, in the order of    *)
(* the read function and from what was read so far, what is taken from     *)
(* it.  The two tables are translated from different functions and share   *)
(* nothing.  The stream is a sequence of cells: what was written at a      *)
(* place, as what type, and in which byte order; taking a cell as another  *)
(* type, or in the other byte order, is a misread.  A PexString is the     *)
(* string itself: the string table in between is module ReffyStringPool.   *)
(***************************************************************************)
EXTENDS Integers, Sequences, SequencesExt, TLC

CONSTANT NoString    \* a PexString without an index

Skyrim    == 1
Fallout4  == 2
Fallout76 == 3
Starfield == 4

\* A float is counted in ten-millionths; the largest one is infinite.
OneFloat == 10000000
Infinite == 2147483647

When(c, s) == IF c THEN s ELSE <<>>

\* The opcodes in the order of their numbers.
OpCodes ==
  <<"Nop", "IAdd", "FAdd", "ISub", "FSub", "IMul", "FMul", "IDiv", "FDiv",
    "IMod", "Not", "INeg", "FNeg", "Assign", "Cast", "CmpEq", "CmpLt",
    "CmpLte", "CmpGt", "CmpGte", "Jmp", "JmpT", "JmpF", "CallMethod",
    "CallParent", "CallStatic", "Return", "StrCat", "PropGet", "PropSet",
    "ArrayCreate", "ArrayLength", "ArrayGetElement", "ArraySetElement",
    "ArrayFindElement", "ArrayRFindElement", "Is", "StructCreate",
    "StructGet", "StructSet", "ArrayFindStruct", "ArrayRFindStruct",
    "ArrayAdd", "ArrayInsert", "ArrayRemoveLast", "ArrayRemove",
    "ArrayClear", "ArrayGetAllMatchingStructs", "LockGuards",
    "UnlockGuards", "TryLockGuards">>

OpCodeMax == [g \in Skyrim..Starfield |->
                CASE g = Skyrim    -> "ArrayRFindElement"
                  [] g = Fallout4  -> "ArrayClear"
                  [] g = Fallout76 -> "ArrayGetAllMatchingStructs"
                  [] g = Starfield -> "TryLockGuards"]

Number(op) == CHOOSE i \in DOMAIN OpCodes : OpCodes[i] = op

\* The opcodes that end in a counted list of arguments.
Variadic == {"LockGuards", "UnlockGuards", "TryLockGuards", "CallMethod",
             "CallParent", "CallStatic"}

\* The number of arguments in front of such a list, or of all arguments.
ArgCount(op) ==
  CASE op \in {"Nop", "LockGuards", "UnlockGuards"} -> 0
    [] op \in {"TryLockGuards", "Jmp", "Return", "StructCreate",
               "ArrayRemoveLast", "ArrayClear"} -> 1
    [] op \in {"CallParent", "Not", "INeg", "FNeg", "Assign", "Cast", "JmpT",
               "JmpF", "ArrayCreate", "ArrayLength"} -> 2
    [] op \in {"ArrayFindElement", "ArrayRFindElement"} -> 4
    [] op \in {"ArrayFindStruct", "ArrayRFindStruct"} -> 5
    [] op = "ArrayGetAllMatchingStructs" -> 6
    [] OTHER -> 3

-----------------------------------------------------------------------------
(* The structures as they are made, before anything is read into them.     *)

NoneValue == [kind |-> "none", n |-> 0]

NewFunction == [name |-> NoString, returnTypeName |-> NoString,
                documentationString |-> NoString, userFlags |-> 0,
                flags |-> {}, parameters |-> <<>>, locals |-> <<>>,
                instructions |-> <<>>]

New ==
  [PexFile |-> [magic |-> "pex", majorVersion |-> 3, minorVersion |-> 12,
                gameID |-> Starfield, compilationTime |-> 0,
                sourceFileName |-> <<>>, userName |-> <<>>,
                computerName |-> <<>>,
                hasDebugInfo |-> FALSE, debugInfo |-> <<>>,
                userFlagTable |-> <<>>, objects |-> <<>>],
   UserFlag |-> [name |-> NoString, bit |-> 0],
   PexDebugInfo |-> [modificationTime |-> 0, functions |-> <<>>,
                     propertyGroups |-> <<>>, structOrders |-> <<>>],
   PexDebugFunctionInfo |-> [objectName |-> NoString, stateName |-> NoString,
                             functionName |-> NoString,
                             functionType |-> "Normal",
                             instructionLineMap |-> <<>>],
   PexDebugPropertyGroup |-> [objectName |-> NoString, groupName |-> NoString,
                              documentationString |-> NoString,
                              userFlags |-> 0, properties |-> <<>>],
   PexDebugStructOrder |-> [objectName |-> NoString, structName |-> NoString,
                            members |-> <<>>],
   PexObject |-> [name |-> NoString, parentClassName |-> NoString,
                  documentationString |-> NoString, isConst |-> FALSE,
                  userFlags |-> 0, autoStateName |-> NoString,
                  structs |-> <<>>, variables |-> <<>>, guards |-> <<>>,
                  properties |-> <<>>, states |-> <<>>],
   PexStruct |-> [name |-> NoString, members |-> <<>>],
   PexStructMember |-> [name |-> NoString, typeName |-> NoString,
                        userFlags |-> 0, defaultValue |-> NoneValue,
                        isConst |-> FALSE, documentationString |-> NoString],
   PexVariable |-> [name |-> NoString, typeName |-> NoString, userFlags |-> 0,
                    defaultValue |-> NoneValue, isConst |-> FALSE],
   PexGuard |-> [name |-> NoString],
   PexProperty |-> [name |-> NoString, typeName |-> NoString,
                    documentationString |-> NoString, userFlags |-> 0,
                    flags |-> {}, autoVar |-> NoString,
                    readFunction |-> <<>>, writeFunction |-> <<>>],
   PexState |-> [name |-> NoString, functions |-> <<>>],
   PexFunction |-> NewFunction, PropertyFunction |-> NewFunction,
   PexFunctionParameter |-> [name |-> NoString, type |-> NoString],
   PexLocalVariable |-> [name |-> NoString, type |-> NoString],
   PexInstruction |-> [opCode |-> "Nop", args |-> <<>>,
                       variadicArgs |-> <<>>]]

-----------------------------------------------------------------------------
(* Entries of a layout: a member of some type; a list after its length; a  *)
(* list of a known length; a list after a value that is its length; the    *)
(* length of the object, which nobody keeps.                               *)

One(f, t)     == [how |-> "one", f |-> f, t |-> t, n |-> 1]
Many(f, t)    == [how |-> "many", f |-> f, t |-> t, n |-> 0]
Just(n, f, t) == [how |-> "just", f |-> f, t |-> t, n |-> n]
Counted(f, t) == [how |-> "counted", f |-> f, t |-> t, n |-> 0]
Length        == [how |-> "length", f |-> "", t |-> "uint32", n |-> 0]

Primitive == {"magic", "uint8", "uint16", "uint32", "time", "string", "PexString",
              "PexUserFlags", "GameID", "float"}

\* What a value of some kind is followed by.
Payload == [id |-> "PexString", str |-> "PexString", int |-> "uint32",
            flt |-> "float", bool |-> "uint8"]

NameAndType == <<One("name", "PexString"), One("type", "PexString")>>

\* PexFile::write
WriteFile(x) ==
  <<One("magic", "magic"), One("majorVersion", "uint8"),
    One("minorVersion", "uint8"), One("gameID", "GameID"),
    One("compilationTime", "time"), One("sourceFileName", "string"),
    One("userName", "string"), One("computerName", "string"),
    One("hasDebugInfo", "uint8")>>
  \o When(x.hasDebugInfo, <<One("debugInfo", "PexDebugInfo")>>)
  \o <<Many("userFlagTable", "UserFlag"), Many("objects", "PexObject")>>

\* PexObject::write
WriteObject(game) ==
  <<One("name", "PexString"), Length, One("parentClassName", "PexString"),
    One("documentationString", "PexString")>>
  \o When(game > Skyrim, <<One("isConst", "uint8")>>)
  \o <<One("userFlags", "PexUserFlags"), One("autoStateName", "PexString")>>
  \o When(game > Skyrim, <<Many("structs", "PexStruct")>>)
  \o <<Many("variables", "PexVariable")>>
  \o When(game = Starfield, <<Many("guards", "PexGuard")>>)
  \o <<Many("properties", "PexProperty"), Many("states", "PexState")>>

\* PexFunction::write, which tells the functions of a property by their
\* having no name
WriteFunction(x) ==
  When(x.name # NoString, <<One("name", "PexString")>>)
  \o <<One("returnTypeName", "PexString"),
       One("documentationString", "PexString"),
       One("userFlags", "PexUserFlags"), One("flags", "uint8"),
       Many("parameters", "PexFunctionParameter"),
       Many("locals", "PexLocalVariable"),
       Many("instructions", "PexInstruction")>>

\* PexProperty::write
WriteProperty(x) ==
  <<One("name", "PexString"), One("typeName", "PexString"),
    One("documentationString", "PexString"),
    One("userFlags", "PexUserFlags"), One("flags", "uint8")>>
  \o (IF "auto" \in x.flags THEN <<One("autoVar", "PexString")>>
      ELSE When("readable" \in x.flags, <<One("readFunction", "PexFunction")>>)
           \o When("writable" \in x.flags,
                   <<One("writeFunction", "PexFunction")>>))

\* The write functions of the variables, structures and their members
WriteVariable(game) ==
  <<One("name", "PexString"), One("typeName", "PexString"),
    One("userFlags", "PexUserFlags"), One("defaultValue", "PexValue")>>
  \o When(game > Skyrim, <<One("isConst", "uint8")>>)

WriteStruct == <<One("name", "PexString"), Many("members", "PexStructMember")>>

WriteStructMember ==
  <<One("name", "PexString"), One("typeName", "PexString"),
    One("userFlags", "PexUserFlags"), One("defaultValue", "PexValue"),
    One("isConst", "uint8"), One("documentationString", "PexString")>>

\* The write functions of the debug information
WriteDebugInfo(game) ==
  <<One("modificationTime", "time"),
    Many("functions", "PexDebugFunctionInfo")>>
  \o When(game # Skyrim, <<Many("propertyGroups", "PexDebugPropertyGroup"),
                           Many("structOrders", "PexDebugStructOrder")>>)

WriteDebugFunctionInfo ==
  <<One("objectName", "PexString"), One("stateName", "PexString"),
    One("functionName", "PexString"), One("functionType", "uint8"),
    Many("instructionLineMap", "uint16")>>

WriteDebugPropertyGroup ==
  <<One("objectName", "PexString"), One("groupName", "PexString"),
    One("documentationString", "PexString"),
    One("userFlags", "PexUserFlags"), Many("properties", "PexString")>>

WriteDebugStructOrder ==
  <<One("objectName", "PexString"), One("structName", "PexString"),
    Many("members", "PexString")>>

\* PexState::write and PexInstruction::write
WriteState == <<One("name", "PexString"), Many("functions", "PexFunction")>>

WriteInstruction(x) ==
  <<One("opCode", "uint8"), Just(Len(x.args), "args", "PexValue")>>
  \o When(x.opCode \in Variadic, <<Counted("variadicArgs", "PexValue")>>)

WriteLayout(T, game, x) ==
  CASE T = "PexFile"               -> WriteFile(x)
    [] T = "PexObject"             -> WriteObject(game)
    [] T = "PexFunction"           -> WriteFunction(x)
    [] T = "PexProperty"           -> WriteProperty(x)
    [] T = "PexVariable"           -> WriteVariable(game)
    [] T = "PexStruct"             -> WriteStruct
    [] T = "PexStructMember"       -> WriteStructMember
    [] T = "PexGuard"              -> <<One("name", "PexString")>>
    [] T = "PexState"              -> WriteState
    [] T = "PexInstruction"        -> WriteInstruction(x)
    [] T = "PexFunctionParameter"  -> NameAndType
    [] T = "PexLocalVariable"      -> NameAndType
    [] T = "PexDebugInfo"          -> WriteDebugInfo(game)
    [] T = "PexDebugFunctionInfo"  -> WriteDebugFunctionInfo
    [] T = "PexDebugPropertyGroup" -> WriteDebugPropertyGroup
    [] T = "PexDebugStructOrder"   -> WriteDebugStructOrder
    [] T = "UserFlag" -> <<One("name", "PexString"), One("bit", "uint8")>>

-----------------------------------------------------------------------------
(* Writing.                                                                *)

\* A number, string or flag in the byte order of the game.  Writing a
\* PexString that has no index is an assertion.
Cell(game, t, v) ==
  [t |-> IF t = "PexString" /\ v = NoString THEN "assertion" ELSE t, v |-> v,
   big |-> game = Skyrim]

\* PexWriter::write of a PexValue
WriteValue(game, v) ==
  <<Cell(game, "uint8", v.kind)>>
  \o CASE v.kind = "none" -> <<>>
       [] v.kind \in DOMAIN Payload -> <<Cell(game, Payload[v.kind], v.n)>>
       [] OTHER -> <<Cell(game, "logicalFatal", v.n)>>

RECURSIVE Written(_, _, _), WrittenMembers(_, _, _)

Written(T, game, x) ==
  IF T \in Primitive THEN <<Cell(game, T, x)>>
  ELSE IF T = "PexValue" THEN WriteValue(game, x)
  ELSE LET g == IF T = "PexFile" THEN x.gameID ELSE game
       IN WrittenMembers(WriteLayout(T, g, x), g, x)

WrittenAll(T, game, s) ==
  FlattenSeq([i \in DOMAIN s |-> Written(T, game, s[i])] \o <<>>)

WrittenMembers(layout, game, x) ==
  IF layout = <<>> THEN <<>>
  ELSE LET e == Head(layout)
           rest == WrittenMembers(Tail(layout), game, x)
       IN (CASE e.how = "one" -> Written(e.t, game, x[e.f])
             [] e.how = "many" -> <<Cell(game, "uint16", Len(x[e.f]))>>
                                  \o WrittenAll(e.t, game, x[e.f])
             [] e.how = "just" -> WrittenAll(e.t, game, x[e.f])
             [] e.how = "counted" ->
                  WriteValue(game, [kind |-> "int", n |-> Len(x[e.f])])
                  \o WrittenAll(e.t, game, x[e.f])
             \* endObject stores the length without turning its bytes around
             [] e.how = "length" ->
                  <<[Cell(game, "uint32", Len(rest)) EXCEPT !.big = FALSE]>>)
          \o rest

PexWrite(file) == Written("PexFile", file.gameID, file)

-----------------------------------------------------------------------------
(* What the read functions take from the stream: r is the structure as far *)
(* as it has been read, and isProperty is told by the type.                *)

\* PexFile::read
ReadFile(r) ==
  <<One("magic", "magic"), One("majorVersion", "uint8"),
    One("minorVersion", "uint8"), One("gameID", "GameID"),
    One("compilationTime", "time"), One("sourceFileName", "string"),
    One("userName", "string"), One("computerName", "string"),
    One("hasDebugInfo", "uint8")>>
  \o When(r.hasDebugInfo, <<One("debugInfo", "PexDebugInfo")>>)
  \o <<Many("userFlagTable", "UserFlag"), Many("objects", "PexObject")>>

\* PexObject::read
ReadObject(gameType) ==
  <<One("name", "PexString"), Length, One("parentClassName", "PexString"),
    One("documentationString", "PexString")>>
  \o When(gameType > Skyrim, <<One("isConst", "uint8")>>)
  \o <<One("userFlags", "PexUserFlags"), One("autoStateName", "PexString")>>
  \o When(gameType > Skyrim, <<Many("structs", "PexStruct")>>)
  \o <<Many("variables", "PexVariable")>>
  \o When(gameType = Starfield, <<Many("guards", "PexGuard")>>)
  \o <<Many("properties", "PexProperty"), Many("states", "PexState")>>

\* PexFunction::read
ReadFunction(isProperty) ==
  When(~isProperty, <<One("name", "PexString")>>)
  \o <<One("returnTypeName", "PexString"),
       One("documentationString", "PexString"),
       One("userFlags", "PexUserFlags"), One("flags", "uint8"),
       Many("parameters", "PexFunctionParameter"),
       Many("locals", "PexLocalVariable"),
       Many("instructions", "PexInstruction")>>

\* mutant of ReadProperty: its functions in the other order
ReadWriterFirst(r) ==
  <<One("name", "PexString"), One("typeName", "PexString"),
    One("documentationString", "PexString"),
    One("userFlags", "PexUserFlags"), One("flags", "uint8")>>
  \o (IF "auto" \in r.flags THEN <<One("autoVar", "PexString")>>
      ELSE When("writable" \in r.flags,
                <<One("writeFunction", "PropertyFunction")>>)
           \o When("readable" \in r.flags,
                   <<One("readFunction", "PropertyFunction")>>))

\* PexProperty::read
ReadProperty(r) ==
  <<One("name", "PexString"), One("typeName", "PexString"),
    One("documentationString", "PexString"),
    One("userFlags", "PexUserFlags"), One("flags", "uint8")>>
  \o (IF "auto" \in r.flags THEN <<One("autoVar", "PexString")>>
      ELSE When("readable" \in r.flags,
                <<One("readFunction", "PropertyFunction")>>)
           \o When("writable" \in r.flags,
                   <<One("writeFunction", "PropertyFunction")>>))

\* The read functions of the variables, structures and their members
ReadVariable(gameType) ==
  <<One("name", "PexString"), One("typeName", "PexString"),
    One("userFlags", "PexUserFlags"), One("defaultValue", "PexValue")>>
  \o When(gameType > Skyrim, <<One("isConst", "uint8")>>)

ReadStruct == <<One("name", "PexString"), Many("members", "PexStructMember")>>

ReadStructMember ==
  <<One("name", "PexString"), One("typeName", "PexString"),
    One("userFlags", "PexUserFlags"), One("defaultValue", "PexValue"),
    One("isConst", "uint8"), One("documentationString", "PexString")>>

\* The read functions of the debug information
ReadDebugInfo(gameType) ==
  <<One("modificationTime", "time"),
    Many("functions", "PexDebugFunctionInfo")>>
  \o When(gameType # Skyrim, <<Many("propertyGroups", "PexDebugPropertyGroup"),
                               Many("structOrders", "PexDebugStructOrder")>>)

ReadDebugFunctionInfo ==
  <<One("objectName", "PexString"), One("stateName", "PexString"),
    One("functionName", "PexString"), One("functionType", "uint8"),
    Many("instructionLineMap", "uint16")>>

ReadDebugPropertyGroup ==
  <<One("objectName", "PexString"), One("groupName", "PexString"),
    One("documentationString", "PexString"),
    One("userFlags", "PexUserFlags"), Many("properties", "PexString")>>

ReadDebugStructOrder ==
  <<One("objectName", "PexString"), One("structName", "PexString"),
    Many("members", "PexString")>>

\* PexState::read and PexInstruction::read
ReadState == <<One("name", "PexString"), Many("functions", "PexFunction")>>

ReadInstruction(r) ==
  <<One("opCode", "uint8"), Just(ArgCount(r.opCode), "args", "PexValue")>>
  \o When(r.opCode \in Variadic, <<Counted("variadicArgs", "PexValue")>>)

ReadLayout(T, gameType, r) ==
  CASE T = "PexFile"               -> ReadFile(r)
    [] T = "PexObject"             -> ReadObject(gameType)
    [] T = "PexFunction"           -> ReadFunction(FALSE)
    [] T = "PropertyFunction"      -> ReadFunction(TRUE)
    [] T = "PexProperty"           -> ReadProperty(r)
    [] T = "PexVariable"           -> ReadVariable(gameType)
    [] T = "PexStruct"             -> ReadStruct
    [] T = "PexStructMember"       -> ReadStructMember
    [] T = "PexGuard"              -> <<One("name", "PexString")>>
    [] T = "PexState"              -> ReadState
    [] T = "PexInstruction"        -> ReadInstruction(r)
    [] T = "PexFunctionParameter"  -> NameAndType
    [] T = "PexLocalVariable"      -> NameAndType
    [] T = "PexDebugInfo"          -> ReadDebugInfo(gameType)
    [] T = "PexDebugFunctionInfo"  -> ReadDebugFunctionInfo
    [] T = "PexDebugPropertyGroup" -> ReadDebugPropertyGroup
    [] T = "PexDebugStructOrder"   -> ReadDebugStructOrder
    [] T = "UserFlag" -> <<One("name", "PexString"), One("bit", "uint8")>>

\* What the read functions insist on; anything else is a logicalFatal.
Readable(T, gameType, r) ==
  CASE T = "PexFile" -> /\ r.magic = "pex"
                        /\ r.majorVersion = 3
                        /\ r.minorVersion \in 1..15
    [] T = "PexInstruction" -> Number(r.opCode) <= Number(OpCodeMax[gameType])
    [] T = "PexGuard" -> gameType = Starfield
    [] OTHER -> TRUE

-----------------------------------------------------------------------------
(* Reading: a state is what is left of the stream, whether all went well,  *)
(* the byte order, and the value just read.                                *)

Failed(s) == [s EXCEPT !.ok = FALSE]

\* The magic number tells the byte order.
Order(t, s) == IF t = "magic" THEN Head(s.rest).big ELSE s.big

ReadCell(t, s) ==
  IF s.rest = <<>> \/ ~s.ok THEN Failed(s)
  ELSE LET c == Head(s.rest)
           order == Order(t, s)
       IN [s EXCEPT !.rest = Tail(@), !.val = c.v, !.big = order,
                    !.ok = c.t = t /\ (c.big = order \/ t = "uint8")]

\* PexReader::read of a PexValue
ReadValue(s) ==
  LET k == ReadCell("uint8", s) IN
  IF ~k.ok THEN k
  ELSE IF k.val \notin DOMAIN Payload
       THEN [k EXCEPT !.val = NoneValue, !.ok = k.val = "none"]
       ELSE LET n == ReadCell(Payload[k.val], k)
            IN [n EXCEPT !.val = [kind |-> k.val, n |-> n.val]]

RECURSIVE Read(_, _, _), ReadMembers(_, _, _, _, _), ReadList(_, _, _, _, _)

\* n values, after those of got
ReadList(n, T, gameType, s, got) ==
  IF n = 0 \/ ~s.ok THEN [s EXCEPT !.val = got]
  ELSE LET one == Read(T, gameType, s)
       IN ReadList(n - 1, T, gameType, one, Append(got, one.val))

ReadCounted(e, gameType, s) ==
  LET n == ReadValue(s) IN
  IF n.ok /\ n.val.kind = "int"
  THEN ReadList(n.val.n, e.t, gameType, n, <<>>) ELSE Failed(n)

ReadEntry(e, gameType, s) ==
  CASE e.how = "one"     -> Read(e.t, gameType, s)
    [] e.how = "many"    -> LET n == ReadCell("uint16", s)
                            IN IF n.ok
                               THEN ReadList(n.val, e.t, gameType, n, <<>>)
                               ELSE n
    [] e.how = "just"    -> ReadList(e.n, e.t, gameType, s, <<>>)
    [] e.how = "counted" -> ReadCounted(e, gameType, s)
    \* The length is dropped, in whatever byte order it is.
    [] e.how = "length"  -> [s EXCEPT !.rest = Tail(@), !.ok = s.rest # <<>>]

\* The i-th entry of the layout and all after it
ReadMembers(T, game, i, r, s) ==
  LET gameType == IF T = "PexFile" THEN r.gameID ELSE game
      layout == ReadLayout(T, gameType, r)
  IN IF ~s.ok THEN s
     ELSE IF i > Len(layout)
     THEN [s EXCEPT !.val = r, !.ok = Readable(T, gameType, r)]
     ELSE LET e == layout[i]
              one == ReadEntry(e, gameType, s)
          IN ReadMembers(T, game, i + 1,
                         IF e.how = "length" \/ ~one.ok THEN r
                         ELSE [r EXCEPT ![e.f] = one.val], one)

Read(T, gameType, s) ==
  IF T \in Primitive THEN ReadCell(T, s)
  ELSE IF T = "PexValue" THEN ReadValue(s)
  ELSE ReadMembers(T, gameType, 1, New[T], s)

\* The file a stream holds: [ok, val]
PexRead(stream) ==
  LET s == Read("PexFile", Starfield,
                [rest |-> stream, ok |-> TRUE, big |-> FALSE, val |-> ""])
  IN [ok |-> s.ok, val |-> IF s.ok THEN s.val ELSE New["PexFile"]]
=============================================================================
