---------------------------- MODULE PexReflector ----------------------------
(***************************************************************************)
(* PexReflector: the tree of a script made from its pex file, for the      *)
(* scripts that only see its declarations.  What a pex file does not hold  *)
(* (initial values of parameters, imports, custom events) and what the     *)
(* reflector leaves out of it (guards, variables, flags and documentation) *)
(* is as in a fresh object.                                                *)
(***************************************************************************)
EXTENDS PapyrusObjects

CONSTANTS
  ElementNames,   \* names of types that some name ending in [] is made of
  EventNames      \* the function names longer than "on" that begin with it

\* reflectType
reflectType(name) ==
  IF \E e \in ElementNames : name = e \o "[]"
  THEN Leaf("array", CHOOSE e \in ElementNames : name = e \o "[]")
  ELSE Leaf("type", name)

\* mutant of reflectFunction: without the parameters
reflectName(f, name, functionType) ==
  [NewFunction(functionType) EXCEPT
     !.name = name,
     !.returnType = reflectType(f.returnTypeName),
     !.userFlags = (IF "global" \in f.flags THEN {"Global"} ELSE {})
                   \union (IF "native" \in f.flags THEN {"Native"} ELSE {})]

reflectFunction(f, name, functionType) ==
  [NewFunction(functionType) EXCEPT
     !.name = name,
     !.returnType = reflectType(f.returnTypeName),
     !.userFlags = (IF "global" \in f.flags THEN {"Global"} ELSE {})
                   \union (IF "native" \in f.flags THEN {"Native"} ELSE {}),
     !.parameters = [i \in DOMAIN f.parameters |->
                       [Fresh.Parameter EXCEPT !.name = f.parameters[i].name,
                                               !.type = reflectType(f.parameters[i].type)]]]

reflectProperty(p) ==
  LET base == [Fresh.Property EXCEPT !.name = p.name, !.type = reflectType(p.typeName)]
  IN IF "auto" \in p.flags THEN [base EXCEPT !.userFlags = {"Auto"}]
     ELSE [base EXCEPT
             !.readFunction = IF "readable" \in p.flags
                              THEN <<reflectFunction(p.readFunction, "get", "Getter")>> ELSE @,
             !.writeFunction = IF "writable" \in p.flags
                               THEN <<reflectFunction(p.writeFunction, "set", "Setter")>> ELSE @]

reflectStruct(s) ==
  [name |-> s.name,
   members |-> [i \in DOMAIN s.members |->
                  [Fresh.StructMember EXCEPT
                     !.name = s.members[i].name, !.type = reflectType(s.members[i].typeName),
                     !.userFlags = IF s.members[i].isConst THEN {"Const"} ELSE {}]]]

\* A name keeps the first of its functions.
reflectState(s) ==
  LET kind(f) == IF f.name \in EventNames THEN "Event" ELSE "Function"
  IN [Fresh.State EXCEPT
        !.name = s.name,
        !.functions = FoldLeft(LAMBDA fs, f: WithFunction(fs, reflectFunction(f, f.name, kind(f))),
                               <<>>, s.functions)]

\* The states without a name are the root state, which an object always has.
reflectStates(states) ==
  LET all   == [i \in DOMAIN states |-> reflectState(states[i])]
      roots == SelectSeq(all, LAMBDA s: s.name = "")
  IN <<[Fresh.State EXCEPT
          !.functions = FoldLeft(WithFunction, <<>>, Each(roots, LAMBDA s: s.functions))]>>
     \o SelectSeq(all, LAMBDA s: s.name # "")

\* reflectScript, for the one object a script has
reflectScript(file) ==
  LET o == file.objects[1]
      properties == [i \in DOMAIN o.properties |-> reflectProperty(o.properties[i])]
  IN [Fresh.Object EXCEPT
        !.name = o.name,
        !.parentClass = IF o.parentClassName = "" THEN NoType ELSE reflectType(o.parentClassName),
        !.structs = [i \in DOMAIN o.structs |-> reflectStruct(o.structs[i])],
        !.propertyGroups = IF properties = <<>> THEN <<>>
                           ELSE <<[Fresh.Group EXCEPT !.properties = properties]>>,
        !.states = reflectStates(o.states)]
=============================================================================
