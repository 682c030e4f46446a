---------------------------- MODULE ScriptCompile ----------------------------
(***************************************************************************)
(* One script and its parent on their way through a compilation node: the  *)
(* parser, semantic(), semantic2() and buildPex(), the file, the           *)
(* disassembly and its assembly; and once more the script, now with its    *)
(* parent reflected from the pex file.  The order of the jobs of several   *)
(* nodes is module Pipeline; here a node waits for what it reads.          *)
(***************************************************************************)
EXTENDS PexReflector

CONSTANTS
  Library,   \* the scripts that are there, by name: trees
  Inputs,    \* what is compiled: [opts, parent, child, tears]
  Nothing    \* what a job has not made yet, or failed to make

Grammar == INSTANCE PapyrusGrammar
Asm     == INSTANCE PexAssembly

VARIABLES
  opts,        \* game, debugInfo, extensions, shadowing and unknownEvents
  source,      \* what the two scripts were meant to be, by name
  text,        \* the tokens of their files
  torn,        \* the scripts whose file lacks a token
  parsed,      \* FileParseJob: [ok, val]
  failed,      \* the scripts with an error
  pexFile,     \* FileCompileJob
  stream,      \* FileWriteJob
  loaded,      \* FilePreParseJob of the file that was written: [ok, val]
  assembled,   \* the file disassembled, and FileParseJob of that: [ok, val]
  again        \* the script compiled against the pex file of its parent

vars == <<opts, source, text, torn, parsed, failed, pexFile, stream, loaded, assembled, again>>

Scripts == DOMAIN source

Games == <<"Skyrim", "Fallout4", "Fallout76", "Starfield">>
Game  == Games[opts.game]

-----------------------------------------------------------------------------
(* keywordIsInGame: a script has no keyword that its game does not know.   *)

ExtensionKeywords ==
  {"Break", "Case", "Continue", "Default", "Do", "EndFor", "EndForEach", "EndSwitch",
   "For", "ForEach", "In", "LoopWhile", "Step", "Switch", "To"}

StarfieldKeywords == {"Guard", "EndGuard", "TryGuard"}

FalloutKeywords ==
  {"BetaOnly", "Const", "CustomEvent", "CustomEventName", "DebugOnly", "EndGroup",
   "EndStruct", "Group", "ScriptEventName", "Struct", "Var"}

UnknownKeywords(o) ==
  (IF o.extensions THEN {} ELSE ExtensionKeywords)
  \union (IF o.game = Pex!Starfield THEN {} ELSE StarfieldKeywords)
  \union (IF o.game = Pex!Skyrim THEN FalloutKeywords ELSE {})

\* What it does not know is an identifier; that is how a flag can be default.
Spelled(o, t) == IF t.t = "Default" /\ "Default" \in UnknownKeywords(o)
                 THEN Token("Identifier", "default") ELSE t

Tokens(o, x) ==
  LET written == Grammar!ObjectText(Games[o.game], x)
  IN [i \in DOMAIN written |-> Spelled(o, written[i])] \o <<>>

Writable(o, tokens) == \A i \in DOMAIN tokens : tokens[i].t \notin UnknownKeywords(o)

Without(s, i) == [j \in 1..(IF i = 0 THEN Len(s) ELSE Len(s) - 1) |->
                    IF i = 0 \/ j < i THEN s[j] ELSE s[j + 1]]

-----------------------------------------------------------------------------
Init ==
  \E c \in Inputs :
  \E parent \in {Tokens(c.opts, c.parent)}, child \in {Tokens(c.opts, c.child)} :
  \E lost \in 0..(IF c.tears THEN Len(child) ELSE 0) :
    /\ Writable(c.opts, parent)
    /\ Writable(c.opts, child)
    /\ opts = c.opts
    /\ source = (c.parent.name :> c.parent) @@ (c.child.name :> c.child)
    /\ torn = (IF lost = 0 THEN {} ELSE {c.child.name})
    /\ text = (c.parent.name :> parent) @@ (c.child.name :> Without(child, lost))
    /\ failed = {}
    /\ again = Nothing
    /\ \A none \in {[n \in DOMAIN source |-> Nothing]} :
         /\ parsed = none
         /\ pexFile = none
         /\ stream = none
         /\ loaded = none
         /\ assembled = none

\* FileParseJob::run
ParseJob(n) ==
  /\ parsed[n] = Nothing
  /\ parsed' = [parsed EXCEPT ![n] =
                  ParseScript(Pieces(n), Start(Game, opts.extensions, FALSE, text[n]))]
  /\ failed' = IF parsed'[n].ok THEN failed ELSE failed \union {n}
  /\ UNCHANGED <<opts, source, text, torn, pexFile, stream, loaded, assembled, again>>

\* The world with some of the two scripts in it
World(trees, reflected) == [objects |-> trees @@ Library, reflected |-> reflected]

FromSource == World([n \in Scripts |-> parsed[n].val], {})

FromPex(n, p) ==
  World((p :> reflectScript(loaded[p].val)) @@ (n :> parsed[n].val), {p})

\* What compiling the script n of a world leaves
Outcome(w, v, n, x) == IF Compiles(w, v, opts, n, x) THEN BuildPex(opts, x) ELSE Nothing
Built(w, n) == Outcome(w, Resolved(w), n, Final(w, Resolved(w), n))

\* FilePreSemanticJob, FileSemanticJob and FileCompileJob up to buildPex.  An
\* exception is thrown if the names of the scripts are not what they should be.
Compile(n) ==
  /\ pexFile[n] = Nothing
  /\ n \notin failed
  /\ \A m \in Scripts : parsed[m] # Nothing
  /\ pexFile' = [pexFile EXCEPT ![n] = Built(FromSource, n)]
  /\ failed' = IF pexFile'[n] = Nothing THEN failed \union {n} ELSE failed
  /\ UNCHANGED <<opts, source, text, torn, parsed, stream, loaded, assembled, again>>

\* The end of FileCompileJob, and FileWriteJob
Write(n) ==
  /\ pexFile[n] # Nothing
  /\ stream[n] = Nothing
  /\ stream' = [stream EXCEPT ![n] = Pex!PexWrite(pexFile[n])]
  /\ UNCHANGED <<opts, source, text, torn, parsed, failed, pexFile, loaded, assembled, again>>

\* FilePreParseJob of a pex file
Load(n) ==
  /\ stream[n] # Nothing
  /\ loaded[n] = Nothing
  /\ loaded' = [loaded EXCEPT ![n] = Pex!PexRead(stream[n])]
  /\ UNCHANGED <<opts, source, text, torn, parsed, failed, pexFile, stream, assembled, again>>

\* PexDissassembly of the file, and PasCompile of what it wrote
Assemble(n) ==
  /\ loaded[n] # Nothing
  /\ assembled[n] = Nothing
  /\ assembled' = [assembled EXCEPT ![n] = Asm!ParseAsm(Asm!WriteAsm(loaded[n].val))]
  /\ UNCHANGED <<opts, source, text, torn, parsed, failed, pexFile, stream, loaded, again>>

\* PexReflection of a parent, and PapyrusCompile of the script
CompileAgain(n, p) ==
  /\ again = Nothing
  /\ loaded[p] # Nothing
  /\ parsed[n] # Nothing
  /\ parsed[n].ok
  /\ parsed[n].val.parentClass = Leaf("type", p)
  /\ again' = [made |-> Built(FromPex(n, p), n)]
  /\ UNCHANGED <<opts, source, text, torn, parsed, failed, pexFile, stream, loaded, assembled>>

Next ==
  \/ \E n \in Scripts : ParseJob(n) \/ Compile(n) \/ Write(n) \/ Load(n) \/ Assemble(n)
  \/ \E n \in Scripts, p \in Scripts : CompileAgain(n, p)

Spec == Init /\ [][Next]_vars

-----------------------------------------------------------------------------
(* What the user may rely on.                                              *)

\* The parser finds in the text of a script the tree that the text was made
\* from by the grammar, with the precedence of the operators, the order of
\* the members and what is optional: parseObject and everything below it.
ParsesAsWritten ==
  \A n \in Scripts :
    parsed[n] # Nothing /\ n \notin torn => parsed[n] = [ok |-> TRUE, val |-> source[n]]

Punctuation == {"EOL", "(", ")", ",", "Else", "Default"}
Significant(s) ==
  [t \in {u \in Range(s) : u.t \notin Punctuation} |->
     Cardinality({i \in DOMAIN s : s[i] = t})]

\* A text with a token missing is refused, or it is a script of its own: the
\* tree says all that is in the text.  The parser drops nothing silently.
AcceptedIsKept ==
  \A n \in torn :
    parsed[n] # Nothing /\ parsed[n].ok
      => Significant(Tokens(opts, parsed[n].val)) = Significant(text[n])

\* The read functions of the pex classes take from a file what the write
\* functions put there, in every game.
ReadIsInverseOfWrite ==
  \A n \in Scripts : loaded[n] # Nothing => loaded[n] = [ok |-> TRUE, val |-> pexFile[n]]

\* What the assembler does not take: guards, a const script that has a parent
Assembles(file) ==
  \A i \in DOMAIN file.objects :
    /\ file.objects[i].guards = <<>>
    /\ ~file.objects[i].isConst

DebugOf(file) == IF file.hasDebugInfo THEN Range(file.debugInfo.functions) ELSE {}

\* Assembling what the disassembler has written gives the objects of the file
\* and the line numbers of its functions again.
AssemblyIsInverse ==
  \A n \in Scripts :
    assembled[n] # Nothing /\ Assembles(pexFile[n])
      => /\ assembled[n].ok
         /\ assembled[n].val.objects = pexFile[n].objects
         /\ assembled[n].val.userFlagTable = pexFile[n].userFlagTable
         /\ DebugOf(pexFile[n]) \subseteq DebugOf(assembled[n].val)

\* A structure in the declarations of a script is written as Script#Structure,
\* which resolveType no longer understands.
StructsArePrivate(x) == \A t \in TypesOf(x) : ElementOf(t).kind # "struct"

\* CustomEventName and ScriptEventName are written as String, so that a
\* function with one of them has another signature in the pex file than in the
\* source.
TellsEvents(f) ==
  \E t \in {f.returnType} \union {f.parameters[i].type : i \in DOMAIN f.parameters} :
    ElementOf(t).n \in Named

StateFunctions(x) == Range(Each(x.states, LAMBDA s: s.functions))

\* The script x takes the place of no such function of its parent.
OwnEventNames(x, parent) ==
  \A f \in StateFunctions(x), g \in Range(parent.states[1].functions) :
    f.name = g.name => ~TellsEvents(g)

\* A script that compiles against the source of its parent compiles to the
\* same file against the pex file of its parent, as long as no declaration of
\* the parent has the type of a structure and the script overrides no function
\* of it with the name of an event: what else PexReflector loses of the parent
\* makes no difference for the declarations of the script.
SourceAndPexAgree ==
  again # Nothing =>
    \A n \in Scripts :
      /\ pexFile[n] # Nothing
      /\ \E p \in Scripts :
           LET parent == Resolved(FromSource).objects[p] IN
           /\ parsed[n].val.parentClass = Leaf("type", p)
           /\ StructsArePrivate(parent)
           /\ OwnEventNames(parsed[n].val, parent)
      => again.made = pexFile[n]

RootFunctions(file) ==
  LET roots == SelectSeq(file.objects[1].states, LAMBDA s: s.name = "")
  IN Each(roots, LAMBDA s: s.functions)

SameShape(f, g) ==
  /\ f.returnTypeName = g.returnTypeName
  /\ Len(f.parameters) = Len(g.parameters)
  /\ \A i \in DOMAIN f.parameters : f.parameters[i].type = g.parameters[i].type

Overrides(f, functions) ==
  \A i \in DOMAIN functions : functions[i].name = f.name => SameShape(f, functions[i])

Extending(n) == {p \in Scripts : source[n].parentClass = Leaf("type", p)}

\* What the virtual machine finds by name has the type the caller was
\* compiled for: in the files of a script and of its parent, a function has
\* the signature of the function it takes the place of, in whatever state,
\* and the types are those their names have in each of the two scripts.
SignaturesKept ==
  \A n \in Scripts : pexFile[n] # Nothing =>
    LET states == pexFile[n].objects[1].states IN
    \A i \in DOMAIN states : \A j \in DOMAIN states[i].functions :
      /\ Overrides(states[i].functions[j], RootFunctions(pexFile[n]))
      /\ \A p \in Extending(n) :
           pexFile[p] # Nothing => Overrides(states[i].functions[j], RootFunctions(pexFile[p]))

VariablesOf(file) == NameList(file.objects[1].variables)
PropertyNames(file) == NamesOf(file.objects[1].properties)

\* A name means one thing: in a compiled file the variables, with those of
\* the automatic properties, have different names, and neither a variable nor
\* a structure nor a property has the name of a property of the parent (in
\* Skyrim a variable may, when that is allowed).
NamesStayApart ==
  \A n \in Scripts : pexFile[n] # Nothing =>
    /\ Distinct(VariablesOf(pexFile[n]))
    /\ \A i \in DOMAIN pexFile[n].objects[1].properties :
         LET p == pexFile[n].objects[1].properties[i] IN
         "auto" \in p.flags =>
           \E j \in DOMAIN pexFile[n].objects[1].variables :
             /\ pexFile[n].objects[1].variables[j].name = p.autoVar
             /\ pexFile[n].objects[1].variables[j].typeName = p.typeName
    /\ \A p \in Extending(n) : pexFile[p] # Nothing =>
         PropertyNames(pexFile[p]) \intersect
           (PropertyNames(pexFile[n]) \union NamesOf(pexFile[n].objects[1].structs)
            \union IF opts.game = Pex!Skyrim /\ opts.shadowing THEN {}
                   ELSE Range(VariablesOf(pexFile[n]))) = {}
=============================================================================
