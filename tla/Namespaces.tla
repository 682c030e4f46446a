----------------------------- MODULE Namespaces -----------------------------
(***************************************************************************)
(* PapyrusNamespace and PapyrusCompilationContext: the tree of namespaces, *)
(* filled while the command line is parsed, the remapping of temporary     *)
(* import namespaces to the namespaces their scripts declare, and the walk *)
(* that queues what is left for compilation.                               *)
(*                                                                         *)
(* A namespace is the path of its name's pieces.  All of this runs on the  *)
(* main thread; what varies is the scripts and the order of the unordered  *)
(* maps, whose iterators an insertion may invalidate.                      *)
(***************************************************************************)
EXTENDS Naturals, Sequences, SequencesExt, FiniteSets

CONSTANTS
  Node,      \* the compilation nodes, one per script file
  Null,
  Name,      \* the pieces of namespace names
  Temp,      \* those that begin with '!': the names of remapped inputs and imports
  Path,      \* the namespaces there can be, closed under prefixes
  Base,      \* base names of files, the keys of PapyrusNamespace::objects
  Layouts,   \* command lines: the folders and files pushed, in order, with the path and the
             \* kind of their nodes
  MayRehash  \* an insertion into the root's children may outgrow its bucket array

Root == <<>>

ASSUME NamespaceAssumption ==
  /\ IsFiniteSet(Node) /\ Null \notin Node /\ Temp \subseteq Name
  /\ Path \subseteq Seq(Name) /\ \A p \in Path : Prefixes(p) \subseteq Path
  /\ Root \in Path
  /\ Layouts \subseteq Seq([path : Path, kind : {"import", "compile"}])
  /\ MayRehash \in BOOLEAN

\* The name of a temporary namespace is made up for one import or input: "!!temp" and a counter,
\* or the name of the input and a random number.  No two folders get the same path, and all
\* below one such name are of one kind.
ASSUME TempsApart ==
  \A l \in Layouts : \A j, k \in DOMAIN l :
    l[j].path # Root /\ l[k].path # Root /\ Head(l[j].path) \in Temp
    /\ Head(l[j].path) = Head(l[k].path) =>
         l[j].kind = l[k].kind /\ (l[j].path = l[k].path => j = k)

VARIABLES
  folders,         \* what was pushed
  folder,          \* folder[n]: where the file was found, an index of folders
  baseName,        \* PapyrusCompilationNode::baseName
  declared,        \* the namespace of objectName, which preParse reads from the script
  objects,         \* objects[p]: PapyrusNamespace::objects of each namespace that exists
  nodesToCleanUp,
  phase,           \* what main is doing
  it,              \* the folder to push, or the iterator of the loop over order
  order,           \* the iteration order of rootNamespace.children
  queued           \* how often each node's writeJob has been queued

files == <<folders, folder, baseName, declared>>
vars  == <<files, objects, nodesToCleanUp, phase, it, order, queued>>

IsTemp(p)     == p # Root /\ Head(p) \in Temp
Kind(n)       == folders[folder[n]].kind
NoObjects     == [b \in Base |-> Null]
At(tree, p)   == IF p \in DOMAIN tree THEN tree[p] ELSE NoObjects
RootChildren(tree) == {Head(p) : p \in DOMAIN tree \ {Root}}

\* two files of one folder have different names
Init ==
  /\ folders \in Layouts
  /\ folder \in [Node -> DOMAIN folders] /\ baseName \in [Node -> Base]
  /\ \A m, n \in Node : folder[m] = folder[n] /\ baseName[m] = baseName[n] => m = n
  /\ declared \in [Node -> {p \in Path : ~IsTemp(p)}]
  /\ \A n \in Node : ~IsTemp(folders[folder[n]].path) => declared[n] = folders[folder[n]].path
  /\ objects = [p \in {Root} |-> NoObjects]
  /\ nodesToCleanUp = {} /\ phase = "parse" /\ it = 1 /\ order = <<>>
  /\ queued = [n \in Node |-> 0]

---------------------------------------------------------------------------
(* createNamespace                                                         *)

\* mutant of Replaces: the later script wins
ReplacesAlways(old, new) == TRUE

\* mutant of Replaces: an input file never replaces an import
ReplacesNever(old, new) == FALSE

\* a duplicate is ignored, unless the old one is just an import and the new one is not
Replaces(old, new) == Kind(old) = "import" /\ Kind(new) = "compile"

Merged(old, new) ==
  [b \in Base |-> IF new[b] = Null THEN old[b]
                  ELSE IF old[b] = Null \/ Replaces(old[b], new[b]) THEN new[b] ELSE old[b]]

\* the nodes of duplicates that createNamespace puts into nodesToCleanUp
Losers(old, new) ==
  {IF Replaces(old[b], new[b]) THEN old[b] ELSE new[b] :
     b \in {c \in Base : old[c] # Null /\ new[c] # Null}}

\* pushNamespaceFullContents for every namespace of maps: the namespaces on the way to it
\* are created, the contents are merged
CreateNamespaces(maps) ==
  [p \in DOMAIN objects \cup UNION {Prefixes(q) : q \in DOMAIN maps} |->
     Merged(At(objects, p), At(maps, p))]

AddToCleanUp(maps) ==
  nodesToCleanUp \cup UNION {Losers(At(objects, p), maps[p]) : p \in DOMAIN maps}

---------------------------------------------------------------------------
(* The command line: addFilesFromDirectory and addSingleFile.              *)

FilesOf(k) == {n \in Node : folder[n] = k}

Contents(k) == [b \in Base |-> IF \E n \in FilesOf(k) : baseName[n] = b
                               THEN CHOOSE n \in FilesOf(k) : baseName[n] = b ELSE Null]

\* A folder without scripts is not pushed.
PushFolder ==
  /\ phase = "parse" /\ it \in DOMAIN folders
  /\ it' = it + 1
  /\ LET maps == IF FilesOf(it) = {} THEN <<>> ELSE [p \in {folders[it].path} |-> Contents(it)]
     IN objects' = CreateNamespaces(maps) /\ nodesToCleanUp' = AddToCleanUp(maps)
  /\ UNCHANGED <<files, phase, order, queued>>

---------------------------------------------------------------------------
(* RenameImports                                                           *)

\* preParse of the scripts in temporary namespaces is awaited; the children are then
\* iterated in whatever order the insertions have left them
StartRename ==
  /\ phase = "parse" /\ it \notin DOMAIN folders
  /\ order' \in SetToSeqs(RootChildren(objects))
  /\ phase' = "rename" /\ it' = 1
  /\ UNCHANGED <<files, objects, nodesToCleanUp, queued>>

Subtree(p) == {q \in DOMAIN objects : IsPrefix(p, q)}

\* The orders in which renameMap visits a subtree: a namespace, then what is below its
\* children, one child after the other.
Visits(p) ==
  {s \in SetToSeqs(Subtree(p)) : \A i \in DOMAIN s :
     Subtree(s[i]) = {s[j] : j \in DOMAIN s \cap i .. (i + Cardinality(Subtree(s[i])) - 1)}}

\* the first namespace of s whose object b is a script that declares namespace p
FirstWith(s, p, b) ==
  SelectInSeq(s, LAMBDA q : objects[q][b] # Null /\ declared[objects[q][b]] = p)

\* mutant of RenameMap: the map keeps the namespace of the first script of a folder only
RenameToFirst(s) ==
  LET found == {objects[s[i]][b] : i \in DOMAIN s, b \in Base} \ {Null}
      p == declared[CHOOSE n \in found : TRUE]
  IN [q \in IF found = {} THEN {} ELSE {p} |->
       [b \in Base |-> IF FirstWith(s, p, b) = 0 THEN Null ELSE objects[s[FirstWith(s, p, b)]][b]]]

\* tempRenameMap: per declared namespace the objects, of which emplace keeps the first
RenameMap(s) ==
  LET found == {objects[s[i]][b] : i \in DOMAIN s, b \in Base} \ {Null}
  IN [p \in {declared[n] : n \in found} |->
       [b \in Base |-> IF FirstWith(s, p, b) = 0 THEN Null ELSE objects[s[FirstWith(s, p, b)]][b]]]

KeepsOrder(o) ==
  \A i, j \in DOMAIN order, k, l \in DOMAIN o :
    i < j /\ o[k] = order[i] /\ o[l] = order[j] => k < l

\* The iteration order after new children have been inserted: anywhere between the old
\* ones, which keep their order unless the map rehashes.
Reordered(tree) ==
  {o \in SetToSeqs(RootChildren(tree)) :
     \/ MayRehash /\ RootChildren(tree) # ToSet(order)
     \/ KeepsOrder(o)}

RenameChild ==
  /\ phase = "rename" /\ it \in DOMAIN order /\ order[it] \in Temp
  /\ \E s \in Visits(<<order[it]>>) :
       /\ objects' = CreateNamespaces(RenameMap(s))
       /\ nodesToCleanUp' = AddToCleanUp(RenameMap(s))
  /\ order' \in Reordered(objects')
  /\ \E i \in DOMAIN order' : order'[i] = order[it] /\ it' = i + 1
  /\ UNCHANGED <<files, phase, queued>>

SkipChild ==
  /\ phase = "rename" /\ it \in DOMAIN order /\ order[it] \notin Temp
  /\ it' = it + 1
  /\ UNCHANGED <<files, objects, nodesToCleanUp, phase, order, queued>>

StartErase ==
  /\ phase = "rename" /\ it \notin DOMAIN order
  /\ phase' = "erase" /\ it' = 1
  /\ UNCHANGED <<files, objects, nodesToCleanUp, order, queued>>

WithoutChild(c) == [p \in {q \in DOMAIN objects : q = Root \/ Head(q) # c} |-> objects[p]]

\* Erasing resets the iterator to begin(), which the loop then increments.
EraseTemp ==
  /\ phase = "erase" /\ it \in DOMAIN order /\ order[it] \in Temp
  /\ objects' = WithoutChild(order[it])
  /\ order' = RemoveAt(order, it)
  /\ IF order' = <<>> THEN phase' = "compile" /\ it' = 1 ELSE it' = 2 /\ UNCHANGED phase
  /\ UNCHANGED <<files, nodesToCleanUp, queued>>

\* mutant of KeepChild: the loop ends at the first child that stays
StopAtFirst ==
  /\ phase = "erase" /\ it \in DOMAIN order /\ order[it] \notin Temp
  /\ phase' = "compile" /\ it' = 1
  /\ UNCHANGED <<files, objects, nodesToCleanUp, order, queued>>

KeepChild ==
  /\ phase = "erase" /\ it \in DOMAIN order /\ order[it] \notin Temp
  /\ it' = it + 1
  /\ UNCHANGED <<files, objects, nodesToCleanUp, phase, order, queued>>

EndErase ==
  /\ phase = "erase" /\ it \notin DOMAIN order
  /\ phase' = "compile" /\ it' = 1
  /\ UNCHANGED <<files, objects, nodesToCleanUp, order, queued>>

---------------------------------------------------------------------------
(* doCompile                                                               *)

\* The walk over the tree queues the writeJob of every node that is not an import.
QueueCompile ==
  /\ phase = "compile"
  /\ queued' = [n \in Node |-> Cardinality({p \in DOMAIN objects :
                  objects[p][baseName[n]] = n /\ Kind(n) = "compile"})]
  /\ phase' = "done"
  /\ UNCHANGED <<files, objects, nodesToCleanUp, it, order>>

Next == \/ PushFolder \/ StartRename \/ RenameChild \/ SkipChild \/ StartErase
        \/ EraseTemp \/ KeepChild \/ EndErase \/ QueueCompile

Spec == Init /\ [][Next]_vars

---------------------------------------------------------------------------
(* Looking up a type, after RenameImports.                                 *)

\* PapyrusNamespace::tryFindType of q's pieces and then b, in namespace p
FindQualified(p, q, b) == At(objects, p \o q)[b]

\* PapyrusCompilationContext::tryFindType: in the namespace of the reference if there is
\* one, then in those around it, outwards
TryFindType(p, q, b) ==
  LET hits == {r \in Prefixes(p) : p \in DOMAIN objects /\ FindQualified(r, q, b) # Null}
  IN IF hits = {} THEN Null
     ELSE FindQualified(CHOOSE r \in hits : \A h \in hits : Len(h) <= Len(r), q, b)

---------------------------------------------------------------------------
(* Properties                                                              *)

SameName(m, n) == declared[m] = declared[n] /\ baseName[m] = baseName[n]

\* Once imports are renamed, a script is found by the name it declares, from any
\* namespace: it or another script of that name, which is an input file if it is one; or
\* a script with a name relative to that namespace or one between.
Resolvable ==
  phase = "done" => \A n \in Node, p \in {q \in DOMAIN objects : ~IsTemp(q)} :
    LET m == TryFindType(p, declared[n], baseName[n])
    IN /\ m # Null /\ baseName[m] = baseName[n]
       /\ IF SameName(m, n) THEN Kind(n) = "compile" => Kind(m) = "compile"
          ELSE p # Root /\ Len(declared[m]) > Len(declared[n])

\* A name that stands for a script keeps doing so: it is only ever rebound to an input
\* file, from an import.  createNamespace, "if the old object is just an import and the new
\* object is a compile node, we have to replace it".
BindingsOnlyImprove ==
  [][\A p \in DOMAIN objects, b \in Base : ~IsTemp(p) /\ objects[p][b] # Null =>
       /\ p \in DOMAIN objects' /\ objects'[p][b] # Null
       /\ objects'[p][b] # objects[p][b] =>
            Kind(objects[p][b]) = "import" /\ Kind(objects'[p][b]) = "compile"]_vars

InputsCompiled ==
  phase = "done" => \A n \in Node : Kind(n) = "compile" =>
    \E m \in Node : SameName(m, n) /\ queued[m] > 0

\* The temporary namespaces that RenameImports leaves, and the scripts below them.
TempsLeft    == RootChildren(objects) \cap Temp
StillTemp(n) == IsTemp(folders[folder[n]].path) /\ Head(folders[folder[n]].path) \in TempsLeft

QueuedOnce == \A n \in Node : queued[n] <= IF StillTemp(n) THEN 2 ELSE 1

\* Of the input files of one name one is compiled (main_options.cpp, "when passing a
\* directory, only Papyrus script files (*.psc) in it will be compiled"), and its writeJob is
\* put into the queue once: a job is one node of a linked list.  The walk comes to a script a
\* second time only below a temporary namespace that the erase loop has left.
InputsQueuedOnce == InputsCompiled /\ QueuedOnce

\* another temporary namespace than that of t was pushed
Others(t) == \E k \in DOMAIN folders : IsTemp(folders[k].path) /\ Head(folders[k].path) # t

\* The erase loop restarts at begin() and passes it over: what it can leave is the namespace
\* that is then the first, if another one has been erased in front of it.
OneTempStays ==
  phase \in {"compile", "done"} => \A t \in TempsLeft : order[1] = t /\ Others(t)

CleanedUnreachable ==
  phase = "done" => \A p \in DOMAIN objects, b \in Base :
    ~IsTemp(p) => objects[p][b] \notin nodesToCleanUp

\* Of the temporary namespaces, wherever the map has them, at most one stays, and a single one
\* never does (RenameImports, "remove the children", would have none stay).  No name stands
\* for a node that lost a merge (createNamespace, "calling `delete` on this node causes a
\* crash"): only the walk of doCompile can still come to it, in the namespace that stays.
TempsCleaned == OneTempStays /\ CleanedUnreachable
=============================================================================
