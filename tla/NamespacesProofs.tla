-------------------------- MODULE NamespacesProofs --------------------------
(***************************************************************************)
(* Proofs about Namespaces for any scripts, folders and namespaces.  The   *)
(* argument: until RenameImports has come to the temporary namespace of a  *)
(* script, the script is where its folder was pushed; from then on its     *)
(* declared name stands for it, or for another script of that name, and    *)
(* what that name stands for only ever improves.                           *)
(***************************************************************************)
EXTENDS Namespaces, TLAPS, SequenceTheorems, FunctionTheorems, FiniteSetTheorems

\* A name that stands for a script keeps doing so, from one state to the next.
THEOREM BindingsOnlyImproveCorrect == Spec => BindingsOnlyImprove
<1> DEFINE Improves ==
      \A p \in DOMAIN objects, b \in Base : ~IsTemp(p) /\ objects[p][b] # Null =>
        /\ p \in DOMAIN objects' /\ objects'[p][b] # Null
        /\ objects'[p][b] # objects[p][b] =>
             Kind(objects[p][b]) = "import" /\ Kind(objects'[p][b]) = "compile"
<1>1. ASSUME NEW maps, objects' = CreateNamespaces(maps) PROVE Improves
  BY <1>1 DEF CreateNamespaces, Merged, Replaces, At
<1>2. ASSUME EraseTemp PROVE Improves
  BY <1>2 DEF EraseTemp, WithoutChild, IsTemp
<1>3. ASSUME PushFolder \/ RenameChild PROVE Improves
  BY <1>1, <1>3 DEF PushFolder, RenameChild
<1>4. ASSUME objects' = objects PROVE Improves
  BY <1>4
<1>5. ASSUME [Next]_vars PROVE Improves
  BY <1>2, <1>3, <1>4, <1>5
     DEF Next, vars, StartRename, SkipChild, StartErase, KeepChild, EndErase, QueueCompile
<1> QED
  BY <1>5, PTL DEF Spec, BindingsOnlyImprove

---------------------------------------------------------------------------
(* Paths and their prefixes.                                               *)

\* A path is a prefix of itself and begins with the root; its other prefixes have its head.
LEMMA PrefixesOf ==
  ASSUME NEW p \in Path
  PROVE  /\ p \in Prefixes(p) /\ Root \in Prefixes(p)
         /\ \A q \in Prefixes(p) : q \in Path /\ (q # Root => p # Root /\ Head(q) = Head(p))
<1>1. p \in Seq(Name) /\ Prefixes(p) \subseteq Path
  BY NamespaceAssumption
<1>2. p \in Prefixes(p)
  <2>1. p = SubSeq(p, 1, Len(p)) /\ Len(p) \in 0 .. Len(p)
    BY <1>1, SubSeqFull
  <2> QED
    BY <2>1 DEF Prefixes
<1>3. Root \in Prefixes(p)
  <2>1. Root = SubSeq(p, 1, 0) /\ 0 \in 0 .. Len(p)
    BY <1>1, SubSeqEmpty DEF Root
  <2> QED
    BY <2>1 DEF Prefixes
<1>4. ASSUME NEW l \in 0 .. Len(p), SubSeq(p, 1, l) # Root
      PROVE  p # Root /\ Head(SubSeq(p, 1, l)) = Head(p)
  <2>1. l \in 1 .. Len(p)
    BY <1>1, <1>4, SubSeqEmpty DEF Root
  <2>2. Head(SubSeq(p, 1, l)) = p[1]
    <3>1. 1 \in 1 .. Len(p)
      BY <1>1, <2>1
    <3> QED
      BY <1>1, <2>1, <3>1, HeadTailOfSubSeq
  <2> QED
    BY <1>1, <2>1, <2>2 DEF Root
<1> QED
  <2>1. SUFFICES ASSUME NEW q \in Prefixes(p), q # Root PROVE p # Root /\ Head(q) = Head(p)
    BY <1>1, <1>2, <1>3
  <2>2. PICK l \in 0 .. Len(p) : q = SubSeq(p, 1, l)
    BY <2>1 DEF Prefixes
  <2> QED
    BY <1>4, <2>1, <2>2

\* The paths below a child of the root are those that begin with it.
LEMMA BelowChild ==
  ASSUME NEW p \in Path, NEW c
  PROVE  IsPrefix(<<c>>, p) <=> p # Root /\ Head(p) = c
<1>1. p \in Seq(Name) /\ Len(<<c>>) = 1
  BY NamespaceAssumption
<1>2. SubSeq(<<c>>, 1, 1) = <<c>>
  <2>1. <<c>> \in Seq({c})
    OBVIOUS
  <2> QED
    BY <1>1, <2>1, SubSeqFull
<1>3. CASE p = Root
  BY <1>1, <1>3 DEF IsPrefix, Root
<1>4. CASE p # Root
  <2>1. Len(p) >= 1 /\ Head(p) = p[1] /\ 1 \in 1 .. Len(p)
    BY <1>1, <1>4 DEF Root
  <2>2. SubSeq(p, 1, 1) = <<p[1]>>
    <3>1. SubSeq(p, 1, 1) = SubSeq(p, 1, 0) \o <<p[1]>> /\ SubSeq(p, 1, 0) = <<>>
      BY <1>1, <2>1, SubSeqRecursiveSecond, SubSeqEmpty
    <3>2. <<p[1]>> \in Seq(Name)
      BY <1>1, <2>1
    <3> QED
      BY <3>1, <3>2, ConcatEmptySeq
  <2> QED
    BY <1>1, <1>2, <1>4, <2>1, <2>2 DEF IsPrefix
<1> QED
  BY <1>3, <1>4

---------------------------------------------------------------------------
(* Listings: the iteration order of a map, and of a visit.                 *)

Lists(o, S) == /\ o \in Seq(S)
               /\ \A i, j \in 1 .. Len(o) : o[i] = o[j] => i = j
               /\ \A c \in S : \E i \in 1 .. Len(o) : o[i] = c

\* SetToSeqs gives listings.
LEMMA SetToSeqsLists ==
  ASSUME NEW S, IsFiniteSet(S), NEW o \in SetToSeqs(S)
  PROVE  Lists(o, S)
<1> DEFINE D == 1 .. Cardinality(S)
<1>1. Cardinality(S) \in Nat
  BY FS_CardinalityType
<1>2. o \in [D -> S] /\ \A i, j \in D : i # j => o[i] # o[j]
  BY DEF SetToSeqs
<1>3. o \in Seq(S) /\ Len(o) = Cardinality(S)
  BY <1>1, <1>2
<1>4. \A c \in S : \E i \in D : o[i] = c
  <2>1. IsFiniteSet(D) /\ Cardinality(D) = Cardinality(S)
    BY <1>1, FS_Interval
  <2> HIDE DEF D
  <2>2. o \in Injection(D, S)
    BY <1>2, Fun_IsInj
  <2>3. o \in Surjection(D, S)
    BY <2>1, <2>2, FS_Injection
  <2> QED
    BY <2>3, Fun_SurjectionProperties
<1> QED
  BY <1>2, <1>3, <1>4 DEF Lists

---------------------------------------------------------------------------
(* The invariant.                                                          *)

Dir(n) == folders[folder[n]].path

FilesOK ==
  /\ folders \in Layouts
  /\ folder \in [Node -> DOMAIN folders] /\ baseName \in [Node -> Base]
  /\ \A m, n \in Node : folder[m] = folder[n] /\ baseName[m] = baseName[n] => m = n
  /\ declared \in [Node -> {p \in Path : ~IsTemp(p)}]
  /\ \A n \in Node : ~IsTemp(Dir(n)) => declared[n] = Dir(n)

\* the namespaces there are are those of folders and scripts, and those around them
Known == {Root} \cup UNION {Prefixes(declared[n]) \cup Prefixes(Dir(n)) : n \in Node}

Tree == /\ objects \in [DOMAIN objects -> [Base -> Node \cup {Null}]]
        /\ DOMAIN objects \subseteq Known

Loop == it \in Nat \ {0} /\ (phase # "parse" => Lists(order, RootChildren(objects)))

\* what stands in namespace p is in the folder p or declares it
Home(m, p) == IF IsTemp(p) THEN Dir(m) = p ELSE declared[m] = p

Bindings == \A p \in DOMAIN objects, b \in Base :
              objects[p][b] # Null => baseName[objects[p][b]] = b /\ Home(objects[p][b], p)

\* the child the loop has yet to come to
Ahead(c) == \E j \in 1 .. Len(order) : j >= it /\ order[j] = c

Pushed(n)  == phase = "parse" => folder[n] < it
Pending(n) == IsTemp(Dir(n)) /\ (phase = "parse" \/ (phase = "rename" /\ Ahead(Head(Dir(n)))))

InTemp(n) == Dir(n) \in DOMAIN objects /\ objects[Dir(n)][baseName[n]] = n

Placed(n) == LET m == At(objects, declared[n])[baseName[n]]
             IN m # Null /\ (Kind(n) = "compile" => Kind(m) = "compile")

Held == \A n \in Node : Pushed(n) => IF Pending(n) THEN InTemp(n) ELSE Placed(n)

Stands(n) == \E p \in DOMAIN objects, b \in Base : ~IsTemp(p) /\ objects[p][b] = n

\* a script that is yet to be pushed or placed
Early == \A n \in Node :
           /\ ~Pushed(n) => \A p \in DOMAIN objects, b \in Base : objects[p][b] # n
           /\ Pending(n) \/ ~Pushed(n) => ~Stands(n) /\ n \notin nodesToCleanUp

Cleaned == nodesToCleanUp \subseteq Node /\ \A n \in nodesToCleanUp : ~Stands(n)

\* what the erase loop has passed over is the first child, after another one
Erased == /\ phase = "erase" => \A j \in 1 .. Len(order) :
               order[j] \in Temp => j >= it \/ (j = 1 /\ Others(order[j]))
          /\ OneTempStays

Counted == \A n \in Node : queued[n] =
             IF phase # "done" THEN 0
             ELSE Cardinality({p \in DOMAIN objects :
                                 objects[p][baseName[n]] = n /\ Kind(n) = "compile"})

NInv == FilesOK /\ Tree /\ Loop /\ Bindings /\ Held /\ Early /\ Cleaned /\ Erased /\ Counted

---------------------------------------------------------------------------
(* Files and folders.                                                      *)

\* The types of what is known of a script.
LEMMA NodeType ==
  ASSUME FilesOK, NEW n \in Node
  PROVE  /\ folder[n] \in 1 .. Len(folders) /\ baseName[n] \in Base /\ n # Null
         /\ Dir(n) \in Path /\ Kind(n) \in {"import", "compile"}
         /\ declared[n] \in Path /\ ~IsTemp(declared[n])
<1> DEFINE F == [path : Path, kind : {"import", "compile"}]
<1>1. folders \in Seq(F)
  BY NamespaceAssumption DEF FilesOK
<1> HIDE DEF F
<1>2. folder[n] \in DOMAIN folders /\ DOMAIN folders = 1 .. Len(folders)
  BY <1>1 DEF FilesOK
<1>3. folders[folder[n]] \in F
  BY <1>1, <1>2, ElementOfSeq
<1>4. Dir(n) \in Path /\ Kind(n) \in {"import", "compile"}
  BY <1>3 DEF Dir, Kind, F
<1>5. n # Null /\ baseName[n] \in Base /\ declared[n] \in {p \in Path : ~IsTemp(p)}
  BY NamespaceAssumption DEF FilesOK
<1> QED
  BY <1>2, <1>4, <1>5

\* Of two scripts below one temporary child of the root.
LEMMA Apart ==
  ASSUME FilesOK, NEW m \in Node, NEW n \in Node, IsTemp(Dir(m)), IsTemp(Dir(n)),
         Head(Dir(m)) = Head(Dir(n))
  PROVE  Kind(m) = Kind(n) /\ (Dir(m) = Dir(n) => folder[m] = folder[n])
<1>1. folder[m] \in DOMAIN folders /\ folder[n] \in DOMAIN folders /\ folders \in Layouts
  BY DEF FilesOK
<1> QED
  BY <1>1, TempsApart DEF Dir, Kind, IsTemp

\* Nothing changes the files.
LEMMA FilesStay ==
  ASSUME UNCHANGED files, FilesOK
  PROVE  /\ FilesOK' /\ Known' = Known /\ \A t : Others(t)' <=> Others(t)
         /\ \A n \in Node : /\ Dir(n)' = Dir(n) /\ Kind(n)' = Kind(n) /\ folder'[n] = folder[n]
                            /\ baseName'[n] = baseName[n] /\ declared'[n] = declared[n]
         /\ \A m, p : Home(m, p)' = Home(m, p)
  BY DEF files, FilesOK, Known, Others, IsTemp, Dir, Kind, Home

\* What is known is finite, and made of paths.
LEMMA KnownFinite == ASSUME FilesOK PROVE IsFiniteSet(Known) /\ Known \subseteq Path
<1> DEFINE P(n) == Prefixes(declared[n]) \cup Prefixes(Dir(n))
           f == [n \in Node |-> P(n)]
           S == {P(n) : n \in Node}
<1>1. ASSUME NEW q \in Path PROVE IsFiniteSet(Prefixes(q))
  <2> DEFINE g == [l \in 0 .. Len(q) |-> SubSeq(q, 1, l)]
  <2>1. Len(q) \in Nat
    BY NamespaceAssumption
  <2>2. g \in [0 .. Len(q) -> Prefixes(q)] /\ \A x \in Prefixes(q) : \E l \in 0 .. Len(q) : g[l] = x
    BY DEF Prefixes
  <2>3. IsFiniteSet(0 .. Len(q))
    BY <2>1, FS_Interval
  <2> HIDE DEF g
  <2>4. g \in Surjection(0 .. Len(q), Prefixes(q))
    BY <2>2, Fun_IsSurj
  <2> QED
    BY <2>3, <2>4, FS_Surjection
<1>2. \A n \in Node : IsFiniteSet(P(n)) /\ P(n) \subseteq Path
  BY <1>1, NodeType, NamespaceAssumption, FS_Union
<1>3. IsFiniteSet(S)
  <2> HIDE DEF P
  <2>1. f \in [Node -> S] /\ \A x \in S : \E n \in Node : f[n] = x
    OBVIOUS
  <2> HIDE DEF f
  <2>2. f \in Surjection(Node, S)
    BY <2>1, Fun_IsSurj
  <2> QED
    BY <2>2, NamespaceAssumption, FS_Surjection
<1>4. IsFiniteSet(UNION S)
  BY <1>2, <1>3, FS_UNION
<1>5. Known = {Root} \cup UNION S
  BY DEF Known
<1> HIDE DEF P, S
<1> QED
  <2>1. IsFiniteSet(Known)
    BY <1>4, <1>5, FS_Singleton, FS_Union
  <2>2. UNION S \subseteq Path
    BY <1>2 DEF S
  <2> QED
    BY <1>5, <2>1, <2>2, NamespaceAssumption

\* So are the children of the root.
LEMMA ChildrenFinite ==
  ASSUME FilesOK, NEW tree, DOMAIN tree \subseteq Known
  PROVE  IsFiniteSet(RootChildren(tree))
<1> DEFINE D == DOMAIN tree \ {Root}
           f == [p \in D |-> Head(p)]
<1>1. IsFiniteSet(D)
  BY KnownFinite, FS_Subset
<1>2. /\ f \in [D -> RootChildren(tree)]
      /\ \A x \in RootChildren(tree) : \E p \in D : f[p] = x
  BY DEF RootChildren
<1> HIDE DEF D, f
<1>3. f \in Surjection(D, RootChildren(tree))
  BY <1>2, Fun_IsSurj
<1> QED
  BY <1>1, <1>3, FS_Surjection

\* So is the tree.
LEMMA TreeFinite ==
  ASSUME FilesOK, Tree
  PROVE  /\ DOMAIN objects \subseteq Path
         /\ IsFiniteSet(DOMAIN objects) /\ IsFiniteSet(RootChildren(objects))
BY KnownFinite, ChildrenFinite, FS_Subset DEF Tree

---------------------------------------------------------------------------
(* What createNamespace does, for any contents maps of namespaces D.       *)

Fits(D, maps) ==
  /\ maps \in [D -> [Base -> Node \cup {Null}]]
  /\ \A p \in D : \E n \in Node : p = declared[n] \/ p = Dir(n)

\* The contents are new: none of them stands anywhere, or was put aside; the namespaces are
\* where they belong, and a temporary one is empty.
New(D, maps) ==
  \A p \in D, b \in Base :
    /\ maps[p][b] # Null => /\ baseName[maps[p][b]] = b /\ Home(maps[p][b], p)
                            /\ ~Stands(maps[p][b]) /\ maps[p][b] \notin nodesToCleanUp
    /\ IsTemp(p) => At(objects, p)[b] = Null

\* The namespaces there are then, and what stands in them.
LEMMA CreateGives ==
  ASSUME FilesOK, Tree, NEW D, NEW maps, Fits(D, maps), objects' = CreateNamespaces(maps)
  PROVE  /\ D \subseteq DOMAIN objects' /\ DOMAIN objects \subseteq DOMAIN objects'
         /\ \A p \in DOMAIN objects' : p \in DOMAIN objects \/ \E q \in D : p \in Prefixes(q)
         /\ objects' \in [DOMAIN objects' -> [Base -> Node \cup {Null}]]
         /\ DOMAIN objects' \subseteq Known
         /\ \A p \in DOMAIN objects' : \A b \in Base :
              objects'[p][b] = LET old == At(objects, p)[b]
                               IN IF p \in D /\ maps[p][b] # Null
                                     /\ (old = Null \/ Replaces(old, maps[p][b]))
                                  THEN maps[p][b] ELSE old
<1> DEFINE T == DOMAIN objects \cup UNION {Prefixes(q) : q \in D}
<1>1. DOMAIN maps = D /\ objects' = [p \in T |-> Merged(At(objects, p), At(maps, p))]
  BY DEF CreateNamespaces, Fits
<1>2. D \subseteq Path
  BY NodeType DEF Fits
<1>3. D \subseteq T
  <2>1. \A q \in D : q \in Prefixes(q)
    BY <1>2, PrefixesOf
  <2> QED
    BY <2>1
<1>4. T \subseteq Known
  <2>1. ASSUME NEW q \in D PROVE Prefixes(q) \subseteq Known
    BY <2>1 DEF Fits, Known
  <2> QED
    BY <2>1 DEF Tree
<1>5. ASSUME NEW p \in T
      PROVE  At(objects, p) \in [Base -> Node \cup {Null}] /\ At(maps, p) \in [Base -> Node \cup {Null}]
  BY DEF At, NoObjects, Fits, Tree
<1>6. ASSUME NEW p \in T
      PROVE  /\ objects'[p] \in [Base -> Node \cup {Null}]
             /\ \A b \in Base :
                  objects'[p][b] = LET old == At(objects, p)[b]
                                   IN IF p \in D /\ maps[p][b] # Null
                                         /\ (old = Null \/ Replaces(old, maps[p][b]))
                                      THEN maps[p][b] ELSE old
  <2>1. objects'[p] = Merged(At(objects, p), At(maps, p))
    BY <1>1
  <2>2. objects'[p] \in [Base -> Node \cup {Null}]
    BY <1>5, <2>1 DEF Merged
  <2>3. \A b \in Base : At(maps, p)[b] = IF p \in D THEN maps[p][b] ELSE Null
    BY <1>1 DEF At, NoObjects
  <2> QED
    BY <2>1, <2>2, <2>3 DEF Merged
<1>7. DOMAIN objects' = T
  BY <1>1
<1>8. objects' \in [T -> [Base -> Node \cup {Null}]]
  BY <1>1, <1>6
<1>9. /\ DOMAIN objects \subseteq T
      /\ \A p \in T : p \in DOMAIN objects \/ \E q \in D : p \in Prefixes(q)
  OBVIOUS
<1> HIDE DEF T
<1> QED
  BY <1>3, <1>4, <1>6, <1>7, <1>8, <1>9

\* The namespace tree keeps its shape.
LEMMA MergeTree ==
  ASSUME FilesOK, Tree, Bindings, UNCHANGED files, NEW D, NEW maps, Fits(D, maps), New(D, maps),
         objects' = CreateNamespaces(maps)
  PROVE  Tree' /\ Bindings'
<1>1. Tree'
  BY CreateGives, FilesStay DEF Tree
<1>2. ASSUME NEW p \in DOMAIN objects', NEW b \in Base, objects'[p][b] # Null
      PROVE  baseName[objects'[p][b]] = b /\ Home(objects'[p][b], p)
  <2>1. \/ p \in D /\ maps[p][b] # Null /\ objects'[p][b] = maps[p][b]
        \/ objects'[p][b] = At(objects, p)[b]
    BY CreateGives
  <2>2. CASE objects'[p][b] = At(objects, p)[b]
    BY <1>2, <2>2 DEF At, NoObjects, Bindings
  <2> QED
    BY <2>1, <2>2 DEF New
<1> QED
  BY <1>1, <1>2 DEF Bindings, Home, Dir, files

\* What a name stands for only improves.
LEMMA MergePlaced ==
  ASSUME FilesOK, Tree, UNCHANGED files, NEW D, NEW maps, Fits(D, maps),
         objects' = CreateNamespaces(maps), NEW n \in Node,
         \/ Placed(n)
         \/ declared[n] \in D /\ LET m == maps[declared[n]][baseName[n]]
                                 IN m # Null /\ (Kind(n) = "compile" => Kind(m) = "compile")
  PROVE  Placed(n)'
<1> DEFINE p == declared[n]
           b == baseName[n]
           old == At(objects, p)[b]
<1>1. b \in Base /\ p \in Path
  BY NodeType
<1>2. p \in DOMAIN objects'
  <2>1. CASE Placed(n)
    <3>1. p \in DOMAIN objects
      BY <1>1, <2>1 DEF Placed, At, NoObjects
    <3> QED
      BY <3>1, CreateGives
  <2> QED
    BY <2>1, CreateGives
<1>3. objects'[p][b] = IF p \in D /\ maps[p][b] # Null /\ (old = Null \/ Replaces(old, maps[p][b]))
                       THEN maps[p][b] ELSE old
  BY <1>1, <1>2, CreateGives
<1>4. objects'[p][b] # Null /\ (Kind(n) = "compile" => Kind(objects'[p][b]) = "compile")
  <2>1. CASE Placed(n)
    BY <1>3, <2>1 DEF Placed, Replaces
  <2>2. CASE p \in D /\ maps[p][b] # Null /\ (Kind(n) = "compile" => Kind(maps[p][b]) = "compile")
    <3>1. old # Null => Kind(old) \in {"import", "compile"}
      <4>1. old \in Node \cup {Null}
        BY <1>1 DEF Tree, At, NoObjects
      <4> QED
        BY <4>1, NodeType
    <3> QED
      BY <1>3, <2>2, <3>1 DEF Replaces
  <2> QED
    BY <2>1, <2>2
<1> QED
  BY <1>2, <1>4 DEF Placed, At, Kind, files

\* What stands afterwards stood before, or is new.
LEMMA MergeStands ==
  ASSUME FilesOK, Tree, NEW D, NEW maps, Fits(D, maps), objects' = CreateNamespaces(maps),
         NEW n \in Node, Stands(n)'
  PROVE  Stands(n) \/ \E p \in D, b \in Base : ~IsTemp(p) /\ maps[p][b] = n
<1>1. PICK p \in DOMAIN objects', b \in Base : ~IsTemp(p) /\ objects'[p][b] = n
  BY DEF Stands, IsTemp
<1>2. \/ p \in D /\ objects'[p][b] = maps[p][b]
      \/ objects'[p][b] = At(objects, p)[b]
  BY CreateGives
<1>3. CASE objects'[p][b] = At(objects, p)[b]
  BY <1>1, <1>3, NodeType DEF At, NoObjects, Stands
<1> QED
  BY <1>1, <1>2, <1>3

\* What createNamespace puts aside is the one of two scripts of a name that does not stay.
LEMMA LoserIs ==
  ASSUME FilesOK, Tree, NEW D, NEW maps, Fits(D, maps), New(D, maps),
         nodesToCleanUp' = AddToCleanUp(maps), NEW n \in nodesToCleanUp', n \notin nodesToCleanUp
  PROVE  \E p \in DOMAIN objects \cap D, b \in Base :
           /\ ~IsTemp(p) /\ objects[p][b] # Null /\ maps[p][b] # Null
           /\ n = IF Replaces(objects[p][b], maps[p][b]) THEN objects[p][b] ELSE maps[p][b]
<1>1. PICK p \in D : n \in Losers(At(objects, p), maps[p])
  BY DEF AddToCleanUp, Fits
<1>2. PICK b \in Base : /\ At(objects, p)[b] # Null /\ maps[p][b] # Null
                        /\ n = IF Replaces(At(objects, p)[b], maps[p][b])
                               THEN At(objects, p)[b] ELSE maps[p][b]
  BY <1>1 DEF Losers
<1>3. p \in DOMAIN objects /\ At(objects, p) = objects[p]
  BY <1>2 DEF At, NoObjects
<1>4. ~IsTemp(p)
  BY <1>2 DEF New
<1> QED
  BY <1>2, <1>3, <1>4

\* What is put aside stands nowhere.
LEMMA MergeCleaned ==
  ASSUME FilesOK, Tree, Bindings, Cleaned, NEW D, NEW maps, Fits(D, maps), New(D, maps),
         objects' = CreateNamespaces(maps), nodesToCleanUp' = AddToCleanUp(maps)
  PROVE  Cleaned'
<1>1. ASSUME NEW n \in nodesToCleanUp, n \in Node, Stands(n)' PROVE FALSE
  <2>1. ~Stands(n)
    BY DEF Cleaned
  <2> QED
    BY <1>1, <2>1, MergeStands, NodeType DEF New
<1>2. ASSUME NEW n \in nodesToCleanUp', n \notin nodesToCleanUp
      PROVE  n \in Node /\ ~Stands(n)'
  <2>1. PICK p \in DOMAIN objects \cap D, b \in Base :
          /\ ~IsTemp(p) /\ objects[p][b] # Null /\ maps[p][b] # Null
          /\ n = IF Replaces(objects[p][b], maps[p][b]) THEN objects[p][b] ELSE maps[p][b]
    BY <1>2, LoserIs
  <2>2. n \in Node /\ objects[p][b] # maps[p][b]
    <3>1. objects[p] \in [Base -> Node \cup {Null}] /\ maps[p] \in [Base -> Node \cup {Null}]
      BY DEF Fits, Tree
    <3>2. objects[p][b] \in Node /\ maps[p][b] \in Node
      BY <2>1, <3>1
    <3>3. Stands(objects[p][b]) /\ ~Stands(maps[p][b])
      BY <2>1 DEF New, Stands
    <3> QED
      BY <2>1, <3>2, <3>3
  <2>3. SUFFICES ASSUME NEW q \in DOMAIN objects', NEW c \in Base, ~IsTemp(q), objects'[q][c] = n
                 PROVE  FALSE
    BY <2>2 DEF Stands, IsTemp
  <2>4. n # Null /\ baseName[n] = b /\ declared[n] = p
    BY <2>1, <2>2, NodeType DEF Bindings, New, Home
  <2>5. \/ q \in D /\ maps[q][c] # Null /\ objects'[q][c] = maps[q][c]
        \/ q \in DOMAIN objects /\ objects'[q][c] = objects[q][c]
    BY <2>3, <2>4, CreateGives DEF At, NoObjects
  <2>6. c = b /\ q = p
    BY <2>3, <2>4, <2>5 DEF Bindings, New, Home
  <2>7. objects'[p][b] = IF Replaces(objects[p][b], maps[p][b]) THEN maps[p][b] ELSE objects[p][b]
    BY <2>1, <2>3, <2>6, CreateGives DEF At
  <2> QED
    BY <2>1, <2>2, <2>3, <2>6, <2>7
<1> QED
  BY <1>1, <1>2 DEF Cleaned

---------------------------------------------------------------------------
(* Pushing a folder.                                                       *)

\* the scripts of a folder by their base names
LEMMA ContentsIs ==
  ASSUME FilesOK, NEW k
  PROVE  /\ Contents(k) \in [Base -> Node \cup {Null}]
         /\ \A b \in Base : Contents(k)[b] # Null =>
              /\ Contents(k)[b] \in Node /\ folder[Contents(k)[b]] = k
              /\ baseName[Contents(k)[b]] = b
         /\ \A n \in Node : folder[n] = k => Contents(k)[baseName[n]] = n
<1> DEFINE Is(b, n) == n \in FilesOf(k) /\ baseName[n] = b
<1>1. \A b \in Base : Contents(k)[b] = IF \E n \in FilesOf(k) : baseName[n] = b
                                       THEN CHOOSE n \in FilesOf(k) : baseName[n] = b ELSE Null
  BY DEF Contents
<1>2. \A n \in FilesOf(k) : n \in Node /\ folder[n] = k
  BY DEF FilesOf
<1>3. \A b \in Base : \/ Contents(k)[b] = Null /\ ~\E n \in FilesOf(k) : baseName[n] = b
                     \/ Is(b, Contents(k)[b])
  BY <1>1
<1>4. ASSUME NEW n \in Node, folder[n] = k PROVE Contents(k)[baseName[n]] = n
  <2>1. Is(baseName[n], n) /\ baseName[n] \in Base
    BY <1>4, NodeType DEF FilesOf
  <2>2. Is(baseName[n], Contents(k)[baseName[n]])
    BY <1>3, <2>1
  <2> QED
    BY <1>2, <1>4, <2>1, <2>2 DEF FilesOK
<1>5. Contents(k) \in [Base -> Node \cup {Null}]
  <2>1. \A b \in Base : Contents(k)[b] \in Node \cup {Null}
    BY <1>2, <1>3
  <2> QED
    BY <2>1 DEF Contents
<1> QED
  BY <1>2, <1>3, <1>4, <1>5

\* Pushing a folder preserves the invariant.
LEMMA PushFolderInv == ASSUME NInv, PushFolder PROVE NInv'
<1> DEFINE path == folders[it].path
           maps == IF FilesOf(it) = {} THEN <<>> ELSE [p \in {path} |-> Contents(it)]
           D == DOMAIN maps
<1>1. /\ phase = "parse" /\ it' = it + 1 /\ UNCHANGED files /\ UNCHANGED <<phase, order, queued>>
      /\ objects' = CreateNamespaces(maps) /\ nodesToCleanUp' = AddToCleanUp(maps)
  BY DEF PushFolder
<1>2. FilesOK /\ Tree /\ Loop /\ Bindings /\ Held /\ Early /\ Cleaned /\ it \in Nat
  BY DEF NInv, Loop
<1>3. /\ \A p \in D : p = path /\ maps[p] = Contents(it) /\ \E n \in Node : folder[n] = it
      /\ \A n \in Node : folder[n] = it => Dir(n) = path /\ path \in D
      /\ \A p \in D : maps[p] = Contents(it)
  BY DEF FilesOf, Dir
<1>4. Fits(D, maps)
  <2>1. maps \in [D -> [Base -> Node \cup {Null}]]
    BY <1>2, ContentsIs
  <2> HIDE DEF maps
  <2> QED
    BY <1>3, <2>1 DEF Fits
<1> HIDE DEF maps, D
<1>5. ASSUME NEW p \in D, NEW b \in Base, maps[p][b] # Null
      PROVE  /\ maps[p][b] \in Node /\ folder[maps[p][b]] = it /\ ~Pushed(maps[p][b])
             /\ baseName[maps[p][b]] = b /\ Dir(maps[p][b]) = p
  <2>1. maps[p][b] = Contents(it)[b] /\ p = path
    BY <1>3
  <2>2. maps[p][b] \in Node /\ folder[maps[p][b]] = it /\ baseName[maps[p][b]] = b
    BY <1>2, <1>5, <2>1, ContentsIs
  <2> QED
    BY <1>1, <1>2, <1>3, <2>1, <2>2 DEF Pushed
<1>6. ASSUME NEW p \in D, NEW b \in Base, IsTemp(p) PROVE At(objects, p)[b] = Null
  <2>1. SUFFICES ASSUME p \in DOMAIN objects, objects[p][b] # Null PROVE FALSE
    BY DEF At, NoObjects
  <2>2. objects[p][b] \in Node /\ Dir(objects[p][b]) = p
    BY <1>2, <1>6, <2>1 DEF Tree, Bindings, Home
  <2>3. PICK n \in Node : folder[n] = it /\ Dir(n) = p
    BY <1>3
  <2>4. folder[objects[p][b]] = it
    BY <1>2, <1>6, <2>2, <2>3, Apart
  <2> QED
    BY <1>1, <1>2, <2>1, <2>2, <2>4 DEF Early, Pushed
<1>7. New(D, maps)
  <2>1. ASSUME NEW p \in D, NEW b \in Base, maps[p][b] # Null
        PROVE  /\ baseName[maps[p][b]] = b /\ Home(maps[p][b], p)
               /\ ~Stands(maps[p][b]) /\ maps[p][b] \notin nodesToCleanUp
    BY <1>2, <1>5, <2>1 DEF FilesOK, Home, Early
  <2> QED
    BY <1>6, <2>1 DEF New
<1>8. FilesOK' /\ Tree' /\ Bindings' /\ Cleaned'
  BY <1>1, <1>2, <1>4, <1>7, FilesStay, MergeTree, MergeCleaned
<1>9. Loop' /\ Erased' /\ Counted'
  BY <1>1 DEF NInv, Loop, Erased, Counted, OneTempStays
<1>10. ASSUME NEW n \in Node
       PROVE  /\ Pushed(n) <=> folder[n] < it
              /\ folder[n] \in Nat /\ n # Null
              /\ Pending(n) <=> IsTemp(Dir(n))
  BY <1>1, <1>2, NodeType DEF Pushed, Pending
<1>11. ASSUME NEW n \in Node, folder[n] < it + 1, IsTemp(Dir(n)) PROVE InTemp(n)'
  <2>1. Dir(n)' = Dir(n) /\ baseName'[n] = baseName[n] /\ baseName[n] \in Base
    BY <1>1, <1>2, NodeType DEF files, Dir
  <2>2. CASE folder[n] < it
    <3>1. InTemp(n)
      BY <1>2, <1>10, <1>11, <2>2 DEF Held
    <3>2. Dir(n) \notin D
      <4>1. SUFFICES ASSUME Dir(n) \in D PROVE FALSE
        OBVIOUS
      <4>2. PICK m \in Node : folder[m] = it /\ Dir(m) = Dir(n)
        BY <1>3, <4>1
      <4>3. folder[n] = it
        BY <1>2, <1>11, <4>2, Apart
      <4> QED
        BY <1>2, <2>2, <4>3
    <3> QED
      BY <1>1, <1>2, <1>4, <2>1, <3>1, <3>2, CreateGives DEF InTemp, At
  <2>3. CASE folder[n] = it
    <3>1. Dir(n) \in D /\ maps[Dir(n)][baseName[n]] = n /\ n # Null
      BY <1>2, <1>3, <2>3, ContentsIs, NodeType
    <3>2. At(objects, Dir(n))[baseName[n]] = Null
      BY <1>6, <1>11, <2>1, <3>1
    <3> QED
      BY <1>1, <1>2, <1>4, <2>1, <3>1, <3>2, CreateGives DEF InTemp
  <2> QED
    BY <1>2, <1>10, <1>11, <2>2, <2>3
<1>12. ASSUME NEW n \in Node, folder[n] < it + 1, ~IsTemp(Dir(n)) PROVE Placed(n)'
  <2>1. CASE folder[n] < it
    <3>1. Placed(n)
      BY <1>2, <1>10, <1>12, <2>1 DEF Held
    <3> QED
      BY <1>1, <1>2, <1>4, <3>1, MergePlaced
  <2>2. CASE folder[n] = it
    <3>1. Dir(n) \in D /\ maps[Dir(n)][baseName[n]] = n /\ n # Null /\ declared[n] = Dir(n)
      BY <1>2, <1>3, <1>12, <2>2, ContentsIs, NodeType DEF FilesOK
    <3> QED
      BY <1>1, <1>2, <1>4, <3>1, MergePlaced
  <2> QED
    BY <1>2, <1>10, <1>12, <2>1, <2>2
<1>13. Held'
  BY <1>1, <1>2, <1>11, <1>12, FilesStay DEF Held, Pushed, Pending, IsTemp
<1>14. ASSUME NEW n \in Node, ~(folder[n] < it + 1), NEW p \in DOMAIN objects', NEW b \in Base
       PROVE  objects'[p][b] # n
  <2>1. \A q \in DOMAIN objects, c \in Base : objects[q][c] # n
    BY <1>2, <1>10, <1>14 DEF Early
  <2>2. n # Null /\ folder[n] # it
    BY <1>2, <1>10, <1>14, NodeType
  <2>3. objects'[p][b] = At(objects, p)[b] \/ (p \in D /\ objects'[p][b] = maps[p][b])
    BY <1>1, <1>2, <1>4, CreateGives
  <2> QED
    BY <1>5, <2>1, <2>2, <2>3 DEF At, NoObjects
<1>15. ASSUME NEW n \in Node, IsTemp(Dir(n)) \/ ~(folder[n] < it + 1)
       PROVE  ~Stands(n)' /\ n \notin nodesToCleanUp'
  <2>1. ~Stands(n) /\ n \notin nodesToCleanUp /\ n # Null
    BY <1>2, <1>10, <1>15, NodeType DEF Early
  <2>2. ~\E p \in D, b \in Base : ~IsTemp(p) /\ maps[p][b] = n
    BY <1>2, <1>5, <1>10, <1>15, <2>1
  <2>3. ~Stands(n)'
    BY <1>1, <1>2, <1>4, <2>1, <2>2, MergeStands
  <2>4. n \notin nodesToCleanUp'
    BY <1>1, <1>2, <1>4, <1>7, <2>1, <2>2, LoserIs DEF Stands
  <2> QED
    BY <2>3, <2>4
<1>16. Early'
  BY <1>1, <1>2, <1>14, <1>15, FilesStay DEF Early, Pushed, Pending, IsTemp
<1> QED
  BY <1>8, <1>9, <1>13, <1>16 DEF NInv

---------------------------------------------------------------------------
(* Renaming a temporary child of the root.                                 *)

\* a set of naturals has a least element
LEMMA HasLeast ==
  ASSUME NEW S \in SUBSET Nat, S # {}
  PROVE  (\E m \in S : \A k \in S : m <= k) /\ Min(S) \in S
<1> DEFINE R == {r \in Nat \X Nat : r[1] < r[2]}
<1>1. PICK m \in S : \A k \in S : <<k, m>> \notin R
  <2> HIDE DEF R
  <2>1. IsWellFoundedOn(R, Nat)
    BY NatLessThanWellFounded DEF R, OpToRel
  <2> QED
    BY <2>1, WFMin
<1>2. \A k \in S : m <= k
  <2>1. \A k \in S : k < m => <<k, m>> \in R
    OBVIOUS
  <2>2. m \in Nat /\ \A k \in S : k \in Nat
    OBVIOUS
  <2> HIDE DEF R
  <2>3. \A k \in S : ~(k < m)
    BY <1>1, <2>1
  <2> QED
    BY <2>2, <2>3
<1>3. \E x \in S : \A y \in S : x <= y
  BY <1>2
<1>4. Min(S) \in S
  BY <1>3, Zenon DEF Min
<1> QED
  BY <1>3, <1>4

\* what FirstWith finds
LEMMA FirstWithIs ==
  ASSUME NEW S, NEW s \in Seq(S), NEW p, NEW b
  PROVE  LET k == FirstWith(s, p, b)
             Is(i) == objects[s[i]][b] # Null /\ declared[objects[s[i]][b]] = p
         IN \/ k = 0 /\ \A i \in 1 .. Len(s) : ~Is(i)
            \/ k \in 1 .. Len(s) /\ k # 0 /\ Is(k)
<1> DEFINE I == {i \in 1 .. Len(s) : objects[s[i]][b] # Null /\ declared[objects[s[i]][b]] = p}
<1>1. FirstWith(s, p, b) = IF I # {} THEN Min(I) ELSE 0
  BY DEF FirstWith, SelectInSeq
<1>2. I \in SUBSET Nat /\ 0 \notin I
  OBVIOUS
<1>3. I # {} => Min(I) \in I
  <2> HIDE DEF I
  <2> QED
    BY <1>2, HasLeast
<1>4. CASE I = {}
  <2>1. FirstWith(s, p, b) = 0
    BY <1>1, <1>4
  <2> QED
    BY <1>4, <2>1
<1>5. CASE I # {}
  <2>1. FirstWith(s, p, b) \in I
    BY <1>1, <1>3, <1>5
  <2> QED
    BY <1>2, <2>1
<1> QED
  BY <1>4, <1>5

\* tempRenameMap: below the declared namespaces of all scripts of a child, scripts of the child
\* that declare them.
LEMMA RenameMapIs ==
  ASSUME FilesOK, Tree, Bindings, NEW c \in Temp, NEW s, Lists(s, Subtree(<<c>>)),
         NEW maps, maps = RenameMap(s), NEW D, D = DOMAIN maps
  PROVE  /\ Fits(D, maps) /\ \A p \in D : ~IsTemp(p)
         /\ \A p \in D, b \in Base : maps[p][b] # Null =>
              LET m == maps[p][b]
              IN /\ m \in Node /\ baseName[m] = b /\ declared[m] = p
                 /\ IsTemp(Dir(m)) /\ Head(Dir(m)) = c
         /\ \A n \in Node : InTemp(n) /\ IsTemp(Dir(n)) /\ Head(Dir(n)) = c =>
              declared[n] \in D /\ maps[declared[n]][baseName[n]] # Null
<1> DEFINE found == {objects[s[i]][b] : i \in DOMAIN s, b \in Base} \ {Null}
           val(p, b) == IF FirstWith(s, p, b) = 0 THEN Null ELSE objects[s[FirstWith(s, p, b)]][b]
<1>1. s \in Seq(Subtree(<<c>>)) /\ DOMAIN s = 1 .. Len(s)
  BY DEF Lists
<1>2. \A q : q \in Subtree(<<c>>) <=> q \in DOMAIN objects /\ q # Root /\ Head(q) = c
  BY BelowChild, TreeFinite DEF Subtree
<1>3. \A i \in 1 .. Len(s) : s[i] \in DOMAIN objects /\ IsTemp(s[i]) /\ Head(s[i]) = c
  BY <1>1, <1>2 DEF IsTemp
<1>4. ASSUME NEW i \in 1 .. Len(s), NEW b \in Base, objects[s[i]][b] # Null
      PROVE  LET m == objects[s[i]][b]
             IN m \in Node /\ baseName[m] = b /\ Dir(m) = s[i]
  BY <1>3, <1>4 DEF Tree, Bindings, Home
<1>5. found \subseteq Node
  BY <1>1, <1>4
<1>6. /\ D = {declared[n] : n \in found}
      /\ \A p \in D : \A b \in Base : maps[p][b] = val(p, b)
      /\ maps = [p \in D |-> [b \in Base |-> val(p, b)]]
  BY DEF RenameMap
<1>7. ASSUME NEW p \in D, NEW b \in Base, maps[p][b] # Null
      PROVE  LET m == maps[p][b]
             IN /\ m \in Node /\ baseName[m] = b /\ declared[m] = p
                /\ IsTemp(Dir(m)) /\ Head(Dir(m)) = c
  <2> DEFINE k == FirstWith(s, p, b)
  <2>1. maps[p][b] = objects[s[k]][b] /\ k # 0
    BY <1>6, <1>7
  <2>2. k \in 1 .. Len(s) /\ declared[objects[s[k]][b]] = p
    BY <1>1, <2>1, FirstWithIs
  <2> HIDE DEF k
  <2> QED
    BY <1>3, <1>4, <1>7, <2>1, <2>2
<1>8. Fits(D, maps)
  <2>1. \A p \in D : \A b \in Base : maps[p][b] \in Node \cup {Null}
    BY <1>7
  <2> HIDE DEF val
  <2>2. \A p \in D : maps[p] = [b \in Base |-> val(p, b)]
    BY <1>6
  <2>3. \A p \in D : maps[p] \in [Base -> Node \cup {Null}]
    BY <2>1, <2>2
  <2>4. maps \in [D -> [Base -> Node \cup {Null}]]
    BY <1>6, <2>3
  <2>5. \A p \in D : \E n \in Node : p = declared[n]
    BY <1>5, <1>6
  <2> QED
    BY <2>4, <2>5 DEF Fits
<1>9. \A p \in D : ~IsTemp(p)
  BY <1>5, <1>6, NodeType
<1>10. ASSUME NEW n \in Node, InTemp(n), IsTemp(Dir(n)), Head(Dir(n)) = c
       PROVE  declared[n] \in D /\ maps[declared[n]][baseName[n]] # Null
  <2>1. Dir(n) \in Subtree(<<c>>)
    BY <1>2, <1>10 DEF InTemp, IsTemp
  <2>2. PICK i \in 1 .. Len(s) : s[i] = Dir(n)
    BY <2>1 DEF Lists
  <2>3. objects[s[i]][baseName[n]] = n /\ n # Null /\ baseName[n] \in Base
    BY <1>10, <2>2, NodeType DEF InTemp
  <2>4. n \in found
    BY <1>1, <2>3
  <2>5. declared[n] \in D
    BY <1>6, <2>4
  <2> DEFINE k == FirstWith(s, declared[n], baseName[n])
  <2>6. k \in 1 .. Len(s) /\ k # 0 /\ objects[s[k]][baseName[n]] # Null
    BY <1>1, <2>3, FirstWithIs
  <2> QED
    BY <1>6, <2>3, <2>5, <2>6
<1> QED
  BY <1>7, <1>8, <1>9, <1>10

\* The children still to come are the same, but for the one just renamed: what is inserted
\* leaves the others in their order.
LEMMA AheadAfter ==
  ASSUME NEW S, NEW S2, Lists(order, S), Lists(order', S2), KeepsOrder(order'),
         it \in 1 .. Len(order), NEW i \in 1 .. Len(order'), order'[i] = order[it], it' = i + 1,
         NEW d \in S, d \in S2
  PROVE  (\E k \in 1 .. Len(order') : k >= it' /\ order'[k] = d) <=> Ahead(d) /\ d # order[it]
<1>1. PICK j \in 1 .. Len(order) : order[j] = d
  BY DEF Lists
<1>2. PICK k \in 1 .. Len(order') : order'[k] = d
  BY DEF Lists
<1>3. DOMAIN order = 1 .. Len(order) /\ DOMAIN order' = 1 .. Len(order')
  BY DEF Lists
<1>4. Ahead(d) <=> j >= it
  BY <1>1 DEF Ahead, Lists
<1>5. (\E l \in 1 .. Len(order') : l >= it' /\ order'[l] = d) <=> k >= it'
  BY <1>2 DEF Lists
<1>6. CASE j = it
  <2>1. k = i
    BY <1>1, <1>2, <1>6 DEF Lists
  <2> QED
    BY <1>1, <1>5, <1>6, <2>1
<1>7. CASE j > it
  <2>1. i < k
    BY <1>1, <1>2, <1>3, <1>7 DEF KeepsOrder
  <2>2. d # order[it]
    <3>1. j # it
      BY <1>7
    <3> QED
      BY <1>1, <3>1, Zenon DEF Lists
  <2> QED
    BY <1>4, <1>5, <1>7, <2>1, <2>2
<1>8. CASE j < it
  <2>1. k < i
    BY <1>1, <1>2, <1>3, <1>8 DEF KeepsOrder
  <2> QED
    BY <1>4, <1>5, <1>8, <2>1
<1> QED
  BY <1>6, <1>7, <1>8

\* Renaming a child preserves the invariant.
LEMMA RenameChildInv == ASSUME NInv, ~MayRehash, RenameChild PROVE NInv'
<1> DEFINE c == order[it]
<1>1. /\ phase = "rename" /\ it \in DOMAIN order /\ c \in Temp /\ UNCHANGED files
      /\ UNCHANGED <<phase, queued>> /\ order' \in Reordered(objects')
  BY DEF RenameChild
<1>2. FilesOK /\ Tree /\ Loop /\ Bindings /\ Held /\ Early /\ Cleaned
  BY DEF NInv
<1>3. PICK s \in Visits(<<c>>) : /\ objects' = CreateNamespaces(RenameMap(s))
                                 /\ nodesToCleanUp' = AddToCleanUp(RenameMap(s))
  BY DEF RenameChild
<1>4. PICK i \in DOMAIN order' : order'[i] = c /\ it' = i + 1
  BY DEF RenameChild
<1> DEFINE maps == RenameMap(s)
           D == DOMAIN maps
<1>5. Lists(s, Subtree(<<c>>))
  <2>1. IsFiniteSet(Subtree(<<c>>))
    BY <1>2, TreeFinite, FS_Subset DEF Subtree
  <2>2. s \in SetToSeqs(Subtree(<<c>>))
    BY <1>3 DEF Visits
  <2> QED
    BY <2>1, <2>2, SetToSeqsLists
<1>6. objects' = CreateNamespaces(maps) /\ nodesToCleanUp' = AddToCleanUp(maps)
  BY <1>3
<1> HIDE DEF maps
<1>7. /\ Fits(D, maps) /\ \A p \in D : ~IsTemp(p)
      /\ \A p \in D, b \in Base : maps[p][b] # Null =>
           LET m == maps[p][b]
           IN /\ m \in Node /\ baseName[m] = b /\ declared[m] = p
              /\ IsTemp(Dir(m)) /\ Head(Dir(m)) = c
      /\ \A n \in Node : InTemp(n) /\ IsTemp(Dir(n)) /\ Head(Dir(n)) = c =>
           declared[n] \in D /\ maps[declared[n]][baseName[n]] # Null
  BY <1>1, <1>2, <1>5, RenameMapIs DEF maps
<1> HIDE DEF D
<1>8. it \in 1 .. Len(order) /\ Lists(order, RootChildren(objects))
  BY <1>1, <1>2 DEF Loop, Lists
<1>9. \A n \in Node : /\ Pushed(n) /\ n # Null /\ baseName[n] \in Base
                      /\ Pending(n) <=> IsTemp(Dir(n)) /\ Ahead(Head(Dir(n)))
  BY <1>1, <1>2, NodeType DEF Pushed, Pending
<1>10. \A n \in Node : IsTemp(Dir(n)) /\ Head(Dir(n)) = c => Pending(n)
  <2>1. Ahead(c)
    BY <1>8 DEF Ahead
  <2> QED
    BY <1>9, <2>1
<1>11. \A n \in Node : Pending(n) => InTemp(n) /\ ~Stands(n) /\ n \notin nodesToCleanUp
  BY <1>2, <1>9 DEF Held, Early
<1>12. New(D, maps)
  BY <1>7, <1>10, <1>11 DEF New, Home
<1>13. FilesOK' /\ Tree' /\ Bindings' /\ Cleaned'
  BY <1>1, <1>2, <1>6, <1>7, <1>12, FilesStay, MergeTree, MergeCleaned
<1>14. DOMAIN objects' \subseteq Known
  BY <1>2, <1>6, <1>7, CreateGives
<1>15. Lists(order', RootChildren(objects')) /\ KeepsOrder(order')
  <2>1. IsFiniteSet(RootChildren(objects'))
    BY <1>2, <1>14, ChildrenFinite
  <2>2. order' \in SetToSeqs(RootChildren(objects')) /\ KeepsOrder(order')
    BY <1>1 DEF Reordered
  <2> QED
    BY <2>1, <2>2, SetToSeqsLists
<1>16. \A d \in Temp : d \in RootChildren(objects') <=> d \in RootChildren(objects)
  <2>1. DOMAIN objects \subseteq DOMAIN objects'
    BY <1>2, <1>6, <1>7, CreateGives
  <2>2. ASSUME NEW p \in DOMAIN objects', p \notin DOMAIN objects, p # Root
        PROVE  Head(p) \notin Temp
    <3>1. PICK q \in D : p \in Prefixes(q)
      BY <1>2, <1>6, <1>7, <2>2, CreateGives
    <3>2. q \in Path
      BY <1>2, <1>7, NodeType DEF Fits
    <3>3. q # Root /\ Head(p) = Head(q)
      BY <2>2, <3>1, <3>2, PrefixesOf
    <3> QED
      BY <1>7, <3>3 DEF IsTemp
  <2> QED
    BY <2>1, <2>2 DEF RootChildren
<1>17. ASSUME NEW d \in Temp
       PROVE  (\E k \in 1 .. Len(order') : k >= it' /\ order'[k] = d) <=> Ahead(d) /\ d # c
  <2>1. CASE d \in RootChildren(objects)
    <3>1. i \in 1 .. Len(order') /\ d \in RootChildren(objects')
      BY <1>4, <1>15, <1>16, <2>1 DEF Lists
    <3> QED
      BY <1>4, <1>8, <1>15, <2>1, <3>1, AheadAfter
  <2>2. CASE d \notin RootChildren(objects)
    <3>1. order \in Seq(RootChildren(objects)) /\ order' \in Seq(RootChildren(objects'))
      BY <1>8, <1>15 DEF Lists
    <3>2. /\ \A k \in 1 .. Len(order) : order[k] \in RootChildren(objects)
          /\ \A k \in 1 .. Len(order') : order'[k] \in RootChildren(objects')
      BY <3>1, ElementOfSeq
    <3>3. d \notin RootChildren(objects')
      BY <1>16, <2>2
    <3> QED
      BY <2>2, <3>2, <3>3 DEF Ahead
  <2> QED
    BY <2>1, <2>2
<1>18. Loop'
  <2>1. it' \in Nat \ {0}
    BY <1>4, <1>15 DEF Lists
  <2> QED
    BY <1>15, <2>1 DEF Loop
<1> DEFINE Still(n) == Pending(n) /\ Head(Dir(n)) # c
<1>19. ASSUME NEW n \in Node
       PROVE  Still(n) <=>
                /\ IsTemp(Dir(n))
                /\ \E k \in 1 .. Len(order') : k >= it' /\ order'[k] = Head(Dir(n))
  BY <1>9, <1>17 DEF IsTemp
<1>20. ASSUME NEW n \in Node, Still(n) PROVE InTemp(n)' /\ ~Stands(n)' /\ n \notin nodesToCleanUp'
  <2>1. Dir(n)' = Dir(n) /\ baseName'[n] = baseName[n] /\ IsTemp(Dir(n))
    BY <1>1, <1>9, <1>20 DEF files, Dir
  <2>2. InTemp(n)'
    <3>1. InTemp(n) /\ Dir(n) \notin D
      BY <1>7, <1>11, <1>20, <2>1
    <3> QED
      BY <1>2, <1>6, <1>7, <1>9, <2>1, <3>1, CreateGives DEF InTemp, At
  <2>3. ~Stands(n) /\ n \notin nodesToCleanUp
    BY <1>11, <1>20
  <2>4. ~\E p \in D, b \in Base : maps[p][b] = n
    BY <1>7, <1>9, <1>20
  <2>5. ~Stands(n)'
    BY <1>2, <1>6, <1>7, <2>3, <2>4, MergeStands
  <2>6. n \notin nodesToCleanUp'
    BY <1>2, <1>6, <1>7, <1>12, <2>3, <2>4, LoserIs DEF Stands
  <2> QED
    BY <2>2, <2>5, <2>6
<1>21. ASSUME NEW n \in Node, ~Still(n) PROVE Placed(n)'
  <2>1. CASE Pending(n)
    <3>1. IsTemp(Dir(n)) /\ Head(Dir(n)) = c /\ InTemp(n)
      BY <1>9, <1>11, <1>21, <2>1
    <3>2. declared[n] \in D /\ maps[declared[n]][baseName[n]] # Null
      BY <1>7, <3>1
    <3>3. Kind(maps[declared[n]][baseName[n]]) = Kind(n)
      BY <1>2, <1>7, <1>9, <3>1, <3>2, Apart
    <3> QED
      BY <1>1, <1>2, <1>6, <1>7, <3>2, <3>3, MergePlaced
  <2>2. CASE ~Pending(n)
    <3>1. Placed(n)
      BY <1>2, <1>9, <2>2 DEF Held
    <3> QED
      BY <1>1, <1>2, <1>6, <1>7, <3>1, MergePlaced
  <2> QED
    BY <2>1, <2>2
<1> HIDE DEF Still
<1>22. Held'
  BY <1>1, <1>2, <1>19, <1>20, <1>21, FilesStay DEF Held, Pushed, Pending, IsTemp, Ahead
<1>23. Early'
  BY <1>1, <1>2, <1>19, <1>20, FilesStay DEF Early, Pushed, Pending, IsTemp, Ahead
<1>24. Erased' /\ Counted'
  BY <1>1 DEF NInv, Erased, Counted, OneTempStays
<1> QED
  BY <1>13, <1>18, <1>22, <1>23, <1>24 DEF NInv

---------------------------------------------------------------------------
(* The steps between renaming and erasing.                                 *)

\* Coming to the loop over the children, whatever order they are in, preserves the invariant:
\* all folders are pushed, and all temporary namespaces still to come.
LEMMA StartRenameInv == ASSUME NInv, StartRename PROVE NInv'
<1>1. /\ phase = "parse" /\ phase' = "rename" /\ it \notin DOMAIN folders /\ it' = 1
      /\ order' \in SetToSeqs(RootChildren(objects))
      /\ UNCHANGED files /\ UNCHANGED <<objects, nodesToCleanUp, queued>>
  BY DEF StartRename
<1>2. FilesOK /\ Tree /\ Loop /\ Bindings /\ Held /\ Early /\ Cleaned
  BY DEF NInv
<1>3. Lists(order', RootChildren(objects))
  BY <1>1, <1>2, TreeFinite, SetToSeqsLists
<1>4. \A n \in Node : Pushed(n)
  <2>1. DOMAIN folders = 1 .. Len(folders)
    BY <1>2, NamespaceAssumption DEF FilesOK
  <2> QED
    BY <1>1, <1>2, <2>1, NodeType DEF Pushed, Loop
<1>5. \A n \in Node : IF IsTemp(Dir(n)) THEN InTemp(n) ELSE Placed(n)
  BY <1>1, <1>2, <1>4 DEF Held, Pending
<1>6. ASSUME NEW n \in Node, IsTemp(Dir(n))
      PROVE  \E k \in 1 .. Len(order') : k >= 1 /\ order'[k] = Head(Dir(n))
  <2>1. Head(Dir(n)) \in RootChildren(objects)
    BY <1>5, <1>6 DEF InTemp, IsTemp, RootChildren
  <2> QED
    BY <1>3, <2>1 DEF Lists
<1>7. FilesOK' /\ Tree' /\ Loop' /\ Bindings' /\ Cleaned'
  BY <1>1, <1>2, <1>3, FilesStay DEF Tree, Loop, Bindings, Cleaned, Stands, IsTemp
<1>8. Held'
  <2>1. \A n \in Node : (InTemp(n) => InTemp(n)') /\ (Placed(n) => Placed(n)')
    BY <1>1 DEF files, InTemp, Placed, At, Dir, Kind
  <2>2. ASSUME NEW n \in Node
        PROVE  Pending(n)' <=> IsTemp(Dir(n))
    BY <1>1, <1>6 DEF Pending, Ahead, files, Dir, IsTemp
  <2> QED
    BY <1>5, <2>1, <2>2 DEF Held
<1>9. Early'
  BY <1>1, <1>2, <1>4, FilesStay DEF Early, Pending, Pushed, Stands, IsTemp
<1>10. Erased' /\ Counted'
  BY <1>1 DEF NInv, Erased, Counted, OneTempStays
<1> QED
  BY <1>7, <1>8, <1>9, <1>10 DEF NInv

\* So does going on from one that stays.
LEMMA SkipChildInv == ASSUME NInv, SkipChild PROVE NInv'
<1>1. /\ phase = "rename" /\ it \in DOMAIN order /\ order[it] \notin Temp /\ it' = it + 1
      /\ UNCHANGED files /\ UNCHANGED <<objects, nodesToCleanUp, phase, order, queued>>
  BY DEF SkipChild
<1>2. FilesOK /\ Tree /\ Loop /\ Bindings /\ Held /\ Early /\ Cleaned
  BY DEF NInv
<1>3. ASSUME NEW d \in Temp
      PROVE  Ahead(d) <=> \E j \in 1 .. Len(order) : j >= it + 1 /\ order[j] = d
  BY <1>1, <1>2 DEF Ahead, Loop
<1>4. \A n \in Node : Pushed(n) /\ (Pending(n) <=> IsTemp(Dir(n)) /\ Ahead(Head(Dir(n))))
  BY <1>1 DEF Pushed, Pending
<1>5. FilesOK' /\ Tree' /\ Loop' /\ Bindings' /\ Cleaned'
  BY <1>1, <1>2, FilesStay DEF Tree, Loop, Bindings, Cleaned, Stands, IsTemp
<1>6. ASSUME NEW n \in Node PROVE Pending(n)' <=> Pending(n)
  <2>1. IsTemp(Dir(n)) =>
          (Ahead(Head(Dir(n))) <=> \E j \in 1 .. Len(order) : j >= it + 1 /\ order[j] = Head(Dir(n)))
    BY <1>3 DEF IsTemp
  <2>2. Pending(n)' <=> /\ IsTemp(Dir(n))
                        /\ \E j \in 1 .. Len(order) : j >= it + 1 /\ order[j] = Head(Dir(n))
    BY <1>1 DEF Pending, Ahead, files, Dir, IsTemp
  <2> QED
    BY <1>4, <2>1, <2>2
<1>7. Held'
  <2>1. \A n \in Node : (InTemp(n) => InTemp(n)') /\ (Placed(n) => Placed(n)')
    BY <1>1 DEF files, InTemp, Placed, At, Dir, Kind
  <2> QED
    BY <1>2, <1>4, <1>6, <2>1 DEF Held
<1>8. Early'
  <2>1. \A n \in Node : Stands(n)' => Stands(n)
    BY <1>1 DEF Stands, IsTemp
  <2>2. \A n \in Node : Pushed(n)'
    BY <1>1 DEF Pushed
  <2> QED
    BY <1>1, <1>2, <1>4, <1>6, <2>1, <2>2 DEF Early
<1>9. Erased' /\ Counted'
  BY <1>1 DEF NInv, Erased, Counted, OneTempStays
<1> QED
  BY <1>5, <1>7, <1>8, <1>9 DEF NInv

\* What the phases after renaming keep of the invariant: no script is pending, and each is placed.
Settled == \A n \in Node : Placed(n)

\* A step of these phases that keeps what stands in the namespaces that are not temporary, and
\* the other objects it keeps, preserves the invariant but for the loop.
LEMMA SettledInv ==
  ASSUME FilesOK, Tree, Bindings, Cleaned, Settled, UNCHANGED files, UNCHANGED nodesToCleanUp,
         phase' \notin {"parse", "rename"},
         DOMAIN objects' \subseteq DOMAIN objects,
         objects' = [p \in DOMAIN objects' |-> objects[p]],
         \A p \in DOMAIN objects : ~IsTemp(p) => p \in DOMAIN objects'
  PROVE  FilesOK' /\ Tree' /\ Bindings' /\ Held' /\ Early' /\ Cleaned'
<1>1. FilesOK' /\ Tree' /\ Bindings' /\ Cleaned'
  BY FilesStay DEF Tree, Bindings, Cleaned, Stands, IsTemp
<1>2. ASSUME NEW n \in Node PROVE Placed(n)'
  <2>1. At(objects, declared[n]) = At(objects', declared[n])
    BY NodeType DEF At
  <2> QED
    BY <2>1 DEF Settled, Placed, files, Kind
<1>3. \A n \in Node : Pushed(n)' /\ ~Pending(n)'
  BY DEF Pushed, Pending
<1> QED
  BY <1>1, <1>2, <1>3 DEF Held, Early

\* Without children ahead, or after them, all scripts are placed.
LEMMA IsSettled ==
  ASSUME NInv, \/ phase \notin {"parse", "rename"}
               \/ phase = "rename" /\ it \notin DOMAIN order
  PROVE  Settled
<1>1. Held /\ Loop
  BY DEF NInv
<1>2. \A c : phase = "rename" => ~Ahead(c)
  BY <1>1 DEF Ahead, Loop, Lists
<1> QED
  BY <1>1, <1>2 DEF Held, Settled, Pushed, Pending

\* The loop that erases begins.
LEMMA StartEraseInv == ASSUME NInv, StartErase PROVE NInv'
<1>1. /\ phase = "rename" /\ it \notin DOMAIN order /\ phase' = "erase" /\ it' = 1
      /\ UNCHANGED files /\ UNCHANGED <<objects, nodesToCleanUp, order, queued>>
  BY DEF StartErase
<1>2. FilesOK /\ Tree /\ Loop /\ Bindings /\ Cleaned /\ Settled
  BY <1>1, IsSettled DEF NInv
<1>3. FilesOK' /\ Tree' /\ Bindings' /\ Held' /\ Early' /\ Cleaned'
  <2>1. objects' = [p \in DOMAIN objects' |-> objects[p]]
    BY <1>1, <1>2 DEF Tree
  <2> QED
    BY <1>1, <1>2, <2>1, SettledInv
<1>4. Loop' /\ Erased' /\ Counted'
  BY <1>1, <1>2 DEF NInv, Loop, Erased, Counted, OneTempStays
<1> QED
  BY <1>3, <1>4 DEF NInv

---------------------------------------------------------------------------
(* Erasing.                                                                *)

\* A listing without one of its elements.
LEMMA RemoveAtLists ==
  ASSUME NEW S, NEW o, Lists(o, S), NEW k \in 1 .. Len(o)
  PROVE  Lists(RemoveAt(o, k), S \ {o[k]})
<1> DEFINE a == SubSeq(o, 1, k - 1)
           z == SubSeq(o, k + 1, Len(o))
           r == RemoveAt(o, k)
<1>1. o \in Seq(S) /\ Len(o) \in Nat /\ k \in Nat
  BY DEF Lists
<1>2. /\ a \in Seq(S) /\ Len(a) = k - 1 /\ \A i \in 1 .. k - 1 : a[i] = o[i]
      /\ z \in Seq(S) /\ Len(z) = Len(o) - k /\ \A i \in 1 .. Len(o) - k : z[i] = o[k + i]
  BY <1>1
<1> HIDE DEF a, z
<1>3. /\ r \in Seq(S) /\ Len(r) = Len(o) - 1
      /\ \A i \in 1 .. Len(o) - 1 : r[i] = IF i < k THEN o[i] ELSE o[i + 1]
  <2>1. r = a \o z
    BY DEF RemoveAt, a, z
  <2>2. /\ a \o z \in Seq(S) /\ Len(a \o z) = Len(o) - 1
        /\ \A i \in 1 .. Len(o) - 1 : (a \o z)[i] = IF i <= k - 1 THEN a[i] ELSE z[i - (k - 1)]
    <3>1. /\ a \o z \in Seq(S) /\ Len(a \o z) = Len(a) + Len(z)
          /\ \A i \in 1 .. Len(a) + Len(z) :
               (a \o z)[i] = IF i <= Len(a) THEN a[i] ELSE z[i - Len(a)]
      BY <1>2, ConcatProperties
    <3>2. Len(a) + Len(z) = Len(o) - 1
      BY <1>1, <1>2
    <3> QED
      BY <1>2, <3>1, <3>2
  <2> HIDE DEF r
  <2>3. ASSUME NEW i \in 1 .. Len(o) - 1 PROVE r[i] = IF i < k THEN o[i] ELSE o[i + 1]
    <3>1. CASE i < k
      BY <1>1, <1>2, <2>1, <2>2, <3>1
    <3>2. CASE ~(i < k)
      <4>1. i - (k - 1) \in 1 .. Len(o) - k /\ k + (i - (k - 1)) = i + 1 /\ ~(i <= k - 1)
        BY <1>1, <3>2
      <4>2. r[i] = z[i - (k - 1)]
        BY <1>1, <2>1, <2>2, <4>1
      <4> QED
        BY <1>2, <3>2, <4>1, <4>2
    <3> QED
      BY <3>1, <3>2
  <2> QED
    BY <1>1, <2>1, <2>2, <2>3
<1> HIDE DEF r
<1> DEFINE at(l) == IF l < k THEN l ELSE l + 1
<1>4. \A l \in 1 .. Len(r) : at(l) \in 1 .. Len(o) /\ at(l) # k /\ r[l] = o[at(l)]
  BY <1>1, <1>3
<1>5. ASSUME NEW i \in 1 .. Len(r), NEW j \in 1 .. Len(r), r[i] = r[j] PROVE i = j
  <2>1. at(i) = at(j)
    <3> HIDE DEF at
    <3>1. at(i) \in 1 .. Len(o) /\ at(j) \in 1 .. Len(o) /\ o[at(i)] = o[at(j)]
      BY <1>4, <1>5
    <3>2. \A x, y \in 1 .. Len(o) : o[x] = o[y] => x = y
      BY DEF Lists
    <3> QED
      BY <3>1, <3>2, Zenon
  <2> QED
    BY <1>1, <1>3, <2>1
<1>6. \A i \in 1 .. Len(r) : r[i] \in S \ {o[k]}
  <2>1. SUFFICES ASSUME NEW i \in 1 .. Len(r) PROVE r[i] \in S /\ r[i] # o[k]
    OBVIOUS
  <2>2. r[i] \in S
    BY <1>3, ElementOfSeq
  <2>3. r[i] # o[k]
    <3> HIDE DEF at
    <3>1. at(i) \in 1 .. Len(o) /\ at(i) # k /\ r[i] = o[at(i)]
      BY <1>4
    <3>2. \A x, y \in 1 .. Len(o) : o[x] = o[y] => x = y
      BY DEF Lists
    <3> QED
      BY <3>1, <3>2, Zenon
  <2> QED
    BY <2>2, <2>3
<1>7. ASSUME NEW d \in S \ {o[k]} PROVE \E i \in 1 .. Len(r) : r[i] = d
  <2>1. PICK j \in 1 .. Len(o) : o[j] = d
    BY DEF Lists
  <2>2. CASE j < k
    BY <1>1, <1>3, <2>1, <2>2
  <2>3. CASE j > k
    <3>1. j - 1 \in 1 .. Len(r) /\ r[j - 1] = o[j]
      BY <1>1, <1>3, <2>3
    <3> QED
      BY <2>1, <3>1
  <2> QED
    BY <1>1, <2>1, <2>2, <2>3
<1>8. r \in Seq(S \ {o[k]})
  BY <1>3, <1>6
<1> QED
  BY <1>5, <1>7, <1>8 DEF Lists, r

\* A temporary child of the root is the namespace of a folder that was pushed.
LEMMA TempPushed ==
  ASSUME FilesOK, Tree, NEW c \in Temp \cap RootChildren(objects), NEW t, t # c
  PROVE  Others(t)
<1>1. PICK p \in DOMAIN objects : p # Root /\ Head(p) = c
  BY DEF RootChildren
<1>2. PICK n \in Node : p \in Prefixes(declared[n]) \/ p \in Prefixes(Dir(n))
  BY <1>1 DEF Tree, Known
<1>3. p \notin Prefixes(declared[n])
  BY <1>1, NodeType, PrefixesOf DEF IsTemp
<1>4. Dir(n) \in Path /\ Dir(n) # Root /\ Head(Dir(n)) = c
  BY <1>1, <1>2, <1>3, NodeType, PrefixesOf
<1>5. folder[n] \in DOMAIN folders
  BY DEF FilesOK
<1> QED
  BY <1>4, <1>5 DEF Others, IsTemp, Dir

\* Erasing a temporary child preserves the invariant.
LEMMA EraseTempInv == ASSUME NInv, EraseTemp PROVE NInv'
<1> DEFINE c == order[it]
<1>1. /\ phase = "erase" /\ it \in DOMAIN order /\ c \in Temp
      /\ objects' = WithoutChild(c) /\ order' = RemoveAt(order, it)
      /\ phase' \in {"erase", "compile"} /\ it' \in {1, 2}
      /\ UNCHANGED files /\ UNCHANGED <<nodesToCleanUp, queued>>
  BY DEF EraseTemp
<1>2. FilesOK /\ Tree /\ Loop /\ Bindings /\ Cleaned /\ Settled
  BY <1>1, IsSettled DEF NInv
<1>3. FilesOK' /\ Tree' /\ Bindings' /\ Held' /\ Early' /\ Cleaned'
  <2>1. /\ DOMAIN objects' \subseteq DOMAIN objects
        /\ objects' = [p \in DOMAIN objects' |-> objects[p]]
        /\ \A p \in DOMAIN objects : ~IsTemp(p) => p \in DOMAIN objects'
    BY <1>1 DEF WithoutChild, IsTemp
  <2> QED
    BY <1>1, <1>2, <2>1, SettledInv
<1>4. RootChildren(objects') = RootChildren(objects) \ {c}
  BY <1>1 DEF WithoutChild, RootChildren
<1>5. /\ it \in 1 .. Len(order) /\ Lists(order, RootChildren(objects))
      /\ Lists(order', RootChildren(objects'))
  <2>1. it \in 1 .. Len(order) /\ Lists(order, RootChildren(objects))
    BY <1>1, <1>2 DEF Loop, Lists
  <2> QED
    BY <1>1, <1>4, <2>1, RemoveAtLists
<1>6. Loop'
  BY <1>1, <1>5 DEF Loop
<1>7. ASSUME NEW j \in 1 .. Len(order'), order'[j] \in Temp PROVE Others(order'[j])
  <2>1. order' \in Seq(RootChildren(objects'))
    BY <1>5 DEF Lists
  <2>2. order'[j] \in RootChildren(objects')
    BY <1>7, <2>1, ElementOfSeq
  <2>3. order \in Seq(RootChildren(objects))
    BY <1>5 DEF Lists
  <2>4. c \in RootChildren(objects) /\ c # order'[j]
    BY <1>4, <1>5, <2>2, <2>3, ElementOfSeq
  <2> QED
    BY <1>1, <1>2, <2>4, TempPushed
<1>8. Erased'
  <2>1. CASE order' = <<>>
    <3>1. phase' = "compile" /\ RootChildren(objects') = {}
      BY <1>1, <1>5, <2>1 DEF Lists, EraseTemp
    <3> QED
      BY <3>1 DEF Erased, OneTempStays, TempsLeft
  <2>2. CASE order' # <<>>
    <3>1. phase' = "erase" /\ it' = 2
      BY <1>1, <2>2 DEF EraseTemp
    <3>2. Len(order') \in Nat
      BY <1>5 DEF Lists
    <3>3. ASSUME NEW j \in 1 .. Len(order'), order'[j] \in Temp
          PROVE  j >= it' \/ (j = 1 /\ Others(order[j])')
      <4>1. Others(order[j])'
        BY <1>1, <1>7, <3>3 DEF Others, IsTemp, files
      <4> QED
        BY <3>1, <3>2, <4>1
    <3> QED
      BY <3>1, <3>3 DEF Erased, OneTempStays
  <2> QED
    BY <2>1, <2>2
<1>9. Counted'
  BY <1>1 DEF NInv, Counted
<1> QED
  BY <1>3, <1>6, <1>8, <1>9 DEF NInv

\* So does going on from a child that stays, and coming to the end of the loop: what it leaves
\* behind is the first child.
LEMMA KeepChildInv == ASSUME NInv, KeepChild \/ EndErase PROVE NInv'
<1>1. /\ phase = "erase" /\ UNCHANGED files
      /\ UNCHANGED <<objects, nodesToCleanUp, order, queued>>
      /\ \/ it \in DOMAIN order /\ order[it] \notin Temp /\ it' = it + 1 /\ phase' = "erase"
         \/ it \notin DOMAIN order /\ phase' = "compile" /\ it' = 1
  BY DEF KeepChild, EndErase
<1>2. FilesOK /\ Tree /\ Loop /\ Bindings /\ Cleaned /\ Settled
  BY <1>1, IsSettled DEF NInv
<1>3. FilesOK' /\ Tree' /\ Bindings' /\ Held' /\ Early' /\ Cleaned'
  <2>1. objects' = [p \in DOMAIN objects' |-> objects[p]]
    BY <1>1, <1>2 DEF Tree
  <2> QED
    BY <1>1, <1>2, <2>1, SettledInv
<1>4. Loop' /\ Counted'
  BY <1>1, <1>2 DEF NInv, Loop, Counted
<1>5. Lists(order, RootChildren(objects)) /\ it \in Nat \ {0} /\ DOMAIN order = 1 .. Len(order)
  BY <1>1, <1>2 DEF Loop, Lists
<1>6. \A j \in 1 .. Len(order) : order[j] \in Temp => j >= it \/ (j = 1 /\ Others(order[j]))
  BY <1>1 DEF NInv, Erased
<1>7. CASE it \in DOMAIN order /\ order[it] \notin Temp /\ it' = it + 1 /\ phase' = "erase"
  <2>1. ASSUME NEW j \in 1 .. Len(order), order[j] \in Temp
        PROVE  j >= it + 1 \/ (j = 1 /\ Others(order[j])')
    <3>1. CASE j >= it
      <4>1. j # it
        BY <1>7, <2>1
      <4> QED
        BY <1>5, <3>1, <4>1
    <3>2. CASE j = 1 /\ Others(order[j])
      BY <1>1, <1>2, <3>2, FilesStay
    <3> QED
      BY <1>6, <2>1, <3>1, <3>2
  <2>2. Erased'
    BY <1>1, <1>7, <2>1 DEF Erased, OneTempStays
  <2> QED
    BY <1>3, <1>4, <2>2 DEF NInv
<1>8. CASE it \notin DOMAIN order /\ phase' = "compile" /\ it' = 1
  <2>1. ASSUME NEW t \in RootChildren(objects) \cap Temp PROVE order[1] = t /\ Others(t)
    <3>1. PICK j \in 1 .. Len(order) : order[j] = t
      BY <1>5 DEF Lists
    <3>2. ~(j >= it)
      BY <1>5, <1>8, <3>1 DEF Lists
    <3> QED
      BY <1>6, <3>1, <3>2
  <2>2. Erased'
    <3>1. \A t \in TempsLeft' : order'[1] = t /\ Others(t)'
      BY <1>1, <1>2, <2>1, FilesStay DEF TempsLeft, RootChildren
    <3> QED
      BY <1>8, <3>1 DEF Erased, OneTempStays
  <2> QED
    BY <1>3, <1>4, <2>2 DEF NInv
<1> QED
  BY <1>1, <1>7, <1>8

\* So does queueing the jobs.
LEMMA QueueCompileInv == ASSUME NInv, QueueCompile PROVE NInv'
<1>1. /\ phase = "compile" /\ phase' = "done" /\ UNCHANGED files
      /\ UNCHANGED <<objects, nodesToCleanUp, it, order>>
      /\ queued' = [n \in Node |-> Cardinality({p \in DOMAIN objects :
                      objects[p][baseName[n]] = n /\ Kind(n) = "compile"})]
  BY DEF QueueCompile
<1>2. FilesOK /\ Tree /\ Loop /\ Bindings /\ Cleaned /\ Settled
  BY <1>1, IsSettled DEF NInv
<1>3. FilesOK' /\ Tree' /\ Bindings' /\ Held' /\ Early' /\ Cleaned'
  <2>1. objects' = [p \in DOMAIN objects' |-> objects[p]]
    BY <1>1, <1>2 DEF Tree
  <2> QED
    BY <1>1, <1>2, <2>1, SettledInv
<1>4. Loop'
  BY <1>1, <1>2 DEF Loop
<1>5. Erased'
  <2>1. OneTempStays
    BY DEF NInv, Erased
  <2>2. \A t \in TempsLeft' : order'[1] = t /\ Others(t)'
    BY <1>1, <1>2, <2>1, FilesStay DEF TempsLeft, RootChildren, OneTempStays
  <2> QED
    BY <1>1, <2>2 DEF Erased, OneTempStays
<1>6. Counted'
  BY <1>1 DEF Counted, files, Kind
<1> QED
  BY <1>3, <1>4, <1>5, <1>6 DEF NInv

\* Nothing is pushed at first.
LEMMA InitNInv == ASSUME Init PROVE NInv
<1>1. FilesOK /\ objects = [p \in {Root} |-> NoObjects] /\ it = 1 /\ phase = "parse"
      /\ nodesToCleanUp = {} /\ queued = [n \in Node |-> 0]
  BY DEF Init, FilesOK, Dir
<1>2. \A p \in DOMAIN objects, b \in Base : objects[p][b] = Null
  BY <1>1 DEF NoObjects
<1>3. Tree
  BY <1>1 DEF Tree, NoObjects, Known
<1>4. Loop /\ Bindings /\ Cleaned /\ Erased /\ Counted
  BY <1>1, <1>2 DEF Loop, Bindings, Cleaned, Erased, OneTempStays, Counted
<1>5. \A n \in Node : ~Pushed(n) /\ n # Null
  BY <1>1, NodeType DEF Pushed
<1>6. Held /\ Early
  BY <1>1, <1>2, <1>5 DEF Held, Early, Stands
<1> QED
  BY <1>1, <1>3, <1>4, <1>6 DEF NInv

\* The invariant holds, if no insertion makes the root's children change their order.
LEMMA NInvInvariant == ASSUME ~MayRehash PROVE Spec => []NInv
<1>1. Init => NInv
  BY InitNInv
<1>2. ASSUME NInv, [Next]_vars PROVE NInv'
  <2>1. CASE UNCHANGED vars
    <3>1. \A n \in Node : /\ Pushed(n)' <=> Pushed(n)
                          /\ Pending(n)' <=> Pending(n)
                          /\ InTemp(n)' <=> InTemp(n)
                          /\ Placed(n)' <=> Placed(n)
                          /\ Stands(n)' <=> Stands(n)
      BY <2>1 DEF vars, files, Pushed, Pending, InTemp, Placed, Stands, IsTemp, Dir, Kind, Ahead, At
    <3>2. FilesOK' /\ Tree' /\ Loop'
      BY <1>2, <2>1, FilesStay DEF NInv, vars, Tree, Loop
    <3>3. Erased'
      <4>1. Erased /\ FilesOK
        BY <1>2 DEF NInv
      <4>2. \A t : Others(t)' <=> Others(t)
        BY <2>1, <4>1, FilesStay DEF vars
      <4>3. TempsLeft' = TempsLeft /\ order' = order /\ it' = it /\ phase' = phase
        BY <2>1 DEF vars, TempsLeft, RootChildren
      <4>4. OneTempStays'
        BY <4>1, <4>2, <4>3 DEF Erased, OneTempStays
      <4>5. ASSUME phase' = "erase", NEW j \in 1 .. Len(order'), order'[j] \in Temp
            PROVE  j >= it' \/ (j = 1 /\ Others(order[j])')
        BY <4>1, <4>3, <4>5, <2>1 DEF Erased, Others, vars, files, IsTemp
      <4> QED
        BY <4>4, <4>5 DEF Erased
    <3>4. Bindings' /\ Counted'
      BY <1>2, <2>1 DEF NInv, vars, files, Bindings, Home, Counted, IsTemp, Dir, Kind
    <3> QED
      BY <1>2, <2>1, <3>1, <3>2, <3>3, <3>4 DEF NInv, vars, Held, Early, Cleaned
  <2> QED
    BY <1>2, <2>1, PushFolderInv, RenameChildInv, StartRenameInv, SkipChildInv, StartEraseInv,
       EraseTempInv, KeepChildInv, QueueCompileInv DEF Next
<1> QED
  BY <1>1, <1>2, PTL DEF Spec

---------------------------------------------------------------------------
(* What follows once the namespaces are renamed.                           *)

\* In a namespace that is not temporary stands, for each name, a script that declares it.
LEMMA StandsHome ==
  ASSUME NInv, NEW p \in DOMAIN objects, NEW b \in Base, ~IsTemp(p), objects[p][b] # Null
  PROVE  objects[p][b] \in Node /\ baseName[objects[p][b]] = b /\ declared[objects[p][b]] = p
BY DEF NInv, Tree, Bindings, Home

\* A temporary namespace that is left is that of the scripts below it.
LEMMA LeftIsStill ==
  ASSUME NInv, NEW p \in DOMAIN objects, NEW n \in Node, IsTemp(p), objects[p][baseName[n]] = n
  PROVE  p = Dir(n) /\ StillTemp(n)
<1>1. p = Dir(n)
  BY NodeType DEF NInv, Bindings, Home
<1>2. Head(p) \in TempsLeft
  BY DEF TempsLeft, RootChildren, IsTemp
<1> QED
  BY <1>1, <1>2 DEF StillTemp, Dir

\* At most one temporary namespace stays, after another one was erased, and no name stands for
\* what lost a merge: RenameImports and createNamespace, for any folders and files.
THEOREM TempsCleanedCorrect == ASSUME ~MayRehash PROVE Spec => []TempsCleaned
<1>1. ASSUME NInv PROVE TempsCleaned
  <2>1. OneTempStays
    BY <1>1 DEF NInv, Erased
  <2>2. CleanedUnreachable
    BY <1>1 DEF NInv, Cleaned, Stands, CleanedUnreachable
  <2> QED
    BY <2>1, <2>2 DEF TempsCleaned
<1> QED
  BY <1>1, NInvInvariant, PTL

\* Of the input files of one name one is queued, and once, but for the walk through a temporary
\* namespace that is left (queueCompile).
THEOREM InputsQueuedOnceCorrect == ASSUME ~MayRehash PROVE Spec => []InputsQueuedOnce
<1> DEFINE Places(n) == {p \in DOMAIN objects : objects[p][baseName[n]] = n /\ Kind(n) = "compile"}
<1>1. ASSUME NInv, phase = "done", NEW n \in Node, Kind(n) = "compile"
      PROVE  \E m \in Node : SameName(m, n) /\ queued[m] > 0
  <2>1. Placed(n) /\ FilesOK /\ Tree
    BY <1>1, IsSettled DEF NInv, Settled
  <2>2. baseName[n] \in Base /\ ~IsTemp(declared[n])
    BY <2>1, NodeType
  <2> DEFINE m == objects[declared[n]][baseName[n]]
  <2>3. declared[n] \in DOMAIN objects /\ m # Null /\ Kind(m) = "compile"
    BY <1>1, <2>1, <2>2 DEF Placed, At, NoObjects
  <2>4. m \in Node /\ SameName(m, n)
    BY <1>1, <2>2, <2>3, StandsHome DEF SameName
  <2> HIDE DEF m
  <2>5. declared[n] \in Places(m)
    BY <2>3, <2>4 DEF SameName, m
  <2>6. IsFiniteSet(Places(m))
    BY <2>1, TreeFinite, FS_Subset
  <2>7. queued[m] = Cardinality(Places(m))
    BY <1>1, <2>4 DEF NInv, Counted
  <2> HIDE DEF Places
  <2>8. Cardinality(Places(m)) \in Nat /\ Cardinality(Places(m)) # 0
    BY <2>5, <2>6, FS_CardinalityType, FS_EmptySet
  <2> QED
    BY <2>4, <2>7, <2>8
<1>2. ASSUME NInv, NEW n \in Node PROVE queued[n] <= IF StillTemp(n) THEN 2 ELSE 1
  <2>1. CASE phase # "done"
    BY <1>2, <2>1 DEF NInv, Counted
  <2>2. CASE phase = "done"
    <3>1. ASSUME NEW p \in Places(n) PROVE p = declared[n] \/ (StillTemp(n) /\ p = Dir(n))
      <4>1. n # Null /\ baseName[n] \in Base
        BY <1>2, NodeType DEF NInv
      <4>2. CASE IsTemp(p)
        BY <1>2, <3>1, <4>2, LeftIsStill
      <4>3. CASE ~IsTemp(p)
        BY <1>2, <3>1, <4>1, <4>3, StandsHome
      <4> QED
        BY <4>2, <4>3
    <3>2. queued[n] = Cardinality(Places(n))
      BY <1>2, <2>2 DEF NInv, Counted
    <3> DEFINE two == {declared[n], Dir(n)}
    <3>3. Places(n) \in SUBSET two /\ (~StillTemp(n) => Places(n) \in SUBSET {declared[n]})
      BY <3>1
    <3> HIDE DEF Places
    <3>4. /\ IsFiniteSet(two) /\ Cardinality(two) <= 2
          /\ IsFiniteSet({declared[n]}) /\ Cardinality({declared[n]}) = 1
      <4>1. two = {declared[n]} \cup {Dir(n)}
        OBVIOUS
      <4> HIDE DEF two
      <4>2. IsFiniteSet({declared[n]}) /\ Cardinality({declared[n]}) = 1
        BY FS_Singleton
      <4>3. Cardinality(two) = IF Dir(n) \in {declared[n]} THEN 1 ELSE 1 + 1
        BY <4>1, <4>2, FS_AddElement
      <4>4. IsFiniteSet(two)
        BY <4>1, <4>2, FS_AddElement
      <4> QED
        BY <4>2, <4>3, <4>4
    <3> HIDE DEF two
    <3>5. Cardinality(Places(n)) <= Cardinality(two) /\ Cardinality(two) \in Nat
          /\ Cardinality(Places(n)) \in Nat
      BY <3>3, <3>4, FS_Subset, FS_CardinalityType
    <3>6. ~StillTemp(n) => Cardinality(Places(n)) <= 1
      BY <3>3, <3>4, FS_Subset
    <3> QED
      BY <3>2, <3>4, <3>5, <3>6
  <2> QED
    BY <2>1, <2>2
<1>3. NInv => InputsQueuedOnce
  BY <1>1, <1>2 DEF InputsQueuedOnce, InputsCompiled, QueuedOnce
<1> QED
  BY <1>3, NInvInvariant, PTL

\* Of some prefixes of a path one is the longest.
LEMMA Longest ==
  ASSUME NEW p \in Path, NEW H \in SUBSET Prefixes(p), H # {}
  PROVE  \E r \in H : \A h \in H : Len(h) <= Len(r)
<1>1. p \in Seq(Name) /\ Len(p) \in Nat
  BY NamespaceAssumption
<1>2. \A h \in H : Len(h) \in 0 .. Len(p)
  <2>1. ASSUME NEW l \in 0 .. Len(p) PROVE Len(SubSeq(p, 1, l)) = l
    BY <1>1
  <2> QED
    BY <2>1 DEF Prefixes
<1> DEFINE S == {Len(p) - Len(h) : h \in H}
<1>3. S \in SUBSET Nat /\ S # {}
  BY <1>1, <1>2
<1>4. PICK m \in S : \A k \in S : m <= k
  <2> HIDE DEF S
  <2> QED
    BY <1>3, HasLeast
<1>5. PICK r \in H : m = Len(p) - Len(r)
  BY <1>4
<1>6. \A h \in H : Len(p) - Len(r) <= Len(p) - Len(h)
  BY <1>4, <1>5
<1> QED
  BY <1>1, <1>2, <1>6

\* A lookup from p of a script's name finds what stands for it in a namespace around p, the
\* nearest in which anything does.
LEMMA LookupIs ==
  ASSUME NInv, phase = "done", NEW n \in Node, NEW p \in DOMAIN objects, ~IsTemp(p)
  PROVE  \E r \in Prefixes(p) :
           LET q == r \o declared[n]
           IN /\ q \in DOMAIN objects /\ ~IsTemp(q) /\ objects[q][baseName[n]] # Null
              /\ TryFindType(p, declared[n], baseName[n]) = objects[q][baseName[n]]
              /\ r = Root => q = declared[n]
<1> DEFINE d == declared[n]
           b == baseName[n]
           hits == {r \in Prefixes(p) : p \in DOMAIN objects /\ FindQualified(r, d, b) # Null}
           r0 == CHOOSE r \in hits : \A h \in hits : Len(h) <= Len(r)
<1>1. FilesOK /\ Tree /\ Placed(n)
  BY IsSettled DEF NInv, Settled
<1>2. b \in Base /\ d \in Path /\ ~IsTemp(d) /\ p \in Path
  BY <1>1, NodeType, TreeFinite
<1>3. d \in Seq(Name) /\ Prefixes(p) \subseteq Path /\ Path \subseteq Seq(Name)
  BY <1>2, NamespaceAssumption
<1>4. Root \o d = d
  BY <1>3, ConcatEmptySeq DEF Root
<1>5. Root \in hits
  BY <1>1, <1>2, <1>4, PrefixesOf DEF FindQualified, Placed
<1>6. r0 \in hits
  <2>1. hits \in SUBSET Prefixes(p)
    OBVIOUS
  <2> HIDE DEF hits
  <2>2. \E r \in hits : \A h \in hits : Len(h) <= Len(r)
    BY <1>2, <1>5, <2>1, Longest
  <2> QED
    BY <2>2, Zenon
<1>7. TryFindType(p, d, b) = FindQualified(r0, d, b)
  BY <1>5 DEF TryFindType
<1> HIDE DEF r0
<1> DEFINE q == r0 \o d
<1>8. r0 \in Prefixes(p) /\ At(objects, q)[b] # Null
  BY <1>6 DEF FindQualified
<1>9. q \in DOMAIN objects /\ objects[q][b] # Null /\ TryFindType(p, d, b) = objects[q][b]
  <2> HIDE DEF q
  <2>1. q \in DOMAIN objects /\ objects[q][b] # Null
    BY <1>2, <1>8 DEF At, NoObjects
  <2> QED
    BY <1>7, <2>1 DEF At, FindQualified, q
<1>10. ~IsTemp(q)
  <2>1. CASE r0 = Root
    BY <1>2, <1>4, <2>1
  <2>2. CASE r0 # Root
    <3>1. p # Root /\ Head(r0) = Head(p)
      BY <1>2, <1>8, <2>2, PrefixesOf
    <3>2. r0 \in Seq(Name) /\ Len(r0) >= 1 /\ Head(r0) = r0[1]
      BY <1>3, <1>8, <2>2 DEF Root
    <3>3. /\ q \in Seq(Name) /\ Len(q) = Len(r0) + Len(d)
          /\ \A i \in 1 .. Len(r0) + Len(d) : q[i] = IF i <= Len(r0) THEN r0[i] ELSE d[i - Len(r0)]
      BY <1>3, <3>2, ConcatProperties
    <3> HIDE DEF q
    <3>4. q # Root => Head(q) = q[1]
      BY <3>3 DEF Root
    <3>5. q[1] = r0[1]
      BY <1>3, <3>2, <3>3
    <3> QED
      BY <3>1, <3>2, <3>4, <3>5 DEF IsTemp
  <2> QED
    BY <2>1, <2>2
<1> QED
  BY <1>4, <1>8, <1>9, <1>10

\* Once imports are renamed, every script is found by the name it declares, from any namespace.
THEOREM ResolvableCorrect == ASSUME ~MayRehash PROVE Spec => []Resolvable
<1>1. ASSUME NInv, phase = "done", NEW n \in Node, NEW p \in DOMAIN objects, ~IsTemp(p)
      PROVE  LET m == TryFindType(p, declared[n], baseName[n])
             IN /\ m # Null /\ baseName[m] = baseName[n]
                /\ IF SameName(m, n) THEN Kind(n) = "compile" => Kind(m) = "compile"
                   ELSE p # Root /\ Len(declared[m]) > Len(declared[n])
  <2> DEFINE d == declared[n]
             b == baseName[n]
             m == TryFindType(p, d, b)
  <2>1. FilesOK /\ Tree /\ Placed(n)
    BY <1>1, IsSettled DEF NInv, Settled
  <2>2. b \in Base /\ d \in Path /\ p \in Path
    BY <1>1, <2>1, NodeType, TreeFinite
  <2>3. PICK r \in Prefixes(p) :
          /\ r \o d \in DOMAIN objects /\ ~IsTemp(r \o d) /\ objects[r \o d][b] # Null
          /\ m = objects[r \o d][b]
          /\ r = Root => r \o d = d
    BY <1>1, LookupIs
  <2> HIDE DEF m
  <2>4. m # Null /\ baseName[m] = b /\ declared[m] = r \o d
    BY <1>1, <2>2, <2>3, StandsHome
  <2>5. CASE r = Root
    <3>1. declared[m] = d /\ m = At(objects, d)[b]
      BY <2>3, <2>4, <2>5 DEF At
    <3>2. Kind(n) = "compile" => Kind(m) = "compile"
      BY <2>1, <3>1 DEF Placed
    <3> QED
      BY <2>4, <3>1, <3>2 DEF SameName, m
  <2>6. CASE r # Root
    <3>1. p # Root
      BY <2>2, <2>3, <2>6, PrefixesOf
    <3>2. r \in Seq(Name) /\ d \in Seq(Name) /\ Len(r) > 0
      BY <2>2, <2>3, <2>6, PrefixesOf, NamespaceAssumption DEF Root
    <3>3. Len(declared[m]) = Len(r) + Len(d)
      BY <2>4, <3>2, ConcatProperties
    <3>4. Len(declared[m]) > Len(d)
      BY <3>2, <3>3
    <3>5. ~SameName(m, n)
      BY <3>2, <3>4 DEF SameName
    <3> QED
      BY <2>4, <3>1, <3>4, <3>5 DEF m
  <2> QED
    BY <2>5, <2>6
<1>2. NInv => Resolvable
  BY <1>1 DEF Resolvable
<1> QED
  BY <1>2, NInvInvariant, PTL
=============================================================================
