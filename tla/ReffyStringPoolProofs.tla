----------------------- MODULE ReffyStringPoolProofs -----------------------
(***************************************************************************)
(* The string table keeps its strings apart and its memory in order, for   *)
(* any strings, sizes, hashes and numbers of slots, files and strings.     *)
(***************************************************************************)
EXTENDS ReffyStringPool, SequenceTheorems, TLAPS

-----------------------------------------------------------------------------
(* The table.                                                              *)

Uppers == {HashOf[s].upper : s \in Strings} \union {0}

TableType ==
  /\ generationNumber \in Nat
  /\ strings \in Seq(Strings)
  /\ hashtable \in [Slots -> [generation : Nat, index : Nat, upper : Uppers]]
  /\ given \in [Strings -> Nat \union {NoIndex}]

\* No entry is of a generation to come, and one of this generation has an
\* index of this file.
EntriesKnown ==
  \A e \in Slots :
    /\ hashtable[e].generation <= generationNumber
    /\ ~Stale(e) => hashtable[e].index < Len(strings)

TableInv == TableType /\ EntriesKnown /\ TableFaithful

\* What a search stops at is stale or the string; a slot that is not stale
\* and stops the search for s names s.
LEMMA FoundHolds ==
  ASSUME NEW s \in Strings, NEW e \in Slots, IsFound(e, s), ~Stale(e)
  PROVE  Holds(e, s)
BY DEF IsFound, Stops

\* In the slots other than the one that is written, nothing changes for a
\* search.
LEMMA OtherSlots ==
  ASSUME TableType, EntriesKnown,
         NEW e \in Slots, NEW s \in Strings,
         generationNumber' = generationNumber,
         strings' = Append(strings, s),
         hashtable' = [hashtable EXCEPT ![e] = [generation |-> generationNumber,
                                                index |-> Len(strings),
                                                upper |-> HashOf[s].upper]]
  PROVE  /\ strings' \in Seq(Strings)
         /\ hashtable' \in [Slots -> [generation : Nat, index : Nat, upper : Uppers]]
         /\ EntriesKnown'
         /\ ~Stale(e)' /\ Holds(e, s)'
         /\ \A t \in Strings \ {s} : ~Holds(e, t)'
         /\ \A d \in Slots \ {e} : /\ Stale(d)' <=> Stale(d)
                                   /\ \A t \in Strings : Holds(d, t)' <=> Holds(d, t)
<1> DEFINE entry == [generation |-> generationNumber, index |-> Len(strings),
                     upper |-> HashOf[s].upper]
<1>1. Len(strings) \in Nat /\ strings' \in Seq(Strings) /\ Len(strings') = Len(strings) + 1
  BY DEF TableType
<1>2. entry \in [generation : Nat, index : Nat, upper : Uppers]
  BY <1>1 DEF TableType, Uppers
<1>3. /\ hashtable' \in [Slots -> [generation : Nat, index : Nat, upper : Uppers]]
      /\ hashtable'[e] = entry
      /\ \A d \in Slots \ {e} : hashtable'[d] = hashtable[d]
  BY <1>2 DEF TableType
<1>4. strings'[Len(strings) + 1] = s
      /\ \A i \in 1..Len(strings) : strings'[i] = strings[i]
  BY <1>1 DEF TableType
<1>5. ~Stale(e)' /\ \A d \in Slots \ {e} : Stale(d)' <=> Stale(d)
  BY <1>3 DEF Stale
<1>6. Holds(e, s)' /\ \A t \in Strings \ {s} : ~Holds(e, t)'
  BY <1>3, <1>4, <1>5 DEF Holds
<1>7. ASSUME NEW d \in Slots \ {e}, NEW t \in Strings
      PROVE  Holds(d, t)' <=> Holds(d, t)
  <2>1. CASE Stale(d)
    BY <2>1, <1>5 DEF Holds
  <2>2. CASE ~Stale(d)
    <3>1. hashtable[d].index + 1 \in 1..Len(strings)
      BY <2>2, <1>1 DEF EntriesKnown, TableType
    <3> QED
      BY <3>1, <1>3, <1>4, <1>5 DEF Holds
  <2> QED
    BY <2>1, <2>2
<1>8. EntriesKnown'
  <2> SUFFICES ASSUME NEW d \in Slots
               PROVE  /\ hashtable'[d].generation <= generationNumber'
                      /\ ~Stale(d)' => hashtable'[d].index < Len(strings')
    BY DEF EntriesKnown
  <2>1. CASE d = e
    BY <2>1, <1>1, <1>3 DEF TableType
  <2>2. CASE d # e
    <3>1. hashtable'[d] = hashtable[d] /\ (Stale(d)' <=> Stale(d))
      BY <2>2, <1>3, <1>5
    <3>2. hashtable[d].index \in Nat
      BY DEF TableType
    <3> QED
      BY <3>1, <3>2, <1>1 DEF EntriesKnown
  <2> QED
    BY <2>1, <2>2
<1> QED
  BY <1>1, <1>3, <1>5, <1>6, <1>7, <1>8 DEF TableType

\* A string that is entered where its search ends displaces no other.
LEMMA NothingLost ==
  ASSUME TableType, EntriesKnown, NoStringLost,
         NEW e \in Slots, NEW s \in Strings, IsFound(e, s),
         generationNumber' = generationNumber,
         strings' = Append(strings, s),
         hashtable' = [hashtable EXCEPT ![e] = [generation |-> generationNumber,
                                                index |-> Len(strings),
                                                upper |-> HashOf[s].upper]]
  PROVE  NoStringLost'
<1>1. /\ ~Stale(e)' /\ Holds(e, s)'
      /\ \A t \in Strings \ {s} : ~Holds(e, t)'
      /\ \A d \in Slots \ {e} : /\ Stale(d)' <=> Stale(d)
                                /\ \A t \in Strings : Holds(d, t)' <=> Holds(d, t)
  BY OtherSlots
<1>2. Len(strings) \in Nat /\ DOMAIN strings = 1..Len(strings)
      /\ DOMAIN strings' = 1..(Len(strings) + 1)
      /\ strings'[Len(strings) + 1] = s
      /\ \A i \in 1..Len(strings) : strings'[i] = strings[i] /\ strings[i] \in Strings
  BY DEF TableType
<1>3. \A t \in Strings, d \in Slots : Distance(d, t)' = Distance(d, t)
  BY DEF Distance
<1> SUFFICES ASSUME NEW i \in DOMAIN strings', ~Outside(strings'[i])
             PROVE  \E d \in Slots : (IsFound(d, strings[i]) /\ Holds(d, strings[i]))'
  BY DEF NoStringLost, Outside
<1>4. CASE strings'[i] = s
  <2>1. e \in Stops(s)' /\ Stops(s)' \subseteq Stops(s) \union {e}
    BY <1>1 DEF Stops
  <2>2. \A d \in Stops(s) : Distance(e, s) <= Distance(d, s)
    BY DEF IsFound
  <2>3. Distance(e, s) <= Distance(e, s)
    BY <2>2 DEF IsFound
  <2>4. IsFound(e, s)'
    BY <2>1, <2>2, <2>3, <1>3 DEF IsFound, Stops
  <2> QED
    BY <2>4, <1>1, <1>4
<1>5. CASE strings'[i] # s
  <2>1. PICK t \in Strings \ {s} : i \in DOMAIN strings /\ strings[i] = t /\ strings'[i] = t
    BY <1>2, <1>5
  <2>2. PICK d \in Slots : IsFound(d, t) /\ Holds(d, t)
    BY <2>1 DEF NoStringLost, Outside
  <2>3. d # e
    BY <2>1, <2>2 DEF IsFound, Stops, Holds
  <2>4. Holds(d, t)'
    BY <2>1, <2>2, <2>3, <1>1
  <2>5. Stops(t)' \subseteq Stops(t) /\ d \in Stops(t)'
    BY <2>1, <2>3, <2>4, <1>1 DEF Stops
  <2>6. IsFound(d, t)'
    BY <2>1, <2>2, <2>5, <1>3 DEF IsFound, Stops
  <2> QED
    BY <2>1, <2>4, <2>6
<1> QED
  BY <1>4, <1>5

\* A string that is entered behind the table displaces none in it.
LEMMA NothingLostOutside ==
  ASSUME TableType, EntriesKnown, NoStringLost,
         NEW s \in Strings, Outside(s),
         generationNumber' = generationNumber, hashtable' = hashtable,
         strings' = Append(strings, s)
  PROVE  EntriesKnown' /\ NoStringLost' /\ strings' \in Seq(Strings)
<1>1. /\ Len(strings) \in Nat /\ DOMAIN strings = 1..Len(strings)
      /\ Len(strings') = Len(strings) + 1 /\ DOMAIN strings' = 1..(Len(strings) + 1)
      /\ strings'[Len(strings) + 1] = s /\ strings' \in Seq(Strings)
      /\ \A i \in 1..Len(strings) : strings'[i] = strings[i] /\ strings[i] \in Strings
  BY DEF TableType
<1>2. \A e \in Slots : Stale(e)' <=> Stale(e)
  BY DEF Stale
<1>3. ASSUME NEW e \in Slots, ~Stale(e)
      PROVE  hashtable[e].index \in Nat /\ hashtable[e].index + 1 \in 1..Len(strings)
  BY <1>1, <1>3 DEF TableType, EntriesKnown
<1>4. EntriesKnown'
  BY <1>1, <1>2, <1>3 DEF EntriesKnown
<1>5. \A e \in Slots, t \in Strings : Holds(e, t)' <=> Holds(e, t)
  BY <1>1, <1>2, <1>3 DEF Holds
<1>6. \A t \in Strings, e \in Slots : IsFound(e, t)' <=> IsFound(e, t)
  BY <1>2, <1>5 DEF IsFound, Stops, Distance
<1>7. ASSUME NEW i \in DOMAIN strings', ~Outside(strings'[i])
      PROVE  \E e \in Slots : (IsFound(e, strings[i]) /\ Holds(e, strings[i]))'
  <2>1. PICK t \in Strings : i \in DOMAIN strings /\ strings[i] = t /\ strings'[i] = t
    BY <1>1, <1>7
  <2>2. PICK e \in Slots : IsFound(e, t) /\ Holds(e, t)
    BY <1>7, <2>1 DEF NoStringLost
  <2> QED
    BY <1>5, <1>6, <2>1, <2>2
<1> QED
  BY <1>1, <1>4, <1>7 DEF NoStringLost, Outside

LEMMA InitTable == Init => TableInv
<1> SUFFICES ASSUME Init PROVE TableInv
  OBVIOUS
<1>1. TableType
  BY DEF Init, TableType, Uppers
<1>2. \A e \in Slots : Stale(e) /\ hashtable[e].generation <= generationNumber
  BY DEF Init, Stale
<1>3. IndexNamesString /\ NoStringLost
  BY DEF Init, IndexNamesString, NoStringLost
<1> QED
  BY <1>1, <1>2, <1>3 DEF TableInv, EntriesKnown, TableFaithful

\* A string that is entered gets the next index, and the table stays
\* faithful, also to those who had an index before.
LEMMA EnterKeeps ==
  ASSUME TableInv, NEW s \in Strings, NEW e \in Slots, NEW table, Enter(s, table),
         \/ IsFound(e, s) /\ table = Written(e, s)
         \/ Outside(s) /\ table = hashtable,
         UNCHANGED generationNumber,
         given' \in [Strings -> Nat \union {NoIndex}],
         \A t \in Strings : given'[t] \in {given[t], IF failed' \/ t # s THEN given[t]
                                                     ELSE Len(strings)}
  PROVE  TableInv'
<1>1. Len(strings) \in Nat
  BY DEF TableInv, TableType
<1>2. CASE UNCHANGED <<strings, hashtable>> /\ failed'
  <2>1. TableType' /\ EntriesKnown'
    BY <1>2 DEF TableInv, TableType, EntriesKnown, Stale
  <2>2. NoStringLost'
    BY <1>2 DEF TableInv, TableFaithful, NoStringLost, IsFound, Stops, Holds, Stale, Distance,
                Outside
  <2>3. IndexNamesString'
    BY <1>2 DEF TableInv, TableFaithful, IndexNamesString
  <2> QED
    BY <2>1, <2>2, <2>3 DEF TableInv, TableFaithful
<1>3. CASE strings' = Append(strings, s) /\ hashtable' = table
  <2>1. TableType' /\ EntriesKnown' /\ NoStringLost'
    <3>1. CASE IsFound(e, s) /\ table = Written(e, s)
      <4>1. hashtable' = [hashtable EXCEPT ![e] = [generation |-> generationNumber,
                                                   index |-> Len(strings),
                                                   upper |-> HashOf[s].upper]]
        BY <1>3, <3>1 DEF Written
      <4>2. TableType' /\ EntriesKnown'
        BY <1>3, <4>1, OtherSlots DEF TableInv, TableType
      <4>3. NoStringLost'
        BY <1>3, <3>1, <4>1, NothingLost DEF TableInv, TableFaithful
      <4> QED
        BY <4>2, <4>3
    <3>2. CASE Outside(s) /\ table = hashtable
      <4>1. EntriesKnown' /\ NoStringLost' /\ strings' \in Seq(Strings)
        BY <1>3, <3>2, NothingLostOutside DEF TableInv, TableFaithful
      <4> QED
        BY <1>3, <3>2, <4>1 DEF TableInv, TableType
    <3> QED
      BY <3>1, <3>2
  <2>3. Len(strings') = Len(strings) + 1 /\ strings'[Len(strings) + 1] = s
        /\ \A i \in 1..Len(strings) : strings'[i] = strings[i]
    BY <1>3 DEF TableInv, TableType
  <2>4. ASSUME NEW t \in Strings, given'[t] # NoIndex
        PROVE  given'[t] < Len(strings') /\ strings'[given'[t] + 1] = t
    <3>1. CASE given'[t] = given[t]
      <4>1. given[t] \in Nat /\ given[t] < Len(strings) /\ strings[given[t] + 1] = t
        BY <2>4, <3>1 DEF TableInv, TableType, TableFaithful, IndexNamesString
      <4> QED
        BY <4>1, <3>1, <2>3, <1>1
    <3>2. CASE given'[t] # given[t]
      <4>1. t = s /\ given'[t] = Len(strings)
        BY <3>2
      <4> QED
        BY <4>1, <2>3, <1>1
    <3> QED
      BY <3>1, <3>2
  <2> QED
    BY <2>1, <2>4 DEF TableInv, TableFaithful, IndexNamesString
<1> QED
  BY <1>2, <1>3 DEF Enter

\* What lookup gives for a string keeps the table faithful if it is an index of the string.
LEMMA GiveKeeps ==
  ASSUME TableInv, NEW s \in Strings, NEW i \in Nat, Give(s, i), UNCHANGED generationNumber,
         i < Len(strings), strings[i + 1] = s
  PROVE  TableInv'
<1>1. given' = [given EXCEPT ![s] = i] /\ UNCHANGED <<strings, hashtable, generationNumber>>
  BY DEF Give
<1>2. TableType' /\ EntriesKnown'
  BY <1>1 DEF TableInv, TableType, EntriesKnown, Stale
<1>3. NoStringLost'
  BY <1>1 DEF TableInv, TableFaithful, NoStringLost, IsFound, Stops, Holds, Stale, Distance,
              Outside
<1>4. IndexNamesString'
  BY <1>1 DEF TableInv, TableType, TableFaithful, IndexNamesString
<1> QED
  BY <1>2, <1>3, <1>4 DEF TableInv, TableFaithful

\* So does a new string.
LEMMA EnterNewKeeps ==
  ASSUME TableInv, NEW s \in Strings, NEW e \in Slots, NEW table, EnterNew(s, table),
         \/ IsFound(e, s) /\ table = Written(e, s)
         \/ Outside(s) /\ table = hashtable,
         UNCHANGED generationNumber
  PROVE  TableInv'
<1>1. Enter(s, table) /\ given' = [given EXCEPT ![s] = IF failed' THEN @ ELSE Len(strings)]
  BY DEF EnterNew
<1>2. /\ given' \in [Strings -> Nat \union {NoIndex}]
      /\ \A t \in Strings : given'[t] = IF failed' \/ t # s THEN given[t] ELSE Len(strings)
  BY <1>1 DEF TableInv, TableType
<1> QED
  BY <1>1, <1>2, EnterKeeps

LEMMA LookupKeeps ==
  ASSUME TableInv, NEW s \in Strings, Lookup(s)
  PROVE  TableInv'
<1>1. PICK e \in Slots :
        /\ IsFound(e, s)
        /\ \/ ~Stale(e) /\ Give(s, hashtable[e].index)
           \/ Stale(e) /\ Len(strings) < MaxPushed /\ EnterNew(s, Written(e, s))
  BY DEF Lookup
<1>2. UNCHANGED generationNumber
  BY DEF Lookup
<1>3. CASE ~Stale(e)
  <2>1. Holds(e, s)
    BY <1>1, <1>3, FoundHolds
  <2>2. /\ hashtable[e].index \in Nat /\ hashtable[e].index < Len(strings)
        /\ strings[hashtable[e].index + 1] = s
    BY <1>3, <2>1 DEF TableInv, TableType, EntriesKnown, Holds
  <2> QED
    BY <1>1, <1>2, <1>3, <2>2, GiveKeeps
<1>4. CASE Stale(e)
  BY <1>1, <1>2, <1>4, EnterNewKeeps
<1> QED
  BY <1>3, <1>4

LEMMA PushBackKeeps ==
  ASSUME TableInv, NEW s \in Strings, PushBack(s)
  PROVE  TableInv'
<1>1. PICK e \in Slots : IsFound(e, s) /\ Enter(s, Written(e, s))
  BY DEF PushBack
<1>2. UNCHANGED <<generationNumber, given>>
  BY DEF PushBack
<1> QED
  BY <1>1, <1>2, EnterKeeps DEF TableInv, TableType

\* A search from behind the table changes nothing in it.
LEMMA OutsideKeeps ==
  ASSUME TableInv, NEW s \in Strings, LookupOutside(s) \/ PushBackOutside(s)
  PROVE  TableInv'
<1>1. Outside(s) /\ UNCHANGED generationNumber /\ 0 \in Slots
  BY StringsAssumption DEF LookupOutside, PushBackOutside, Slots
<1>2. CASE LookupOutside(s)
  <2>1. ASSUME NEW i \in DOMAIN strings, strings[i] = s, Give(s, i - 1) PROVE TableInv'
    <3>1. i \in 1..Len(strings) /\ Len(strings) \in Nat
      BY DEF TableInv, TableType
    <3>2. i - 1 \in Nat /\ i - 1 < Len(strings) /\ (i - 1) + 1 = i
      BY <3>1
    <3> QED
      BY <1>1, <2>1, <3>2, GiveKeeps
  <2>2. CASE EnterNew(s, hashtable)
    BY <1>1, <2>2, EnterNewKeeps
  <2> QED
    BY <1>2, <2>1, <2>2 DEF LookupOutside
<1>3. CASE PushBackOutside(s)
  <2>1. Enter(s, hashtable) /\ UNCHANGED <<generationNumber, given>>
    BY <1>3 DEF PushBackOutside
  <2> QED
    BY <1>1, <2>1, EnterKeeps DEF TableInv, TableType
<1> QED
  BY <1>2, <1>3

\* A new generation makes every entry stale.
LEMMA ResetKeeps ==
  ASSUME TableInv, Reset
  PROVE  TableInv'
<1>1. /\ generationNumber' = generationNumber + 1
      /\ strings' = <<>> /\ hashtable' = hashtable
      /\ given' = [s \in Strings |-> NoIndex]
  BY DEF Reset
<1>2. TableType'
  BY <1>1 DEF TableInv, TableType
<1>3. \A e \in Slots : hashtable[e].generation \in Nat /\ generationNumber \in Nat
                       /\ hashtable[e].generation <= generationNumber
  BY DEF TableInv, TableType, EntriesKnown
<1>4. \A e \in Slots : Stale(e)' /\ hashtable'[e].generation <= generationNumber'
  BY <1>1, <1>3 DEF Stale
<1>5. IndexNamesString' /\ NoStringLost'
  BY <1>1 DEF IndexNamesString, NoStringLost
<1> QED
  BY <1>2, <1>4, <1>5 DEF TableInv, EntriesKnown, TableFaithful

\* For any strings, however they collide, and any number of files a table is
\* used for: an index of the string table of a Pex file names its string, and
\* every string that was entered is found again, unless its search begins
\* behind the table (ReffyStringPool::lookup).
THEOREM TableFaithfulCorrect == Spec => []TableFaithful
<1>1. Init => TableInv
  BY InitTable
<1>2. TableInv /\ [Next]_vars => TableInv'
  <2> SUFFICES ASSUME TableInv, [Next]_vars PROVE TableInv'
    OBVIOUS
  <2>1. ASSUME NEW s \in Strings, Lookup(s) PROVE TableInv'
    BY <2>1, LookupKeeps
  <2>2. ASSUME NEW s \in Strings, PushBack(s) PROVE TableInv'
    BY <2>2, PushBackKeeps
  <2>3. CASE Reset
    BY <2>3, ResetKeeps
  <2>5. ASSUME NEW s \in Strings, LookupOutside(s) \/ PushBackOutside(s) PROVE TableInv'
    BY <2>5, OutsideKeeps
  <2>4. CASE UNCHANGED vars
    BY <2>4 DEF vars, tableVars, TableInv, TableType, EntriesKnown, TableFaithful,
                IndexNamesString, NoStringLost, IsFound, Stops, Holds, Stale, Distance,
                Outside
  <2> QED
    BY <2>1, <2>2, <2>3, <2>4, <2>5 DEF Next
<1>3. TableInv => TableFaithful
  BY DEF TableInv
<1> QED
  BY <1>1, <1>2, <1>3, PTL DEF Spec

-----------------------------------------------------------------------------
(* The memory.                                                             *)

\* An allocation as large as a heap fails, so that only ordinary heaps are
\* ever made and the chain is in the order of their creation.
HeapType ==
  /\ heap \in Seq([size : Nat, used : Nat])
  /\ \A h \in 1..Len(heap) : heap[h].size = HeapSize
  /\ chain = [i \in 1..Len(heap) |-> i]

LiveType ==
  /\ live \in Seq([heap : Nat, at : Nat, size : Nat])
  /\ \A i \in 1..Len(live) : live[i].heap \in 1..Len(heap)

\* The heaps are in use up to heap c.
FilledTo(c) ==
  /\ \A h \in 1..Len(heap) : h < c => heap[h].used # 0
  /\ \A h \in 1..Len(heap) : h > c => heap[h].used = 0

\* The newest allocation is the end of heap c.
EndsIn(c) ==
  IF live = <<>> THEN heap[c].used = 0
  ELSE /\ Last(live).heap = c
       /\ Last(live).at + Last(live).size = heap[c].used

PoolInv ==
  /\ HeapType /\ LiveType /\ StreamInOrder
  /\ \E c \in 1..Len(heap) : FilledTo(c) /\ EndsIn(c) /\ (~failed => current = c)

LEMMA Positions ==
  ASSUME HeapType
  PROVE  \A h \in 1..Len(heap) : Position(h) = h /\ chain[h] = h
BY DEF HeapType, Position

\* The conditions under which an allocation of size bytes at the end of heap c,
\* or in the next one, keeps the order.
LEMMA Extends ==
  ASSUME PoolInv, HeapType',
         NEW size \in Nat, NEW c \in 1..Len(heap),
         FilledTo(c), EndsIn(c),
         NEW h \in 1..Len(heap'), NEW at \in Nat,
         Len(heap') >= Len(heap),
         at + size <= HeapSize,
         live' = Append(live, [heap |-> h, at |-> at, size |-> size]),
         heap'[h].used = at + size,
         \/ h = c /\ at = heap[c].used
         \/ h > c /\ at = 0
  PROVE  LiveType' /\ StreamInOrder' /\ EndsIn(h)'
<1> DEFINE new == [heap |-> h, at |-> at, size |-> size]
<1>1. Len(heap) \in Nat /\ Len(heap') \in Nat /\ HeapSize \in Nat
  <2>1. Len(heap) \in Nat
    BY DEF PoolInv, HeapType
  <2>2. Len(heap') \in Nat
    BY DEF HeapType
  <2> QED
    BY <2>1, <2>2, HeapSizeAssumption
<1>2. live' \in Seq([heap : Nat, at : Nat, size : Nat])
  BY <1>1 DEF PoolInv, LiveType
<1>3. /\ Len(live) \in Nat /\ Len(live') = Len(live) + 1
      /\ DOMAIN live = 1..Len(live) /\ DOMAIN live' = 1..(Len(live) + 1)
      /\ live'[Len(live) + 1] = new
      /\ \A i \in 1..Len(live) : live'[i] = live[i]
  BY DEF PoolInv, LiveType
<1>4. LiveType'
  <2> SUFFICES ASSUME NEW i \in 1..Len(live') PROVE live'[i].heap \in 1..Len(heap')
    BY <1>2 DEF LiveType
  <2>1. CASE i \in 1..Len(live)
    BY <2>1, <1>1, <1>3, SMTT(30) DEF PoolInv, LiveType
  <2>2. CASE i = Len(live) + 1
    BY <2>2, <1>3
  <2> QED
    BY <2>1, <2>2, <1>3
<1>5. EndsIn(h)'
  BY <1>3, heap'[h].used = at + size DEF EndsIn, Last
<1>6. /\ \A g \in 1..Len(heap) : Position(g) = g
      /\ \A g \in 1..Len(heap') : Position(g)' = g
  <2>1. \A g \in 1..Len(heap') : Position(g)' = g
    BY DEF HeapType, Position
  <2> QED
    BY <2>1, Positions DEF PoolInv
<1>7. \A i \in 1..Len(live) :
        live[i].heap \in 1..Len(heap) /\ live[i].at \in Nat /\ live[i].size \in Nat
  <2> SUFFICES ASSUME NEW i \in 1..Len(live)
               PROVE  live[i].heap \in 1..Len(heap) /\ live[i].at \in Nat /\ live[i].size \in Nat
    OBVIOUS
  <2>1. live[i].heap \in 1..Len(heap)
    BY DEF PoolInv, LiveType
  <2>2. live[i] \in [heap : Nat, at : Nat, size : Nat]
    BY ElementOfSeq DEF PoolInv, LiveType
  <2> QED
    BY <2>1, <2>2
<1>8. \A g \in 1..Len(heap) : heap[g].size = HeapSize
  BY DEF PoolInv, HeapType
<1>9. \A g \in 1..Len(heap') : heap'[g].size = HeapSize
  BY DEF HeapType
<1>10. \A i \in 1..Len(live) : live[i].at + live[i].size <= HeapSize
  <2>1. \A i \in 1..Len(live) : live[i].at + live[i].size <= heap[live[i].heap].size
    BY <1>3 DEF PoolInv, StreamInOrder
  <2> QED
    BY <2>1, <1>7, <1>8
<1>11. ASSUME NEW i \in 1..(Len(live') - 1)
       PROVE  Before(live[i], live[i + 1])'
  <2>1. CASE i < Len(live)
    <3>1. i \in 1..(Len(live) - 1) /\ i \in 1..Len(live) /\ i + 1 \in 1..Len(live)
      BY <2>1, <1>3
    <3>2. Before(live[i], live[i + 1])
      BY <3>1 DEF PoolInv, StreamInOrder
    <3>3. live'[i] = live[i] /\ live'[i + 1] = live[i + 1]
      BY <3>1, <1>3
    <3>4. /\ live[i].heap \in 1..Len(heap) /\ live[i + 1].heap \in 1..Len(heap)
          /\ live[i].heap \in 1..Len(heap') /\ live[i + 1].heap \in 1..Len(heap')
      BY <3>1, <1>1, <1>7
    <3>5. /\ Position(live[i].heap)' = Position(live[i].heap)
          /\ Position(live[i + 1].heap)' = Position(live[i + 1].heap)
      BY <3>3, <3>4, <1>6
    <3> QED
      BY <3>2, <3>3, <3>5 DEF Before
  <2>2. CASE i = Len(live)
    <3>1. live # <<>> /\ i \in 1..Len(live) /\ live'[i] = Last(live) /\ live'[i + 1] = new
      BY <2>2, <1>3 DEF Last
    <3>2. Last(live).heap = c /\ Last(live).at + Last(live).size = heap[c].used
      BY <3>1 DEF EndsIn
    <3>3. c \in 1..Len(heap') /\ c \in Nat /\ h \in Nat
      BY <1>1
    <3>4. /\ live'[i].heap = c /\ live'[i].at + live'[i].size = heap[c].used
          /\ live'[i + 1].heap = h /\ live'[i + 1].at = at
      BY <3>1, <3>2, SMTT(30)
    <3>5. Position(live[i].heap)' = c /\ Position(live[i + 1].heap)' = h
      BY <3>3, <3>4, <1>6
    <3> QED
      BY <3>3, <3>4, <3>5 DEF Before
  <2>3. i < Len(live) \/ i = Len(live)
    <3>1. Len(live') - 1 = Len(live) /\ Len(live) \in Nat
      BY <1>3
    <3>2. i \in 1..Len(live)
      BY <3>1
    <3> QED
      BY <3>1, <3>2
  <2> QED
    BY <2>1, <2>2, <2>3
<1>12. \A i \in DOMAIN live' : live'[i].at + live'[i].size <= heap'[live'[i].heap].size
  <2> SUFFICES ASSUME NEW i \in DOMAIN live'
               PROVE  live'[i].at + live'[i].size <= heap'[live'[i].heap].size
    OBVIOUS
  <2>1. live'[i].heap \in 1..Len(heap')
    BY <1>4, <1>3 DEF LiveType
  <2>2. CASE i \in 1..Len(live)
    BY <2>1, <2>2, <1>3, <1>9, <1>10
  <2>3. CASE i = Len(live) + 1
    BY <2>1, <2>3, <1>3, <1>9
  <2> QED
    BY <2>2, <2>3, <1>3
<1> QED
  BY <1>4, <1>5, <1>11, <1>12 DEF StreamInOrder

LEMMA InitPool == Init => PoolInv
<1> SUFFICES ASSUME Init PROVE PoolInv
  OBVIOUS
<1>1. /\ chain = <<1>> /\ heap = <<[size |-> HeapSize, used |-> 0]>>
      /\ current = 1 /\ live = <<>>
  BY DEF Init, PoolInit
<1>2. Len(heap) = 1 /\ heap[1].used = 0 /\ heap[1].size = HeapSize
  BY <1>1
<1>3. HeapType
  BY <1>1, <1>2, HeapSizeAssumption DEF HeapType
<1>4. LiveType /\ StreamInOrder
  BY <1>1 DEF LiveType, StreamInOrder
<1>5. FilledTo(1) /\ EndsIn(1)
  BY <1>1, <1>2 DEF FilledTo, EndsIn
<1> QED
  BY <1>1, <1>2, <1>3, <1>4, <1>5 DEF PoolInv

\* A heap that cannot hold what an empty heap can is not empty.
LEMMA FullIsUsed ==
  ASSUME HeapType, NEW size \in Nat, CanHold(HeapSize, size),
         NEW h \in 1..Len(heap), ~CanHold(FreeBytes(h), size)
  PROVE  heap[h].used # 0
BY HeapSizeAssumption DEF HeapType, CanHold, FreeBytes

\* A heap of the chain takes the allocation: the current one, or an empty one.
LEMMA InChainKeeps ==
  ASSUME PoolInv, ~failed, NEW size \in Nat \ {0}, AllocateInChain(size)
  PROVE  PoolInv'
<1>1. FilledTo(current) /\ EndsIn(current) /\ current \in 1..Len(heap)
  BY DEF PoolInv
<1>2. /\ HeapType /\ heap \in Seq([size : Nat, used : Nat])
      /\ Len(heap) \in Nat /\ HeapSize \in Nat
      /\ \A h \in 1..Len(heap) : heap[h].used \in Nat /\ heap[h].size = HeapSize
  <2>1. HeapType /\ heap \in Seq([size : Nat, used : Nat])
    BY DEF PoolInv, HeapType
  <2>2. \A h \in 1..Len(heap) : heap[h] \in [size : Nat, used : Nat]
    BY <2>1, ElementOfSeq
  <2> QED
    BY <2>1, <2>2, HeapSizeAssumption DEF HeapType
<1>3. /\ DOMAIN chain = 1..Len(heap)
      /\ \A i \in 1..Len(heap) : chain[i] = i /\ Position(i) = i
  BY <1>2, Positions DEF HeapType
<1>4. PICK i \in Fitting(size) :
        /\ \A j \in Fitting(size) : i <= j
        /\ Take(chain[i], size)
        /\ current' = chain[i]
  BY DEF AllocateInChain
<1>5. i \in 1..Len(heap) /\ i >= current /\ CanHold(FreeBytes(i), size)
  BY <1>1, <1>3, <1>4 DEF Fitting, Candidates
<1>6. CanHold(HeapSize, size)
  <2>1. heap[i].used \in Nat /\ heap[i].size = HeapSize /\ FreeBytes(i) > size
    BY <1>2, <1>5 DEF CanHold
  <2>2. HeapSize - heap[i].used > size
    BY <2>1 DEF FreeBytes
  <2> QED
    BY <2>1, <2>2, <1>2 DEF CanHold
<1>7. \A j \in 1..Len(heap) : current <= j /\ j < i => heap[j].used # 0
  <2> SUFFICES ASSUME NEW j \in 1..Len(heap), current <= j, j < i
               PROVE  heap[j].used # 0
    OBVIOUS
  <2>1. j \notin Fitting(size)
    BY <1>4, <1>5
  <2>2. ~CanHold(FreeBytes(j), size)
    BY <2>1, <1>1, <1>3 DEF Fitting, Candidates
  <2> QED
    BY <2>2, <1>2, <1>6, FullIsUsed
<1>8. \A j \in 1..Len(heap) : j < i => heap[j].used # 0
  BY <1>1, <1>7 DEF FilledTo
<1>9. \A j \in 1..Len(heap) : j > i => heap[j].used = 0
  BY <1>1, <1>5 DEF FilledTo
<1>10. /\ heap' = [heap EXCEPT ![i].used = @ + size]
       /\ live' = Append(live, [heap |-> i, at |-> heap[i].used, size |-> size])
       /\ current' = i /\ chain' = chain
  BY <1>3, <1>4, <1>5 DEF Take, AllocateInChain
<1>11. /\ heap' \in Seq([size : Nat, used : Nat]) /\ Len(heap') = Len(heap)
       /\ heap'[i].used = heap[i].used + size
       /\ \A j \in 1..Len(heap) : /\ heap'[j].size = heap[j].size
                                  /\ j # i => heap'[j] = heap[j]
  <2> DEFINE taken == [heap[i] EXCEPT !.used = @ + size]
  <2>1. heap[i] \in [size : Nat, used : Nat]
    BY <1>2, <1>5, ElementOfSeq
  <2>2. /\ taken \in [size : Nat, used : Nat] /\ taken.size = heap[i].size
        /\ taken.used = heap[i].used + size
    BY <2>1
  <2>3. heap' = [heap EXCEPT ![i] = taken]
    BY <1>10
  <2> HIDE DEF taken
  <2>4. /\ heap' \in Seq([size : Nat, used : Nat]) /\ Len(heap') = Len(heap)
        /\ \A j \in 1..Len(heap) : heap'[j] = IF j = i THEN taken ELSE heap[j]
    BY <2>2, <2>3, <1>2, <1>5, ExceptSeq
  <2> QED
    BY <2>2, <2>4, <1>5
<1>12. HeapType'
  BY <1>2, <1>10, <1>11 DEF HeapType
<1>13. FilledTo(i)'
  BY <1>2, <1>5, <1>8, <1>9, <1>11 DEF FilledTo
<1>14. heap[i].used + size <= HeapSize /\ heap[i].used \in Nat
  BY <1>2, <1>5 DEF CanHold, FreeBytes
<1>15. i = current \/ (i > current /\ heap[i].used = 0)
  BY <1>1, <1>2, <1>5 DEF FilledTo
<1>16. LiveType' /\ StreamInOrder' /\ EndsIn(i)'
  <2>1. i \in 1..Len(heap') /\ Len(heap') >= Len(heap)
    BY <1>2, <1>5, <1>11
  <2> QED
    BY <2>1, <1>1, <1>10, <1>11, <1>12, <1>14, <1>15, Extends
<1> QED
  BY <1>5, <1>10, <1>11, <1>12, <1>13, <1>16 DEF PoolInv

\* A new heap is the last of the chain, and the ones before it are in use.
LEMMA NewHeapKeeps ==
  ASSUME PoolInv, ~failed, NEW size \in Nat \ {0}, AllocateHeap(size)
  PROVE  PoolInv'
<1>1. FilledTo(current) /\ EndsIn(current) /\ current \in 1..Len(heap)
  BY DEF PoolInv
<1>2. /\ HeapType /\ heap \in Seq([size : Nat, used : Nat])
      /\ chain = [i \in 1..Len(heap) |-> i]
      /\ Len(heap) \in Nat /\ HeapSize \in Nat
  BY HeapSizeAssumption DEF PoolInv, HeapType
<1>3. \A i \in 1..Len(heap) : chain[i] = i /\ Position(i) = i
  BY <1>2, Positions
<1>h. PICK h \in Nat : h = Len(heap) + 1
  BY <1>2
<1>4. CanHold(HeapSize, size) /\ size <= HeapSize /\ size # HeapSize
  BY <1>2 DEF AllocateHeap, NewHeap, CanHold
<1>5. Fitting(size) = {}
  BY <1>2, <1>4 DEF AllocateHeap
<1>6. /\ heap' = Append(heap, [size |-> HeapSize, used |-> size])
      /\ live' = Append(live, [heap |-> h, at |-> 0, size |-> size])
      /\ chain' = Append(chain, h)
      /\ current' = h
  BY <1>2, <1>4, <1>h DEF AllocateHeap, NewHeap
<1>7. /\ heap' \in Seq([size : Nat, used : Nat]) /\ Len(heap') = h
      /\ heap'[h] = [size |-> HeapSize, used |-> size]
      /\ \A j \in 1..Len(heap) : heap'[j] = heap[j]
  BY <1>2, <1>6, <1>h
<1>8. chain' = [i \in 1..Len(heap') |-> i]
  <2>1. chain \in Seq(Nat) /\ Len(chain) = Len(heap)
    BY <1>2, SeqDef
  <2>2. /\ chain' \in Seq(Nat) /\ Len(chain') = h /\ chain'[h] = h
        /\ \A j \in 1..Len(heap) : chain'[j] = chain[j]
    BY <2>1, <1>2, <1>6, <1>h, AppendProperties
  <2>3. \A j \in 1..h : chain'[j] = j
    BY <2>2, <1>2, <1>3, <1>h
  <2> QED
    BY <2>2, <2>3, <1>7
<1>9. HeapType'
  <2> SUFFICES ASSUME NEW j \in 1..Len(heap') PROVE heap'[j].size = HeapSize
    BY <1>7, <1>8 DEF HeapType
  <2>1. CASE j \in 1..Len(heap)
    BY <2>1, <1>2, <1>7 DEF HeapType
  <2>2. CASE j = h
    BY <2>2, <1>7
  <2> QED
    BY <2>1, <2>2, <1>2, <1>7, <1>h
<1>10. \A j \in 1..Len(heap) : heap[j].used # 0
  <2> SUFFICES ASSUME NEW j \in 1..Len(heap) PROVE heap[j].used # 0
    OBVIOUS
  <2>1. CASE j < current
    BY <2>1, <1>1 DEF FilledTo
  <2>2. CASE j >= current
    <3>1. j \in DOMAIN chain /\ chain[j] = j /\ j \in Candidates
      BY <2>2, <1>1, <1>2, <1>3 DEF Candidates
    <3>2. ~CanHold(FreeBytes(j), size)
      BY <3>1, <1>5 DEF Fitting
    <3> QED
      BY <3>2, <1>2, <1>4, FullIsUsed
  <2> QED
    BY <2>1, <2>2, <1>1, <1>2
<1>11. FilledTo(h)'
  <2> SUFFICES ASSUME NEW j \in 1..Len(heap')
               PROVE  (j < h => heap'[j].used # 0) /\ (j > h => heap'[j].used = 0)
    BY DEF FilledTo
  <2>1. j <= h /\ (j < h => j \in 1..Len(heap))
    BY <1>2, <1>7, <1>h
  <2> QED
    BY <2>1, <1>7, <1>10
<1>12. LiveType' /\ StreamInOrder' /\ EndsIn(h)'
  <2>1. /\ h \in 1..Len(heap') /\ Len(heap') >= Len(heap) /\ h > current
        /\ 0 + size <= HeapSize /\ heap'[h].used = 0 + size /\ 0 \in Nat
    BY <1>1, <1>2, <1>4, <1>7, <1>h, SMTT(30)
  <2> QED
    BY <2>1, <1>1, <1>6, <1>9, Extends
<1>13. h \in 1..Len(heap')
  BY <1>2, <1>7, <1>h
<1> QED
  BY <1>6, <1>9, <1>11, <1>12, <1>13 DEF PoolInv

\* Only the heap the next allocation begins with is touched by a failure,
\* after which the pool is used no more until the next file.
LEMMA FailureKeeps ==
  ASSUME PoolInv, NEW size \in Nat \ {0}, AllocationFails(size), failed'
  PROVE  PoolInv'
<1>1. UNCHANGED <<chain, heap, live>>
  BY DEF AllocationFails
<1> QED
  BY <1>1 DEF PoolInv, HeapType, LiveType, StreamInOrder, Before, Position, FilledTo, EndsIn

\* A step that leaves the pool alone, when the file goes on.
LEMMA UntouchedPool ==
  ASSUME PoolInv, UNCHANGED poolVars, failed' \/ ~failed
  PROVE  PoolInv'
<1>1. UNCHANGED <<chain, heap, live, current>>
  BY DEF poolVars
<1> QED
  BY <1>1 DEF PoolInv, HeapType, LiveType, StreamInOrder, Before, Position, FilledTo, EndsIn

\* reset() stops at the first empty heap: all those in use are before it.
LEMMA ResetPoolKeeps ==
  ASSUME PoolInv, Reset
  PROVE  PoolInv'
<1>1. /\ HeapType /\ heap \in Seq([size : Nat, used : Nat])
      /\ Len(heap) \in Nat /\ HeapSize \in Nat
      /\ DOMAIN heap = 1..Len(heap) /\ DOMAIN chain = 1..Len(heap)
      /\ \A i \in 1..Len(heap) : chain[i] = i /\ heap[i].size = HeapSize
  BY HeapSizeAssumption DEF PoolInv, HeapType
<1>2. PICK c \in 1..Len(heap) : FilledTo(c)
  BY DEF PoolInv
<1>3. ASSUME NEW i \in 1..Len(heap), heap[i].used # 0
      PROVE  i \in Emptied
  <2>1. i <= c
    BY <1>2, <1>3 DEF FilledTo
  <2>2. ASSUME NEW j \in 1..i
        PROVE  heap[chain[j]].used # 0
    <3>1. j \in 1..Len(heap) /\ chain[j] = j
      BY <1>1
    <3> QED
      BY <3>1, <2>1, <1>2, <1>3 DEF FilledTo
  <2> QED
    BY <2>2, <1>1 DEF Emptied
<1>4. Deleted = {}
  BY <1>1 DEF Deleted, Emptied
<1>5. /\ current' = 1 /\ chain' = chain /\ live' = <<>>
      /\ heap' = [h \in DOMAIN heap |->
                    IF \E i \in Emptied : chain[i] = h THEN [heap[h] EXCEPT !.used = 0]
                                                       ELSE heap[h]]
  BY <1>4 DEF Reset, ResetPool
<1>6. \A h \in 1..Len(heap) : heap[h] \in [size : Nat, used : Nat]
  BY <1>1, ElementOfSeq
<1>7. \A h \in 1..Len(heap) : /\ heap'[h] \in [size : Nat, used : Nat]
                              /\ heap'[h].size = HeapSize
                              /\ heap'[h].used = 0
  <2> SUFFICES ASSUME NEW h \in 1..Len(heap)
               PROVE  /\ heap'[h] \in [size : Nat, used : Nat]
                      /\ heap'[h].size = HeapSize
                      /\ heap'[h].used = 0
    OBVIOUS
  <2>1. CASE \E i \in Emptied : chain[i] = h
    BY <2>1, <1>1, <1>5, <1>6
  <2>2. CASE ~\E i \in Emptied : chain[i] = h
    <3>1. heap[h].used = 0
      BY <2>2, <1>1, <1>3
    <3> QED
      BY <3>1, <2>2, <1>1, <1>5, <1>6
  <2> QED
    BY <2>1, <2>2
<1>8. heap' \in Seq([size : Nat, used : Nat]) /\ Len(heap') = Len(heap)
  <2>1. heap' \in [1..Len(heap) -> [size : Nat, used : Nat]]
    BY <1>1, <1>5, <1>7
  <2> QED
    BY <2>1, <1>1, SeqDef, SMTT(30)
<1>9. HeapType'
  BY <1>1, <1>5, <1>7, <1>8 DEF HeapType
<1>10. LiveType' /\ StreamInOrder'
  BY <1>5 DEF LiveType, StreamInOrder
<1>11. 1 \in 1..Len(heap') /\ FilledTo(1)' /\ EndsIn(1)'
  <2>1. Len(heap') = Len(heap) /\ 1 \in 1..Len(heap)
    BY <1>1, <1>2, <1>8
  <2>2. heap'[1].used = 0
    BY <2>1, <1>7
  <2>3. EndsIn(1)'
    BY <2>2, <1>5 DEF EndsIn
  <2>4. FilledTo(1)'
    BY <2>1, <1>7 DEF FilledTo
  <2> QED
    BY <2>1, <2>3, <2>4
<1> QED
  BY <1>5, <1>9, <1>10, <1>11 DEF PoolInv

LEMMA EnterKeepsPool ==
  ASSUME PoolInv, ~failed, NEW s \in Strings, NEW table, Enter(s, table)
  PROVE  PoolInv'
<1>1. SizeOf[s] \in Nat \ {0}
  BY StringsAssumption
<1>2. CASE Allocate(SizeOf[s])
  BY <1>1, <1>2, InChainKeeps, NewHeapKeeps DEF Allocate
<1>3. CASE AllocationFails(SizeOf[s]) /\ failed' = TRUE
  BY <1>1, <1>3, FailureKeeps
<1> QED
  BY <1>2, <1>3 DEF Enter

\* For any sizes of heaps and strings, and any number of files: what is
\* allocated from a pool between two resets lies in the heaps without a gap
\* or an overlap, in the order in which it was allocated (ChainedPool::allocate,
\* allocateHeap and reset).
THEOREM StreamInOrderCorrect == Spec => []StreamInOrder
<1>1. Init => PoolInv
  BY InitPool
<1>2. PoolInv /\ [Next]_vars => PoolInv'
  <2> SUFFICES ASSUME PoolInv, [Next]_vars PROVE PoolInv'
    OBVIOUS
  <2>1. ASSUME ~failed, NEW s \in Strings, Lookup(s) PROVE PoolInv'
    <3>1. PICK table : Enter(s, table) \/ (UNCHANGED poolVars /\ failed' = FALSE)
      BY <2>1 DEF Lookup, EnterNew, Give
    <3> QED
      BY <3>1, <2>1, EnterKeepsPool, UntouchedPool
  <2>2. ASSUME ~failed, NEW s \in Strings, PushBack(s) PROVE PoolInv'
    BY <2>2, EnterKeepsPool DEF PushBack
  <2>5. ASSUME ~failed, NEW s \in Strings, LookupOutside(s) PROVE PoolInv'
    BY <2>5, EnterKeepsPool, UntouchedPool DEF LookupOutside, EnterNew, Give
  <2>6. ASSUME ~failed, NEW s \in Strings, PushBackOutside(s) PROVE PoolInv'
    BY <2>6, EnterKeepsPool DEF PushBackOutside
  <2>3. CASE Reset
    BY <2>3, ResetPoolKeeps
  <2>4. CASE UNCHANGED vars
    BY <2>4, UntouchedPool DEF vars, tableVars
  <2> QED
    BY <2>1, <2>2, <2>3, <2>4, <2>5, <2>6 DEF Next
<1>3. PoolInv => StreamInOrder
  BY DEF PoolInv
<1> QED
  BY <1>1, <1>2, <1>3, PTL DEF Spec
=============================================================================
