-------------------------- MODULE ReffyStringPool --------------------------
(***************************************************************************)
(* The string table of a Pex file (ReffyStringPool.cpp): an open-addressed *)
(* hash table whose entries belong to a generation, over a ChainedPool.    *)
(* A table outlives the file it was made for: AtomicCachePool hands it to  *)
(* the next file after a reset(), and only the generation number tells its *)
(* old entries from the new ones.                                          *)
(***************************************************************************)
EXTENDS ChainedPool

CONSTANTS
  Strings,        \* the strings a program puts into its tables
  SizeOf,         \* bytes of a string with its header
  HashOf,         \* hash & mask, where a search begins, and the upper half
  MaxCapacity,    \* slots of the table
  MaxGeneration,  \* bound: files a table is used for
  MaxPushed       \* bound: strings of one file, for which strings[MaxCapacity] has room

(* mask is MaxCapacity, not MaxCapacity - 1: a search may also begin at    *)
(* the entry after the last one, which is not of the table.                *)
ASSUME StringsAssumption ==
  /\ SizeOf \in [Strings -> Nat \ {0}]
  /\ \A s \in Strings : HashOf[s].slot \in 0..MaxCapacity
  /\ MaxCapacity \in Nat \ {0} /\ MaxGeneration \in Nat /\ MaxPushed \in 0..MaxCapacity

VARIABLES
  generationNumber,
  strings,     \* strings[i + 1] is the string of index i
  hashtable,   \* slot -> entry
  given,       \* history: string -> the index lookup gave for it last
  failed       \* whether the last operation ended with a fatal error

tableVars == <<generationNumber, strings, hashtable, given, failed>>
vars == <<poolVars, tableVars>>

Slots == 0..(MaxCapacity - 1)
NoIndex == -1

Init ==
  /\ PoolInit
  /\ generationNumber = 1
  /\ strings = <<>>
  /\ hashtable = [e \in Slots |-> [generation |-> 0, index |-> 0, upper |-> 0]]
  /\ given = [s \in Strings |-> NoIndex]
  /\ failed = FALSE

Stale(e) == hashtable[e].generation # generationNumber

(* mutant of Holds: equal hashes are taken for equal strings *)
HoldsHash(e, s) == ~Stale(e) /\ hashtable[e].upper = HashOf[s].upper

Holds(e, s) ==
  /\ ~Stale(e)
  /\ hashtable[e].upper = HashOf[s].upper
  /\ strings[hashtable[e].index + 1] = s

(* The search for s begins behind the table.                               *)
Outside(s) == HashOf[s].slot = MaxCapacity

(* find(): the first slot from the string's own on that holds it or is of  *)
(* an older generation.  A table without either keeps the loop going round *)
(* for ever, which no action stands for.                                   *)
Distance(e, s) == (e - HashOf[s].slot) % MaxCapacity

Stops(s) == {e \in Slots : Stale(e) \/ Holds(e, s)}

IsFound(e, s) ==
  /\ e \in Stops(s)
  /\ \A d \in Stops(s) : Distance(e, s) <= Distance(d, s)

Written(e, s) == [hashtable EXCEPT ![e] = [generation |-> generationNumber,
                                           index |-> Len(strings),
                                           upper |-> HashOf[s].upper]]

(* push_back_with_hash(), and the table after it *)
Enter(s, table) ==
  \/ /\ Allocate(SizeOf[s])
     /\ strings' = Append(strings, s)
     /\ hashtable' = table
     /\ failed' = FALSE
  \/ /\ AllocationFails(SizeOf[s])
     /\ failed' = TRUE
     /\ UNCHANGED <<strings, hashtable>>

EnterNew(s, table) ==
  /\ Enter(s, table)
  /\ given' = [given EXCEPT ![s] = IF failed' THEN @ ELSE Len(strings)]

Give(s, i) ==
  /\ given' = [given EXCEPT ![s] = i]
  /\ failed' = FALSE
  /\ UNCHANGED <<poolVars, strings, hashtable>>

Lookup(s) ==
  /\ ~Outside(s)
  /\ \E e \in Slots :
       /\ IsFound(e, s)
       /\ \/ ~Stale(e) /\ Give(s, hashtable[e].index)
          \/ Stale(e) /\ Len(strings) < MaxPushed /\ EnterNew(s, Written(e, s))
  /\ UNCHANGED generationNumber

(* A file that is read brings its strings in its own order, and may bring  *)
(* one of them twice.                                                      *)
PushBack(s) ==
  /\ ~Outside(s) /\ Len(strings) < MaxPushed
  /\ \E e \in Slots : IsFound(e, s) /\ Enter(s, Written(e, s))
  /\ UNCHANGED <<generationNumber, given>>

(* A search from behind the table never comes back to it.  What it reads   *)
(* there is undefined: it may end at an entry that byIndex() shows to be   *)
(* for s (one that an earlier push of s wrote there), at anything that it  *)
(* takes for a stale entry, or in a crash, after which nothing happens.    *)
(* What a push then writes there is written to somebody else's memory.     *)
LookupOutside(s) ==
  /\ Outside(s)
  /\ \/ \E i \in DOMAIN strings : strings[i] = s /\ Give(s, i - 1)
     \/ Len(strings) < MaxPushed /\ EnterNew(s, hashtable)
  /\ UNCHANGED generationNumber

PushBackOutside(s) ==
  /\ Outside(s) /\ Len(strings) < MaxPushed
  /\ Enter(s, hashtable)
  /\ UNCHANGED <<generationNumber, given>>

(* The next file acquires the table. *)
Reset ==
  /\ generationNumber < MaxGeneration
  /\ generationNumber' = generationNumber + 1
  /\ strings' = <<>>
  /\ given' = [s \in Strings |-> NoIndex]
  /\ failed' = FALSE
  /\ ResetPool
  /\ UNCHANGED hashtable

(* The exception of a failed allocation ends the work on the file. *)
Next == \/ ~failed /\ \E s \in Strings :
               Lookup(s) \/ PushBack(s) \/ LookupOutside(s) \/ PushBackOutside(s)
        \/ Reset

Spec == Init /\ [][Next]_vars

-----------------------------------------------------------------------------
IndexNamesString ==
  \A s \in Strings :
    given[s] # NoIndex => given[s] < Len(strings) /\ strings[given[s] + 1] = s

NoStringLost ==
  \A i \in DOMAIN strings : Outside(strings[i]) \/ \E e \in Slots :
    IsFound(e, strings[i]) /\ Holds(e, strings[i])

(* An index that lookup gave for a string names that string for as long as *)
(* the file lives, whatever collides with it, is pushed again, was in the  *)
(* table for an earlier file or is searched behind the table; and every    *)
(* string whose search begins in the table is found again, however that    *)
(* search was displaced when the string was entered, so lookup enters it   *)
(* only once.                                                              *)
TableFaithful == IndexNamesString /\ NoStringLost

(* The memory of the pool is handed out in the order of the chain, without *)
(* a gap and without an overlap, also from heaps that were used before a   *)
(* reset: what CapricaBinaryWriter relies on when it writes the heaps one  *)
(* after the other, and what keeps two strings apart.                      *)
Before(a, b) ==
  \/ Position(a.heap) < Position(b.heap) /\ b.at = 0
  \/ a.heap = b.heap /\ a.at + a.size = b.at

StreamInOrder ==
  /\ \A i \in DOMAIN live :
       live[i].at + live[i].size <= heap[live[i].heap].size
  /\ \A i \in 1..(Len(live) - 1) : Before(live[i], live[i + 1])
=============================================================================
