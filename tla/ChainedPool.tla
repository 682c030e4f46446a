---------------------------- MODULE ChainedPool ----------------------------
(***************************************************************************)
(* A pool that hands out memory from a chain of heaps (ChainedPool.cpp).   *)
(* One thread uses a pool.  Heaps are numbered in the order of their       *)
(* creation; heap 1 is the one inside of the pool object.                  *)
(***************************************************************************)
EXTENDS Integers, Sequences, SequencesExt

CONSTANT HeapSize   \* bytes of an ordinary heap

ASSUME HeapSizeAssumption == HeapSize \in Nat \ {0}

VARIABLES
  chain,     \* the heaps in the order of their next pointers
  heap,      \* what each heap holds: its size and the bytes taken from it
  current,   \* the heap allocations are tried in first
  live       \* history: the allocations since the last reset, oldest first

poolVars == <<chain, heap, current, live>>

Position(h) == CHOOSE i \in DOMAIN chain : chain[i] = h

FreeBytes(h) == heap[h].size - heap[h].used

(* Heap::tryAlloc succeeds only when a byte remains. *)
CanHold(free, size) == free > size

PoolInit ==
  /\ chain = <<1>>
  /\ heap = <<[size |-> HeapSize, used |-> 0]>>
  /\ current = 1
  /\ live = <<>>

Take(h, size) ==
  /\ heap' = [heap EXCEPT ![h].used = @ + size]
  /\ live' = Append(live, [heap |-> h, at |-> heap[h].used, size |-> size])

(* mutant of Candidates: the search begins at the first heap *)
AllHeaps == DOMAIN chain

(* The heaps allocate() walks over: from the current one to the end. *)
Candidates == {i \in DOMAIN chain : i >= Position(current)}

Fitting(size) == {i \in Candidates : CanHold(FreeBytes(chain[i]), size)}

AllocateInChain(size) ==
  /\ size <= HeapSize
  /\ \E i \in Fitting(size) :
       /\ \A j \in Fitting(size) : i <= j
       /\ Take(chain[i], size)
       /\ current' = chain[i]
  /\ UNCHANGED chain

(* allocHeap(): a heap of its own size goes behind the first one, an       *)
(* ordinary one to the end of the chain.                                   *)
NewHeap(newSize, size) ==
  LET h == Len(heap) + 1 IN
  /\ CanHold(newSize, size)
  /\ heap' = Append(heap, [size |-> newSize, used |-> size])
  /\ live' = Append(live, [heap |-> h, at |-> 0, size |-> size])
  /\ chain' = IF newSize = size THEN InsertAt(chain, 2, h) ELSE Append(chain, h)
  /\ current' = IF size > HeapSize THEN current ELSE h

AllocateHeap(size) ==
  /\ size > HeapSize \/ Fitting(size) = {}
  /\ NewHeap(IF size > HeapSize THEN size ELSE HeapSize, size)

(* The fresh heap cannot hold the allocation it was made for: the code     *)
(* gives up with "Failed while allocating a Heap!".                        *)
AllocationFails(size) ==
  /\ size > HeapSize \/ Fitting(size) = {}
  /\ ~CanHold(IF size > HeapSize THEN size ELSE HeapSize, size)
  /\ current' = IF size > HeapSize THEN current ELSE Last(chain)
  /\ UNCHANGED <<chain, heap, live>>

Allocate(size) == AllocateInChain(size) \/ AllocateHeap(size)

(* reset() empties heaps until it meets an empty one, and deletes those    *)
(* that are not of the ordinary size.                                      *)
Emptied == {i \in DOMAIN chain : \A j \in 1..i : heap[chain[j]].used # 0}

(* The heaps of another size that are deleted on the way. *)
Deleted == {chain[i] : i \in {j \in Emptied : heap[chain[j]].size # HeapSize}}

ResetPool ==
  /\ current' = 1
  /\ heap' = [h \in DOMAIN heap |->
                IF \E i \in Emptied : chain[i] = h THEN [heap[h] EXCEPT !.used = 0]
                                                   ELSE heap[h]]
  /\ chain' = IF Deleted = {} THEN chain ELSE SelectSeq(chain, LAMBDA h : h \notin Deleted)
  /\ live' = <<>>
=============================================================================
