--------------------------- MODULE FileOffsetPool ---------------------------
(***************************************************************************)
(* A growing array of offsets (FileOffsetPool.h) kept in a chain of heaps, *)
(* which the first read after a write appends to a flat array.             *)
(* A pool is a record; its operations return the pool they leave.          *)
(***************************************************************************)
EXTENDS Integers, Sequences, SequencesExt

CONSTANT OffsetsPerHeap

ASSUME OffsetsPerHeapAssumption == OffsetsPerHeap \in Nat \ {0}

EmptyPool == [heaps |-> <<(<<>>)>>, current |-> 1, flat |-> <<>>, size |-> 0]

(* A heap made behind the current one drops those that followed it, which  *)
(* are the empty ones an earlier flatten() left.                           *)
PushBack(p, offset) ==
  IF Len(p.heaps[p.current]) >= OffsetsPerHeap
  THEN [p EXCEPT !.size = @ + 1,
                 !.heaps = Append(SubSeq(@, 1, p.current), <<offset>>),
                 !.current = @ + 1]
  ELSE [p EXCEPT !.size = @ + 1, !.heaps[p.current] = Append(@, offset)]

PushAll(p, offsets) ==
  LET after[i \in 0..Len(offsets)] ==
        IF i = 0 THEN p ELSE PushBack(after[i - 1], offsets[i])
  IN after[Len(offsets)]

Filled(p) ==
  {i \in DOMAIN p.heaps : \A j \in 1..i : p.heaps[j] # <<>>}

(* mutant of Flatten: the heaps keep their offsets *)
FlattenAndKeep(p) ==
  IF p.size = Len(p.flat) THEN p
  ELSE [p EXCEPT !.flat = @ \o FlattenSeq([i \in Filled(p) |-> p.heaps[i]])]

Flatten(p) ==
  IF p.size = Len(p.flat) THEN p
  ELSE [p EXCEPT !.flat = @ \o FlattenSeq([i \in Filled(p) |-> p.heaps[i]]),
                 !.heaps = [i \in DOMAIN @ |-> IF i \in Filled(p) THEN <<>> ELSE @[i]],
                 !.current = 1]

(* std::lower_bound over begin() and end(): the index of the first offset  *)
(* that is not below the one asked for.                                    *)
LowerBound(p, offset) ==
  Cardinality({i \in DOMAIN Flatten(p).flat : Flatten(p).flat[i] < offset})
=============================================================================
