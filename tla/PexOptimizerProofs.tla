------------------------- MODULE PexOptimizerProofs -------------------------
(***************************************************************************)
(* What the optimizer makes of the code of any function: code that is      *)
(* whole stays so, and an engine that runs the optimized code does what it *)
(* does with the code as it was, only without the instructions removed.    *)
(*                                                                         *)
(* The place of an engine in the one code is mapped to NewPlace of it in   *)
(* the other, and an instruction that is removed leaves the engine where   *)
(* it is in the other, as do all between it and its target.                *)
(***************************************************************************)
EXTENDS PexOptimizer, FiniteSetTheorems, WellFoundedInduction, TLAPS

-----------------------------------------------------------------------------
(* Induction.  A set of numbers takes the place of the predicate.          *)

\* What holds of 0, and of n + 1 when it holds of n, holds of every number.
LEMMA Induction ==
  ASSUME NEW S, 0 \in S, \A n \in Nat : n \in S => n + 1 \in S
  PROVE  \A n \in Nat : n \in S
<1> DEFINE T == {n \in Nat : n \notin S}
           R == OpToRel(<, Nat)
<1> SUFFICES ASSUME T # {} PROVE FALSE
  OBVIOUS
<1>1. IsWellFoundedOn(R, Nat)
  BY NatLessThanWellFounded
<1>2. \A a, b \in Nat : <<a, b>> \in R <=> a < b
  BY DEF OpToRel
<1>3. PICK m \in T : \A k \in T : ~ (<<k, m>> \in R)
  <2>1. T \in SUBSET Nat /\ T # {}
    OBVIOUS
  <2> HIDE DEF T, R
  <2> QED
    BY <1>1, <2>1, WFMin
<1> HIDE DEF R
<1>4. m \in Nat \ {0} /\ m - 1 \in Nat /\ m - 1 < m /\ (m - 1) + 1 = m
  OBVIOUS
<1>5. m - 1 \in S
  <2>1. <<m - 1, m>> \in R
    BY <1>2, <1>4
  <2> QED
    BY <1>3, <1>4, <2>1
<1> QED
  BY <1>4, <1>5

-----------------------------------------------------------------------------
(* The code of a function. *)

Kinds == {"id", "int", "tmp", "label", "none", "invalid"}

Value(N) == [k : Kinds, n : N \cup Int]
InstructionOf(N) ==
  [op : STRING, name : N, args : Seq(Value(N)), variadicArgs : Seq(Value(N))]

IsCode(code) == \E N : code \in Seq(InstructionOf(N))

(* Each jump goes to an instruction or right behind the last. *)
Jumps(code) ==
  \A i \in 1..Len(code) :
    IsBranch(code[i].op) =>
      /\ DistanceArg(code[i]) \in 1..Len(code[i].args)
      /\ code[i].args[DistanceArg(code[i])].n \in Int
      /\ branchTarget(code, i) \in 1..(Len(code) + 1)

SelfAssign(ins) == ins.op = "assign" /\ SameValue(ins.args[1], ins.args[2])

-----------------------------------------------------------------------------
(* What is removed. *)

DeadAt(code, dead, i) ==
  \/ SelfAssign(code[i])
  \/ /\ code[i].op = "jmp"
     /\ branchTarget(code, i) > i
     /\ \A j \in (i + 1)..(branchTarget(code, i) - 1) : dead[j]

\* Whether an instruction is removed is known from what is of those behind it.
LEMMA DeadLocal ==
  ASSUME NEW code, IsCode(code), Jumps(code), NEW i \in 1..Len(code), NEW g, NEW h,
         \A j \in (i + 1)..Len(code) : g[j] = h[j]
  PROVE  DeadAt(code, g, i) = DeadAt(code, h, i)
<1>1. code[i].op = "jmp" => branchTarget(code, i) \in 1..(Len(code) + 1)
  BY DEF Jumps, IsBranch
<1>2. Len(code) \in Nat
  BY DEF IsCode
<1>3. ASSUME code[i].op = "jmp", NEW j \in (i + 1)..(branchTarget(code, i) - 1)
      PROVE  g[j] = h[j]
  <2>1. j \in (i + 1)..Len(code)
    BY <1>1, <1>2, <1>3
  <2> QED
    BY <2>1
<1> DEFINE b == branchTarget(code, i)
<1> HIDE DEF b
<1>4. code[i].op = "jmp" =>
        (\A j \in (i + 1)..(b - 1) : g[j]) = (\A j \in (i + 1)..(b - 1) : h[j])
  BY <1>3, Zenon DEF b
<1> QED
  BY <1>4, Zenon DEF DeadAt, b

\* Killed is well defined.
LEMMA KilledDef ==
  ASSUME NEW code, IsCode(code), Jumps(code)
  PROVE  \E dead : /\ dead = [i \in 1..Len(code) |-> DeadAt(code, dead, i)]
                   /\ Killed(code) = {i \in 1..Len(code) : dead[i]}
<1> DEFINE n == Len(code)
           D == 1..n
           Upto(g, m) == /\ g = [i \in D |-> g[i]]
                         /\ \A i \in D : i > n - m => g[i] = DeadAt(code, g, i)
           T == {m \in Nat : \E g : Upto(g, m)}
<1>1. n \in Nat
  BY DEF IsCode
<1>2. DOMAIN code = 1..n
  BY DEF IsCode
<1>3. n = Len(code)
  OBVIOUS
<1> HIDE DEF n
<1>4. 0 \in T
  <2> DEFINE g == [i \in D |-> FALSE]
  <2>1. g = [i \in D |-> g[i]]
    OBVIOUS
  <2>2. \A i \in D : ~(i > n - 0)
    BY <1>1
  <2> HIDE DEF g, D
  <2> QED
    BY <2>1, <2>2
<1>5. ASSUME NEW m \in Nat, m \in T PROVE m + 1 \in T
  <2>1. PICK g : Upto(g, m)
    BY <1>5
  <2> DEFINE j == n - m
             h == [i \in D |-> IF i = j THEN DeadAt(code, g, i) ELSE g[i]]
  <2>2. ASSUME NEW i \in D, i >= j PROVE h[i] = DeadAt(code, h, i)
    <3>1. DeadAt(code, g, i) = DeadAt(code, h, i)
      <4>1. ASSUME NEW k \in (i + 1)..n PROVE g[k] = h[k]
        <5>1. k \in D /\ k # j
          BY <1>1, <2>2
        <5> HIDE DEF D, j
        <5> QED
          BY <5>1
      <4> HIDE DEF h
      <4> QED
        BY <1>3, <4>1, DeadLocal
    <3>2. i > j => g[i] = DeadAt(code, g, i)
      BY <2>1
    <3>3. h[i] = IF i = j THEN DeadAt(code, g, i) ELSE g[i]
      BY <2>2, Zenon
    <3>4. i = j \/ i > j
      BY <1>1, <2>2
    <3> HIDE DEF h, j, D
    <3> QED
      BY <3>1, <3>2, <3>3, <3>4, Zenon
  <2>3. Upto(h, m + 1)
    <3>1. h = [i \in D |-> h[i]]
      OBVIOUS
    <3>2. \A i \in D : i > n - (m + 1) => i >= j
      BY <1>1
    <3> HIDE DEF h, j, D
    <3> QED
      BY <2>2, <3>1, <3>2
  <2> HIDE DEF h, Upto
  <2> QED
    BY <2>3
<1> HIDE DEF T
<1>6. n \in T
  BY <1>1, <1>4, <1>5, Induction
<1>7. PICK g : Upto(g, n)
  BY <1>6 DEF T
<1>8. g = [i \in D |-> DeadAt(code, g, i)]
  <2>1. \A i \in D : i > n - n
    BY <1>1
  <2> HIDE DEF D
  <2>2. \A i \in D : g[i] = DeadAt(code, g, i)
    BY <1>7, <2>1, Zenon
  <2> QED
    BY <1>7, <2>2, Zenon
<1> DEFINE P(f) == f = [i \in DOMAIN code |-> DeadAt(code, f, i)]
<1>9. Killed(code) = {i \in DOMAIN code : (CHOOSE f : P(f))[i]}
  BY Zenon DEF Killed, DeadAt, SelfAssign
<1>10. P(CHOOSE f : P(f))
  <2>1. P(g)
    BY <1>2, <1>8, Zenon
  <2> HIDE DEF P
  <2> QED
    BY <2>1, Zenon
<1> QED
  BY <1>2, <1>3, <1>9, <1>10, Zenon

\* What is removed: assignments of a variable to itself, and jumps forward over
\* nothing but what is removed.
LEMMA KilledFact ==
  ASSUME NEW code, IsCode(code), Jumps(code)
  PROVE  /\ Killed(code) \in SUBSET (1..Len(code))
         /\ \A i \in Killed(code) :
              \/ SelfAssign(code[i])
              \/ /\ code[i].op = "jmp" /\ branchTarget(code, i) > i
                 /\ \A j \in (i + 1)..(branchTarget(code, i) - 1) : j \in Killed(code)
<1>1. PICK dead : /\ dead = [i \in 1..Len(code) |-> DeadAt(code, dead, i)]
                  /\ Killed(code) = {i \in 1..Len(code) : dead[i]}
  BY KilledDef
<1>2. Killed(code) \in SUBSET (1..Len(code))
  BY <1>1
<1>3. ASSUME NEW i \in Killed(code)
      PROVE  \/ SelfAssign(code[i])
             \/ /\ code[i].op = "jmp" /\ branchTarget(code, i) > i
                /\ \A j \in (i + 1)..(branchTarget(code, i) - 1) : j \in Killed(code)
  <2>1. i \in 1..Len(code) /\ dead[i]
    BY <1>1, <1>3
  <2>2. DeadAt(code, dead, i)
    BY <1>1, <2>1, Zenon
  <2> DEFINE b == branchTarget(code, i)
  <2>3. code[i].op = "jmp" => b \in 1..(Len(code) + 1)
    BY <2>1 DEF Jumps, IsBranch
  <2>4. Len(code) \in Nat
    BY DEF IsCode
  <2>5. ASSUME code[i].op = "jmp", NEW j \in (i + 1)..(b - 1), dead[j] PROVE j \in Killed(code)
    <3>1. j \in 1..Len(code)
      <4> HIDE DEF b
      <4> QED
        BY <2>1, <2>3, <2>4, <2>5
    <3> QED
      BY <1>1, <2>5, <3>1, Zenon
  <2> QED
    BY <2>2, <2>5, Zenon DEF DeadAt
<1> QED
  BY <1>2, <1>3

-----------------------------------------------------------------------------
(* The places of the instructions left. *)

Before(k, i) == {j \in k : j < i}

\* The first instruction keeps its place, and the others are one further than
\* the one before them, or where that one was if it is removed.
LEMMA NewPlaceStep ==
  ASSUME NEW n \in Nat, NEW k \in SUBSET (1..n)
  PROVE  /\ NewPlace(k, 1) = 1
         /\ \A i \in 1..(n + 1) : NewPlace(k, i) \in Int
         /\ \A i \in 1..n : NewPlace(k, i + 1) = IF i \in k THEN NewPlace(k, i)
                                                 ELSE NewPlace(k, i) + 1
<1>1. IsFiniteSet(k)
  <2>1. IsFiniteSet(1..n)
    <3>1. 1 \in Int /\ n \in Int
      OBVIOUS
    <3> QED
      BY <3>1, FS_Interval
  <2> QED
    BY <2>1, FS_Subset
<1>2. \A i : IsFiniteSet(Before(k, i)) /\ Cardinality(Before(k, i)) \in Nat
  <2> SUFFICES ASSUME NEW i PROVE IsFiniteSet(Before(k, i)) /\ Cardinality(Before(k, i)) \in Nat
    OBVIOUS
  <2>1. Before(k, i) \in SUBSET k
    BY DEF Before
  <2>2. IsFiniteSet(Before(k, i))
    BY <1>1, <2>1, FS_Subset
  <2> QED
    BY <2>2, FS_CardinalityType
<1>3. \A i : NewPlace(k, i) = i - Cardinality(Before(k, i))
  BY Zenon DEF NewPlace, Before
<1>4. NewPlace(k, 1) = 1
  <2>1. Before(k, 1) = {}
    <3>1. \A j \in k : ~(j < 1)
      OBVIOUS
    <3> QED
      BY <3>1, Zenon DEF Before
  <2>2. Cardinality(Before(k, 1)) = 0
    BY <2>1, FS_EmptySet
  <2> QED
    BY <1>3, <2>2
<1>5. ASSUME NEW i \in 1..n
      PROVE  NewPlace(k, i + 1) = IF i \in k THEN NewPlace(k, i) ELSE NewPlace(k, i) + 1
  <2>1. CASE i \in k
    <3>1. Before(k, i + 1) = Before(k, i) \cup {i} /\ i \notin Before(k, i)
      <4>1. \A j \in k : j < i + 1 <=> (j < i \/ j = i)
        OBVIOUS
      <4>2. ~(i < i)
        OBVIOUS
      <4> QED
        BY <2>1, <4>1, <4>2, Zenon DEF Before
    <3>2. Cardinality(Before(k, i + 1)) = Cardinality(Before(k, i)) + 1
      BY <1>2, <3>1, FS_AddElement
    <3>3. NewPlace(k, i) = i - Cardinality(Before(k, i))
      BY <1>3
    <3>4. NewPlace(k, i + 1) = (i + 1) - Cardinality(Before(k, i + 1))
      BY <1>3
    <3> QED
      BY <1>2, <2>1, <3>2, <3>3, <3>4
  <2>2. CASE i \notin k
    <3>1. Before(k, i + 1) = Before(k, i)
      <4>1. \A j \in k : j < i + 1 <=> (j < i \/ j = i)
        OBVIOUS
      <4> QED
        BY <2>2, <4>1, Zenon DEF Before
    <3>2. NewPlace(k, i) = i - Cardinality(Before(k, i))
      BY <1>3
    <3>3. NewPlace(k, i + 1) = (i + 1) - Cardinality(Before(k, i + 1))
      BY <1>3
    <3> QED
      BY <1>2, <2>2, <3>1, <3>2, <3>3
  <2> QED
    BY <2>1, <2>2
<1>6. ASSUME NEW i \in 1..(n + 1) PROVE NewPlace(k, i) \in Int
  BY <1>2, <1>3
<1> QED
  BY <1>4, <1>5, <1>6

\* The places are in the order of the instructions, and different for those
\* that are left.
LEMMA NewPlaceOrder ==
  ASSUME NEW n \in Nat, NEW k \in SUBSET (1..n)
  PROVE  \A i, j \in 1..(n + 1) :
           i < j => /\ NewPlace(k, i) <= NewPlace(k, j)
                    /\ i \notin k => NewPlace(k, i) < NewPlace(k, j)
                    /\ (\A m \in i..(j - 1) : m \in k) => NewPlace(k, i) = NewPlace(k, j)
<1> DEFINE p(i) == NewPlace(k, i)
           S == {d \in Nat : \A i \in 1..n : i + 1 + d <= n + 1 =>
                   /\ p(i) <= p(i + 1 + d)
                   /\ i \notin k => p(i) < p(i + 1 + d)
                   /\ (\A m \in i..(i + d) : m \in k) => p(i) = p(i + 1 + d)}
<1>1. \A i \in 1..(n + 1) : p(i) \in Int
  BY NewPlaceStep
<1>2. \A i \in 1..n : p(i + 1) = IF i \in k THEN p(i) ELSE p(i) + 1
  BY NewPlaceStep
<1> HIDE DEF p
<1>3. 0 \in S
  <2> SUFFICES ASSUME NEW i \in 1..n
               PROVE  /\ p(i) <= p(i + 1 + 0)
                      /\ i \notin k => p(i) < p(i + 1 + 0)
                      /\ (\A m \in i..(i + 0) : m \in k) => p(i) = p(i + 1 + 0)
    OBVIOUS
  <2>1. i + 1 + 0 = i + 1 /\ i \in i..(i + 0) /\ i \in 1..(n + 1)
    OBVIOUS
  <2>2. p(i + 1 + 0) = p(i + 1)
    BY <2>1
  <2> QED
    BY <1>1, <1>2, <2>1, <2>2
<1>4. ASSUME NEW d \in Nat, d \in S PROVE d + 1 \in S
  <2> SUFFICES ASSUME NEW i \in 1..n, i + 1 + (d + 1) <= n + 1
               PROVE  /\ p(i) <= p(i + 1 + (d + 1))
                      /\ i \notin k => p(i) < p(i + 1 + (d + 1))
                      /\ (\A m \in i..(i + (d + 1)) : m \in k) => p(i) = p(i + 1 + (d + 1))
    OBVIOUS
  <2> DEFINE j == i + 1 + d
  <2>1. /\ j \in 1..n /\ j \in 1..(n + 1) /\ i + 1 + (d + 1) = j + 1 /\ j \in i..(i + (d + 1))
        /\ \A m \in i..(i + d) : m \in i..(i + (d + 1))
    OBVIOUS
  <2>2. /\ p(i) <= p(j)
        /\ i \notin k => p(i) < p(j)
        /\ (\A m \in i..(i + d) : m \in k) => p(i) = p(j)
    BY <1>4
  <2> HIDE DEF j
  <2>3. p(j + 1) = IF j \in k THEN p(j) ELSE p(j) + 1
    BY <1>2, <2>1
  <2>4. p(i) \in Int /\ p(j) \in Int
    BY <1>1, <2>1
  <2>5. p(i + 1 + (d + 1)) = p(j + 1)
    BY <2>1
  <2>6. (\A m \in i..(i + (d + 1)) : m \in k) => p(i) = p(j + 1)
    BY <2>1, <2>2, <2>3
  <2> QED
    BY <2>2, <2>3, <2>4, <2>5, <2>6
<1>5. \A d \in Nat : d \in S
  <2> HIDE DEF S
  <2> QED
    BY <1>3, <1>4, Induction
<1>6. ASSUME NEW i \in 1..(n + 1), NEW j \in 1..(n + 1), i < j
      PROVE  /\ p(i) <= p(j)
             /\ i \notin k => p(i) < p(j)
             /\ (\A m \in i..(j - 1) : m \in k) => p(i) = p(j)
  <2> DEFINE d == j - i - 1
  <2>1. d \in Nat /\ i \in 1..n /\ i + 1 + d = j /\ i + d = j - 1
    BY <1>6
  <2>2. d \in S
    BY <1>5, <2>1
  <2> HIDE DEF d
  <2>3. /\ p(i) <= p(i + 1 + d)
        /\ i \notin k => p(i) < p(i + 1 + d)
        /\ (\A m \in i..(i + d) : m \in k) => p(i) = p(i + 1 + d)
    BY <2>1, <2>2
  <2> QED
    BY <2>1, <2>3
<1> QED
  BY <1>6 DEF p

-----------------------------------------------------------------------------
(* What is left. *)

\* FlattenSeq puts the sequences one behind the other: it is what a function that
\* does so comes to.
LEMMA FlattenSeqFact ==
  ASSUME NEW S, NEW heaps \in Seq(Seq(S)), NEW f, f[0] = <<>>,
         \A i \in 1..Len(heaps) : f[i] = f[i - 1] \o heaps[i]
  PROVE  FlattenSeq(heaps) = f[Len(heaps)]
<1> DEFINE n == Len(heaps)
<1>1. n \in Nat /\ \A i \in 1..n : heaps[i] \in Seq(S)
  OBVIOUS
<1>2. CASE n = 0
  <2>1. FlattenSeq(heaps) = heaps /\ heaps = <<>>
    BY <1>2 DEF FlattenSeq
  <2> QED
    BY <1>2, <2>1
<1>3. CASE n # 0
  <2> DEFINE At2(g, i) == IF i = 1 THEN heaps[i] ELSE g[i - 1] \o heaps[i]
             P(g) == g = [i \in 1..n |-> At2(g, i)]
             h == [i \in 1..n |-> f[i]]
             c == CHOOSE g : P(g)
  <2>1. FlattenSeq(heaps) = c[n]
    BY <1>3 DEF FlattenSeq
  <2>2. \A i \in 1..n : f[i] = f[i - 1] \o heaps[i]
    OBVIOUS
  <2> HIDE DEF n
  <2>3. f[1] = heaps[1]
    <3>1. 1 \in 1..n /\ 1 - 1 = 0
      BY <1>1, <1>3
    <3>2. f[1] = f[1 - 1] \o heaps[1]
      BY <2>2, <3>1
    <3>3. heaps[1] \in Seq(S)
      BY <1>1, <3>1
    <3>4. f[1 - 1] = <<>>
      BY <3>1
    <3> QED
      BY <3>2, <3>3, <3>4
  <2>4. P(h)
    <3>1. ASSUME NEW i \in 1..n PROVE f[i] = At2(h, i)
      <4>1. i = 1 => f[i] = heaps[i]
        BY <2>3
      <4>2. i # 1 => i - 1 \in 1..n
        BY <1>1
      <4> QED
        BY <2>2, <4>1, <4>2
    <3> HIDE DEF At2
    <3> QED
      BY <3>1
  <2>5. P(c)
    <3> HIDE DEF P, h
    <3> QED
      BY <2>4, Zenon
  <2> HIDE DEF c
  <2>6. \A i \in 1..n : c[i] = At2(c, i)
    BY <2>5
  <2> DEFINE T == {i \in Nat : i + 1 <= n => c[i + 1] = f[i + 1]}
  <2>7. 0 \in T
    <3> SUFFICES ASSUME 1 <= n PROVE c[1] = f[1]
      OBVIOUS
    <3>1. 1 \in 1..n
      BY <1>1
    <3> QED
      BY <2>3, <2>6, <3>1
  <2>8. ASSUME NEW i \in Nat, i \in T PROVE i + 1 \in T
    <3> SUFFICES ASSUME i + 2 <= n PROVE c[i + 2] = f[i + 2]
      OBVIOUS
    <3>1. c[i + 1] = f[i + 1] /\ i + 2 \in 1..n /\ i + 2 # 1 /\ (i + 2) - 1 = i + 1
      BY <1>1, <2>8
    <3>2. c[i + 2] = c[i + 1] \o heaps[i + 2]
      BY <2>6, <3>1
    <3>3. f[i + 2] = f[i + 1] \o heaps[i + 2]
      BY <2>2, <3>1
    <3> QED
      BY <3>1, <3>2, <3>3
  <2> HIDE DEF T
  <2>9. n - 1 \in T
    <3>1. n - 1 \in Nat
      BY <1>1, <1>3
    <3> QED
      BY <2>7, <2>8, <3>1, Induction
  <2>10. (n - 1) + 1 = n /\ n <= n
    BY <1>1
  <2>11. c[n] = f[n]
    BY <2>9, <2>10 DEF T
  <2> QED
    BY <2>1, <2>11 DEF n
<1> QED
  BY <1>2, <1>3

\* The elements of s whose places are not in k.
KeptOf(s, k) ==
  FlattenSeq([i \in DOMAIN s |-> IF i \in k THEN <<>> ELSE <<s[i]>>])

(* r is what is left of s: the elements at their new places, and no others. *)
LeftOf(s, k, r) ==
  /\ Len(r) = NewPlace(k, Len(s) + 1) - 1
  /\ \A i \in 1..Len(s) :
       i \notin k => NewPlace(k, i) \in 1..Len(r) /\ r[NewPlace(k, i)] = s[i]
  /\ \A m \in 1..Len(r) : \E i \in 1..Len(s) : i \notin k /\ NewPlace(k, i) = m

\* Every place is that of an element which is left.
LEMMA Onto ==
  ASSUME NEW n \in Nat, NEW k \in SUBSET (1..n)
  PROVE  \A j \in 0..n : /\ NewPlace(k, j + 1) \in 1..(j + 1)
                         /\ \A m \in 1..(NewPlace(k, j + 1) - 1) :
                              \E i \in 1..j : i \notin k /\ NewPlace(k, i) = m
<1> DEFINE p(i) == NewPlace(k, i)
           T == {j \in Nat : j <= n =>
                   /\ p(j + 1) \in 1..(j + 1)
                   /\ \A m \in 1..(p(j + 1) - 1) : \E i \in 1..j : i \notin k /\ p(i) = m}
<1>1. p(1) = 1 /\ \A i \in 1..n : p(i + 1) = IF i \in k THEN p(i) ELSE p(i) + 1
  BY NewPlaceStep
<1> HIDE DEF p
<1>2. 0 \in T
  <2>1. p(0 + 1) = 1
    BY <1>1
  <2> QED
    BY <2>1
<1>3. ASSUME NEW j \in Nat, j \in T PROVE j + 1 \in T
  <2> SUFFICES ASSUME j + 1 <= n
               PROVE  /\ p((j + 1) + 1) \in 1..((j + 1) + 1)
                      /\ \A m \in 1..(p((j + 1) + 1) - 1) :
                           \E i \in 1..(j + 1) : i \notin k /\ p(i) = m
    OBVIOUS
  <2> DEFINE a == p(j + 1)
             b == p((j + 1) + 1)
  <2>1. a \in 1..(j + 1) /\ \A m \in 1..(a - 1) : \E i \in 1..j : i \notin k /\ p(i) = m
    BY <1>3
  <2>2. b = IF j + 1 \in k THEN a ELSE a + 1
    <3>1. j + 1 \in 1..n
      OBVIOUS
    <3> QED
      BY <1>1, <3>1
  <2>3. ASSUME NEW m \in 1..(b - 1) PROVE \E i \in 1..(j + 1) : i \notin k /\ p(i) = m
    <3>1. CASE m \in 1..(a - 1)
      <4>1. PICK i \in 1..j : i \notin k /\ p(i) = m
        BY <2>1, <3>1
      <4>2. i \in 1..(j + 1)
        OBVIOUS
      <4> QED
        BY <4>1, <4>2
    <3>2. CASE m \notin 1..(a - 1)
      <4> HIDE DEF a, b
      <4>1. j + 1 \notin k /\ m = a
        BY <2>1, <2>2, <3>2
      <4>2. j + 1 \in 1..(j + 1)
        OBVIOUS
      <4> QED
        BY <4>1, <4>2 DEF a
    <3> QED
      BY <3>1, <3>2
  <2>4. b \in 1..((j + 1) + 1)
    <3> HIDE DEF a, b
    <3> QED
      BY <2>1, <2>2
  <2> HIDE DEF a
  <2> QED
    BY <2>3, <2>4
<1>4. \A j \in Nat : j \in T
  <2> HIDE DEF T
  <2> QED
    BY <1>2, <1>3, Induction
<1> QED
  BY <1>4 DEF p

\* What is left of a sequence is where it should be.
LEMMA KeptFact ==
  ASSUME NEW S, NEW s \in Seq(S), NEW k \in SUBSET (1..Len(s))
  PROVE  LeftOf(s, k, KeptOf(s, k)) /\ KeptOf(s, k) \in Seq(S)
<1> DEFINE n == Len(s)
           p(i) == NewPlace(k, i)
           old(m) == CHOOSE i \in 1..n : i \notin k /\ p(i) = m
           f == [i \in 0..n |-> [m \in 1..(p(i + 1) - 1) |-> s[old(m)]]]
           heaps == [i \in DOMAIN s |-> IF i \in k THEN <<>> ELSE <<s[i]>>]
<1>1. n \in Nat /\ k \in SUBSET (1..n) /\ DOMAIN s = 1..n /\ \A i \in 1..n : s[i] \in S
  OBVIOUS
<1>2. heaps \in Seq(Seq(S)) /\ Len(heaps) = n /\ DOMAIN heaps = 1..n
  <2>1. ASSUME NEW i \in 1..n PROVE (IF i \in k THEN <<>> ELSE <<s[i]>>) \in Seq(S)
    <3>1. <<>> \in Seq(S) /\ s[i] \in S
      BY <1>1
    <3> QED
      BY <3>1
  <2> QED
    BY <1>1, <2>1
<1>3. \A i \in 1..n : heaps[i] = IF i \in k THEN <<>> ELSE <<s[i]>>
  BY <1>1
<1>4. KeptOf(s, k) = FlattenSeq(heaps)
  BY DEF KeptOf
<1> HIDE DEF n, heaps
<1>5. /\ p(1) = 1 /\ \A i \in 1..(n + 1) : p(i) \in Int
      /\ \A i \in 1..n : p(i + 1) = IF i \in k THEN p(i) ELSE p(i) + 1
  BY <1>1, NewPlaceStep
<1>6. \A i, j \in 1..(n + 1) : i < j => p(i) <= p(j) /\ (i \notin k => p(i) < p(j))
  BY <1>1, NewPlaceOrder
<1>7. \A j \in 0..n : /\ p(j + 1) \in 1..(j + 1)
                      /\ \A m \in 1..(p(j + 1) - 1) : \E i \in 1..j : i \notin k /\ p(i) = m
  BY <1>1, Onto
<1> HIDE DEF p
<1>8. ASSUME NEW i \in 1..n, i \notin k PROVE old(p(i)) = i
  <2>1. ASSUME NEW j \in 1..n, j \notin k, p(j) = p(i) PROVE j = i
    <3>1. i \in 1..(n + 1) /\ j \in 1..(n + 1) /\ p(i) \in Int
      BY <1>1, <1>5
    <3>2. ~(i < j) /\ ~(j < i)
      BY <1>6, <1>8, <2>1, <3>1
    <3> QED
      BY <3>1, <3>2
  <2> QED
    BY <1>8, <2>1, Zenon
<1>9. ASSUME NEW j \in 0..n, NEW m \in 1..(p(j + 1) - 1) PROVE old(m) \in 1..n /\ s[old(m)] \in S
  <2>1. PICK i \in 1..j : i \notin k /\ p(i) = m
    BY <1>7
  <2>2. i \in 1..n
    BY <1>1
  <2>3. old(m) = i
    <3>1. old(p(i)) = i
      BY <1>8, <2>1, <2>2
    <3> HIDE DEF old
    <3> QED
      BY <2>1, <3>1
  <2> QED
    BY <1>1, <2>2, <2>3
<1>10. \A j \in 0..n : /\ f[j] = [m \in 1..(p(j + 1) - 1) |-> s[old(m)]]
                       /\ f[j] \in Seq(S) /\ Len(f[j]) = p(j + 1) - 1
  <2> SUFFICES ASSUME NEW j \in 0..n
               PROVE  /\ f[j] = [m \in 1..(p(j + 1) - 1) |-> s[old(m)]]
                      /\ f[j] \in Seq(S) /\ Len(f[j]) = p(j + 1) - 1
    OBVIOUS
  <2>1. f[j] = [m \in 1..(p(j + 1) - 1) |-> s[old(m)]]
    BY Zenon
  <2>2. p(j + 1) - 1 \in Nat
    BY <1>7
  <2>3. \A m \in 1..(p(j + 1) - 1) : s[old(m)] \in S
    BY <1>9
  <2> HIDE DEF f, old
  <2> QED
    BY <2>1, <2>2, <2>3
<1>11. f[0] = <<>>
  <2>1. 0 \in 0..n /\ 0 + 1 = 1
    BY <1>1
  <2>2. f[0] \in Seq(S) /\ Len(f[0]) = p(0 + 1) - 1
    BY <1>10, <2>1
  <2> HIDE DEF f
  <2> QED
    BY <1>5, <2>1, <2>2
<1>12. ASSUME NEW i \in 1..n PROVE f[i] = f[i - 1] \o heaps[i]
  <2>1. i - 1 \in 0..n /\ (i - 1) + 1 = i /\ i \in 0..n
    BY <1>1
  <2> DEFINE x == f[i - 1]
             y == f[i]
  <2>2. /\ x = [m \in 1..(p(i) - 1) |-> s[old(m)]] /\ x \in Seq(S) /\ Len(x) = p(i) - 1
        /\ y = [m \in 1..(p(i + 1) - 1) |-> s[old(m)]] /\ y \in Seq(S) /\ Len(y) = p(i + 1) - 1
    BY <1>10, <2>1
  <2> HIDE DEF f, x, y
  <2>3. CASE i \in k
    <3>1. heaps[i] = <<>> /\ y = x
      BY <1>3, <1>5, <2>2, <2>3
    <3> QED
      BY <2>2, <3>1 DEF x, y
  <2>4. CASE i \notin k
    <3>1. heaps[i] = <<s[i]>> /\ s[i] \in S
      BY <1>1, <1>3, <2>4
    <3>2. p(i + 1) = p(i) + 1 /\ p(i) \in Nat \ {0} /\ p(i) <= p(i)
      <4>1. p(i) \in 1..i
        BY <1>7, <2>1
      <4> QED
        BY <1>5, <2>4, <4>1
    <3>3. y[p(i)] = s[i]
      <4>1. p(i) \in 1..(p(i + 1) - 1)
        BY <3>2
      <4>2. y[p(i)] = s[old(p(i))]
        BY <2>2, <4>1, Zenon
      <4> QED
        BY <1>8, <2>4, <4>2
    <3>4. \A m \in 1..(p(i) - 1) : y[m] = x[m]
      <4> HIDE DEF old
      <4> SUFFICES ASSUME NEW m \in 1..(p(i) - 1) PROVE y[m] = x[m]
        OBVIOUS
      <4>1. m \in 1..(p(i + 1) - 1)
        BY <3>2
      <4>2. y[m] = s[old(m)] /\ x[m] = s[old(m)]
        BY <2>2, <4>1, Zenon
      <4> QED
        BY <4>2
    <3> DEFINE q == p(i)
               z == s[i]
    <3>5. /\ y \in Seq(S) /\ Len(y) = q /\ x \in Seq(S) /\ Len(x) = q - 1 /\ q \in Nat \ {0}
          /\ z \in S /\ y[q] = z /\ \A m \in 1..(q - 1) : y[m] = x[m]
      BY <2>2, <3>1, <3>2, <3>3, <3>4
    <3> HIDE DEF q, z
    <3>6. y = x \o <<z>>
      BY <3>5
    <3> QED
      BY <3>1, <3>6 DEF x, y, z
  <2> QED
    BY <2>3, <2>4
<1> DEFINE r == KeptOf(s, k)
<1>13. r = f[n]
  <2> HIDE DEF f
  <2> QED
    BY <1>2, <1>4, <1>11, <1>12, FlattenSeqFact
<1>14. /\ r = [m \in 1..(p(n + 1) - 1) |-> s[old(m)]] /\ r \in Seq(S) /\ Len(r) = p(n + 1) - 1
  <2>1. n \in 0..n
    BY <1>1
  <2> HIDE DEF f
  <2> QED
    BY <1>10, <1>13, <2>1
<1> HIDE DEF r, f
<1>15. ASSUME NEW i \in 1..n, i \notin k PROVE p(i) \in 1..Len(r) /\ r[p(i)] = s[i]
  <2>1. p(i) \in 1..(p(n + 1) - 1)
    <3>1. i \in 1..(n + 1) /\ n + 1 \in 1..(n + 1) /\ i < n + 1 /\ i - 1 \in 0..n /\ (i - 1) + 1 = i
      BY <1>1
    <3>2. p(i) < p(n + 1)
      BY <1>6, <1>15, <3>1
    <3>3. p(i) \in 1..i
      BY <1>7, <3>1
    <3>4. p(n + 1) \in Int
      BY <1>5, <3>1
    <3> QED
      BY <3>2, <3>3, <3>4
  <2>2. r[p(i)] = s[old(p(i))]
    BY <1>14, <2>1, Zenon
  <2> HIDE DEF old
  <2> QED
    BY <1>8, <1>14, <1>15, <2>1, <2>2
<1>16. \A m \in 1..Len(r) : \E i \in 1..n : i \notin k /\ p(i) = m
  <2>1. n \in 0..n
    BY <1>1
  <2> HIDE DEF old
  <2> QED
    BY <1>7, <1>14, <2>1
<1>17. LeftOf(s, k, r)
  <2> HIDE DEF old
  <2> QED
    BY <1>14, <1>15, <1>16 DEF LeftOf, p, n
<1> HIDE DEF old
<1> QED
  BY <1>14, <1>17 DEF r

-----------------------------------------------------------------------------
(* The optimized function. *)

IsFunction(f) ==
  \E N, L : f \in [code : Seq(InstructionOf(N)), lines : Seq(Nat), locals : L,
                   broken : BOOLEAN, failed : BOOLEAN]

(* A function that can be handed over: its jumps stay in it, there is a    *)
(* line for every instruction, and the lines never go back.                *)
Whole(f) ==
  /\ IsFunction(f)
  /\ Jumps(f.code)
  /\ Len(f.lines) = Len(f.code)
  /\ \A i, j \in 1..Len(f.lines) : i < j => f.lines[i] <= f.lines[j]

(* An instruction but for the distance of a branch. *)
Bare(ins) ==
  IF IsBranch(ins.op) THEN [ins EXCEPT !.args[DistanceArg(ins)] = Lit(0)] ELSE ins

\* A branch is only changed in its distance, and another instruction not at all.
LEMMA RetargetFact ==
  ASSUME NEW N, NEW code \in Seq(InstructionOf(N)), Jumps(code), NEW i \in 1..Len(code), NEW k,
         NewPlace(k, branchTarget(code, i)) - NewPlace(k, i) \in Int \/ ~IsBranch(code[i].op)
  PROVE  LET ins == Retarget(code, k, i) IN
           /\ ins \in InstructionOf(N) /\ ins.op = code[i].op /\ Bare(ins) = Bare(code[i])
           /\ IsBranch(ins.op) =>
                /\ DistanceArg(ins) \in 1..Len(ins.args)
                /\ ins.args[DistanceArg(ins)].n
                     = NewPlace(k, branchTarget(code, i)) - NewPlace(k, i)
<1> DEFINE c == code[i]
           d == DistanceArg(c)
           q == NewPlace(k, branchTarget(code, i)) - NewPlace(k, i)
           ins == Retarget(code, k, i)
<1>1. c \in InstructionOf(N)
  OBVIOUS
<1>2. CASE ~IsBranch(c.op)
  <2>1. ins = c
    BY <1>2 DEF Retarget
  <2> QED
    BY <1>1, <1>2, <2>1
<1>3. CASE IsBranch(c.op)
  <2>1. d \in 1..Len(c.args) /\ q \in Int
    BY <1>3 DEF Jumps
  <2>2. ins = [c EXCEPT !.args[d] = Lit(q)]
    BY <1>3 DEF Retarget
  <2> DEFINE u == Lit(q)
             z == Lit(0)
             a == c.args
             w == [a EXCEPT ![d] = u]
  <2>3. a \in Seq(Value(N)) /\ c = [c EXCEPT !.args = a]
    BY <1>1 DEF InstructionOf
  <2> HIDE DEF c, q
  <2>4. u \in Value(N) /\ u.n = q
    <3>1. u = [k |-> "int", n |-> q]
      BY DEF Lit
    <3>2. q \in N \cup Int
      BY <2>1
    <3> HIDE DEF u
    <3>3. u \in [k : Kinds, n : N \cup Int]
      BY <3>1, <3>2 DEF Kinds
    <3> QED
      BY <3>1, <3>3 DEF Value
  <2>5. ins = [c EXCEPT !.args = w]
    BY <2>2
  <2> HIDE DEF d, u, z, a, ins
  <2>6. /\ w \in Seq(Value(N)) /\ Len(w) = Len(a) /\ w[d] = u
        /\ [w EXCEPT ![d] = z] = [a EXCEPT ![d] = z]
    BY <2>1, <2>3, <2>4 DEF a
  <2> HIDE DEF w
  <2>7. ins.op = c.op /\ ins.args = w /\ ins \in InstructionOf(N)
    BY <1>1, <2>5, <2>6 DEF InstructionOf
  <2>8. DistanceArg(ins) = d
    BY <2>7 DEF DistanceArg, d
  <2>9. Bare(ins) = Bare(c)
    <3>1. Bare(ins) = [ins EXCEPT !.args = [w EXCEPT ![d] = z]]
      BY <1>3, <2>7, <2>8 DEF Bare, z
    <3>2. Bare(c) = [c EXCEPT !.args = [a EXCEPT ![d] = z]]
      BY <1>3, <2>3 DEF Bare, z, a, d
    <3>3. [ins EXCEPT !.args = [w EXCEPT ![d] = z]] = [c EXCEPT !.args = [w EXCEPT ![d] = z]]
      <4> DEFINE v == [w EXCEPT ![d] = z]
      <4> HIDE DEF v
      <4>1. [[c EXCEPT !.args = w] EXCEPT !.args = v] = [c EXCEPT !.args = v]
        BY <1>1 DEF InstructionOf
      <4> QED
        BY <2>5, <4>1 DEF v
    <3> QED
      BY <2>6, <3>1, <3>2, <3>3
  <2>10. d \in 1..Len(w)
    BY <2>1, <2>6 DEF a
  <2> QED
    BY <1>3, <2>4, <2>6, <2>7, <2>8, <2>9, <2>10 DEF c, q, ins
<1> QED
  BY <1>2, <1>3

(* code is left of c, the code before it, at the new places: each          *)
(* instruction is the same but for a distance, and a branch goes to the    *)
(* new place of what it went to.                                           *)
Moved(c, k, code) ==
  /\ Len(code) = NewPlace(k, Len(c) + 1) - 1
  /\ \A i \in 1..Len(c) : i \notin k =>
       /\ NewPlace(k, i) \in 1..Len(code)
       /\ code[NewPlace(k, i)].op = c[i].op
       /\ Bare(code[NewPlace(k, i)]) = Bare(c[i])
       /\ IsBranch(c[i].op) =>
            /\ DistanceArg(code[NewPlace(k, i)]) \in 1..Len(code[NewPlace(k, i)].args)
            /\ code[NewPlace(k, i)].args[DistanceArg(code[NewPlace(k, i)])].n
                 = NewPlace(k, branchTarget(c, i)) - NewPlace(k, i)
  /\ \A m \in 1..Len(code) : \E i \in 1..Len(c) : i \notin k /\ NewPlace(k, i) = m

\* What optimize() makes of a function: its code and its lines are moved, and the
\* rest stays.
LEMMA OptimizeFact ==
  ASSUME NEW f, Whole(f)
  PROVE  LET k == Killed(f.code) IN
           /\ IsFunction(optimize(f))
           /\ optimize(f).locals = f.locals
           /\ Moved(f.code, k, optimize(f).code)
           /\ LeftOf(f.lines, k, optimize(f).lines)
<1> DEFINE c == f.code
           k == Killed(c)
           new == [i \in DOMAIN c |-> Retarget(c, k, i)]
           g == optimize(f)
<1>1. PICK N, L : f \in [code : Seq(InstructionOf(N)), lines : Seq(Nat), locals : L,
                         broken : BOOLEAN, failed : BOOLEAN]
  BY DEF Whole, IsFunction
<1>2. c \in Seq(InstructionOf(N)) /\ f.lines \in Seq(Nat) /\ Len(f.lines) = Len(c) /\ Jumps(c)
  BY <1>1 DEF Whole
<1>3. g = [f EXCEPT !.code = KeptOf(new, k), !.lines = KeptOf(f.lines, k)]
  BY Zenon DEF optimize, KeptOf
<1> DEFINE n == Len(c)
<1>4. n \in Nat /\ DOMAIN c = 1..n
  BY <1>2
<1>5. k \in SUBSET (1..n)
  <2>1. IsCode(c)
    BY <1>2 DEF IsCode
  <2> QED
    BY <1>2, <2>1, KilledFact
<1> HIDE DEF k
<1>6. \A i \in 1..(n + 1) : NewPlace(k, i) \in Int
  <2> HIDE DEF n
  <2> QED
    BY <1>4, <1>5, NewPlaceStep
<1>7. ASSUME NEW i \in 1..n
      PROVE  LET ins == Retarget(c, k, i) IN
               /\ ins \in InstructionOf(N) /\ ins.op = c[i].op /\ Bare(ins) = Bare(c[i])
               /\ IsBranch(ins.op) =>
                    /\ DistanceArg(ins) \in 1..Len(ins.args)
                    /\ ins.args[DistanceArg(ins)].n
                         = NewPlace(k, branchTarget(c, i)) - NewPlace(k, i)
  <2>1. NewPlace(k, branchTarget(c, i)) - NewPlace(k, i) \in Int \/ ~IsBranch(c[i].op)
    <3> SUFFICES ASSUME IsBranch(c[i].op)
                 PROVE  NewPlace(k, branchTarget(c, i)) - NewPlace(k, i) \in Int
      OBVIOUS
    <3>1. branchTarget(c, i) \in 1..(n + 1)
      BY <1>2 DEF Jumps
    <3>2. i \in 1..(n + 1)
      BY <1>4
    <3>3. NewPlace(k, branchTarget(c, i)) \in Int /\ NewPlace(k, i) \in Int
      <4> HIDE DEF n, c
      <4> QED
        BY <1>6, <3>1, <3>2
    <3> HIDE DEF n, c
    <3> QED
      BY <3>3
  <2> HIDE DEF c
  <2> QED
    BY <1>2, <2>1, RetargetFact
<1> HIDE DEF c
<1>8. new \in Seq(InstructionOf(N)) /\ Len(new) = n /\ \A i \in 1..n : new[i] = Retarget(c, k, i)
  <2>1. \A i \in 1..n : Retarget(c, k, i) \in InstructionOf(N)
    BY <1>7
  <2> HIDE DEF n
  <2> QED
    BY <1>4, <2>1
<1> HIDE DEF new, n
<1>9. LeftOf(new, k, KeptOf(new, k)) /\ KeptOf(new, k) \in Seq(InstructionOf(N))
  BY <1>5, <1>8, KeptFact
<1>10. LeftOf(f.lines, k, KeptOf(f.lines, k)) /\ KeptOf(f.lines, k) \in Seq(Nat)
  BY <1>2, <1>5, KeptFact DEF n
<1>11. /\ g.code = KeptOf(new, k) /\ g.lines = KeptOf(f.lines, k) /\ g.locals = f.locals
       /\ IsFunction(g)
  <2> HIDE DEF g
  <2>1. g.code = KeptOf(new, k) /\ g.lines = KeptOf(f.lines, k) /\ g.locals = f.locals
    BY <1>1, <1>3
  <2>2. g \in [code : Seq(InstructionOf(N)), lines : Seq(Nat), locals : L,
               broken : BOOLEAN, failed : BOOLEAN]
    BY <1>1, <1>3, <1>9, <1>10
  <2> QED
    BY <2>1, <2>2 DEF IsFunction
<1> DEFINE code == g.code
<1>12. LeftOf(new, k, code)
  BY <1>9, <1>11
<1> HIDE DEF code
<1>13. Moved(c, k, code)
  <2>1. Len(code) = NewPlace(k, Len(c) + 1) - 1
    BY <1>8, <1>12 DEF LeftOf, n
  <2>2. ASSUME NEW i \in 1..n, i \notin k
        PROVE  /\ NewPlace(k, i) \in 1..Len(code)
               /\ code[NewPlace(k, i)] = Retarget(c, k, i)
    BY <1>8, <1>12, <2>2 DEF LeftOf
  <2>3. \A m \in 1..Len(code) : \E i \in 1..n : i \notin k /\ NewPlace(k, i) = m
    BY <1>8, <1>12 DEF LeftOf
  <2>4. ASSUME NEW i \in 1..n, i \notin k
        PROVE  /\ NewPlace(k, i) \in 1..Len(code)
               /\ code[NewPlace(k, i)].op = c[i].op
               /\ Bare(code[NewPlace(k, i)]) = Bare(c[i])
               /\ IsBranch(c[i].op) =>
                    /\ DistanceArg(code[NewPlace(k, i)]) \in 1..Len(code[NewPlace(k, i)].args)
                    /\ code[NewPlace(k, i)].args[DistanceArg(code[NewPlace(k, i)])].n
                         = NewPlace(k, branchTarget(c, i)) - NewPlace(k, i)
    BY <1>7, <2>2, <2>4, Zenon
  <2> QED
    BY <2>1, <2>3, <2>4, Zenon DEF Moved, n
<1> QED
  BY <1>10, <1>11, <1>13 DEF code, c, k

\* Where a jump of the optimized code goes.
LEMMA MovedTarget ==
  ASSUME NEW c, NEW k, NEW code, Moved(c, k, code), NEW i \in 1..Len(c), i \notin k,
         IsBranch(c[i].op), NewPlace(k, branchTarget(c, i)) \in Int
  PROVE  branchTarget(code, NewPlace(k, i)) = NewPlace(k, branchTarget(c, i))
<1> DEFINE m == NewPlace(k, i)
           t == NewPlace(k, branchTarget(c, i))
           d == DistanceArg(code[m])
<1>1. m \in 1..Len(code) /\ code[m].args[d].n = t - m
  BY DEF Moved
<1>2. branchTarget(code, m) = m + code[m].args[d].n
  BY DEF branchTarget
<1> HIDE DEF m, t, d
<1>3. m + (t - m) = t
  BY <1>1 DEF t
<1> QED
  BY <1>1, <1>2, <1>3 DEF m, t

\* Code that can be handed over still can be when it is optimized: its jumps stay
\* in it, and each instruction left has its line, in the order they had
\* (PexOptimizer::optimize renumbers both).
THEOREM OptimizedIsWhole ==
  ASSUME NEW f, Whole(f)
  PROVE  Whole(optimize(f)) /\ optimize(f).locals = f.locals
<1> DEFINE c == f.code
           k == Killed(c)
           g == optimize(f)
           code == g.code
           n == Len(c)
           p(i) == NewPlace(k, i)
<1>1. /\ IsFunction(g) /\ g.locals = f.locals /\ Moved(c, k, code)
      /\ LeftOf(f.lines, k, g.lines)
  BY OptimizeFact
<1>2. IsCode(c) /\ Jumps(c) /\ n \in Nat /\ Len(f.lines) = n
  <2>1. IsCode(c)
    BY DEF Whole, IsFunction, IsCode
  <2> QED
    BY <2>1 DEF Whole, IsCode
<1>3. k \in SUBSET (1..n)
  BY <1>2, KilledFact
<1> HIDE DEF c, k, g, code, n
<1>4. \A i \in 1..(n + 1) : p(i) \in Int
  BY <1>2, <1>3, NewPlaceStep
<1>5. \A i, j \in 1..(n + 1) : i < j => p(i) <= p(j) /\ (i \notin k => p(i) < p(j))
  BY <1>2, <1>3, NewPlaceOrder
<1>6. \A j \in 0..n : p(j + 1) \in 1..(j + 1)
  BY <1>2, <1>3, Onto
<1> HIDE DEF p
<1>7. Len(code) = p(n + 1) - 1
  BY <1>1 DEF Moved, n, p
<1>8. ASSUME NEW i \in 1..(n + 1) PROVE p(i) \in 1..(Len(code) + 1)
  <2>1. p(i) \in 1..i
    <3>1. i - 1 \in 0..n /\ (i - 1) + 1 = i
      BY <1>2
    <3> QED
      BY <1>6, <3>1
  <2>2. p(i) <= p(n + 1)
    <3>1. n + 1 \in 1..(n + 1) /\ (i < n + 1 \/ i = n + 1) /\ p(i) \in Int
      BY <1>2, <1>4
    <3> QED
      BY <1>5, <3>1
  <2>3. p(n + 1) \in Int /\ p(i) \in Int
    <3>1. n + 1 \in 1..(n + 1)
      BY <1>2
    <3> QED
      BY <1>4, <3>1
  <2> QED
    BY <1>7, <2>1, <2>2, <2>3
<1>9. Jumps(code)
  <2> SUFFICES ASSUME NEW m \in 1..Len(code), IsBranch(code[m].op)
               PROVE  /\ DistanceArg(code[m]) \in 1..Len(code[m].args)
                      /\ code[m].args[DistanceArg(code[m])].n \in Int
                      /\ branchTarget(code, m) \in 1..(Len(code) + 1)
    BY DEF Jumps
  <2>1. PICK i \in 1..n : i \notin k /\ p(i) = m
    BY <1>1 DEF Moved, n, p
  <2>2. /\ code[m].op = c[i].op
        /\ IsBranch(c[i].op) =>
             /\ DistanceArg(code[m]) \in 1..Len(code[m].args)
             /\ code[m].args[DistanceArg(code[m])].n = NewPlace(k, branchTarget(c, i)) - m
    BY <1>1, <2>1 DEF Moved, n, p
  <2>3. branchTarget(c, i) \in 1..(n + 1)
    BY <1>2, <2>1, <2>2 DEF Jumps, n
  <2>4. p(branchTarget(c, i)) \in Int /\ p(branchTarget(c, i)) \in 1..(Len(code) + 1)
    BY <1>4, <1>8, <2>3
  <2>5. branchTarget(code, m) = p(branchTarget(c, i))
    BY <1>1, <2>1, <2>2, <2>4, MovedTarget DEF n, p
  <2>6. p(branchTarget(c, i)) - m \in Int
    BY <2>4
  <2> QED
    BY <2>2, <2>4, <2>5, <2>6 DEF p
<1> DEFINE lines == g.lines
<1>10. /\ Len(lines) = p(n + 1) - 1
       /\ \A i \in 1..n : i \notin k => lines[p(i)] = f.lines[i]
       /\ \A m \in 1..Len(lines) : \E i \in 1..n : i \notin k /\ p(i) = m
  BY <1>1, <1>2 DEF LeftOf, p
<1>11. \A i, j \in 1..n : i < j => f.lines[i] <= f.lines[j]
  BY <1>2 DEF Whole
<1>12. \A i \in 1..n : f.lines[i] \in Nat
  BY <1>2 DEF Whole, IsFunction
<1> HIDE DEF lines
<1>13. ASSUME NEW m \in 1..Len(lines), NEW l \in 1..Len(lines), m < l PROVE lines[m] <= lines[l]
  <2>1. PICK i \in 1..n : i \notin k /\ p(i) = m
    BY <1>10
  <2>2. PICK j \in 1..n : j \notin k /\ p(j) = l
    BY <1>10
  <2>3. i \in 1..(n + 1) /\ j \in 1..(n + 1)
    BY <1>2
  <2>4. i < j
    <3>1. j < i => p(j) < p(i)
      BY <1>5, <2>2, <2>3
    <3> QED
      BY <1>13, <2>1, <2>2, <2>3, <3>1
  <2>5. lines[m] = f.lines[i] /\ lines[l] = f.lines[j]
    BY <1>10, <2>1, <2>2
  <2> QED
    BY <1>11, <2>4, <2>5
<1> QED
  BY <1>1, <1>7, <1>9, <1>10, <1>13 DEF Whole, lines, code, g

-----------------------------------------------------------------------------
(* The engine.  It is no part of the repository: of it only this is        *)
(* assumed, that an instruction's effect does not depend on where it       *)
(* stands, that a jump and an assignment of a variable to itself change    *)
(* nothing, and that only a branch goes elsewhere than to the next.        *)

CONSTANTS
  fn,      \* the function
  Start,   \* the stores an engine may begin with
  Does     \* <<instruction, store, store after it, whether it branches>>

VARIABLES at, store

engine == <<at, store>>

IsEngine ==
  \A ins, before, after, branches :
    <<ins, before, after, branches>> \in Does =>
      /\ branches \in BOOLEAN
      /\ branches => IsBranch(ins.op)
      /\ ins.op = "jmp" => branches /\ after = before
      /\ SelfAssign(ins) => after = before

Step(code, i, before, j, after) ==
  /\ i \in 1..Len(code)
  /\ \E branches \in BOOLEAN :
       /\ <<Bare(code[i]), before, after, branches>> \in Does
       /\ j = IF branches THEN branchTarget(code, i) ELSE i + 1

\* An instruction that is removed only takes the engine further, to where it is
\* already in the optimized code.
LEMMA RemovedStep ==
  ASSUME NEW f, Whole(f), IsEngine, NEW i \in Killed(f.code), NEW j, NEW before, NEW after,
         Step(f.code, i, before, j, after)
  PROVE  /\ j \in (i + 1)..(Len(f.code) + 1) /\ after = before
         /\ NewPlace(Killed(f.code), j) = NewPlace(Killed(f.code), i)
<1> DEFINE c == f.code
           k == Killed(c)
           n == Len(c)
           b == branchTarget(c, i)
<1>1. IsCode(c) /\ Jumps(c) /\ n \in Nat
  <2>1. IsCode(c)
    BY DEF Whole, IsFunction, IsCode
  <2> QED
    BY <2>1 DEF Whole, IsCode
<1>2. /\ k \in SUBSET (1..n)
      /\ \/ SelfAssign(c[i])
         \/ /\ c[i].op = "jmp" /\ b > i
            /\ \A m \in (i + 1)..(b - 1) : m \in k
  BY <1>1, KilledFact
<1>3. i \in 1..n /\ i \in k
  BY <1>2
<1>4. PICK branches \in BOOLEAN :
        /\ <<Bare(c[i]), before, after, branches>> \in Does
        /\ j = IF branches THEN b ELSE i + 1
  BY DEF Step
<1>5. Bare(c[i]).op = c[i].op
  <2>1. PICK N : c \in Seq(InstructionOf(N))
    BY <1>1 DEF IsCode
  <2>2. c[i] \in InstructionOf(N)
    BY <1>3, <2>1
  <2> DEFINE x == c[i]
             d == DistanceArg(x)
  <2> HIDE DEF x, d
  <2>3. [x EXCEPT !.args[d] = Lit(0)].op = x.op
    BY <2>2 DEF InstructionOf, x
  <2> QED
    BY <2>3 DEF Bare, x, d
<1> HIDE DEF c, k, n, b
<1>6. CASE SelfAssign(c[i])
  <2>1. ~IsBranch(c[i].op)
    BY <1>6, Zenon DEF SelfAssign, IsBranch
  <2>2. Bare(c[i]) = c[i]
    BY <2>1 DEF Bare
  <2>3. after = before /\ ~branches
    BY <1>4, <1>6, <2>1, <2>2 DEF IsEngine
  <2>4. NewPlace(k, i + 1) = NewPlace(k, i)
    BY <1>1, <1>2, <1>3, NewPlaceStep
  <2> QED
    BY <1>1, <1>3, <1>4, <2>3, <2>4 DEF k, n, c
<1>7. CASE c[i].op = "jmp" /\ b > i /\ \A m \in (i + 1)..(b - 1) : m \in k
  <2>1. after = before /\ branches
    BY <1>4, <1>5, <1>7 DEF IsEngine
  <2>2. b \in 1..(n + 1)
    BY <1>1, <1>3, <1>7 DEF Jumps, IsBranch, b, n
  <2>3. i < b /\ i \in 1..(n + 1)
    BY <1>1, <1>3, <1>7, <2>2
  <2>4. \A m \in i..(b - 1) : m \in k
    <3>1. \A m \in i..(b - 1) : m = i \/ m \in (i + 1)..(b - 1)
      BY <1>3, <2>2
    <3> QED
      BY <1>3, <1>7, <3>1
  <2>5. NewPlace(k, i) = NewPlace(k, b)
    BY <1>1, <1>2, <2>2, <2>3, <2>4, NewPlaceOrder
  <2> QED
    BY <1>1, <1>3, <1>4, <2>1, <2>2, <2>3, <2>5 DEF k, n, c
<1> QED
  BY <1>2, <1>6, <1>7

\* What is left of an instruction in the optimized code, and where it goes.
LEMMA LeftStep ==
  ASSUME NEW f, Whole(f), IsEngine, NEW i \in 1..Len(f.code), i \notin Killed(f.code)
  PROVE  /\ NewPlace(Killed(f.code), i) \in 1..Len(optimize(f).code)
         /\ Bare(optimize(f).code[NewPlace(Killed(f.code), i)]) = Bare(f.code[i])
         /\ NewPlace(Killed(f.code), i + 1) = NewPlace(Killed(f.code), i) + 1
         /\ IsBranch(f.code[i].op) =>
              /\ branchTarget(f.code, i) \in 1..(Len(f.code) + 1)
              /\ branchTarget(optimize(f).code, NewPlace(Killed(f.code), i))
                   = NewPlace(Killed(f.code), branchTarget(f.code, i))
<1> DEFINE c == f.code
           k == Killed(c)
           n == Len(c)
           code == optimize(f).code
<1>1. Moved(c, k, code)
  BY OptimizeFact
<1>2. IsCode(c) /\ Jumps(c) /\ n \in Nat
  <2>1. IsCode(c)
    BY DEF Whole, IsFunction, IsCode
  <2> QED
    BY <2>1 DEF Whole, IsCode
<1>3. k \in SUBSET (1..n)
  BY <1>2, KilledFact
<1>4. i \in 1..n /\ i \notin k
  OBVIOUS
<1> HIDE DEF c, k, n, code
<1>5. NewPlace(k, i) \in 1..Len(code) /\ Bare(code[NewPlace(k, i)]) = Bare(c[i])
  BY <1>1, <1>4 DEF Moved, n
<1>6. NewPlace(k, i + 1) = NewPlace(k, i) + 1
  BY <1>2, <1>3, <1>4, NewPlaceStep
<1>7. ASSUME IsBranch(c[i].op)
      PROVE  /\ branchTarget(c, i) \in 1..(n + 1)
             /\ branchTarget(code, NewPlace(k, i)) = NewPlace(k, branchTarget(c, i))
  <2>1. branchTarget(c, i) \in 1..(n + 1)
    BY <1>2, <1>4, <1>7 DEF Jumps, n
  <2>2. NewPlace(k, branchTarget(c, i)) \in Int
    BY <1>2, <1>3, <2>1, NewPlaceStep
  <2> QED
    BY <1>1, <1>4, <1>7, <2>1, <2>2, MovedTarget DEF n
<1> QED
  BY <1>5, <1>6, <1>7 DEF c, k, n, code

\* A step of the code is one of the optimized code from the new place to the new
\* place, if its instruction is left; if not, the engine stays.
LEMMA StepIsKept ==
  ASSUME NEW f, Whole(f), IsEngine, NEW i, NEW j, NEW before, NEW after,
         Step(f.code, i, before, j, after)
  PROVE  /\ j \in 1..(Len(f.code) + 1)
         /\ \/ Step(optimize(f).code, NewPlace(Killed(f.code), i), before,
                    NewPlace(Killed(f.code), j), after)
            \/ after = before /\ NewPlace(Killed(f.code), j) = NewPlace(Killed(f.code), i)
<1> DEFINE k == Killed(f.code)
<1>1. i \in 1..Len(f.code) /\ Len(f.code) \in Nat
  BY DEF Step, Whole, IsFunction
<1>2. CASE i \in k
  <2>1. /\ j \in (i + 1)..(Len(f.code) + 1) /\ after = before
        /\ NewPlace(k, j) = NewPlace(k, i)
    BY <1>2, RemovedStep
  <2>2. j \in 1..(Len(f.code) + 1)
    BY <1>1, <2>1
  <2> QED
    BY <2>1, <2>2
<1>3. CASE i \notin k
  <2>1. PICK branches \in BOOLEAN :
          /\ <<Bare(f.code[i]), before, after, branches>> \in Does
          /\ j = IF branches THEN branchTarget(f.code, i) ELSE i + 1
    BY DEF Step
  <2> DEFINE m == NewPlace(k, i)
             code == optimize(f).code
  <2>2. /\ m \in 1..Len(code) /\ Bare(code[m]) = Bare(f.code[i])
        /\ NewPlace(k, i + 1) = m + 1
        /\ IsBranch(f.code[i].op) =>
             /\ branchTarget(f.code, i) \in 1..(Len(f.code) + 1)
             /\ branchTarget(code, m) = NewPlace(k, branchTarget(f.code, i))
    BY <1>1, <1>3, LeftStep
  <2>3. branches => IsBranch(f.code[i].op)
    <3>1. branches => IsBranch(Bare(f.code[i]).op)
      BY <2>1 DEF IsEngine
    <3>2. ~IsBranch(f.code[i].op) => Bare(f.code[i]) = f.code[i]
      BY DEF Bare
    <3> QED
      BY <3>1, <3>2
  <2> HIDE DEF m, code, k
  <2>4. NewPlace(k, j) = IF branches THEN branchTarget(code, m) ELSE m + 1
    BY <2>1, <2>2, <2>3
  <2>5. Step(code, m, before, NewPlace(k, j), after)
    BY <2>1, <2>2, <2>4 DEF Step
  <2>6. j \in 1..(Len(f.code) + 1)
    BY <1>1, <2>1, <2>2, <2>3
  <2> QED
    BY <2>5, <2>6 DEF m, code, k
<1> QED
  BY <1>2, <1>3

\* A run of the function and a run of the optimized function.  The place in the
\* second is the new place of that in the first.
Run ==
  /\ at = 1 /\ store \in Start
  /\ [][Step(fn.code, at, store, at', store')]_engine

PlaceLeft == NewPlace(Killed(fn.code), at)

OptimizedRun ==
  /\ PlaceLeft = 1 /\ store \in Start
  /\ [][Step(optimize(fn).code, PlaceLeft, store, PlaceLeft', store')]_<<PlaceLeft, store>>

\* The optimizer keeps what a function does: whatever the instructions do, every
\* run of the function is, at the new places, a run of the optimized function
\* with the same stores, and it has reached the end of the one when it has
\* reached the end of the other.
THEOREM OptimizedRunsTheSame ==
  ASSUME Whole(fn), IsEngine
  PROVE  Run => OptimizedRun /\ [](at = Len(fn.code) + 1 => PlaceLeft = Len(optimize(fn).code) + 1)
<1>1. at = 1 => PlaceLeft = 1
  <2>1. IsCode(fn.code) /\ Jumps(fn.code) /\ Len(fn.code) \in Nat
    <3>1. IsCode(fn.code)
      BY DEF Whole, IsFunction, IsCode
    <3> QED
      BY <3>1 DEF Whole, IsCode
  <2>2. Killed(fn.code) \in SUBSET (1..Len(fn.code))
    BY <2>1, KilledFact
  <2> QED
    BY <2>1, <2>2, NewPlaceStep DEF PlaceLeft
<1>2. [Step(fn.code, at, store, at', store')]_engine
      => [Step(optimize(fn).code, PlaceLeft, store, PlaceLeft', store')]_<<PlaceLeft, store>>
  <2>1. CASE Step(fn.code, at, store, at', store')
    <3>1. \/ Step(optimize(fn).code, NewPlace(Killed(fn.code), at), store,
                  NewPlace(Killed(fn.code), at'), store')
          \/ /\ store' = store
             /\ NewPlace(Killed(fn.code), at') = NewPlace(Killed(fn.code), at)
      BY <2>1, StepIsKept
    <3> QED
      BY <3>1 DEF PlaceLeft
  <2>2. CASE UNCHANGED engine
    BY <2>2 DEF engine, PlaceLeft
  <2> QED
    BY <2>1, <2>2
<1>3. at = Len(fn.code) + 1 => PlaceLeft = Len(optimize(fn).code) + 1
  <2>1. Moved(fn.code, Killed(fn.code), optimize(fn).code)
    BY OptimizeFact
  <2>2. Len(optimize(fn).code) \in Nat
    BY OptimizedIsWhole DEF Whole, IsFunction
  <2>3. Len(optimize(fn).code) = NewPlace(Killed(fn.code), Len(fn.code) + 1) - 1
    BY <2>1 DEF Moved
  <2>4. NewPlace(Killed(fn.code), Len(fn.code) + 1) \in Int
    <3>1. IsCode(fn.code) /\ Jumps(fn.code) /\ Len(fn.code) \in Nat
      <4>1. IsCode(fn.code)
        BY DEF Whole, IsFunction, IsCode
      <4> QED
        BY <4>1 DEF Whole, IsCode
    <3>2. Killed(fn.code) \in SUBSET (1..Len(fn.code))
      BY <3>1, KilledFact
    <3>3. Len(fn.code) + 1 \in 1..(Len(fn.code) + 1)
      BY <3>1
    <3> QED
      BY <3>1, <3>2, <3>3, NewPlaceStep
  <2> QED
    BY <2>2, <2>3, <2>4 DEF PlaceLeft
<1> QED
  BY <1>1, <1>2, <1>3, PTL DEF Run, OptimizedRun

\* Nothing is added: what an engine can do at an instruction of the optimized code
\* it can do at the one that was there before, and a removed one takes it
\* forward in the code, so that it comes to one that is left or to the end.
THEOREM OptimizerAddsNothing ==
  ASSUME NEW f, Whole(f), IsEngine, NEW i \in 1..Len(f.code), NEW before, NEW after
  PROVE  /\ i \in Killed(f.code) =>
              \A j : Step(f.code, i, before, j, after) =>
                       j > i /\ NewPlace(Killed(f.code), j) = NewPlace(Killed(f.code), i)
         /\ i \notin Killed(f.code) =>
              \A m : Step(optimize(f).code, NewPlace(Killed(f.code), i), before, m, after) =>
                       \E j : Step(f.code, i, before, j, after) /\ NewPlace(Killed(f.code), j) = m
<1> DEFINE k == Killed(f.code)
<1>1. i \in k => \A j : Step(f.code, i, before, j, after) =>
                          j > i /\ NewPlace(k, j) = NewPlace(k, i)
  <2> SUFFICES ASSUME i \in k, NEW j, Step(f.code, i, before, j, after)
               PROVE  j > i /\ NewPlace(k, j) = NewPlace(k, i)
    OBVIOUS
  <2>1. j \in (i + 1)..(Len(f.code) + 1) /\ NewPlace(k, j) = NewPlace(k, i)
    BY RemovedStep
  <2> QED
    BY <2>1
<1>2. ASSUME i \notin k, NEW m, Step(optimize(f).code, NewPlace(k, i), before, m, after)
      PROVE  \E j : Step(f.code, i, before, j, after) /\ NewPlace(k, j) = m
  <2> DEFINE p == NewPlace(k, i)
             code == optimize(f).code
  <2>1. /\ p \in 1..Len(code) /\ Bare(code[p]) = Bare(f.code[i])
        /\ NewPlace(k, i + 1) = p + 1
        /\ IsBranch(f.code[i].op) => branchTarget(code, p) = NewPlace(k, branchTarget(f.code, i))
    BY <1>2, LeftStep
  <2>2. PICK branches \in BOOLEAN :
          /\ <<Bare(code[p]), before, after, branches>> \in Does
          /\ m = IF branches THEN branchTarget(code, p) ELSE p + 1
    BY <1>2 DEF Step
  <2> HIDE DEF p, code, k
  <2>3. branches => IsBranch(f.code[i].op)
    <3>1. branches => IsBranch(Bare(f.code[i]).op)
      BY <2>1, <2>2 DEF IsEngine
    <3>2. ~IsBranch(f.code[i].op) => Bare(f.code[i]) = f.code[i]
      BY DEF Bare
    <3> QED
      BY <3>1, <3>2
  <2> DEFINE j == IF branches THEN branchTarget(f.code, i) ELSE i + 1
  <2>4. Step(f.code, i, before, j, after)
    BY <2>1, <2>2 DEF Step
  <2>5. NewPlace(k, j) = m
    BY <2>1, <2>2, <2>3
  <2> HIDE DEF j
  <2> QED
    BY <2>4, <2>5
<1> QED
  BY <1>1, <1>2
=============================================================================
