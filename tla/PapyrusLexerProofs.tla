------------------------- MODULE PapyrusLexerProofs -------------------------
(***************************************************************************)
(* Proofs about the lexer and its table of line offsets, for every set of  *)
(* texts and every size of the pool's heaps.                               *)
(*                                                                         *)
(* The lexer is a set of recursive functions over the text.  Each of them  *)
(* is shown to be well defined (a lemma ...Def: the function exists and    *)
(* satisfies its equation), and then what it returns (a lemma ...Fact) by  *)
(* induction over the text, forward or backward.  Three sections follow    *)
(* from them: a token and the line offsets pushed with it (GoodToken and   *)
(* LinesIn), the pool of offsets (PoolHolds), and the lookahead buffer     *)
(* (Sound, and Ahead as long as no continuation took a token).  The        *)
(* invariant LexInv puts them together.                                    *)
(*                                                                         *)
(* Conclusions that are equations are often given a name (Along, Reseen,   *)
(* Peers, ...): the provers match a named predicate with the lemma that    *)
(* concludes it where they do not match the equation.                      *)
(***************************************************************************)
EXTENDS PapyrusLexer, FiniteSetTheorems, WellFoundedInduction, TLAPS

Char == STRING \ {EOF}

-----------------------------------------------------------------------------
(* Induction.  A set of numbers takes the place of the predicate.          *)

\* A set of natural numbers that is not empty has a smallest element.
LEMMA Least ==
  ASSUME NEW S \in SUBSET Nat, S # {}
  PROVE  \E m \in S : \A k \in S : m <= k
<1> DEFINE R == OpToRel(<, Nat)
<1>1. IsWellFoundedOn(R, Nat)
  BY NatLessThanWellFounded
<1>2. \A a, b \in Nat : <<a, b>> \in R <=> a < b
  BY DEF OpToRel
<1> HIDE DEF R
<1>3. PICK x \in S : \A y \in S : ~ (<<y, x>> \in R)
  BY <1>1, WFMin
<1>4. ASSUME NEW y \in S PROVE x <= y
  <2>1. <<y, x>> \notin R
    BY <1>3
  <2> QED
    BY <1>2, <2>1
<1> QED
  BY <1>4

\* What holds of 0, and of n + 1 when it holds of n, holds of every number.
LEMMA Induction ==
  ASSUME NEW S, 0 \in S, \A n \in Nat : n \in S => n + 1 \in S
  PROVE  \A n \in Nat : n \in S
<1> DEFINE T == {n \in Nat : n \notin S}
<1> SUFFICES ASSUME T # {} PROVE FALSE
  OBVIOUS
<1>1. PICK m \in T : \A k \in T : m <= k
  BY Least
<1>2. m \in Nat \ {0} /\ m - 1 \in Nat
  BY <1>1
<1>3. m - 1 \in S
  BY <1>1, <1>2
<1> QED
  BY <1>1, <1>2, <1>3

\* What holds of an index when it holds of the later ones holds of all of them.
LEMMA Backward ==
  ASSUME NEW n \in Nat, NEW S,
         \A i \in 1..n : (\A j \in (i + 1)..n : j \in S) => i \in S
  PROVE  \A i \in 1..n : i \in S
<1> DEFINE T == {m \in 0..n : n - m \in 1..n /\ n - m \notin S}
<1> SUFFICES ASSUME NEW i \in 1..n, i \notin S PROVE FALSE
  OBVIOUS
<1>1. n - i \in T
  OBVIOUS
<1>2. PICK m \in T : \A k \in T : m <= k
  <2>1. T \in SUBSET Nat /\ T # {}
    BY <1>1
  <2> HIDE DEF T
  <2> QED
    BY <2>1, Least
<1>3. \A j \in (n - m + 1)..n : j \in S
  <2> SUFFICES ASSUME NEW j \in (n - m + 1)..n, j \notin S PROVE FALSE
    OBVIOUS
  <2>1. n - j \in T /\ n - j < m
    OBVIOUS
  <2> QED
    BY <1>2, <2>1
<1> QED
  BY <1>2, <1>3

-----------------------------------------------------------------------------
(* The loops over the characters. *)

\* peekChar() is a character of the text up to its end and EOF from there on.
LEMMA ChFact ==
  ASSUME NEW t \in Seq(Char), NEW i \in Nat \ {0}
  PROVE  /\ i <= Len(t) => Ch(t, i) = t[i] /\ Ch(t, i) # EOF
         /\ i > Len(t) => Ch(t, i) = EOF
         /\ Ch(t, i) # EOF => i <= Len(t)
  BY DEF Ch, Char

\* A loop over the characters stops, at the end of the text at the latest.
LEMMA SkipFact ==
  ASSUME NEW t \in Seq(Char), NEW i \in 1..(Len(t) + 1), NEW chars, EOF \notin chars
  PROVE  /\ Skip(t, i, chars) \in i..(Len(t) + 1)
         /\ Ch(t, Skip(t, i, chars)) \notin chars
         /\ \A k \in i..(Skip(t, i, chars) - 1) : t[k] \in chars
<1> DEFINE T == {j \in i..(Len(t) + 1) : Ch(t, j) \notin chars}
           P(j) == Ch(t, j) \notin chars /\ \A k \in i..(j - 1) : t[k] \in chars
<1>1. Len(t) + 1 \in T
  BY ChFact
<1>2. PICK m \in T : \A k \in T : m <= k
  <2>1. T \in SUBSET Nat /\ T # {}
    BY <1>1
  <2> HIDE DEF T
  <2> QED
    BY <2>1, Least
<1>3. P(m)
  <2> SUFFICES ASSUME NEW k \in i..(m - 1) PROVE t[k] \in chars
    OBVIOUS
  <2>1. k \notin T
    BY <1>2
  <2>2. k <= Len(t) /\ k \in Nat \ {0}
    OBVIOUS
  <2> QED
    BY <2>1, <2>2, ChFact
<1>4. \E j \in i..(Len(t) + 1) : P(j)
  BY <1>3
<1>5. Skip(t, i, chars) = CHOOSE j \in i..(Len(t) + 1) : P(j)
  BY DEF Skip
<1> HIDE DEF P
<1>6. Skip(t, i, chars) \in i..(Len(t) + 1) /\ P(Skip(t, i, chars))
  BY <1>4, <1>5, Zenon
<1> QED
  BY <1>6 DEF P

\* The same of a loop that looks for characters.
LEMMA UntilFact ==
  ASSUME NEW t \in Seq(Char), NEW i \in 1..(Len(t) + 1), NEW chars
  PROVE  /\ Until(t, i, chars) \in i..(Len(t) + 1)
         /\ Ch(t, Until(t, i, chars)) \in chars \cup {EOF}
         /\ \A k \in i..(Until(t, i, chars) - 1) : t[k] \notin chars
<1> DEFINE T == {j \in i..(Len(t) + 1) : Ch(t, j) \in chars \cup {EOF}}
           P(j) == Ch(t, j) \in chars \cup {EOF} /\ \A k \in i..(j - 1) : t[k] \notin chars
<1>1. Len(t) + 1 \in T
  BY ChFact
<1>2. PICK m \in T : \A k \in T : m <= k
  <2>1. T \in SUBSET Nat /\ T # {}
    BY <1>1
  <2> HIDE DEF T
  <2> QED
    BY <2>1, Least
<1>3. P(m)
  <2> SUFFICES ASSUME NEW k \in i..(m - 1) PROVE t[k] \notin chars
    OBVIOUS
  <2>1. k \notin T
    BY <1>2
  <2>2. k <= Len(t) /\ k \in Nat \ {0}
    OBVIOUS
  <2> QED
    BY <2>1, <2>2, ChFact
<1>4. \E j \in i..(Len(t) + 1) : P(j)
  BY <1>3
<1>5. Until(t, i, chars) = CHOOSE j \in i..(Len(t) + 1) : P(j)
  BY DEF Until
<1> HIDE DEF P
<1>6. Until(t, i, chars) \in i..(Len(t) + 1) /\ P(Until(t, i, chars))
  BY <1>4, <1>5, Zenon
<1> QED
  BY <1>6 DEF P
-----------------------------------------------------------------------------
(* Strings and comments.  Each is a function of the index defined from its *)
(* values at later ones: first that there is such a function, then what    *)
(* its values are.                                                         *)

\* The case analysis of StringEnd at one index.
StringEndAt(t, end, i) ==
  IF Ch(t, i) \in {Quote, CR, LF, EOF} THEN [at |-> i, wrong |-> FALSE]
  ELSE IF Ch(t, i) = Backslash
  THEN [end[TwoOn(t, i)] EXCEPT
          !.wrong = @ \/ Ch(t, i + 1) \notin {"n", "t", Backslash, Quote}]
  ELSE end[i + 1]

\* It depends on later indices only.
LEMMA StringEndLocal ==
  ASSUME NEW t \in Seq(Char), NEW i \in 1..(Len(t) + 1), NEW g, NEW h,
         \A j \in (i + 1)..(Len(t) + 1) : g[j] = h[j]
  PROVE  StringEndAt(t, g, i) = StringEndAt(t, h, i)
<1>1. CASE Ch(t, i) \in {Quote, CR, LF, EOF}
  BY <1>1 DEF StringEndAt
<1>2. CASE Ch(t, i) \notin {Quote, CR, LF, EOF}
  <2>1. TwoOn(t, i) \in (i + 1)..(Len(t) + 1) /\ i + 1 \in (i + 1)..(Len(t) + 1)
    BY <1>2, ChFact DEF TwoOn
  <2>2. g[TwoOn(t, i)] = h[TwoOn(t, i)] /\ g[i + 1] = h[i + 1]
    BY <2>1
  <2> QED
    BY <2>2 DEF StringEndAt
<1> QED
  BY <1>1, <1>2

\* StringEnd is well defined.
LEMMA StringEndDef ==
  ASSUME NEW t \in Seq(Char), NEW first \in 1..(Len(t) + 1)
  PROVE  \E end : /\ end = [i \in first..(Len(t) + 1) |-> StringEndAt(t, end, i)]
                  /\ StringEnd(t, first) = end[first]
<1> DEFINE D == first..(Len(t) + 1)
           Upto(g, m) == /\ g = [i \in D |-> g[i]]
                         /\ \A i \in D : i > Len(t) + 1 - m => g[i] = StringEndAt(t, g, i)
           T == {m \in Nat : \E g : Upto(g, m)}
<1>1. 0 \in T
  <2>1. Upto([i \in D |-> 0], 0)
    OBVIOUS
  <2> QED
    BY <2>1
<1>2. ASSUME NEW m \in Nat, m \in T PROVE m + 1 \in T
  <2>1. PICK g : Upto(g, m)
    BY <1>2
  <2> DEFINE j == Len(t) + 1 - m
             h == [i \in D |-> IF i = j THEN StringEndAt(t, g, i) ELSE g[i]]
  <2>2. ASSUME NEW i \in D, i >= j PROVE h[i] = StringEndAt(t, h, i)
    <3>1. StringEndAt(t, g, i) = StringEndAt(t, h, i)
      <4>1. \A k \in (i + 1)..(Len(t) + 1) : g[k] = h[k]
        BY <2>2
      <4> HIDE DEF h
      <4> QED
        BY <4>1, StringEndLocal
    <3>2. i > j => g[i] = StringEndAt(t, g, i)
      BY <2>1
    <3>3. h[i] = IF i = j THEN StringEndAt(t, g, i) ELSE g[i]
      BY <2>2
    <3>4. i = j \/ i > j
      BY <2>2
    <3> HIDE DEF h, j, D
    <3> QED
      BY <3>1, <3>2, <3>3, <3>4
  <2>3. Upto(h, m + 1)
    <3>1. h = [i \in D |-> h[i]]
      OBVIOUS
    <3> HIDE DEF h
    <3> QED
      BY <2>2, <3>1
  <2> HIDE DEF h, Upto
  <2> QED
    BY <2>3
<1> HIDE DEF T
<1>3. Len(t) + 1 \in T
  <2>1. Len(t) + 1 \in Nat
    OBVIOUS
  <2> QED
    BY <1>1, <1>2, <2>1, Induction
<1>4. PICK g : Upto(g, Len(t) + 1)
  BY <1>3 DEF T
<1>5. g = [i \in D |-> StringEndAt(t, g, i)]
  BY <1>4
<1> DEFINE P(f) == f = [i \in D |-> StringEndAt(t, f, i)]
<1>6. StringEnd(t, first) = (CHOOSE f : P(f))[first]
  BY DEF StringEnd, StringEndAt
<1>7. P(CHOOSE f : P(f))
  <2> HIDE DEF P
  <2> QED
    BY <1>5, Zenon DEF P
<1> QED
  BY <1>6, <1>7

\* The end of a string is behind its beginning and not behind the end of the text.
LEMMA StringEndFact ==
  ASSUME NEW t \in Seq(Char), NEW first \in 1..(Len(t) + 1)
  PROVE  StringEnd(t, first).at \in first..(Len(t) + 1)
<1>1. PICK end : /\ end = [i \in first..(Len(t) + 1) |-> StringEndAt(t, end, i)]
                 /\ StringEnd(t, first) = end[first]
  BY StringEndDef
<1> DEFINE S == {i \in 1..(Len(t) + 1) :
                   i >= first => end[i].at \in i..(Len(t) + 1)}
<1>2. ASSUME NEW i \in 1..(Len(t) + 1), \A j \in (i + 1)..(Len(t) + 1) : j \in S
      PROVE  i \in S
  <2> SUFFICES ASSUME i >= first PROVE end[i].at \in i..(Len(t) + 1)
    OBVIOUS
  <2>1. end[i] = StringEndAt(t, end, i)
    BY <1>1
  <2>2. CASE Ch(t, i) \in {Quote, CR, LF, EOF}
    BY <2>1, <2>2 DEF StringEndAt
  <2>3. CASE Ch(t, i) \notin {Quote, CR, LF, EOF}
    <3>1. /\ TwoOn(t, i) \in (i + 1)..(Len(t) + 1)
          /\ i + 1 \in (i + 1)..(Len(t) + 1)
      BY <2>3, ChFact DEF TwoOn
    <3>2. /\ end[TwoOn(t, i)].at \in TwoOn(t, i)..(Len(t) + 1)
          /\ end[i + 1].at \in (i + 1)..(Len(t) + 1)
      BY <1>2, <3>1
    <3>3. end[i].at \in {end[TwoOn(t, i)].at, end[i + 1].at}
      BY <2>1, <2>3 DEF StringEndAt
    <3> QED
      BY <3>1, <3>2, <3>3
  <2> QED
    BY <2>2, <2>3
<1> HIDE DEF S
<1>3. \A i \in 1..(Len(t) + 1) : i \in S
  <2>1. Len(t) + 1 \in Nat
    OBVIOUS
  <2> QED
    BY <1>2, <2>1, Backward
<1> QED
  BY <1>1, <1>3 DEF S

(* The offsets of line starts a loop counts: in order, and between two     *)
(* positions of the text.                                                  *)
Rising(s) == \A i, j \in 1..Len(s) : i < j => s[i] < s[j]

LinesIn(t, s, from, to) ==
  /\ s \in Seq(Nat)
  /\ Rising(s)
  /\ \A k \in 1..Len(s) : s[k] \in from..(to - 1) /\ s[k] \in LineStarts(t)

\* No lines are lines of any part of the text.
LEMMA NoLines ==
  ASSUME NEW t, NEW from, NEW to
  PROVE  LinesIn(t, <<>>, from, to)
  BY DEF LinesIn, Rising

\* A line end is followed by the start of a line.
LEMMA LineEndFact ==
  ASSUME NEW t \in Seq(Char), NEW i \in 1..Len(t), t[i] \in {CR, LF}
  PROVE  /\ LineEnd(t, i) \in (i + 1)..(i + 2)
         /\ LineEnd(t, i) <= Len(t) + 1
         /\ LinesIn(t, <<LineEnd(t, i) - 1>>, i, LineEnd(t, i))
<1>1. Ch(t, i) = t[i] /\ (Ch(t, i + 1) # EOF => i + 1 <= Len(t) /\ Ch(t, i + 1) = t[i + 1])
  BY ChFact
<1>2. CR # LF /\ CR # EOF /\ LF # EOF
  BY DEF CR, LF, EOF
<1>3. /\ LineEnd(t, i) \in (i + 1)..(i + 2)
      /\ LineEnd(t, i) <= Len(t) + 1
  BY <1>1, <1>2 DEF LineEnd
<1>4. LineEnd(t, i) - 1 \in LineStarts(t)
  <2>1. CASE Ch(t, i) = CR /\ Ch(t, i + 1) = LF
    BY <1>1, <1>2, <2>1 DEF LineEnd, LineStarts
  <2>2. CASE ~(Ch(t, i) = CR /\ Ch(t, i + 1) = LF)
    <3>1. LineEnd(t, i) - 1 = i
      BY <2>2 DEF LineEnd
    <3>2. t[i] = LF \/ (t[i] = CR /\ Ch(t, i + 1) # LF)
      BY <1>1, <2>2
    <3> QED
      BY <3>1, <3>2 DEF LineStarts
  <2> QED
    BY <2>1, <2>2
<1> DEFINE o == LineEnd(t, i) - 1
<1>5. o \in Nat /\ o \in i..(LineEnd(t, i) - 1)
  BY <1>3
<1>6. LinesIn(t, <<o>>, i, LineEnd(t, i))
  <2> HIDE DEF o
  <2>1. <<o>> \in Seq(Nat) /\ Len(<<o>>) = 1 /\ <<o>>[1] = o
    BY <1>5
  <2> HIDE DEF LineEnd
  <2>2. o \in LineStarts(t)
    BY <1>4 DEF o
  <2> QED
    BY <1>5, <2>1, <2>2 DEF LinesIn, Rising
<1> QED
  BY <1>3, <1>6

\* The lines of two parts of the text that follow each other are those of both.
LEMMA LinesJoin ==
  ASSUME NEW t, NEW a \in Nat, NEW b \in Nat, NEW c \in Nat, a <= b, b <= c,
         NEW r, LinesIn(t, r, a, b), NEW s, LinesIn(t, s, b, c)
  PROVE  LinesIn(t, r \o s, a, c)
<1> DEFINE u == r \o s
           m == Len(r)
           n == Len(s)
<1>1. r \in Seq(Nat) /\ s \in Seq(Nat) /\ m \in Nat /\ n \in Nat
  BY DEF LinesIn
<1>2. /\ \A k \in 1..m : r[k] \in a..(b - 1) /\ r[k] \in LineStarts(t)
      /\ \A k \in 1..n : s[k] \in b..(c - 1) /\ s[k] \in LineStarts(t)
      /\ \A i, j \in 1..m : i < j => r[i] < r[j]
      /\ \A i, j \in 1..n : i < j => s[i] < s[j]
  BY DEF LinesIn, Rising
<1>3. /\ u \in Seq(Nat) /\ Len(u) = m + n
      /\ \A k \in 1..m : u[k] = r[k]
      /\ \A k \in (m + 1)..(m + n) : u[k] = s[k - m]
  BY <1>1
<1> HIDE DEF u, m, n
<1>4. ASSUME NEW k \in 1..(m + n)
      PROVE  /\ u[k] \in LineStarts(t)
             /\ k <= m => u[k] \in a..(b - 1)
             /\ k > m => u[k] \in b..(c - 1)
  <2>1. CASE k <= m
    <3>1. k \in 1..m
      BY <1>1, <2>1
    <3>2. u[k] = r[k]
      BY <1>3, <3>1
    <3>3. r[k] \in a..(b - 1) /\ r[k] \in LineStarts(t)
      BY <1>2, <3>1
    <3> QED
      BY <1>1, <2>1, <3>2, <3>3
  <2>2. CASE k > m
    <3>1. k - m \in 1..n /\ k \in (m + 1)..(m + n)
      BY <1>1, <2>2
    <3>2. u[k] = s[k - m]
      BY <1>3, <3>1
    <3>3. s[k - m] \in b..(c - 1) /\ s[k - m] \in LineStarts(t)
      BY <1>2, <3>1
    <3> QED
      BY <1>1, <2>2, <3>2, <3>3
  <2> QED
    BY <1>1, <2>1, <2>2
<1>5. ASSUME NEW k \in 1..(m + n) PROVE u[k] \in a..(c - 1) /\ u[k] \in LineStarts(t)
  BY <1>1, <1>4
<1>6. ASSUME NEW i \in 1..(m + n), NEW j \in 1..(m + n), i < j PROVE u[i] < u[j]
  <2>1. CASE j <= m
    BY <1>1, <1>2, <1>3, <1>6, <2>1
  <2>2. CASE i > m
    <3>1. /\ i - m \in 1..n /\ i \in (m + 1)..(m + n)
          /\ j - m \in 1..n /\ j \in (m + 1)..(m + n) /\ i - m < j - m
      BY <1>1, <1>6, <2>2
    <3> QED
      BY <1>2, <1>3, <3>1
  <2>3. CASE i <= m /\ j > m
    <3>1. u[i] \in a..(b - 1) /\ u[j] \in b..(c - 1)
      BY <1>4, <2>3
    <3> QED
      BY <3>1
  <2> QED
    BY <1>1, <2>1, <2>2, <2>3
<1>7. Rising(u)
  BY <1>3, <1>6 DEF Rising
<1> QED
  BY <1>3, <1>5, <1>7 DEF LinesIn, u

\* Lines of a part are lines of a larger part.
LEMMA LinesWiden ==
  ASSUME NEW t, NEW a \in Nat, NEW b \in Nat, NEW c \in Nat, NEW d \in Nat, c <= a, b <= d,
         NEW s, LinesIn(t, s, a, b)
  PROVE  LinesIn(t, s, c, d)
  BY DEF LinesIn

\* The case analysis of CommentEnd at one index.
CommentEndAt(t, end, i) ==
  IF Ch(t, i) = EOF THEN [at |-> i, lines |-> <<>>, error |-> TRUE]
  ELSE IF Ch(t, i) \in {CR, LF}
  THEN IF Ch(t, LineEnd(t, i)) = "/" /\ Ch(t, LineEnd(t, i) + 1) = Semicolon
       THEN [at |-> LineEnd(t, i) + 2, lines |-> <<LineEnd(t, i) - 1>>, error |-> FALSE]
       ELSE [end[OneOn(t, LineEnd(t, i))] EXCEPT !.lines = <<LineEnd(t, i) - 1>> \o @]
  ELSE IF Ch(t, i) = "/" /\ Ch(t, i + 1) = Semicolon
  THEN [at |-> i + 2, lines |-> <<>>, error |-> FALSE]
  ELSE end[i + 1]

\* It depends on later indices only.
LEMMA CommentEndLocal ==
  ASSUME NEW t \in Seq(Char), NEW i \in 1..(Len(t) + 1), NEW g, NEW h,
         \A j \in (i + 1)..(Len(t) + 1) : g[j] = h[j]
  PROVE  CommentEndAt(t, g, i) = CommentEndAt(t, h, i)
<1>1. CASE Ch(t, i) = EOF
  BY <1>1 DEF CommentEndAt
<1>2. CASE Ch(t, i) # EOF
  <2>1. OneOn(t, LineEnd(t, i)) \in (i + 1)..(Len(t) + 1) /\ i + 1 \in (i + 1)..(Len(t) + 1)
    BY <1>2, ChFact DEF OneOn, LineEnd
  <2>2. g[OneOn(t, LineEnd(t, i))] = h[OneOn(t, LineEnd(t, i))] /\ g[i + 1] = h[i + 1]
    BY <2>1
  <2> QED
    BY <2>2 DEF CommentEndAt
<1> QED
  BY <1>1, <1>2

\* CommentEnd is well defined.
LEMMA CommentEndDef ==
  ASSUME NEW t \in Seq(Char), NEW first \in 1..(Len(t) + 1)
  PROVE  \E end : /\ end = [i \in first..(Len(t) + 1) |-> CommentEndAt(t, end, i)]
                  /\ CommentEnd(t, first) = end[first]
<1> DEFINE D == first..(Len(t) + 1)
           Upto(g, m) == /\ g = [i \in D |-> g[i]]
                         /\ \A i \in D : i > Len(t) + 1 - m => g[i] = CommentEndAt(t, g, i)
           T == {m \in Nat : \E g : Upto(g, m)}
<1>1. 0 \in T
  <2>1. Upto([i \in D |-> 0], 0)
    OBVIOUS
  <2> QED
    BY <2>1
<1>2. ASSUME NEW m \in Nat, m \in T PROVE m + 1 \in T
  <2>1. PICK g : Upto(g, m)
    BY <1>2
  <2> DEFINE j == Len(t) + 1 - m
             h == [i \in D |-> IF i = j THEN CommentEndAt(t, g, i) ELSE g[i]]
  <2>2. ASSUME NEW i \in D, i >= j PROVE h[i] = CommentEndAt(t, h, i)
    <3>1. CommentEndAt(t, g, i) = CommentEndAt(t, h, i)
      <4>1. \A k \in (i + 1)..(Len(t) + 1) : g[k] = h[k]
        BY <2>2
      <4> HIDE DEF h
      <4> QED
        BY <4>1, CommentEndLocal
    <3>2. i > j => g[i] = CommentEndAt(t, g, i)
      BY <2>1
    <3>3. h[i] = IF i = j THEN CommentEndAt(t, g, i) ELSE g[i]
      BY <2>2
    <3>4. i = j \/ i > j
      BY <2>2
    <3> HIDE DEF h, j, D
    <3> QED
      BY <3>1, <3>2, <3>3, <3>4
  <2>3. Upto(h, m + 1)
    <3>1. h = [i \in D |-> h[i]]
      OBVIOUS
    <3> HIDE DEF h
    <3> QED
      BY <2>2, <3>1
  <2> HIDE DEF h, Upto
  <2> QED
    BY <2>3
<1> HIDE DEF T
<1>3. Len(t) + 1 \in T
  <2>1. Len(t) + 1 \in Nat
    OBVIOUS
  <2> QED
    BY <1>1, <1>2, <2>1, Induction
<1>4. PICK g : Upto(g, Len(t) + 1)
  BY <1>3 DEF T
<1>5. g = [i \in D |-> CommentEndAt(t, g, i)]
  BY <1>4
<1> DEFINE P(f) == f = [i \in D |-> CommentEndAt(t, f, i)]
<1>6. CommentEnd(t, first) = (CHOOSE f : P(f))[first]
  BY DEF CommentEnd, CommentEndAt
<1>7. P(CHOOSE f : P(f))
  <2> HIDE DEF P
  <2> QED
    BY <1>5, Zenon DEF P
<1> QED
  BY <1>6, <1>7

CommentEnds == [at : Nat, lines : Seq(Nat), error : BOOLEAN]

\* A comment ends behind its beginning, and the lines it counts are in it.
LEMMA CommentEndFact ==
  ASSUME NEW t \in Seq(Char), NEW first \in 1..(Len(t) + 1)
  PROVE  LET end == CommentEnd(t, first)
         IN  /\ end \in CommentEnds
             /\ end.at \in first..(Len(t) + 1)
             /\ LinesIn(t, end.lines, first, end.at)
<1>1. PICK end : /\ end = [i \in first..(Len(t) + 1) |-> CommentEndAt(t, end, i)]
                 /\ CommentEnd(t, first) = end[first]
  BY CommentEndDef
<1> DEFINE Good(e, i) == /\ e \in CommentEnds /\ e.at \in i..(Len(t) + 1)
                         /\ LinesIn(t, e.lines, i, e.at)
           S == {i \in 1..(Len(t) + 1) : i >= first => Good(end[i], i)}
<1>2. ASSUME NEW i \in 1..(Len(t) + 1), \A j \in (i + 1)..(Len(t) + 1) : j \in S
      PROVE  i \in S
  <2> SUFFICES ASSUME i >= first PROVE Good(end[i], i)
    OBVIOUS
  <2>1. end[i] = CommentEndAt(t, end, i)
    BY <1>1
  <2>2. \A j \in (i + 1)..(Len(t) + 1) : Good(end[j], j)
    BY <1>2
  <2>3. CASE Ch(t, i) = EOF
    <3>1. end[i] = [at |-> i, lines |-> <<>>, error |-> TRUE]
      BY <2>1, <2>3 DEF CommentEndAt
    <3> QED
      BY <3>1, NoLines DEF CommentEnds
  <2>4. CASE Ch(t, i) \in {CR, LF}
    <3> DEFINE l == LineEnd(t, i)
    <3>1. i <= Len(t) /\ t[i] = Ch(t, i)
      BY <2>4, ChFact DEF CR, LF, EOF
    <3>2. l \in (i + 1)..(i + 2) /\ l <= Len(t) + 1 /\ LinesIn(t, <<l - 1>>, i, l)
      BY <2>4, <3>1, LineEndFact
    <3>3. CASE Ch(t, l) = "/" /\ Ch(t, l + 1) = Semicolon
      <4>1. end[i] = [at |-> l + 2, lines |-> <<l - 1>>, error |-> FALSE]
        BY <2>1, <2>4, <3>3 DEF CommentEndAt, CR, LF, EOF
      <4> HIDE DEF l
      <4>2. l + 1 <= Len(t)
        <5>1. Ch(t, l + 1) # EOF
          BY <3>3, Zenon DEF EOF, Semicolon
        <5>2. l + 1 \in Nat \ {0}
          BY <3>2
        <5> QED
          BY <5>1, <5>2, ChFact
      <4>3. LinesIn(t, <<l - 1>>, i, l + 2)
        BY <3>2, LinesWiden
      <4>4. end[i] \in CommentEnds
        BY <3>2, <4>1 DEF CommentEnds
      <4> QED
        BY <3>2, <4>1, <4>2, <4>3, <4>4
    <3>4. CASE ~(Ch(t, l) = "/" /\ Ch(t, l + 1) = Semicolon)
      <4> DEFINE e == end[OneOn(t, l)]
      <4>1. end[i] = [e EXCEPT !.lines = <<l - 1>> \o @]
        BY <2>1, <2>4, <3>4 DEF CommentEndAt, CR, LF, EOF
      <4>2. OneOn(t, l) \in l..(Len(t) + 1)
        BY <3>2 DEF OneOn
      <4>3. Good(e, OneOn(t, l))
        BY <2>2, <3>2, <4>2
      <4> HIDE DEF e, l
      <4>4. /\ e \in CommentEnds /\ e.at \in l..(Len(t) + 1)
            /\ LinesIn(t, e.lines, l, e.at)
        BY <3>2, <4>2, <4>3, LinesWiden DEF CommentEnds
      <4>5. LinesIn(t, <<l - 1>> \o e.lines, i, e.at)
        BY <3>2, <4>4, LinesJoin DEF CommentEnds
      <4>6. /\ end[i] \in CommentEnds /\ end[i].at = e.at
            /\ end[i].lines = <<l - 1>> \o e.lines
        <5>1. <<l - 1>> \o e.lines \in Seq(Nat)
          BY <3>2, <4>4 DEF CommentEnds
        <5> QED
          BY <4>1, <4>4, <5>1 DEF CommentEnds
      <4> QED
        BY <3>2, <4>4, <4>5, <4>6
    <3> QED
      BY <3>3, <3>4
  <2>5. CASE Ch(t, i) \notin {CR, LF, EOF}
    <3>1. i <= Len(t)
      BY <2>5, ChFact
    <3>2. CASE Ch(t, i) = "/" /\ Ch(t, i + 1) = Semicolon
      <4>1. end[i] = [at |-> i + 2, lines |-> <<>>, error |-> FALSE]
        BY <2>1, <2>5, <3>2 DEF CommentEndAt
      <4>2. i + 1 <= Len(t)
        <5>1. Ch(t, i + 1) # EOF
          BY <3>2, Zenon DEF EOF, Semicolon
        <5>2. i + 1 \in Nat \ {0}
          OBVIOUS
        <5> QED
          BY <5>1, <5>2, ChFact
      <4> QED
        BY <4>1, <4>2, NoLines DEF CommentEnds
    <3>3. CASE ~(Ch(t, i) = "/" /\ Ch(t, i + 1) = Semicolon)
      <4>1. end[i] = end[i + 1]
        BY <2>1, <2>5, <3>3 DEF CommentEndAt
      <4>2. Good(end[i + 1], i + 1)
        BY <2>2, <3>1
      <4> QED
        BY <4>1, <4>2, LinesWiden DEF CommentEnds
    <3> QED
      BY <3>2, <3>3
  <2> QED
    BY <2>3, <2>4, <2>5
<1> HIDE DEF S
<1>3. \A i \in 1..(Len(t) + 1) : i \in S
  <2>1. Len(t) + 1 \in Nat
    OBVIOUS
  <2> QED
    BY <1>2, <2>1, Backward
<1> QED
  BY <1>1, <1>3 DEF S

(* f is a sequence of n steps in X from a. *)
Steps(X, step) == step \in [Nat -> [X -> X]]

Chain(f, X, a, step, n) ==
  /\ f \in [0..n -> X]
  /\ f[0] = a
  /\ \A i \in 1..n : f[i] = step[i][f[i - 1]]

\* A function on 0..n can be defined by its first value and a step to the next.
LEMMA Upward ==
  ASSUME NEW X, NEW a, a \in X, NEW step, Steps(X, step), NEW n, n \in Nat
  PROVE  \E f : Chain(f, X, a, step, n)
<1> USE DEF Steps
<1> DEFINE P(f, m) == f[0] = a /\ \A i \in 1..m : f[i] = step[i][f[i - 1]]
           S == {m \in Nat : \E f \in [0..m -> X] : P(f, m)}
<1>1. 0 \in S
  <2>1. [i \in 0..0 |-> a] \in [0..0 -> X] /\ P([i \in 0..0 |-> a], 0)
    OBVIOUS
  <2> HIDE DEF P
  <2> QED
    BY <2>1
<1>2. ASSUME NEW m \in Nat, m \in S PROVE m + 1 \in S
  <2>1. PICK f \in [0..m -> X] : P(f, m)
    BY <1>2
  <2> DEFINE g == [i \in 0..(m + 1) |-> IF i <= m THEN f[i] ELSE step[m + 1][f[m]]]
  <2>2. g \in [0..(m + 1) -> X]
    <3>1. f[m] \in X
      OBVIOUS
    <3>2. step[m + 1] \in [X -> X]
      OBVIOUS
    <3>3. step[m + 1][f[m]] \in X
      BY <3>1, <3>2
    <3> QED
      BY <3>3
  <2>3. P(g, m + 1)
    <3>1. g[0] = a
      BY <2>1
    <3>2. ASSUME NEW i \in 1..(m + 1) PROVE g[i] = step[i][g[i - 1]]
      <4>1. CASE i <= m
        BY <2>1, <4>1
      <4>2. CASE i = m + 1
        BY <4>2
      <4> QED
        BY <4>1, <4>2
    <3> QED
      BY <3>1, <3>2
  <2> HIDE DEF P, g
  <2>4. \E h \in [0..(m + 1) -> X] : P(h, m + 1)
    BY <2>2, <2>3
  <2> QED
    BY <2>4
<1> HIDE DEF S
<1>3. n \in S
  BY <1>1, <1>2, Induction
<1> QED
  BY <1>3 DEF S, Chain

\* The line ends in the text of a documentation comment, at one index.
DocLinesAt(t, first, lines, i) ==
  IF i < first THEN <<>>
  ELSE IF t[i] = LF THEN Append(lines[i - 1], i) ELSE lines[i - 1]

\* DocLines is well defined.
LEMMA DocLinesDef ==
  ASSUME NEW t \in Seq(Char), NEW first \in Nat \ {0}, NEW last \in 0..Len(t)
  PROVE  \E f \in [0..last -> Seq(Nat)] :
           /\ \A i \in 0..last : f[i] = DocLinesAt(t, first, f, i)
           /\ DocLines(t, first, last) = f[last]
<1> DEFINE step == [i \in Nat |-> [s \in Seq(Nat) |->
                     IF i < first THEN <<>> ELSE IF t[i] = LF THEN Append(s, i) ELSE s]]
<1>1. step \in [Nat -> [Seq(Nat) -> Seq(Nat)]]
  OBVIOUS
<1>2. <<>> \in Seq(Nat) /\ last \in Nat
  OBVIOUS
<1>3. PICK f \in [0..last -> Seq(Nat)] :
        f[0] = <<>> /\ \A i \in 1..last : f[i] = step[i][f[i - 1]]
  <2> DEFINE X == Seq(Nat)
             a == <<>>
  <2> HIDE DEF step, X, a
  <2>1. Steps(X, step) /\ a \in X /\ last \in Nat
    BY <1>1, <1>2 DEF X, a, Steps
  <2>2. PICK f : Chain(f, X, a, step, last)
    BY <2>1, Upward, Zenon
  <2> QED
    BY <2>2 DEF X, a, Chain
<1>4. ASSUME NEW i \in 0..last PROVE f[i] = DocLinesAt(t, first, f, i)
  <2>1. CASE i = 0
    BY <1>3, <2>1 DEF DocLinesAt
  <2>2. CASE i \in 1..last
    <3>1. f[i - 1] \in Seq(Nat) /\ i \in Nat
      BY <2>2
    <3> QED
      BY <1>3, <2>2, <3>1 DEF DocLinesAt
  <2> QED
    BY <2>1, <2>2
<1> DEFINE P(g) == g = [i \in 0..last |-> DocLinesAt(t, first, g, i)]
<1>5. P(f)
  <2> HIDE DEF step
  <2>1. f = [i \in 0..last |-> f[i]]
    OBVIOUS
  <2> QED
    BY <1>4, <2>1
<1>6. DocLines(t, first, last) = (CHOOSE g : P(g))[last]
  BY DEF DocLines, DocLinesAt
<1> DEFINE g == CHOOSE g : P(g)
<1>7. P(g)
  <2> HIDE DEF P
  <2> QED
    BY <1>5, Zenon
<1> HIDE DEF g
<1>8. \A i \in 0..last : g[i] = DocLinesAt(t, first, g, i)
  BY <1>7
<1>9. g \in [0..last -> Seq(Nat)]
  <2> DEFINE S == {i \in Nat : i <= last => g[i] \in Seq(Nat)}
  <2>1. 0 \in S
    <3>1. 0 \in 0..last /\ 0 < first
      OBVIOUS
    <3>2. DocLinesAt(t, first, g, 0) = <<>>
      BY <3>1 DEF DocLinesAt
    <3>3. g[0] = <<>>
      BY <1>8, <3>1, <3>2
    <3>4. <<>> \in Seq(Nat)
      OBVIOUS
    <3> HIDE DEF step
    <3> QED
      BY <3>3, <3>4
  <2>2. ASSUME NEW i \in Nat, i \in S PROVE i + 1 \in S
    <3> SUFFICES ASSUME i + 1 <= last PROVE g[i + 1] \in Seq(Nat)
      OBVIOUS
    <3>1. g[i] \in Seq(Nat) /\ i + 1 \in 0..last
      BY <2>2
    <3>2. DocLinesAt(t, first, g, i + 1) \in {<<>>, Append(g[i], i + 1), g[i]}
      BY DEF DocLinesAt
    <3>3. DocLinesAt(t, first, g, i + 1) \in Seq(Nat)
      <4> HIDE DEF step
      <4>1. <<>> \in Seq(Nat) /\ Append(g[i], i + 1) \in Seq(Nat)
        BY <3>1
      <4> QED
        BY <3>1, <3>2, <4>1
    <3> QED
      BY <1>8, <3>1, <3>3
  <2> HIDE DEF S
  <2>3. \A i \in Nat : i \in S
    BY <2>1, <2>2, Induction
  <2>4. \A i \in 0..last : g[i] \in Seq(Nat)
    BY <2>3 DEF S
  <2> QED
    BY <1>7, <2>4
<1> QED
  BY <1>6, <1>8, <1>9 DEF g

\* They are lines of that part of the text.
LEMMA DocLinesFact ==
  ASSUME NEW t \in Seq(Char), NEW first \in Nat \ {0}, NEW last \in 0..Len(t)
  PROVE  LinesIn(t, DocLines(t, first, last), first, last + 1)
<1>1. PICK f \in [0..last -> Seq(Nat)] :
        /\ \A i \in 0..last : f[i] = DocLinesAt(t, first, f, i)
        /\ DocLines(t, first, last) = f[last]
  BY DocLinesDef
<1> DEFINE S == {i \in Nat : i <= last => LinesIn(t, f[i], first, i + 1)}
<1>2. 0 \in S
  BY <1>1, NoLines DEF DocLinesAt
<1>3. ASSUME NEW i \in Nat, i \in S PROVE i + 1 \in S
  <2> SUFFICES ASSUME i + 1 <= last PROVE LinesIn(t, f[i + 1], first, i + 2)
    OBVIOUS
  <2>1. LinesIn(t, f[i], first, i + 1) /\ i + 1 \in 0..last
    BY <1>3
  <2>2. f[i + 1] = DocLinesAt(t, first, f, i + 1)
    BY <1>1, <2>1
  <2>3. CASE i + 1 < first
    BY <2>2, <2>3, NoLines DEF DocLinesAt
  <2>4. CASE i + 1 >= first /\ t[i + 1] = LF
    <3>1. f[i + 1] = f[i] \o <<i + 1>>
      BY <2>1, <2>2, <2>4 DEF DocLinesAt
    <3>2. LinesIn(t, <<i + 1>>, i + 1, i + 2)
      BY <2>1, <2>4 DEF LinesIn, Rising, LineStarts
    <3>3. first \in Nat /\ i + 1 \in Nat /\ i + 2 \in Nat
      OBVIOUS
    <3> QED
      BY <2>1, <2>4, <3>1, <3>2, <3>3, LinesJoin
  <2>5. CASE i + 1 >= first /\ t[i + 1] # LF
    <3>1. f[i + 1] = f[i]
      BY <2>2, <2>5 DEF DocLinesAt
    <3> QED
      BY <2>1, <3>1, LinesWiden
  <2> QED
    BY <2>3, <2>4, <2>5
<1> HIDE DEF S
<1>4. last \in S
  <2>1. last \in Nat
    OBVIOUS
  <2> QED
    BY <1>2, <1>3, <2>1, Induction
<1> QED
  BY <1>1, <1>4 DEF S

-----------------------------------------------------------------------------
(* One token.                                                              *)

IsLexed(r) ==
  r = [tok |-> r.tok, at |-> r.at, lines |-> r.lines, error |-> r.error, pop |-> r.pop]

DocFirst(t, i) == Skip(t, i + 1, IsSpace)
DocLast(t, i) == Until(t, DocFirst(t, i), {RightBrace}) - 1

(* The documentation comment that starts at index i. *)
DocAt(t, i) == DocComment(t, i, DocFirst(t, i), DocLast(t, i)).tok

GoodToken(t, token) ==
  /\ token.from \in Nat
  /\ token.type = "DocComment" =>
       \E i \in 1..Len(t) : t[i] = LeftBrace /\ token = DocAt(t, i)

(* What lexing from index i leaves when it reads no further than the end,  *)
(* or one character further.                                               *)
LexedFrom(t, i, r) ==
  /\ IsLexed(r)
  /\ r.at \in i..(Len(t) + 2)
  /\ LinesIn(t, r.lines, i, r.at)
  /\ GoodToken(t, r.tok)

\* A token that is no documentation comment and crosses no line end.
LEMMA FoundFact ==
  ASSUME NEW t, t \in Seq(Char), NEW i \in 1..(Len(t) + 2), NEW type, type # "DocComment",
         NEW value, NEW next \in i..(Len(t) + 2)
  PROVE  LexedFrom(t, i, Found(type, value, i, next)) /\ Found(type, value, i, next).pop = 0
<1> DEFINE r == Found(type, value, i, next)
<1>1. /\ IsLexed(r) /\ r.at = next /\ r.lines = <<>> /\ r.pop = 0
      /\ r.tok.type = type /\ r.tok.from = i - 1
  BY DEF Found, Lexed, Token, IsLexed
<1> HIDE DEF r
<1>2. GoodToken(t, r.tok)
  <2>1. i - 1 \in Nat
    OBVIOUS
  <2> QED
    BY <1>1, <2>1 DEF GoodToken
<1>3. LinesIn(t, r.lines, i, r.at)
  BY <1>1, NoLines
<1>4. LexedFrom(t, i, r) /\ r.pop = 0
  BY <1>1, <1>2, <1>3 DEF LexedFrom
<1> QED
  BY <1>4 DEF r

(* s is r but for the report. *)
Reported(s, r) == s = [r EXCEPT !.error = s.error]

\* A report does not change what was lexed.
LEMMA ReportedFact ==
  ASSUME NEW t, NEW i, NEW r, LexedFrom(t, i, r), r.pop = 0, NEW s, Reported(s, r)
  PROVE  LexedFrom(t, i, s) /\ s.pop = 0
<1>1. IsLexed(r)
  BY DEF LexedFrom
<1>2. /\ IsLexed(s) /\ s.tok = r.tok /\ s.at = r.at /\ s.lines = r.lines /\ s.pop = r.pop
  BY <1>1 DEF IsLexed, Reported
<1> QED
  BY <1>2 DEF LexedFrom

\* A number ends behind its first digit and in the text.
LEMMA NumberFact ==
  ASSUME NEW t, t \in Seq(Char), NEW i \in 1..Len(t), NEW end \in (i + 1)..(Len(t) + 1)
  PROVE  LexedFrom(t, i, Number(t, i, end)) /\ Number(t, i, end).pop = 0
<1>1. EOF \notin Digits /\ EOF \notin HexDigits
  BY DEF EOF, Digits, HexDigits
<1>2. CASE t[i] = "0" /\ Ch(t, i + 1) = "x"
  <2>1. i + 1 <= Len(t)
    <3>1. i + 1 \in Nat \ {0} /\ Ch(t, i + 1) # EOF
      BY <1>2 DEF EOF
    <3> QED
      BY <3>1, ChFact
  <2>2. i + 2 \in 1..(Len(t) + 1)
    BY <2>1
  <2>3. Skip(t, i + 2, HexDigits) \in i..(Len(t) + 2)
    <3>1. Skip(t, i + 2, HexDigits) \in (i + 2)..(Len(t) + 1)
      BY <1>1, <2>2, SkipFact
    <3> QED
      BY <3>1
  <2>4. Number(t, i, end) = Found("Integer", <<>>, i, Skip(t, i + 2, HexDigits))
    BY <1>2 DEF Number
  <2> QED
    BY <2>3, <2>4, FoundFact
<1>3. CASE ~(t[i] = "0" /\ Ch(t, i + 1) = "x") /\ Ch(t, end) # "."
  <2>1. PICK type \in {"Integer", "Float"} : Number(t, i, end) = Found(type, <<>>, i, end)
    BY <1>3 DEF Number
  <2> QED
    BY <2>1, FoundFact
<1>4. CASE ~(t[i] = "0" /\ Ch(t, i + 1) = "x") /\ Ch(t, end) = "."
  <2>1. end <= Len(t)
    <3>1. end \in Nat \ {0} /\ Ch(t, end) # EOF
      BY <1>4 DEF EOF
    <3> QED
      BY <3>1, ChFact
  <2> DEFINE f == FractionEnd(t, end)
  <2>2. f \in (end + 1)..(Len(t) + 1)
    <3>1. end + 1 \in 1..(Len(t) + 1)
      BY <2>1
    <3> QED
      BY <1>1, <3>1, SkipFact DEF FractionEnd
  <2>3. CASE Ch(t, f) # "e"
    <3>1. Number(t, i, end) = Found("Float", <<>>, i, f)
      BY <1>4, <2>3 DEF Number
    <3>2. f \in i..(Len(t) + 2)
      BY <2>2
    <3> HIDE DEF f
    <3> QED
      BY <3>1, <3>2, FoundFact
  <2>4. CASE Ch(t, f) = "e"
    <3> DEFINE n == Skip(t, TwoOn(t, f), Digits)
               r == Found("Float", <<>>, i, n)
    <3>1. Reported(Number(t, i, end), r)
      BY <1>4, <2>4 DEF Number, Reported, Found, Lexed
    <3>2. n \in i..(Len(t) + 2)
      <4>1. TwoOn(t, f) \in 1..(Len(t) + 1) /\ TwoOn(t, f) >= f
        BY <2>2 DEF TwoOn
      <4>2. n \in TwoOn(t, f)..(Len(t) + 1)
        BY <1>1, <4>1, SkipFact
      <4> HIDE DEF n, f
      <4> QED
        BY <2>2, <4>1, <4>2
    <3>3. LexedFrom(t, i, r) /\ r.pop = 0
      <4> HIDE DEF n
      <4> QED
        BY <3>2, FoundFact
    <3> HIDE DEF r
    <3> QED
      BY <3>1, <3>3, ReportedFact
  <2> QED
    BY <2>3, <2>4
<1> QED
  BY <1>2, <1>3, <1>4

\* So does an identifier.
LEMMA IdentifierFact ==
  ASSUME NEW t, t \in Seq(Char), NEW i \in 1..Len(t)
  PROVE  LexedFrom(t, i, Identifier(t, i)) /\ Identifier(t, i).pop = 0
<1>1. EOF \notin IdentifierChars
  BY DEF EOF, IdentifierChars, Letters, Digits
<1>2. CASE t[i] = ":"
  <2> DEFINE n == Skip(t, TwoOn(t, i), IdentifierChars)
             r == Found("Identifier", <<>>, i, n)
  <2>1. Reported(Identifier(t, i), r)
    BY <1>2 DEF Identifier, Reported, Found, Lexed
  <2>2. n \in i..(Len(t) + 2)
    <3>1. TwoOn(t, i) \in 1..(Len(t) + 1) /\ TwoOn(t, i) >= i
      BY DEF TwoOn
    <3>2. n \in TwoOn(t, i)..(Len(t) + 1)
      BY <1>1, <3>1, SkipFact
    <3> HIDE DEF n
    <3> QED
      BY <3>1, <3>2
  <2>3. LexedFrom(t, i, r) /\ r.pop = 0
    <3> HIDE DEF n
    <3> QED
      BY <2>2, FoundFact
  <2> HIDE DEF r
  <2> QED
    BY <2>1, <2>3, ReportedFact
<1>3. CASE t[i] # ":"
  <2> DEFINE n == Skip(t, i, IdentifierChars)
  <2>1. Identifier(t, i) = Found("Identifier", <<>>, i, n)
    BY <1>3 DEF Identifier
  <2>2. n \in i..(Len(t) + 1)
    BY <1>1, SkipFact
  <2> HIDE DEF n
  <2>3. n \in i..(Len(t) + 2)
    BY <2>2
  <2> QED
    BY <2>1, <2>3, FoundFact
<1> QED
  BY <1>2, <1>3

\* So does a string, closed or not.
LEMMA StringFact ==
  ASSUME NEW t, t \in Seq(Char), NEW i \in 1..Len(t)
  PROVE  LET r == String(t, i, StringEnd(t, i + 1)) IN LexedFrom(t, i, r) /\ r.pop = 0
<1> DEFINE end == StringEnd(t, i + 1)
           n == IF Ch(t, end.at) = Quote THEN end.at + 1 ELSE end.at
           r == Found("String", <<>>, i, n)
<1>1. Reported(String(t, i, end), r)
  BY DEF String, Reported, Found, Lexed
<1>2. n \in i..(Len(t) + 2)
  <2>1. i + 1 \in 1..(Len(t) + 1)
    OBVIOUS
  <2>2. end.at \in (i + 1)..(Len(t) + 1)
    BY <2>1, StringEndFact
  <2> HIDE DEF end
  <2> QED
    BY <2>2
<1>3. LexedFrom(t, i, r) /\ r.pop = 0
  <2> HIDE DEF n
  <2> QED
    BY <1>2, FoundFact
<1> HIDE DEF r
<1> QED
  BY <1>1, <1>3, ReportedFact

(* s is r with lines in front. *)
Preceded(s, r, lines) == \E e : s = WithLines(r, lines, e)

\* What is skipped before a token adds its lines.
LEMMA WithLinesFact ==
  ASSUME NEW t, NEW i \in Nat, NEW j \in Nat, i <= j, NEW r, LexedFrom(t, j, r),
         NEW lines, LinesIn(t, lines, i, j), NEW s, Preceded(s, r, lines)
  PROVE  LexedFrom(t, i, s) /\ s.pop = r.pop /\ s.tok = r.tok /\ s.at = r.at
<1>1. /\ IsLexed(r) /\ r.at \in j..(Len(t) + 2) /\ LinesIn(t, r.lines, j, r.at)
      /\ GoodToken(t, r.tok)
  BY DEF LexedFrom
<1>2. /\ IsLexed(s) /\ s.tok = r.tok /\ s.at = r.at /\ s.lines = lines \o r.lines
      /\ s.pop = r.pop
  BY <1>1 DEF IsLexed, WithLines, Preceded
<1>3. LinesIn(t, s.lines, i, s.at)
  <2>1. r.at \in Nat /\ j <= r.at
    BY <1>1
  <2> QED
    BY <1>1, <1>2, <2>1, LinesJoin
<1>4. s.at \in i..(Len(t) + 2)
  BY <1>1, <1>2
<1> QED
  BY <1>1, <1>2, <1>3, <1>4 DEF LexedFrom

\* A documentation comment ends in the text.
LEMMA DocCommentFact ==
  ASSUME NEW t, t \in Seq(Char), NEW i \in 1..Len(t), t[i] = LeftBrace
  PROVE  LET r == DocComment(t, i, DocFirst(t, i), DocLast(t, i))
         IN  LexedFrom(t, i, r) /\ r.pop = 0
<1> DEFINE first == DocFirst(t, i)
           last == DocLast(t, i)
           next == IF Ch(t, last + 1) = RightBrace THEN last + 2 ELSE last + 1
           r == Found("DocComment", DocText(t, first, last), i, next)
           s == DocComment(t, i, first, last)
<1>1. first \in (i + 1)..(Len(t) + 1)
  <2>1. i + 1 \in 1..(Len(t) + 1) /\ EOF \notin IsSpace
    BY DEF EOF, IsSpace, Blanks, CR, LF
  <2> QED
    BY <2>1, SkipFact DEF DocFirst
<1>2. last \in i..Len(t) /\ first <= last + 1
  <2>1. first \in 1..(Len(t) + 1)
    BY <1>1
  <2>2. last + 1 = Until(t, first, {RightBrace}) /\ last = Until(t, first, {RightBrace}) - 1
    <3>1. Until(t, first, {RightBrace}) \in first..(Len(t) + 1)
      BY <2>1, UntilFact
    <3> QED
      BY <3>1 DEF DocLast
  <2>3. Until(t, first, {RightBrace}) \in first..(Len(t) + 1)
    BY <2>1, UntilFact
  <2> HIDE DEF first, last
  <2> QED
    BY <1>1, <2>2, <2>3
<1>3. LinesIn(t, DocLines(t, first, last), first, last + 1)
  <2>1. first \in Nat \ {0} /\ last \in 0..Len(t)
    BY <1>1, <1>2
  <2> HIDE DEF first, last
  <2> QED
    BY <2>1, DocLinesFact
<1>4. /\ r.at = next /\ r.lines = <<>> /\ r.pop = 0 /\ r.tok.from = i - 1 /\ IsLexed(r)
  BY DEF Found, Lexed, Token, IsLexed
<1>5. s = WithLines(r, DocLines(t, first, last), Ch(t, last + 1) # RightBrace)
  BY DEF DocComment
<1>6. s.tok = r.tok /\ s.tok = DocAt(t, i)
  <2>1. s.tok = DocAt(t, i)
    BY DEF DocAt
  <2> HIDE DEF r
  <2> QED
    BY <1>4, <1>5, <2>1 DEF WithLines, IsLexed
<1> HIDE DEF s
<1>7. LexedFrom(t, last + 1, r)
  <2>1. next \in (last + 1)..(Len(t) + 2)
    <3> HIDE DEF last
    <3> QED
      BY <1>2
  <2>2. i - 1 \in Nat
    OBVIOUS
  <2> HIDE DEF r, next
  <2>3. GoodToken(t, r.tok)
    BY <1>4, <1>6, <2>2 DEF GoodToken
  <2>4. LinesIn(t, r.lines, last + 1, r.at)
    BY <1>4, NoLines
  <2> QED
    BY <1>4, <2>1, <2>3, <2>4 DEF LexedFrom
<1>8. LexedFrom(t, i, s) /\ s.pop = 0
  <2> DEFINE lines == DocLines(t, first, last)
             e == Ch(t, last + 1) # RightBrace
             j == last + 1
  <2>1. i \in Nat /\ j \in Nat /\ i <= j
    BY <1>2
  <2>2. LinesIn(t, lines, i, j)
    <3>1. first \in Nat /\ i <= first
      BY <1>1
    <3> HIDE DEF lines, first, last
    <3> QED
      BY <1>3, <2>1, <3>1, LinesWiden DEF lines
  <2>3. Preceded(s, r, lines)
    BY <1>5 DEF Preceded
  <2>4. LexedFrom(t, j, r)
    BY <1>7
  <2> HIDE DEF lines, j, r, first, last
  <2> QED
    BY <1>4, <2>1, <2>2, <2>3, <2>4, WithLinesFact
<1> QED
  BY <1>8 DEF s

\* A line end is lexed with the start of the line behind it.
LEMMA EOLFact ==
  ASSUME NEW t, t \in Seq(Char), NEW i \in 1..Len(t), t[i] \in {CR, LF}
  PROVE  LET r == WithLines(Found("EOL", <<>>, i, LineEnd(t, i)), <<LineEnd(t, i) - 1>>, FALSE)
         IN  LexedFrom(t, i, r) /\ r.pop = 0
<1> DEFINE j == LineEnd(t, i)
           r == Found("EOL", <<>>, i, j)
           s == WithLines(r, <<j - 1>>, FALSE)
<1>1. j \in (i + 1)..(Len(t) + 1) /\ LinesIn(t, <<j - 1>>, i, j)
  BY LineEndFact
<1>2. /\ IsLexed(r) /\ r.at = j /\ r.lines = <<>> /\ r.pop = 0
      /\ r.tok.type = "EOL" /\ r.tok.from = i - 1
  BY DEF Found, Lexed, Token, IsLexed
<1> HIDE DEF r, j
<1>3. LexedFrom(t, j, r)
  <2>1. i - 1 \in Nat
    OBVIOUS
  <2>2. GoodToken(t, r.tok)
    BY <1>2, <2>1 DEF GoodToken
  <2>3. LinesIn(t, r.lines, j, r.at)
    BY <1>2, NoLines
  <2>4. r.at \in j..(Len(t) + 2)
    BY <1>1, <1>2
  <2> QED
    BY <1>2, <2>2, <2>3, <2>4 DEF LexedFrom
<1>4. LexedFrom(t, i, s) /\ s.pop = 0
  <2>1. i \in Nat /\ j \in Nat /\ i <= j
    BY <1>1
  <2> DEFINE lines == <<j - 1>>
  <2>2. Preceded(s, r, lines) /\ LinesIn(t, lines, i, j)
    BY <1>1 DEF Preceded
  <2> HIDE DEF s, lines
  <2>3. LexedFrom(t, i, s) /\ s.pop = r.pop
    BY <1>3, <2>1, <2>2, WithLinesFact
  <2> QED
    BY <1>2, <2>3
<1> QED
  BY <1>4 DEF s, r, j

\* The arms of TokenAt.
LEMMA TokenAtCases ==
  ASSUME NEW t, t \in Seq(Char), NEW i \in Nat \ {0}, NEW kind, Ch(t, i) \in TokenStarts
  PROVE  \/ /\ Ch(t, i) = EOF
            /\ \E type \in {"END", "EOL"} : TokenAt(t, i, kind) = Found(type, <<>>, i, i)
         \/ /\ Ch(t, i) \in Brackets
            /\ TokenAt(t, i, kind) = Found(t[i], <<>>, i, i + 1)
         \/ /\ Ch(t, i) \in Operators \cup Digits
            /\ TokenAt(t, i, kind) = Number(t, i, Skip(t, i + 1, Digits))
         \/ /\ Ch(t, i) \in Operators
            /\ TokenAt(t, i, kind) = Found("Operator", <<t[i], "=">>, i, i + 2)
            /\ Ch(t, i + 1) = "="
         \/ /\ Ch(t, i) \in Operators
            /\ TokenAt(t, i, kind) = Found("Operator", <<t[i]>>, i, i + 1)
         \/ /\ Ch(t, i) \in BooleanOperators
            /\ Reported(TokenAt(t, i, kind), Found("Operator", <<t[i], t[i]>>, i, i + 2))
         \/ /\ Ch(t, i) \in Letters \cup {"_", ":"}
            /\ TokenAt(t, i, kind) = Identifier(t, i)
         \/ /\ Ch(t, i) = Quote
            /\ TokenAt(t, i, kind) = String(t, i, StringEnd(t, i + 1))
         \/ /\ Ch(t, i) = LeftBrace
            /\ TokenAt(t, i, kind) = DocComment(t, i, DocFirst(t, i), DocLast(t, i))
         \/ /\ Ch(t, i) \in {CR, LF}
            /\ TokenAt(t, i, kind) =
                 WithLines(Found("EOL", <<>>, i, LineEnd(t, i)), <<LineEnd(t, i) - 1>>, FALSE)
<1> DEFINE c == Ch(t, i)
<1>1. c = EOF =>
        /\ ~ (c \in Brackets)
        /\ ~ (c \in Operators \cup Digits)
        /\ ~ (c \in BooleanOperators)
        /\ ~ (c \in Letters \cup {"_", ":"})
        /\ ~ (c = Quote)
        /\ ~ (c = LeftBrace)
        /\ ~ (c \in {CR, LF})
  BY Zenon DEF EOF, Brackets, Operators, Digits, BooleanOperators, Letters, Quote, LeftBrace, CR, LF
<1>2. c \in Brackets =>
        /\ ~ (c \in Operators \cup Digits)
        /\ ~ (c \in BooleanOperators)
        /\ ~ (c \in Letters \cup {"_", ":"})
        /\ ~ (c = Quote)
        /\ ~ (c = LeftBrace)
        /\ ~ (c \in {CR, LF})
  BY Zenon DEF Brackets, Operators, Digits, BooleanOperators, Letters, Quote, LeftBrace, CR, LF
<1>3. c \in Operators \cup Digits =>
        /\ ~ (c \in BooleanOperators)
        /\ ~ (c \in Letters \cup {"_", ":"})
        /\ ~ (c = Quote)
        /\ ~ (c = LeftBrace)
        /\ ~ (c \in {CR, LF})
  BY Zenon DEF Operators, Digits, BooleanOperators, Letters, Quote, LeftBrace, CR, LF
<1>4. c \in BooleanOperators =>
        /\ ~ (c \in Letters \cup {"_", ":"})
        /\ ~ (c = Quote)
        /\ ~ (c = LeftBrace)
        /\ ~ (c \in {CR, LF})
  BY Zenon DEF BooleanOperators, Letters, Quote, LeftBrace, CR, LF
<1>5. c \in Letters \cup {"_", ":"} =>
        /\ ~ (c = Quote)
        /\ ~ (c = LeftBrace)
        /\ ~ (c \in {CR, LF})
  BY Zenon DEF Letters, Quote, LeftBrace, CR, LF
<1>6. c = Quote =>
        /\ ~ (c = LeftBrace)
        /\ ~ (c \in {CR, LF})
  BY Zenon DEF Quote, LeftBrace, CR, LF
<1>7. c = LeftBrace =>
        /\ ~ (c \in {CR, LF})
  BY Zenon DEF LeftBrace, CR, LF
<1>8. CASE c = EOF
  BY <1>8, <1>1 DEF TokenAt
<1>9. CASE c \in Brackets
  BY <1>9, <1>1, <1>2 DEF TokenAt
<1>10. CASE c \in Operators \cup Digits
  <2>1. c # EOF /\ c \notin Brackets
    BY <1>10, <1>1, <1>2
  <2>2. c = t[i]
    BY <2>1, ChFact
  <2>3. CASE IsNumber(t, i)
    BY <1>10, <1>3, <2>1, <2>3 DEF TokenAt
  <2>4. CASE ~IsNumber(t, i)
    <3>1. c \in Operators
      BY <1>10, <2>2, <2>4 DEF IsNumber
    <3> QED
      BY <1>10, <1>3, <2>1, <2>4, <3>1 DEF TokenAt
  <2> QED
    BY <2>3, <2>4
<1>11. CASE c \in BooleanOperators
  BY <1>11, <1>1, <1>2, <1>3, <1>4 DEF TokenAt, Reported, Found, Lexed
<1>12. CASE c \in Letters \cup {"_", ":"}
  BY <1>12, <1>1, <1>2, <1>3, <1>4, <1>5 DEF TokenAt
<1>13. CASE c = Quote
  BY <1>13, <1>1, <1>2, <1>3, <1>4, <1>5, <1>6 DEF TokenAt
<1>14. CASE c = LeftBrace
  BY <1>14, <1>1, <1>2, <1>3, <1>4, <1>5, <1>6, <1>7 DEF TokenAt, DocFirst, DocLast
<1>15. CASE c \in {CR, LF}
  BY <1>15, <1>1, <1>2, <1>3, <1>4, <1>5, <1>6, <1>7 DEF TokenAt
<1> QED
  BY <1>8, <1>9, <1>10, <1>11, <1>12, <1>13, <1>14, <1>15 DEF TokenStarts

\* A token is lexed from where it starts to where the next one may start.
LEMMA TokenFact ==
  ASSUME NEW t, t \in Seq(Char), NEW i \in 1..(Len(t) + 2), NEW kind, Ch(t, i) \in TokenStarts
  PROVE  LexedFrom(t, i, TokenAt(t, i, kind)) /\ TokenAt(t, i, kind).pop = 0
<1> DEFINE c == Ch(t, i)
           r == TokenAt(t, i, kind)
<1>1. /\ i \in Nat \ {0}
      /\ c # EOF => i \in 1..Len(t) /\ t[i] = c
  BY ChFact
<1>2. CASE c = EOF
  <2>1. PICK type \in {"END", "EOL"} : r = Found(type, <<>>, i, i)
    BY <1>1, <1>2, TokenAtCases, Zenon DEF EOF, Brackets, Operators, Digits, BooleanOperators,
       Letters, Quote, LeftBrace, CR, LF
  <2>2. i \in i..(Len(t) + 2) /\ type # "DocComment"
    OBVIOUS
  <2> QED
    BY <2>1, <2>2, FoundFact
<1>3. CASE c # EOF
  <2>1. i + 1 \in i..(Len(t) + 2) /\ i + 2 \in i..(Len(t) + 2)
    BY <1>1, <1>3
  <2>2. CASE c \in Brackets /\ r = Found(t[i], <<>>, i, i + 1)
    <3>1. t[i] # "DocComment"
      BY <1>1, <1>3, <2>2, Zenon DEF Brackets
    <3> QED
      BY <2>1, <2>2, <3>1, FoundFact
  <2>3. CASE r = Number(t, i, Skip(t, i + 1, Digits))
    <3>1. i + 1 \in 1..(Len(t) + 1) /\ i \in 1..Len(t)
      BY <1>1, <1>3
    <3>2. Skip(t, i + 1, Digits) \in (i + 1)..(Len(t) + 1)
      <4>1. EOF \notin Digits
        BY Zenon DEF EOF, Digits
      <4> QED
        BY <3>1, <4>1, SkipFact
    <3> QED
      BY <2>3, <3>1, <3>2, NumberFact
  <2>4. CASE r = Found("Operator", <<t[i], "=">>, i, i + 2)
    <3> DEFINE v == <<t[i], "=">>
    <3>1. r = Found("Operator", v, i, i + 2)
      BY <2>4
    <3> HIDE DEF v, r
    <3>2. LexedFrom(t, i, Found("Operator", v, i, i + 2))
          /\ Found("Operator", v, i, i + 2).pop = 0
      BY <2>1, FoundFact
    <3> QED
      BY <3>1, <3>2 DEF r
  <2>5. CASE r = Found("Operator", <<t[i]>>, i, i + 1)
    <3> DEFINE v == <<t[i]>>
    <3>1. r = Found("Operator", v, i, i + 1)
      BY <2>5
    <3> HIDE DEF v, r
    <3>2. LexedFrom(t, i, Found("Operator", v, i, i + 1))
          /\ Found("Operator", v, i, i + 1).pop = 0
      BY <2>1, FoundFact
    <3> QED
      BY <3>1, <3>2 DEF r
  <2>6. CASE Reported(r, Found("Operator", <<t[i], t[i]>>, i, i + 2))
    <3> DEFINE v == <<t[i], t[i]>>
               s == Found("Operator", v, i, i + 2)
    <3>1. Reported(r, s)
      BY <2>6
    <3> HIDE DEF v, r
    <3>2. LexedFrom(t, i, s) /\ s.pop = 0
      BY <2>1, FoundFact
    <3> HIDE DEF s
    <3>3. LexedFrom(t, i, r) /\ r.pop = 0
      BY <3>1, <3>2, ReportedFact
    <3> QED
      BY <3>3 DEF r
  <2>7. CASE r = Identifier(t, i)
    BY <1>1, <1>3, <2>7, IdentifierFact
  <2>8. CASE r = String(t, i, StringEnd(t, i + 1))
    BY <1>1, <1>3, <2>8, StringFact
  <2>9. CASE c = LeftBrace /\ r = DocComment(t, i, DocFirst(t, i), DocLast(t, i))
    BY <1>1, <1>3, <2>9, DocCommentFact
  <2>10. CASE c \in {CR, LF} /\ r = WithLines(Found("EOL", <<>>, i, LineEnd(t, i)),
                                              <<LineEnd(t, i) - 1>>, FALSE)
    BY <1>1, <1>3, <2>10, EOLFact
  <2> QED
    BY <1>1, <1>3, <2>2, <2>3, <2>4, <2>5, <2>6, <2>7, <2>8, <2>9, <2>10, TokenAtCases
<1> QED
  BY <1>2, <1>3

(* What is skipped in front of a token. *)
\* It is at least one character, and the lines counted are in it.
LEMMA SkippedFact ==
  ASSUME NEW t, t \in Seq(Char), NEW i \in 1..(Len(t) + 2), Ch(t, i) \notin TokenStarts
  PROVE  /\ Skipped(t, i).at \in (i + 1)..(Len(t) + 1)
         /\ LinesIn(t, Skipped(t, i).lines, i, Skipped(t, i).at)
<1>1. i \in 1..Len(t) /\ i + 1 \in 1..(Len(t) + 1) /\ Ch(t, i) # EOF
  <2>1. Ch(t, i) # EOF
    BY Zenon DEF TokenStarts
  <2>2. i \in Nat \ {0}
    OBVIOUS
  <2> QED
    BY <2>1, <2>2, ChFact
<1>2. CASE Ch(t, i) = Semicolon /\ Ch(t, i + 1) = "/"
  <2>1. Skipped(t, i) = CommentEnd(t, i + 2)
    BY <1>2 DEF Skipped
  <2>2. i + 1 <= Len(t)
    <3>1. Ch(t, i + 1) # EOF
      BY <1>2, Zenon DEF EOF
    <3>2. i + 1 \in Nat \ {0}
      OBVIOUS
    <3> QED
      BY <3>1, <3>2, ChFact
  <2>3. i + 2 \in 1..(Len(t) + 1)
    BY <2>2
  <2> DEFINE e == CommentEnd(t, i + 2)
  <2>4. e.at \in (i + 2)..(Len(t) + 1) /\ LinesIn(t, e.lines, i + 2, e.at)
    BY <2>3, CommentEndFact
  <2> HIDE DEF e
  <2>5. LinesIn(t, e.lines, i, e.at)
    BY <2>4, LinesWiden
  <2> QED
    BY <2>1, <2>4, <2>5 DEF e
<1>3. CASE ~(Ch(t, i) = Semicolon /\ Ch(t, i + 1) = "/")
  <2> DEFINE a == IF Ch(t, i) = Semicolon THEN Until(t, i + 1, {CR, LF})
                  ELSE IF Ch(t, i) \in Blanks THEN Skip(t, i, Blanks)
                  ELSE i + 1
  <2>1. Skipped(t, i).at = a /\ Skipped(t, i).lines = <<>>
    BY <1>3 DEF Skipped
  <2>2. Until(t, i + 1, {CR, LF}) \in (i + 1)..(Len(t) + 1)
    BY <1>1, UntilFact
  <2>3. Ch(t, i) \in Blanks => Skip(t, i, Blanks) \in (i + 1)..(Len(t) + 1)
    <3>1. EOF \notin Blanks
      BY Zenon DEF EOF, Blanks
    <3>2. i \in 1..(Len(t) + 1)
      BY <1>1
    <3>3. Skip(t, i, Blanks) \in i..(Len(t) + 1) /\ Ch(t, Skip(t, i, Blanks)) \notin Blanks
      BY <3>1, <3>2, SkipFact
    <3> QED
      BY <3>3
  <2>4. a \in (i + 1)..(Len(t) + 1)
    BY <1>1, <2>2, <2>3
  <2> HIDE DEF a
  <2> QED
    BY <2>1, <2>4, NoLines
<1> QED
  BY <1>2, <1>3

-----------------------------------------------------------------------------
(* realConsume().                                                          *)

Kinds == {"EOL", "Unknown"}

(* What it leaves when k of the waiting tokens are taken already. *)
LexedTaking(t, waiting, i, k, r) ==
  LexedFrom(t, i, r) /\ r.pop \in 0..(Len(waiting) - k)

(* lex is right behind index i. *)
LexesBehind(t, waiting, lex, i) ==
  \A j \in (i + 1)..(Len(t) + 2), k \in 0..Len(waiting), kind \in Kinds :
    LexedTaking(t, waiting, j, k, lex[<<j, k, kind>>])

\* Of a token it only matters whether it ends a line.
LEMMA KindFact ==
  ASSUME NEW type PROVE Kind(type) \in Kinds
  BY DEF Kind, Kinds

\* A continuation is followed by what is lexed behind the token it takes.
LEMMA ContinuedFact ==
  ASSUME NEW t, NEW waiting, Len(waiting) \in Nat, NEW i \in Nat, NEW k \in Nat, NEW l \in Nat,
         NEW r, IsLexed(r), r.at \in (i + 1)..(Len(t) + 2), LinesIn(t, r.lines, i + 1, r.at),
         r.pop \in Nat, l = k + r.pop,
         NEW rest, LexedTaking(t, waiting, r.at, l, rest)
  PROVE  LexedTaking(t, waiting, i, k, Continued(r, rest))
<1> DEFINE s == Continued(r, rest)
<1>1. /\ IsLexed(rest) /\ rest.at \in r.at..(Len(t) + 2)
      /\ LinesIn(t, rest.lines, r.at, rest.at) /\ GoodToken(t, rest.tok)
      /\ rest.pop \in 0..(Len(waiting) - l)
  BY DEF LexedTaking, LexedFrom
<1>2. /\ IsLexed(s) /\ s.tok = rest.tok /\ s.at = rest.at /\ s.lines = r.lines \o rest.lines
      /\ s.pop = rest.pop + r.pop
  <2> DEFINE a == rest.tok
             b == rest.at
             c == rest.lines
             d == rest.error
             e == rest.pop
  <2>1. rest = [tok |-> a, at |-> b, lines |-> c, error |-> d, pop |-> e]
    BY <1>1 DEF IsLexed
  <2>2. \E f : s = [rest EXCEPT !.lines = r.lines \o c, !.pop = e + r.pop, !.error = f]
    BY DEF Continued
  <2> HIDE DEF a, b, c, d, e, s
  <2>3. \E f : s = [tok |-> a, at |-> b, lines |-> r.lines \o c, error |-> f, pop |-> e + r.pop]
    BY <2>1, <2>2
  <2> QED
    BY <2>3 DEF IsLexed, a, b, c, d, e
<1> HIDE DEF s
<1>3. r.at \in Nat /\ rest.at \in Nat /\ i <= r.at /\ r.at <= rest.at /\ i + 1 \in Nat /\ i <= i + 1
  BY <1>1
<1>4. LinesIn(t, r.lines, i, r.at)
  BY <1>3, LinesWiden
<1>5. LinesIn(t, s.lines, i, s.at)
  BY <1>1, <1>2, <1>3, <1>4, LinesJoin
<1>6. s.pop \in 0..(Len(waiting) - k)
  BY <1>1, <1>2
<1>7. s.at \in i..(Len(t) + 2)
  BY <1>1, <1>2
<1>8. LexedTaking(t, waiting, i, k, s)
  BY <1>1, <1>2, <1>5, <1>6, <1>7 DEF LexedTaking, LexedFrom
<1> QED
  BY <1>8 DEF s

\* If realConsume() is right from the later indices it is right from this one.
LEMMA LexFromFact ==
  ASSUME NEW t, t \in Seq(Char), NEW waiting, Len(waiting) \in Nat,
         NEW i \in 1..(Len(t) + 2), NEW k \in 0..Len(waiting), NEW kind \in Kinds,
         NEW lex, LexesBehind(t, waiting, lex, i)
  PROVE  LexedTaking(t, waiting, i, k, LexFrom(lex, t, waiting, i, k, kind))
<1> DEFINE r == LexFrom(lex, t, waiting, i, k, kind)
<1>1. CASE Ch(t, i) \in TokenStarts
  <2>1. r = TokenAt(t, i, kind)
    BY <1>1 DEF LexFrom
  <2>2. LexedFrom(t, i, TokenAt(t, i, kind)) /\ TokenAt(t, i, kind).pop = 0
    BY <1>1, TokenFact
  <2> HIDE DEF r
  <2>3. LexedTaking(t, waiting, i, k, r)
    BY <2>1, <2>2 DEF LexedTaking
  <2> QED
    BY <2>3 DEF r
<1>2. CASE Ch(t, i) \notin TokenStarts /\ Ch(t, i) # Backslash
  <2> DEFINE j == Skipped(t, i).at
             lines == Skipped(t, i).lines
             s == lex[<<j, k, kind>>]
  <2>1. Preceded(r, s, lines)
    BY <1>2 DEF LexFrom, Preceded
  <2>2. j \in (i + 1)..(Len(t) + 1) /\ LinesIn(t, lines, i, j)
    BY <1>2, SkippedFact
  <2> HIDE DEF r, j, lines
  <2>3. LexedTaking(t, waiting, j, k, s)
    BY <2>2 DEF LexesBehind
  <2> HIDE DEF s
  <2>4. LexedFrom(t, j, s) /\ s.pop \in 0..(Len(waiting) - k) /\ i \in Nat /\ j \in Nat /\ i <= j
    BY <2>2, <2>3 DEF LexedTaking
  <2>5. LexedFrom(t, i, r) /\ r.pop = s.pop
    BY <2>1, <2>2, <2>4, WithLinesFact
  <2>6. LexedTaking(t, waiting, i, k, r)
    BY <2>4, <2>5 DEF LexedTaking
  <2> QED
    BY <2>6 DEF r
<1>3. CASE Ch(t, i) \notin TokenStarts /\ Ch(t, i) = Backslash
  <2>1. i \in 1..Len(t) /\ i \in Nat
    <3>1. Ch(t, i) # EOF
      BY <1>3, Zenon DEF EOF, Backslash
    <3> QED
      BY <3>1, ChFact
  <2>2. CASE k < Len(waiting)
    <3> DEFINE s == [Lexed(waiting[k + 1], i + 1) EXCEPT !.pop = 1]
               rest == lex[<<s.at, k + 1, Kind(s.tok.type)>>]
    <3>1. r = Continued(s, rest)
      BY <1>3, <2>2 DEF LexFrom, ContinuedFrom
    <3>2. /\ IsLexed(s) /\ s.at = i + 1 /\ s.lines = <<>> /\ s.pop = 1
      <4> DEFINE w == Lexed(waiting[k + 1], i + 1)
      <4>1. IsLexed(w) /\ w.at = i + 1 /\ w.lines = <<>>
        BY DEF Lexed, IsLexed
      <4> HIDE DEF w, r, rest
      <4>2. s = [w EXCEPT !.pop = 1]
        BY DEF w
      <4> HIDE DEF s
      <4> QED
        BY <4>1, <4>2 DEF IsLexed
    <3>3. LexedTaking(t, waiting, s.at, k + 1, rest)
      <4>1. s.at \in (i + 1)..(Len(t) + 2) /\ k + 1 \in 0..Len(waiting)
        BY <2>1, <2>2, <3>2
      <4> DEFINE c == Kind(s.tok.type)
      <4>2. c \in Kinds
        BY KindFact
      <4> HIDE DEF s, c
      <4> QED
        BY <4>1, <4>2 DEF LexesBehind, c
    <3> HIDE DEF s, rest, r
    <3>4. LexedTaking(t, waiting, i, k, Continued(s, rest))
      <4>1. k + 1 = k + s.pop /\ s.pop \in Nat /\ k + 1 \in Nat /\ k \in Nat
        BY <3>2
      <4>2. s.at \in (i + 1)..(Len(t) + 2) /\ LinesIn(t, s.lines, i + 1, s.at)
        BY <2>1, <3>2, NoLines
      <4> QED
        BY <2>1, <3>2, <3>3, <4>1, <4>2, ContinuedFact
    <3> QED
      BY <3>1, <3>4 DEF r
  <2>3. CASE k = Len(waiting)
    <3> DEFINE s == lex[<<i + 1, k, kind>>]
               rest == lex[<<s.at, k, Kind(s.tok.type)>>]
    <3>1. r = Continued(s, rest)
      BY <1>3, <2>3 DEF LexFrom, ContinuedFrom
    <3>2. LexedTaking(t, waiting, i + 1, k, s)
      <4>1. i + 1 \in (i + 1)..(Len(t) + 2)
        BY <2>1
      <4> QED
        BY <4>1 DEF LexesBehind
    <3> HIDE DEF s
    <3>3. /\ IsLexed(s) /\ s.at \in (i + 1)..(Len(t) + 2)
          /\ LinesIn(t, s.lines, i + 1, s.at) /\ s.pop = 0
      BY <2>3, <3>2 DEF LexedTaking, LexedFrom
    <3>4. LexedTaking(t, waiting, s.at, k, rest)
      <4> DEFINE c == Kind(s.tok.type)
      <4>1. c \in Kinds
        BY KindFact
      <4> HIDE DEF c
      <4> QED
        BY <3>3, <4>1 DEF LexesBehind, c
    <3> HIDE DEF rest, r
    <3>5. LexedTaking(t, waiting, i, k, Continued(s, rest))
      <4>1. k = k + s.pop /\ s.pop \in Nat /\ k \in Nat
        BY <3>3
      <4> QED
        BY <2>1, <3>3, <3>4, <4>1, ContinuedFact
    <3> QED
      BY <3>1, <3>5 DEF r
  <2> QED
    BY <2>2, <2>3
<1> QED
  BY <1>1, <1>2, <1>3

(* g and h agree behind index i. *)
SameBehind(t, waiting, g, h, i) ==
  \A j \in (i + 1)..(Len(t) + 2), k \in 0..Len(waiting), kind \in Kinds :
    g[<<j, k, kind>>] = h[<<j, k, kind>>]

\* realConsume() depends on later indices only.
LEMMA LexFromLocal ==
  ASSUME NEW t, t \in Seq(Char), NEW waiting, Len(waiting) \in Nat,
         NEW i \in 1..(Len(t) + 2), NEW k \in 0..Len(waiting), NEW kind \in Kinds,
         NEW g, LexesBehind(t, waiting, g, i), NEW h, SameBehind(t, waiting, g, h, i)
  PROVE  LexFrom(g, t, waiting, i, k, kind) = LexFrom(h, t, waiting, i, k, kind)
<1>1. CASE Ch(t, i) \in TokenStarts
  BY <1>1 DEF LexFrom
<1>2. CASE Ch(t, i) \notin TokenStarts /\ Ch(t, i) # Backslash
  <2> DEFINE j == Skipped(t, i).at
  <2>1. j \in (i + 1)..(Len(t) + 2)
    <3>1. j \in (i + 1)..(Len(t) + 1)
      BY <1>2, SkippedFact
    <3> HIDE DEF j
    <3> QED
      BY <3>1
  <2>2. g[<<j, k, kind>>] = h[<<j, k, kind>>]
    BY <2>1 DEF SameBehind
  <2> QED
    BY <1>2, <2>2 DEF LexFrom
<1>3. CASE Ch(t, i) \notin TokenStarts /\ Ch(t, i) = Backslash
  <2>1. i + 1 \in (i + 1)..(Len(t) + 2)
    <3>1. Ch(t, i) # EOF
      BY <1>3, Zenon DEF EOF, Backslash
    <3> QED
      BY <3>1, ChFact
  <2>2. CASE k < Len(waiting)
    <3> DEFINE w == Lexed(waiting[k + 1], i + 1)
               s == [w EXCEPT !.pop = 1]
               c == Kind(s.tok.type)
    <3>1. s.at = i + 1
      <4>1. IsLexed(w) /\ w.at = i + 1
        BY DEF Lexed, IsLexed
      <4> HIDE DEF w
      <4> QED
        BY <4>1 DEF IsLexed
    <3>2. c \in Kinds
      BY KindFact
    <3>3. g[<<s.at, k + 1, c>>] = h[<<s.at, k + 1, c>>]
      <4>1. k + 1 \in 0..Len(waiting)
        BY <2>2
      <4> HIDE DEF s, c
      <4> QED
        BY <2>1, <3>1, <3>2, <4>1 DEF SameBehind
    <3> QED
      BY <1>3, <2>2, <3>3 DEF LexFrom, ContinuedFrom
  <2>3. CASE k = Len(waiting)
    <3> DEFINE s == g[<<i + 1, k, kind>>]
               c == Kind(s.tok.type)
    <3>1. h[<<i + 1, k, kind>>] = s
      BY <2>1 DEF SameBehind
    <3>2. s.at \in (i + 1)..(Len(t) + 2)
      <4>1. LexedTaking(t, waiting, i + 1, k, s)
        BY <2>1 DEF LexesBehind
      <4> HIDE DEF s
      <4> QED
        BY <4>1 DEF LexedTaking, LexedFrom
    <3>3. c \in Kinds
      BY KindFact
    <3>4. g[<<s.at, k, c>>] = h[<<s.at, k, c>>]
      <4> HIDE DEF s, c
      <4> QED
        BY <3>2, <3>3 DEF SameBehind
    <3> QED
      BY <1>3, <2>3, <3>1, <3>4 DEF LexFrom, ContinuedFrom
  <2> QED
    BY <2>2, <2>3
<1> QED
  BY <1>1, <1>2, <1>3

(* lex is realConsume() from index i. *)
LexesAt(t, waiting, lex, i) ==
  \A k \in 0..Len(waiting), kind \in Kinds :
    /\ lex[<<i, k, kind>>] = LexFrom(lex, t, waiting, i, k, kind)
    /\ LexedTaking(t, waiting, i, k, lex[<<i, k, kind>>])

\* A function of the places of a text.
LEMMA PlacesFact ==
  ASSUME NEW t, t \in Seq(Char), NEW waiting, Len(waiting) \in Nat
  PROVE  /\ \A i \in 1..(Len(t) + 2), k \in 0..Len(waiting), kind \in Kinds :
              LET p == <<i, k, kind>>
              IN p \in Places(t, waiting) /\ p[1] = i /\ p[2] = k /\ p[3] = kind
         /\ \A p \in Places(t, waiting) :
              /\ p[1] \in 1..(Len(t) + 2) /\ p[2] \in 0..Len(waiting) /\ p[3] \in Kinds
              /\ p = <<p[1], p[2], p[3]>>
  BY DEF Places, Kinds

\* There is a function that is realConsume() from each index.
LEMMA LexingExists ==
  ASSUME NEW t, t \in Seq(Char), NEW waiting, Len(waiting) \in Nat
  PROVE  \E lex : /\ lex = [p \in Places(t, waiting) |-> lex[p]]
                  /\ \A i \in 1..(Len(t) + 2) : LexesAt(t, waiting, lex, i)
<1> DEFINE n == Len(t) + 2
           D == Places(t, waiting)
           Upto(g, m) == /\ g = [p \in D |-> g[p]]
                         /\ \A i \in 1..n : i > n - m => LexesAt(t, waiting, g, i)
           T == {m \in Nat : \E g : Upto(g, m)}
<1>1. 0 \in T
  <2> DEFINE g == [p \in D |-> 0]
  <2>1. g = [p \in D |-> g[p]]
    OBVIOUS
  <2> HIDE DEF g, D
  <2>2. Upto(g, 0)
    BY <2>1
  <2> QED
    BY <2>2
<1>2. ASSUME NEW m \in Nat, m \in T PROVE m + 1 \in T
  <2>1. PICK g : Upto(g, m)
    BY <1>2
  <2> DEFINE j == n - m
             h == [p \in D |-> IF p[1] = j THEN LexFrom(g, t, waiting, p[1], p[2], p[3])
                               ELSE g[p]]
  <2>2. ASSUME NEW i \in 1..n, NEW k \in 0..Len(waiting), NEW kind \in Kinds
        PROVE  h[<<i, k, kind>>] = IF i = j THEN LexFrom(g, t, waiting, i, k, kind)
                                   ELSE g[<<i, k, kind>>]
    <3> DEFINE p == <<i, k, kind>>
    <3>1. p \in D /\ p[1] = i /\ p[2] = k /\ p[3] = kind
      BY PlacesFact
    <3> HIDE DEF p, D
    <3>2. h[p] = IF i = j THEN LexFrom(g, t, waiting, i, k, kind) ELSE g[p]
      BY <3>1
    <3> QED
      BY <3>2 DEF p
  <2>3. h = [p \in D |-> h[p]]
    <3> HIDE DEF D
    <3> QED
      OBVIOUS
  <2> HIDE DEF h
  <2>4. ASSUME NEW i \in 1..n, i >= j
        PROVE  /\ LexesBehind(t, waiting, g, i)
               /\ SameBehind(t, waiting, g, h, i)
    <3>1. \A l \in (i + 1)..n : LexesAt(t, waiting, g, l)
      BY <2>1, <2>4
    <3>2. LexesBehind(t, waiting, g, i)
      BY <3>1 DEF LexesBehind, LexesAt
    <3>3. \A l \in (i + 1)..n : l \in 1..n /\ l # j
      BY <2>4
    <3> HIDE DEF j, n
    <3> QED
      BY <2>2, <3>2, <3>3 DEF SameBehind, n
  <2>5. ASSUME NEW i \in 1..n, i >= j PROVE LexesAt(t, waiting, h, i)
    <3> SUFFICES ASSUME NEW k \in 0..Len(waiting), NEW kind \in Kinds
                 PROVE  /\ h[<<i, k, kind>>] = LexFrom(h, t, waiting, i, k, kind)
                        /\ LexedTaking(t, waiting, i, k, h[<<i, k, kind>>])
      BY DEF LexesAt
    <3>1. LexFrom(g, t, waiting, i, k, kind) = LexFrom(h, t, waiting, i, k, kind)
      BY <2>4, <2>5, LexFromLocal
    <3>2. LexedTaking(t, waiting, i, k, LexFrom(g, t, waiting, i, k, kind))
      BY <2>4, <2>5, LexFromFact
    <3>3. h[<<i, k, kind>>] = LexFrom(g, t, waiting, i, k, kind)
      <4>1. i # j => LexesAt(t, waiting, g, i)
        BY <2>1, <2>5
      <4>2. i # j => g[<<i, k, kind>>] = LexFrom(g, t, waiting, i, k, kind)
        BY <4>1 DEF LexesAt
      <4> QED
        BY <2>2, <4>2
    <3> QED
      BY <3>1, <3>2, <3>3
  <2>6. Upto(h, m + 1)
    <3> HIDE DEF D
    <3> QED
      BY <2>3, <2>5
  <2> HIDE DEF Upto
  <2> QED
    BY <2>6
<1> HIDE DEF T
<1>3. n \in T
  <2>1. n \in Nat
    OBVIOUS
  <2> HIDE DEF n
  <2> QED
    BY <1>1, <1>2, <2>1, Induction
<1>4. PICK g : Upto(g, n)
  BY <1>3 DEF T
<1> QED
  BY <1>4

\* Lexing is such a function.
LEMMA LexingFact ==
  ASSUME NEW t, t \in Seq(Char), NEW waiting, Len(waiting) \in Nat
  PROVE  \A i \in 1..(Len(t) + 2) : LexesAt(t, waiting, Lexing(t, waiting), i)
<1> DEFINE D == Places(t, waiting)
           n == Len(t) + 2
           P(f) == f = [p \in D |-> LexFrom(f, t, waiting, p[1], p[2], p[3])]
           lex == Lexing(t, waiting)
           S == {i \in 1..n : LexesAt(t, waiting, lex, i)}
<1>1. PICK g : /\ g = [p \in D |-> g[p]]
               /\ \A i \in 1..n : LexesAt(t, waiting, g, i)
  BY LexingExists
<1>2. P(g)
  <2>1. ASSUME NEW p \in D PROVE g[p] = LexFrom(g, t, waiting, p[1], p[2], p[3])
    <3>1. /\ p[1] \in 1..n /\ p[2] \in 0..Len(waiting) /\ p[3] \in Kinds
          /\ p = <<p[1], p[2], p[3]>>
      BY PlacesFact
    <3>2. LexesAt(t, waiting, g, p[1])
      BY <1>1, <3>1
    <3>3. g[<<p[1], p[2], p[3]>>] = LexFrom(g, t, waiting, p[1], p[2], p[3])
      BY <3>1, <3>2 DEF LexesAt
    <3> QED
      BY <3>1, <3>3
  <2> HIDE DEF D
  <2>2. [p \in D |-> g[p]] = [p \in D |-> LexFrom(g, t, waiting, p[1], p[2], p[3])]
    BY <2>1
  <2> QED
    BY <1>1, <2>2
<1>3. lex = CHOOSE f : P(f)
  BY DEF Lexing
<1>4. P(lex)
  <2> HIDE DEF P, lex
  <2> QED
    BY <1>2, <1>3, Zenon
<1> HIDE DEF lex
<1>5. ASSUME NEW i \in 1..n, NEW k \in 0..Len(waiting), NEW kind \in Kinds
      PROVE  lex[<<i, k, kind>>] = LexFrom(lex, t, waiting, i, k, kind)
  <2> DEFINE p == <<i, k, kind>>
  <2>1. p \in D /\ p[1] = i /\ p[2] = k /\ p[3] = kind
    BY PlacesFact
  <2> HIDE DEF p, D
  <2>2. lex[p] = LexFrom(lex, t, waiting, p[1], p[2], p[3])
    BY <1>4, <2>1
  <2> QED
    BY <2>1, <2>2 DEF p
<1>6. ASSUME NEW i \in 1..n, \A j \in (i + 1)..n : j \in S PROVE i \in S
  <2>1. LexesBehind(t, waiting, lex, i)
    <3>1. \A j \in (i + 1)..n : LexesAt(t, waiting, lex, j)
      BY <1>6
    <3> QED
      BY <3>1 DEF LexesBehind, LexesAt
  <2>2. ASSUME NEW k \in 0..Len(waiting), NEW kind \in Kinds
        PROVE  LexedTaking(t, waiting, i, k, LexFrom(lex, t, waiting, i, k, kind))
    BY <2>1, LexFromFact
  <2>3. LexesAt(t, waiting, lex, i)
    BY <1>5, <2>2 DEF LexesAt
  <2> QED
    BY <2>3
<1> HIDE DEF S
<1>7. \A i \in 1..n : i \in S
  <2>1. n \in Nat
    OBVIOUS
  <2> HIDE DEF n
  <2> QED
    BY <1>6, <2>1, Backward
<1> QED
  BY <1>7 DEF S, lex

\* What realConsume() leaves.
LEMMA RealConsumeFact ==
  ASSUME NEW t, t \in Seq(Char), NEW waiting, Len(waiting) \in Nat,
         NEW i \in 1..(Len(t) + 2), NEW type
  PROVE  LexedTaking(t, waiting, i, 0, RealConsume(t, i, type, waiting))
<1> DEFINE c == Kind(type)
<1>1. c \in Kinds
  BY KindFact
<1>2. LexesAt(t, waiting, Lexing(t, waiting), i)
  BY LexingFact
<1> HIDE DEF c
<1>3. LexedTaking(t, waiting, i, 0, Lexing(t, waiting)[<<i, 0, c>>])
  BY <1>1, <1>2 DEF LexesAt
<1> QED
  BY <1>3 DEF RealConsume, c

(* What is lexed from index i without taking a waiting token is lexed as   *)
(* if there were none.                                                     *)
Unaware(t, waiting, i) ==
  \A k \in 0..Len(waiting), kind \in Kinds :
    Lexing(t, waiting)[<<i, k, kind>>].pop = 0
    => Lexing(t, waiting)[<<i, k, kind>>] = Lexing(t, <<>>)[<<i, 0, kind>>]

\* It is, at every index.
LEMMA UnawareFact ==
  ASSUME NEW t, t \in Seq(Char), NEW waiting, Len(waiting) \in Nat
  PROVE  \A i \in 1..(Len(t) + 2) : Unaware(t, waiting, i)
<1> DEFINE n == Len(t) + 2
           u == Lexing(t, waiting)
           v == Lexing(t, <<>>)
           S == {i \in 1..n : Unaware(t, waiting, i)}
<1>1. Len(<<>>) = 0 /\ Len(<<>>) \in Nat
  OBVIOUS
<1>2. ASSUME NEW i \in 1..n PROVE LexesAt(t, waiting, u, i) /\ LexesAt(t, <<>>, v, i)
  BY <1>1, LexingFact
<1>3. ASSUME NEW i \in 1..n, \A j \in (i + 1)..n : j \in S PROVE i \in S
  <2>1. ASSUME NEW j \in (i + 1)..n, NEW k \in 0..Len(waiting), NEW kind \in Kinds
        PROVE  u[<<j, k, kind>>].pop = 0 => u[<<j, k, kind>>] = v[<<j, 0, kind>>]
    <3>1. Unaware(t, waiting, j)
      BY <1>3
    <3> QED
      BY <3>1 DEF Unaware
  <2> HIDE DEF S, u, v
  <2>2. ASSUME NEW k \in 0..Len(waiting), NEW kind \in Kinds, u[<<i, k, kind>>].pop = 0
        PROVE  u[<<i, k, kind>>] = v[<<i, 0, kind>>]
    <3>1. /\ u[<<i, k, kind>>] = LexFrom(u, t, waiting, i, k, kind)
          /\ v[<<i, 0, kind>>] = LexFrom(v, t, <<>>, i, 0, kind)
      <4>1. 0 \in 0..Len(<<>>)
        BY <1>1
      <4> QED
        BY <1>2, <4>1 DEF LexesAt
    <3>2. CASE Ch(t, i) \in TokenStarts
      BY <3>1, <3>2 DEF LexFrom
    <3>3. CASE Ch(t, i) \notin TokenStarts /\ Ch(t, i) # Backslash
      <4> DEFINE j == Skipped(t, i).at
                 a == u[<<j, k, kind>>]
                 b == v[<<j, 0, kind>>]
                 lines == Skipped(t, i).lines
      <4>1. j \in (i + 1)..n
        <5>1. j \in (i + 1)..(Len(t) + 1)
          BY <3>3, SkippedFact
        <5> HIDE DEF j
        <5> QED
          BY <5>1
      <4>2. /\ u[<<i, k, kind>>] = WithLines(a, lines, Skipped(t, i).error)
            /\ v[<<i, 0, kind>>] = WithLines(b, lines, Skipped(t, i).error)
        BY <3>1, <3>3 DEF LexFrom
      <4>3. IsLexed(a)
        <5>1. LexesAt(t, waiting, u, j)
          BY <1>2, <4>1
        <5> HIDE DEF j
        <5> QED
          BY <5>1 DEF LexesAt, LexedTaking, LexedFrom
      <4>4. a.pop = 0
        <5>1. Preceded(u[<<i, k, kind>>], a, lines)
          BY <4>2 DEF Preceded
        <5> HIDE DEF a
        <5>2. u[<<i, k, kind>>].pop = a.pop
          BY <4>3, <5>1 DEF Preceded, WithLines, IsLexed
        <5> QED
          BY <2>2, <5>2
      <4>5. a = b
        <5> HIDE DEF j
        <5> QED
          BY <2>1, <4>1, <4>4
      <4> QED
        BY <4>2, <4>5
    <3>4. CASE Ch(t, i) \notin TokenStarts /\ Ch(t, i) = Backslash
      <4>1. i + 1 \in (i + 1)..n
        <5>1. Ch(t, i) # EOF
          BY <3>4, Zenon DEF EOF, Backslash
        <5> QED
          BY <5>1, ChFact
      <4>2. CASE k < Len(waiting)
        <5> DEFINE w == Lexed(waiting[k + 1], i + 1)
                   s == [w EXCEPT !.pop = 1]
                   c == Kind(s.tok.type)
                   rest == u[<<s.at, k + 1, c>>]
        <5>1. u[<<i, k, kind>>] = Continued(s, rest)
          BY <3>1, <3>4, <4>2 DEF LexFrom, ContinuedFrom
        <5>2. s.at = i + 1 /\ s.pop = 1
          <6>1. IsLexed(w) /\ w.at = i + 1
            BY DEF Lexed, IsLexed
          <6> HIDE DEF w
          <6> QED
            BY <6>1 DEF IsLexed
        <5>3. c \in Kinds
          BY KindFact
        <5>4. IsLexed(rest) /\ rest.pop \in Nat
          <6>1. LexesAt(t, waiting, u, i + 1)
            BY <1>2, <4>1
          <6>2. k + 1 \in 0..Len(waiting)
            BY <4>2
          <6> HIDE DEF s, c
          <6>3. LexedTaking(t, waiting, i + 1, k + 1, rest)
            BY <5>2, <5>3, <6>1, <6>2 DEF LexesAt
          <6> QED
            BY <6>2, <6>3 DEF LexedTaking, LexedFrom
        <5> HIDE DEF s, rest
        <5>5. Continued(s, rest).pop = rest.pop + s.pop
          BY <5>4 DEF Continued, IsLexed
        <5> QED
          BY <2>2, <5>1, <5>2, <5>4, <5>5
      <4>3. CASE k = Len(waiting)
        <5> DEFINE s == u[<<i + 1, k, kind>>]
                   c == Kind(s.tok.type)
                   rest == u[<<s.at, k, c>>]
        <5>1. u[<<i, k, kind>>] = Continued(s, rest)
          BY <3>1, <3>4, <4>3 DEF LexFrom, ContinuedFrom
        <5>2. IsLexed(s) /\ s.at \in (i + 1)..n /\ s.pop = 0
          <6>1. LexesAt(t, waiting, u, i + 1)
            BY <1>2, <4>1
          <6>2. LexedTaking(t, waiting, i + 1, k, s)
            BY <6>1 DEF LexesAt
          <6> HIDE DEF s
          <6> QED
            BY <4>3, <6>2 DEF LexedTaking, LexedFrom
        <5>3. c \in Kinds
          BY KindFact
        <5>4. rest.pop = 0
          <6>1. LexesAt(t, waiting, u, s.at)
            BY <1>2, <5>2
          <6> HIDE DEF s, c
          <6>2. LexedTaking(t, waiting, s.at, k, rest)
            BY <5>3, <6>1 DEF LexesAt
          <6> QED
            BY <4>3, <6>2 DEF LexedTaking
        <5>5. s = v[<<i + 1, 0, kind>>]
          BY <2>1, <4>1, <5>2
        <5>6. rest = v[<<s.at, 0, c>>]
          <6> HIDE DEF s, c
          <6> QED
            BY <2>1, <5>2, <5>3, <5>4
        <5>7. v[<<i, 0, kind>>] = ContinuedFrom(v, 0, v[<<i + 1, 0, kind>>])
          <6>1. ~(0 < Len(<<>>))
            BY <1>1
          <6> QED
            BY <3>1, <3>4, <6>1 DEF LexFrom
        <5>8. v[<<i, 0, kind>>] = Continued(s, rest)
          BY <5>5, <5>6, <5>7 DEF ContinuedFrom
        <5> QED
          BY <5>1, <5>8
      <4> QED
        BY <4>2, <4>3
    <3> QED
      BY <3>2, <3>3, <3>4
  <2>3. Unaware(t, waiting, i)
    BY <2>2 DEF Unaware, u, v
  <2> QED
    BY <2>3 DEF S
<1> HIDE DEF S
<1>4. \A i \in 1..n : i \in S
  <2>1. n \in Nat
    OBVIOUS
  <2> HIDE DEF n
  <2> QED
    BY <1>3, <2>1, Backward
<1> QED
  BY <1>4 DEF S

\* A token lexed while others wait is the same, as long as it takes none of them.
LEMMA TakesNone ==
  ASSUME NEW t, t \in Seq(Char), NEW waiting, Len(waiting) \in Nat,
         NEW i \in 1..(Len(t) + 2), NEW type, RealConsume(t, i, type, waiting).pop = 0
  PROVE  RealConsume(t, i, type, waiting) = RealConsume(t, i, type, <<>>)
<1> DEFINE c == Kind(type)
<1>1. c \in Kinds
  BY KindFact
<1>2. Unaware(t, waiting, i)
  BY UnawareFact
<1> HIDE DEF c
<1>3. Lexing(t, waiting)[<<i, 0, c>>].pop = 0
      => Lexing(t, waiting)[<<i, 0, c>>] = Lexing(t, <<>>)[<<i, 0, c>>]
  BY <1>1, <1>2 DEF Unaware
<1> QED
  BY <1>3 DEF RealConsume, c

-----------------------------------------------------------------------------
(* The table of line offsets.                                              *)

(* part[i] is a followed by the first i heaps. *)
Parts(part, heaps, n, a) ==
  /\ part[0] = a
  /\ \A i \in 0..n : part[i] \in Seq(Nat)
  /\ \A i \in 1..n : part[i] = part[i - 1] \o heaps[i]

\* FlattenSeq is the heaps one behind the other.
LEMMA FlattenSeqFact ==
  ASSUME NEW heaps \in Seq(Seq(Nat))
  PROVE  \E part : Parts(part, heaps, Len(heaps), <<>>) /\ FlattenSeq(heaps) = part[Len(heaps)]
<1> DEFINE n == Len(heaps)
           X == Seq(Nat)
           a == <<>>
           step == [i \in Nat |-> [x \in X |-> IF i \in 1..n THEN x \o heaps[i] ELSE x]]
<1>1. n \in Nat
  OBVIOUS
<1>2. a \in X /\ Steps(X, step)
  <2>1. ASSUME NEW i \in Nat, NEW x \in X PROVE (IF i \in 1..n THEN x \o heaps[i] ELSE x) \in X
    <3>1. i \in 1..n => heaps[i] \in Seq(Nat)
      OBVIOUS
    <3> QED
      BY <3>1
  <2> QED
    BY <2>1 DEF Steps
<1> HIDE DEF n
<1>3. PICK f : Chain(f, X, a, step, n)
  <2> HIDE DEF X, a, step
  <2> QED
    BY <1>1, <1>2, Upward, Zenon
<1>4. \A i \in 0..n : f[i] \in Seq(Nat)
  BY <1>3 DEF Chain
<1>5. ASSUME NEW i \in 1..n PROVE f[i] = f[i - 1] \o heaps[i]
  <2>1. f[i - 1] \in Seq(Nat) /\ i \in Nat
    BY <1>1, <1>4
  <2>2. step[i][f[i - 1]] = f[i - 1] \o heaps[i]
    BY <2>1
  <2>3. f[i] = step[i][f[i - 1]]
    BY <1>3 DEF Chain
  <2> QED
    BY <2>2, <2>3
<1>6. f[0] = <<>>
  BY <1>3 DEF Chain
<1> HIDE DEF step
<1>7. Parts(f, heaps, n, <<>>)
  BY <1>4, <1>5, <1>6 DEF Parts
<1>8. FlattenSeq(heaps) = f[n]
  <2>1. CASE n = 0
    <3>1. FlattenSeq(heaps) = heaps /\ heaps = <<>>
      BY <2>1 DEF FlattenSeq, n
    <3> QED
      BY <1>6, <2>1, <3>1
  <2>2. CASE n # 0
    <3> DEFINE At(g, i) == IF i = 1 THEN heaps[i] ELSE g[i - 1] \o heaps[i]
               P(g) == g = [i \in 1..n |-> At(g, i)]
               h == [i \in 1..n |-> f[i]]
               c == CHOOSE g : P(g)
    <3>1. FlattenSeq(heaps) = c[n]
      BY <2>2 DEF FlattenSeq, n
    <3>2. P(h)
      <4>1. ASSUME NEW i \in 1..n PROVE f[i] = At(h, i)
        <5>1. CASE i = 1
          <6>1. heaps[1] \in Seq(Nat)
            BY <1>1, <5>1 DEF n
          <6>2. f[1] = <<>> \o heaps[1]
            <7>1. 1 \in 1..n /\ 1 - 1 = 0
              BY <1>1, <5>1
            <7>2. f[1] = f[1 - 1] \o heaps[1]
              BY <1>5, <7>1
            <7> QED
              BY <1>6, <7>1, <7>2
          <6> QED
            BY <5>1, <6>1, <6>2
        <5>2. CASE i # 1
          <6>1. i - 1 \in 1..n
            BY <1>1, <5>2
          <6> QED
            BY <1>5, <5>2, <6>1
        <5> QED
          BY <5>1, <5>2
      <4> HIDE DEF At
      <4> QED
        BY <4>1
    <3>3. P(c)
      <4> HIDE DEF P, h
      <4> QED
        BY <3>2, Zenon
    <3> HIDE DEF c
    <3>4. \A i \in 1..n : c[i] = At(c, i)
      BY <3>3
    <3> DEFINE S == {i \in Nat : i + 1 <= n => c[i + 1] = f[i + 1]}
    <3>5. 0 \in S
      <4> SUFFICES ASSUME 1 <= n PROVE c[1] = f[1]
        OBVIOUS
      <4>1. 1 \in 1..n
        BY <1>1
      <4>2. c[1] = heaps[1]
        BY <3>4, <4>1
      <4>3. heaps[1] \in Seq(Nat)
        BY <4>1 DEF n
      <4>4. f[1] = <<>> \o heaps[1]
        <5>1. f[1] = f[1 - 1] \o heaps[1]
          BY <1>5, <4>1
        <5>2. 1 - 1 = 0
          OBVIOUS
        <5> QED
          BY <1>6, <5>1, <5>2
      <4> QED
        BY <4>2, <4>3, <4>4
    <3>6. ASSUME NEW i \in Nat, i \in S PROVE i + 1 \in S
      <4> SUFFICES ASSUME i + 2 <= n PROVE c[i + 2] = f[i + 2]
        OBVIOUS
      <4>1. c[i + 1] = f[i + 1] /\ i + 2 \in 1..n /\ i + 2 # 1 /\ (i + 2) - 1 = i + 1
        BY <1>1, <3>6
      <4>2. c[i + 2] = c[i + 1] \o heaps[i + 2]
        BY <3>4, <4>1
      <4>3. f[i + 2] = f[i + 1] \o heaps[i + 2]
        BY <1>5, <4>1
      <4> QED
        BY <4>1, <4>2, <4>3
    <3> HIDE DEF S
    <3>7. n - 1 \in S
      <4>1. n - 1 \in Nat
        BY <1>1, <2>2
      <4> QED
        BY <3>5, <3>6, <4>1, Induction
    <3>8. (n - 1) + 1 = n /\ n <= n
      BY <1>1
    <3> QED
      BY <3>1, <3>7, <3>8 DEF S
  <2> QED
    BY <2>1, <2>2
<1> QED
  BY <1>7, <1>8 DEF n

\* What is flattened comes behind a when the parts start with a.
LEMMA PartsFact ==
  ASSUME NEW heaps \in Seq(Seq(Nat)), NEW a \in Seq(Nat), NEW part,
         Parts(part, heaps, Len(heaps), a)
  PROVE  FlattenSeq(heaps) \in Seq(Nat) /\ part[Len(heaps)] = a \o FlattenSeq(heaps)
<1> DEFINE n == Len(heaps)
<1>1. n \in Nat
  OBVIOUS
<1>2. PICK f : Parts(f, heaps, n, <<>>) /\ FlattenSeq(heaps) = f[n]
  BY FlattenSeqFact
<1> DEFINE S == {i \in Nat : i <= n => part[i] = a \o f[i]}
<1>3. 0 \in S
  BY <1>2 DEF Parts
<1>4. ASSUME NEW i \in Nat, i \in S PROVE i + 1 \in S
  <2> SUFFICES ASSUME i + 1 <= n PROVE part[i + 1] = a \o f[i + 1]
    OBVIOUS
  <2>1. part[i] = a \o f[i] /\ i + 1 \in 1..n /\ i \in 0..n /\ (i + 1) - 1 = i
    BY <1>4
  <2>2. heaps[i + 1] \in Seq(Nat) /\ f[i] \in Seq(Nat)
    BY <1>2, <2>1 DEF Parts
  <2>3. part[i + 1] = part[i] \o heaps[i + 1] /\ f[i + 1] = f[i] \o heaps[i + 1]
    BY <1>2, <2>1 DEF Parts
  <2> DEFINE x == f[i]
             y == heaps[i + 1]
  <2>4. (a \o x) \o y = a \o (x \o y)
    <3>1. x \in Seq(Nat) /\ y \in Seq(Nat)
      BY <2>2
    <3> HIDE DEF x, y
    <3> QED
      BY <3>1
  <2> QED
    BY <2>1, <2>3, <2>4
<1> HIDE DEF S, n
<1>5. n \in S
  BY <1>1, <1>3, <1>4, Induction
<1> QED
  BY <1>1, <1>2, <1>5 DEF S, n, Parts

Pools == [heaps : Seq(Seq(Nat)), current : Nat, flat : Seq(Nat), size : Nat]

(* The pool p holds the offsets u: its flat array and then its heaps up to *)
(* the current one, of which the earlier ones are not empty and the later  *)
(* ones are.                                                               *)
PoolHolds(p, u) ==
  /\ p \in Pools /\ u \in Seq(Nat)
  /\ p.current \in 1..Len(p.heaps)
  /\ p.size = Len(u)
  /\ \A i \in 1..(p.current - 1) : p.heaps[i] # <<>>
  /\ \A i \in (p.current + 1)..Len(p.heaps) : p.heaps[i] = <<>>
  /\ \E part : Parts(part, p.heaps, p.current, p.flat) /\ part[p.current] = u

\* An empty pool holds nothing.
LEMMA EmptyPoolFact == PoolHolds(EmptyPool, <<>>)
<1> DEFINE h == <<(<<>>)>>
           part == [i \in 0..1 |-> <<>>]
<1>1. h \in Seq(Seq(Nat)) /\ Len(h) = 1 /\ h[1] = <<>> /\ <<>> \in Seq(Nat) /\ Len(<<>>) = 0
  OBVIOUS
<1>2. <<>> = <<>> \o <<>>
  OBVIOUS
<1>3. /\ EmptyPool \in Pools /\ EmptyPool.heaps = h /\ EmptyPool.current = 1
      /\ EmptyPool.flat = <<>> /\ EmptyPool.size = 0
  BY <1>1 DEF EmptyPool, Pools
<1> HIDE DEF h
<1>4. Parts(part, h, 1, <<>>) /\ part[1] = <<>>
  BY <1>1, <1>2 DEF Parts
<1> HIDE DEF part
<1>5. \E q : Parts(q, h, 1, <<>>) /\ q[1] = <<>>
  BY <1>4
<1> DEFINE p == EmptyPool
<1>6. \E q : Parts(q, p.heaps, p.current, p.flat) /\ q[p.current] = <<>>
  BY <1>3, <1>5
<1>7. /\ p.current \in 1..Len(p.heaps) /\ p.size = Len(<<>>)
      /\ \A i \in 1..(p.current - 1) : p.heaps[i] # <<>>
      /\ \A i \in (p.current + 1)..Len(p.heaps) : p.heaps[i] = <<>>
  <2> HIDE DEF p
  <2>1. p.heaps = h /\ p.current = 1 /\ p.size = 0
    BY <1>3 DEF p
  <2>2. 1 \in 1..Len(p.heaps) /\ p.size = Len(<<>>)
    <3>1. Len(p.heaps) = 1
      BY <1>1, <2>1
    <3>2. 1 \in 1..1
      OBVIOUS
    <3>3. Len(<<>>) = 0
      BY <1>1
    <3> QED
      BY <2>1, <3>1, <3>2, <3>3
  <2>3. 1..(1 - 1) = {} /\ (1 + 1)..1 = {}
    OBVIOUS
  <2> QED
    BY <1>1, <2>1, <2>2, <2>3
<1> QED
  BY <1>1, <1>3, <1>6, <1>7 DEF PoolHolds

\* push_back() adds one offset behind the others.
LEMMA PushBackFact ==
  ASSUME NEW p, NEW u, PoolHolds(p, u), NEW o \in Nat
  PROVE  PoolHolds(PushBack(p, o), u \o <<o>>)
<1> DEFINE q == PushBack(p, o)
           v == u \o <<o>>
           c == p.current
           heaps == p.heaps
<1>1. /\ p \in Pools /\ u \in Seq(Nat) /\ c \in 1..Len(heaps) /\ p.size = Len(u)
      /\ heaps \in Seq(Seq(Nat)) /\ p.flat \in Seq(Nat)
      /\ \A i \in 1..(c - 1) : heaps[i] # <<>>
      /\ \A i \in (c + 1)..Len(heaps) : heaps[i] = <<>>
  BY DEF PoolHolds, Pools
<1>2. PICK part : Parts(part, heaps, c, p.flat) /\ part[c] = u
  BY DEF PoolHolds
<1>3. v \in Seq(Nat) /\ Len(v) = Len(u) + 1 /\ <<o>> \in Seq(Nat) /\ <<o>> # <<>>
  BY <1>1
<1>4. OffsetsPerHeap \in Nat \ {0}
  BY OffsetsPerHeapAssumption
<1> HIDE DEF v, heaps, c
<1>7. /\ c \in Nat \ {0} /\ Len(u) \in Nat /\ Len(heaps) \in Nat /\ heaps[c] \in Seq(Nat)
      /\ Len(heaps[c]) \in Nat /\ p.current = c
  BY <1>1 DEF c
<1>5. CASE Len(heaps[c]) >= OffsetsPerHeap
  <2> DEFINE h == Append(SubSeq(heaps, 1, c), <<o>>)
             new == [i \in 0..(c + 1) |-> IF i <= c THEN part[i] ELSE v]
  <2>1. h \in Seq(Seq(Nat)) /\ Len(h) = c + 1 /\ h[c + 1] = <<o>>
        /\ \A i \in 1..c : h[i] = heaps[i]
    BY <1>1, <1>3
  <2>2. q = [p EXCEPT !.size = @ + 1, !.heaps = h, !.current = @ + 1]
    BY <1>5 DEF PushBack, heaps, c
  <2> HIDE DEF h, q
  <2>3. /\ q \in Pools /\ q.heaps = h /\ q.current = c + 1 /\ q.flat = p.flat
        /\ q.size = Len(u) + 1
    <3>1. /\ q = [heaps |-> h, current |-> p.current + 1, flat |-> p.flat, size |-> p.size + 1]
      BY <1>1, <2>2 DEF Pools
    <3>2. p.current + 1 = c + 1 /\ c + 1 \in Nat /\ p.size + 1 = Len(u) + 1 /\ Len(u) + 1 \in Nat
      BY <1>1, <1>7
    <3> QED
      BY <1>1, <2>1, <3>1, <3>2 DEF Pools
  <2>4. ASSUME NEW i \in 1..c PROVE h[i] # <<>>
    <3>1. heaps[c] # <<>>
      BY <1>4, <1>5, <1>7
    <3>2. i # c => i \in 1..(c - 1)
      BY <1>7
    <3> QED
      BY <1>1, <2>1, <3>1, <3>2
  <2>5. Parts(new, h, c + 1, p.flat) /\ new[c + 1] = v
    <3>1. new[0] = p.flat /\ new[c + 1] = v
      BY <1>1, <1>2 DEF Parts
    <3>2. \A i \in 0..(c + 1) : new[i] \in Seq(Nat)
      BY <1>1, <1>2, <1>3 DEF Parts
    <3>3. ASSUME NEW i \in 1..(c + 1) PROVE new[i] = new[i - 1] \o h[i]
      <4>1. CASE i <= c
        <5>1. i \in 1..c /\ i - 1 \in 0..c /\ i \in 0..c
          BY <1>1, <4>1
        <5>2. part[i] = part[i - 1] \o heaps[i]
          BY <1>2, <5>1 DEF Parts
        <5>3. new[i] = part[i] /\ new[i - 1] = part[i - 1]
          BY <1>7, <4>1, <5>1
        <5> HIDE DEF new
        <5> QED
          BY <2>1, <5>1, <5>2, <5>3
      <4>2. CASE i = c + 1
        <5>1. i - 1 = c /\ new[c] = u /\ new[i] = v
          BY <1>2, <1>7, <4>2
        <5> HIDE DEF new
        <5> QED
          BY <2>1, <4>2, <5>1 DEF v
      <4>3. i <= c \/ i = c + 1
        BY <1>7
      <4> QED
        BY <4>1, <4>2, <4>3
    <3> HIDE DEF new
    <3> QED
      BY <3>1, <3>2, <3>3 DEF Parts
  <2>6. \E x : Parts(x, h, c + 1, p.flat) /\ x[c + 1] = v
    BY <2>5
  <2>7. /\ c + 1 \in 1..Len(h)
        /\ \A i \in 1..((c + 1) - 1) : h[i] # <<>>
        /\ \A i \in ((c + 1) + 1)..Len(h) : h[i] = <<>>
    <3> QED
      BY <1>7, <1>1, <2>1, <2>4
  <2>8. PoolHolds(q, v)
    <3> QED
      BY <1>7, <1>3, <2>3, <2>6, <2>7 DEF PoolHolds
  <2> QED
    BY <2>8 DEF q, v
<1>6. CASE ~(Len(heaps[c]) >= OffsetsPerHeap)
  <2> DEFINE h == [heaps EXCEPT ![c] = Append(@, o)]
             new == [i \in 0..c |-> IF i = c THEN v ELSE part[i]]
  <2>1. /\ h \in Seq(Seq(Nat)) /\ Len(h) = Len(heaps)
        /\ h[c] = heaps[c] \o <<o>> /\ heaps[c] \in Seq(Nat)
        /\ \A i \in 1..Len(heaps) : i # c => h[i] = heaps[i]
    <3>1. heaps[c] \in Seq(Nat) /\ Append(heaps[c], o) \in Seq(Nat)
      BY <1>1
    <3>2. Append(heaps[c], o) = heaps[c] \o <<o>>
      BY <3>1
    <3>3. h \in Seq(Seq(Nat)) /\ Len(h) = Len(heaps)
      BY <1>1, <3>1
    <3> QED
      BY <1>1, <3>1, <3>2, <3>3
  <2>2. q = [p EXCEPT !.size = @ + 1, !.heaps = h]
    BY <1>1, <1>6 DEF PushBack, Pools, heaps, c
  <2> HIDE DEF h, q
  <2>3. /\ q \in Pools /\ q.heaps = h /\ q.current = c /\ q.flat = p.flat
        /\ q.size = Len(u) + 1
    <3>1. /\ q = [heaps |-> h, current |-> p.current, flat |-> p.flat, size |-> p.size + 1]
      BY <1>1, <2>2 DEF Pools
    <3>2. p.size + 1 = Len(u) + 1 /\ Len(u) + 1 \in Nat
      BY <1>1, <1>7
    <3> QED
      BY <1>1, <1>7, <2>1, <3>1, <3>2 DEF Pools
  <2>4. Parts(new, h, c, p.flat) /\ new[c] = v
    <3>1. new[0] = p.flat /\ new[c] = v
      BY <1>1, <1>2 DEF Parts
    <3>2. \A i \in 0..c : new[i] \in Seq(Nat)
      BY <1>1, <1>2, <1>3 DEF Parts
    <3>3. ASSUME NEW i \in 1..c PROVE new[i] = new[i - 1] \o h[i]
      <4>1. /\ i - 1 \in 0..c /\ i \in 0..c /\ i - 1 # c /\ i \in 1..Len(heaps)
        BY <1>1
      <4>2. part[i] = part[i - 1] \o heaps[i] /\ part[i - 1] \in Seq(Nat)
        BY <1>2, <4>1 DEF Parts
      <4>3. CASE i # c
        BY <2>1, <4>1, <4>2, <4>3
      <4>4. CASE i = c
        <5> DEFINE x == part[c - 1]
                   y == heaps[c]
        <5>1. (x \o y) \o <<o>> = x \o (y \o <<o>>)
          <6>1. x \in Seq(Nat) /\ y \in Seq(Nat)
            BY <2>1, <4>2, <4>4
          <6> HIDE DEF x, y
          <6> QED
            BY <1>3, <6>1
        <5>2. v = (x \o y) \o <<o>>
          BY <1>2, <4>2, <4>4 DEF v
        <5>3. new[i] = v /\ new[i - 1] = x
          BY <4>1, <4>4
        <5> HIDE DEF new
        <5> QED
          BY <2>1, <4>4, <5>1, <5>2, <5>3
      <4> QED
        BY <4>3, <4>4
    <3> HIDE DEF new
    <3> QED
      BY <3>1, <3>2, <3>3 DEF Parts
  <2>5. \E x : Parts(x, h, c, p.flat) /\ x[c] = v
    BY <2>4
  <2>6. /\ c \in 1..Len(h)
        /\ \A i \in 1..(c - 1) : h[i] # <<>>
        /\ \A i \in (c + 1)..Len(h) : h[i] = <<>>
    <3>1. ASSUME NEW i \in 1..(c - 1) PROVE h[i] # <<>>
      <4>1. i \in 1..Len(heaps) /\ i # c
        BY <1>1, <1>7
      <4> QED
        BY <1>1, <2>1, <4>1
    <3>2. ASSUME NEW i \in (c + 1)..Len(heaps) PROVE h[i] = <<>>
      <4>1. i \in 1..Len(heaps) /\ i # c
        BY <1>1, <1>7
      <4> QED
        BY <1>1, <2>1, <4>1
    <3> QED
      BY <1>1, <2>1, <3>1, <3>2
  <2>7. PoolHolds(q, v)
    <3> QED
      BY <1>7, <1>3, <2>3, <2>5, <2>6 DEF PoolHolds
  <2> QED
    BY <2>7 DEF q, v
<1> QED
  BY <1>5, <1>6

\* PushAll is defined by its steps.
LEMMA PushAllDef ==
  ASSUME NEW p, NEW u, PoolHolds(p, u), NEW offsets \in Seq(Nat)
  PROVE  \E after : /\ after[0] = p
                    /\ \A i \in 1..Len(offsets) : after[i] = PushBack(after[i - 1], offsets[i])
                    /\ PushAll(p, offsets) = after[Len(offsets)]
<1> DEFINE n == Len(offsets)
           X == {q \in Pools : \E v : PoolHolds(q, v)}
           step == [i \in Nat |-> [q \in X |-> IF i \in 1..n THEN PushBack(q, offsets[i]) ELSE q]]
           At(g, i) == IF i = 0 THEN p ELSE PushBack(g[i - 1], offsets[i])
           P(g) == g = [i \in 0..n |-> At(g, i)]
           c == CHOOSE g : P(g)
<1>1. n \in Nat /\ p \in X
  <2>1. n \in Nat
    OBVIOUS
  <2>2. p \in Pools
    BY DEF PoolHolds
  <2> HIDE DEF n
  <2> QED
    BY <2>1, <2>2
<1>2. Steps(X, step)
  <2>1. ASSUME NEW i \in Nat, NEW q \in X
        PROVE  (IF i \in 1..n THEN PushBack(q, offsets[i]) ELSE q) \in X
    <3>1. CASE i \in 1..n
      <4>1. PICK v : PoolHolds(q, v)
        OBVIOUS
      <4> DEFINE o == offsets[i]
                 r == PushBack(q, o)
      <4>2. o \in Nat
        BY <3>1
      <4>3. PoolHolds(r, v \o <<o>>)
        <5> HIDE DEF o, X, n, step
        <5> QED
          BY <4>1, <4>2, PushBackFact
      <4> HIDE DEF o, r, step, n
      <4>4. r \in X
        BY <4>3 DEF PoolHolds
      <4> QED
        BY <3>1, <4>4 DEF r, o
    <3>2. CASE i \notin 1..n
      BY <3>2
    <3> QED
      BY <3>1, <3>2
  <2> HIDE DEF X
  <2> QED
    BY <2>1 DEF Steps
<1> HIDE DEF X
<1>3. PICK f : Chain(f, X, p, step, n)
  <2> HIDE DEF step
  <2> QED
    BY <1>1, <1>2, Upward, Zenon
<1>4. P(f)
  <2>1. ASSUME NEW i \in 0..n PROVE f[i] = At(f, i)
    <3>1. CASE i = 0
      BY <1>3, <3>1 DEF Chain
    <3>2. CASE i # 0
      <4>1. i \in 1..n /\ i \in Nat /\ i - 1 \in 0..n
        BY <1>1, <3>2
      <4>2. f[i] = step[i][f[i - 1]] /\ f[i - 1] \in X
        BY <1>3, <4>1 DEF Chain
      <4>3. step[i][f[i - 1]] = PushBack(f[i - 1], offsets[i])
        BY <4>1, <4>2
      <4> QED
        BY <3>2, <4>2, <4>3
    <3> QED
      BY <3>1, <3>2
  <2>2. f = [i \in 0..n |-> f[i]]
    BY <1>3 DEF Chain
  <2> HIDE DEF At
  <2> QED
    BY <2>1, <2>2
<1>5. PushAll(p, offsets) = c[n]
  BY DEF PushAll
<1>6. P(c)
  <2> HIDE DEF P
  <2> QED
    BY <1>4, Zenon
<1> HIDE DEF c, step, n
<1>7. \A i \in 0..n : c[i] = At(c, i)
  BY <1>6
<1>8. c[0] = p
  <2>1. 0 \in 0..n
    BY <1>1
  <2> QED
    BY <1>7, <2>1
<1>9. \A i \in 1..n : c[i] = PushBack(c[i - 1], offsets[i])
  <2> SUFFICES ASSUME NEW i \in 1..n PROVE c[i] = PushBack(c[i - 1], offsets[i])
    OBVIOUS
  <2>1. i \in 0..n /\ i # 0
    BY <1>1
  <2> QED
    BY <1>7, <2>1
<1> QED
  BY <1>5, <1>8, <1>9 DEF n

\* It adds the offsets in their order behind those the pool holds.
LEMMA PushAllFact ==
  ASSUME NEW p, NEW u, PoolHolds(p, u), NEW offsets \in Seq(Nat)
  PROVE  PoolHolds(PushAll(p, offsets), u \o offsets)
<1> DEFINE n == Len(offsets)
<1>1. n \in Nat /\ u \in Seq(Nat)
  BY DEF PoolHolds
<1>2. PICK after : /\ after[0] = p
                   /\ \A i \in 1..n : after[i] = PushBack(after[i - 1], offsets[i])
                   /\ PushAll(p, offsets) = after[n]
  BY PushAllDef
<1> DEFINE Before(i) == u \o SubSeq(offsets, 1, i)
           S == {i \in Nat : i <= n => PoolHolds(after[i], Before(i))}
<1>3. 0 \in S
  <2>1. SubSeq(offsets, 1, 0) = <<>> /\ u \o <<>> = u
    BY <1>1
  <2>2. PoolHolds(after[0], Before(0))
    BY <1>2, <2>1
  <2> HIDE DEF Before
  <2> QED
    BY <2>2
<1>4. ASSUME NEW i \in Nat, i \in S PROVE i + 1 \in S
  <2> SUFFICES ASSUME i + 1 <= n PROVE PoolHolds(after[i + 1], Before(i + 1))
    OBVIOUS
  <2>1. PoolHolds(after[i], Before(i)) /\ i + 1 \in 1..n /\ (i + 1) - 1 = i
    BY <1>1, <1>4
  <2> DEFINE o == offsets[i + 1]
             x == SubSeq(offsets, 1, i)
  <2>2. o \in Nat
    BY <2>1
  <2>3. after[i + 1] = PushBack(after[i], o)
    BY <1>2, <2>1
  <2>4. Before(i + 1) = Before(i) \o <<o>>
    <3>1. SubSeq(offsets, 1, i + 1) = x \o <<o>> /\ x \in Seq(Nat)
      BY <2>1, <2>2
    <3> HIDE DEF x, o
    <3> DEFINE y == <<o>>
    <3>2. y \in Seq(Nat)
      BY <2>2
    <3> HIDE DEF y
    <3>3. (u \o x) \o y = u \o (x \o y)
      <4> HIDE DEF n, Before
      <4>1. x \in Seq(Nat) /\ u \in Seq(Nat)
        BY <1>1, <3>1
      <4> QED
        BY <3>2, <4>1
    <3> QED
      BY <3>1, <3>3 DEF x, y
  <2>5. PoolHolds(PushBack(after[i], o), Before(i) \o <<o>>)
    <3> HIDE DEF o, Before
    <3> QED
      BY <2>1, <2>2, PushBackFact
  <2> HIDE DEF o, Before
  <2> QED
    BY <2>3, <2>4, <2>5
<1> HIDE DEF S, n
<1>5. n \in S
  BY <1>1, <1>3, <1>4, Induction
<1>6. PoolHolds(after[n], Before(n))
  BY <1>1, <1>5 DEF S
<1>7. SubSeq(offsets, 1, n) = offsets
  BY DEF n
<1> QED
  BY <1>2, <1>6, <1>7

\* Reading the pool gathers what it holds in the flat array, and empties the heaps.
LEMMA FlattenFact ==
  ASSUME NEW p, NEW u, PoolHolds(p, u)
  PROVE  PoolHolds(Flatten(p), u) /\ Flatten(p).flat = u
<1> DEFINE c == p.current
           heaps == p.heaps
           m == IF heaps[c] = <<>> THEN c - 1 ELSE c
           hs == [i \in Filled(p) |-> heaps[i]]
           w == FlattenSeq(hs)
<1>1. /\ p \in Pools /\ u \in Seq(Nat) /\ c \in 1..Len(heaps) /\ p.size = Len(u)
      /\ heaps \in Seq(Seq(Nat)) /\ p.flat \in Seq(Nat)
      /\ \A i \in 1..(c - 1) : heaps[i] # <<>>
      /\ \A i \in (c + 1)..Len(heaps) : heaps[i] = <<>>
  BY DEF PoolHolds, Pools
<1>2. PICK part : Parts(part, heaps, c, p.flat) /\ part[c] = u
  BY DEF PoolHolds
<1>3. /\ c \in Nat \ {0} /\ Len(heaps) \in Nat /\ DOMAIN heaps = 1..Len(heaps)
      /\ heaps[c] \in Seq(Nat)
  BY <1>1
<1>4. Filled(p) = 1..m /\ m \in 0..c
  <2> HIDE DEF c
  <2>1. Filled(p) = {i \in 1..Len(heaps) : \A j \in 1..i : heaps[j] # <<>>}
    BY <1>3 DEF Filled
  <2> HIDE DEF heaps
  <2>2. CASE heaps[c] = <<>>
    BY <1>1, <1>3, <2>1, <2>2
  <2>3. CASE heaps[c] # <<>>
    <3>1. ASSUME NEW i \in 1..c PROVE heaps[i] # <<>>
      <4>1. i # c => i \in 1..(c - 1)
        BY <1>3
      <4> QED
        BY <1>1, <2>3, <4>1
    <3>2. ASSUME NEW i \in (c + 1)..Len(heaps) PROVE i \notin Filled(p)
      <4>1. i \in 1..i /\ heaps[i] = <<>>
        BY <1>1, <1>3
      <4> QED
        BY <2>1, <4>1
    <3>3. m = c /\ c \in 0..c
      BY <1>3, <2>3
    <3> HIDE DEF m
    <3>4. ASSUME NEW i \in 1..c PROVE i \in Filled(p)
      <4>1. i \in 1..Len(heaps) /\ 1..i \subseteq 1..c
        BY <1>1, <1>3
      <4> QED
        BY <2>1, <3>1, <4>1
    <3>5. \A i \in Filled(p) : i \in 1..c
      <4>1. \A i \in Filled(p) : i \in 1..Len(heaps)
        BY <2>1
      <4>2. \A i \in 1..Len(heaps) : i \in 1..c \/ i \in (c + 1)..Len(heaps)
        BY <1>3
      <4> QED
        BY <3>2, <4>1, <4>2
    <3> QED
      BY <3>3, <3>4, <3>5
  <2> QED
    BY <2>2, <2>3
<1>5. hs \in Seq(Seq(Nat)) /\ Len(hs) = m /\ \A i \in 1..m : hs[i] = heaps[i]
  <2> HIDE DEF heaps, c, m
  <2>1. m \in Nat /\ \A i \in 1..m : heaps[i] \in Seq(Nat)
    BY <1>1, <1>3, <1>4
  <2> QED
    BY <1>4, <2>1
<1>6. Parts(part, hs, m, p.flat) /\ part[m] = u
  <2>1. ASSUME NEW i \in 1..m PROVE part[i] = part[i - 1] \o hs[i]
    <3> HIDE DEF hs, m
    <3>1. i \in 1..c
      BY <1>3, <1>4
    <3> QED
      BY <1>2, <1>5, <3>1 DEF Parts
  <2>2. part[m] = u
    <3>1. CASE heaps[c] # <<>>
      BY <1>2, <3>1
    <3>2. CASE heaps[c] = <<>>
      <4>1. part[c] = part[c - 1] \o <<>> /\ part[c - 1] \in Seq(Nat)
        <5>1. c \in 1..c /\ c - 1 \in 0..c
          BY <1>3
        <5> QED
          BY <1>2, <3>2, <5>1 DEF Parts
      <4> QED
        BY <1>2, <3>2, <4>1
    <3> QED
      BY <3>1, <3>2
  <2>3. \A i \in 0..m : part[i] \in Seq(Nat)
    <3> HIDE DEF m
    <3> QED
      BY <1>2, <1>3, <1>4 DEF Parts
  <2> HIDE DEF hs, m
  <2> QED
    BY <1>2, <2>1, <2>2, <2>3 DEF Parts
<1>7. w \in Seq(Nat) /\ u = p.flat \o w
  <2> HIDE DEF hs, m
  <2> QED
    BY <1>1, <1>5, <1>6, PartsFact
<1> HIDE DEF w, m
<1>8. CASE p.size = Len(p.flat)
  <2>1. w = <<>>
    BY <1>1, <1>7, <1>8
  <2>2. u = p.flat
    BY <1>1, <1>7, <2>1
  <2> QED
    BY <1>8, <2>2 DEF Flatten
<1>9. CASE p.size # Len(p.flat)
  <2> DEFINE h == [i \in DOMAIN heaps |-> IF i \in Filled(p) THEN <<>> ELSE heaps[i]]
             q == Flatten(p)
             new == [i \in 0..1 |-> u]
  <2>1. q = [p EXCEPT !.flat = p.flat \o w, !.heaps = h, !.current = 1]
    BY <1>1, <1>9 DEF Flatten, w, Pools
  <2>2. h \in Seq(Seq(Nat)) /\ Len(h) = Len(heaps) /\ \A i \in 1..Len(heaps) : h[i] = <<>>
    <3>1. ASSUME NEW i \in 1..Len(heaps) PROVE h[i] = <<>>
      <4> HIDE DEF heaps, c
      <4>1. i \notin 1..m => (i = c /\ heaps[c] = <<>>) \/ i \in (c + 1)..Len(heaps)
        BY <1>3, <1>4 DEF m
      <4> QED
        BY <1>1, <1>3, <1>4, <4>1
    <3>2. h = [i \in 1..Len(heaps) |-> <<>>]
      <4>1. DOMAIN h = 1..Len(heaps)
        BY <1>3
      <4>2. h = [i \in 1..Len(heaps) |-> h[i]]
        BY <1>3
      <4> HIDE DEF h, heaps
      <4> QED
        BY <3>1, <4>2
    <3> HIDE DEF h, heaps
    <3>3. /\ [i \in 1..Len(heaps) |-> <<>>] \in Seq(Seq(Nat))
          /\ Len([i \in 1..Len(heaps) |-> <<>>]) = Len(heaps)
      BY <1>3
    <3> QED
      BY <3>1, <3>2, <3>3
  <2> HIDE DEF h, q, heaps, c
  <2>3. q = [heaps |-> h, current |-> 1, flat |-> u, size |-> p.size]
    BY <1>1, <1>7, <2>1 DEF Pools
  <2>4. /\ q \in Pools /\ q.heaps = h /\ q.current = 1 /\ q.flat = u /\ q.size = Len(u)
    BY <1>1, <2>2, <2>3 DEF Pools
  <2>5. Parts(new, h, 1, u) /\ new[1] = u
    <3>1. u = u \o <<>> /\ h[1] = <<>>
      BY <1>1, <1>3, <2>2
    <3>2. new[0] = u /\ new[1] = u /\ 1 - 1 = 0
      OBVIOUS
    <3>3. ASSUME NEW i \in 1..1 PROVE new[i] = new[i - 1] \o h[i]
      <4>1. i = 1
        OBVIOUS
      <4> HIDE DEF new
      <4> QED
        BY <3>1, <3>2, <4>1
    <3>4. \A i \in 0..1 : new[i] \in Seq(Nat)
      BY <1>1
    <3> HIDE DEF new
    <3> QED
      BY <3>2, <3>3, <3>4 DEF Parts
  <2>6. \E x : Parts(x, q.heaps, q.current, q.flat) /\ x[q.current] = u
    BY <2>4, <2>5
  <2>7. /\ q.current \in 1..Len(q.heaps)
        /\ \A i \in 1..(q.current - 1) : q.heaps[i] # <<>>
        /\ \A i \in (q.current + 1)..Len(q.heaps) : q.heaps[i] = <<>>
    <3>1. 1 \in 1..Len(h) /\ \A i \in 2..Len(h) : h[i] = <<>>
      BY <1>1, <1>3, <2>2
    <3>2. 1..(1 - 1) = {} /\ 1 + 1 = 2
      OBVIOUS
    <3> QED
      BY <2>4, <3>1, <3>2
  <2>8. PoolHolds(q, u)
    BY <1>1, <2>4, <2>6, <2>7 DEF PoolHolds
  <2> QED
    BY <2>4, <2>8 DEF q
<1> QED
  BY <1>8, <1>9

-----------------------------------------------------------------------------
(* The lookahead buffer.                                                   *)

Buffer(t, b) ==
  /\ b = [tokens |-> b.tokens, i |-> b.i, count |-> b.count]
  /\ b.tokens = [j \in 1..3 |-> b.tokens[j]]
  /\ \A j \in 1..3 : GoodToken(t, b.tokens[j])
  /\ b.i \in Nat /\ b.count \in 0..3
  /\ b.i < b.count \/ (b.i = 0 /\ b.count = 0)

IsState(s) ==
  s = [at |-> s.at, peeked |-> s.peeked, lines |-> s.lines, error |-> s.error,
       pop |-> s.pop, assert |-> s.assert, seen |-> s.seen]

(* What holds of the lexer's state, the offsets u and s.lines pushed,      *)
(* whatever the lookahead and the continuations did.                       *)
Sound(t, u, s) ==
  /\ IsState(s)
  /\ s.at \in 1..(Len(t) + 2)
  /\ Buffer(t, s.peeked)
  /\ s.lines \in Seq(Nat) /\ LinesIn(t, u \o s.lines, 0, s.at)
  /\ s.pop \in Nat

(* What holds after n tokens, the last one of the type, when no            *)
(* continuation has taken a token that was looked ahead at: the tokens     *)
(* that wait are the next ones of the text, and the buffer was filled      *)
(* beyond its first token only for an array type.                          *)
Ahead(t, n, type, s) ==
  LET b == s.peeked
  IN  /\ type = Alone(t, n).tok.type
      /\ \A j \in 1..(b.count - b.i) : b.tokens[b.i + j] = Alone(t, n + j).tok
      /\ s.at = Alone(t, n + (b.count - b.i)).at
      /\ b.count >= 2 => b.tokens[1].type = "["
      /\ b.count = 3 => b.tokens[2].type = "]"
      /\ b.i # 0 => type = b.tokens[b.i].type
      /\ ~s.assert

-----------------------------------------------------------------------------
(* The tokens of a text.                                                   *)

\* One index of Alone.
AloneAt(t, lexed, k) ==
  IF k = 1 THEN RealConsume(t, 1, "Unknown", <<>>)
  ELSE RealConsume(t, lexed[k - 1].at, lexed[k - 1].tok.type, <<>>)

\* Alone is well defined.
LEMMA AloneDef ==
  ASSUME NEW t, NEW n \in Nat
  PROVE  \E g : /\ \A k \in 1..n : g[k] = AloneAt(t, g, k)
                /\ Alone(t, n) = g[n]
<1> DEFINE P(g, m) == g = [k \in 1..m |-> AloneAt(t, g, k)]
           T == {m \in Nat : \E g : P(g, m)}
           c == CHOOSE g : P(g, n)
<1>1. 0 \in T
  <2>1. P([k \in 1..0 |-> 0], 0)
    OBVIOUS
  <2> HIDE DEF P
  <2> QED
    BY <2>1
<1>2. ASSUME NEW m \in Nat, m \in T PROVE m + 1 \in T
  <2>1. PICK g : P(g, m)
    BY <1>2
  <2> DEFINE h == [k \in 1..(m + 1) |-> IF k <= m THEN g[k] ELSE AloneAt(t, g, k)]
  <2>2. ASSUME NEW k \in 1..(m + 1) PROVE h[k] = AloneAt(t, h, k)
    <3>1. h[k] = AloneAt(t, g, k)
      <4>1. k <= m => g[k] = AloneAt(t, g, k)
        <5>1. k <= m => k \in 1..m
          OBVIOUS
        <5> HIDE DEF h
        <5> QED
          BY <2>1, <5>1
      <4> QED
        BY <4>1
    <3>2. AloneAt(t, g, k) = AloneAt(t, h, k)
      <4>1. k # 1 => h[k - 1] = g[k - 1]
        OBVIOUS
      <4> HIDE DEF h
      <4> QED
        BY <4>1 DEF AloneAt
    <3> QED
      BY <3>1, <3>2
  <2>3. h = [k \in 1..(m + 1) |-> h[k]]
    OBVIOUS
  <2> HIDE DEF h
  <2>4. P(h, m + 1)
    BY <2>2, <2>3
  <2> HIDE DEF P
  <2> QED
    BY <2>4
<1> HIDE DEF T
<1>3. n \in T
  BY <1>1, <1>2, Induction
<1>4. \E g : P(g, n)
  BY <1>3 DEF T
<1>5. P(c, n)
  <2> HIDE DEF P
  <2> QED
    BY <1>4, Zenon
<1>6. Alone(t, n) = c[n]
  BY DEF Alone, AloneAt
<1> HIDE DEF c
<1>7. \A k \in 1..n : c[k] = AloneAt(t, c, k)
  BY <1>5
<1> QED
  BY <1>6, <1>7

\* It is the first token, and then each behind the one before.
LEMMA AloneFact ==
  ASSUME NEW t
  PROVE  /\ Alone(t, 1) = RealConsume(t, 1, "Unknown", <<>>)
         /\ \A n \in Nat \ {0} :
              Alone(t, n + 1) = RealConsume(t, Alone(t, n).at, Alone(t, n).tok.type, <<>>)
<1>1. Alone(t, 1) = RealConsume(t, 1, "Unknown", <<>>)
  <2>1. PICK g : /\ \A k \in 1..1 : g[k] = AloneAt(t, g, k)
                 /\ Alone(t, 1) = g[1]
    BY AloneDef
  <2> QED
    BY <2>1 DEF AloneAt
<1>2. ASSUME NEW n \in Nat \ {0}
      PROVE  Alone(t, n + 1) = RealConsume(t, Alone(t, n).at, Alone(t, n).tok.type, <<>>)
  <2>1. PICK g : (\A k \in 1..n : g[k] = AloneAt(t, g, k)) /\ Alone(t, n) = g[n]
    BY AloneDef
  <2>2. PICK h : (\A k \in 1..(n + 1) : h[k] = AloneAt(t, h, k)) /\ Alone(t, n + 1) = h[n + 1]
    <3>1. n + 1 \in Nat
      OBVIOUS
    <3> QED
      BY <3>1, AloneDef
  <2> DEFINE S == {k \in Nat : k + 1 <= n => g[k + 1] = h[k + 1]}
  <2>3. 0 \in S
    <3>1. 1 \in 1..n /\ 1 \in 1..(n + 1)
      OBVIOUS
    <3>2. g[1] = AloneAt(t, g, 1) /\ h[1] = AloneAt(t, h, 1)
      BY <2>1, <2>2, <3>1
    <3> QED
      BY <3>2 DEF AloneAt
  <2>4. ASSUME NEW k \in Nat, k \in S PROVE k + 1 \in S
    <3> SUFFICES ASSUME k + 2 <= n PROVE g[k + 2] = h[k + 2]
      OBVIOUS
    <3>1. /\ g[k + 1] = h[k + 1] /\ k + 2 \in 1..n /\ k + 2 \in 1..(n + 1)
          /\ k + 2 # 1 /\ (k + 2) - 1 = k + 1
      BY <2>4
    <3>2. g[k + 2] = AloneAt(t, g, k + 2) /\ h[k + 2] = AloneAt(t, h, k + 2)
      BY <2>1, <2>2, <3>1
    <3> QED
      BY <3>1, <3>2 DEF AloneAt
  <2> HIDE DEF S
  <2>5. n - 1 \in S /\ (n - 1) + 1 = n
    <3>1. n - 1 \in Nat
      OBVIOUS
    <3> QED
      BY <2>3, <2>4, <3>1, Induction
  <2>6. g[n] = h[n]
    BY <2>5 DEF S
  <2>7. n + 1 \in 1..(n + 1) /\ n + 1 # 1 /\ (n + 1) - 1 = n
    OBVIOUS
  <2>8. h[n + 1] = AloneAt(t, h, n + 1)
    BY <2>2, <2>7
  <2> QED
    BY <2>1, <2>2, <2>6, <2>7, <2>8 DEF AloneAt
<1> QED
  BY <1>1, <1>2

\* One index of PeekMore.
PeekMoreAt(t, type, s, after, n) ==
  IF n = 0 THEN [s EXCEPT !.seen = type] ELSE PeekOne(t, after[n - 1])

\* p is what the indices g of PeekMore leave.
PeekMoreBy(t, type, s, missing, distance, g, p) ==
  /\ \A n \in 0..missing : g[n] = PeekMoreAt(t, type, s, g, n)
  /\ p = [g[missing] EXCEPT !.seen = g[missing].peeked.tokens[distance + 1].type]

\* PeekMore is well defined.
LEMMA PeekMoreDef ==
  ASSUME NEW t, NEW type, NEW s, NEW missing \in Nat, NEW distance
  PROVE  \E g : PeekMoreBy(t, type, s, missing, distance, g,
                           PeekMore(t, type, s, missing, distance))
<1> DEFINE P(g, m) == g = [n \in 0..m |-> PeekMoreAt(t, type, s, g, n)]
           T == {m \in Nat : \E g : P(g, m)}
           c == CHOOSE g : P(g, missing)
<1>1. 0 \in T
  <2>1. P([n \in 0..0 |-> [s EXCEPT !.seen = type]], 0)
    BY DEF PeekMoreAt
  <2> HIDE DEF P
  <2> QED
    BY <2>1
<1>2. ASSUME NEW m \in Nat, m \in T PROVE m + 1 \in T
  <2>1. PICK g : P(g, m)
    BY <1>2
  <2> DEFINE h == [n \in 0..(m + 1) |-> IF n <= m THEN g[n] ELSE PeekMoreAt(t, type, s, g, n)]
  <2>2. ASSUME NEW n \in 0..(m + 1) PROVE h[n] = PeekMoreAt(t, type, s, h, n)
    <3>1. h[n] = PeekMoreAt(t, type, s, g, n)
      <4>1. n <= m => g[n] = PeekMoreAt(t, type, s, g, n)
        <5>1. n <= m => n \in 0..m
          OBVIOUS
        <5> HIDE DEF h
        <5> QED
          BY <2>1, <5>1
      <4> QED
        BY <4>1
    <3>2. PeekMoreAt(t, type, s, g, n) = PeekMoreAt(t, type, s, h, n)
      <4>1. n # 0 => h[n - 1] = g[n - 1]
        OBVIOUS
      <4> HIDE DEF h
      <4> QED
        BY <4>1 DEF PeekMoreAt
    <3> QED
      BY <3>1, <3>2
  <2>3. h = [n \in 0..(m + 1) |-> h[n]]
    OBVIOUS
  <2> HIDE DEF h
  <2>4. P(h, m + 1)
    BY <2>2, <2>3
  <2> HIDE DEF P
  <2> QED
    BY <2>4
<1> HIDE DEF T
<1>3. missing \in T
  BY <1>1, <1>2, Induction
<1>4. \E g : P(g, missing)
  BY <1>3 DEF T
<1>5. P(c, missing)
  <2> HIDE DEF P
  <2> QED
    BY <1>4, Zenon
<1>6. PeekMore(t, type, s, missing, distance) =
        [c[missing] EXCEPT !.seen = c[missing].peeked.tokens[distance + 1].type]
  BY DEF PeekMore, PeekMoreAt
<1> HIDE DEF c
<1>7. \A n \in 0..missing : c[n] = PeekMoreAt(t, type, s, c, n)
  BY <1>5
<1> QED
  BY <1>6, <1>7 DEF PeekMoreBy

-----------------------------------------------------------------------------
(* The steps of the lookahead keep it sound.                               *)

\* Tokens taken leave a buffer, which starts over when none is left.
LEMMA PoppedFact ==
  ASSUME NEW t, NEW b, Buffer(t, b), NEW n \in Nat
  PROVE  /\ Buffer(t, Popped(b, n))
         /\ Popped(b, n).tokens = b.tokens /\ Popped(b, n).count <= b.count
         /\ b.i + n < b.count => Popped(b, n).i = b.i + n /\ Popped(b, n).count = b.count
         /\ b.i + n >= b.count => Popped(b, n).i = 0 /\ Popped(b, n).count = 0
<1> DEFINE c == Popped(b, n)
<1>1. /\ b = [tokens |-> b.tokens, i |-> b.i, count |-> b.count]
      /\ b.tokens = [j \in 1..3 |-> b.tokens[j]]
      /\ \A j \in 1..3 : GoodToken(t, b.tokens[j])
      /\ b.i \in Nat /\ b.count \in 0..3
  BY DEF Buffer
<1>2. CASE b.i + n >= b.count
  <2>1. c = [tokens |-> b.tokens, i |-> 0, count |-> 0]
    BY <1>1, <1>2 DEF Popped
  <2> HIDE DEF c
  <2>2. c.tokens = b.tokens /\ c.i = 0 /\ c.count = 0
    BY <2>1
  <2>3. Buffer(t, c)
    BY <1>1, <2>1, <2>2 DEF Buffer
  <2> QED
    BY <1>1, <1>2, <2>2, <2>3 DEF c
<1>3. CASE b.i + n < b.count
  <2>1. c = [tokens |-> b.tokens, i |-> b.i + n, count |-> b.count]
    BY <1>1, <1>3 DEF Popped
  <2> HIDE DEF c
  <2>2. c.tokens = b.tokens /\ c.i = b.i + n /\ c.count = b.count
    BY <2>1
  <2>3. b.i + n \in Nat
    BY <1>1
  <2>4. Buffer(t, c)
    BY <1>1, <1>3, <2>1, <2>2, <2>3 DEF Buffer
  <2> QED
    BY <1>1, <1>3, <2>2, <2>4 DEF c
<1> QED
  BY <1>1, <1>2, <1>3

\* There is room for another token when fewer than three are stored.
LEMMA StoreFact ==
  ASSUME NEW t, NEW b, Buffer(t, b), b.count <= 2, NEW token, GoodToken(t, token)
  PROVE  LET c == Store(b, token)
         IN  /\ Buffer(t, c)
             /\ c.i = b.i /\ c.count = b.count + 1 /\ c.tokens[c.count] = token
             /\ \A j \in 1..b.count : c.tokens[j] = b.tokens[j]
<1> DEFINE c == Store(b, token)
<1>1. /\ b = [tokens |-> b.tokens, i |-> b.i, count |-> b.count]
      /\ b.tokens = [j \in 1..3 |-> b.tokens[j]]
      /\ \A j \in 1..3 : GoodToken(t, b.tokens[j])
      /\ b.i \in Nat /\ b.count \in 0..3 /\ b.i <= b.count
  BY DEF Buffer
<1> DEFINE n == b.count + 1
           tokens == [j \in 1..3 |-> IF j = n THEN token ELSE b.tokens[j]]
<1>2. n \in 1..3
  BY <1>1
<1>3. c = [tokens |-> tokens, i |-> b.i, count |-> n]
  <2>1. [b.tokens EXCEPT ![n] = token] = tokens
    BY <1>1, <1>2
  <2>2. c = [b EXCEPT !.tokens = [b.tokens EXCEPT ![n] = token], !.count = n]
    BY <1>1 DEF Store
  <2> HIDE DEF tokens, c, n
  <2> QED
    BY <1>1, <2>1, <2>2
<1>4. /\ tokens = [j \in 1..3 |-> tokens[j]] /\ tokens[n] = token
      /\ \A j \in 1..b.count : tokens[j] = b.tokens[j]
      /\ \A j \in 1..3 : GoodToken(t, tokens[j])
  BY <1>1, <1>2
<1> HIDE DEF tokens, c
<1>5. c.tokens = tokens /\ c.i = b.i /\ c.count = n
  BY <1>3
<1>6. Buffer(t, c)
  BY <1>1, <1>2, <1>3, <1>4, <1>5 DEF Buffer
<1> QED
  BY <1>4, <1>5, <1>6 DEF c

\* The waiting tokens are a sequence.
LEMMA WaitingFact ==
  ASSUME NEW t, NEW b, Buffer(t, b)
  PROVE  Len(Waiting(b)) \in Nat
<1> DEFINE S == {b.tokens[j] : j \in 1..3}
<1>1. b.tokens \in Seq(S)
  <2> DEFINE k == b.tokens
  <2>1. k = [j \in 1..3 |-> k[j]] /\ \A j \in 1..3 : k[j] \in S
    BY DEF Buffer
  <2> HIDE DEF S, k
  <2>2. [j \in 1..3 |-> k[j]] \in Seq(S)
    BY <2>1
  <2>3. k \in Seq(S)
    BY <2>1, <2>2
  <2> QED
    BY <2>3 DEF k
<1>2. b.i + 1 \in Nat \ {0} /\ b.count \in 0..3 /\ Len(b.tokens) = 3
  <2>1. b.tokens = [j \in 1..3 |-> b.tokens[j]]
    BY DEF Buffer
  <2>2. Len(b.tokens) = 3
    BY <2>1
  <2> QED
    BY <2>2 DEF Buffer
<1> HIDE DEF S
<1> QED
  BY <1>1, <1>2 DEF Waiting

\* What the state a has of the state s and of the lexed r.
Along(t, u, s, r, a) ==
  /\ Sound(t, u, a)
  /\ a.at = r.at /\ a.peeked = s.peeked /\ a.pop = s.pop + r.pop
  /\ a.assert = s.assert /\ a.seen = s.seen /\ a.lines = s.lines \o r.lines

\* A token lexed takes the state along.
LEMMA RelexedFact ==
  ASSUME NEW t, NEW u \in Seq(Nat), NEW s, Sound(t, u, s), NEW waiting, Len(waiting) \in Nat,
         NEW r, LexedTaking(t, waiting, s.at, 0, r)
  PROVE  Along(t, u, s, r, Relexed(s, r))
<1> DEFINE a == Relexed(s, r)
<1>1. /\ IsState(s) /\ s.at \in 1..(Len(t) + 2) /\ Buffer(t, s.peeked) /\ s.lines \in Seq(Nat)
      /\ LinesIn(t, u \o s.lines, 0, s.at) /\ s.pop \in Nat
  BY DEF Sound
<1>2. /\ r.at \in s.at..(Len(t) + 2) /\ LinesIn(t, r.lines, s.at, r.at) /\ r.pop \in Nat
      /\ r.lines \in Seq(Nat)
  BY DEF LexedTaking, LexedFrom, LinesIn
<1>3. \E e : a = [at |-> r.at, peeked |-> s.peeked, lines |-> s.lines \o r.lines, error |-> e,
                  pop |-> s.pop + r.pop, assert |-> s.assert, seen |-> s.seen]
  <2> DEFINE p == s.peeked
             l == s.lines \o r.lines
             q == s.pop + r.pop
             as == s.assert
             se == s.seen
             x1 == s.at
             x2 == s.lines
             x3 == s.error
             x4 == s.pop
             y == r.at
  <2>1. \E e : a = [s EXCEPT !.at = y, !.lines = l, !.error = e, !.pop = q]
    BY DEF Relexed
  <2>2. s = [at |-> x1, peeked |-> p, lines |-> x2, error |-> x3, pop |-> x4,
             assert |-> as, seen |-> se]
    BY <1>1 DEF IsState
  <2> HIDE DEF a, p, l, q, as, se, x1, x2, x3, x4, y
  <2>3. \E e : a = [at |-> y, peeked |-> p, lines |-> l, error |-> e,
                    pop |-> q, assert |-> as, seen |-> se]
    BY <2>1, <2>2
  <2> QED
    BY <2>3 DEF p, l, q, as, se, y
<1> HIDE DEF a
<1>4. /\ a.at = r.at /\ a.peeked = s.peeked /\ a.pop = s.pop + r.pop
      /\ a.assert = s.assert /\ a.seen = s.seen /\ a.lines = s.lines \o r.lines /\ IsState(a)
  <2> DEFINE p == s.peeked
             l == s.lines \o r.lines
             q == s.pop + r.pop
             as == s.assert
             se == s.seen
             y == r.at
  <2>1. PICK e : a = [at |-> y, peeked |-> p, lines |-> l, error |-> e,
                      pop |-> q, assert |-> as, seen |-> se]
    BY <1>3
  <2> HIDE DEF p, l, q, as, se, y
  <2>2. /\ a.at = y /\ a.peeked = p /\ a.lines = l /\ a.error = e /\ a.pop = q
        /\ a.assert = as /\ a.seen = se
    BY <2>1
  <2>3. IsState(a)
    BY <2>1, <2>2 DEF IsState
  <2> QED
    BY <2>2, <2>3 DEF p, l, q, as, se, y
<1>5. LinesIn(t, u \o a.lines, 0, a.at)
  <2> DEFINE x == s.lines
             y == r.lines
  <2>1. x \in Seq(Nat) /\ y \in Seq(Nat)
    BY <1>1, <1>2
  <2>2. (u \o x) \o y = u \o (x \o y)
    <3> HIDE DEF x, y
    <3> QED
      BY <2>1
  <2>3. LinesIn(t, (u \o x) \o y, 0, r.at)
    <3>1. 0 \in Nat /\ s.at \in Nat /\ r.at \in Nat /\ 0 <= s.at /\ s.at <= r.at
      BY <1>1, <1>2
    <3> DEFINE v == u \o x
    <3>2. LinesIn(t, v, 0, s.at) /\ LinesIn(t, y, s.at, r.at)
      BY <1>1, <1>2
    <3> HIDE DEF v, y
    <3>3. LinesIn(t, v \o y, 0, r.at)
      BY <3>1, <3>2, LinesJoin
    <3> QED
      BY <3>3 DEF v
  <2> QED
    BY <1>4, <2>2, <2>3
<1>6. a.at \in 1..(Len(t) + 2) /\ a.pop \in Nat /\ a.lines \in Seq(Nat)
  BY <1>1, <1>2, <1>4
<1>7. Sound(t, u, a)
  BY <1>1, <1>4, <1>5, <1>6 DEF Sound
<1> QED
  BY <1>4, <1>7 DEF a, Along

\* What peekTokenType returned, and whether it asserted, is no part of soundness.
LEMMA SeenFact ==
  ASSUME NEW t, NEW u, NEW s, Sound(t, u, s), NEW x, NEW e, NEW b, Buffer(t, b)
  PROVE  LET a == [at |-> s.at, peeked |-> b, lines |-> s.lines, error |-> s.error,
                   pop |-> s.pop, assert |-> e, seen |-> x]
         IN  /\ Sound(t, u, a)
             /\ a.at = s.at /\ a.peeked = b /\ a.pop = s.pop /\ a.assert = e
             /\ a.seen = x /\ a.lines = s.lines /\ a.error = s.error
<1> DEFINE x1 == s.at
           x2 == s.lines
           x3 == s.error
           x4 == s.pop
           a == [at |-> x1, peeked |-> b, lines |-> x2, error |-> x3,
                 pop |-> x4, assert |-> e, seen |-> x]
<1>1. /\ x1 \in 1..(Len(t) + 2) /\ x2 \in Seq(Nat) /\ LinesIn(t, u \o x2, 0, x1) /\ x4 \in Nat
  BY DEF Sound
<1> HIDE DEF x1, x2, x3, x4
<1>2. /\ a.at = x1 /\ a.peeked = b /\ a.pop = x4 /\ a.assert = e
      /\ a.seen = x /\ a.lines = x2 /\ a.error = x3
  OBVIOUS
<1>3. IsState(a)
  BY <1>2 DEF IsState
<1> HIDE DEF a
<1>4. Sound(t, u, a)
  BY <1>1, <1>2, <1>3 DEF Sound
<1> QED
  BY <1>2, <1>4 DEF a, x1, x2, x3, x4

\* A token is looked ahead at.
LEMMA PeekOneFact ==
  ASSUME NEW t, t \in Seq(Char), NEW u \in Seq(Nat), NEW s, Sound(t, u, s), s.peeked.count <= 2
  PROVE  LET p == PeekOne(t, s)
             r == RealConsume(t, s.at, s.seen, <<>>)
         IN  /\ Sound(t, u, p)
             /\ p.peeked.count <= s.peeked.count + 1 /\ p.pop >= s.pop /\ p.assert = s.assert
             /\ p.pop = s.pop => /\ p.at = r.at /\ p.seen = r.tok.type
                                 /\ p.peeked = Store(s.peeked, r.tok)
                                 /\ GoodToken(t, r.tok)
<1> DEFINE b == s.peeked
           waiting == Waiting(b)
           r == RealConsume(t, s.at, s.seen, waiting)
           a == Relexed(s, r)
           c == IF r.pop > 0 THEN Popped(b, r.pop) ELSE b
           d == Store(c, r.tok)
           p == PeekOne(t, s)
<1>1. Buffer(t, b) /\ s.at \in 1..(Len(t) + 2) /\ s.pop \in Nat /\ b.count \in 0..3
  BY DEF Sound, Buffer
<1>2. Len(waiting) \in Nat
  <2> HIDE DEF b
  <2> QED
    BY <1>1, WaitingFact
<1>3. LexedTaking(t, waiting, s.at, 0, r)
  <2> HIDE DEF waiting
  <2> QED
    BY <1>1, <1>2, RealConsumeFact
<1>4. r.pop \in Nat /\ GoodToken(t, r.tok)
  BY <1>3 DEF LexedTaking, LexedFrom
<1>5. /\ Sound(t, u, a) /\ a.at = r.at /\ a.peeked = b /\ a.pop = s.pop + r.pop
      /\ a.assert = s.assert
  <2> HIDE DEF waiting, r, b, c, d, p
  <2>1. Along(t, u, s, r, a)
    BY <1>2, <1>3, RelexedFact
  <2> HIDE DEF a
  <2> QED
    BY <2>1 DEF b, Along
<1>6. Buffer(t, c) /\ c.count <= b.count /\ (r.pop = 0 => c = b)
  <2>1. Buffer(t, Popped(b, r.pop)) /\ Popped(b, r.pop).count <= b.count
    <3> DEFINE n == r.pop
    <3> HIDE DEF r, b, n, a, d, p
    <3>1. n \in Nat
      BY <1>4 DEF n
    <3>2. Buffer(t, Popped(b, n)) /\ Popped(b, n).count <= b.count
      BY <1>1, <3>1, PoppedFact
    <3> QED
      BY <3>2 DEF n
  <2> HIDE DEF r, b
  <2> QED
    BY <1>1, <2>1
<1>7. Buffer(t, d) /\ d.count = c.count + 1
  <2>1. c.count <= 2
    <3>1. c.count \in 0..3
      BY <1>6 DEF Buffer
    <3> HIDE DEF c, b, r
    <3> QED
      BY <1>1, <1>6, <3>1 DEF b
  <2> HIDE DEF c, r
  <2> QED
    BY <1>4, <1>6, <2>1, StoreFact
<1>8. p = [a EXCEPT !.peeked = d, !.seen = r.tok.type]
  BY DEF PeekOne, Peeked
<1>9. /\ Sound(t, u, p) /\ p.at = a.at /\ p.peeked = d /\ p.pop = a.pop
      /\ p.assert = a.assert /\ p.seen = r.tok.type
  <2> DEFINE x == r.tok.type
             y == a.assert
             x1 == a.at
             x2 == a.lines
             x3 == a.error
             x4 == a.pop
             x5 == a.peeked
             x6 == a.seen
             q == [at |-> x1, peeked |-> d, lines |-> x2, error |-> x3,
                   pop |-> x4, assert |-> y, seen |-> x]
  <2>1. a = [at |-> x1, peeked |-> x5, lines |-> x2, error |-> x3,
             pop |-> x4, assert |-> y, seen |-> x6]
    <3> HIDE DEF a
    <3> QED
      BY <1>5 DEF Sound, IsState
  <2>2. p = [a EXCEPT !.peeked = d, !.seen = x]
    BY <1>8
  <2> HIDE DEF a, d, p, x, y, x1, x2, x3, x4, x5, x6
  <2>3. p = q
    BY <2>1, <2>2
  <2>4. /\ Sound(t, u, q) /\ q.at = a.at /\ q.peeked = d /\ q.pop = a.pop /\ q.assert = y
        /\ q.seen = x
    BY <1>5, <1>7, SeenFact DEF x1, x2, x3, x4
  <2> QED
    BY <2>3, <2>4 DEF x, y
<1>10. r.pop = 0 => r = RealConsume(t, s.at, s.seen, <<>>)
  <2> HIDE DEF waiting
  <2> QED
    BY <1>1, <1>2, TakesNone
<1>11. /\ Sound(t, u, p) /\ p.peeked.count <= s.peeked.count + 1
       /\ p.pop >= s.pop /\ p.assert = s.assert
  <2> HIDE DEF r, c, d, a, p
  <2>1. c.count \in 0..3 /\ p.peeked.count = c.count + 1
    BY <1>6, <1>7, <1>9 DEF Buffer
  <2> QED
    BY <1>1, <1>4, <1>5, <1>6, <1>9, <2>1
<1>12. ASSUME p.pop = s.pop
       PROVE  LET q == RealConsume(t, s.at, s.seen, <<>>)
              IN  /\ p.at = q.at /\ p.seen = q.tok.type /\ p.peeked = Store(s.peeked, q.tok)
                  /\ GoodToken(t, q.tok)
  <2>1. r.pop = 0
    <3> HIDE DEF r, a, p
    <3> QED
      BY <1>1, <1>4, <1>5, <1>9, <1>12
  <2>2. r = RealConsume(t, s.at, s.seen, <<>>) /\ d = Store(s.peeked, r.tok)
    BY <1>6, <1>10, <2>1
  <2> HIDE DEF r, a, d, p
  <2> QED
    BY <1>4, <1>5, <1>9, <2>2
<1> HIDE DEF p
<1> QED
  BY <1>11, <1>12 DEF p


\* What the state a has of the state s when only seen differs.
Reseen(t, u, s, x, a) ==
  /\ Sound(t, u, a)
  /\ a.at = s.at /\ a.peeked = s.peeked /\ a.lines = s.lines /\ a.pop = s.pop
  /\ a.assert = s.assert /\ a.seen = x

\* Seen may be anything.
LEMMA ReseenFact ==
  ASSUME NEW t, NEW u, NEW s, Sound(t, u, s), NEW x
  PROVE  Reseen(t, u, s, x, [s EXCEPT !.seen = x])
<1> DEFINE x1 == s.at
           x2 == s.lines
           x3 == s.error
           x4 == s.pop
           x5 == s.peeked
           x6 == s.seen
           x7 == s.assert
           a == [s EXCEPT !.seen = x]
           c == [at |-> x1, peeked |-> x5, lines |-> x2, error |-> x3,
                 pop |-> x4, assert |-> x7, seen |-> x]
<1>1. /\ s = [at |-> x1, peeked |-> x5, lines |-> x2, error |-> x3,
              pop |-> x4, assert |-> x7, seen |-> x6]
      /\ Buffer(t, x5)
  BY DEF Sound, IsState
<1>2. /\ Sound(t, u, c) /\ c.at = x1 /\ c.peeked = x5 /\ c.pop = x4 /\ c.assert = x7
      /\ c.seen = x /\ c.lines = x2
  <2> HIDE DEF x5, x7
  <2> QED
    BY <1>1, SeenFact
<1>3. a = [s EXCEPT !.seen = x]
  OBVIOUS
<1> HIDE DEF a, x1, x2, x3, x4, x5, x6, x7
<1>4. a = c
  BY <1>1, <1>3
<1> HIDE DEF c
<1>5. Reseen(t, u, s, x, a)
  BY <1>2, <1>4 DEF Reseen, x1, x2, x4, x5, x7
<1> QED
  BY <1>5 DEF a

\* Looking ahead at missing tokens, one after the other.
LEMMA PeekMoreFact ==
  ASSUME NEW t, t \in Seq(Char), NEW u \in Seq(Nat), NEW type, NEW s, Sound(t, u, s),
         NEW missing \in Nat, s.peeked.count + missing <= 3, NEW distance
  PROVE  LET p == PeekMore(t, type, s, missing, distance)
         IN  Sound(t, u, p) /\ p.pop >= s.pop /\ p.assert = s.assert
<1> DEFINE p == PeekMore(t, type, s, missing, distance)
           b == [s EXCEPT !.seen = type]
<1>1. PICK g : /\ \A n \in 0..missing : g[n] = PeekMoreAt(t, type, s, g, n)
               /\ p = [g[missing] EXCEPT !.seen = g[missing].peeked.tokens[distance + 1].type]
  <2>1. \E g : PeekMoreBy(t, type, s, missing, distance, g, p)
    BY PeekMoreDef
  <2> QED
    BY <2>1 DEF PeekMoreBy
<1> DEFINE S == {n \in Nat : n <= missing => /\ Sound(t, u, g[n])
                                             /\ g[n].peeked.count <= s.peeked.count + n
                                             /\ g[n].pop >= s.pop /\ g[n].assert = s.assert}
<1>2. s.pop \in Nat /\ s.peeked.count \in 0..3
  BY DEF Sound, Buffer
<1>3. 0 \in S
  <2>1. Reseen(t, u, s, type, b)
    BY ReseenFact
  <2>2. g[0] = b
    <3>1. 0 \in 0..missing
      OBVIOUS
    <3> QED
      BY <1>1, <3>1 DEF PeekMoreAt
  <2> HIDE DEF b, p
  <2>3. /\ Sound(t, u, g[0]) /\ g[0].peeked.count = s.peeked.count
        /\ g[0].pop = s.pop /\ g[0].assert = s.assert
    BY <2>1, <2>2 DEF Reseen
  <2> QED
    BY <1>2, <2>3
<1>4. ASSUME NEW n \in Nat, n \in S PROVE n + 1 \in S
  <2> SUFFICES ASSUME n + 1 <= missing
               PROVE  /\ Sound(t, u, g[n + 1])
                      /\ g[n + 1].peeked.count <= s.peeked.count + (n + 1)
                      /\ g[n + 1].pop >= s.pop /\ g[n + 1].assert = s.assert
    OBVIOUS
  <2> DEFINE a == g[n]
             c == PeekOne(t, a)
  <2>1. /\ Sound(t, u, a) /\ a.peeked.count <= s.peeked.count + n
        /\ a.pop >= s.pop /\ a.assert = s.assert
    BY <1>4
  <2>2. g[n + 1] = c
    <3>1. n + 1 \in 0..missing /\ n + 1 # 0 /\ (n + 1) - 1 = n
      OBVIOUS
    <3>2. g[n + 1] = PeekMoreAt(t, type, s, g, n + 1)
      BY <1>1, <3>1
    <3> QED
      BY <3>1, <3>2 DEF PeekMoreAt
  <2> HIDE DEF S, p, b, a
  <2>3. a.peeked.count \in 0..3 /\ a.pop \in Nat
    BY <2>1 DEF Sound, Buffer
  <2>4. a.peeked.count <= 2
    BY <1>2, <2>1, <2>3
  <2>5. /\ Sound(t, u, c) /\ c.peeked.count <= a.peeked.count + 1 /\ c.pop >= a.pop
        /\ c.assert = a.assert
    BY <2>1, <2>4, PeekOneFact
  <2> HIDE DEF c
  <2>6. c.peeked.count \in 0..3 /\ c.pop \in Nat
    BY <2>5 DEF Sound, Buffer
  <2>7. c.peeked.count <= s.peeked.count + (n + 1)
    <3>1. c.peeked.count <= a.peeked.count + 1 /\ a.peeked.count <= s.peeked.count + n
      BY <2>1, <2>5
    <3>2. s.peeked.count \in 0..3
      BY <1>2
    <3> QED
      BY <2>3, <2>6, <3>1, <3>2
  <2>8. c.pop >= s.pop
    <3>1. c.pop >= a.pop /\ a.pop >= s.pop
      BY <2>1, <2>5
    <3>2. s.pop \in Nat
      BY <1>2
    <3> QED
      BY <2>3, <2>6, <3>1, <3>2
  <2>9. c.assert = s.assert
    BY <2>1, <2>5
  <2> QED
    BY <2>2, <2>5, <2>7, <2>8, <2>9
<1> HIDE DEF S
<1>5. missing \in S
  BY <1>3, <1>4, Induction
<1> DEFINE a == g[missing]
           x == a.peeked.tokens[distance + 1].type
<1>6. Sound(t, u, a) /\ a.pop >= s.pop /\ a.assert = s.assert
  BY <1>5 DEF S
<1>7. p = [a EXCEPT !.seen = x]
  BY <1>1
<1> HIDE DEF a, x, p
<1>8. Reseen(t, u, a, x, p)
  BY <1>6, <1>7, ReseenFact
<1>9. Sound(t, u, p) /\ p.pop >= s.pop /\ p.assert = s.assert
  BY <1>6, <1>8 DEF Reseen
<1> QED
  BY <1>9 DEF p

\* What the state p has of the state s and of the token lexed as r, the only one
\* looked ahead at.
OneMore(t, s, r, distance, p) ==
  p.pop = s.pop => /\ p.at = r.at /\ p.peeked = Store(s.peeked, r.tok)
                   /\ p.seen = p.peeked.tokens[distance + 1].type
                   /\ GoodToken(t, r.tok)

\* Looking ahead at one token.
LEMMA OneMoreFact ==
  ASSUME NEW t, t \in Seq(Char), NEW u \in Seq(Nat), NEW type, NEW s, Sound(t, u, s),
         s.peeked.count <= 2, NEW distance
  PROVE  OneMore(t, s, RealConsume(t, s.at, type, <<>>), distance,
                 PeekMore(t, type, s, 1, distance))
<1> DEFINE p == PeekMore(t, type, s, 1, distance)
           b == [s EXCEPT !.seen = type]
           c == PeekOne(t, b)
           x == c.peeked.tokens[distance + 1].type
           r == RealConsume(t, b.at, b.seen, <<>>)
<1>1. p = [c EXCEPT !.seen = x]
  <2>1. PICK g : /\ \A n \in 0..1 : g[n] = PeekMoreAt(t, type, s, g, n)
                 /\ p = [g[1] EXCEPT !.seen = g[1].peeked.tokens[distance + 1].type]
    <3>1. 1 \in Nat
      OBVIOUS
    <3>2. \E g : PeekMoreBy(t, type, s, 1, distance, g, p)
      BY <3>1, PeekMoreDef
    <3> HIDE DEF p, b
    <3> QED
      BY <3>2 DEF PeekMoreBy
  <2>2. g[0] = b /\ g[1] = PeekOne(t, g[0])
    <3>1. 0 \in 0..1 /\ 1 \in 0..1 /\ 1 # 0 /\ 1 - 1 = 0
      OBVIOUS
    <3> QED
      BY <2>1, <3>1 DEF PeekMoreAt
  <2> QED
    BY <2>1, <2>2
<1>2. Reseen(t, u, s, type, b)
  BY ReseenFact
<1> HIDE DEF b
<1>3. /\ Sound(t, u, b) /\ b.at = s.at /\ b.peeked = s.peeked /\ b.pop = s.pop /\ b.seen = type
  BY <1>2 DEF Reseen
<1>4. /\ Sound(t, u, c)
      /\ c.pop = b.pop => /\ c.at = r.at /\ c.peeked = Store(b.peeked, r.tok)
                          /\ GoodToken(t, r.tok)
  BY <1>3, PeekOneFact
<1> HIDE DEF c, x, p
<1>5. Reseen(t, u, c, x, p)
  BY <1>1, <1>4, ReseenFact
<1>6. r = RealConsume(t, s.at, type, <<>>)
  BY <1>3
<1> HIDE DEF r
<1>7. p.at = c.at /\ p.peeked = c.peeked /\ p.pop = c.pop /\ p.seen = x
  BY <1>5 DEF Reseen
<1>8. OneMore(t, s, r, distance, p)
  BY <1>3, <1>4, <1>7 DEF OneMore, x
<1> QED
  BY <1>6, <1>8 DEF p


\* A failed assertion leaves the rest of the state.
LEMMA AssertFact ==
  ASSUME NEW t, NEW u, NEW s, Sound(t, u, s)
  PROVE  LET p == [s EXCEPT !.assert = TRUE]
         IN  Sound(t, u, p) /\ p.pop = s.pop /\ p.assert = TRUE
<1> DEFINE x1 == s.at
           x2 == s.lines
           x3 == s.error
           x4 == s.pop
           x5 == s.peeked
           x6 == s.seen
           x7 == s.assert
           p == [s EXCEPT !.assert = TRUE]
           c == [at |-> x1, peeked |-> x5, lines |-> x2, error |-> x3,
                 pop |-> x4, assert |-> TRUE, seen |-> x6]
<1>1. /\ s = [at |-> x1, peeked |-> x5, lines |-> x2, error |-> x3,
              pop |-> x4, assert |-> x7, seen |-> x6]
      /\ Buffer(t, x5)
  BY DEF Sound, IsState
<1>2. /\ Sound(t, u, c) /\ c.pop = x4 /\ c.assert = TRUE
  <2> HIDE DEF x5, x6
  <2> QED
    BY <1>1, SeenFact
<1>3. p = [s EXCEPT !.assert = TRUE]
  OBVIOUS
<1> HIDE DEF p, x1, x2, x3, x4, x5, x6, x7
<1>4. p = c
  BY <1>1, <1>3
<1> HIDE DEF c
<1>5. Sound(t, u, p) /\ p.pop = s.pop /\ p.assert = TRUE
  BY <1>2, <1>4 DEF x4
<1> QED
  BY <1>5 DEF p

\* The state p is sound, and continuations took no fewer tokens than in s.
Onwards(t, u, s, p) == Sound(t, u, p) /\ p.pop >= s.pop

\* peekTokenType keeps the state sound.
LEMMA PeekFact ==
  ASSUME NEW t, t \in Seq(Char), NEW u \in Seq(Nat), NEW type, NEW s, Sound(t, u, s),
         NEW d \in 0..2
  PROVE  Onwards(t, u, s, Peek(t, type, s, d))
<1> DEFINE b == s.peeked
           p == Peek(t, type, s, d)
<1>1. b.i \in Nat /\ b.count \in 0..3 /\ s.pop \in Nat
  BY DEF Sound, Buffer
<1>2. CASE b.i + d < b.count
  <2> DEFINE x == b.tokens[b.i + d + 1].type
  <2>1. p = [s EXCEPT !.seen = x]
    BY <1>2 DEF Peek
  <2> HIDE DEF x, p, b
  <2>2. Reseen(t, u, s, x, p)
    BY <2>1, ReseenFact
  <2>3. Onwards(t, u, s, p)
    BY <1>1, <2>2 DEF Reseen, Onwards
  <2> QED
    BY <2>3 DEF p
<1>3. CASE b.i + d >= b.count /\ b.i # 0
  <2> DEFINE a == [s EXCEPT !.assert = TRUE]
  <2>1. p = a
    BY <1>1, <1>3 DEF Peek
  <2>2. Sound(t, u, a) /\ a.pop = s.pop
    BY AssertFact
  <2> HIDE DEF p, b, a
  <2>3. Onwards(t, u, s, p)
    BY <1>1, <2>1, <2>2 DEF Onwards
  <2> QED
    BY <2>3 DEF p
<1>4. CASE b.i + d >= b.count /\ b.i = 0
  <2> DEFINE missing == d + 1 - b.count
             a == PeekMore(t, type, s, missing, d)
  <2>1. p = a
    BY <1>1, <1>4 DEF Peek
  <2>2. missing \in Nat /\ b.count + missing <= 3
    BY <1>1, <1>4
  <2> HIDE DEF missing, p
  <2>3. Sound(t, u, a) /\ a.pop >= s.pop
    BY <2>2, PeekMoreFact
  <2> HIDE DEF a, b
  <2>4. Onwards(t, u, s, p)
    BY <2>1, <2>3 DEF Onwards
  <2> QED
    BY <2>4 DEF p
<1> QED
  BY <1>1, <1>2, <1>3, <1>4

\* An identifier is current only at the start of the buffer: a token taken
\* out of it with others left is a square bracket.
LEMMA AtStart ==
  ASSUME NEW t, NEW u, NEW s, Sound(t, u, s), NEW n, Ahead(t, n, "Identifier", s)
  PROVE  s.peeked.i = 0
<1> DEFINE b == s.peeked
           k == b.tokens
           type == "Identifier"
<1>1. /\ b.i \in Nat /\ b.count \in 0..3
      /\ b.i < b.count \/ (b.i = 0 /\ b.count = 0)
  BY DEF Sound, Buffer
<1>2. /\ b.count >= 2 => k[1].type = "["
      /\ b.count = 3 => k[2].type = "]"
      /\ b.i # 0 => type = k[b.i].type
  BY DEF Ahead
<1>3. type # "[" /\ type # "]"
  OBVIOUS
<1> HIDE DEF type, b, k
<1>4. b.i = 0
  <2> SUFFICES ASSUME b.i # 0 PROVE FALSE
    OBVIOUS
  <2>1. CASE b.i = 1
    BY <1>1, <1>2, <1>3, <2>1
  <2>2. CASE b.i = 2
    BY <1>1, <1>2, <1>3, <2>2
  <2> QED
    BY <1>1, <2>1, <2>2
<1> QED
  BY <1>4 DEF b

\* The parser looks at the token behind the next d only past an array type's brackets.
Bracketed(type, s, d) ==
  d > 0 => /\ type = "Identifier"
           /\ s.peeked.i = 0 /\ s.peeked.count >= d
           /\ s.peeked.tokens[1].type = "["
           /\ d = 2 => s.peeked.tokens[2].type = "]"

\* What is looked ahead at next is the next token of the text.
LEMMA NextAlone ==
  ASSUME NEW t, NEW n \in Nat \ {0}, NEW type, NEW s, Ahead(t, n, type, s),
         s.peeked.i = 0, s.peeked.count \in 0..2, Bracketed(type, s, s.peeked.count)
  PROVE  RealConsume(t, s.at, type, <<>>) = Alone(t, n + s.peeked.count + 1)
<1> DEFINE c == s.peeked.count
           k == s.peeked.tokens
           m == n + c
           a == Alone(t, m)
<1>1. /\ type = Alone(t, n).tok.type /\ s.at = Alone(t, n + (c - 0)).at
      /\ \A j \in 1..(c - 0) : k[0 + j] = Alone(t, n + j).tok
  BY DEF Ahead
<1>2. m \in Nat \ {0} /\ n + (c - 0) = m
  OBVIOUS
<1>3. Alone(t, m + 1) = RealConsume(t, a.at, a.tok.type, <<>>)
  BY <1>2, AloneFact
<1>4. Kind(type) = Kind(a.tok.type)
  <2>1. CASE c = 0
    <3>1. m = n
      BY <2>1
    <3> QED
      BY <1>1, <3>1
  <2>2. CASE c # 0
    <3>1. type = "Identifier" /\ k[1].type = "[" /\ (c = 2 => k[2].type = "]") /\ c \in 1..2
      BY <2>2 DEF Bracketed
    <3>2. c \in 1..(c - 0) /\ 0 + c = c
      BY <3>1
    <3>3. k[c] = a.tok
      BY <1>1, <3>2
    <3>4. k[c].type = "[" \/ k[c].type = "]"
      BY <3>1
    <3> DEFINE x == a.tok.type
    <3>5. x = "[" \/ x = "]"
      BY <3>3, <3>4
    <3> HIDE DEF x
    <3>6. Kind(type) = Kind(x)
      BY <3>1, <3>5 DEF Kind
    <3> QED
      BY <3>6 DEF x
  <2> QED
    BY <2>1, <2>2
<1>5. s.at = a.at
  BY <1>1, <1>2
<1> DEFINE y == a.at
           x == a.tok.type
<1>6. RealConsume(t, y, type, <<>>) = RealConsume(t, y, x, <<>>)
  BY <1>4 DEF RealConsume
<1> QED
  BY <1>3, <1>5, <1>6


\* What peekTokenType leaves of the state s, tokens being only lexed: the tokens in
\* the buffer are the next ones, and it returned the type of the one behind d others.
Peers(t, n, type, s, d, p) ==
  p.pop = s.pop => /\ Ahead(t, n, type, p)
                   /\ p.peeked.i + d < p.peeked.count
                   /\ p.seen = p.peeked.tokens[p.peeked.i + d + 1].type

\* p has the token of r stored behind those of s.
Stores(s, r, p) ==
  p.at = r.at /\ p.peeked = Store(s.peeked, r.tok) /\ p.assert = s.assert

\* In p there is one token more in the buffer than in s, the next one.
Longer(t, n, type, s, p) ==
  Ahead(t, n, type, p) /\ p.peeked.i = 0 /\ p.peeked.count = s.peeked.count + 1

\* Another token is stored behind those that wait.
LEMMA StoredAhead ==
  ASSUME NEW t, NEW u, NEW n \in Nat \ {0}, NEW type, NEW s, Sound(t, u, s),
         Ahead(t, n, type, s), s.peeked.i = 0, s.peeked.count \in 0..2,
         Bracketed(type, s, s.peeked.count),
         NEW r, r = Alone(t, n + s.peeked.count + 1), GoodToken(t, r.tok),
         NEW p, Stores(s, r, p)
  PROVE  Longer(t, n, type, s, p)
<1> DEFINE b == s.peeked
           c == b.count
           k == b.tokens
           x == r.tok
           e == Store(b, x)
           l == e.tokens
<1>1. /\ type = Alone(t, n).tok.type
      /\ \A j \in 1..(c - 0) : k[0 + j] = Alone(t, n + j).tok
      /\ c >= 2 => k[1].type = "["
      /\ c = 3 => k[2].type = "]"
      /\ ~s.assert
  BY DEF Ahead
<1>2. (c = 1 => k[1].type = "[") /\ (c = 2 => k[2].type = "]") /\ c \in 0..2
  BY DEF Bracketed
<1>3. /\ e.i = 0 /\ e.count = c + 1 /\ l[c + 1] = x
      /\ \A j \in 1..c : l[j] = k[j]
  <2>1. Buffer(t, b)
    BY DEF Sound
  <2> HIDE DEF b, x
  <2>2. /\ e.i = b.i /\ e.count = b.count + 1 /\ e.tokens[e.count] = x
        /\ \A j \in 1..b.count : e.tokens[j] = b.tokens[j]
    BY <2>1, StoreFact DEF b, x
  <2>3. b.i = 0
    BY DEF b
  <2> HIDE DEF e
  <2> QED
    BY <2>2, <2>3
<1>4. /\ p.peeked = e /\ x = Alone(t, n + c + 1).tok /\ p.at = Alone(t, n + c + 1).at
      /\ p.assert = s.assert
  BY DEF Stores
<1> HIDE DEF b, x, e, c, k, l
<1> DEFINE g == p.peeked
<1>5. g.i = 0 /\ g.count = c + 1 /\ g.tokens = l
  BY <1>3, <1>4 DEF l
<1>6. \A j \in 1..(g.count - g.i) : g.tokens[g.i + j] = Alone(t, n + j).tok
  <2> SUFFICES ASSUME NEW j \in 1..(g.count - g.i) PROVE g.tokens[g.i + j] = Alone(t, n + j).tok
    OBVIOUS
  <2>1. j \in 1..(c + 1) /\ g.i + j = j
    BY <1>2, <1>5
  <2>2. l[j] = Alone(t, n + j).tok
    <3>1. CASE j = c + 1
      <4>1. n + j = n + c + 1
        BY <1>2, <3>1
      <4> QED
        BY <1>3, <1>4, <3>1, <4>1
    <3>2. CASE j # c + 1
      <4>1. j \in 1..c /\ j \in 1..(c - 0) /\ 0 + j = j
        BY <1>2, <2>1, <3>2
      <4> QED
        BY <1>1, <1>3, <4>1
    <3> QED
      BY <3>1, <3>2
  <2> QED
    BY <1>5, <2>1, <2>2
<1>7. n + (g.count - g.i) = n + c + 1
  BY <1>2, <1>5
<1>8. (g.count >= 2 => g.tokens[1].type = "[") /\ (g.count = 3 => g.tokens[2].type = "]")
  <2>1. g.count >= 2 => k[1].type = "[" /\ l[1] = k[1]
    BY <1>1, <1>2, <1>3, <1>5
  <2>2. g.count = 3 => k[2].type = "]" /\ l[2] = k[2]
    BY <1>1, <1>2, <1>3, <1>5
  <2> QED
    BY <1>5, <2>1, <2>2
<1>9. Ahead(t, n, type, p)
  <2>1. p.at = Alone(t, n + (g.count - g.i)).at
    BY <1>4, <1>7
  <2>2. ~p.assert
    BY <1>1, <1>4
  <2> QED
    BY <1>1, <1>5, <1>6, <1>8, <2>1, <2>2 DEF Ahead
<1> QED
  BY <1>5, <1>9 DEF b, c, Longer

\* peekTokenType sees the next tokens of the text.
LEMMA PeekAhead ==
  ASSUME NEW t, t \in Seq(Char), NEW u \in Seq(Nat), NEW n \in Nat \ {0}, NEW type, NEW s,
         Sound(t, u, s), Ahead(t, n, type, s), NEW d \in 0..2, Bracketed(type, s, d)
  PROVE  Peers(t, n, type, s, d, Peek(t, type, s, d))
<1> DEFINE b == s.peeked
           p == Peek(t, type, s, d)
<1>1. b.i \in Nat /\ b.count \in 0..3 /\ (b.i < b.count \/ (b.i = 0 /\ b.count = 0))
  BY DEF Sound, Buffer
<1>2. CASE b.i + d < b.count
  <2> DEFINE x == b.tokens[b.i + d + 1].type
  <2>1. p = [s EXCEPT !.seen = x]
    BY <1>2 DEF Peek
  <2> HIDE DEF x, p
  <2>2. Reseen(t, u, s, x, p)
    BY <2>1, ReseenFact
  <2>3. p.peeked = b /\ p.at = s.at /\ p.assert = s.assert /\ p.seen = x
    BY <2>2 DEF Reseen
  <2>4. Ahead(t, n, type, p)
    BY <2>3 DEF Ahead
  <2>5. Peers(t, n, type, s, d, p)
    <3> HIDE DEF b
    <3> QED
      BY <1>2, <2>3, <2>4 DEF Peers, x
  <2> QED
    BY <2>5 DEF p
<1>3. CASE b.i + d >= b.count
  <2>1. b.i = 0
    <3>1. CASE d = 0
      BY <1>1, <1>3, <3>1
    <3>2. CASE d # 0
      BY <3>2 DEF Bracketed
    <3> QED
      BY <3>1, <3>2
  <2>2. b.count = d
    <3>1. d > 0 => b.count >= d
      BY DEF Bracketed
    <3> QED
      BY <1>1, <1>3, <2>1, <3>1
  <2> DEFINE r == RealConsume(t, s.at, type, <<>>)
             a == PeekMore(t, type, s, 1, d)
  <2>3. p = a
    <3>1. d + 1 - b.count = 1 /\ ~(b.i + d < b.count)
      BY <1>1, <2>1, <2>2
    <3> QED
      BY <2>1, <3>1 DEF Peek
  <2>4. r = Alone(t, n + b.count + 1)
    BY <2>1, <2>2, NextAlone
  <2>5. OneMore(t, s, r, d, a)
    <3>1. b.count <= 2
      BY <2>2
    <3> QED
      BY <3>1, OneMoreFact
  <2>6. a.assert = s.assert
    <3>1. b.count + 1 <= 3 /\ 1 \in Nat
      BY <2>2
    <3> QED
      BY <3>1, PeekMoreFact
  <2> HIDE DEF r, a, p
  <2>7. SUFFICES ASSUME p.pop = s.pop
                 PROVE  /\ Ahead(t, n, type, p)
                        /\ p.peeked.i + d < p.peeked.count
                        /\ p.seen = p.peeked.tokens[p.peeked.i + d + 1].type
    BY DEF Peers, p
  <2>8. /\ p.at = r.at /\ p.peeked = Store(b, r.tok)
        /\ p.seen = p.peeked.tokens[d + 1].type /\ GoodToken(t, r.tok)
    BY <2>3, <2>5, <2>7 DEF OneMore
  <2>9. Ahead(t, n, type, p) /\ p.peeked.i = 0 /\ p.peeked.count = b.count + 1
    <3>1. b.count \in 0..2 /\ Bracketed(type, s, b.count)
      BY <2>2
    <3>2. Stores(s, r, p)
      BY <2>3, <2>6, <2>8 DEF Stores
    <3>3. /\ s.peeked.i = 0 /\ s.peeked.count \in 0..2
          /\ Bracketed(type, s, s.peeked.count) /\ GoodToken(t, r.tok)
          /\ r = Alone(t, n + s.peeked.count + 1)
      BY <2>1, <2>4, <2>8, <3>1
    <3>4. Longer(t, n, type, s, p)
      <4> HIDE DEF b
      <4> QED
        BY <3>2, <3>3, StoredAhead
    <3> QED
      BY <3>4 DEF Longer
  <2>10. p.peeked.i + d + 1 = d + 1 /\ p.peeked.i + d < p.peeked.count
    <3> DEFINE c == b.count
               i == p.peeked.i
               l == p.peeked.count
    <3>1. i = 0 /\ l = c + 1 /\ c = d
      BY <2>2, <2>9
    <3> HIDE DEF c, i, l
    <3>2. i + d + 1 = d + 1 /\ i + d < l
      BY <3>1
    <3> QED
      BY <3>2 DEF i, l
  <2> QED
    BY <2>8, <2>9, <2>10
<1> QED
  BY <1>1, <1>2, <1>3


\* Looking ahead as far as the parser does keeps the state sound.
LEMMA LookAheadFact ==
  ASSUME NEW t, t \in Seq(Char), NEW u \in Seq(Nat), NEW type, NEW s, Sound(t, u, s)
  PROVE  Onwards(t, u, s, LookAhead(t, type, s))
<1> DEFINE one == Peek(t, type, s, 0)
           two == Peek(t, type, one, 1)
           three == Peek(t, type, two, 2)
<1>1. Onwards(t, u, s, one)
  <2>1. 0 \in 0..2
    OBVIOUS
  <2> QED
    BY <2>1, PeekFact
<1>2. Onwards(t, u, one, two)
  <2>1. 1 \in 0..2 /\ Sound(t, u, one)
    BY <1>1 DEF Onwards
  <2> HIDE DEF one
  <2> QED
    BY <2>1, PeekFact
<1>3. Onwards(t, u, two, three)
  <2>1. 2 \in 0..2 /\ Sound(t, u, two)
    BY <1>2 DEF Onwards
  <2> HIDE DEF two
  <2> QED
    BY <2>1, PeekFact
<1>4. LookAhead(t, type, s) = one \/ LookAhead(t, type, s) = two \/ LookAhead(t, type, s) = three
  BY DEF LookAhead
<1> HIDE DEF one, two, three
<1>5. Onwards(t, u, s, two) /\ Onwards(t, u, s, three)
  <2>1. s.pop \in Nat /\ one.pop \in Nat /\ two.pop \in Nat /\ three.pop \in Nat
    BY <1>1, <1>2, <1>3 DEF Onwards, Sound
  <2> QED
    BY <1>1, <1>2, <1>3, <2>1 DEF Onwards
<1> QED
  BY <1>1, <1>4, <1>5

\* It leaves the next tokens of the text waiting, as long as no continuation takes one.
LEMMA LookAheadAhead ==
  ASSUME NEW t, t \in Seq(Char), NEW u \in Seq(Nat), NEW n \in Nat \ {0}, NEW type, NEW s,
         Sound(t, u, s), Ahead(t, n, type, s), LookAhead(t, type, s).pop = s.pop
  PROVE  Ahead(t, n, type, LookAhead(t, type, s))
<1> DEFINE one == Peek(t, type, s, 0)
           two == Peek(t, type, one, 1)
           three == Peek(t, type, two, 2)
           q == LookAhead(t, type, s)
<1>1. 0 \in 0..2 /\ 1 \in 0..2 /\ 2 \in 0..2
  OBVIOUS
<1>2. Onwards(t, u, s, one) /\ Peers(t, n, type, s, 0, one)
  <2>1. Bracketed(type, s, 0)
    BY DEF Bracketed
  <2> QED
    BY <1>1, <2>1, PeekFact, PeekAhead
<1>3. Onwards(t, u, one, two)
  <2>1. Sound(t, u, one)
    BY <1>2 DEF Onwards
  <2> HIDE DEF one
  <2> QED
    BY <1>1, <2>1, PeekFact
<1>4. Onwards(t, u, two, three)
  <2>1. Sound(t, u, two)
    BY <1>3 DEF Onwards
  <2> HIDE DEF two
  <2> QED
    BY <1>1, <2>1, PeekFact
<1>5. q = IF type # "Identifier" \/ one.seen # "[" THEN one
          ELSE IF two.seen # "]" THEN two ELSE three
  BY DEF LookAhead
<1>6. Peers(t, n, type, one, 1, two)
      \/ ~(type = "Identifier" /\ one.seen = "[" /\ one.pop = s.pop)
  <2> SUFFICES ASSUME type = "Identifier", one.seen = "[", one.pop = s.pop
               PROVE  Peers(t, n, type, one, 1, two)
    OBVIOUS
  <2> HIDE DEF one, q
  <2>1. /\ Ahead(t, n, type, one) /\ Sound(t, u, one)
        /\ one.peeked.i + 0 < one.peeked.count
        /\ one.seen = one.peeked.tokens[one.peeked.i + 0 + 1].type
    BY <1>2 DEF Onwards, Peers
  <2>2. one.peeked.i = 0
    <3>1. Ahead(t, n, "Identifier", one)
      BY <2>1
    <3> QED
      BY <2>1, <3>1, AtStart
  <2>3. Bracketed(type, one, 1)
    <3>1. one.peeked.count \in 0..3
      BY <2>1 DEF Sound, Buffer
    <3>2. one.peeked.i + 0 + 1 = 1 /\ one.peeked.count >= 1
      BY <2>1, <2>2, <3>1
    <3> QED
      BY <2>1, <2>2, <3>2 DEF Bracketed
  <2> QED
    BY <1>1, <2>1, <2>3, PeekAhead
<1>7. Peers(t, n, type, two, 2, three)
      \/ ~(type = "Identifier" /\ Ahead(t, n, type, two) /\ two.peeked.i + 1 < two.peeked.count
           /\ two.seen = two.peeked.tokens[two.peeked.i + 1 + 1].type /\ two.seen = "]")
  <2> SUFFICES ASSUME type = "Identifier", Ahead(t, n, type, two),
                      two.peeked.i + 1 < two.peeked.count,
                      two.seen = two.peeked.tokens[two.peeked.i + 1 + 1].type, two.seen = "]"
               PROVE  Peers(t, n, type, two, 2, three)
    OBVIOUS
  <2> HIDE DEF two, one, q
  <2>1. Sound(t, u, two)
    BY <1>3 DEF Onwards
  <2>2. two.peeked.i = 0
    <3>1. Ahead(t, n, "Identifier", two)
      OBVIOUS
    <3> QED
      BY <2>1, <3>1, AtStart
  <2>3. Bracketed(type, two, 2)
    <3>1. two.peeked.count \in 0..3
      BY <2>1 DEF Sound, Buffer
    <3>2. two.peeked.i + 1 + 1 = 2 /\ two.peeked.count >= 2
      BY <2>2, <3>1
    <3>3. two.peeked.tokens[1].type = "[" /\ two.peeked.tokens[2].type = "]"
      BY <3>2 DEF Ahead
    <3> QED
      BY <2>2, <3>2, <3>3 DEF Bracketed
  <2> QED
    BY <1>1, <2>1, <2>3, PeekAhead
<1> HIDE DEF one, two, three, q
<1>8. s.pop \in Nat /\ one.pop \in Nat /\ two.pop \in Nat /\ three.pop \in Nat
  BY <1>2, <1>3, <1>4 DEF Onwards, Sound
<1>9. one.pop >= s.pop /\ two.pop >= one.pop /\ three.pop >= two.pop
  BY <1>2, <1>3, <1>4 DEF Onwards
<1>10. q.pop = s.pop
  BY DEF q
<1>11. CASE type # "Identifier" \/ one.seen # "["
  <2>1. q = one
    BY <1>5, <1>11
  <2> QED
    BY <1>2, <1>10, <2>1 DEF Peers, q
<1>12. CASE type = "Identifier" /\ one.seen = "[" /\ two.seen # "]"
  <2>1. q = two
    BY <1>5, <1>12
  <2>2. one.pop = s.pop /\ two.pop = one.pop
    BY <1>8, <1>9, <1>10, <2>1
  <2> QED
    BY <1>6, <1>12, <2>1, <2>2 DEF Peers, q
<1>13. CASE type = "Identifier" /\ one.seen = "[" /\ two.seen = "]"
  <2>1. q = three
    BY <1>5, <1>13
  <2>2. one.pop = s.pop /\ two.pop = one.pop /\ three.pop = two.pop
    BY <1>8, <1>9, <1>10, <2>1
  <2>3. /\ Ahead(t, n, type, two) /\ two.peeked.i + 1 < two.peeked.count
        /\ two.seen = two.peeked.tokens[two.peeked.i + 1 + 1].type
    BY <1>6, <1>13, <2>2 DEF Peers
  <2> QED
    BY <1>7, <1>13, <2>1, <2>2, <2>3 DEF Peers, q
<1> QED
  BY <1>11, <1>12, <1>13


\* A token is taken out of the buffer.
PoppedState(s) == [s EXCEPT !.peeked = Popped(s.peeked, 1)]

\* p is s with the buffer b.
Rebuffered(t, u, s, b, p) ==
  /\ Sound(t, u, p)
  /\ p.at = s.at /\ p.peeked = b /\ p.lines = s.lines /\ p.pop = s.pop /\ p.assert = s.assert

\* It may be any buffer.
LEMMA RebufferedFact ==
  ASSUME NEW t, NEW u, NEW s, Sound(t, u, s), NEW b, Buffer(t, b)
  PROVE  Rebuffered(t, u, s, b, [s EXCEPT !.peeked = b])
<1> DEFINE x1 == s.at
           x2 == s.lines
           x3 == s.error
           x4 == s.pop
           x5 == s.peeked
           x6 == s.seen
           x7 == s.assert
           p == [s EXCEPT !.peeked = b]
           c == [at |-> x1, peeked |-> b, lines |-> x2, error |-> x3,
                 pop |-> x4, assert |-> x7, seen |-> x6]
<1>1. s = [at |-> x1, peeked |-> x5, lines |-> x2, error |-> x3,
           pop |-> x4, assert |-> x7, seen |-> x6]
  BY DEF Sound, IsState
<1>2. /\ Sound(t, u, c) /\ c.at = x1 /\ c.peeked = b /\ c.pop = x4 /\ c.assert = x7
      /\ c.lines = x2
  <2> HIDE DEF x6, x7
  <2> QED
    BY <1>1, SeenFact
<1>3. p = [s EXCEPT !.peeked = b]
  OBVIOUS
<1> HIDE DEF p, x1, x2, x3, x4, x5, x6, x7
<1>4. p = c
  BY <1>1, <1>3
<1> HIDE DEF c
<1>5. Rebuffered(t, u, s, b, p)
  BY <1>2, <1>4 DEF Rebuffered, x1, x2, x4, x7
<1> QED
  BY <1>5 DEF p

\* The token is the n-th, and the state p is ahead of it.
NthToken(t, n, token, p) ==
  token = Alone(t, n).tok /\ Ahead(t, n, token.type, p)

\* The token taken is the next one, and the others still wait.
LEMMA PoppedAhead ==
  ASSUME NEW t, NEW u, NEW n \in Nat \ {0}, NEW type, NEW s, Sound(t, u, s),
         Ahead(t, n, type, s), s.peeked.count # 0
  PROVE  NthToken(t, n + 1, s.peeked.tokens[s.peeked.i + 1], PoppedState(s))
<1> DEFINE b == s.peeked
           e == Popped(b, 1)
           token == b.tokens[b.i + 1]
           type2 == token.type
           p == PoppedState(s)
           k == b.tokens
<1>1. /\ Buffer(t, b) /\ b.i \in Nat /\ b.count \in 0..3 /\ b.i < b.count
      /\ \A j \in 1..3 : GoodToken(t, k[j])
  BY DEF Sound, Buffer
<1>2. /\ \A j \in 1..(b.count - b.i) : k[b.i + j] = Alone(t, n + j).tok
      /\ s.at = Alone(t, n + (b.count - b.i)).at
      /\ b.count >= 2 => k[1].type = "["
      /\ b.count = 3 => k[2].type = "]"
      /\ ~s.assert
  BY DEF Ahead
<1>3. GoodToken(t, token) /\ token = Alone(t, n + 1).tok
  <2>1. b.i + 1 \in 1..3 /\ 1 \in 1..(b.count - b.i)
    BY <1>1
  <2> QED
    BY <1>1, <1>2, <2>1
<1>4. /\ Buffer(t, e) /\ e.tokens = k
      /\ b.i + 1 < b.count => e.i = b.i + 1 /\ e.count = b.count
      /\ b.i + 1 >= b.count => e.i = 0 /\ e.count = 0
  <2>1. 1 \in Nat
    OBVIOUS
  <2> HIDE DEF b
  <2> QED
    BY <1>1, <2>1, PoppedFact DEF k
<1>5. Rebuffered(t, u, s, e, p)
  <2>1. p = [s EXCEPT !.peeked = e]
    BY DEF PoppedState
  <2> HIDE DEF e
  <2> QED
    BY <1>4, <2>1, RebufferedFact
<1> HIDE DEF p, e
<1>6. Sound(t, u, p) /\ p.at = s.at /\ p.peeked = e /\ p.assert = s.assert
  BY <1>5 DEF Rebuffered
<1>7. type2 = Alone(t, n + 1).tok.type
  BY <1>3
<1> DEFINE m == n + 1
<1>8. Ahead(t, m, type2, p)
  <2>1. CASE b.i + 1 < b.count
    <3>1. e.i = b.i + 1 /\ e.count = b.count /\ e.tokens = k
      BY <1>4, <2>1
    <3> HIDE DEF b, k
    <3>2. ASSUME NEW j \in 1..(e.count - e.i) PROVE e.tokens[e.i + j] = Alone(t, m + j).tok
      <4>1. j + 1 \in 1..(b.count - b.i) /\ e.i + j = b.i + (j + 1) /\ n + (j + 1) = m + j
        BY <1>1, <3>1
      <4>2. k[b.i + (j + 1)] = Alone(t, n + (j + 1)).tok
        BY <1>2, <4>1
      <4> QED
        BY <3>1, <4>1, <4>2
    <3>3. m + (e.count - e.i) = n + (b.count - b.i)
      BY <1>1, <3>1
    <3>4. e.i # 0 => type2 = e.tokens[e.i].type
      BY <3>1 DEF k
    <3>5. (e.count >= 2 => e.tokens[1].type = "[") /\ (e.count = 3 => e.tokens[2].type = "]")
      BY <1>2, <3>1
    <3>6. p.at = Alone(t, m + (e.count - e.i)).at /\ ~p.assert
      BY <1>2, <1>6, <3>3
    <3> HIDE DEF type2, m
    <3> QED
      BY <1>6, <1>7, <3>2, <3>4, <3>5, <3>6 DEF Ahead, m
  <2>2. CASE b.i + 1 >= b.count
    <3>1. e.i = 0 /\ e.count = 0
      BY <1>4, <2>2
    <3>2. m + (e.count - e.i) = n + (b.count - b.i)
      BY <1>1, <2>2, <3>1
    <3>3. p.at = Alone(t, m + (e.count - e.i)).at /\ ~p.assert
      BY <1>2, <1>6, <3>2
    <3>4. \A j \in 1..(e.count - e.i) : FALSE
      BY <3>1
    <3> HIDE DEF type2, b
    <3> QED
      BY <1>6, <1>7, <3>1, <3>3, <3>4 DEF Ahead
  <2> QED
    BY <1>1, <2>1, <2>2
<1> QED
  BY <1>3, <1>8 DEF p, NthToken

\* Whatever the continuations did, it is a token of the text.
LEMMA PoppedSound ==
  ASSUME NEW t, NEW u, NEW s, Sound(t, u, s), s.peeked.count # 0
  PROVE  /\ Sound(t, u, PoppedState(s)) /\ GoodToken(t, s.peeked.tokens[s.peeked.i + 1])
         /\ PoppedState(s).pop = s.pop /\ PoppedState(s).lines = s.lines
<1> DEFINE b == s.peeked
           e == Popped(b, 1)
           p == PoppedState(s)
<1>1. /\ Buffer(t, b) /\ b.i \in Nat /\ b.count \in 0..3 /\ b.i < b.count
      /\ \A j \in 1..3 : GoodToken(t, b.tokens[j])
  BY DEF Sound, Buffer
<1>2. Buffer(t, e)
  <2>1. 1 \in Nat
    OBVIOUS
  <2> HIDE DEF b
  <2> QED
    BY <1>1, <2>1, PoppedFact
<1>3. Rebuffered(t, u, s, e, p)
  <2>1. p = [s EXCEPT !.peeked = e]
    BY DEF PoppedState
  <2> HIDE DEF e
  <2> QED
    BY <1>2, <2>1, RebufferedFact
<1> HIDE DEF p, e
<1>4. GoodToken(t, b.tokens[b.i + 1])
  <2>1. b.i + 1 \in 1..3
    BY <1>1
  <2> QED
    BY <1>1, <2>1
<1>5. Sound(t, u, p) /\ p.pop = s.pop /\ p.lines = s.lines
  BY <1>3 DEF Rebuffered
<1> QED
  BY <1>4, <1>5 DEF p

\* The token lexed with none waiting is the next one.
LEMMA LexedAhead ==
  ASSUME NEW t, NEW n \in Nat \ {0}, NEW type, NEW s, Ahead(t, n, type, s),
         s.peeked.i = 0, s.peeked.count = 0,
         NEW p, p.peeked = s.peeked, p.assert = s.assert,
         p.at = RealConsume(t, s.at, type, <<>>).at
  PROVE  LET token == RealConsume(t, s.at, type, <<>>).tok
         IN  token = Alone(t, n + 1).tok /\ Ahead(t, n + 1, token.type, p)
<1> DEFINE m == n + 1
           r == RealConsume(t, s.at, type, <<>>)
           type2 == r.tok.type
<1>1. m \in Nat /\ n + (0 - 0) = n /\ m + (0 - 0) = m
  OBVIOUS
<1>2. type = Alone(t, n).tok.type /\ s.at = Alone(t, n).at /\ ~s.assert
  BY <1>1 DEF Ahead
<1>3. r = Alone(t, m)
  BY <1>2, AloneFact
<1>4. p.peeked.i = 0 /\ p.peeked.count = 0 /\ ~p.assert /\ p.at = r.at
  BY <1>2
<1>5. \A j \in 1..(0 - 0) : FALSE
  OBVIOUS
<1>6. type2 = Alone(t, m).tok.type /\ p.at = Alone(t, m).at
  BY <1>3, <1>4
<1> HIDE DEF m, type2, r
<1>7. Ahead(t, m, type2, p)
  BY <1>1, <1>4, <1>5, <1>6 DEF Ahead
<1> QED
  BY <1>3, <1>7 DEF m, type2, r

-----------------------------------------------------------------------------
(* The history of tokens.                                                  *)

\* A sequence of anything.
Listed(c) == \E S : c \in Seq(S)

\* Another element is appended to it.
LEMMA AppendFact ==
  ASSUME NEW c, Listed(c), NEW x
  PROVE  LET d == Append(c, x)
         IN  /\ Listed(d) /\ Len(c) \in Nat /\ Len(d) = Len(c) + 1 /\ d[Len(c) + 1] = x
             /\ \A k \in 1..Len(c) : d[k] = c[k]
<1>1. PICK S : c \in Seq(S)
  BY DEF Listed
<1> DEFINE T == S \cup {x}
           d == Append(c, x)
<1>2. c \in Seq(T) /\ x \in T
  BY <1>1
<1> HIDE DEF T
<1>3. d \in Seq(T)
  BY <1>2
<1>4. Listed(d)
  <2> HIDE DEF d
  <2> QED
    BY <1>3 DEF Listed
<1> QED
  BY <1>1, <1>4


-----------------------------------------------------------------------------
(* The invariant of the lexer.                                             *)

(* The state a step that goes through s leaves: its offsets are pushed. *)
Settled(s) == [at |-> s.at, peeked |-> s.peeked, lines |-> <<>>, error |-> s.error,
               pop |-> s.pop, assert |-> s.assert, seen |-> "Unknown"]

\* A settled state is sound with the offsets pushed.
LEMMA SettledFact ==
  ASSUME NEW t, NEW u \in Seq(Nat), NEW s, Sound(t, u, s)
  PROVE  u \o s.lines \in Seq(Nat) /\ Sound(t, u \o s.lines, Settled(s))
<1> DEFINE a == Settled(s)
           v == u \o s.lines
           x1 == s.at
           x3 == s.error
           x4 == s.pop
           x5 == s.peeked
           x7 == s.assert
           x8 == "Unknown"
           x9 == <<>>
<1>1. /\ x1 \in 1..(Len(t) + 2) /\ Buffer(t, x5) /\ x4 \in Nat
      /\ v \in Seq(Nat) /\ LinesIn(t, v, 0, x1)
  BY DEF Sound
<1>2. v \o x9 = v /\ x9 \in Seq(Nat)
  <2>1. v \in Seq(Nat)
    BY <1>1
  <2> HIDE DEF v
  <2> QED
    BY <2>1
<1>3. a = [at |-> x1, peeked |-> x5, lines |-> x9, error |-> x3,
           pop |-> x4, assert |-> x7, seen |-> x8]
  BY DEF Settled
<1> HIDE DEF a, v, x1, x3, x4, x5, x7, x8, x9
<1>4. a.at = x1 /\ a.peeked = x5 /\ a.lines = x9 /\ a.error = x3 /\ a.pop = x4
      /\ a.assert = x7 /\ a.seen = x8
  BY <1>3
<1>5. IsState(a)
  BY <1>3, <1>4 DEF IsState
<1>6. Sound(t, v, a)
  BY <1>1, <1>2, <1>4, <1>5 DEF Sound
<1> QED
  BY <1>1, <1>6 DEF a, v

\* What waits is the same in it.
LEMMA SettledAhead ==
  ASSUME NEW t, NEW n, NEW type, NEW s, Ahead(t, n, type, s)
  PROVE  Ahead(t, n, type, Settled(s))
<1> DEFINE a == Settled(s)
<1>1. a.at = s.at /\ a.peeked = s.peeked /\ a.assert = s.assert
  BY DEF Settled
<1> HIDE DEF a
<1>2. Ahead(t, n, type, a)
  BY <1>1 DEF Ahead
<1> QED
  BY <1>2 DEF a

(* The state and the table: sound, and the table holds what was pushed. *)
LexedSoFar ==
  /\ text \in Texts
  /\ pushed \in Seq(Nat)
  /\ PoolHolds(lineOffsets, pushed)
  /\ Sound(text, pushed, State)

(* The tokens so far: each is one of the text. *)
TokensSoFar ==
  /\ Listed(consumed)
  /\ Len(consumed) \in Nat \ {0}
  /\ cur = consumed[Len(consumed)]
  /\ \A k \in 1..Len(consumed) : GoodToken(text, consumed[k])

(* As long as no continuation took a token, they are the first tokens of   *)
(* the text, each of them once.                                            *)
InOrder ==
  popped = 0 => /\ Ahead(text, Len(consumed), cur.type, State)
                /\ \A k \in 1..Len(consumed) : consumed[k] = Alone(text, k).tok

LexInv == LexedSoFar /\ TokensSoFar /\ InOrder

\* The texts are sequences of characters.
LEMMA TextFact == \A t \in Texts : t \in Seq(Char)
  BY TextsAssumption DEF Char

\* The state a step leaves that goes through s.
LEMMA BecomesFact ==
  ASSUME LexedSoFar, NEW s, Sound(text, pushed, s), Becomes(s)
  PROVE  LexedSoFar' /\ State' = Settled(s) /\ text' = text
<1>1. /\ text' = text /\ State' = Settled(s)
      /\ pushed' = pushed \o s.lines /\ lineOffsets' = PushAll(lineOffsets, s.lines)
  BY DEF Becomes, State, Settled
<1>2. pushed' \in Seq(Nat) /\ Sound(text, pushed', State')
  <2>1. pushed \in Seq(Nat)
    BY DEF LexedSoFar
  <2>2. pushed \o s.lines \in Seq(Nat) /\ Sound(text, pushed \o s.lines, Settled(s))
    BY <2>1, SettledFact
  <2> QED
    BY <1>1, <2>2
<1>3. PoolHolds(lineOffsets', pushed')
  <2>1. s.lines \in Seq(Nat)
    BY DEF Sound
  <2>2. PoolHolds(PushAll(lineOffsets, s.lines), pushed \o s.lines)
    BY <2>1, PushAllFact DEF LexedSoFar
  <2> QED
    BY <1>1, <2>2
<1>4. text' \in Texts /\ Sound(text', pushed', State')
  BY <1>1, <1>2 DEF LexedSoFar
<1> QED
  BY <1>1, <1>2, <1>3, <1>4 DEF LexedSoFar

\* The offset 0 is the start of the first line.
LEMMA FirstLine == ASSUME NEW t PROVE LinesIn(t, <<0>>, 0, 1)
<1> DEFINE s == <<0>>
<1>1. s \in Seq(Nat) /\ Len(s) = 1 /\ s[1] = 0
  OBVIOUS
<1> HIDE DEF s
<1>2. \A k \in 1..Len(s) : s[k] = 0
  BY <1>1
<1>3. 0 \in 0..(1 - 1) /\ 0 \in LineStarts(t)
  BY DEF LineStarts
<1>4. LinesIn(t, s, 0, 1)
  BY <1>1, <1>2, <1>3 DEF LinesIn, Rising
<1> QED
  BY <1>4 DEF s

\* An empty buffer is a buffer.
LEMMA NoLookaheadFact ==
  ASSUME NEW t
  PROVE  Buffer(t, NoLookahead) /\ NoLookahead.i = 0 /\ NoLookahead.count = 0
<1> DEFINE b == NoLookahead
           k == <<NoToken, NoToken, NoToken>>
<1>1. GoodToken(t, NoToken)
  BY DEF GoodToken, NoToken, Token
<1>2. k = [j \in 1..3 |-> k[j]] /\ \A j \in 1..3 : k[j] = NoToken
  OBVIOUS
<1>3. b = [tokens |-> k, i |-> 0, count |-> 0]
  BY DEF NoLookahead
<1> HIDE DEF b, k
<1>4. b.tokens = k /\ b.i = 0 /\ b.count = 0
  BY <1>3
<1>5. Buffer(t, b)
  BY <1>1, <1>2, <1>3, <1>4 DEF Buffer
<1> QED
  BY <1>4, <1>5 DEF b

\* It holds of the constructor's state.
LEMMA InitFact == Init => LexInv
<1> SUFFICES ASSUME Init PROVE LexInv
  OBVIOUS
<1> DEFINE t == text
           r == RealConsume(t, 1, "Unknown", <<>>)
           v == <<0>> \o r.lines
<1>1. t \in Texts /\ t \in Seq(Char)
  BY TextFact DEF Init
<1>2. /\ at = r.at /\ cur = r.tok /\ lineOffsets = PushAll(EmptyPool, v) /\ pushed = v
      /\ consumed = <<r.tok>> /\ peeked = NoLookahead /\ asserted = FALSE /\ popped = 0
  BY DEF Init
<1>3. LexedTaking(t, <<>>, 1, 0, r)
  <2>1. Len(<<>>) \in Nat /\ 1 \in 1..(Len(t) + 2)
    BY <1>1
  <2> HIDE DEF t
  <2> QED
    BY <1>1, <2>1, RealConsumeFact
<1> HIDE DEF t, r
<1>4. /\ r.at \in 1..(Len(t) + 2) /\ LinesIn(t, r.lines, 1, r.at) /\ GoodToken(t, r.tok)
      /\ r.lines \in Seq(Nat)
  BY <1>3 DEF LexedTaking, LexedFrom, LinesIn
<1>5. v \in Seq(Nat) /\ LinesIn(t, v, 0, r.at)
  <2>1. 0 \in Nat /\ 1 \in Nat /\ r.at \in Nat /\ 0 <= 1 /\ 1 <= r.at
    BY <1>4
  <2>2. LinesIn(t, <<0>>, 0, 1)
    BY FirstLine
  <2> DEFINE w == <<0>>
  <2> HIDE DEF w
  <2>3. LinesIn(t, w, 0, 1)
    BY <2>2 DEF w
  <2>4. LinesIn(t, w \o r.lines, 0, r.at)
    BY <1>4, <2>1, <2>3, LinesJoin
  <2>5. LinesIn(t, v, 0, r.at)
    BY <2>4 DEF w
  <2> QED
    BY <2>5 DEF LinesIn
<1> HIDE DEF v
<1>6. PoolHolds(lineOffsets, pushed)
  <2>1. <<>> \o v = v
    BY <1>5
  <2>2. PoolHolds(PushAll(EmptyPool, v), <<>> \o v)
    BY <1>5, EmptyPoolFact, PushAllFact
  <2> QED
    BY <1>2, <2>1, <2>2
<1>7. Buffer(t, NoLookahead) /\ NoLookahead.i = 0 /\ NoLookahead.count = 0
  BY NoLookaheadFact
<1> DEFINE a == State
           b == NoLookahead
<1>8. Sound(t, v, a)
  <2> DEFINE x == "Unknown"
             e == <<>>
  <2>1. a = [at |-> at, peeked |-> peeked, lines |-> e, error |-> errors,
             pop |-> popped, assert |-> asserted, seen |-> x]
    BY DEF State
  <2>2. v \o e = v /\ e \in Seq(Nat)
    BY <1>5
  <2> HIDE DEF a, b, x, e
  <2>3. /\ a.at = at /\ a.peeked = peeked /\ a.lines = e /\ a.error = errors
        /\ a.pop = popped /\ a.assert = asserted /\ a.seen = x
    BY <2>1
  <2>4. IsState(a)
    BY <2>1, <2>3 DEF IsState
  <2>5. a.at \in 1..(Len(t) + 2) /\ LinesIn(t, v \o a.lines, 0, a.at)
    BY <1>2, <1>4, <1>5, <2>2, <2>3
  <2>6. Buffer(t, a.peeked) /\ a.lines \in Seq(Nat) /\ a.pop \in Nat
    BY <1>2, <1>7, <2>2, <2>3
  <2> QED
    BY <2>4, <2>5, <2>6 DEF Sound
<1>9. LexedSoFar
  BY <1>1, <1>2, <1>5, <1>6, <1>8 DEF LexedSoFar, t
<1>10. Len(consumed) = 1 /\ consumed[1] = cur /\ Listed(consumed)
  <2> DEFINE x == r.tok
             c == <<x>>
  <2> HIDE DEF x
  <2>1. c \in Seq({x}) /\ Len(c) = 1 /\ c[1] = x
    OBVIOUS
  <2> HIDE DEF c
  <2>2. Listed(c)
    BY <2>1 DEF Listed
  <2>3. consumed = c /\ cur = x
    BY <1>2 DEF c, x
  <2> QED
    BY <2>1, <2>2, <2>3
<1>11. \A k \in 1..Len(consumed) : k = 1
  BY <1>10
<1>12. TokensSoFar
  BY <1>2, <1>4, <1>10, <1>11 DEF TokensSoFar, t
<1>13. r = Alone(t, 1)
  BY AloneFact DEF r
<1>14. Ahead(t, 1, cur.type, State)
  <2>1. State.at = at /\ State.peeked = peeked /\ State.assert = asserted
    BY DEF State
  <2>2. 1 + (0 - 0) = 1 /\ \A j \in 1..(0 - 0) : FALSE
    OBVIOUS
  <2>3. cur.type = Alone(t, 1).tok.type /\ at = Alone(t, 1).at
    BY <1>2, <1>13
  <2> DEFINE type == cur.type
  <2> HIDE DEF a, b, type
  <2>4. Ahead(t, 1, type, State)
    <3>1. type = Alone(t, 1).tok.type
      BY <2>3 DEF type
    <3>2. State.peeked.i = 0 /\ State.peeked.count = 0
      BY <1>2, <1>7, <2>1
    <3>3. State.at = Alone(t, 1).at /\ ~State.assert
      BY <1>2, <2>1, <2>3
    <3> QED
      BY <2>2, <3>1, <3>2, <3>3 DEF Ahead
  <2> QED
    BY <2>4 DEF type
<1>15. InOrder
  BY <1>2, <1>10, <1>11, <1>13, <1>14 DEF InOrder, t
<1> QED
  BY <1>9, <1>12, <1>15 DEF LexInv


\* The token consumed is one of the text.
LEMMA NextToken ==
  ASSUME TokensSoFar, text' = text, consumed' = Append(consumed, cur'), GoodToken(text, cur')
  PROVE  /\ TokensSoFar'
         /\ Len(consumed) \in Nat \ {0} /\ Len(consumed') = Len(consumed) + 1
         /\ consumed'[Len(consumed) + 1] = cur'
         /\ \A k \in 1..Len(consumed) : consumed'[k] = consumed[k]
<1> DEFINE n == Len(consumed)
           c == consumed
           d == consumed'
           x == cur'
<1>1. /\ Listed(c) /\ n \in Nat \ {0} /\ \A k \in 1..n : GoodToken(text, c[k])
  BY DEF TokensSoFar
<1>2. d = Append(c, x)
  OBVIOUS
<1>3. /\ Listed(d) /\ Len(d) = n + 1 /\ d[n + 1] = x
      /\ \A k \in 1..n : d[k] = c[k]
  <2> HIDE DEF x, d
  <2> QED
    BY <1>1, <1>2, AppendFact
<1> HIDE DEF x, d, c, n
<1>4. \A k \in 1..Len(d) : GoodToken(text, d[k])
  <2> SUFFICES ASSUME NEW k \in 1..Len(d) PROVE GoodToken(text, d[k])
    OBVIOUS
  <2>1. CASE k = n + 1
    BY <1>3, <2>1 DEF x
  <2>2. CASE k # n + 1
    <3>1. k \in 1..n
      BY <1>1, <1>3, <2>2
    <3> QED
      BY <1>1, <1>3, <3>1
  <2> QED
    BY <2>1, <2>2
<1>5. Len(d) \in Nat \ {0} /\ x = d[Len(d)]
  BY <1>1, <1>3
<1>6. TokensSoFar'
  BY <1>3, <1>4, <1>5 DEF TokensSoFar, d, x
<1> QED
  BY <1>1, <1>3, <1>6 DEF d, c, n, x

\* It is the next one when all were in order and none was taken.
LEMMA NextInOrder ==
  ASSUME TokensSoFar, text' = text, consumed' = Append(consumed, cur'), GoodToken(text, cur'),
         popped' = 0
         => /\ \A k \in 1..Len(consumed) : consumed[k] = Alone(text, k).tok
            /\ cur' = Alone(text, Len(consumed) + 1).tok
            /\ Ahead(text, Len(consumed) + 1, cur'.type, State')
  PROVE  InOrder'
<1> DEFINE n == Len(consumed)
<1>1. /\ n \in Nat \ {0} /\ Len(consumed') = n + 1 /\ consumed'[n + 1] = cur'
      /\ \A k \in 1..n : consumed'[k] = consumed[k]
  BY NextToken
<1> SUFFICES ASSUME popped' = 0
             PROVE  /\ Ahead(text', Len(consumed'), cur'.type, State')
                    /\ \A k \in 1..Len(consumed') : consumed'[k] = Alone(text', k).tok
  BY DEF InOrder
<1>2. /\ \A k \in 1..n : consumed[k] = Alone(text, k).tok
      /\ cur' = Alone(text, n + 1).tok
      /\ Ahead(text, n + 1, cur'.type, State')
  OBVIOUS
<1>3. Ahead(text', Len(consumed'), cur'.type, State')
  BY <1>1, <1>2
<1>4. ASSUME NEW k \in 1..Len(consumed') PROVE consumed'[k] = Alone(text', k).tok
  <2>1. CASE k = n + 1
    BY <1>1, <1>2, <2>1
  <2>2. CASE k # n + 1
    <3>1. k \in 1..n
      BY <1>1, <2>2
    <3> QED
      BY <1>1, <1>2, <3>1
  <2> QED
    BY <2>1, <2>2
<1> QED
  BY <1>3, <1>4

\* A token that waits is consumed.
LEMMA ConsumeWaiting ==
  ASSUME LexInv, peeked.count # 0, cur' = peeked.tokens[peeked.i + 1],
         Becomes([State EXCEPT !.peeked = Popped(peeked, 1)]), consumed' = Append(consumed, cur')
  PROVE  LexInv'
<1> DEFINE s == State
           p == PoppedState(s)
           n == Len(consumed)
<1>1. LexedSoFar /\ TokensSoFar /\ InOrder /\ Sound(text, pushed, s) /\ n \in Nat \ {0}
  BY DEF LexInv, LexedSoFar, TokensSoFar
<1>2. s.peeked = peeked /\ s.pop = popped /\ p = [s EXCEPT !.peeked = Popped(peeked, 1)]
  BY DEF State, PoppedState
<1> HIDE DEF s
<1>3. Sound(text, pushed, p) /\ GoodToken(text, cur') /\ p.pop = s.pop
  BY <1>1, <1>2, PoppedSound
<1>4. Becomes(p)
  BY <1>2 DEF s
<1> HIDE DEF p
<1>5. LexedSoFar' /\ State' = Settled(p) /\ text' = text
  BY <1>1, <1>3, <1>4, BecomesFact
<1>6. popped' = popped
  BY <1>2, <1>3, <1>4 DEF Becomes
<1>7. ASSUME popped' = 0
      PROVE  /\ \A k \in 1..n : consumed[k] = Alone(text, k).tok
             /\ cur' = Alone(text, n + 1).tok
             /\ Ahead(text, n + 1, cur'.type, State')
  <2>1. Ahead(text, n, cur.type, s) /\ \A k \in 1..n : consumed[k] = Alone(text, k).tok
    BY <1>1, <1>6, <1>7 DEF InOrder, s
  <2> DEFINE token == s.peeked.tokens[s.peeked.i + 1]
             type == cur.type
  <2>2. token = cur'
    BY <1>2
  <2>3. token = Alone(text, n + 1).tok /\ Ahead(text, n + 1, token.type, p)
    <3>1. Ahead(text, n, type, s) /\ s.peeked.count # 0
      BY <1>2, <2>1
    <3> HIDE DEF n, type
    <3>2. NthToken(text, n + 1, token, p)
      BY <1>1, <3>1, PoppedAhead DEF p
    <3> QED
      BY <3>2 DEF NthToken
  <2>4. Ahead(text, n + 1, token.type, Settled(p))
    BY <2>3, SettledAhead
  <2> HIDE DEF token
  <2> QED
    BY <1>5, <2>1, <2>2, <2>3, <2>4
<1>8. InOrder'
  BY <1>1, <1>3, <1>5, <1>7, NextInOrder
<1>9. TokensSoFar'
  BY <1>1, <1>3, <1>5, NextToken
<1> QED
  BY <1>5, <1>8, <1>9 DEF LexInv

\* With none waiting the next token is lexed.
LEMMA ConsumeLexed ==
  ASSUME LexInv, peeked.count = 0, NEW r, r = RealConsume(text, at, cur.type, <<>>),
         cur' = r.tok, Becomes(Relexed(State, r)), consumed' = Append(consumed, cur')
  PROVE  LexInv'
<1> DEFINE s == State
           p == Relexed(s, r)
           n == Len(consumed)
           w == <<>>
<1>1. LexedSoFar /\ TokensSoFar /\ InOrder /\ Sound(text, pushed, s) /\ n \in Nat \ {0}
      /\ text \in Seq(Char) /\ pushed \in Seq(Nat)
  BY TextFact DEF LexInv, LexedSoFar, TokensSoFar
<1>2. s.peeked = peeked /\ s.pop = popped /\ s.at = at
  BY DEF State
<1> HIDE DEF s
<1>3. Len(w) \in Nat /\ s.at \in 1..(Len(text) + 2) /\ Buffer(text, s.peeked) /\ Len(w) = 0
  BY <1>1 DEF Sound
<1>4. LexedTaking(text, w, s.at, 0, r)
  <2>1. r = RealConsume(text, s.at, cur.type, w)
    BY <1>2
  <2> HIDE DEF w
  <2> QED
    BY <1>1, <1>3, <2>1, RealConsumeFact
<1>5. r.pop = 0 /\ GoodToken(text, r.tok)
  <2> HIDE DEF w
  <2> QED
    BY <1>3, <1>4 DEF LexedTaking, LexedFrom
<1>6. Along(text, pushed, s, r, p)
  <2> HIDE DEF w
  <2> QED
    BY <1>1, <1>3, <1>4, RelexedFact
<1> HIDE DEF p
<1>7. /\ Sound(text, pushed, p) /\ p.at = r.at /\ p.peeked = s.peeked /\ p.assert = s.assert
      /\ p.pop = s.pop
  <2>1. s.pop \in Nat
    BY <1>1 DEF Sound
  <2> QED
    BY <1>5, <1>6, <2>1 DEF Along
<1>8. Becomes(p)
  BY DEF p, s
<1>9. LexedSoFar' /\ State' = Settled(p) /\ text' = text
  BY <1>1, <1>7, <1>8, BecomesFact
<1>10. popped' = popped /\ GoodToken(text, cur')
  BY <1>2, <1>5, <1>7, <1>8 DEF Becomes
<1>11. ASSUME popped' = 0
       PROVE  /\ \A k \in 1..n : consumed[k] = Alone(text, k).tok
              /\ cur' = Alone(text, n + 1).tok
              /\ Ahead(text, n + 1, cur'.type, State')
  <2>1. Ahead(text, n, cur.type, s) /\ \A k \in 1..n : consumed[k] = Alone(text, k).tok
    BY <1>1, <1>10, <1>11 DEF InOrder, s
  <2> DEFINE type == cur.type
             q == RealConsume(text, s.at, type, <<>>)
             token == q.tok
  <2>2. r = q
    BY <1>2
  <2>3. token = cur'
    BY <2>2
  <2>4. s.peeked.i = 0 /\ s.peeked.count = 0
    BY <1>2, <1>3 DEF Buffer
  <2>5. Ahead(text, n, type, s)
    BY <2>1
  <2>6. p.at = q.at
    BY <1>7, <2>2
  <2>7. token = Alone(text, n + 1).tok /\ Ahead(text, n + 1, token.type, p)
    <3> HIDE DEF n, type, w
    <3> QED
      BY <1>1, <1>7, <2>4, <2>5, <2>6, LexedAhead
  <2>8. Ahead(text, n + 1, token.type, Settled(p))
    BY <2>7, SettledAhead
  <2> HIDE DEF token, q
  <2> QED
    BY <1>9, <2>1, <2>3, <2>7, <2>8
<1>12. InOrder'
  BY <1>1, <1>9, <1>10, <1>11, NextInOrder
<1>13. TokensSoFar'
  BY <1>1, <1>9, <1>10, NextToken
<1> QED
  BY <1>9, <1>12, <1>13 DEF LexInv

\* The parser looks ahead.
LEMMA PeekStep ==
  ASSUME LexInv, NEW s, s = LookAhead(text, cur.type, State), Becomes(s),
         UNCHANGED <<cur, consumed>>
  PROVE  LexInv'
<1> DEFINE a == State
           n == Len(consumed)
           type == cur.type
<1>1. LexedSoFar /\ TokensSoFar /\ InOrder /\ Sound(text, pushed, a) /\ n \in Nat \ {0}
      /\ text \in Seq(Char) /\ pushed \in Seq(Nat)
  BY TextFact DEF LexInv, LexedSoFar, TokensSoFar
<1>2. a.pop = popped /\ s = LookAhead(text, type, a)
  BY DEF State
<1> HIDE DEF a, type
<1>3. Sound(text, pushed, s) /\ s.pop >= a.pop
  <2>1. Onwards(text, pushed, a, s)
    BY <1>1, <1>2, LookAheadFact
  <2> QED
    BY <2>1 DEF Onwards
<1>4. LexedSoFar' /\ State' = Settled(s) /\ text' = text
  BY <1>1, <1>3, BecomesFact
<1>5. popped' = s.pop
  BY DEF Becomes
<1>6. TokensSoFar'
  <2>1. consumed' = consumed /\ cur' = cur
    OBVIOUS
  <2> QED
    BY <1>1, <1>4, <2>1 DEF TokensSoFar
<1>7. InOrder'
  <2> SUFFICES ASSUME popped' = 0
               PROVE  /\ Ahead(text', Len(consumed'), cur'.type, State')
                      /\ \A k \in 1..Len(consumed') : consumed'[k] = Alone(text', k).tok
    BY DEF InOrder
  <2>1. popped = 0 /\ s.pop = a.pop
    <3>1. a.pop \in Nat /\ s.pop \in Nat
      BY <1>1, <1>3 DEF Sound
    <3> QED
      BY <1>2, <1>3, <1>5, <3>1
  <2>2. Ahead(text, n, type, a) /\ \A k \in 1..n : consumed[k] = Alone(text, k).tok
    BY <1>1, <2>1 DEF InOrder, a, type
  <2>3. Ahead(text, n, type, s)
    <3> HIDE DEF n
    <3> QED
      BY <1>1, <1>2, <2>1, <2>2, LookAheadAhead
  <2>4. Ahead(text, n, type, Settled(s))
    BY <2>3, SettledAhead
  <2> QED
    BY <1>4, <2>2, <2>4 DEF type
<1> QED
  BY <1>4, <1>6, <1>7 DEF LexInv

\* A report reads the table.
LEMMA ReportStep ==
  ASSUME LexInv, FormatLocation
  PROVE  LexInv'
<1>1. /\ lineOffsets' = Flatten(lineOffsets)
      /\ UNCHANGED <<text, at, cur, peeked, errors, asserted, consumed, pushed, popped>>
  BY DEF FormatLocation
<1>2. State' = State
  BY <1>1 DEF State
<1>3. PoolHolds(Flatten(lineOffsets), pushed)
  BY FlattenFact DEF LexInv, LexedSoFar
<1>4. LexedSoFar'
  BY <1>1, <1>2, <1>3 DEF LexInv, LexedSoFar
<1>5. TokensSoFar' /\ InOrder'
  BY <1>1, <1>2 DEF LexInv, TokensSoFar, InOrder
<1> QED
  BY <1>4, <1>5 DEF LexInv

\* Every step keeps it.
LEMMA NextFact == LexInv /\ [Next]_vars => LexInv'
<1> SUFFICES ASSUME LexInv, [Next]_vars PROVE LexInv'
  OBVIOUS
<1>1. CASE Consume
  <2>1. CASE /\ peeked.count # 0 /\ cur' = peeked.tokens[peeked.i + 1]
             /\ Becomes([State EXCEPT !.peeked = Popped(peeked, 1)])
             /\ consumed' = Append(consumed, cur')
    BY <2>1, ConsumeWaiting
  <2>2. ASSUME NEW r, r = RealConsume(text, at, cur.type, <<>>), peeked.count = 0,
               cur' = r.tok, Becomes(Relexed(State, r)), consumed' = Append(consumed, cur')
        PROVE  LexInv'
    BY <2>2, ConsumeLexed
  <2> QED
    BY <1>1, <2>1, <2>2 DEF Consume
<1>2. CASE PeekTokenType
  <2>1. PICK s : s = LookAhead(text, cur.type, State) /\ Becomes(s) /\ UNCHANGED <<cur, consumed>>
    BY <1>2 DEF PeekTokenType
  <2> QED
    BY <2>1, PeekStep
<1>3. CASE FormatLocation
  BY <1>3, ReportStep
<1>4. CASE UNCHANGED vars
  <2>1. UNCHANGED <<text, at, cur, peeked, lineOffsets, errors, asserted, consumed, pushed, popped>>
    BY <1>4 DEF vars
  <2>2. State' = State
    BY <2>1 DEF State
  <2> QED
    BY <2>1, <2>2 DEF LexInv, LexedSoFar, TokensSoFar, InOrder
<1> QED
  BY <1>1, <1>2, <1>3, <1>4 DEF Next

\* The invariant of the lexer, for every set of texts and every pool.
THEOREM LexerInvariant == Spec => []LexInv
<1>1. Init => LexInv
  BY InitFact
<1>2. LexInv /\ [Next]_vars => LexInv'
  BY NextFact
<1> QED
  BY <1>1, <1>2, PTL DEF Spec

\* However the parser looks ahead (peekTokenType, PapyrusLexer.cpp) and whatever is
\* reported meanwhile, the tokens are those of the text lexed without any lookahead, once
\* each and in order, no assertion of the buffer fails, and the line offsets pushed
\* rise, for every set of texts: the exception is a continuation that took a token.
THEOREM LookaheadIsInvisible == Spec => []LookaheadInvisible
<1>1. LexInv => LookaheadInvisible
  <2> SUFFICES ASSUME LexInv PROVE LookaheadInvisible
    OBVIOUS
  <2>1. popped = 0 => ~asserted /\ \A k \in DOMAIN consumed : consumed[k] = Alone(text, k).tok
    <3>1. State.assert = asserted
      BY DEF State
    <3>2. DOMAIN consumed = 1..Len(consumed)
      BY DEF LexInv, TokensSoFar, Listed
    <3> QED
      BY <3>1, <3>2 DEF LexInv, InOrder, Ahead
  <2>2. \A i \in 1..(Len(pushed) - 1) : pushed[i] < pushed[i + 1]
    <3> DEFINE w == <<>>
               v == pushed \o w
    <3>1. LinesIn(text, v, 0, State.at) /\ pushed \in Seq(Nat)
      BY DEF LexInv, LexedSoFar, Sound, State
    <3>2. v = pushed
      BY <3>1
    <3> HIDE DEF v
    <3>3. Rising(pushed)
      BY <3>1, <3>2 DEF LinesIn
    <3> SUFFICES ASSUME NEW i \in 1..(Len(pushed) - 1) PROVE pushed[i] < pushed[i + 1]
      OBVIOUS
    <3>4. i \in 1..Len(pushed) /\ i + 1 \in 1..Len(pushed) /\ i < i + 1
      BY <3>1
    <3> QED
      BY <3>3, <3>4 DEF Rising
  <2> QED
    BY <2>1, <2>2 DEF LookaheadInvisible
<1> QED
  BY <1>1, LexerInvariant, PTL


-----------------------------------------------------------------------------
(* The lines that are found.                                               *)

\* The offsets of a rising sequence below one are as many as the members of a set
\* below it, when all of them are members, and all such members are among them.
LEMMA CountBelow ==
  ASSUME NEW u \in Seq(Nat), Rising(u), NEW S \in SUBSET Nat, NEW o \in Nat,
         \A i \in 1..Len(u) : u[i] \in S,
         \A x \in S : x <= o => \E i \in 1..Len(u) : u[i] = x
  PROVE  LET A == {i \in 1..Len(u) : u[i] < o}
             B == {x \in S : x < o}
         IN  IsFiniteSet(B) /\ Cardinality(A) = Cardinality(B)
<1> DEFINE n == Len(u)
           A == {i \in 1..n : u[i] < o}
           B == {x \in S : x < o}
           f == [i \in A |-> u[i]]
<1>1. n \in Nat /\ \A i \in 1..n : u[i] \in Nat
  OBVIOUS
<1>2. IsFiniteSet(A)
  <2>1. 1 \in Int /\ n \in Int
    BY <1>1
  <2>2. IsFiniteSet(1..n)
    BY <2>1, FS_Interval
  <2>3. A \in SUBSET (1..n)
    OBVIOUS
  <2> HIDE DEF A
  <2> QED
    BY <2>2, <2>3, FS_Subset
<1>3. B \in SUBSET Nat /\ \A x \in B : \E i \in A : u[i] = x
  <2> SUFFICES ASSUME NEW x \in B PROVE x \in Nat /\ \E i \in A : u[i] = x
    OBVIOUS
  <2>1. x \in S /\ x < o
    OBVIOUS
  <2>2. PICK i \in 1..n : u[i] = x
    <3>1. x \in Nat /\ x <= o
      BY <2>1
    <3> QED
      BY <2>1, <3>1
  <2> QED
    BY <1>1, <2>1, <2>2
<1>4. \A i \in A : f[i] = u[i] /\ u[i] \in B
  OBVIOUS
<1>5. \A i, j \in A : f[i] = f[j] => i = j
  <2> SUFFICES ASSUME NEW i \in A, NEW j \in A, u[i] = u[j] PROVE i = j
    BY <1>4
  <2>1. i \in 1..n /\ j \in 1..n /\ u[i] \in Nat /\ u[j] \in Nat
    BY <1>1
  <2>2. (i < j => u[i] < u[j]) /\ (j < i => u[j] < u[i])
    BY <2>1 DEF Rising
  <2> QED
    BY <1>1, <2>1, <2>2
<1>6. f \in [A -> B]
  BY <1>4
<1> HIDE DEF A, B, f
<1>7. ExistsBijection(A, B)
  <2>1. \A x \in B : \E i \in A : f[i] = x
    BY <1>3, <1>4
  <2>2. f \in Bijection(A, B)
    BY <1>5, <1>6, <2>1 DEF Bijection, Injection, Surjection, IsInjective
  <2> QED
    BY <2>2 DEF ExistsBijection
<1>8. IsFiniteSet(B) /\ Cardinality(B) = Cardinality(A)
  BY <1>2, <1>7, FS_Bijection
<1> QED
  BY <1>8 DEF A, B

\* The lines of a report are found, for every set of texts and every size of the
\* pool's heaps: getLocationLine (FileOffsetPool.h) returns the line a token stands
\* in, or the one above for a token in the first column, as long as the lexer has seen
\* every line end before the token.
THEOREM LinesAreFound == Spec => []LineFound
<1>1. LexInv => LineFound
  <2> SUFFICES ASSUME LexInv, NEW k \in DOMAIN consumed,
                      \A start \in LineStarts(text) :
                        start <= consumed[k].from => start \in ToSet(pushed)
               PROVE  LocationLine(consumed[k].from) =
                        IF consumed[k].from \in LineStarts(text)
                        THEN TrueLine(text, consumed[k].from) - 1
                        ELSE TrueLine(text, consumed[k].from)
    BY DEF LineFound
  <2> DEFINE o == consumed[k].from
             S == LineStarts(text)
             A == {i \in 1..Len(pushed) : pushed[i] < o}
             B == {x \in S : x < o}
             C == {i \in S : i <= o}
  <2>1. o \in Nat
    <3>1. DOMAIN consumed = 1..Len(consumed)
      BY DEF LexInv, TokensSoFar, Listed
    <3> QED
      BY <3>1 DEF LexInv, TokensSoFar, GoodToken
  <2>2. text \in Seq(Char) /\ pushed \in Seq(Nat)
    BY TextFact DEF LexInv, LexedSoFar
  <2>3. S \in SUBSET Nat
    BY <2>2 DEF LineStarts
  <2>4. Rising(pushed) /\ \A i \in 1..Len(pushed) : pushed[i] \in S
    <3> DEFINE w == <<>>
               v == pushed \o w
    <3>1. LinesIn(text, v, 0, State.at)
      BY DEF LexInv, LexedSoFar, Sound, State
    <3>2. v = pushed
      BY <2>2
    <3> HIDE DEF v
    <3> QED
      BY <3>1, <3>2 DEF LinesIn
  <2>5. \A x \in S : x <= o => \E i \in 1..Len(pushed) : pushed[i] = x
    BY <2>2 DEF ToSet
  <2>6. LocationLine(o) = Cardinality(A)
    <3>1. Flatten(lineOffsets).flat = pushed
      BY FlattenFact DEF LexInv, LexedSoFar
    <3>2. DOMAIN pushed = 1..Len(pushed)
      BY <2>2
    <3> HIDE DEF o
    <3> QED
      BY <3>1, <3>2 DEF LocationLine, LowerBound
  <2>7. TrueLine(text, o) = Cardinality(C)
    BY DEF TrueLine
  <2> HIDE DEF o, S
  <2>8. IsFiniteSet(B) /\ Cardinality(A) = Cardinality(B)
    BY <2>1, <2>2, <2>3, <2>4, <2>5, CountBelow
  <2>9. Cardinality(B) \in Nat
    BY <2>8, FS_CardinalityType
  <2> DEFINE Orders == \A x \in S : (x <= o <=> (x < o \/ x = o)) /\ ~(o < o)
  <2>10. Orders
    <3> SUFFICES ASSUME NEW x \in S PROVE (x <= o <=> (x < o \/ x = o)) /\ ~(o < o)
      OBVIOUS
    <3>1. x \in Nat
      BY <2>3
    <3> QED
      BY <2>1, <3>1
  <2>11. CASE o \in S
    <3>1. C = B \cup {o} /\ o \notin B
      BY <2>11, <2>10, Zenon
    <3> HIDE DEF A, B, C
    <3>2. Cardinality(C) = Cardinality(B) + 1
      BY <2>8, <3>1, FS_AddElement
    <3>3. LocationLine(o) = TrueLine(text, o) - 1
      BY <2>6, <2>7, <2>8, <2>9, <3>2
    <3> QED
      BY <2>11, <3>3 DEF o, S
  <2>12. CASE o \notin S
    <3>1. C = B
      <4>1. \A x \in S : x # o
        BY <2>12
      <4> QED
        BY <2>10, <4>1
    <3> HIDE DEF A, B, C
    <3>2. LocationLine(o) = TrueLine(text, o)
      BY <2>6, <2>7, <2>8, <3>1
    <3> QED
      BY <2>12, <3>2 DEF o, S
  <2> QED
    BY <2>11, <2>12
<1> QED
  BY <1>1, LexerInvariant, PTL


-----------------------------------------------------------------------------
(* The text of a documentation comment.                                    *)

(* One index of UnixText, k the indices of the CR LFs. *)
UnixAt(t, first, k, g, i) ==
  IF i < first THEN <<>> ELSE IF i \in k THEN g[i - 1] ELSE Append(g[i - 1], t[i])

Unixes(t, first, k, g, last) == \A i \in 0..last : g[i] = UnixAt(t, first, k, g, i)

\* UnixText is well defined.
LEMMA UnixDef ==
  ASSUME NEW t, NEW first \in Nat \ {0}, NEW last \in Nat
  PROVE  \E g : /\ Unixes(t, first, CRLFs(t, first, last), g, last)
                /\ UnixText(t, first, last) = g[last]
<1> DEFINE k == CRLFs(t, first, last)
           P(g, m) == g = [i \in 0..m |-> UnixAt(t, first, k, g, i)]
           T == {m \in Nat : \E g : P(g, m)}
           c == CHOOSE g : P(g, last)
<1>1. 0 \in T
  <2> DEFINE g == [i \in 0..0 |-> <<>>]
  <2>1. \A i \in 0..0 : UnixAt(t, first, k, g, i) = <<>>
    BY DEF UnixAt
  <2>2. P(g, 0)
    <3> HIDE DEF k
    <3> QED
      BY <2>1
  <2> HIDE DEF P, g
  <2> QED
    BY <2>2
<1>2. ASSUME NEW m \in Nat, m \in T PROVE m + 1 \in T
  <2>1. PICK g : P(g, m)
    BY <1>2
  <2> HIDE DEF k
  <2> DEFINE h == [i \in 0..(m + 1) |-> IF i <= m THEN g[i] ELSE UnixAt(t, first, k, g, i)]
  <2>2. ASSUME NEW i \in 0..(m + 1) PROVE h[i] = UnixAt(t, first, k, h, i)
    <3>1. h[i] = UnixAt(t, first, k, g, i)
      <4>1. i <= m => g[i] = UnixAt(t, first, k, g, i)
        <5>1. i <= m => i \in 0..m
          OBVIOUS
        <5> HIDE DEF h
        <5> QED
          BY <2>1, <5>1
      <4> QED
        BY <4>1
    <3>2. UnixAt(t, first, k, g, i) = UnixAt(t, first, k, h, i)
      <4>1. i >= first => h[i - 1] = g[i - 1]
        OBVIOUS
      <4> HIDE DEF h
      <4> QED
        BY <4>1 DEF UnixAt
    <3> QED
      BY <3>1, <3>2
  <2>3. h = [i \in 0..(m + 1) |-> h[i]]
    OBVIOUS
  <2> HIDE DEF h
  <2>4. P(h, m + 1)
    BY <2>2, <2>3
  <2> HIDE DEF P
  <2> QED
    BY <2>4
<1> HIDE DEF T
<1>3. last \in T
  BY <1>1, <1>2, Induction
<1>4. \E g : P(g, last)
  BY <1>3 DEF T
<1>5. P(c, last)
  <2> HIDE DEF P
  <2> QED
    BY <1>4, Zenon
<1>6. UnixText(t, first, last) = c[last]
  BY DEF UnixText, UnixAt
<1> HIDE DEF c, k
<1>7. \A i \in 0..last : c[i] = UnixAt(t, first, k, c, i)
  BY <1>5
<1> QED
  BY <1>6, <1>7 DEF Unixes, k

UnixSteps(t, first, k, g, last) ==
  /\ g[first - 1] = <<>>
  /\ \A i \in first..last : g[i] = IF i \in k THEN g[i - 1] ELSE Append(g[i - 1], t[i])

\* Its steps.
LEMMA UnixStepsFact ==
  ASSUME NEW t, NEW first \in Nat \ {0}, NEW last \in Nat, NEW k, NEW g,
         Unixes(t, first, k, g, last), first - 1 <= last
  PROVE  UnixSteps(t, first, k, g, last)
<1>1. g[first - 1] = <<>>
  <2>1. first - 1 \in 0..last /\ first - 1 < first
    OBVIOUS
  <2> QED
    BY <2>1 DEF Unixes, UnixAt
<1>2. ASSUME NEW i \in first..last
      PROVE  g[i] = IF i \in k THEN g[i - 1] ELSE Append(g[i - 1], t[i])
  <2>1. i \in 0..last /\ ~(i < first)
    OBVIOUS
  <2> QED
    BY <2>1 DEF Unixes, UnixAt
<1> QED
  BY <1>1, <1>2 DEF UnixSteps

\* Without a CR LF it is the text.
LEMMA UnixNone ==
  ASSUME NEW t \in Seq(Char), NEW first \in Nat \ {0}, NEW last \in 0..Len(t),
         first <= last, CRLFs(t, first, last) = {}
  PROVE  UnixText(t, first, last) = SubSeq(t, first, last)
<1> DEFINE n == last - first + 1
<1>1. PICK g : Unixes(t, first, {}, g, last) /\ UnixText(t, first, last) = g[last]
  <2>1. PICK g : /\ Unixes(t, first, CRLFs(t, first, last), g, last)
                 /\ UnixText(t, first, last) = g[last]
    <3>1. last \in Nat
      OBVIOUS
    <3> QED
      BY <3>1, UnixDef
  <2> QED
    BY <2>1
<1>2. /\ g[first - 1] = <<>>
      /\ \A i \in first..last : g[i] = Append(g[i - 1], t[i])
  <2> DEFINE k == {}
  <2>1. Unixes(t, first, k, g, last) /\ last \in Nat /\ first - 1 <= last
    BY <1>1
  <2>2. \A i \in first..last : i \notin k
    OBVIOUS
  <2> HIDE DEF k
  <2>3. /\ g[first - 1] = <<>>
        /\ \A i \in first..last : g[i] = IF i \in k THEN g[i - 1] ELSE Append(g[i - 1], t[i])
    BY <2>1, UnixStepsFact DEF UnixSteps
  <2> QED
    BY <2>2, <2>3
<1> DEFINE S == {j \in Nat : j <= n => g[first - 1 + j] = SubSeq(t, first, first - 1 + j)}
<1>3. 0 \in S
  <2>1. SubSeq(t, first, first - 1) = <<>> /\ first - 1 + 0 = first - 1
    OBVIOUS
  <2> QED
    BY <1>2, <2>1
<1>4. ASSUME NEW j \in Nat, j \in S PROVE j + 1 \in S
  <2> SUFFICES ASSUME j + 1 <= n
               PROVE  g[first - 1 + (j + 1)] = SubSeq(t, first, first - 1 + (j + 1))
    OBVIOUS
  <2> DEFINE i == first + j
  <2>1. /\ g[first - 1 + j] = SubSeq(t, first, first - 1 + j) /\ i \in first..last
        /\ i \in 1..Len(t) /\ first - 1 + j = i - 1 /\ first - 1 + (j + 1) = i
    BY <1>4
  <2> HIDE DEF i
  <2>2. g[i] = Append(SubSeq(t, first, i - 1), t[i])
    BY <1>2, <2>1
  <2>3. Append(SubSeq(t, first, i - 1), t[i]) = SubSeq(t, first, i)
    BY <2>1
  <2> QED
    BY <2>1, <2>2, <2>3
<1> HIDE DEF S
<1>5. n \in S /\ first - 1 + n = last
  <2>1. n \in Nat
    OBVIOUS
  <2> HIDE DEF n
  <2>2. n \in S
    BY <1>3, <1>4, <2>1, Induction
  <2> QED
    BY <2>2 DEF n
<1>6. n <= n
  OBVIOUS
<1> QED
  BY <1>1, <1>5, <1>6 DEF S

\* It is shorter than the text by the number of CR LFs.
LEMMA UnixLength ==
  ASSUME NEW t \in Seq(Char), NEW first \in Nat \ {0}, NEW last \in 0..Len(t), first <= last
  PROVE  /\ UnixText(t, first, last) \in Seq(Char)
         /\ Cardinality(CRLFs(t, first, last)) \in Nat
         /\ Len(UnixText(t, first, last))
              = (last - first + 1) - Cardinality(CRLFs(t, first, last))
<1> DEFINE n == last - first + 1
           k == CRLFs(t, first, last)
           Below(i) == {j \in k : j <= i}
<1>1. PICK g : Unixes(t, first, k, g, last) /\ UnixText(t, first, last) = g[last]
  BY UnixDef
<1>2. \A i \in k : i \in Nat /\ first <= i /\ i <= last
  BY DEF CRLFs
<1> HIDE DEF k
<1>3. /\ g[first - 1] = <<>>
      /\ \A i \in first..last : g[i] = IF i \in k THEN g[i - 1] ELSE Append(g[i - 1], t[i])
  <2>1. last \in Nat /\ first - 1 <= last
    OBVIOUS
  <2>2. UnixSteps(t, first, k, g, last)
    BY <1>1, <2>1, UnixStepsFact
  <2> QED
    BY <2>2 DEF UnixSteps
<1>4. IsFiniteSet(first..last)
  <2>1. first \in Int /\ last \in Int
    OBVIOUS
  <2> QED
    BY <2>1, FS_Interval
<1>5. \A i : IsFiniteSet(Below(i))
  <2> SUFFICES ASSUME NEW i PROVE IsFiniteSet(Below(i))
    OBVIOUS
  <2>1. Below(i) \in SUBSET (first..last)
    <3>1. \A j \in k : j \in first..last
      BY <1>2
    <3> QED
      BY <3>1
  <2> HIDE DEF Below
  <2> QED
    BY <1>4, <2>1, FS_Subset
<1>6. \A i : Cardinality(Below(i)) \in Nat
  <2> HIDE DEF Below
  <2> QED
    BY <1>5, FS_CardinalityType
<1> DEFINE S == {j \in Nat : j <= n =>
                   /\ g[first - 1 + j] \in Seq(Char)
                   /\ Len(g[first - 1 + j]) = j - Cardinality(Below(first - 1 + j))}
<1>7. 0 \in S
  <2>1. first - 1 + 0 = first - 1 /\ <<>> \in Seq(Char) /\ Len(<<>>) = 0
    OBVIOUS
  <2>2. Below(first - 1) = {}
    <3>1. \A j \in k : ~(j <= first - 1)
      BY <1>2
    <3> QED
      BY <3>1
  <2> HIDE DEF Below
  <2>3. Cardinality(Below(first - 1)) = 0
    BY <2>2, FS_EmptySet
  <2> DEFINE z == first - 1 + 0
             y == first - 1
  <2>4. z = y /\ g[y] = <<>> /\ Cardinality(Below(y)) = 0
    BY <1>3, <2>1, <2>3
  <2> HIDE DEF z, y
  <2>5. g[z] \in Seq(Char) /\ Len(g[z]) = 0 - Cardinality(Below(z))
    BY <2>1, <2>4
  <2> QED
    BY <2>5 DEF z
<1>8. ASSUME NEW j \in Nat, j \in S PROVE j + 1 \in S
  <2> SUFFICES ASSUME j + 1 <= n
               PROVE  /\ g[first - 1 + (j + 1)] \in Seq(Char)
                      /\ Len(g[first - 1 + (j + 1)])
                           = (j + 1) - Cardinality(Below(first - 1 + (j + 1)))
    OBVIOUS
  <2> DEFINE i == first + j
             a == g[i - 1]
             c == Below(i - 1)
  <2>1. /\ i \in first..last /\ i \in 1..Len(t) /\ i \in Nat
        /\ first - 1 + j = i - 1 /\ first - 1 + (j + 1) = i
    OBVIOUS
  <2>2. a \in Seq(Char) /\ Len(a) = j - Cardinality(c)
    <3>1. /\ g[first - 1 + j] \in Seq(Char)
          /\ Len(g[first - 1 + j]) = j - Cardinality(Below(first - 1 + j))
      BY <1>8
    <3> HIDE DEF i, Below
    <3> QED
      BY <2>1, <3>1
  <2>3. CASE i \in k
    <3>1. Below(i) = c \cup {i} /\ i \notin c
      <4>1. \A x \in k : x <= i <=> (x <= i - 1 \/ x = i)
        BY <1>2, <2>1
      <4>2. ~(i <= i - 1)
        BY <2>1
      <4> HIDE DEF i
      <4> QED
        BY <2>3, <4>1, <4>2
    <3> HIDE DEF i, Below, c, a
    <3>2. Cardinality(Below(i)) = Cardinality(c) + 1
      BY <1>5, <3>1, FS_AddElement DEF c
    <3>3. g[i] = a
      BY <1>3, <2>1, <2>3 DEF a
    <3>4. Cardinality(c) \in Nat
      BY <1>6 DEF c
    <3> QED
      BY <2>1, <2>2, <3>2, <3>3, <3>4
  <2>4. CASE i \notin k
    <3>1. Below(i) = c
      <4>1. \A x \in k : x <= i <=> (x <= i - 1 \/ x = i)
        BY <1>2, <2>1
      <4> HIDE DEF i
      <4> QED
        BY <2>4, <4>1
    <3> HIDE DEF i, Below, c, a
    <3>2. g[i] = Append(a, t[i]) /\ t[i] \in Char
      <4>1. g[i] = Append(g[i - 1], t[i])
        BY <1>3, <2>1, <2>4
      <4>2. t[i] \in Char
        BY <2>1
      <4> QED
        BY <4>1, <4>2 DEF a
    <3>3. g[i] \in Seq(Char) /\ Len(g[i]) = Len(a) + 1
      BY <2>2, <3>2
    <3>4. Cardinality(c) \in Nat
      BY <1>6 DEF c
    <3>5. Len(g[i]) = (j + 1) - Cardinality(c)
      BY <2>2, <3>3, <3>4
    <3> QED
      BY <2>1, <3>1, <3>3, <3>5
  <2> QED
    BY <2>3, <2>4
<1> HIDE DEF S
<1>9. n \in S /\ first - 1 + n = last
  <2>1. n \in Nat
    OBVIOUS
  <2> HIDE DEF n
  <2>2. n \in S
    BY <1>7, <1>8, <2>1, Induction
  <2> QED
    BY <2>2 DEF n
<1>10. Below(last) = k
  <2>1. \A j \in k : j <= last
    BY <1>2
  <2> QED
    BY <2>1
<1>11. n <= n
  OBVIOUS
<1> HIDE DEF Below
<1>12. g[last] \in Seq(Char) /\ Len(g[last]) = n - Cardinality(k) /\ Cardinality(k) \in Nat
  BY <1>6, <1>9, <1>10, <1>11 DEF S
<1> QED
  BY <1>1, <1>12 DEF k

\* It is the same wherever the text stands.
LEMMA UnixShift ==
  ASSUME NEW t \in Seq(Char), NEW first \in Nat \ {0}, NEW last \in 0..Len(t), first <= last
  PROVE  LET x == SubSeq(t, first, last)
         IN  UnixText(x, 1, Len(x)) = UnixText(t, first, last)
<1> DEFINE x == SubSeq(t, first, last)
           n == Len(x)
           k == CRLFs(t, first, last)
           l == CRLFs(x, 1, n)
<1>1. n = last - first + 1 /\ n \in Nat \ {0} /\ \A j \in 1..n : x[j] = t[first - 1 + j]
  OBVIOUS
<1> HIDE DEF x, n
<1>2. \A j \in 1..n : j \in l <=> first - 1 + j \in k
  <2> SUFFICES ASSUME NEW j \in 1..n PROVE j \in l <=> first - 1 + j \in k
    OBVIOUS
  <2>1. x[j] = t[first - 1 + j]
    BY <1>1
  <2>2. j + 1 <= n => x[j + 1] = t[first - 1 + j + 1]
    <3>1. ASSUME j + 1 <= n PROVE x[j + 1] = t[first - 1 + j + 1]
      <4>1. j + 1 \in 1..n /\ first - 1 + (j + 1) = first - 1 + j + 1
        BY <1>1, <3>1
      <4> QED
        BY <1>1, <4>1
    <3> QED
      BY <3>1
  <2>3. (j \in 1..(n - 1) <=> j + 1 <= n) /\ (first - 1 + j \in first..(last - 1) <=> j + 1 <= n)
    BY <1>1
  <2> QED
    BY <2>1, <2>2, <2>3 DEF CRLFs
<1>3. PICK g : Unixes(t, first, k, g, last) /\ UnixText(t, first, last) = g[last]
  BY UnixDef
<1>4. PICK h : Unixes(x, 1, l, h, n) /\ UnixText(x, 1, n) = h[n]
  <2>1. 1 \in Nat \ {0} /\ n \in Nat
    BY <1>1
  <2> QED
    BY <2>1, UnixDef
<1> HIDE DEF k, l
<1>5. /\ g[first - 1] = <<>>
      /\ \A i \in first..last : g[i] = IF i \in k THEN g[i - 1] ELSE Append(g[i - 1], t[i])
  <2>1. last \in Nat /\ first - 1 <= last
    OBVIOUS
  <2>2. UnixSteps(t, first, k, g, last)
    BY <1>3, <2>1, UnixStepsFact
  <2> QED
    BY <2>2 DEF UnixSteps
<1>6. /\ h[0] = <<>>
      /\ \A i \in 1..n : h[i] = IF i \in l THEN h[i - 1] ELSE Append(h[i - 1], x[i])
  <2> DEFINE one == 1
  <2>1. one \in Nat \ {0} /\ n \in Nat /\ one - 1 <= n /\ one - 1 = 0
    BY <1>1
  <2>2. Unixes(x, one, l, h, n)
    BY <1>4
  <2> HIDE DEF one
  <2>3. /\ h[one - 1] = <<>>
        /\ \A i \in one..n : h[i] = IF i \in l THEN h[i - 1] ELSE Append(h[i - 1], x[i])
    <3>1. UnixSteps(x, one, l, h, n)
      BY <2>1, <2>2, UnixStepsFact
    <3> QED
      BY <3>1 DEF UnixSteps
  <2> QED
    BY <2>1, <2>3 DEF one
<1> DEFINE S == {j \in Nat : j <= n => h[j] = g[first - 1 + j]}
<1>7. 0 \in S
  <2>1. first - 1 + 0 = first - 1
    OBVIOUS
  <2> QED
    BY <1>5, <1>6, <2>1
<1>8. ASSUME NEW j \in Nat, j \in S PROVE j + 1 \in S
  <2> SUFFICES ASSUME j + 1 <= n PROVE h[j + 1] = g[first - 1 + (j + 1)]
    OBVIOUS
  <2> DEFINE i == first - 1 + (j + 1)
             m == j + 1
  <2>1. /\ i \in first..last /\ m \in 1..n /\ i - 1 = first - 1 + j /\ m - 1 = j
        /\ h[j] = g[first - 1 + j]
    BY <1>1, <1>8
  <2>2. (m \in l <=> i \in k) /\ x[m] = t[i]
    BY <1>1, <1>2, <2>1
  <2> HIDE DEF i, m, S
  <2>3. h[m - 1] = g[i - 1]
    BY <2>1
  <2>4. h[m] = g[i]
    BY <1>5, <1>6, <2>1, <2>2, <2>3
  <2> QED
    BY <2>4 DEF i, m
<1> HIDE DEF S
<1>9. n \in S
  <2>1. n \in Nat
    BY <1>1
  <2> QED
    BY <1>7, <1>8, <2>1, Induction
<1>10. first - 1 + n = last /\ n <= n
  BY <1>1
<1>11. h[n] = g[last]
  BY <1>9, <1>10 DEF S
<1> QED
  BY <1>3, <1>4, <1>11 DEF x, n


\* The text ends at its last character that is no white space.
LEMMA LastOfFact ==
  ASSUME NEW t, NEW first \in Nat, NEW last \in Nat,
         \E i \in first..last : t[i] \notin IsSpace
  PROVE  /\ LastOf(t, first, last) \in first..last
         /\ t[LastOf(t, first, last)] \notin IsSpace
         /\ \A j \in (LastOf(t, first, last) + 1)..last : t[j] \in IsSpace
<1> DEFINE T == {m \in Nat : last - m >= first /\ t[last - m] \notin IsSpace}
           P(i) == t[i] \notin IsSpace /\ \A j \in (i + 1)..last : t[j] \in IsSpace
           c == LastOf(t, first, last)
<1>1. PICK m \in T : \A n \in T : m <= n
  <2>1. PICK i \in first..last : t[i] \notin IsSpace
    OBVIOUS
  <2>2. last - i \in T
    <3>1. last - (last - i) = i
      OBVIOUS
    <3> QED
      BY <2>1, <3>1
  <2>3. T \in SUBSET Nat /\ T # {}
    BY <2>2
  <2> HIDE DEF T
  <2> QED
    BY <2>3, Least
<1>2. last - m \in first..last /\ P(last - m)
  <2>1. last - m \in first..last /\ t[last - m] \notin IsSpace
    BY <1>1
  <2>2. ASSUME NEW j \in (last - m + 1)..last, t[j] \notin IsSpace PROVE FALSE
    <3>1. last - j \in Nat /\ last - (last - j) = j /\ last - j < m /\ j >= first
      BY <2>1
    <3>2. last - j \in T
      BY <2>2, <3>1
    <3> QED
      BY <1>1, <3>1, <3>2
  <2> QED
    BY <2>1, <2>2
<1>3. c = CHOOSE i \in first..last : P(i)
  BY DEF LastOf
<1> HIDE DEF P, c
<1>4. c \in first..last /\ P(c)
  BY <1>2, <1>3, Zenon
<1> QED
  BY <1>4 DEF P, c

\* There is only one such character.
LEMMA LastOfOnly ==
  ASSUME NEW t, NEW first \in Nat, NEW last \in Nat, NEW i \in first..last, t[i] \notin IsSpace,
         \A j \in (i + 1)..last : t[j] \in IsSpace
  PROVE  LastOf(t, first, last) = i
<1> DEFINE c == LastOf(t, first, last)
<1>1. /\ c \in first..last /\ t[c] \notin IsSpace
      /\ \A j \in (c + 1)..last : t[j] \in IsSpace
  BY LastOfFact
<1> HIDE DEF c
<1>2. ~(c < i) /\ ~(i < c)
  <2>1. c < i => i \in (c + 1)..last
    BY <1>1
  <2>2. i < c => c \in (i + 1)..last
    BY <1>1
  <2> QED
    BY <1>1, <2>1, <2>2
<1>3. c = i
  BY <1>1, <1>2
<1> QED
  BY <1>3 DEF c

\* The value is c trimmed and with unix line ends.
KeptOf(value, c) == value = UnixText(Trimmed(c), 1, Len(Trimmed(c)))

\* What getLexicalDocComment keeps of the text from first to last, which follows the
\* white space behind index i, is that text trimmed and with unix line ends.
LEMMA DocTextFact ==
  ASSUME NEW t \in Seq(Char), NEW i \in 1..Len(t), NEW first \in (i + 1)..(Len(t) + 1),
         NEW last \in i..Len(t), first <= last + 1,
         \A j \in (i + 1)..(first - 1) : t[j] \in IsSpace, Ch(t, first) \notin IsSpace,
         NEW c, c = SubSeq(t, i + 1, last), CRLFs(c, LastOf(c, 1, Len(c)), Len(c)) = {}
  PROVE  KeptOf(DocText(t, first, last), c)
<1> DEFINE m == Len(c)
<1>1. /\ c \in Seq(Char) /\ m = last - i /\ m \in Nat /\ \A j \in 1..m : c[j] = t[i + j]
      /\ DOMAIN c = 1..m
  OBVIOUS
<1>2. first <= last => t[first] \notin IsSpace
  <2>1. first <= last => Ch(t, first) = t[first]
    <3>1. first \in Nat \ {0} /\ (first <= last => first <= Len(t))
      OBVIOUS
    <3> QED
      BY <3>1, ChFact
  <2> QED
    BY <2>1
<1> HIDE DEF m
<1>3. CASE \A j \in 1..m : c[j] \in IsSpace
  <2>1. first = last + 1
    <3> SUFFICES ASSUME first <= last PROVE FALSE
      OBVIOUS
    <3>1. first - i \in 1..m /\ i + (first - i) = first
      BY <1>1
    <3> QED
      BY <1>1, <1>2, <1>3, <3>1
  <2>2. CRLFs(t, first, last) = {}
    BY <2>1 DEF CRLFs
  <2>3. LastOf(t, first, last) = last
    <3>1. \A j \in first..last : FALSE
      BY <2>1
    <3> QED
      BY <3>1 DEF LastOf
  <2>4. CharsRequired(t, first, last) = 0
    <3>1. Cardinality(CRLFs(t, first, last)) = 0
      BY <2>2, FS_EmptySet
    <3> QED
      BY <2>1, <2>3, <3>1 DEF CharsRequired
  <2>5. SubSeq(t, first, last) = <<>>
    BY <2>1
  <2>6. DocText(t, first, last) = <<>>
    <3>1. ~(0 < 0) /\ 0 = last - first + 1
      BY <2>1
    <3> QED
      BY <2>3, <2>4, <2>5, <3>1 DEF DocText
  <2> DEFINE e == <<>>
  <2>7. Trimmed(c) = e
    BY <1>1, <1>3 DEF Trimmed
  <2>8. UnixText(e, 1, 0) = e
    <3> DEFINE one == 1
               k == CRLFs(e, one, 0)
    <3>1. one \in Nat \ {0} /\ 0 \in Nat /\ one - 1 <= 0 /\ one - 1 = 0
      OBVIOUS
    <3> HIDE DEF one
    <3>2. PICK g : Unixes(e, one, k, g, 0) /\ UnixText(e, one, 0) = g[0]
      <4> HIDE DEF e
      <4> QED
        BY <3>1, UnixDef
    <3> HIDE DEF k
    <3>3. UnixSteps(e, one, k, g, 0)
      <4> HIDE DEF e
      <4> QED
        BY <3>1, <3>2, UnixStepsFact
    <3> QED
      BY <3>1, <3>2, <3>3 DEF UnixSteps, one
  <2>9. Len(e) = 0
    OBVIOUS
  <2> HIDE DEF e
  <2>10. DocText(t, first, last) = e
    BY <2>6 DEF e
  <2> QED
    BY <2>7, <2>8, <2>9, <2>10 DEF KeptOf
<1>4. CASE ~\A j \in 1..m : c[j] \in IsSpace
  <2> DEFINE L == LastOf(c, 1, m)
             a == Skip(c, 1, IsSpace)
             b == i + L
  <2>1. /\ L \in 1..m /\ c[L] \notin IsSpace
        /\ \A j \in (L + 1)..m : c[j] \in IsSpace
    <3>1. \E j \in 1..m : c[j] \notin IsSpace
      BY <1>4
    <3>2. 1 \in Nat /\ m \in Nat
      BY <1>1
    <3> QED
      BY <3>1, <3>2, LastOfFact
  <2>2. /\ a \in 1..(m + 1) /\ Ch(c, a) \notin IsSpace
        /\ \A j \in 1..(a - 1) : c[j] \in IsSpace
    <3>1. 1 \in 1..(Len(c) + 1) /\ EOF \notin IsSpace
      <4>1. 1 \in 1..(Len(c) + 1)
        BY <1>1 DEF m
      <4>2. EOF \notin IsSpace
        BY DEF EOF, IsSpace, Blanks, CR, LF
      <4> QED
        BY <4>1, <4>2
    <3> QED
      BY <1>1, <3>1, SkipFact DEF m
  <2> HIDE DEF L, a
  <2>3. a <= L /\ c[a] \notin IsSpace
    <3>1. a <= L
      <4>1. L < a => L \in 1..(a - 1)
        BY <1>1, <2>1, <2>2
      <4> QED
        BY <1>1, <2>1, <2>2, <4>1
    <3>2. Ch(c, a) = c[a]
      <4>1. a \in Nat \ {0} /\ a <= Len(c)
        BY <1>1, <2>1, <2>2, <3>1 DEF m
      <4> QED
        BY <1>1, <4>1, ChFact
    <3> QED
      BY <2>2, <3>1, <3>2
  <2>4. first = i + a
    <3>1. ~(first < i + a)
      <4> SUFFICES ASSUME first < i + a PROVE FALSE
        OBVIOUS
      <4>1. /\ first - i \in 1..(a - 1) /\ first - i \in 1..m /\ i + (first - i) = first
            /\ first <= last
        BY <1>1, <2>1, <2>2, <2>3
      <4> QED
        BY <1>1, <1>2, <2>2, <4>1
    <3>2. ~(i + a < first)
      <4> SUFFICES ASSUME i + a < first PROVE FALSE
        OBVIOUS
      <4>1. i + a \in (i + 1)..(first - 1) /\ a \in 1..m
        BY <1>1, <2>1, <2>2, <2>3
      <4> QED
        BY <1>1, <2>3, <4>1
    <3> QED
      BY <2>2, <3>1, <3>2
  <2>5. b \in first..last /\ first \in Nat \ {0} /\ b \in 0..Len(t) /\ first <= b
    BY <1>1, <2>1, <2>2, <2>3, <2>4
  <2>6. LastOf(t, first, last) = b
    <3>1. t[b] \notin IsSpace
      BY <1>1, <2>1
    <3>2. ASSUME NEW j \in (b + 1)..last PROVE t[j] \in IsSpace
      <4>1. j - i \in (L + 1)..m /\ j - i \in 1..m /\ i + (j - i) = j
        BY <1>1, <2>1
      <4> QED
        BY <1>1, <2>1, <4>1
    <3>3. first \in Nat /\ last \in Nat
      OBVIOUS
    <3> HIDE DEF b
    <3> QED
      BY <2>5, <3>1, <3>2, <3>3, LastOfOnly
  <2> DEFINE x == SubSeq(t, first, b)
             k == CRLFs(t, first, b)
             n == b - first + 1
  <2>7. Trimmed(c) = x
    <3>1. Trimmed(c) = SubSeq(c, a, L)
      BY <1>1, <1>4 DEF Trimmed, m, L, a
    <3>2. SubSeq(c, a, L) = x
      <4> DEFINE y == SubSeq(c, a, L)
      <4>1. /\ y \in Seq(Char) /\ Len(y) = L - a + 1
            /\ \A j \in 1..(L - a + 1) : y[j] = c[a - 1 + j]
        BY <1>1, <2>1, <2>2, <2>3 DEF m
      <4>2. /\ x \in Seq(Char) /\ Len(x) = n
            /\ \A j \in 1..n : x[j] = t[first - 1 + j]
        BY <2>5
      <4>3. n = L - a + 1
        BY <2>1, <2>2, <2>4
      <4> HIDE DEF x, y, n
      <4>4. \A j \in 1..n : x[j] = y[j]
        <5> SUFFICES ASSUME NEW j \in 1..n PROVE x[j] = y[j]
          OBVIOUS
        <5>1. a - 1 + j \in 1..m /\ i + (a - 1 + j) = first - 1 + j
          BY <1>1, <2>1, <2>2, <2>3, <2>4, <4>3
        <5>2. y[j] = c[a - 1 + j]
          BY <4>1, <4>3
        <5>3. x[j] = t[first - 1 + j]
          BY <4>2
        <5>4. c[a - 1 + j] = t[i + (a - 1 + j)]
          BY <1>1, <5>1
        <5> QED
          BY <5>1, <5>2, <5>3, <5>4
      <4>5. x = y
        BY <4>1, <4>2, <4>3, <4>4
      <4> QED
        BY <4>5 DEF y
    <3> QED
      BY <3>1, <3>2
  <2>8. CRLFs(t, first, last) = k
    <3>1. ASSUME NEW j \in b..(last - 1) PROVE ~(t[j] = CR /\ t[j + 1] = LF)
      <4> SUFFICES ASSUME t[j] = CR, t[j + 1] = LF PROVE FALSE
        OBVIOUS
      <4>1. /\ j - i \in L..(m - 1) /\ j - i \in 1..m /\ j - i + 1 \in 1..m
            /\ i + (j - i) = j /\ i + (j - i + 1) = j + 1
        BY <1>1, <2>1
      <4>2. c[j - i] = CR /\ c[j - i + 1] = LF
        BY <1>1, <4>1
      <4>3. j - i \in CRLFs(c, L, m)
        BY <4>1, <4>2 DEF CRLFs
      <4> QED
        BY <4>3 DEF L, m
    <3>2. \A j \in first..(last - 1) : j \in first..(b - 1) \/ j \in b..(last - 1)
      BY <2>5
    <3>3. \A j \in first..(b - 1) : j \in first..(last - 1)
      BY <2>5
    <3> HIDE DEF b
    <3> QED
      BY <3>1, <3>2, <3>3 DEF CRLFs
  <2> HIDE DEF x, k, b, n
  <2>9. /\ UnixText(t, first, b) \in Seq(Char) /\ Cardinality(k) \in Nat
        /\ Len(UnixText(t, first, b)) = n - Cardinality(k)
    BY <2>5, UnixLength DEF k, n
  <2>10. CharsRequired(t, first, last) = n - Cardinality(k)
    BY <2>5, <2>6, <2>8, <2>9 DEF CharsRequired, n
  <2>11. DocText(t, first, last) = UnixText(t, first, b)
    <3>1. Len(UnixText(t, first, b)) >= 0
      BY <2>9
    <3> DEFINE y == UnixText(t, first, b)
               q == Cardinality(k)
    <3>2. ~(n - q < 0) /\ y \in Seq(Char) /\ Len(y) = n - q /\ q \in Nat /\ n \in Nat
      BY <2>5, <2>9, <3>1 DEF n
    <3>3. CASE q = 0
      <4>1. IsFiniteSet(k)
        <5>1. IsFiniteSet(first..b)
          <6>1. first \in Int /\ b \in Int
            BY <2>5
          <6> QED
            BY <6>1, FS_Interval
        <5>2. k \in SUBSET (first..b)
          BY <2>5 DEF k, CRLFs
        <5> QED
          BY <5>1, <5>2, FS_Subset
      <4>2. k = {}
        BY <3>3, <4>1, FS_EmptySet
      <4>3. y = SubSeq(t, first, b)
        BY <2>5, <4>2, UnixNone DEF k
      <4> HIDE DEF y, q
      <4>4. n - q = n
        BY <3>2, <3>3
      <4> QED
        BY <2>6, <2>10, <3>2, <4>3, <4>4 DEF DocText, n, y, q
    <3>4. CASE q # 0
      <4>1. SubSeq(y, 1, n - q) = y
        <5> HIDE DEF y, q
        <5> QED
          BY <3>2
      <4>2. n - q # n
        BY <3>2, <3>4
      <4> HIDE DEF q
      <4>3. DocText(t, first, last) = SubSeq(y, 1, n - q)
        BY <2>6, <2>10, <3>2, <4>2 DEF DocText, n, q
      <4> QED
        BY <4>1, <4>3
    <3> QED
      BY <3>3, <3>4
  <2>12. UnixText(x, 1, Len(x)) = UnixText(t, first, b)
    BY <2>5, UnixShift DEF x
  <2> QED
    BY <2>7, <2>11, <2>12 DEF KeptOf
<1> QED
  BY <1>3, <1>4


\* It keeps the whole comment when only white space other than CR LF follows the text.
LEMMA DocAtFact ==
  ASSUME NEW t \in Seq(Char), NEW i \in 1..Len(t), t[i] = LeftBrace,
         NEW token, token = DocAt(t, i), NEW upto,
         upto = IF Ch(t, token.to) = RightBrace THEN token.to - 1 ELSE token.to,
         NEW c, c = SubSeq(t, token.from + 2, upto), CRLFs(c, LastOf(c, 1, Len(c)), Len(c)) = {}
  PROVE  KeptOf(token.value, c)
<1> DEFINE first == DocFirst(t, i)
           last == DocLast(t, i)
           next == IF Ch(t, last + 1) = RightBrace THEN last + 2 ELSE last + 1
           r == Found("DocComment", DocText(t, first, last), i, next)
           s == DocComment(t, i, first, last)
<1>1. /\ first \in (i + 1)..(Len(t) + 1) /\ Ch(t, first) \notin IsSpace
      /\ \A j \in (i + 1)..(first - 1) : t[j] \in IsSpace
  <2>1. i + 1 \in 1..(Len(t) + 1)
    OBVIOUS
  <2>2. EOF \notin IsSpace
    BY DEF EOF, IsSpace, Blanks, CR, LF
  <2> QED
    BY <2>1, <2>2, SkipFact DEF DocFirst
<1>2. /\ last \in i..Len(t) /\ first <= last + 1
      /\ Ch(t, last + 1) \in {RightBrace} \cup {EOF}
      /\ \A j \in first..last : t[j] \notin {RightBrace}
  <2> DEFINE u == Until(t, first, {RightBrace})
  <2>1. /\ u \in first..(Len(t) + 1) /\ Ch(t, u) \in {RightBrace} \cup {EOF}
        /\ \A j \in first..(u - 1) : t[j] \notin {RightBrace}
    <3>1. first \in 1..(Len(t) + 1)
      BY <1>1
    <3> QED
      BY <3>1, UntilFact
  <2>2. last = u - 1
    BY DEF DocLast
  <2> HIDE DEF u, first, last
  <2>3. last + 1 = u
    BY <1>1, <2>1, <2>2
  <2> QED
    BY <1>1, <2>1, <2>2, <2>3
<1>3. s = WithLines(r, DocLines(t, first, last), Ch(t, last + 1) # RightBrace)
  BY DEF DocComment
<1>4. /\ token.value = DocText(t, first, last) /\ token.from = i - 1 /\ token.to = next - 1
  <2>1. token = s.tok
    BY DEF DocAt
  <2>2. /\ r.tok.value = DocText(t, first, last) /\ r.tok.from = i - 1 /\ r.tok.to = next - 1
        /\ IsLexed(r)
    BY DEF Found, Lexed, Token, IsLexed
  <2> HIDE DEF r, s, next, first, last
  <2>3. s.tok = r.tok
    BY <1>3, <2>2 DEF WithLines, IsLexed
  <2> QED
    BY <2>1, <2>2, <2>3
<1> HIDE DEF first, last, r, s
<1>5. LeftBrace # RightBrace /\ RightBrace # EOF /\ RightBrace \notin IsSpace
  BY Zenon DEF LeftBrace, RightBrace, EOF, IsSpace, Blanks, CR, LF
<1>6. upto = last
  <2>1. CASE Ch(t, last + 1) = RightBrace
    <3>1. token.to = last + 1
      BY <1>2, <1>4, <2>1
    <3>2. upto = token.to - 1
      BY <2>1, <3>1
    <3> QED
      BY <1>2, <3>1, <3>2
  <2>2. CASE Ch(t, last + 1) # RightBrace
    <3>1. token.to = last
      BY <1>2, <1>4, <2>2
    <3>2. Ch(t, last) # RightBrace
      <4>1. t[last] # RightBrace
        <5>1. CASE last = i
          BY <1>5, <5>1
        <5>2. CASE last # i /\ last < first
          <6>1. last \in (i + 1)..(first - 1)
            BY <1>1, <1>2, <5>2
          <6> QED
            BY <1>1, <1>5, <6>1
        <5>3. CASE last >= first
          <6>1. last \in first..last
            BY <1>1, <1>2, <5>3
          <6> QED
            BY <1>2, <6>1
        <5> QED
          BY <1>1, <1>2, <5>1, <5>2, <5>3
      <4>2. Ch(t, last) = t[last]
        <5>1. last \in Nat \ {0} /\ last <= Len(t)
          BY <1>2
        <5> QED
          BY <5>1, ChFact
      <4> QED
        BY <4>1, <4>2
    <3> QED
      BY <3>1, <3>2
  <2> QED
    BY <2>1, <2>2
<1>7. c = SubSeq(t, i + 1, last)
  <2>1. token.from + 2 = i + 1
    BY <1>4
  <2> QED
    BY <1>6, <2>1
<1>8. KeptOf(DocText(t, first, last), c)
  BY <1>1, <1>2, <1>7, DocTextFact
<1> QED
  BY <1>4, <1>8

\* A documentation comment that is consumed (getLexicalDocComment, PapyrusLexer.cpp) is
\* the text between the braces without white space at its ends, with unix line ends
\* and no character lost, for every set of texts, if no CR LF follows the text.
THEOREM DocTextIsKept == Spec => []DocTextKept
<1>1. LexInv => DocTextKept
  <2> SUFFICES ASSUME LexInv, NEW k \in DOMAIN consumed, consumed[k].type = "DocComment",
                      CRLFs(Content(consumed[k]),
                            LastOf(Content(consumed[k]), 1, Len(Content(consumed[k]))),
                            Len(Content(consumed[k]))) = {}
               PROVE  consumed[k].value
                        = UnixText(Trimmed(Content(consumed[k])), 1,
                                   Len(Trimmed(Content(consumed[k]))))
    BY DEF DocTextKept
  <2> DEFINE token == consumed[k]
             c == Content(token)
             upto == IF Ch(text, token.to) = RightBrace THEN token.to - 1 ELSE token.to
  <2>1. text \in Seq(Char) /\ GoodToken(text, token)
    <3>1. DOMAIN consumed = 1..Len(consumed)
      BY DEF LexInv, TokensSoFar, Listed
    <3> QED
      BY <3>1, TextFact DEF LexInv, LexedSoFar, TokensSoFar
  <2>2. token.type = "DocComment"
    OBVIOUS
  <2>3. CRLFs(c, LastOf(c, 1, Len(c)), Len(c)) = {}
    OBVIOUS
  <2>4. c = SubSeq(text, token.from + 2, upto)
    BY DEF Content
  <2> HIDE DEF token, c
  <2>5. PICK i \in 1..Len(text) : text[i] = LeftBrace /\ token = DocAt(text, i)
    BY <2>1, <2>2 DEF GoodToken
  <2>6. upto = IF Ch(text, token.to) = RightBrace THEN token.to - 1 ELSE token.to
    OBVIOUS
  <2> HIDE DEF upto
  <2>7. KeptOf(token.value, c)
    BY <2>1, <2>3, <2>4, <2>5, <2>6, DocAtFact
  <2> QED
    BY <2>7 DEF token, c, KeptOf
<1> QED
  BY <1>1, LexerInvariant, PTL

=============================================================================
