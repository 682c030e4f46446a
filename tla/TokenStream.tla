---------------------------- MODULE TokenStream ----------------------------
(***************************************************************************)
(* What the two recursive descent parsers have in common: the tokens that  *)
(* are left, and whether a fatal error, which is an exception, has ended   *)
(* the parsing.  val is the value of the step just made.                   *)
(***************************************************************************)
EXTENDS Integers, Sequences, SequencesExt

Token(t, v) == [t |-> t, v |-> v]
END         == Token("END", "")

cur(s)    == IF s.rest = <<>> THEN END ELSE Head(s.rest)
Fatal(s)  == [s EXCEPT !.fatal = TRUE]
Val(s, v) == [s EXCEPT !.val = v]
Err(s)    == [s EXCEPT !.errors = TRUE]

consume(s) == IF s.fatal THEN s
              ELSE [s EXCEPT !.val = cur(s).v,
                             !.rest = IF s.rest = <<>> THEN <<>> ELSE Tail(@)]

RECURSIVE Concatenated(_)
\* FlattenSeq, by halves: a text has hundreds of words
Concatenated(seqs) ==
  LET half == Len(seqs) \div 2 IN
  IF half = 0 THEN FlattenSeq(seqs)
  ELSE Concatenated(SubSeq(seqs, 1, half)) \o Concatenated(SubSeq(seqs, half + 1, Len(seqs)))

\* What Op makes of the elements of s, one after the other; with \o, TLC
\* computes the elements once.
Each(s, Op(_)) == Concatenated([i \in DOMAIN s |-> Op(s[i])] \o <<>>)

\* mutant of expectConsume: what is there is not compared
ConsumeAny(s, t) == consume(s)

\* The end of the file stands for the end of a line.
expectConsume(s, t) ==
  IF cur(s).t = t \/ (t = "EOL" /\ cur(s).t = "END") THEN consume(s)
  ELSE Fatal(s)
=============================================================================
