---------------------------- MODULE PapyrusLexer ----------------------------
(***************************************************************************)
(* The Papyrus lexer (PapyrusLexer.cpp) with its lookahead, and the table  *)
(* of line offsets it leaves for reports and debug information.            *)
(* A text is a sequence of characters.  Characters the lexer treats alike  *)
(* are represented by one of them.  A keyword is an identifier here: which *)
(* of the two a word is makes no difference to what is lexed after it.     *)
(***************************************************************************)
EXTENDS Integers, Sequences, FiniteSets, SequencesExt, FileOffsetPool

CONSTANTS
  Texts,              \* the texts that are lexed
  MaxIntegerDigits    \* longer numbers are floats

EOF == "eof"

(* The end of the file is no character. *)
ASSUME TextsAssumption == \A t \in Texts : t \in Seq(STRING \ {EOF})

VARIABLES
  text,         \* what is lexed
  at,           \* strmI + 1: index of the next character
  cur,          \* the current token
  peeked,       \* peekedTokens, peekedTokenI and peekedTokenCount
  lineOffsets,  \* FileOffsetPool of the reporting context
  errors,       \* whether the lexer reported an error
  asserted,     \* whether an assertion of peekTokenType failed
  consumed,     \* history: the tokens that were current
  pushed,       \* history: the offsets pushed
  popped        \* history: how many peeked tokens line continuations took

vars == <<text, at, cur, peeked, lineOffsets, errors, asserted, consumed, pushed, popped>>

LF == "\n"
CR == "\r"
Quote == "\""
Backslash == "\\"
Semicolon == ";"
LeftBrace == "{"
RightBrace == "}"

Digits == {"0", "1", "9"}
Letters == {"a", "n", "x", "e"}
HexDigits == {"0", "1", "9", "a", "e"}
IdentifierChars == Letters \cup Digits \cup {"_", ":"}
Blanks == {" ", "\t"}
IsSpace == Blanks \cup {LF, CR}
Brackets == {"(", ")", "[", "]", ".", ","}
Operators == {"=", "!", "+", "-", "*", "/", "%", "<", ">"}
BooleanOperators == {"|", "&"}

(* peekChar() at index i *)
Ch(t, i) == IF i \in DOMAIN t THEN t[i] ELSE EOF

(* The index after getChar(), and after two of them; both stay at the end  *)
(* of the text.                                                            *)
OneOn(t, i) == IF i <= Len(t) THEN i + 1 ELSE Len(t) + 1
TwoOn(t, i) == IF i < Len(t) THEN i + 2 ELSE Len(t) + 1

(* Where a loop that skips the characters in chars stops. *)
Skip(t, i, chars) ==
  CHOOSE j \in i..(Len(t) + 1) :
    /\ Ch(t, j) \notin chars
    /\ \A k \in i..(j - 1) : t[k] \in chars

Until(t, i, chars) ==
  CHOOSE j \in i..(Len(t) + 1) :
    /\ Ch(t, j) \in chars \cup {EOF}
    /\ \A k \in i..(j - 1) : t[k] \notin chars

Token(type, value, from, to) == [type |-> type, value |-> value, from |-> from, to |-> to]

NoToken == Token("Unknown", <<>>, 0, 0)

(* What realConsume leaves: the token, the next index, the offsets pushed, *)
(* whether it reported an error, and how many peeked tokens it took.       *)
Lexed(token, next) ==
  [tok |-> token, at |-> next, lines |-> <<>>, error |-> FALSE, pop |-> 0]

(* Offsets count from 0: the character at index i has offset i - 1. *)
Found(type, value, i, next) == Lexed(Token(type, value, i - 1, next - 1), next)

WithLines(r, lines, error) == [r EXCEPT !.lines = lines \o @, !.error = @ \/ error]

(* Numbers: hexadecimal, decimal, or with a fraction and an exponent. *)
FractionEnd(t, dot) == Skip(t, dot + 1, Digits)

Number(t, i, end) ==
  IF t[i] = "0" /\ Ch(t, i + 1) = "x"
  THEN Found("Integer", <<>>, i, Skip(t, i + 2, HexDigits))
  ELSE IF Ch(t, end) # "."
  THEN Found(IF \/ end - i < MaxIntegerDigits
                \/ end - i = MaxIntegerDigits /\ t[i] # "9"
             THEN "Integer" ELSE "Float", <<>>, i, end)
  ELSE IF Ch(t, FractionEnd(t, end)) # "e"
  THEN Found("Float", <<>>, i, FractionEnd(t, end))
  ELSE [Found("Float", <<>>, i, Skip(t, TwoOn(t, FractionEnd(t, end)), Digits)) EXCEPT
          !.error = Ch(t, FractionEnd(t, end) + 1) # "+"]

(* The colon of a compiler's identifier is doubled, which is not allowed   *)
(* in source; the character behind it is dropped.                          *)
Identifier(t, i) ==
  IF t[i] = ":"
  THEN [Found("Identifier", <<>>, i, Skip(t, TwoOn(t, i), IdentifierChars)) EXCEPT !.error = TRUE]
  ELSE Found("Identifier", <<>>, i, Skip(t, i, IdentifierChars))

(* The end of a string and whether an escape in it is wrong. *)
StringEnd(t, first) ==
  LET end[i \in first..(Len(t) + 1)] ==
        IF Ch(t, i) \in {Quote, CR, LF, EOF} THEN [at |-> i, wrong |-> FALSE]
        ELSE IF Ch(t, i) = Backslash
        THEN [end[TwoOn(t, i)] EXCEPT
                !.wrong = @ \/ Ch(t, i + 1) \notin {"n", "t", Backslash, Quote}]
        ELSE end[i + 1]
  IN end[first]

String(t, i, end) ==
  [Found("String", <<>>, i, IF Ch(t, end.at) = Quote THEN end.at + 1 ELSE end.at) EXCEPT
     !.error = end.wrong \/ Ch(t, end.at) # Quote]

(* A comment of several lines: after a line end the next character is      *)
(* taken whatever it is, another line end too.                             *)
LineEnd(t, i) == IF Ch(t, i) = CR /\ Ch(t, i + 1) = LF THEN i + 2 ELSE i + 1

CommentEnd(t, first) ==
  LET end[i \in first..(Len(t) + 1)] ==
        IF Ch(t, i) = EOF THEN [at |-> i, lines |-> <<>>, error |-> TRUE]
        ELSE IF Ch(t, i) \in {CR, LF}
        THEN IF Ch(t, LineEnd(t, i)) = "/" /\ Ch(t, LineEnd(t, i) + 1) = Semicolon
             THEN [at |-> LineEnd(t, i) + 2, lines |-> <<LineEnd(t, i) - 1>>, error |-> FALSE]
             ELSE [end[OneOn(t, LineEnd(t, i))] EXCEPT !.lines = <<LineEnd(t, i) - 1>> \o @]
        ELSE IF Ch(t, i) = "/" /\ Ch(t, i + 1) = Semicolon
        THEN [at |-> i + 2, lines |-> <<>>, error |-> FALSE]
        ELSE end[i + 1]
  IN end[first]

(* A documentation comment: leading white space is skipped, which counts   *)
(* no lines; a CR LF is one character of the text.                         *)
DocLines(t, first, last) ==
  LET lines[i \in 0..last] ==
        IF i < first THEN <<>>
        ELSE IF t[i] = LF THEN Append(lines[i - 1], i) ELSE lines[i - 1]
  IN lines[last]

CRLFs(t, first, last) ==
  {i \in first..(last - 1) : t[i] = CR /\ t[i + 1] = LF}

LastOf(t, first, last) ==
  IF \A i \in first..last : t[i] \in IsSpace THEN last
  ELSE CHOOSE i \in first..last :
         t[i] \notin IsSpace /\ \A j \in (i + 1)..last : t[j] \in IsSpace

(* mutant of CharsRequired: a CR LF counts twice *)
CharsOfSource(t, first, last) == LastOf(t, first, last) - first + 1

(* Trimmed characters are subtracted one by one, also where two of them    *)
(* were counted as one.                                                    *)
CharsRequired(t, first, last) ==
  (last - first + 1) - Cardinality(CRLFs(t, first, last)) - (last - LastOf(t, first, last))

UnixText(t, first, last) ==
  LET unix[i \in 0..last] ==
        IF i < first THEN <<>>
        ELSE IF i \in CRLFs(t, first, last) THEN unix[i - 1] ELSE Append(unix[i - 1], t[i])
  IN unix[last]

DocText(t, first, last) ==
  IF CharsRequired(t, first, last) < 0 THEN <<"huge">>
  ELSE IF CharsRequired(t, first, last) = LastOf(t, first, last) - first + 1
  THEN SubSeq(t, first, LastOf(t, first, last))
  ELSE SubSeq(UnixText(t, first, LastOf(t, first, last)), 1, CharsRequired(t, first, last))

DocComment(t, i, first, last) ==
  WithLines(Found("DocComment", DocText(t, first, last), i,
                  IF Ch(t, last + 1) = RightBrace THEN last + 2 ELSE last + 1),
            DocLines(t, first, last),
            Ch(t, last + 1) # RightBrace)

(* What is skipped before a token: comments, white space and characters    *)
(* that begin no token.                                                    *)
Skipped(t, i) ==
  IF Ch(t, i) = Semicolon /\ Ch(t, i + 1) = "/" THEN CommentEnd(t, i + 2)
  ELSE [at |-> IF Ch(t, i) = Semicolon THEN Until(t, i + 1, {CR, LF})
               ELSE IF Ch(t, i) \in Blanks THEN Skip(t, i, Blanks)
               ELSE i + 1,
        lines |-> <<>>,
        error |-> Ch(t, i) \notin Blanks \cup {Semicolon}]

TokenStarts ==
  Brackets \cup Operators \cup BooleanOperators \cup Digits \cup Letters \cup
  {"_", ":", Quote, LeftBrace, CR, LF, EOF}

IsNumber(t, i) == t[i] \in Digits \/ (t[i] = "-" /\ Ch(t, i + 1) \in Digits)

(* The token at index i.  At the end of the file an end of the line is     *)
(* pretended; type is that of the current token.                           *)
TokenAt(t, i, type) ==
  CASE Ch(t, i) = EOF -> Found(IF type = "EOL" THEN "END" ELSE "EOL", <<>>, i, i)
    [] Ch(t, i) \in Brackets -> Found(t[i], <<>>, i, i + 1)
    [] Ch(t, i) \in Operators \cup Digits /\ IsNumber(t, i) ->
         Number(t, i, Skip(t, i + 1, Digits))
    [] Ch(t, i) \in Operators /\ ~IsNumber(t, i) ->
         IF Ch(t, i + 1) = "=" THEN Found("Operator", <<t[i], "=">>, i, i + 2)
                               ELSE Found("Operator", <<t[i]>>, i, i + 1)
    [] Ch(t, i) \in BooleanOperators ->
         [Found("Operator", <<t[i], t[i]>>, i, i + 2) EXCEPT !.error = Ch(t, i + 1) # t[i]]
    [] Ch(t, i) \in Letters \cup {"_", ":"} -> Identifier(t, i)
    [] Ch(t, i) = Quote -> String(t, i, StringEnd(t, i + 1))
    [] Ch(t, i) = LeftBrace ->
         DocComment(t, i, Skip(t, i + 1, IsSpace),
                    Until(t, Skip(t, i + 1, IsSpace), {RightBrace}) - 1)
    [] Ch(t, i) \in {CR, LF} ->
         WithLines(Found("EOL", <<>>, i, LineEnd(t, i)), <<LineEnd(t, i) - 1>>, FALSE)

(* case '\\': the token r behind the backslash is consumed, from the        *)
(* lookahead if there is one, and has to be the end of the line.           *)
Continued(r, rest) ==
  [rest EXCEPT !.lines = r.lines \o @, !.pop = @ + r.pop,
               !.error = @ \/ r.error \/ r.tok.type # "EOL"]

(* Of the current token it only matters whether it ends a line. *)
Kind(type) == IF type = "EOL" THEN type ELSE "Unknown"

ContinuedFrom(lex, k, r) == Continued(r, lex[<<r.at, k, Kind(r.tok.type)>>])

(* realConsume() from index i when k of the tokens in waiting are taken;   *)
(* lex is what it does from a later index.                                 *)
LexFrom(lex, t, waiting, i, k, kind) ==
  IF Ch(t, i) \in TokenStarts THEN TokenAt(t, i, kind)
  ELSE IF Ch(t, i) # Backslash
  THEN WithLines(lex[<<Skipped(t, i).at, k, kind>>], Skipped(t, i).lines, Skipped(t, i).error)
  ELSE IF k < Len(waiting)
  THEN ContinuedFrom(lex, k + 1, [Lexed(waiting[k + 1], i + 1) EXCEPT !.pop = 1])
  ELSE ContinuedFrom(lex, k, lex[<<i + 1, k, kind>>])

(* advanceChars() may step over the end of the text by one. *)
Places(t, waiting) == (1..(Len(t) + 2)) \X (0..Len(waiting)) \X {"EOL", "Unknown"}

Lexing(t, waiting) ==
  LET lex[p \in Places(t, waiting)] == LexFrom(lex, t, waiting, p[1], p[2], p[3])
  IN lex

(* realConsume() from index i: type is that of the current token, and      *)
(* waiting the peeked tokens that consume() would take first.              *)
RealConsume(t, i, type, waiting) == Lexing(t, waiting)[<<i, 0, Kind(type)>>]

-----------------------------------------------------------------------------
(* The lookahead.  A buffer is peekedTokens with its two indices.          *)

NoLookahead == [tokens |-> <<NoToken, NoToken, NoToken>>, i |-> 0, count |-> 0]

Waiting(b) == SubSeq(b.tokens, b.i + 1, b.count)

(* mutant of Popped: it does not start over when all are taken *)
PoppedForGood(b, n) == [b EXCEPT !.i = @ + n]

Popped(b, n) ==
  IF b.i + n >= b.count THEN [b EXCEPT !.i = 0, !.count = 0] ELSE [b EXCEPT !.i = @ + n]

(* The parts of the state a token that is lexed changes, and the type      *)
(* peekTokenType returned.                                                 *)
State == [at |-> at, peeked |-> peeked, lines |-> <<>>, error |-> errors,
          pop |-> popped, assert |-> asserted, seen |-> "Unknown"]

Relexed(s, r) ==
  [s EXCEPT !.at = r.at, !.lines = @ \o r.lines, !.error = @ \/ r.error, !.pop = @ + r.pop]

(* peekTokenType(distance): lexes what is missing, one token after the     *)
(* other, each with cur as the last one left it.                           *)
Store(b, token) == [b EXCEPT !.tokens[b.count + 1] = token, !.count = @ + 1]

Peeked(s, r) ==
  [Relexed(s, r) EXCEPT
     !.peeked = Store(IF r.pop > 0 THEN Popped(s.peeked, r.pop) ELSE s.peeked, r.tok),
     !.seen = r.tok.type]

PeekOne(t, s) == Peeked(s, RealConsume(t, s.at, s.seen, Waiting(s.peeked)))

PeekMore(t, type, s, missing, distance) ==
  LET after[n \in 0..missing] ==
        IF n = 0 THEN [s EXCEPT !.seen = type] ELSE PeekOne(t, after[n - 1])
  IN [after[missing] EXCEPT !.seen = after[missing].peeked.tokens[distance + 1].type]

Peek(t, type, s, distance) ==
  IF s.peeked.i + distance < s.peeked.count
  THEN [s EXCEPT !.seen = s.peeked.tokens[s.peeked.i + distance + 1].type]
  ELSE IF s.peeked.i # 0 THEN [s EXCEPT !.assert = TRUE]
  ELSE PeekMore(t, type, s, distance + 1 - s.peeked.count, distance)

(* The parser looks one token ahead at an identifier, at an opening square *)
(* bracket and at whatever follows a For, and as far as the token behind   *)
(* an array type where an identifier may begin a declaration.              *)
LookAhead(t, type, s) ==
  LET one == Peek(t, type, s, 0)
      two == Peek(t, type, one, 1)
  IN IF type # "Identifier" \/ one.seen # "[" THEN one
     ELSE IF two.seen # "]" THEN two
     ELSE Peek(t, type, two, 2)

Becomes(s) ==
  /\ at' = s.at
  /\ peeked' = s.peeked
  /\ lineOffsets' = PushAll(lineOffsets, s.lines)
  /\ pushed' = pushed \o s.lines
  /\ errors' = s.error
  /\ popped' = s.pop
  /\ asserted' = s.assert
  /\ UNCHANGED text

-----------------------------------------------------------------------------
(* The constructor consumes the first token. *)
Init ==
  /\ text \in Texts
  /\ LET r == RealConsume(text, 1, "Unknown", <<>>) IN
       /\ at = r.at
       /\ cur = r.tok
       /\ lineOffsets = PushAll(EmptyPool, <<0>> \o r.lines)
       /\ pushed = <<0>> \o r.lines
       /\ errors = r.error
       /\ consumed = <<r.tok>>
  /\ peeked = NoLookahead
  /\ asserted = FALSE
  /\ popped = 0

Consume ==
  /\ cur.type # "END"
  /\ \/ /\ peeked.count # 0
        /\ cur' = peeked.tokens[peeked.i + 1]
        /\ Becomes([State EXCEPT !.peeked = Popped(peeked, 1)])
     \/ /\ peeked.count = 0
        /\ \E r \in {RealConsume(text, at, cur.type, <<>>)} :
             /\ cur' = r.tok
             /\ Becomes(Relexed(State, r))
  /\ consumed' = Append(consumed, cur')

PeekTokenType ==
  /\ cur.type # "END"
  /\ \E s \in {LookAhead(text, cur.type, State)} : Becomes(s)
  /\ UNCHANGED <<cur, consumed>>

(* A report about the current token looks its line up. *)
FormatLocation ==
  /\ lineOffsets' = Flatten(lineOffsets)
  /\ UNCHANGED <<text, at, cur, peeked, errors, asserted, consumed, pushed, popped>>

Next == Consume \/ PeekTokenType \/ FormatLocation

Spec == Init /\ [][Next]_vars

(* getLocationLine without a hint: behind the last offset it is the last   *)
(* line that is known.                                                     *)
LocationLine(offset) == LowerBound(lineOffsets, offset)

-----------------------------------------------------------------------------
(* The n-th token of a text that is lexed without any lookahead. *)
Alone(t, n) ==
  LET lexed[k \in 1..n] ==
        IF k = 1 THEN RealConsume(t, 1, "Unknown", <<>>)
        ELSE RealConsume(t, lexed[k - 1].at, lexed[k - 1].tok.type, <<>>)
  IN lexed[n]

(* The parser may look ahead wherever its grammar asks it to: it gets the  *)
(* tokens of the text all the same, once each and in order, no assertion   *)
(* of the buffer fails, and the lines are counted once.  The exception is  *)
(* a line continuation met while the buffer holds a token, which takes it. *)
LookaheadInvisible ==
  /\ popped = 0 => /\ ~asserted
                   /\ \A k \in DOMAIN consumed : consumed[k] = Alone(text, k).tok
  /\ \A i \in 1..(Len(pushed) - 1) : pushed[i] < pushed[i + 1]

LineStarts(t) ==
  {0} \cup {i \in DOMAIN t : t[i] = LF \/ (t[i] = CR /\ Ch(t, i + 1) # LF)}

TrueLine(t, offset) == Cardinality({i \in LineStarts(t) : i <= offset})

(* The line of a token is found, whatever heaps the table's offsets are    *)
(* in, while lines are still being added and after earlier reports: the    *)
(* line it stands in, or the one above for a token in the first column.    *)
(* It holds as long as the lexer has seen every line end before the token: *)
(* it misses those in front of a documentation comment's text, a second    *)
(* one in a row in a comment, and one that is escaped in a string.         *)
LineFound ==
  \A k \in DOMAIN consumed :
    (\A start \in LineStarts(text) :
       start <= consumed[k].from => start \in ToSet(pushed))
    => LocationLine(consumed[k].from) =
         IF consumed[k].from \in LineStarts(text) THEN TrueLine(text, consumed[k].from) - 1
         ELSE TrueLine(text, consumed[k].from)

Content(token) ==
  SubSeq(text, token.from + 2, IF Ch(text, token.to) = RightBrace THEN token.to - 1 ELSE token.to)

Trimmed(s) ==
  IF \A i \in DOMAIN s : s[i] \in IsSpace THEN <<>>
  ELSE SubSeq(s, Skip(s, 1, IsSpace), LastOf(s, 1, Len(s)))

(* A documentation comment is, as the code's comment promises, the text    *)
(* between the braces without white space at its ends, with unix line ends *)
(* and no character lost, if no CR LF follows the text: the code counts    *)
(* one character for a CR LF, and takes away two when it trims one.        *)
DocTextKept ==
  \A k \in DOMAIN consumed :
    (consumed[k].type = "DocComment" /\
     CRLFs(Content(consumed[k]), LastOf(Content(consumed[k]), 1, Len(Content(consumed[k]))),
           Len(Content(consumed[k]))) = {})
    => consumed[k].value = UnixText(Trimmed(Content(consumed[k])), 1,
                                    Len(Trimmed(Content(consumed[k]))))
=============================================================================
