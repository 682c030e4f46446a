-------------------------- MODULE MCPapyrusLexer --------------------------
(* The texts are concatenations of fragments: tokens, and the starts, ends *)
(* and middles of everything that spans several characters.                *)
EXTENDS PapyrusLexer

CONSTANT MaxFragments   \* bound: fragments of a text

Fragments ==
  { <<"a">>, <<"[">>, <<"[", "]">>, <<" ">>, <<LF>>, <<CR, LF>>, <<Backslash, LF>>,
    <<";">>, <<"/", ";">>, <<";", "/", LF>>, <<"{">>, <<"}">>, <<"{", "a", CR, LF, "n">>,
    <<Quote>>, <<Backslash, "n">>, <<"-", "1">>, <<"0", "x", "e">>, <<"9", "9">>,
    <<"1", ".", "e", "+", "0">>, <<"=">>, <<"|">>, <<":">>, <<"$">> }

MCTexts == UNION {{FlattenSeq(f) : f \in [1..n -> Fragments]} : n \in 0..MaxFragments}
=============================================================================
