------------------------- MODULE MCReffyStringPool -------------------------
(* Strings for four slots: two that collide in slot and upper half, one    *)
(* that meets them after the wrap, one as large as a heap, and one whose   *)
(* search begins behind the table.                                         *)
EXTENDS ReffyStringPool, TLC

CONSTANTS a, b, c, huge, out

MCStrings == {a, b, c, huge, out}
MCSizeOf == (a :> 2) @@ (b :> 3) @@ (c :> 1) @@ (huge :> 5) @@ (out :> 2)
MCHashOf == (a :> [slot |-> 3, upper |-> 7]) @@ (b :> [slot |-> 3, upper |-> 7])
         @@ (c :> [slot |-> 0, upper |-> 7]) @@ (huge :> [slot |-> 1, upper |-> 8])
         @@ (out :> [slot |-> MaxCapacity, upper |-> 7])
=============================================================================
