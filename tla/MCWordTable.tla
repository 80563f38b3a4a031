---------------------------- MODULE MCWordTable -----------------------------
(* WordTable for TLC.  The numbers the words hash to make them collide in    *)
(* the first table, some of them after it has grown once or twice, and c get *)
(* a bucket in the table of 4 in which it is not found again.                *)
EXTENDS WordTable, TLC

CONSTANTS a, ab, b, c, d

FiveWords == {a, ab, b, c, d}
Numbers == (a :> 0) @@ (ab :> 2) @@ (b :> 4) @@ (c :> 3) @@ (d :> 8)
OnlyThemselves == {<<k, k>> : k \in Keys}
AIsPrefixOfAb == OnlyThemselves \cup {<<a, ab>>}
=============================================================================
