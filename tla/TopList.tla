------------------------------ MODULE TopList -------------------------------
(***************************************************************************)
(* The order in which print_top of hw12/src/hashtable.c lists the counters *)
(* of a table, once no other thread is running.  compare subtracts two     *)
(* 64-bit counters and returns the low half of the difference, an int.     *)
(***************************************************************************)
EXTENDS Integers, Sequences, FiniteSets

CONSTANTS
  IntRange,   \* 2^32: the number of values of an int
  Counts,     \* the values the counters of a table may have
  MaxKeys     \* bound: how many keys the table has

ASSUME TopAssumption ==
  /\ IntRange \in Nat \ {0} /\ IntRange % 2 = 0
  /\ Counts \subseteq Nat
  /\ MaxKeys \in Nat

VARIABLES
  tlVals,    \* pairs: the counters, in the order of the buckets
  tlShown    \* the counters in the order they are printed

topVars == <<tlVals, tlShown>>

TopInit == tlVals = <<>> /\ tlShown = <<>>

FillPairs ==
  /\ tlVals = <<>>
  /\ \E n \in 1 .. MaxKeys : tlVals' \in [1 .. n -> Counts]
  /\ UNCHANGED tlShown

(* Mutation: the conversion keeps the sign bit as a value. *)
Unsigned(n) == n % IntRange

(* The conversion to int of a difference modulo a multiple of IntRange. *)
ToInt(n) ==
  IF n % IntRange < IntRange \div 2 THEN n % IntRange ELSE (n % IntRange) - IntRange

Compare(x, y) == ToInt(y - x)

(* compare orders these counters: of any three, and of any two. *)
IsOrder(vals) ==
  \A x, y, z \in vals :
    /\ Compare(x, y) > 0 <=> Compare(y, x) < 0
    /\ Compare(x, y) <= 0 /\ Compare(y, z) <= 0 => Compare(x, z) <= 0

(* qsort: any order that compare accepts, and any order at all of counters   *)
(* on which it contradicts itself.                                           *)
SortAndPrint ==
  /\ tlVals # <<>> /\ tlShown = <<>>
  /\ \E place \in [DOMAIN tlVals -> DOMAIN tlVals] :
       /\ \A i, j \in DOMAIN place : place[i] = place[j] => i = j
       /\ IsOrder({tlVals[i] : i \in DOMAIN tlVals}) =>
            \A i, j \in DOMAIN place :
              i < j => Compare(tlVals[place[i]], tlVals[place[j]]) <= 0
       /\ tlShown' = [i \in DOMAIN place |-> tlVals[place[i]]]
  /\ UNCHANGED tlVals

TopNext == FillPairs \/ SortAndPrint

TopSpec == TopInit /\ [][TopNext]_topVars
-----------------------------------------------------------------------------
(* The URIs are printed the heaviest first, as main.c:198 announces them.    *)
TopIsHeaviest ==
  \A i, j \in DOMAIN tlShown : i < j => tlShown[i] >= tlShown[j]

(* That holds as long as no two of the counters are further apart than an    *)
(* int can tell.                                                             *)
HeaviestFirst ==
  (\A i, j \in DOMAIN tlVals : tlVals[i] - tlVals[j] < IntRange \div 2) =>
    TopIsHeaviest
=============================================================================
