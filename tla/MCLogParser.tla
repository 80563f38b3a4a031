---------------------------- MODULE MCLogParser -----------------------------
(* LogParser for TLC: the numbers are powers of two, so that every sum tells *)
(* which lines went into it.                                                 *)
EXTENDS LogParser, TLC

CONSTANTS w1, w2, a, b, r, s

TwoWorkers == {w1, w2}
WorkerSymmetry == Permutations(Workers)

Line(u, ref, n) == [uri |-> u, ref |-> ref, number |-> n]

ThreeFiles ==
  << <<Line(a, r, 1), Line(b, NoRef, 2)>>,
     <<Line(b, r, 4), Line(a, s, 8)>>,
     <<Line(a, r, 16)>> >>

LastFile == {3}
=============================================================================
