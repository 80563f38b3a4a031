---------------------------- MODULE MCThreadPool ----------------------------
(* ThreadPool for TLC: the sets of workers the runs give to Workers and to   *)
(* MayFail.                                                                  *)
EXTENDS ThreadPool

CONSTANTS w1, w2, w3

NoWorker == {}
OneWorker == {w1}
TwoWorkers == {w1, w2}
ThreeWorkers == {w1, w2, w3}
=============================================================================
