------------------------------ MODULE MCLogger ------------------------------
(* Logger for TLC: three threads. *)
EXTENDS Logger

CONSTANTS th1, th2, th3

ThreeThreads == {th1, th2, th3}
=============================================================================
