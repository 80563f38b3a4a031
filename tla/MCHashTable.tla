---------------------------- MODULE MCHashTable -----------------------------
(* HashTable for TLC.  k1 and k2 share a bucket and k1 is a prefix of k2; k3  *)
(* has a bucket of its own.                                                  *)
EXTENDS HashTable, TLC

CONSTANTS th1, th2, k1, k2, k3

TwoThreads == {th1, th2}
ThreeKeys == {k1, k2, k3}
TwoBuckets == {0, 1}

HashTwoBuckets == (k1 :> 0) @@ (k2 :> 0) @@ (k3 :> 1)

K1BeginsK2 == {<<k, k>> : k \in Keys} \cup {<<k1, k2>>}

AllKinds == {"inc", "put", "get"}
OnlyInc == {"inc"}

JustOne == {1}
JustThree == {3}
=============================================================================
