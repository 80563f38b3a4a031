----------------------------- MODULE RingIndex -----------------------------
(***************************************************************************)
(* Index arithmetic of the task ring of hw12 (circular_buffer.c).  The     *)
(* ring is an array of Max slots with a write index `head', a read index   *)
(* `tail' and a flag `full' that tells a full ring from an empty one when  *)
(* the two indices meet.  CircularBuffer and ThreadPool share this module. *)
(***************************************************************************)
EXTENDS Integers

CONSTANT Max   \* number of slots, the argument of create_cir_buffer

ASSUME MaxAssumption == Max \in Nat \ {0}

Slots == 0 .. (Max - 1)

(* Mutation: the index runs past the end of the array. *)
SuccWithoutWrap(i) == i + 1

(* Mutation: the last slot is left out. *)
SuccShort(i) == (i + 1) % (Max - 1)

(* The step that cir_buffer_put takes with head and cir_buffer_get with tail. *)
Succ(i) == (i + 1) % Max

(* What cir_buffer_size returns for the three fields it reads. *)
SizeOf(head, tail, full) ==
  IF full THEN Max
  ELSE IF head >= tail THEN head - tail
  ELSE Max + head - tail

(* How many steps of Succ lead from slot t to slot i, and the slot k steps on. *)
Distance(t, i) == IF i >= t THEN i - t ELSE Max + i - t

At(t, k) == (t + k) % Max
=============================================================================
