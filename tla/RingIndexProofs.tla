-------------------------- MODULE RingIndexProofs ---------------------------
(***************************************************************************)
(* Facts about the index arithmetic of the ring, for every size Max.  They *)
(* turn the remainders of RingIndex into cases and linear arithmetic.      *)
(***************************************************************************)
EXTENDS RingIndex, TLAPS

(* Succ moves one slot on, and from the last slot back to the first. *)
LEMMA SuccByCases ==
  ASSUME NEW i \in Slots
  PROVE  /\ Succ(i) = IF i + 1 = Max THEN 0 ELSE i + 1
         /\ Succ(i) \in Slots
BY MaxAssumption DEF Slots, Succ

(* At moves k < Max slots on, past the end of the array at most once. *)
LEMMA AtByCases ==
  ASSUME NEW t \in Slots, NEW k \in Slots
  PROVE  /\ At(t, k) = IF t + k >= Max THEN t + k - Max ELSE t + k
         /\ At(t, k) \in Slots
BY MaxAssumption DEF Slots, At

(* Every slot is less than Max steps away from every other. *)
LEMMA DistanceRange ==
  ASSUME NEW t \in Slots, NEW i \in Slots
  PROVE  /\ Distance(t, i) \in Slots
         /\ Distance(t, i) = 0 <=> t = i
BY MaxAssumption DEF Slots, Distance

(* At and Distance are inverse to each other. *)
LEMMA AtDistance ==
  ASSUME NEW t \in Slots, NEW i \in Slots
  PROVE  At(t, Distance(t, i)) = i
<1>1. PICK d \in Slots : d = Distance(t, i)
  BY DistanceRange
<1>2. At(t, d) = IF t + d >= Max THEN t + d - Max ELSE t + d
  BY AtByCases
<1>3. QED
  BY <1>1, <1>2, MaxAssumption DEF Slots, Distance

(* The k-th slot after t is at distance k from it.                           *)
LEMMA DistanceAt ==
  ASSUME NEW t \in Slots, NEW k \in Slots
  PROVE  Distance(t, At(t, k)) = k
<1>1. At(t, k) = IF t + k >= Max THEN t + k - Max ELSE t + k
  BY AtByCases
<1>2. QED
  BY <1>1, MaxAssumption DEF Slots, Distance

(* When the start moves on, every slot but the old start comes one nearer. *)
LEMMA DistanceFromSucc ==
  ASSUME NEW t \in Slots, NEW i \in Slots
  PROVE  Distance(Succ(t), i) = IF i = t THEN Max - 1 ELSE Distance(t, i) - 1
BY MaxAssumption, SuccByCases DEF Slots, Distance

(* When the goal moves on it is one step further, until it meets the start.  *)
LEMMA DistanceToSucc ==
  ASSUME NEW t \in Slots, NEW i \in Slots
  PROVE  Distance(t, Succ(i)) = IF Succ(i) = t THEN 0 ELSE Distance(t, i) + 1
BY MaxAssumption, SuccByCases DEF Slots, Distance

(* A goal that meets the start was Max - 1 steps away. *)
LEMMA DistanceOfLast ==
  ASSUME NEW t \in Slots, NEW i \in Slots, Succ(i) = t
  PROVE  Distance(t, i) = Max - 1
BY MaxAssumption, SuccByCases DEF Slots, Distance

(* The k-th slot after the next one is the (k+1)-th after this one.          *)
LEMMA AtFromSucc ==
  ASSUME NEW t \in Slots, NEW k \in Slots, k + 1 \in Slots
  PROVE  At(Succ(t), k) = At(t, k + 1)
<1>1. PICK s \in Slots : s = Succ(t) /\ s = (IF t + 1 = Max THEN 0 ELSE t + 1)
  BY SuccByCases
<1>2. At(s, k) = IF s + k >= Max THEN s + k - Max ELSE s + k
  BY AtByCases
<1>3. PICK j \in Slots : j = k + 1
  OBVIOUS
<1>4. At(t, j) = IF t + j >= Max THEN t + j - Max ELSE t + j
  BY AtByCases
<1>5. QED
  BY <1>1, <1>2, <1>3, <1>4, MaxAssumption DEF Slots

(* cir_buffer_size is the distance from tail to head, or Max. *)
LEMMA SizeIsDistance ==
  ASSUME NEW h \in Slots, NEW t \in Slots, NEW f \in BOOLEAN
  PROVE  /\ SizeOf(h, t, f) = IF f THEN Max ELSE Distance(t, h)
         /\ SizeOf(h, t, f) \in 0 .. Max
BY MaxAssumption DEF SizeOf, Slots, Distance
=============================================================================
