------------------------ MODULE CircularBufferProofs ------------------------
(***************************************************************************)
(* Theorems about CircularBuffer, for every size of the ring and every set *)
(* of tasks.                                                               *)
(***************************************************************************)
EXTENDS CircularBuffer, RingIndexProofs

(* The fields keep their types; at the same time head, tail and full always  *)
(* tell which slots hold a task.  The conjunction is inductive: that `ret' is*)
(* a task after a get needs the window.                                      *)
IInv == RingTypeOK /\ WindowHoldsTheTasks

(* What create returns is an empty window at the start of the array.         *)
LEMMA InitInvariant == RingInit => IInv
<1> SUFFICES ASSUME RingInit PROVE IInv
  OBVIOUS
<1>1. Size = 0
  BY MaxAssumption DEF RingInit, Size, SizeOf
<1>2. RingTypeOK
  <2>1. 0 \in Slots
    BY MaxAssumption DEF Slots
  <2> QED
    BY <2>1 DEF RingInit, RingTypeOK
<1>3. WindowHoldsTheTasks
  BY <1>1, MaxAssumption, PointerAssumption
     DEF RingInit, WindowHoldsTheTasks, Occupied, Slots, Distance
<1> QED
  BY <1>2, <1>3 DEF IInv

(* The window after cir_buffer_put is the old one and the slot at head. *)
LEMMA PutStep ==
  ASSUME IInv, NEW t \in Tasks, Put(t)
  PROVE  IInv' /\ Size < Max /\ Size' = Size + 1 /\ Distance(tail, head) = Size
<1> USE DEF IInv, RingTypeOK, WindowHoldsTheTasks, Put
<1>1. Size = Distance(tail, head) /\ Size \in Slots
  BY SizeIsDistance, DistanceRange DEF Size
<1>2. head' \in Slots /\ tail' = tail
  BY SuccByCases
<1>3. Size' = Size + 1
  <2>1. CASE Succ(head) = tail
    <3>1. Size' = Max
      BY <2>1, SizeIsDistance, <1>2 DEF Size
    <3>2. Distance(tail, head) = Max - 1
      BY <2>1, DistanceOfLast
    <3> QED
      BY <3>1, <3>2, <1>1, MaxAssumption
  <2>2. CASE Succ(head) # tail
    <3>1. Size' = Distance(tail, Succ(head))
      BY <2>2, SizeIsDistance, <1>2 DEF Size
    <3> QED
      BY <3>1, <2>2, <1>1, DistanceToSucc
  <2> QED
    BY <2>1, <2>2
<1>4. ASSUME NEW i \in Slots
      PROVE  tasks'[i] \in Tasks <=> Distance(tail, i) < Size'
  <2>1. Distance(tail, i) = Distance(tail, head) <=> i = head
    BY AtDistance
  <2>2. Distance(tail, i) \in Slots
    BY DistanceRange
  <2>3. tasks'[i] \in Tasks <=> i = head \/ tasks[i] \in Tasks
    OBVIOUS
  <2>4. tasks[i] \in Tasks <=> Distance(tail, i) < Size
    BY DEF Occupied
  <2> QED
    BY <2>1, <2>2, <2>3, <2>4, <1>1, <1>3 DEF Slots
<1>5. RingTypeOK'
  BY <1>2
<1>6. WindowHoldsTheTasks'
  BY <1>2, <1>4 DEF Occupied
<1> QED
  BY <1>1, <1>3, <1>5, <1>6, MaxAssumption DEF Slots

(* The window after cir_buffer_get of a ring that is not empty is the old    *)
(* one without the slot at tail.                                             *)
LEMMA GetStep ==
  ASSUME IInv, GuardedGet
  PROVE  IInv' /\ Size' = Size - 1 /\ tasks[tail] \in Tasks
<1> USE DEF IInv, RingTypeOK, WindowHoldsTheTasks, GuardedGet, RingGet
<1>1. Size \in 1 .. Max /\ tail' \in Slots
  BY SizeIsDistance, SuccByCases DEF Size
<1>2. Size' = Distance(Succ(tail), head)
  BY SizeIsDistance, <1>1 DEF Size
<1>3. Size' = Size - 1
  <2>1. CASE full
    BY <2>1, <1>2, DistanceFromSucc, SizeIsDistance DEF Size
  <2>2. CASE ~full
    <3>1. Size = Distance(tail, head)
      BY <2>2, SizeIsDistance DEF Size
    <3>2. head # tail
      BY <3>1, <1>1, DistanceRange
    <3> QED
      BY <3>1, <3>2, <1>2, DistanceFromSucc
  <2> QED
    BY <2>1, <2>2
<1>4. ASSUME NEW i \in Slots
      PROVE  tasks'[i] \in Tasks <=> Distance(Succ(tail), i) < Size'
  <2>1. Distance(Succ(tail), i)
          = IF i = tail THEN Max - 1 ELSE Distance(tail, i) - 1
    BY DistanceFromSucc
  <2>2. Distance(tail, i) \in Slots
    BY DistanceRange
  <2>3. tasks'[i] \in Tasks <=> i # tail /\ tasks[i] \in Tasks
    BY PointerAssumption
  <2>4. tasks[i] \in Tasks <=> Distance(tail, i) < Size
    BY DEF Occupied
  <2> QED
    BY <2>1, <2>2, <2>3, <2>4, <1>1, <1>3, MaxAssumption DEF Slots
<1>5. tasks[tail] \in Tasks
  BY <1>1, DistanceRange DEF Occupied
<1>6. RingTypeOK'
  BY <1>1, <1>5
<1>7. WindowHoldsTheTasks'
  BY <1>4 DEF Occupied
<1> QED
  BY <1>3, <1>5, <1>6, <1>7

(* Freeing the ring touches neither the window nor the flag.                 *)
LEMMA FreeStep ==
  ASSUME IInv, Free
  PROVE  IInv'
<1> USE DEF IInv, Free
<1>1. RingTypeOK'
  BY DEF RingTypeOK
<1>2. WindowHoldsTheTasks'
  BY DEF WindowHoldsTheTasks
<1> QED
  BY <1>1, <1>2

(* Every call, made as the pool makes it, keeps types and window.            *)
LEMMA NextInvariant == IInv /\ [RingNext]_ringVars => IInv'
<1> SUFFICES ASSUME IInv, [RingNext]_ringVars PROVE IInv'
  OBVIOUS
<1>1. ASSUME NEW t \in Tasks, Put(t) PROVE IInv'
  BY <1>1, PutStep
<1>2. CASE PutRefused
  BY <1>2 DEF PutRefused, IInv, RingTypeOK, WindowHoldsTheTasks, Occupied, Size
<1>3. CASE GuardedGet
  BY <1>3, GetStep
<1>4. CASE Free
  BY <1>4, FreeStep
<1>5. CASE FreeCrashes
  BY <1>5 DEF FreeCrashes, IInv, RingTypeOK, WindowHoldsTheTasks, Occupied, Size
<1>6. CASE UNCHANGED ringVars
  BY <1>6 DEF ringVars, IInv, RingTypeOK, WindowHoldsTheTasks, Occupied, Size
<1> QED
  BY <1>1, <1>2, <1>3, <1>4, <1>5, <1>6 DEF RingNext

(* The strengthened invariant holds of every behaviour of the ring. *)
LEMMA Invariant == RingSpec => []IInv
BY InitInvariant, NextInvariant, PTL DEF RingSpec

(* The fields of the ring keep their types, so head and tail never leave the *)
(* array, and a get returns a task and nothing else.                         *)
THEOREM TypeCorrect == RingSpec => []RingTypeOK
<1>1. IInv => RingTypeOK
  BY DEF IInv
<1> QED
  BY <1>1, Invariant, PTL

(* Across every wrap-around, exactly the cir_buffer_size slots that start at *)
(* tail hold a task.                                                         *)
THEOREM WindowCorrect == RingSpec => []WindowHoldsTheTasks
<1>1. IInv => WindowHoldsTheTasks
  BY DEF IInv
<1> QED
  BY <1>1, Invariant, PTL
-----------------------------------------------------------------------------
(* The refinement of BoundedQueue. *)

LEMMA ContentsIsSeq ==
  ASSUME IInv, fate # "freed"
  PROVE  /\ Size \in 0 .. Max
         /\ Contents = [k \in 1 .. Size |-> tasks[At(tail, k - 1)]]
         /\ Contents \in Seq(Tasks)
         /\ Len(Contents) = Size
<1> USE DEF IInv, RingTypeOK, WindowHoldsTheTasks
<1>1. Size \in 0 .. Max
  BY SizeIsDistance DEF Size
<1>2. ASSUME NEW k \in 1 .. Size
      PROVE  tasks[At(tail, k - 1)] \in Tasks
  <2>1. PICK j \in Slots : j = k - 1
    BY <1>1, MaxAssumption DEF Slots
  <2>2. At(tail, j) \in Slots /\ Distance(tail, At(tail, j)) = j
    BY AtByCases, DistanceAt
  <2>3. At(tail, j) \in Occupied
    BY <2>1, <2>2, <1>1 DEF Occupied
  <2> QED
    BY <2>1, <2>2, <2>3
<1>3. Contents = [k \in 1 .. Size |-> tasks[At(tail, k - 1)]]
  BY DEF Contents
<1>4. Contents \in Seq(Tasks) /\ Len(Contents) = Size
  BY <1>1, <1>2, <1>3
<1> QED
  BY <1>1, <1>3, <1>4

(* put appends the task. *)
LEMMA PutAppends ==
  ASSUME IInv, NEW t \in Tasks, Put(t)
  PROVE  Contents' = Append(Contents, t) /\ Len(Contents) < Max
<1> USE DEF IInv
<1>1. Size < Max /\ Size' = Size + 1 /\ Distance(tail, head) = Size /\ IInv'
  BY PutStep
<1>2. /\ Size \in 0 .. Max
      /\ Contents = [k \in 1 .. Size |-> tasks[At(tail, k - 1)]]
      /\ Contents \in Seq(Tasks)
      /\ Len(Contents) = Size
  BY ContentsIsSeq DEF Put
<1>3. Contents' = [k \in 1 .. Size + 1 |-> tasks'[At(tail, k - 1)]]
  BY <1>1 DEF Put, Contents
<1>4. ASSUME NEW k \in 1 .. Size + 1
      PROVE  tasks'[At(tail, k - 1)]
               = IF k = Size + 1 THEN t ELSE tasks[At(tail, k - 1)]
  <2>1. PICK j \in Slots : j = k - 1
    BY <1>1, <1>2, MaxAssumption DEF Slots
  <2>2. At(tail, j) \in Slots /\ Distance(tail, At(tail, j)) = j
    BY AtByCases, DistanceAt DEF RingTypeOK
  <2>3. At(tail, j) = head <=> j = Size
    BY <1>1, <2>2, AtDistance DEF RingTypeOK
  <2> QED
    BY <2>1, <2>2, <2>3, <1>2 DEF Put, RingTypeOK
<1>5. Contents' = Append(Contents, t)
  <2>1. Append(Contents, t)
          = [k \in 1 .. Size + 1 |-> IF k = Size + 1 THEN t ELSE Contents[k]]
    BY <1>2
  <2>2. ASSUME NEW k \in 1 .. Size + 1
        PROVE  tasks'[At(tail, k - 1)] = IF k = Size + 1 THEN t ELSE Contents[k]
    <3>1. CASE k = Size + 1
      BY <3>1, <1>4
    <3>2. CASE k # Size + 1
      <4>1. k \in 1 .. Size
        BY <3>2, <1>2
      <4> QED
        BY <3>2, <4>1, <1>2, <1>4
    <3> QED
      BY <3>1, <3>2
  <2> QED
    BY <1>3, <2>1, <2>2
<1> QED
  BY <1>1, <1>2, <1>5

(* get takes the oldest task. *)
LEMMA GetTakesHead ==
  ASSUME IInv, GuardedGet
  PROVE  Contents # <<>> /\ ret' = Head(Contents) /\ Contents' = Tail(Contents)
<1> USE DEF IInv
<1>1. Size' = Size - 1 /\ IInv'
  BY GetStep
<1>2. /\ Size \in 1 .. Max
      /\ Contents = [k \in 1 .. Size |-> tasks[At(tail, k - 1)]]
      /\ Contents \in Seq(Tasks)
      /\ Len(Contents) = Size
  BY ContentsIsSeq DEF GuardedGet, RingGet
<1>3. Contents[1] = tasks[tail]
  <2>1. At(tail, 0) = tail
    BY MaxAssumption DEF RingTypeOK, Slots, At
  <2> QED
    BY <2>1, <1>2
<1>4. Contents' = [k \in 1 .. Size - 1 |-> tasks'[At(Succ(tail), k - 1)]]
  BY <1>1 DEF GuardedGet, RingGet, Contents
<1>5. ASSUME NEW k \in 1 .. Size - 1
      PROVE  tasks'[At(Succ(tail), k - 1)] = Contents[k + 1]
  <2>1. PICK j \in Slots : j = k - 1 /\ j + 1 \in Slots /\ j + 1 # 0
    BY <1>2, MaxAssumption DEF Slots
  <2>2. At(Succ(tail), j) = At(tail, j + 1)
    BY <2>1, AtFromSucc DEF RingTypeOK
  <2>3. PICK n \in Slots : n = j + 1 /\ n # 0
    BY <2>1
  <2>4. At(tail, n) \in Slots /\ At(tail, n) # tail
    <3>1. /\ At(tail, n) = IF tail + n >= Max THEN tail + n - Max ELSE tail + n
          /\ At(tail, n) \in Slots
      BY AtByCases DEF RingTypeOK
    <3> QED
      BY <3>1, <2>3, MaxAssumption DEF RingTypeOK, Slots
  <2>5. tasks'[At(tail, n)] = tasks[At(tail, n)]
    BY <2>4 DEF GuardedGet, RingGet, RingTypeOK
  <2>6. Contents[k + 1] = tasks[At(tail, n)]
    BY <1>2, <2>1, <2>3
  <2> QED
    BY <2>1, <2>2, <2>3, <2>5, <2>6
<1>6. Contents' = Tail(Contents)
  <2>1. Tail(Contents) = [k \in 1 .. Size - 1 |-> Contents[k + 1]]
    BY <1>2
  <2> QED
    BY <1>4, <1>5, <2>1
<1>7. Contents # <<>> /\ ret' = Head(Contents)
  BY <1>2, <1>3 DEF GuardedGet, RingGet
<1> QED
  BY <1>6, <1>7

(* A free that returns has released what the queue held. *)
LEMMA FreeReleases ==
  ASSUME IInv, Free
  PROVE  /\ Contents' = <<>>
         /\ released' = {Contents[k] : k \in DOMAIN Contents}
<1> USE DEF IInv
<1>1. /\ Size \in 0 .. Max
      /\ Contents = [k \in 1 .. Size |-> tasks[At(tail, k - 1)]]
      /\ Contents \in Seq(Tasks)
  BY ContentsIsSeq DEF Free
<1>2. Contents' = <<>>
  BY DEF Free, Contents
<1>3. ASSUME NEW x \in released'
      PROVE  \E k \in DOMAIN Contents : x = Contents[k]
  <2>1. PICK i \in Slots : x = tasks[i] /\ tasks[i] \in Tasks
    BY DEF Free, RingTypeOK
  <2>2. Distance(tail, i) \in Slots /\ Distance(tail, i) < Size
    BY <2>1, DistanceRange DEF WindowHoldsTheTasks, Occupied, Free, RingTypeOK
  <2>3. At(tail, Distance(tail, i)) = i
    BY AtDistance DEF RingTypeOK
  <2>4. PICK k \in 1 .. Size : k - 1 = Distance(tail, i)
    BY <2>2, <1>1, MaxAssumption DEF Slots
  <2> QED
    BY <2>1, <2>3, <2>4, <1>1
<1>4. ASSUME NEW k \in DOMAIN Contents
      PROVE  Contents[k] \in released'
  <2>1. k \in 1 .. Size /\ Contents[k] = tasks[At(tail, k - 1)]
    BY <1>1
  <2>2. Contents[k] \in Tasks
    BY <1>1
  <2>3. PICK j \in Slots : j = k - 1
    BY <2>1, <1>1, MaxAssumption DEF Slots
  <2>4. At(tail, j) \in Slots
    BY AtByCases DEF RingTypeOK
  <2> QED
    BY <2>1, <2>2, <2>3, <2>4, PointerAssumption DEF Free
<1> QED
  BY <1>2, <1>3, <1>4

(* The ring is a bounded first-in first-out queue: every step of the ring is *)
(* a step of BoundedQueue or leaves its queue as it is.                      *)
THEOREM Refinement == RingSpec => IsBoundedQueue
<1> USE DEF Queue!Accepted, Queue!Refused, Queue!Nothing
<1>1. RingInit => Queue!QInit
  <2> SUFFICES ASSUME RingInit PROVE Queue!QInit
    OBVIOUS
  <2>1. Size = 0
    BY MaxAssumption DEF RingInit, Size, SizeOf
  <2>2. Contents = <<>>
    BY <2>1 DEF Contents
  <2> QED
    BY <2>2 DEF RingInit, Queue!QInit
<1>2. IInv /\ [RingNext]_ringVars => [Queue!QNext]_(Queue!qvars)
  <2> SUFFICES ASSUME IInv, [RingNext]_ringVars PROVE [Queue!QNext]_(Queue!qvars)
    OBVIOUS
  <2>1. ASSUME NEW t \in Tasks, Put(t) PROVE Queue!Enqueue(t)
    BY <2>1, PutAppends DEF Queue!Enqueue, Put
  <2>2. CASE PutRefused
    <3>1. Len(Contents) = Max
      BY <2>2, ContentsIsSeq, SizeIsDistance
         DEF PutRefused, IInv, RingTypeOK, Size
    <3>2. Contents' = Contents
      BY <2>2 DEF PutRefused, Contents, Size
    <3> QED
      BY <2>2, <3>1, <3>2 DEF PutRefused, Queue!Refuse, Queue!QNext
  <2>3. CASE GuardedGet
    BY <2>3, GetTakesHead
       DEF GuardedGet, RingGet, Queue!Dequeue, Queue!QNext
  <2>4. CASE Free
    BY <2>4, FreeReleases DEF Free, Queue!Release, Queue!QNext
  <2>5. CASE FreeCrashes
    BY <2>5 DEF FreeCrashes, Contents, Size, Queue!qvars
  <2>6. CASE UNCHANGED ringVars
    BY <2>6 DEF ringVars, Contents, Size, Queue!qvars
  <2> QED
    BY <2>1, <2>2, <2>3, <2>4, <2>5, <2>6 DEF RingNext, Queue!QNext
<1> QED
  BY <1>1, <1>2, Invariant, PTL DEF RingSpec, IsBoundedQueue, Queue!QSpec
=============================================================================
