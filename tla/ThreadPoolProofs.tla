-------------------------- MODULE ThreadPoolProofs --------------------------
(***************************************************************************)
(* Theorems about ThreadPool, for every number of workers, files and slots *)
(* and every set of workers whose creation may fail.                       *)
(***************************************************************************)
EXTENDS ThreadPoolInvariant, RingIndexProofs,
        SequenceTheorems

(* The window in each of the two situations of the ring. *)
LEMMA WindowFacts ==
  ASSUME TypeOK, full => ~InGet /\ head = tail
  PROVE  /\ Window \in 0 .. Max
         /\ Skip \in {0, 1}
         /\ Skip <= Window
         /\ ~InGet => Skip = 0 /\ Window = Size
         /\ InGet => Skip = 1
         /\ ~full /\ ~InGet => Window = Distance(tail, head) /\ Window < Max
         /\ InGet => Window = IF head = tail THEN Max ELSE Distance(tail, head)
<1>1. Distance(tail, head) \in Slots /\ (Distance(tail, head) = 0 <=> tail = head)
  BY DistanceRange DEF TypeOK
<1>2. Size = IF full THEN Max ELSE Distance(tail, head)
  BY SizeIsDistance DEF TypeOK, Size
<1> QED
  BY <1>1, <1>2, MaxAssumption DEF Window, Skip, Slots

(* Before the pool is created nothing is submitted and no worker runs.       *)
LEMMA InitInvariant == Init => IInv
<1> SUFFICES ASSUME Init PROVE IInv
  OBVIOUS
<1> USE PoolAssumption
<1>1. TypeOK
  <2>1. 0 \in Slots /\ 0 \in 0 .. NFiles
    BY MaxAssumption DEF Slots
  <2> QED
    BY <2>1 DEF Init, TypeOK, WorkerState, MainState
<1>2. ~InGet /\ Window = 0 /\ Skip = 0
  BY MaxAssumption DEF Init, InGet, Window, Skip, Distance
<1>3. Locks /\ Phases /\ Hands
  BY DEF Init, Locks, Phases, Hands, Polling, Stopped, SawNotFull
<1>4. Slotted
  <2>1. ASSUME NEW i \in Slots
        PROVE  ~(Distance(tail, i) < Window) /\ tasks[i] \notin Files
    BY <1>2, DistanceRange, MaxAssumption DEF Init, Slots, TypeOK, Distance
  <2> QED
    BY <1>2, <2>1 DEF Init, Slotted, Taken
<1>5. Places
  BY <1>2 DEF Init, Places, Running, Taken, Files
<1>6. Drained /\ Final /\ NoStrandedTask /\ NoStrandedSubmitter
  BY DEF Init, Drained, Final, NoStrandedTask, NoStrandedSubmitter, Stopped
<1> QED
  BY <1>1, <1>3, <1>4, <1>5, <1>6 DEF IInv
-----------------------------------------------------------------------------
(* Steps that leave the ring, the tasks and the workers inside cir_buffer_get*)
(* alone.                                                                    *)
Quiet ==
  /\ UNCHANGED <<ring, held, added, done, freed>>
  /\ \A w \in Workers : \A s \in {"advance", "run"} : pc'[w] = s <=> pc[w] = s
  /\ main' = "done" <=> main = "done"

(* A step that moves no task leaves the window and the places of all files.  *)
LEMMA QuietStep ==
  ASSUME IInv, Quiet
  PROVE  /\ Hands' /\ Slotted' /\ Places'
         /\ InGet' = InGet /\ Window' = Window /\ Skip' = Skip
<1>1. UNCHANGED <<tasks, head, tail, full, held, added, done, freed>>
  BY DEF Quiet, ring
<1>2. InGet' = InGet
  BY DEF Quiet, InGet
<1>3. Window' = Window /\ Skip' = Skip
  BY <1>1, <1>2 DEF Window, Skip
<1>4. Hands'
  BY <1>1 DEF Quiet, IInv, Hands
<1>5. Slotted'
  BY <1>1, <1>2, <1>3 DEF Quiet, IInv, Slotted, Taken
<1>6. Places'
  BY <1>1, <1>3 DEF Quiet, IInv, Places, Taken, Running
<1> QED
  BY <1>2, <1>3, <1>4, <1>5, <1>6

(* The steps of main and of the workers that are quiet. *)
QuietMain ==
  \/ \E w \in Workers : CreateWorker(w) \/ CreateFails(w)
  \/ PoolCreated \/ AddLock \/ AddWait \/ AddSignal \/ AddDone
  \/ PollFull \/ PollCompare \/ PollSubtract
  \/ StopPool \/ JoinCrashes \/ FreeCrashes
  \/ MainWakesSpuriously

QuietWorker ==
  \E w \in Workers :
    /\ main # "crashed"
    /\ \/ Acquire(w) \/ WaitReady(w) \/ ExitOnStop(w) \/ WakeSpuriously(w)

(* Main's steps outside put and free move no task.                           *)
LEMMA QuietMainIsQuiet ==
  ASSUME IInv, QuietMain
  PROVE  Quiet
<1> USE DEF IInv, TypeOK, Quiet, ring
<1>1. ASSUME NEW w \in Workers, CreateWorker(w) \/ CreateFails(w) PROVE Quiet
  BY <1>1 DEF CreateWorker, CreateFails
<1>2. CASE PoolCreated \/ AddLock \/ AddWait \/ AddDone
  BY <1>2 DEF PoolCreated, AddLock, AddWait, AddDone
<1>3. CASE AddSignal
  BY <1>3 DEF AddSignal
<1>4. CASE PollFull \/ PollCompare \/ PollSubtract
  BY <1>4 DEF PollFull, PollCompare, PollSubtract
<1>5. CASE StopPool
  BY <1>5 DEF StopPool
<1>6. CASE JoinCrashes \/ FreeCrashes \/ MainWakesSpuriously
  BY <1>6 DEF JoinCrashes, FreeCrashes, MainWakesSpuriously
<1> QED
  BY <1>1, <1>2, <1>3, <1>4, <1>5, <1>6 DEF QuietMain

(* A worker's steps for lock, wait and exit move no task, and leave main and *)
(* its flags alone.                                                          *)
LEMMA QuietWorkerIsQuiet ==
  ASSUME IInv, QuietWorker
  PROVE  Quiet /\ main' = main /\ UNCHANGED <<stop, added>>
BY DEF QuietWorker, Acquire, WaitReady, ExitOnStop, WakeSpuriously,
       IInv, TypeOK, Quiet, ring

(* Locking, waiting, waking and exit of a worker keep the invariant.         *)
LEMMA QuietWorkerStep ==
  ASSUME IInv, QuietWorker
  PROVE  IInv'
<1>1. Quiet /\ main' = main /\ UNCHANGED <<stop, added>>
  BY QuietWorkerIsQuiet
<1>2. Hands' /\ Slotted' /\ Places' /\ UNCHANGED <<InGet, Window, Skip>>
  BY <1>1, QuietStep
<1>3. UNCHANGED <<tasks, head, tail, full, held, added, done, freed, main, stop>>
  BY <1>1 DEF Quiet, ring
<1>4. TypeOK'
  BY <1>3, PoolAssumption
     DEF QuietWorker, Acquire, WaitReady, ExitOnStop, WakeSpuriously,
         IInv, TypeOK, WorkerState
<1>5. Locks'
  BY <1>3, PoolAssumption
     DEF QuietWorker, Acquire, WaitReady, ExitOnStop, WakeSpuriously,
         IInv, TypeOK, Locks
<1>6. Phases'
  BY <1>3
     DEF QuietWorker, Acquire, WaitReady, ExitOnStop, WakeSpuriously,
         IInv, TypeOK, Phases, SawNotFull, Polling, Stopped
<1>7. Drained' /\ Final'
  BY <1>2, <1>3 DEF IInv, Drained, Final
<1>8. NoStrandedTask'
  <2>1. CASE \E w \in Workers : WaitReady(w)
    (* The worker saw size 0 under the mutex: no other one is in a get. *)
    <3>1. PICK w \in Workers : WaitReady(w)
      BY <2>1
    <3>2. ~InGet
      BY <3>1, PoolAssumption DEF WaitReady, IInv, Locks, InGet
    <3>3. Window = 0 /\ Skip = 0
      BY <3>1, <3>2, WindowFacts DEF WaitReady, IInv, Slotted
    <3> QED
      BY <1>2, <3>3 DEF NoStrandedTask
  <2>2. CASE \E w \in Workers : Acquire(w) \/ WakeSpuriously(w) \/ ExitOnStop(w)
    BY <1>2, <1>3, <2>2
       DEF Acquire, WakeSpuriously, ExitOnStop, IInv, TypeOK, NoStrandedTask
  <2> QED
    BY <2>1, <2>2 DEF QuietWorker
<1>9. NoStrandedSubmitter'
  BY <1>2, <1>3 DEF IInv, NoStrandedSubmitter
<1> QED
  BY <1>2, <1>4, <1>5, <1>6, <1>7, <1>8, <1>9 DEF IInv

(* Main's waiting, polling, signalling and joining keep the invariant.       *)
LEMMA QuietMainStep ==
  ASSUME IInv, QuietMain
  PROVE  IInv'
<1>1. Quiet
  BY QuietMainIsQuiet
<1>2. Hands' /\ Slotted' /\ Places' /\ UNCHANGED <<InGet, Window, Skip>>
  BY <1>1, QuietStep
<1>3. UNCHANGED <<tasks, head, tail, full, held, added, done, freed>>
  BY <1>1 DEF Quiet, ring
<1> USE DEF QuietMain, CreateWorker, CreateFails, PoolCreated, AddLock, AddWait,
            AddSignal, AddDone, PollFull, PollCompare, PollSubtract, StopPool,
            JoinCrashes, FreeCrashes, MainWakesSpuriously
<1>4. TypeOK'
  BY <1>3, PoolAssumption DEF IInv, TypeOK, WorkerState, MainState
<1>5. Locks'
  BY <1>3, PoolAssumption DEF IInv, TypeOK, Locks
<1>6. Phases'
  BY <1>3 DEF IInv, TypeOK, Phases, SawNotFull, Polling, Stopped
<1>7. Drained'
  <2>1. CASE PollSubtract /\ head = tail /\ added < Max
    (* Nobody is in a get: with head = tail the ring would have been full.   *)
    <3>1. ~full /\ added \in 0 .. NFiles
      BY <2>1 DEF IInv, TypeOK, Phases, Polling, SawNotFull
    <3>2. ~InGet
      <4> SUFFICES ASSUME InGet PROVE FALSE
        OBVIOUS
      <4>1. Window = Max /\ Skip = 1
        BY <2>1, WindowFacts DEF IInv, Slotted
      <4>2. PICK w \in Workers : held[w] # NoTask
        BY DEF InGet, IInv, Hands
      <4>3. held[w] \in Files /\ held[w] \in Running
        BY <4>2, PoolAssumption DEF IInv, TypeOK, Running
      <4>4. held[w] <= Taken
        BY <2>1, <4>3 DEF IInv, Places
      <4> QED
        BY <2>1, <3>1, <4>1, <4>3, <4>4, MaxAssumption, PoolAssumption
           DEF Taken, Files
    <3>3. Window = 0
      BY <2>1, <3>1, <3>2, DistanceRange, WindowFacts DEF IInv, Slotted, TypeOK
    <3> QED
      BY <1>2, <3>3 DEF Drained
  <2>2. CASE ~(PollSubtract /\ head = tail)
    BY <1>2, <2>2, MaxAssumption
       DEF IInv, Drained, Stopped, TypeOK, Slots
  <2> QED
    BY <2>1, <2>2 DEF Drained
<1>8. Final'
  BY <1>1, <1>3 DEF IInv, Final, Quiet
<1>9. NoStrandedTask'
  <2>1. CASE PoolCreated
    (* Nothing was added yet. *)
    <3>1. added = 0 /\ ~InGet
      <4>1. added = 0
        BY <2>1 DEF IInv, Phases
      <4>2. ~InGet
        <5> SUFFICES ASSUME InGet PROVE FALSE
          OBVIOUS
        <5>1. PICK w \in Workers : held[w] # NoTask
          BY DEF InGet, IInv, Hands
        <5>2. held[w] \in Files /\ held[w] \in Running
          BY <5>1, PoolAssumption DEF IInv, TypeOK, Running
        <5>3. held[w] <= Taken /\ Window >= Skip /\ Window \in 0 .. Max
          BY <2>1, <5>2, WindowFacts DEF IInv, Places, Slotted
        <5> QED
          BY <4>1, <5>2, <5>3, MaxAssumption, PoolAssumption, WindowFacts
             DEF Taken, Files, IInv, Slotted
      <4> QED
        BY <4>1, <4>2
    <3>2. Window = 0 /\ Skip = 0
      BY <3>1, WindowFacts, MaxAssumption DEF IInv, Slotted, Taken
    <3> QED
      BY <1>2, <3>2 DEF NoStrandedTask
  <2>2. CASE AddSignal
    <3>1. CASE \E w \in Workers : pc'[w] = "woken"
      BY <3>1 DEF NoStrandedTask
    <3>2. CASE pc' = pc /\ \A w \in Workers : pc[w] # "wait"
      BY <2>2, <3>2
         DEF NoStrandedTask, IInv, TypeOK, WorkerState, Phases, Stopped
    <3> QED
      BY <2>2, <3>1, <3>2 DEF IInv, TypeOK
  <2>3. CASE ~PoolCreated /\ ~AddSignal
    BY <1>2, <1>3, <2>3 DEF NoStrandedTask, IInv, TypeOK
  <2> QED
    BY <2>1, <2>2, <2>3
<1>10. NoStrandedSubmitter'
  BY <1>2, <1>3 DEF IInv, NoStrandedSubmitter
<1> QED
  BY <1>2, <1>4, <1>5, <1>6, <1>7, <1>8, <1>9, <1>10 DEF IInv
-----------------------------------------------------------------------------
(* A put makes the window one longer; no file leaves the ring. *)
LEMMA AddPutAdds ==
  ASSUME IInv, AddPut
  PROVE  /\ ~InGet /\ ~InGet'
         /\ Window = Distance(tail, head) /\ Window \in Slots
         /\ Skip = 0 /\ Skip' = 0
         /\ head' \in Slots /\ added < NFiles /\ added + 1 \in Files
         /\ Window' = Window + 1
         /\ Taken' = Taken
<1> USE DEF IInv, TypeOK, AddPut
<1>1. ~InGet /\ ~InGet'
  BY PoolAssumption DEF Locks, InGet
<1>2. /\ Window = Distance(tail, head) /\ Window \in Slots
      /\ Skip = 0 /\ Skip' = 0
  BY <1>1, WindowFacts, DistanceRange DEF Slotted, Skip
<1>3. head' \in Slots /\ added < NFiles /\ added + 1 \in Files
  BY SuccByCases, PoolAssumption DEF Phases, Files
<1>4. Window' = Window + 1
  <2>1. CASE Succ(head) = tail
    <3>1. Distance(tail, head) = Max - 1
      BY <2>1, DistanceOfLast
    <3>2. full'
      BY <2>1
    <3>3. Window' = Max
      BY <3>2 DEF Window
    <3> QED
      BY <3>1, <3>3, <1>2, MaxAssumption
  <2>2. CASE Succ(head) # tail
    <3>1. Window' = Distance(tail, Succ(head))
      BY <2>2, <1>1 DEF Window
    <3> QED
      BY <2>2, <3>1, <1>2, DistanceToSucc
  <2> QED
    BY <2>1, <2>2
<1>5. Taken' = Taken
  BY <1>2, <1>4, MaxAssumption, PoolAssumption DEF Taken, Slots
<1> QED
  BY <1>1, <1>2, <1>3, <1>4, <1>5

(* add_to_pool puts file added + 1 right behind the window. *)
LEMMA AddPutStep ==
  ASSUME IInv, AddPut
  PROVE  IInv'
<1> USE DEF IInv, TypeOK, AddPut
<1>1. ~InGet /\ ~InGet'
  BY AddPutAdds
<1>2. /\ Window = Distance(tail, head) /\ Window \in Slots
      /\ Skip = 0 /\ Skip' = 0
  BY AddPutAdds
<1>3. head' \in Slots /\ added < NFiles /\ added + 1 \in Files
  BY AddPutAdds
<1>4. TypeOK'
  BY <1>3, PoolAssumption DEF MainState, Files
<1>5. Window' = Window + 1
  BY AddPutAdds
<1>6. Taken' = Taken
  BY AddPutAdds
<1>7. ASSUME NEW i \in Slots
      PROVE  IF Skip' <= Distance(tail, i) /\ Distance(tail, i) < Window'
             THEN tasks'[i] = added' - Window' + 1 + Distance(tail, i)
             ELSE tasks'[i] \notin Files
  <2>1. Distance(tail, i) \in Slots
    BY DistanceRange
  <2>2. Distance(tail, i) = Distance(tail, head) <=> i = head
    BY AtDistance
  <2>3. CASE i = head
    BY <2>3, <1>2, <1>5, MaxAssumption, PoolAssumption DEF Slots
  <2>4. CASE i # head
    <3>1. tasks'[i] = tasks[i] /\ Distance(tail, i) # Window
      BY <2>2, <2>4, <1>2
    <3>2. IF Distance(tail, i) < Window
          THEN tasks[i] = added - Window + 1 + Distance(tail, i)
          ELSE tasks[i] \notin Files
      BY <1>2, <2>1 DEF Slotted, Slots
    <3> QED
      BY <3>1, <3>2, <2>1, <1>2, <1>5, MaxAssumption, PoolAssumption DEF Slots
  <2> QED
    BY <2>3, <2>4
<1>8. Slotted'
  BY <1>1, <1>6, <1>7 DEF Slotted
<1>9. Places'
  BY <1>6 DEF Places, Running
<1>10. Locks' /\ Phases' /\ Hands'
  BY PoolAssumption, <1>3
     DEF Locks, Phases, Hands, Polling, Stopped, SawNotFull
<1>11. Drained' /\ Final' /\ NoStrandedTask' /\ NoStrandedSubmitter'
  BY DEF Drained, Final, NoStrandedTask, NoStrandedSubmitter, Stopped
<1> QED
  BY <1>4, <1>8, <1>9, <1>10, <1>11

(* The file in the slot at tail, before a get, is the next one to be taken.  *)
LEMMA TakeSlotTakes ==
  ASSUME IInv, NEW w \in Workers, TakeSlot(w), main # "crashed"
  PROVE  /\ ~InGet /\ InGet' /\ Skip = 0 /\ Skip' = 1
         /\ Window \in 1 .. Max /\ Window' = Window
         /\ tasks[tail] = Taken + 1 /\ Taken + 1 \in Files
         /\ Taken \in Nat /\ Taken' = Taken + 1
         /\ main # "done"
<1> USE DEF IInv, TypeOK, TakeSlot
<1>1. ~InGet
  BY PoolAssumption DEF Locks, InGet
<1>2. InGet'
  BY DEF InGet
<1>3. Skip = 0 /\ Skip' = 1 /\ Window = Size /\ Window \in 1 .. Max
  BY <1>1, <1>2, WindowFacts DEF Slotted, Skip
<1>4. Distance(tail, head) \in Slots /\ (Distance(tail, head) = 0 <=> tail = head)
  BY DistanceRange
<1>5. Window' = Window
  <2>1. CASE full
    BY <2>1, <1>2 DEF Slotted, Window
  <2>2. CASE ~full
    BY <2>2, <1>1, <1>2, <1>3, <1>4 DEF Window
  <2> QED
    BY <2>1, <2>2
<1>6. main # "done"
  BY DEF Phases
<1>7. Distance(tail, tail) = 0
  BY DistanceRange
<1>8. tasks[tail] = added - Window + 1
  BY <1>3, <1>6, <1>7, MaxAssumption DEF Slotted
<1>9. Taken \in Nat /\ Taken = added - Window /\ Taken' = Taken + 1
  BY <1>3, <1>5, MaxAssumption, PoolAssumption DEF Taken, Slotted
<1>10. Taken + 1 \in Files
  BY <1>3, <1>9, MaxAssumption, PoolAssumption DEF Files
<1> QED
  BY <1>1, <1>2, <1>3, <1>5, <1>6, <1>8, <1>9, <1>10, MaxAssumption,
     PoolAssumption

(* The worker that gets a file is the one that runs it. *)
LEMMA TakeSlotRuns ==
  ASSUME IInv, NEW w \in Workers, TakeSlot(w), main # "crashed"
  PROVE  /\ held[w] = NoTask /\ held' = [held EXCEPT ![w] = Taken + 1]
         /\ Running' = Running \cup {Taken + 1}
<1> USE DEF IInv, TypeOK, TakeSlot
<1>1. tasks[tail] = Taken + 1 /\ Taken + 1 \in Files
  BY TakeSlotTakes
<1>2. held[w] = NoTask /\ held' = [held EXCEPT ![w] = Taken + 1]
  BY <1>1 DEF Hands
<1>3. ASSUME NEW f \in Files
      PROVE  f \in Running' <=> f \in Running \/ f = Taken + 1
  BY <1>1, <1>2, <1>3, PoolAssumption DEF Running
<1> QED
  BY <1>1, <1>2, <1>3 DEF Running

(* A worker that reads the slot at tail keeps the invariant: the task is in  *)
(* its hands before tail moves on.                                           *)
LEMMA TakeSlotStep ==
  ASSUME IInv, NEW w \in Workers, TakeSlot(w), main # "crashed"
  PROVE  IInv'
<1> USE DEF IInv, TypeOK, TakeSlot
<1>1. /\ ~InGet /\ InGet' /\ Skip = 0 /\ Skip' = 1
      /\ Window \in 1 .. Max /\ Window' = Window
      /\ tasks[tail] = Taken + 1 /\ Taken + 1 \in Files
      /\ Taken \in Nat /\ Taken' = Taken + 1
      /\ main # "done"
  BY TakeSlotTakes
<1>2. TypeOK'
  BY <1>1 DEF WorkerState
<1>3. ASSUME NEW i \in Slots
      PROVE  IF Skip' <= Distance(tail, i) /\ Distance(tail, i) < Window'
             THEN tasks'[i] = added - Window' + 1 + Distance(tail, i)
             ELSE tasks'[i] \notin Files
  <2>1. Distance(tail, i) \in Slots /\ (Distance(tail, i) = 0 <=> tail = i)
    BY DistanceRange
  <2>2. CASE i = tail
    BY <1>1, <2>1, <2>2, PoolAssumption
  <2>3. CASE i # tail
    BY <1>1, <2>1, <2>3, MaxAssumption DEF Slotted, Slots
  <2> QED
    BY <2>2, <2>3
<1>4. Slotted'
  <2>1. full' = FALSE /\ tail' = tail /\ added' = added /\ Taken' >= 0
    BY <1>1
  <2> QED
    BY <1>3, <2>1 DEF Slotted
<1>5. held[w] = NoTask /\ held' = [held EXCEPT ![w] = Taken + 1]
  BY TakeSlotRuns
<1>6. Places'
  <2>1. Running' = Running \cup {Taken + 1}
    BY TakeSlotRuns
  <2>2. \A f \in Files : f \in Running \cup done <=> f <= Taken
    BY <1>1 DEF Places
  <2>3. \A f \in Files : f <= Taken + 1 <=> f <= Taken \/ f = Taken + 1
    BY <1>1, PoolAssumption DEF Files
  <2>4. Taken + 1 \notin Running \cup done
    BY <1>1, <2>2
  <2>5. \A f \in Files : f \in Running' \cup done' <=> f <= Taken'
    BY <1>1, <2>1, <2>2, <2>3
  <2>6. Running' \cap done' = {}
    BY <2>1, <2>4 DEF Places
  <2>7. \A v \in Workers : held[v] # Taken + 1
    BY <1>1, <2>4 DEF Running
  <2>8. \A u, v \in Workers :
          held'[u] # NoTask /\ held'[u] = held'[v] => u = v
    BY <1>5, <2>7 DEF Places
  <2> QED
    BY <1>1, <2>5, <2>6, <2>8 DEF Places
<1>7. Locks'
  BY DEF Locks
<1>8. Phases'
  BY DEF Phases
<1>9. Hands'
  BY <1>1, PoolAssumption DEF Hands
<1>10. Drained'
  BY <1>1 DEF Drained
<1>11. Final' /\ NoStrandedTask' /\ NoStrandedSubmitter'
  BY <1>1 DEF Final, NoStrandedTask, NoStrandedSubmitter, InGet
<1> QED
  BY <1>2, <1>4, <1>6, <1>7, <1>8, <1>9, <1>10, <1>11

(* The end of a get drops the emptied slot from the window. *)
LEMMA AdvanceTailAdvances ==
  ASSUME IInv, NEW w \in Workers, AdvanceTail(w), main # "crashed"
  PROVE  /\ InGet /\ ~InGet'
         /\ ~full /\ ~full' /\ held[w] # NoTask
         /\ tail' \in Slots /\ main' \in {main, "wokenFull"} /\ main # "done"
         /\ Skip = 1 /\ Skip' = 0 /\ Window \in 1 .. Max
         /\ Window = IF head = tail THEN Max ELSE Distance(tail, head)
         /\ Window' = Window - 1
         /\ Taken' = Taken
<1> USE DEF IInv, TypeOK, AdvanceTail
<1>1. InGet /\ ~InGet'
  <2>1. InGet
    BY DEF InGet
  <2>2. mu = w /\ \A v \in Workers : pc[v] = "advance" => v = w
    BY DEF Locks
  <2>3. \A v \in Workers : pc'[v] # "advance"
    BY <2>2
  <2> QED
    BY <2>1, <2>3 DEF InGet
<1>2. ~full /\ ~full' /\ held[w] # NoTask
  BY <1>1 DEF Slotted, Hands
<1>3. tail' \in Slots /\ main' \in {main, "wokenFull"} /\ main # "done"
  BY SuccByCases DEF Phases
<1>4. /\ Skip = 1 /\ Skip' = 0 /\ Window \in 1 .. Max
      /\ Window = IF head = tail THEN Max ELSE Distance(tail, head)
  BY <1>1, WindowFacts, MaxAssumption DEF Slotted, Skip
<1>5. Window' = Window - 1
  <2>1. Window' = Distance(Succ(tail), head)
    BY <1>1, <1>2 DEF Window
  <2> QED
    BY <2>1, <1>4, DistanceFromSucc
<1>6. Taken' = Taken
  BY <1>4, <1>5, MaxAssumption, PoolAssumption DEF Taken
<1> QED
  BY <1>1, <1>2, <1>3, <1>4, <1>5, <1>6

(* The window moves on past the slot that was emptied. *)
LEMMA AdvanceTailStep ==
  ASSUME IInv, NEW w \in Workers, AdvanceTail(w), main # "crashed"
  PROVE  IInv'
<1> USE DEF IInv, TypeOK, AdvanceTail
<1>2. ~full /\ ~full' /\ held[w] # NoTask
  BY AdvanceTailAdvances
<1>3. tail' \in Slots /\ main' \in {main, "wokenFull"} /\ main # "done"
  BY AdvanceTailAdvances
<1>4. /\ Skip = 1 /\ Skip' = 0 /\ Window \in 1 .. Max
      /\ Window = IF head = tail THEN Max ELSE Distance(tail, head)
  BY AdvanceTailAdvances
<1>5. Window' = Window - 1
  BY AdvanceTailAdvances
<1>6. Taken' = Taken
  BY AdvanceTailAdvances
<1>7. TypeOK'
  BY <1>3 DEF WorkerState, MainState
<1>8. ASSUME NEW i \in Slots
      PROVE  IF Skip' <= Distance(tail', i) /\ Distance(tail', i) < Window'
             THEN tasks[i] = added - Window' + 1 + Distance(tail', i)
             ELSE tasks[i] \notin Files
  <2>1. Distance(tail, i) \in Slots /\ (Distance(tail, i) = 0 <=> tail = i)
    BY DistanceRange
  <2>2. Distance(tail', i) = IF i = tail THEN Max - 1 ELSE Distance(tail, i) - 1
    BY DistanceFromSucc
  <2>3. IF 1 <= Distance(tail, i) /\ Distance(tail, i) < Window
        THEN tasks[i] = added - Window + 1 + Distance(tail, i)
        ELSE tasks[i] \notin Files
    BY <1>3, <1>4 DEF Slotted
  <2>4. CASE i = tail
    <3>1. tasks[i] \notin Files
      BY <2>1, <2>3, <2>4
    <3>2. ~(Distance(tail', i) < Window')
      BY <2>2, <2>4, <1>4, <1>5, MaxAssumption
    <3> QED
      BY <3>1, <3>2
  <2>5. CASE i # tail
    <3>1. PICK d \in Slots : d = Distance(tail, i) /\ d # 0
      BY <2>1, <2>5
    <3>2. Distance(tail', i) = d - 1
      BY <2>2, <2>5, <3>1
    <3>3. added - Window' + 1 + (d - 1) = added - Window + 1 + d
      <4>1. added \in Int /\ Window \in Int /\ d \in Int
        BY <1>4, <3>1, MaxAssumption, PoolAssumption DEF Slots
      <4> QED
        BY ONLY <1>5, <4>1
    <3>4. Skip' <= d - 1 /\ d - 1 < Window' <=> 1 <= d /\ d < Window
      BY <1>4, <1>5, <3>1, MaxAssumption DEF Slots
    <3>5. IF 1 <= d /\ d < Window
          THEN tasks[i] = added - Window + 1 + d
          ELSE tasks[i] \notin Files
      BY <2>3, <3>1
    <3>6. CASE 1 <= d /\ d < Window
      BY <3>2, <3>3, <3>4, <3>5, <3>6
    <3>7. CASE ~(1 <= d /\ d < Window)
      BY <3>2, <3>4, <3>5, <3>7
    <3> QED
      BY <3>6, <3>7
  <2> QED
    BY <2>4, <2>5
<1>9. Slotted'
  BY <1>2, <1>6, <1>8 DEF Slotted
<1>10. Places'
  BY <1>3, <1>6 DEF Places, Running
<1>11. Locks'
  BY <1>3, PoolAssumption DEF Locks
<1>12. Phases'
  BY <1>2, <1>3 DEF Phases, Polling, Stopped, SawNotFull
<1>13. Hands'
  BY DEF Hands
<1>14. Drained'
  BY <1>3, <1>4 DEF Drained, Stopped
<1>15. Final' /\ NoStrandedTask' /\ NoStrandedSubmitter'
  BY <1>2, <1>3 DEF Final, NoStrandedTask, NoStrandedSubmitter
<1> QED
  BY <1>7, <1>9, <1>10, <1>11, <1>12, <1>13, <1>14, <1>15

(* A file whose task returns is no longer in anybody's hands. *)
LEMMA RunTaskReturns ==
  ASSUME IInv, NEW w \in Workers, RunTask(w), main # "crashed"
  PROVE  held[w] \in Running /\ Running' = Running \ {held[w]}
<1> USE DEF IInv, TypeOK, RunTask
<1>1. held[w] \in Files /\ held[w] # NoTask /\ main # "done"
  BY PoolAssumption DEF Hands, Phases
<1>2. \A v \in Workers : held[v] = held[w] => v = w
  BY <1>1 DEF Places
<1>3. \A f \in Files : f \in Running' <=> f \in Running /\ f # held[w]
  BY <1>2, PoolAssumption DEF Running
<1> QED
  BY <1>1, <1>3 DEF Running

(* A task that ends moves from a worker's hands to the processed files. *)
LEMMA RunTaskStep ==
  ASSUME IInv, NEW w \in Workers, RunTask(w), main # "crashed"
  PROVE  IInv'
<1> USE DEF IInv, TypeOK, RunTask
<1>1. UNCHANGED <<tasks, head, tail, full, mu, stop, main, added, freed>>
  BY DEF ring
<1>2. InGet' = InGet /\ Window' = Window /\ Skip' = Skip /\ Taken' = Taken
  <2>1. InGet' = InGet
    BY DEF InGet
  <2> QED
    BY <2>1, <1>1 DEF Window, Skip, Taken
<1>3. held[w] \in Files /\ held[w] # NoTask /\ main # "done"
  BY PoolAssumption DEF Hands, Phases
<1>4. TypeOK'
  BY <1>1, <1>3 DEF WorkerState
<1>5. Slotted'
  BY <1>1, <1>2 DEF Slotted
<1>6. Places'
  <2>1. held[w] \in Running /\ Running' = Running \ {held[w]}
    BY RunTaskReturns
  <2>2. \A f \in Files : f \in Running' <=> f \in Running /\ f # held[w]
    BY <2>1
  <2>4. \A f \in Files : f \in Running' \cup done' <=> f \in Running \cup done
    BY <2>1
  <2>5. Running' \cap done' = {}
    BY <2>2, <1>4 DEF Places, Running
  <2>6. \A u, v \in Workers : held'[u] # NoTask /\ held'[u] = held'[v] => u = v
    BY DEF Places
  <2> QED
    BY <1>1, <1>2, <1>3, <2>4, <2>5, <2>6 DEF Places
<1>7. Locks' /\ Phases' /\ Hands'
  BY <1>1 DEF Locks, Phases, Hands
<1>8. Drained' /\ Final' /\ NoStrandedTask' /\ NoStrandedSubmitter'
  BY <1>1, <1>2, <1>3 DEF Drained, Final, NoStrandedTask, NoStrandedSubmitter
<1> QED
  BY <1>4, <1>5, <1>6, <1>7, <1>8

(* The queued files are those behind the taken ones, each in its own slot. *)
LEMMA QueuedFiles ==
  ASSUME IInv, main # "done"
  PROVE  /\ Taken \in 0 .. added
         /\ \A f \in Files : f \in Queued <=> Taken < f /\ f <= added
         /\ \A i, j \in Slots : tasks[i] \in Files /\ tasks[i] = tasks[j] => i = j
<1> USE DEF IInv, TypeOK
<1>1. /\ Window \in 0 .. Max /\ Skip \in {0, 1} /\ Skip <= Window
      /\ added \in Int
  BY WindowFacts, PoolAssumption DEF Slotted
<1>2. Taken \in 0 .. added
  BY <1>1, MaxAssumption, PoolAssumption DEF Taken, Slotted
<1>3. ASSUME NEW i \in Slots, tasks[i] \in Files
      PROVE  /\ Skip <= Distance(tail, i) /\ Distance(tail, i) < Window
             /\ tasks[i] = added - Window + 1 + Distance(tail, i)
  BY <1>3 DEF Slotted
<1>4. ASSUME NEW i \in Slots, tasks[i] \in Files
      PROVE  Taken < tasks[i] /\ tasks[i] <= added
  <2>1. PICK d \in Slots : d = Distance(tail, i)
    BY DistanceRange
  <2>2. Skip <= d /\ d < Window /\ tasks[i] = added - Window + 1 + d
    BY <1>3, <1>4, <2>1
  <2> QED
    BY <1>1, <2>2, MaxAssumption DEF Taken, Slots
<1>5. ASSUME NEW f \in Files, Taken < f, f <= added
      PROVE  \E i \in Slots : tasks[i] = f
  <2>1. PICK d \in Slots :
          Skip <= d /\ d < Window /\ f = added - Window + 1 + d
    <3>1. f - added + Window - 1 \in Slots
      BY <1>1, <1>5, MaxAssumption, PoolAssumption DEF Taken, Slots, Files
    <3> QED
      BY <3>1, <1>1, <1>5, MaxAssumption, PoolAssumption
         DEF Taken, Slots, Files
  <2>2. At(tail, d) \in Slots /\ Distance(tail, At(tail, d)) = d
    BY AtByCases, DistanceAt
  <2>3. tasks[At(tail, d)] = f
    BY <2>1, <2>2 DEF Slotted
  <2> QED
    BY <2>2, <2>3
<1>6. ASSUME NEW i \in Slots, NEW j \in Slots,
             tasks[i] \in Files, tasks[i] = tasks[j]
      PROVE  i = j
  <2>1. PICK d \in Slots : d = Distance(tail, i)
    BY DistanceRange
  <2>2. PICK e \in Slots : e = Distance(tail, j)
    BY DistanceRange
  <2>3. added - Window + 1 + d = added - Window + 1 + e
    BY <1>3, <1>6, <2>1, <2>2
  <2>4. d = e
    BY <1>1, <2>3, MaxAssumption DEF Slots
  <2>5. At(tail, d) = i /\ At(tail, e) = j
    BY <2>1, <2>2, AtDistance
  <2> QED
    BY <2>4, <2>5
<1>7. \A f \in Files : f \in Queued <=> Taken < f /\ f <= added
  BY <1>4, <1>5 DEF Queued
<1> QED
  BY <1>2, <1>6, <1>7

(* The ring is freed when every worker has left; a file in it is lost. *)
LEMMA JoinAndFreeStep ==
  ASSUME IInv, JoinAndFree
  PROVE  IInv'
<1> USE DEF IInv, TypeOK, JoinAndFree
<1>1. ~InGet /\ ~InGet' /\ ~full /\ stop
  BY DEF InGet, Phases, SawNotFull, Stopped
<1>2. Window < Max /\ Window \in 0 .. Max /\ Skip = 0 /\ Taken = added - Window
  BY <1>1, WindowFacts, MaxAssumption, PoolAssumption DEF Slotted, Taken
<1>3. Window' = Window /\ Skip' = Skip /\ Taken' = Taken
  BY <1>1 DEF Window, Skip, Taken
<1>4. \A w \in Workers : held[w] = NoTask
  BY DEF Hands
<1>5. Running = {} /\ Running' = {}
  BY <1>4, PoolAssumption DEF Running
<1>6. /\ freed' = Queued /\ Taken \in 0 .. added
      /\ \A f \in Files : f \in Queued <=> Taken < f /\ f <= added
  BY QueuedFiles DEF Queued
<1>7. \A f \in Files : f \in done <=> f <= Taken
  BY <1>5 DEF Places
<1>8. done \cup freed' = 1 .. added /\ done \cap freed' = {}
  BY <1>1, <1>6, <1>7, PoolAssumption DEF Files, Queued
<1>9. \A f \in freed' : f > added - (Max - 1)
  BY <1>1, <1>2, <1>6, MaxAssumption, PoolAssumption DEF Queued, Files
<1>10. added < Max => freed' = {}
  <2> SUFFICES ASSUME added < Max PROVE freed' = {}
    OBVIOUS
  <2>1. Window = 0
    BY DEF Drained, Stopped
  <2> QED
    BY <1>2, <1>6, <2>1, PoolAssumption DEF Queued, Files
<1>11. Final'
  BY <1>8, <1>9, <1>10 DEF Final
<1>12. TypeOK'
  BY <1>6 DEF MainState, Queued
<1>13. Slotted' /\ Places'
  BY <1>1, <1>3, <1>4, <1>5 DEF Slotted, Places
<1>14. Locks' /\ Hands' /\ Phases'
  BY DEF Locks, Hands, Phases, Polling, Stopped, SawNotFull
<1>15. Drained' /\ NoStrandedTask' /\ NoStrandedSubmitter'
  BY <1>1, <1>3 DEF Drained, NoStrandedTask, NoStrandedSubmitter, Stopped
<1> QED
  BY <1>11, <1>12, <1>13, <1>14, <1>15
-----------------------------------------------------------------------------
(* Every step of main and of the workers keeps the invariant.                *)
LEMMA NextInvariant == IInv /\ [Next]_vars => IInv'
<1> SUFFICES ASSUME IInv, [Next]_vars PROVE IInv'
  OBVIOUS
<1>1. CASE QuietMain
  BY <1>1, QuietMainStep
<1>2. CASE QuietWorker
  BY <1>2, QuietWorkerStep
<1>3. CASE AddPut
  BY <1>3, AddPutStep
<1>4. CASE JoinAndFree
  BY <1>4, JoinAndFreeStep
<1>5. ASSUME NEW w \in Workers, main # "crashed",
             TakeSlot(w) \/ AdvanceTail(w) \/ RunTask(w)
      PROVE  IInv'
  BY <1>5, TakeSlotStep, AdvanceTailStep, RunTaskStep
<1>6. CASE UNCHANGED vars
  BY <1>6
     DEF vars, ring, IInv, TypeOK, Locks, Phases, Hands, Slotted, Places, Drained,
         Final, NoStrandedTask, NoStrandedSubmitter, Taken, Window, Skip, InGet,
         Running
<1> QED
  BY <1>1, <1>2, <1>3, <1>4, <1>5, <1>6
     DEF Next, MainStep, WorkerStep, SpuriousWakeup, Finished, QuietMain,
         QuietWorker, WakeSpuriously

(* The inductive invariant holds of every behaviour of the pool. *)
LEMMA Invariant == Spec => []IInv
BY InitInvariant, NextInvariant, PTL DEF Spec

(* Every variable keeps its type: head and tail never leave the ring, and    *)
(* main never submits more files than there are.                             *)
THEOREM TypeCorrect == Spec => []TypeOK
<1>1. IInv => TypeOK
  BY DEF IInv
<1> QED
  BY <1>1, Invariant, PTL

(* No interleaving of main and the workers duplicates, overwrites or drops a *)
(* file: at every instant each submitted file is in exactly one slot, one    *)
(* worker's hands, the processed files, or the ring that was freed.          *)
THEOREM PlaceCorrect == Spec => []EveryFileInOnePlace
<1>1. ASSUME IInv, main # "done" PROVE EveryFileInOnePlace
  <2> USE DEF IInv, TypeOK
  <2>1. /\ Taken \in 0 .. added /\ added \in 0 .. NFiles
        /\ \A f \in Files : f \in Queued <=> Taken < f /\ f <= added
        /\ \A i, j \in Slots :
             tasks[i] \in Files /\ tasks[i] = tasks[j] => i = j
    BY <1>1, QueuedFiles
  <2>2. /\ freed = {}
        /\ \A f \in Files : f \in Running \cup done <=> f <= Taken
        /\ Running \cap done = {}
        /\ \A v, w \in Workers : held[v] # NoTask /\ held[v] = held[w] => v = w
    BY <1>1 DEF Places
  <2>3. Queued \subseteq Files /\ Running \subseteq Files /\ done \subseteq Files
    BY <1>1 DEF Queued, Running
  <2>4. Queued \cup Running \cup done \cup freed = 1 .. added
    <3>1. Files = 1 .. NFiles /\ 1 .. added \subseteq Files
      BY <2>1, PoolAssumption DEF Files
    <3>2. \A f \in Files :
            f \in Queued \cup Running \cup done <=> f \in 1 .. added
      BY <2>1, <2>2, <3>1, PoolAssumption
    <3> QED
      BY <2>2, <2>3, <3>1, <3>2
  <2>5. Queued \cap (Running \cup done) = {}
    BY <2>1, <2>2, <2>3, PoolAssumption DEF Files
  <2> QED
    BY <2>1, <2>2, <2>4, <2>5, PoolAssumption DEF EveryFileInOnePlace
<1>2. ASSUME IInv, main = "done" PROVE EveryFileInOnePlace
  <2> USE DEF IInv, TypeOK
  <2>1. \A w \in Workers : pc[w] \in {"exited", "failed"}
    BY <1>2 DEF Phases, Stopped
  <2>2. \A w \in Workers : held[w] = NoTask
    BY <1>2, <2>1 DEF Hands
  <2>3. Running = {} /\ Queued = {}
    BY <1>2, <2>2, PoolAssumption DEF Running, Queued, Final
  <2> QED
    BY <1>2, <2>1, <2>2, <2>3, PoolAssumption
       DEF EveryFileInOnePlace, Final, Files
<1>3. IInv => EveryFileInOnePlace
  BY <1>1, <1>2
<1> QED
  BY <1>3, Invariant, PTL

(* What the race between main's poll and cir_buffer_get can lose is bounded: *)
(* fewer than Max files, the last ones, and none if there are fewer than Max.*)
THEOREM LossBounded == Spec => []OnlyTheLastFilesAreLost
<1>1. IInv => OnlyTheLastFilesAreLost
  BY DEF IInv, OnlyTheLastFilesAreLost, Final, Places
<1> QED
  BY <1>1, Invariant, PTL

(* No wakeup is lost: a task in the ring finds a worker that is awake. *)
THEOREM NoTaskStranded == Spec => []NoStrandedTask
<1>1. IInv => NoStrandedTask
  BY DEF IInv
<1> QED
  BY <1>1, Invariant, PTL

(* main waits only for a ring that is full or about to be signalled. *)
THEOREM NoSubmitterStranded == Spec => []NoStrandedSubmitter
<1>1. IInv => NoStrandedSubmitter
  BY DEF IInv
<1> QED
  BY <1>1, Invariant, PTL

(* cir_buffer_free meets an uninitialized slot only in a ring that never went*)
(* round: a crash at the end of the pool has one of the two known causes.    *)
THEOREM CrashHasCause == Spec => []CrashExplained
<1> DEFINE Inv == Unwritten /\ CrashExplained
<1>1. Init => Inv
  BY PoolAssumption, MaxAssumption DEF Init, Unwritten, CrashExplained, Slots
<1>2. ASSUME IInv, Inv, [Next]_vars PROVE Inv'
  <2> USE <1>2 DEF IInv, TypeOK
  <2>1. CASE AddPut
    <3>1. head' = IF head + 1 = Max THEN 0 ELSE head + 1
      BY <2>1, SuccByCases DEF AddPut
    <3>2. ASSUME NEW i \in Slots, tasks'[i] = Unset
          PROVE  added' = head' /\ head' <= i
      <4>1. i # head /\ tasks[i] = Unset
        BY <2>1, <3>2, PoolAssumption DEF AddPut, Files, Phases
      <4>2. added = head /\ head < i /\ head + 1 # Max
        BY <4>1, MaxAssumption DEF Unwritten, Slots
      <4> QED
        BY <2>1, <3>1, <4>2, MaxAssumption DEF AddPut, Slots
    <3> QED
      BY <2>1, <3>2 DEF AddPut, Unwritten, CrashExplained
  <2>2. CASE JoinAndFree
    BY <2>2, PoolAssumption DEF JoinAndFree, Unwritten, CrashExplained
  <2>3. ASSUME NEW w \in Workers, main # "crashed", TakeSlot(w)
        PROVE  Inv'
    BY <2>3, PoolAssumption DEF TakeSlot, Unwritten, CrashExplained
  <2>4. CASE FreeCrashes
    BY <2>4, MaxAssumption DEF FreeCrashes, ring, Unwritten, CrashExplained, Slots
  <2>5. CASE JoinCrashes
    BY <2>5 DEF JoinCrashes, ring, Unwritten, CrashExplained
  <2>6. CASE UNCHANGED vars
    BY <2>6 DEF vars, ring, Unwritten, CrashExplained
  <2>7. ASSUME UNCHANGED <<tasks, head, added>>, main' # "crashed"
        PROVE  Inv'
    BY <2>7 DEF Unwritten, CrashExplained
  <2>8. ASSUME NEW w \in Workers, main # "crashed",
               \/ Acquire(w) \/ WaitReady(w) \/ ExitOnStop(w)
               \/ AdvanceTail(w) \/ RunTask(w) \/ WakeSpuriously(w)
        PROVE  Inv'
    BY <2>7, <2>8 DEF Acquire, WaitReady, ExitOnStop, AdvanceTail, RunTask,
       WakeSpuriously, ring
  <2>9. ASSUME NEW w \in Workers, CreateWorker(w) \/ CreateFails(w)
        PROVE  Inv'
    BY <2>7, <2>9 DEF CreateWorker, CreateFails, ring
  <2>10. CASE \/ PoolCreated \/ AddLock \/ AddWait \/ AddSignal \/ AddDone
              \/ PollFull \/ PollCompare \/ PollSubtract \/ StopPool
              \/ MainWakesSpuriously
    BY <2>7, <2>10
       DEF PoolCreated, AddLock, AddWait, AddSignal, AddDone, PollFull,
           PollCompare, PollSubtract, StopPool, MainWakesSpuriously, ring
  <2>11. CASE MainStep
    BY <2>1, <2>2, <2>4, <2>5, <2>9, <2>10, <2>11 DEF MainStep
  <2>12. ASSUME NEW w \in Workers, WorkerStep(w) \/ WakeSpuriously(w)
         PROVE  Inv'
    BY <2>3, <2>8, <2>12 DEF WorkerStep, WakeSpuriously
  <2> HIDE DEF Inv
  <2> QED
    BY <1>2, <2>6, <2>10, <2>11, <2>12 DEF Next, SpuriousWakeup, Finished
<1>3. Inv => CrashExplained
  OBVIOUS
<1> QED
  BY <1>1, <1>2, <1>3, Invariant, PTL DEF Spec
-----------------------------------------------------------------------------
(* The files after the m-th, up to the n-th, in the order of submission.     *)
Run(m, n) == [k \in 1 .. (n - m) |-> m + k]

(* A run is a sequence that grows at its end and shrinks at its head.        *)
LEMMA RunFacts ==
  ASSUME NEW m \in Nat, NEW n \in Nat, m <= n
  PROVE  /\ Run(m, n) \in Seq(Nat) /\ Len(Run(m, n)) = n - m
         /\ Append(Run(m, n), n + 1) = Run(m, n + 1)
         /\ Run(m, n) = <<>> <=> m = n
         /\ m < n => /\ Head(Run(m, n)) = m + 1
                     /\ Tail(Run(m, n)) = Run(m + 1, n)
<1>1. PICK d \in Nat : n = m + d
  <2>1. n - m \in Nat /\ n = m + (n - m)
    OBVIOUS
  <2> QED
    BY <2>1
<1>2. /\ Run(m, n) = [k \in 1 .. d |-> m + k]
      /\ Run(m, n + 1) = [k \in 1 .. (d + 1) |-> m + k]
      /\ Run(m + 1, n) = [k \in 1 .. (d - 1) |-> m + 1 + k]
  <2>1. n - m = d /\ n + 1 - m = d + 1 /\ n - (m + 1) = d - 1
    BY <1>1
  <2> QED
    BY <2>1 DEF Run
<1>3. Run(m, n) \in Seq(Nat) /\ Len(Run(m, n)) = d
  BY <1>2
<1>4. Append(Run(m, n), n + 1) = Run(m, n + 1)
  <2>1. /\ Run(m, n + 1) \in Seq(Nat) /\ Len(Run(m, n + 1)) = d + 1
        /\ \A k \in 1 .. (d + 1) : Run(m, n + 1)[k] = m + k
    BY <1>2
  <2>2. /\ Append(Run(m, n), n + 1) \in Seq(Nat)
        /\ Len(Append(Run(m, n), n + 1)) = d + 1
        /\ \A k \in 1 .. d : Append(Run(m, n), n + 1)[k] = Run(m, n)[k]
        /\ Append(Run(m, n), n + 1)[d + 1] = n + 1
    BY <1>3, AppendProperties
  <2>3. ASSUME NEW k \in 1 .. (d + 1)
        PROVE  Append(Run(m, n), n + 1)[k] = m + k
    <3>1. CASE k = d + 1
      BY <1>1, <2>2, <3>1
    <3>2. CASE k # d + 1
      <4>1. k \in 1 .. d
        BY <3>2
      <4> QED
        BY <1>2, <2>2, <4>1
    <3> QED
      BY <3>1, <3>2
  <2>4. /\ Len(Append(Run(m, n), n + 1)) = Len(Run(m, n + 1))
        /\ \A k \in 1 .. Len(Append(Run(m, n), n + 1)) :
             Append(Run(m, n), n + 1)[k] = Run(m, n + 1)[k]
    BY <2>1, <2>2, <2>3
  <2> QED
    BY <2>1, <2>2, <2>4, SeqEqual
<1>5. Run(m, n) = <<>> <=> d = 0
  <2>1. ASSUME Run(m, n) = <<>> PROVE d = 0
    BY <1>3, <2>1, EmptySeq
  <2>2. ASSUME Run(m, n) # <<>> PROVE d # 0
    BY <1>3, <2>2, EmptySeq
  <2> QED
    BY <2>1, <2>2
<1>6. ASSUME d > 0
      PROVE  Head(Run(m, n)) = m + 1 /\ Tail(Run(m, n)) = Run(m + 1, n)
  <2>1. Run(m, n) # <<>>
    BY <1>5, <1>6
  <2>2. PICK c \in Nat : d = c + 1
    <3>1. d - 1 \in Nat /\ d = (d - 1) + 1
      BY <1>6
    <3> QED
      BY <3>1
  <2>3. /\ Tail(Run(m, n)) \in Seq(Nat) /\ Len(Tail(Run(m, n))) = c
        /\ \A k \in 1 .. c : Tail(Run(m, n))[k] = Run(m, n)[k + 1]
    BY <1>3, <2>1, <2>2, HeadTailProperties
  <2>4. Run(m + 1, n) = [k \in 1 .. c |-> m + 1 + k]
    BY <1>2, <2>2
  <2>5. Run(m + 1, n) \in Seq(Nat) /\ Len(Run(m + 1, n)) = c
    BY <2>4
  <2>6. /\ Len(Tail(Run(m, n))) = Len(Run(m + 1, n))
        /\ \A k \in 1 .. Len(Tail(Run(m, n))) :
             Tail(Run(m, n))[k] = Run(m + 1, n)[k]
    <3>1. ASSUME NEW k \in 1 .. c
          PROVE  Run(m, n)[k + 1] = m + 1 + k
      <4>1. k + 1 \in 1 .. d
        BY <2>2
      <4> QED
        BY <1>2, <4>1
    <3> QED
      BY <2>3, <2>4, <2>5, <3>1
  <2>7. Tail(Run(m, n)) = Run(m + 1, n)
    BY <2>3, <2>5, <2>6, SeqEqual
  <2>8. Head(Run(m, n)) = Run(m, n)[1]
    BY <1>3, <1>6
  <2> QED
    BY <1>2, <1>6, <2>7, <2>8, SMTT(40)
<1> QED
  BY <1>1, <1>3, <1>4, <1>5, <1>6

(* While the ring exists it carries the files after the last one taken, up   *)
(* to the last one added, in the order of submission.                        *)
PendingRun ==
  main # "done" =>
    /\ Taken \in Nat /\ added \in Nat /\ Taken <= added
    /\ added - Taken \in 0 .. Max
    /\ Pending = Run(Taken, added)

(* In every state of the invariant the pending files are that run.           *)
LEMMA PendingIsRun == IInv => PendingRun
<1> SUFFICES ASSUME IInv, main # "done"
             PROVE  /\ Taken \in Nat /\ added \in Nat /\ Taken <= added
                    /\ added - Taken \in 0 .. Max
                    /\ Pending = Run(Taken, added)
  BY DEF PendingRun
<1> USE DEF IInv, TypeOK
<1>1. /\ Window \in 0 .. Max /\ Skip \in {0, 1} /\ Skip <= Window
      /\ added \in Nat
  BY WindowFacts, PoolAssumption DEF Slotted
<1>2. Taken \in 0 .. added /\ added - Taken = Window - Skip
  BY <1>1, QueuedFiles, MaxAssumption DEF Taken
<1>3. ASSUME NEW k \in 1 .. (Window - Skip)
      PROVE  tasks[At(tail, k - 1 + Skip)] = Taken + k
  <2>1. PICK d \in Slots : d = k - 1 + Skip /\ Skip <= d /\ d < Window
    BY <1>1, MaxAssumption DEF Slots
  <2>2. At(tail, d) \in Slots /\ Distance(tail, At(tail, d)) = d
    BY AtByCases, DistanceAt
  <2>3. tasks[At(tail, d)] = added - Window + 1 + d
    BY <2>1, <2>2 DEF Slotted
  <2>4. added - Window + 1 + d = Taken + k
    BY <1>1, <2>1, MaxAssumption DEF Taken, Slots
  <2> QED
    BY <2>1, <2>3, <2>4
<1>4. Pending = [k \in 1 .. (Window - Skip) |-> Taken + k]
  BY <1>3 DEF Pending
<1> QED
  BY <1>1, <1>2, <1>4, MaxAssumption DEF Run

(* The same after a step.                                                    *)
LEMMA PendingIsRunNext == IInv' => PendingRun'
BY PendingIsRun, PTL

(* A put appends the next file to what the ring carries. *)
LEMMA AddPutSubmits ==
  ASSUME IInv, AddPut
  PROVE  Abstract!Submit
<1>1. main # "done" /\ main' # "done" /\ IInv'
  BY AddPutStep DEF AddPut
<1>2. /\ Taken \in Nat /\ added \in Nat /\ Taken <= added
      /\ added - Taken \in 0 .. Max
      /\ Pending = Run(Taken, added)
  BY <1>1, PendingIsRun DEF PendingRun
<1>3. /\ added' = added + 1 /\ Taken' = Taken
      /\ added < NFiles /\ added - Taken < Max
  BY <1>2, AddPutAdds, MaxAssumption DEF AddPut, Taken, Slots
<1>4. Pending' = Run(Taken, added + 1)
  BY <1>1, <1>3, PendingIsRunNext DEF PendingRun, Run
<1>5. Len(Pending) < Max /\ Pending' = Append(Pending, added + 1)
  BY <1>2, <1>3, <1>4, RunFacts
<1>6. freed = {} /\ Running' = Running /\ done' = done /\ freed' = freed
  BY <1>1 DEF IInv, Places, AddPut, Running
<1> QED
  BY <1>3, <1>5, <1>6 DEF Abstract!Submit

(* A get starts the oldest file that waits. *)
LEMMA TakeSlotStarts ==
  ASSUME IInv, NEW w \in Workers, TakeSlot(w), main # "crashed"
  PROVE  Abstract!Start
<1>1. main # "done" /\ main' # "done" /\ IInv'
  BY TakeSlotTakes, TakeSlotStep DEF TakeSlot
<1>2. /\ Taken \in Nat /\ added \in Nat /\ Taken <= added
      /\ Pending = Run(Taken, added)
  BY <1>1, PendingIsRun DEF PendingRun
<1>3. Taken' = Taken + 1 /\ added' = added /\ Taken + 1 \in Files
      /\ Taken < added
  <2>1. Taken' <= added'
    BY <1>1, PendingIsRunNext DEF PendingRun
  <2>2. Taken' = Taken + 1 /\ added' = added /\ Taken + 1 \in Files
    BY TakeSlotTakes DEF TakeSlot
  <2> QED
    BY <1>2, <2>1, <2>2
<1>4. Pending' = Run(Taken + 1, added)
  BY <1>1, <1>3, PendingIsRunNext DEF PendingRun
<1>5. /\ Pending # <<>>
      /\ Head(Pending) = Taken + 1
      /\ Pending' = Tail(Pending)
  <2>1. /\ Run(Taken, added) # <<>>
        /\ Head(Run(Taken, added)) = Taken + 1
        /\ Tail(Run(Taken, added)) = Run(Taken + 1, added)
    <3>1. PICK m \in Nat : m = Taken
      BY <1>2
    <3>2. PICK n \in Nat : n = added /\ m < n
      BY <1>2, <1>3, <3>1
    <3>3. /\ Run(m, n) # <<>> /\ Head(Run(m, n)) = m + 1
          /\ Tail(Run(m, n)) = Run(m + 1, n)
      <4>1. m <= n /\ m # n
        BY <3>2
      <4>2. Run(m, n) # <<>>
        BY <4>1, RunFacts
      <4>3. m < n => /\ Head(Run(m, n)) = m + 1
                     /\ Tail(Run(m, n)) = Run(m + 1, n)
        BY <4>1, RunFacts
      <4> QED
        BY <3>2, <4>2, <4>3
    <3> QED
      BY <3>1, <3>2, <3>3
  <2> QED
    BY <1>2, <1>4, <2>1
<1>6. Running' = Running \cup {Taken + 1}
  BY TakeSlotRuns
<1>7. added' = added /\ done' = done /\ freed' = freed
  BY DEF TakeSlot
<1> QED
  BY <1>5, <1>6, <1>7 DEF Abstract!Start

(* A task that returns finishes a file that was running. *)
LEMMA RunTaskFinishes ==
  ASSUME IInv, NEW w \in Workers, RunTask(w), main # "crashed"
  PROVE  held[w] \in Running /\ Abstract!Finish(held[w])
<1>1. held[w] \in Running /\ Running' = Running \ {held[w]}
  BY RunTaskReturns
<1>2. UNCHANGED <<Pending, added, freed>> /\ done' = done \cup {held[w]}
  <2>1. InGet' = InGet
    BY DEF RunTask, IInv, TypeOK, InGet
  <2> QED
    BY <2>1 DEF RunTask, ring, Pending, Window, Skip
<1> QED
  BY <1>1, <1>2 DEF Abstract!Finish

(* Freeing the ring discards what still waits, if anything does. *)
LEMMA JoinAndFreeDiscards ==
  ASSUME IInv, JoinAndFree
  PROVE  [Abstract!WNext]_(Abstract!wvars)
<1>1. main # "done" /\ main' = "done" /\ main = "join"
  BY DEF JoinAndFree
<1>2. /\ Taken \in Nat /\ added \in Nat /\ Taken <= added
      /\ Pending = Run(Taken, added)
  BY <1>1, PendingIsRun DEF PendingRun
<1>3. Running = {} /\ Running' = {} /\ added' = added /\ done' = done
  <2>1. \A w \in Workers : held[w] = NoTask
    BY DEF JoinAndFree, IInv, Hands
  <2> QED
    BY <2>1, PoolAssumption DEF JoinAndFree, Running
<1>4. /\ freed = {} /\ freed' = Queued
      /\ \A f \in Files : f \in Queued <=> Taken < f /\ f <= added
  BY <1>1, QueuedFiles DEF JoinAndFree, Queued, IInv, Places
<1>5. Pending' = <<>>
  BY <1>1 DEF Pending
<1>6. Queued = {Pending[i] : i \in DOMAIN Pending}
  <2>1. ASSUME NEW f \in Queued
        PROVE  \E i \in DOMAIN Pending : f = Pending[i]
    <3>1. f \in Files /\ Taken < f /\ f <= added
      BY <1>4 DEF Queued
    <3>2. f - Taken \in 1 .. (added - Taken)
      BY <1>2, <3>1, PoolAssumption DEF Files
    <3>3. Taken + (f - Taken) = f
      BY <1>2, <3>1, PoolAssumption DEF Files
    <3> QED
      BY <1>2, <3>2, <3>3 DEF Run
  <2>2. ASSUME NEW i \in DOMAIN Pending
        PROVE  Pending[i] \in Queued
    <3>1. i \in 1 .. (added - Taken) /\ Pending[i] = Taken + i
      BY <1>2 DEF Run
    <3>2. Taken + i \in Files /\ Taken < Taken + i /\ Taken + i <= added
      BY <1>2, <3>1, PoolAssumption DEF IInv, TypeOK, Files
    <3> QED
      BY <1>4, <3>1, <3>2
  <2> QED
    BY <2>1, <2>2
<1>7. CASE added = Taken
  <2>1. Pending = <<>> /\ Queued = {}
    BY <1>2, <1>6, <1>7, RunFacts
  <2> QED
    BY <1>3, <1>4, <1>5, <2>1 DEF Abstract!wvars
<1>8. CASE added # Taken
  <2>1. Window < Max /\ Window \in 0 .. Max /\ Skip \in {0, 1}
    BY <1>1, WindowFacts, MaxAssumption
       DEF IInv, Slotted, Phases, SawNotFull, Stopped, JoinAndFree, InGet
  <2>2. added - Taken = Window - Skip
    BY <1>2, <2>1, MaxAssumption DEF Taken
  <2>3. Pending # <<>> /\ Len(Pending) < Max
    <3>1. /\ Run(Taken, added) # <<>>
          /\ Len(Run(Taken, added)) = added - Taken
      BY <1>2, <1>8, RunFacts
    <3> QED
      BY <1>2, <2>1, <2>2, <3>1, MaxAssumption
  <2>4. added >= Max
    BY <1>1, <1>2, <1>8, <2>1, <2>2, MaxAssumption
       DEF IInv, Drained, Stopped
  <2>5. Abstract!Discard
    BY <1>3, <1>4, <1>5, <1>6, <2>3, <2>4 DEF Abstract!Discard
  <2> QED
    BY <2>5 DEF Abstract!WNext
<1> QED
  BY <1>7, <1>8

(* The pool is a work pool: whatever the threads do in whatever order, each  *)
(* step either submits, starts, finishes or discards files as WorkPool       *)
(* allows, or is invisible to the log parser.                                *)
THEOREM Refinement == Spec => IsWorkPool
<1>1. Init => Abstract!WInit
  <2> SUFFICES ASSUME Init PROVE Abstract!WInit
    OBVIOUS
  <2>1. Window = 0 /\ Skip = 0
    BY MaxAssumption DEF Init, InGet, Window, Skip, Distance
  <2>2. Pending = <<>>
    BY <2>1 DEF Pending
  <2>3. Running = {}
    BY PoolAssumption DEF Init, Running
  <2> QED
    BY <2>2, <2>3 DEF Init, Abstract!WInit
<1>2. IInv /\ [Next]_vars => [Abstract!WNext]_(Abstract!wvars)
  <2> SUFFICES ASSUME IInv, [Next]_vars
               PROVE  [Abstract!WNext]_(Abstract!wvars)
    OBVIOUS
  <2>1. CASE QuietMain \/ QuietWorker
    <3>1. Quiet
      BY <2>1, QuietMainIsQuiet, QuietWorkerIsQuiet
    <3>2. UNCHANGED <<Window, Skip, tasks, tail, held, added, done, freed>>
      BY <3>1, QuietStep DEF Quiet, ring
    <3>3. Pending' = Pending
      BY <3>1, <3>2 DEF Quiet, Pending
    <3> QED
      BY <3>2, <3>3 DEF Abstract!wvars, Running
  <2>2. CASE AddPut
    BY <2>2, AddPutSubmits DEF Abstract!WNext
  <2>3. CASE JoinAndFree
    BY <2>3, JoinAndFreeDiscards
  <2>4. ASSUME NEW w \in Workers, main # "crashed", TakeSlot(w)
        PROVE  Abstract!WNext
    BY <2>4, TakeSlotStarts DEF Abstract!WNext
  <2>5. ASSUME NEW w \in Workers, main # "crashed", AdvanceTail(w)
        PROVE  UNCHANGED Abstract!wvars
    <3>1. Taken' = Taken /\ main # "done" /\ main' # "done" /\ IInv'
      BY <2>5, AdvanceTailAdvances, AdvanceTailStep
    <3>2. UNCHANGED <<added, held, done, freed>>
      BY <2>5 DEF AdvanceTail
    <3>3. Pending' = Pending
      BY <3>1, <3>2, PendingIsRun, PendingIsRunNext DEF PendingRun
    <3> QED
      BY <3>2, <3>3 DEF Abstract!wvars, Running
  <2>6. ASSUME NEW w \in Workers, main # "crashed", RunTask(w)
        PROVE  Abstract!WNext
    BY <2>6, RunTaskFinishes DEF Abstract!WNext
  <2>7. CASE UNCHANGED vars
    BY <2>7
       DEF vars, ring, Pending, Window, Skip, InGet, Running, Abstract!wvars
  <2> QED
    BY <2>1, <2>2, <2>3, <2>4, <2>5, <2>6, <2>7
       DEF Next, MainStep, WorkerStep, SpuriousWakeup, Finished, QuietMain,
           QuietWorker, WakeSpuriously
<1> QED
  BY <1>1, <1>2, Invariant, PTL DEF Spec, IsWorkPool, Abstract!WSpec
=============================================================================
