---------------------------- MODULE LoggerProofs ----------------------------
(***************************************************************************)
(* Theorems about Logger, for any number of threads and any limit.         *)
(***************************************************************************)
EXTENDS Logger, TLAPS

(* Who is between the lock and the unlock owns the mutex, unless it was      *)
(* initialized under that thread's feet.                                     *)
MutexOwned == ~reinit => \A t \in Threads : pc[t] \in Inside => mutex = t

(* The stream of an initialized logger is open but in the middle of a        *)
(* rotation, and init_logger tells of no success before it is open.          *)
StreamOpen ==
  ~reinit /\ ~broken =>
    /\ is_init => output = "open" \/ \E t \in Threads : pc[t] = "reopen"
    /\ \A t \in Threads : pc[t] = "initDone" => output = "open"

(* From the close of a full file until it is opened again nothing else       *)
(* touches the stream.                                                       *)
ClosedToRotate ==
  ~reinit => \A t \in Threads : pc[t] = "reopen" => output = "closed"

(* The counted size is not below that of the file.                           *)
SizeCounted ==
  ~reinit /\ ~behind /\ output # "none" => fileSize <= currentFileSize

(* A thread that goes on to write has found, or made, room in the file.      *)
RoomToWrite ==
  ~reinit /\ ~behind /\ output = "open" =>
    \A t \in Threads : pc[t] = "write" => fileSize < Limit

IInv ==
  /\ TypeOK
  /\ MutexOwned
  /\ StreamOpen
  /\ ClosedToRotate
  /\ SizeCounted
  /\ RoomToWrite
  /\ CrashExplained
-----------------------------------------------------------------------------
(* s_flog is zero and no thread is in a function of the logger.              *)
LEMMA InitInvariant == Init => IInv
<1> SUFFICES ASSUME Init PROVE IInv
  OBVIOUS
<1> USE LoggerAssumption DEF Init
<1>1. TypeOK
  <2>1. fileSize \in Nat /\ currentFileSize \in IF behind THEN Int ELSE Nat
    OBVIOUS
  <2> QED
    BY <2>1 DEF TypeOK, Waiting, Inside
<1>2. \A t \in Threads : pc[t] = "idle"
  OBVIOUS
<1>3. MutexOwned
  BY <1>2 DEF MutexOwned, Inside
<1> QED
  BY <1>1, <1>2, <1>3
     DEF IInv, StreamOpen, ClosedToRotate, SizeCounted, RoomToWrite,
         CrashExplained

(* Every step of a thread keeps the types; the size is no longer a count once*)
(* a failed fprintf was added to it.                                         *)
LEMMA TypeStep ==
  ASSUME IInv, [Next]_vars
  PROVE  TypeOK'
<1> USE LoggerAssumption
    DEF IInv, TypeOK, Waiting, Inside, Goto, histories, sizes
<1>1. ASSUME NEW t \in Threads,
             InitStart(t) \/ LogStart(t) \/ WakeForgotten(t)
      PROVE  TypeOK'
  BY <1>1 DEF InitStart, LogStart, WakeForgotten
<1>2. ASSUME NEW t \in Threads, InitMutex(t) PROVE TypeOK'
  BY <1>2 DEF InitMutex
<1>3. ASSUME NEW t \in Threads, InitLock(t) \/ LogLock(t) PROVE TypeOK'
  BY <1>3 DEF InitLock, LogLock, Lock, Open
<1>4. ASSUME NEW t \in Threads, InitOpen(t) \/ InitOpenFails(t) \/ InitDone(t)
      PROVE  TypeOK'
  <2>1. CASE InitOpen(t)
    BY <2>1 DEF InitOpen, LogFileSize
  <2>2. CASE InitOpenFails(t)
    BY <2>2 DEF InitOpenFails, LogFileSize
  <2>3. CASE InitDone(t)
    BY <2>3 DEF InitDone, LogFileSize
  <2> QED
    BY <1>4, <2>1, <2>2, <2>3
<1>5. ASSUME NEW t \in Threads, NoRotation(t) \/ CloseFull(t) PROVE TypeOK'
  BY <1>5 DEF NoRotation, CloseFull, Full
<1>6. ASSUME NEW t \in Threads, Reopen(t) \/ ReopenFails(t) PROVE TypeOK'
  <2>1. CASE Reopen(t)
    BY <2>1 DEF Reopen
  <2>2. CASE ReopenFails(t)
    BY <2>2 DEF ReopenFails
  <2> QED
    BY <1>6, <2>1, <2>2
<1>7. ASSUME NEW t \in Threads, Write(t) \/ WriteFails(t) PROVE TypeOK'
  <2>1. CASE Write(t)
    <3>1. PICK backtrace \in Backtrace :
            /\ fileSize' = fileSize + 1 + backtrace
            /\ behind' = (behind \/ backtrace > 0)
      BY <2>1 DEF Write
    <3>2. CASE backtrace = 0
      BY <2>1, <3>1, <3>2 DEF Write
    <3>3. CASE backtrace = 1
      <4>1. backtrace > 0
        BY <3>3
      <4>2. behind'
        BY <3>1, <4>1, Zenon
      <4> QED
        BY <2>1, <3>1, <3>3, <4>2 DEF Write
    <3> QED
      BY <3>2, <3>3 DEF Backtrace
  <2>2. CASE WriteFails(t)
    BY <2>2 DEF WriteFails
  <2> QED
    BY <1>7, <2>1, <2>2
<1>8. ASSUME NEW t \in Threads, CrashOn(t) \/ Unlock(t) PROVE TypeOK'
  BY <1>8 DEF CrashOn, Unlock, Full
<1>9. CASE UNCHANGED vars
  BY <1>9 DEF vars
<1> QED
  BY <1>1, <1>2, <1>3, <1>4, <1>5, <1>6, <1>7, <1>8, <1>9
     DEF Next, ThreadStep

(* One thread at a time is inside: it locks a mutex that nobody owns, and    *)
(* pthread_mutex_init does no harm while nobody is inside.                   *)
LEMMA MutexStep ==
  ASSUME IInv, [Next]_vars
  PROVE  MutexOwned'
<1> USE LoggerAssumption
    DEF IInv, TypeOK, Waiting, Inside, Goto, histories, sizes, MutexOwned
<1>1. ASSUME NEW t \in Threads,
             InitStart(t) \/ LogStart(t) \/ WakeForgotten(t)
      PROVE  MutexOwned'
  BY <1>1 DEF InitStart, LogStart, WakeForgotten
<1>2. ASSUME NEW t \in Threads, InitMutex(t) PROVE MutexOwned'
  BY <1>2 DEF InitMutex
<1>3. ASSUME NEW t \in Threads, InitLock(t) \/ LogLock(t) PROVE MutexOwned'
  BY <1>3 DEF InitLock, LogLock, Lock, Open
<1>4. ASSUME NEW t \in Threads, InitOpen(t) \/ InitOpenFails(t) \/ InitDone(t)
      PROVE  MutexOwned'
  BY <1>4 DEF InitOpen, InitOpenFails, InitDone, LogFileSize
<1>5. ASSUME NEW t \in Threads, NoRotation(t) \/ CloseFull(t)
      PROVE  MutexOwned'
  BY <1>5 DEF NoRotation, CloseFull, Full
<1>6. ASSUME NEW t \in Threads, Reopen(t) \/ ReopenFails(t) PROVE MutexOwned'
  BY <1>6 DEF Reopen, ReopenFails
<1>7. ASSUME NEW t \in Threads, Write(t) \/ WriteFails(t) PROVE MutexOwned'
  BY <1>7 DEF Write, WriteFails, Backtrace
<1>8. ASSUME NEW t \in Threads, CrashOn(t) \/ Unlock(t) PROVE MutexOwned'
  BY <1>8 DEF CrashOn, Unlock, Full
<1>9. CASE UNCHANGED vars
  BY <1>9 DEF vars
<1> QED
  BY <1>1, <1>2, <1>3, <1>4, <1>5, <1>6, <1>7, <1>8, <1>9
     DEF Next, ThreadStep

(* The stream is closed by a thread inside, which opens it before it leaves, *)
(* and the logger is called initialized only after it was opened.            *)
LEMMA StreamStep ==
  ASSUME IInv, [Next]_vars
  PROVE  StreamOpen'
<1> USE LoggerAssumption
    DEF IInv, TypeOK, Waiting, Inside, Goto, histories, sizes, MutexOwned,
        StreamOpen
<1>1. ASSUME NEW t \in Threads,
             InitStart(t) \/ LogStart(t) \/ WakeForgotten(t)
      PROVE  StreamOpen'
  BY <1>1 DEF InitStart, LogStart, WakeForgotten
<1>2. ASSUME NEW t \in Threads, InitMutex(t) PROVE StreamOpen'
  BY <1>2 DEF InitMutex
<1>3. ASSUME NEW t \in Threads, InitLock(t) \/ LogLock(t) PROVE StreamOpen'
  BY <1>3 DEF InitLock, LogLock, Lock, Open
<1>4. ASSUME NEW t \in Threads, InitOpen(t) \/ InitOpenFails(t) \/ InitDone(t)
      PROVE  StreamOpen'
  BY <1>4 DEF InitOpen, InitOpenFails, InitDone, LogFileSize
<1>5. ASSUME NEW t \in Threads, NoRotation(t) \/ CloseFull(t)
      PROVE  StreamOpen'
  BY <1>5 DEF NoRotation, CloseFull, Full
<1>6. ASSUME NEW t \in Threads, Reopen(t) \/ ReopenFails(t) PROVE StreamOpen'
  BY <1>6 DEF Reopen, ReopenFails
<1>7. ASSUME NEW t \in Threads, Write(t) \/ WriteFails(t) PROVE StreamOpen'
  BY <1>7 DEF Write, WriteFails, Backtrace
<1>8. ASSUME NEW t \in Threads, CrashOn(t) \/ Unlock(t) PROVE StreamOpen'
  BY <1>8 DEF CrashOn, Unlock, Full
<1>9. CASE UNCHANGED vars
  BY <1>9 DEF vars
<1> QED
  BY <1>1, <1>2, <1>3, <1>4, <1>5, <1>6, <1>7, <1>8, <1>9
     DEF Next, ThreadStep

(* Nobody opens the stream that another thread has closed to rename the file.*)
LEMMA ClosedStep ==
  ASSUME IInv, [Next]_vars
  PROVE  ClosedToRotate'
<1> USE LoggerAssumption
    DEF IInv, TypeOK, Waiting, Inside, Goto, histories, sizes, MutexOwned,
        ClosedToRotate
<1>1. ASSUME NEW t \in Threads,
             InitStart(t) \/ LogStart(t) \/ WakeForgotten(t)
      PROVE  ClosedToRotate'
  BY <1>1 DEF InitStart, LogStart, WakeForgotten
<1>2. ASSUME NEW t \in Threads, InitMutex(t) PROVE ClosedToRotate'
  BY <1>2 DEF InitMutex
<1>3. ASSUME NEW t \in Threads, InitLock(t) \/ LogLock(t)
      PROVE  ClosedToRotate'
  BY <1>3 DEF InitLock, LogLock, Lock, Open
<1>4. ASSUME NEW t \in Threads, InitOpen(t) \/ InitOpenFails(t) \/ InitDone(t)
      PROVE  ClosedToRotate'
  BY <1>4 DEF InitOpen, InitOpenFails, InitDone, LogFileSize
<1>5. ASSUME NEW t \in Threads, NoRotation(t) \/ CloseFull(t)
      PROVE  ClosedToRotate'
  BY <1>5 DEF NoRotation, CloseFull, Full
<1>6. ASSUME NEW t \in Threads, Reopen(t) \/ ReopenFails(t)
      PROVE  ClosedToRotate'
  BY <1>6 DEF Reopen, ReopenFails
<1>7. ASSUME NEW t \in Threads, Write(t) \/ WriteFails(t)
      PROVE  ClosedToRotate'
  BY <1>7 DEF Write, WriteFails, Backtrace
<1>8. ASSUME NEW t \in Threads, CrashOn(t) \/ Unlock(t) PROVE ClosedToRotate'
  BY <1>8 DEF CrashOn, Unlock, Full
<1>9. CASE UNCHANGED vars
  BY <1>9 DEF vars
<1> QED
  BY <1>1, <1>2, <1>3, <1>4, <1>5, <1>6, <1>7, <1>8, <1>9
     DEF Next, ThreadStep

(* The size is asked of the file, then counts what is added to it; a renamed *)
(* file leaves an empty one.                                                 *)
LEMMA SizeStep ==
  ASSUME IInv, [Next]_vars
  PROVE  SizeCounted'
<1> USE LoggerAssumption
    DEF IInv, TypeOK, Waiting, Inside, Goto, histories, sizes, MutexOwned,
        SizeCounted
<1>1. ASSUME NEW t \in Threads,
             InitStart(t) \/ LogStart(t) \/ WakeForgotten(t)
      PROVE  SizeCounted'
  BY <1>1 DEF InitStart, LogStart, WakeForgotten
<1>2. ASSUME NEW t \in Threads, InitMutex(t) PROVE SizeCounted'
  BY <1>2 DEF InitMutex
<1>3. ASSUME NEW t \in Threads, InitLock(t) \/ LogLock(t) PROVE SizeCounted'
  BY <1>3 DEF InitLock, LogLock, Lock, Open
<1>4. ASSUME NEW t \in Threads, InitOpen(t) \/ InitOpenFails(t) \/ InitDone(t)
      PROVE  SizeCounted'
  BY <1>4 DEF InitOpen, InitOpenFails, InitDone, LogFileSize
<1>5. ASSUME NEW t \in Threads, NoRotation(t) \/ CloseFull(t)
      PROVE  SizeCounted'
  BY <1>5 DEF NoRotation, CloseFull, Full
<1>6. ASSUME NEW t \in Threads, Reopen(t) \/ ReopenFails(t) PROVE SizeCounted'
  BY <1>6 DEF Reopen, ReopenFails
<1>7. ASSUME NEW t \in Threads, Write(t) \/ WriteFails(t) PROVE SizeCounted'
  <2>1. CASE Write(t)
    <3>1. PICK backtrace \in Backtrace :
            /\ fileSize' = fileSize + 1 + backtrace
            /\ behind' = (behind \/ backtrace > 0)
      BY <2>1 DEF Write
    <3>2. CASE backtrace = 0
      BY <2>1, <3>1, <3>2 DEF Write
    <3>3. CASE backtrace = 1
      <4>1. backtrace > 0
        BY <3>3
      <4>2. behind'
        BY <3>1, <4>1, Zenon
      <4> QED
        BY <2>1, <3>1, <3>3, <4>2 DEF Write
    <3> QED
      BY <3>2, <3>3 DEF Backtrace
  <2>2. CASE WriteFails(t)
    BY <2>2 DEF WriteFails
  <2> QED
    BY <1>7, <2>1, <2>2
<1>8. ASSUME NEW t \in Threads, CrashOn(t) \/ Unlock(t) PROVE SizeCounted'
  BY <1>8 DEF CrashOn, Unlock, Full
<1>9. CASE UNCHANGED vars
  BY <1>9 DEF vars
<1> QED
  BY <1>1, <1>2, <1>3, <1>4, <1>5, <1>6, <1>7, <1>8, <1>9
     DEF Next, ThreadStep

(* A thread on its way to write is the only one inside, and nobody else can  *)
(* use up the room it has found.                                             *)
LEMMA RoomStep ==
  ASSUME IInv, [Next]_vars
  PROVE  RoomToWrite'
<1> USE LoggerAssumption
    DEF IInv, TypeOK, Waiting, Inside, Goto, histories, sizes, MutexOwned,
        ClosedToRotate, SizeCounted, RoomToWrite
<1>1. ASSUME NEW t \in Threads,
             InitStart(t) \/ LogStart(t) \/ WakeForgotten(t)
      PROVE  RoomToWrite'
  BY <1>1 DEF InitStart, LogStart, WakeForgotten
<1>2. ASSUME NEW t \in Threads, InitMutex(t) PROVE RoomToWrite'
  BY <1>2 DEF InitMutex
<1>3. ASSUME NEW t \in Threads, InitLock(t) \/ LogLock(t) PROVE RoomToWrite'
  BY <1>3 DEF InitLock, LogLock, Lock, Open
<1>4. ASSUME NEW t \in Threads, InitOpen(t) \/ InitOpenFails(t) \/ InitDone(t)
      PROVE  RoomToWrite'
  BY <1>4 DEF InitOpen, InitOpenFails, InitDone, LogFileSize
<1>5. ASSUME NEW t \in Threads, NoRotation(t) \/ CloseFull(t)
      PROVE  RoomToWrite'
  BY <1>5 DEF NoRotation, CloseFull, Full
<1>6. ASSUME NEW t \in Threads, Reopen(t) \/ ReopenFails(t) PROVE RoomToWrite'
  <2>1. CASE Reopen(t)
    BY <2>1 DEF Reopen
  <2>2. CASE ReopenFails(t)
    BY <2>2 DEF ReopenFails
  <2> QED
    BY <1>6, <2>1, <2>2
<1>7. ASSUME NEW t \in Threads, Write(t) \/ WriteFails(t) PROVE RoomToWrite'
  <2>1. CASE Write(t)
    <3>1. PICK backtrace \in Backtrace :
            /\ fileSize' = fileSize + 1 + backtrace
            /\ behind' = (behind \/ backtrace > 0)
      BY <2>1 DEF Write
    <3>2. CASE backtrace = 0
      BY <2>1, <3>1, <3>2 DEF Write
    <3>3. CASE backtrace = 1
      <4>1. backtrace > 0
        BY <3>3
      <4>2. behind'
        BY <3>1, <4>1, Zenon
      <4> QED
        BY <2>1, <3>1, <3>3, <4>2 DEF Write
    <3> QED
      BY <3>2, <3>3 DEF Backtrace
  <2>2. CASE WriteFails(t)
    BY <2>2 DEF WriteFails
  <2> QED
    BY <1>7, <2>1, <2>2
<1>8. ASSUME NEW t \in Threads, CrashOn(t) \/ Unlock(t) PROVE RoomToWrite'
  BY <1>8 DEF CrashOn, Unlock, Full
<1>9. CASE UNCHANGED vars
  BY <1>9 DEF vars
<1> QED
  BY <1>1, <1>2, <1>3, <1>4, <1>5, <1>6, <1>7, <1>8, <1>9
     DEF Next, ThreadStep

(* Whoever finds a stream that is not open is the only one inside, so nobody *)
(* is in the middle of a rotation, and the logger is not initialized.        *)
LEMMA CrashStep ==
  ASSUME IInv, [Next]_vars
  PROVE  CrashExplained'
<1> USE LoggerAssumption
    DEF IInv, TypeOK, Waiting, Inside, Goto, histories, sizes, MutexOwned,
        StreamOpen, CrashExplained
<1>1. ASSUME NEW t \in Threads,
             InitStart(t) \/ LogStart(t) \/ WakeForgotten(t)
      PROVE  CrashExplained'
  BY <1>1 DEF InitStart, LogStart, WakeForgotten
<1>2. ASSUME NEW t \in Threads, InitMutex(t) PROVE CrashExplained'
  BY <1>2 DEF InitMutex
<1>3. ASSUME NEW t \in Threads, InitLock(t) \/ LogLock(t)
      PROVE  CrashExplained'
  BY <1>3 DEF InitLock, LogLock, Lock, Open
<1>4. ASSUME NEW t \in Threads, InitOpen(t) \/ InitOpenFails(t) \/ InitDone(t)
      PROVE  CrashExplained'
  BY <1>4 DEF InitOpen, InitOpenFails, InitDone, LogFileSize
<1>5. ASSUME NEW t \in Threads, NoRotation(t) \/ CloseFull(t)
      PROVE  CrashExplained'
  BY <1>5 DEF NoRotation, CloseFull, Full
<1>6. ASSUME NEW t \in Threads, Reopen(t) \/ ReopenFails(t)
      PROVE  CrashExplained'
  BY <1>6 DEF Reopen, ReopenFails
<1>7. ASSUME NEW t \in Threads, Write(t) \/ WriteFails(t)
      PROVE  CrashExplained'
  BY <1>7 DEF Write, WriteFails, Backtrace
<1>8. ASSUME NEW t \in Threads, CrashOn(t) \/ Unlock(t) PROVE CrashExplained'
  BY <1>8 DEF CrashOn, Unlock, Full
<1>9. CASE UNCHANGED vars
  BY <1>9 DEF vars
<1> QED
  BY <1>1, <1>2, <1>3, <1>4, <1>5, <1>6, <1>7, <1>8, <1>9
     DEF Next, ThreadStep

(* The inductive invariant is one.                                           *)
LEMMA NextInvariant == IInv /\ [Next]_vars => IInv'
BY TypeStep, MutexStep, StreamStep, ClosedStep, SizeStep, RoomStep,
   CrashStep
   DEF IInv

(* It holds however many threads call the logger, and whenever.              *)
THEOREM Invariance == Spec => []IInv
<1>1. Init => IInv
  BY InitInvariant
<1>2. IInv /\ [Next]_vars => IInv'
  BY NextInvariant
<1> QED
  BY <1>1, <1>2, PTL DEF Spec

(* Every variable of the logger keeps its type, whatever fails: the count    *)
(* stays a number although fprintf's -1 may be added to it.                  *)
THEOREM TypeCorrect == Spec => []TypeOK
<1>1. IInv => TypeOK
  BY DEF IInv
<1> QED
  BY <1>1, Invariance, PTL

(* An initialized logger does not close or write to a stream that is not     *)
(* open, unless a rotation failed or it was initialized again under the feet *)
(* of a thread.                                                              *)
THEOREM NoUnexplainedCrash == Spec => []CrashExplained
<1>1. IInv => CrashExplained
  BY DEF IInv
<1> QED
  BY <1>1, Invariance, PTL

(* Only a message makes a file grow, and it finds room there.                *)
LEMMA GrowthStep ==
  ASSUME IInv, [Next]_vars, fileSize' > fileSize
  PROVE  fileSize < Limit \/ behind \/ reinit
<1>1. ASSUME NEW t \in Threads, Write(t)
      PROVE  fileSize < Limit \/ behind \/ reinit
  BY <1>1 DEF IInv, RoomToWrite, Write, Goto
<1>2. \E t \in Threads : Write(t)
  BY LoggerAssumption
     DEF IInv, TypeOK, Next, ThreadStep, InitStart, LogStart, InitMutex,
         InitLock, InitOpen, InitOpenFails, InitDone, LogLock, Lock, NoRotation,
         CloseFull, Reopen, ReopenFails, WriteFails, CrashOn, Unlock,
         WakeForgotten, Goto, sizes, vars
<1> QED
  BY <1>1, <1>2

(* Rotation comes before growth in every step of every behaviour.            *)
THEOREM RotatedInTime == Spec => NoFullFileGrows
<1>1. IInv /\ [Next]_vars
      => [fileSize' > fileSize => fileSize < Limit \/ behind \/ reinit]_vars
  BY GrowthStep
<1> QED
  BY <1>1, Invariance, PTL DEF Spec, NoFullFileGrows
=============================================================================
