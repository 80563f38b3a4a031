------------------------------- MODULE Logger -------------------------------
(***************************************************************************)
(* hw9/src/logger.c: a file logger with rotation by size, whose functions  *)
(* any thread may call at any time.  One message has size 1.  A step is    *)
(* what one thread does between two points where another can interfere:    *)
(* is_init is read outside the mutex, and init_logger initializes the      *)
(* mutex anew before it takes it.                                          *)
(***************************************************************************)
EXTENDS Integers

CONSTANTS
  Threads,
  Limit,      \* maxFileSize of an initialized logger, in messages
  Cap,        \* bound: no log call begins when a size is beyond it
  Nobody      \* the owner of a free mutex

ASSUME LoggerAssumption ==
  /\ Limit \in Nat \ {0}
  /\ Cap \in Nat
  /\ Nobody \notin Threads

VARIABLES
  pc,                \* where each thread is in logger_log or init_logger
  is_init,
  mutex,             \* the owner of the mutex
  output,            \* s_flog.output: "none" (NULL), "open" or "closed"
  maxFileSize,
  currentFileSize,
  fileSize,          \* the messages in the file that has the log's name
  fate,              \* "alive" or "crashed"
  reinit,            \* history: the logger was initialized a second time, or
                     \* its mutex while a thread held it
  broken,            \* history: a call of a rotation failed
  behind             \* history: currentFileSize fell behind the file

histories == <<reinit, broken, behind>>
sizes == <<maxFileSize, currentFileSize, fileSize>>
vars == <<pc, is_init, mutex, output, sizes, fate, histories>>

(* s_flog is static: everything in it is zero.  The file may be there.       *)
Init ==
  /\ pc = [t \in Threads |-> "idle"]
  /\ is_init = FALSE
  /\ mutex = Nobody
  /\ output = "none"
  /\ maxFileSize = 0
  /\ currentFileSize = 0
  /\ fileSize \in 0 .. Limit
  /\ fate = "alive"
  /\ reinit = FALSE
  /\ broken = FALSE
  /\ behind = FALSE

Waiting == {"initLock", "logLock"}
Inside == {"initOpen", "initDone", "rotate", "reopen", "write", "unlock"}

Goto(t, from, to) ==
  /\ fate = "alive"
  /\ pc[t] = from
  /\ pc' = [pc EXCEPT ![t] = to]

(* Mutation: the mutex gives no exclusion. *)
AlwaysOpen == TRUE

Open == mutex = Nobody

Lock(t, from, to) ==
  /\ Goto(t, from, to)
  /\ Open
  /\ mutex' = t
  /\ UNCHANGED <<is_init, output, sizes, fate, histories>>
-----------------------------------------------------------------------------
(* init_logger, past its test of is_init. *)
InitStart(t) ==
  /\ ~is_init
  /\ Goto(t, "idle", "initMutex")
  /\ UNCHANGED <<is_init, mutex, output, sizes, fate, histories>>

(* pthread_mutex_init: the mutex becomes free whoever held it, and of those  *)
(* who sleep on it any may be forgotten.                                     *)
InitMutex(t) ==
  /\ fate = "alive"
  /\ pc[t] = "initMutex"
  /\ \E S \in SUBSET {o \in Threads : pc[o] \in Waiting /\ mutex # Nobody} :
       pc' = [o \in Threads |-> IF o = t THEN "initLock"
                                ELSE IF o \notin S THEN pc[o]
                                ELSE IF pc[o] = "initLock" THEN "initAsleep"
                                ELSE "logAsleep"]
  /\ mutex' = Nobody
  /\ reinit' = (reinit \/ \E o \in Threads : pc[o] \in Inside)
  /\ UNCHANGED <<is_init, output, sizes, fate, broken, behind>>

InitLock(t) == Lock(t, "initLock", "initOpen")

(* Mutation: the size is asked before the file is created, and stat's        *)
(* failure is not noticed.                                                   *)
FileSizeBeforeOpen == IF fileSize = 0 THEN -1 ELSE fileSize

LogFileSize == fileSize

InitOpen(t) ==
  /\ Goto(t, "initOpen", "initDone")
  /\ output' = "open"
  /\ maxFileSize' = Limit
  /\ currentFileSize' = LogFileSize
  /\ reinit' = (reinit \/ output # "none")
  /\ UNCHANGED <<is_init, mutex, fileSize, fate, broken, behind>>

(* fopen fails: init_logger returns and keeps the mutex. *)
InitOpenFails(t) ==
  /\ Goto(t, "initOpen", "idle")
  /\ reinit' = (reinit \/ output # "none")
  /\ UNCHANGED <<is_init, mutex, output, sizes, fate, broken, behind>>

InitDone(t) ==
  /\ Goto(t, "initDone", "idle")
  /\ is_init' = TRUE
  /\ mutex' = Nobody
  /\ UNCHANGED <<output, sizes, fate, histories>>
-----------------------------------------------------------------------------
(* logger_log, past its test of is_init: it goes on only while the logger is *)
(* NOT initialized, and returns at once when it is.                          *)
LogStart(t) ==
  /\ ~is_init
  /\ currentFileSize \in -Cap .. Cap /\ fileSize <= Cap
  /\ Goto(t, "idle", "logLock")
  /\ UNCHANGED <<is_init, mutex, output, sizes, fate, histories>>

LogLock(t) == Lock(t, "logLock", "rotate")

(* Mutation: off by one. *)
OverLimit == currentFileSize > maxFileSize

Full == currentFileSize >= maxFileSize

NoRotation(t) ==
  /\ ~Full
  /\ Goto(t, "rotate", IF output = "none" THEN "unlock" ELSE "write")
  /\ UNCHANGED <<is_init, mutex, output, sizes, fate, histories>>

CloseFull(t) ==
  /\ Full
  /\ output = "open"
  /\ Goto(t, "rotate", "reopen")
  /\ output' = "closed"
  /\ UNCHANGED <<is_init, mutex, sizes, fate, histories>>

Reopen(t) ==
  /\ Goto(t, "reopen", "write")
  /\ output' = "open"
  /\ fileSize' = 0
  /\ UNCHANGED <<is_init, mutex, maxFileSize, currentFileSize, fate, histories>>

(* The clock: log_rotate returns true, for output is not NULL.  The rename:  *)
(* it returns false.  The second fopen: false, and the old file is renamed.  *)
ReopenFails(t) ==
  /\ \/ Goto(t, "reopen", "write") /\ UNCHANGED <<output, fileSize>>
     \/ Goto(t, "reopen", "unlock") /\ UNCHANGED <<output, fileSize>>
     \/ Goto(t, "reopen", "unlock") /\ output' = "none" /\ fileSize' = 0
  /\ broken' = TRUE
  /\ UNCHANGED <<is_init, mutex, maxFileSize, currentFileSize, fate, reinit, behind>>

(* What print_backtrace adds at level ERROR is not counted. *)
Backtrace == {0, 1}

Write(t) ==
  /\ output = "open"
  /\ Goto(t, "write", "unlock")
  /\ \E backtrace \in Backtrace :
       /\ fileSize' = fileSize + 1 + backtrace
       /\ behind' = (behind \/ backtrace > 0)
  /\ currentFileSize' = currentFileSize + 1
  /\ UNCHANGED <<is_init, mutex, output, maxFileSize, fate, reinit, broken>>

(* fprintf returns -1, on a closed stream if the process survives it.  size  *)
(* is unsigned, so -1 passes for a length and is added.                      *)
WriteFails(t) ==
  /\ output # "none"
  /\ Goto(t, "write", "unlock")
  /\ currentFileSize' = currentFileSize - 1
  /\ behind' = TRUE
  /\ UNCHANGED <<is_init, mutex, output, maxFileSize, fileSize, fate, reinit, broken>>

(* fclose or fprintf of NULL, or of a stream that was closed. *)
CrashOn(t) ==
  /\ fate = "alive"
  /\ output # "open"
  /\ (pc[t] = "rotate" /\ Full) \/ pc[t] = "write"
  /\ fate' = "crashed"
  /\ UNCHANGED <<pc, is_init, mutex, output, sizes, histories>>

(* Mutation: the mutex is released only after a message was written. *)
UnlockIfOpen(t) ==
  /\ Goto(t, "unlock", "idle")
  /\ mutex' = IF output = "open" THEN Nobody ELSE mutex
  /\ UNCHANGED <<is_init, output, sizes, fate, histories>>

(* A default mutex does not look at who unlocks it. *)
Unlock(t) ==
  /\ Goto(t, "unlock", "idle")
  /\ mutex' = Nobody
  /\ UNCHANGED <<is_init, output, sizes, fate, histories>>

(* A later unlock may find a forgotten sleeper and wake it. *)
WakeForgotten(t) ==
  /\ Goto(t, "initAsleep", "initLock") \/ Goto(t, "logAsleep", "logLock")
  /\ UNCHANGED <<is_init, mutex, output, sizes, fate, histories>>
-----------------------------------------------------------------------------
ThreadStep(t) ==
  \/ InitMutex(t) \/ InitLock(t)
  \/ InitOpen(t) \/ InitOpenFails(t) \/ InitDone(t)
  \/ LogLock(t)
  \/ NoRotation(t) \/ CloseFull(t) \/ Reopen(t) \/ ReopenFails(t)
  \/ Write(t) \/ WriteFails(t) \/ CrashOn(t) \/ Unlock(t)

Next ==
  \E t \in Threads :
    InitStart(t) \/ LogStart(t) \/ ThreadStep(t) \/ WakeForgotten(t)

(* A thread that can run does; nobody has to call, and nobody is woken by    *)
(* luck.                                                                     *)
Spec == Init /\ [][Next]_vars /\ \A t \in Threads : WF_vars(ThreadStep(t))
-----------------------------------------------------------------------------
(* Every variable has its type; a size is negative only after a failure. *)
TypeOK ==
  /\ pc \in [Threads -> {"idle", "initMutex", "initAsleep", "logAsleep"}
                          \cup Waiting \cup Inside]
  /\ is_init \in BOOLEAN
  /\ mutex \in Threads \cup {Nobody}
  /\ output \in {"none", "open", "closed"}
  /\ maxFileSize \in {0, Limit}
  /\ currentFileSize \in IF behind THEN Int ELSE Nat
  /\ fileSize \in Nat
  /\ fate \in {"alive", "crashed"}
  /\ {reinit, broken, behind} \subseteq BOOLEAN

(* Once init_logger has succeeded no thread closes or writes to a stream     *)
(* that is not open, although others log, rotate and test is_init at the     *)
(* same time, provided that no rotation failed and nobody initialized the    *)
(* logger under the feet of another thread.                                  *)
CrashExplained == fate = "crashed" => ~is_init \/ broken \/ reinit

(* A file that has reached the limit is renamed before anything is added to  *)
(* it, whoever filled it.                                                    *)
NoFullFileGrows ==
  [][fileSize' > fileSize => fileSize < Limit \/ behind \/ reinit]_vars

(* The mutex belongs to a call of init_logger whose fopen failed. *)
Leaked ==
  mutex # Nobody /\ pc[mutex] \notin Inside /\ output = "none" /\ ~broken

(* Every call of logger_log returns on every path of the rotation, unless    *)
(* the process dies, the mutex was leaked, or the logger was initialized     *)
(* under the feet of another thread.                                         *)
LogReturns ==
  \A t \in Threads : pc[t] = "logLock" ~>
    pc[t] = "idle" \/ fate = "crashed" \/ Leaked \/ reinit
=============================================================================
