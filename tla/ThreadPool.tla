----------------------------- MODULE ThreadPool -----------------------------
(***************************************************************************)
(* The thread pool of hw12 (thread_pool.c) driven by main (main.c): main   *)
(* creates the workers, submits one task per file of the log directory,    *)
(* polls the ring until it looks empty, and stops the pool.                *)
(*                                                                         *)
(* Steps are as fine as the threads can observe.  Everything but two       *)
(* things happens under the mutex `mu': main polls head, tail and full     *)
(* without it (main.c:190), field by field, and so can see cir_buffer_get  *)
(* half done; and add_to_pool signals after it has unlocked.               *)
(***************************************************************************)
EXTENDS RingIndex

CONSTANTS
  Workers,   \* the threads of the pool, num_thread of them
  MayFail,   \* the workers whose pthread_create may fail
  NFiles,    \* bound: at most how many regular files main finds
  Main,      \* the main thread
  Nobody,    \* the owner of a free mutex
  NoTask,    \* the null task pointer
  Unset      \* what malloc left in a slot of the ring

Files == 1 .. NFiles   \* in the order readdir returns them

ASSUME PoolAssumption ==
  /\ NFiles \in Nat
  /\ MayFail \subseteq Workers
  /\ {Main, Nobody} \cap Workers = {}
  /\ Main # Nobody
  /\ {NoTask, Unset} \cap Files = {}
  /\ NoTask # Unset

VARIABLES
  tasks, head, tail, full,  \* the ring, as in CircularBuffer
  mu,                       \* the owner of pool->mu
  stop,                     \* pool->stop
  pc,                       \* where each worker is; "wait" is waiting on `ready'
  held,                     \* the task each worker took: t in thread_executor
  main,                     \* where main is; "waitFull" is waiting on `full'
  added,                    \* how many files main has put in the ring
  done,                     \* the files whose task function has returned
  freed                     \* the tasks cir_buffer_free found in the ring

ring == <<tasks, head, tail, full>>
vars == <<tasks, head, tail, full, mu, stop, pc, held, main, added, done, freed>>

Size == SizeOf(head, tail, full)

WorkerState ==
  {"unborn", "failed", "lock", "check", "wait", "woken", "advance", "run", "exited"}

MainState ==
  {"create", "add", "addCheck", "waitFull", "wokenFull", "signal",
   "pollFull", "pollCompare", "pollSubtract", "stop", "join", "done", "crashed"}

Init ==
  /\ tasks = [i \in Slots |-> Unset]
  /\ head = 0
  /\ tail = 0
  /\ full = FALSE
  /\ mu = Nobody
  /\ stop = FALSE
  /\ pc = [w \in Workers |-> "unborn"]
  /\ held = [w \in Workers |-> NoTask]
  /\ main = "create"
  /\ added = 0
  /\ done = {}
  /\ freed = {}
-----------------------------------------------------------------------------
(* create_pool: pthread_create's result is not looked at. *)
CreateWorker(w) ==
  /\ main = "create"
  /\ pc[w] = "unborn"
  /\ pc' = [pc EXCEPT ![w] = "lock"]
  /\ UNCHANGED <<ring, mu, stop, held, main, added, done, freed>>

CreateFails(w) ==
  /\ main = "create"
  /\ pc[w] = "unborn"
  /\ w \in MayFail
  /\ pc' = [pc EXCEPT ![w] = "failed"]
  /\ UNCHANGED <<ring, mu, stop, held, main, added, done, freed>>

PoolCreated ==
  /\ main = "create"
  /\ \A w \in Workers : pc[w] # "unborn"
  /\ main' = "add"
  /\ UNCHANGED <<ring, mu, stop, pc, held, added, done, freed>>
-----------------------------------------------------------------------------
(* add_to_pool, once per file. *)
AddLock ==
  /\ \/ main = "add" /\ added < NFiles
     \/ main = "wokenFull"
  /\ mu = Nobody
  /\ mu' = Main
  /\ main' = "addCheck"
  /\ UNCHANGED <<ring, stop, pc, held, added, done, freed>>

AddWait ==
  /\ main = "addCheck"
  /\ full
  /\ mu' = Nobody
  /\ main' = "waitFull"
  /\ UNCHANGED <<ring, stop, pc, held, added, done, freed>>

(* Mutation: a full ring is not waited for. *)
AddPutWhenFull ==
  /\ main = "addCheck"
  /\ tasks' = [tasks EXCEPT ![head] = added + 1]
  /\ head' = Succ(head)
  /\ full' = (Succ(head) = tail)
  /\ added' = added + 1
  /\ mu' = Nobody
  /\ main' = "signal"
  /\ UNCHANGED <<tail, stop, pc, held, done, freed>>

AddPut ==
  /\ main = "addCheck"
  /\ ~full
  /\ tasks' = [tasks EXCEPT ![head] = added + 1]
  /\ head' = Succ(head)
  /\ full' = (Succ(head) = tail)
  /\ added' = added + 1
  /\ mu' = Nobody
  /\ main' = "signal"
  /\ UNCHANGED <<tail, stop, pc, held, done, freed>>

(* Mutation: the signal is forgotten. *)
AddWithoutSignal ==
  /\ main = "signal"
  /\ main' = "add"
  /\ UNCHANGED <<ring, mu, stop, pc, held, added, done, freed>>

(* pthread_cond_signal on `ready': one waiting worker wakes, if there is one. *)
AddSignal ==
  /\ main = "signal"
  /\ main' = "add"
  /\ \/ \E w \in Workers :
          /\ pc[w] = "wait"
          /\ pc' = [pc EXCEPT ![w] = "woken"]
     \/ /\ \A w \in Workers : pc[w] # "wait"
        /\ UNCHANGED pc
  /\ UNCHANGED <<ring, mu, stop, held, added, done, freed>>

(* readdir has no more files, be it before the first. *)
AddDone ==
  /\ main = "add"
  /\ main' = "pollFull"
  /\ UNCHANGED <<ring, mu, stop, pc, held, added, done, freed>>
-----------------------------------------------------------------------------
(* Mutation: cir_buffer_size forgets the flag. *)
PollWithoutFull ==
  /\ main = "pollFull"
  /\ main' = "pollCompare"
  /\ UNCHANGED <<ring, mu, stop, pc, held, added, done, freed>>

(* cir_buffer_size without the mutex: `full' is read first, then head and    *)
(* tail for the comparison, then both again for the difference.  A result    *)
(* other than 0 sends main to sleep and to a new poll.                       *)
PollFull ==
  /\ main = "pollFull"
  /\ ~full
  /\ main' = "pollCompare"
  /\ UNCHANGED <<ring, mu, stop, pc, held, added, done, freed>>

PollCompare ==
  /\ main = "pollCompare"
  /\ main' = IF head >= tail THEN "pollSubtract" ELSE "pollFull"
  /\ UNCHANGED <<ring, mu, stop, pc, held, added, done, freed>>

PollSubtract ==
  /\ main = "pollSubtract"
  /\ main' = IF head - tail = 0 THEN "stop" ELSE "pollFull"
  /\ UNCHANGED <<ring, mu, stop, pc, held, added, done, freed>>

(* Mutation: the broadcast is forgotten. *)
StopWithoutBroadcast ==
  /\ main = "stop"
  /\ mu = Nobody
  /\ stop' = TRUE
  /\ main' = "join"
  /\ UNCHANGED <<ring, mu, pc, held, added, done, freed>>

(* stop_pool, from lock to unlock: the broadcast wakes every waiting worker. *)
StopPool ==
  /\ main = "stop"
  /\ mu = Nobody
  /\ stop' = TRUE
  /\ pc' = [w \in Workers |-> IF pc[w] = "wait" THEN "woken" ELSE pc[w]]
  /\ main' = "join"
  /\ UNCHANGED <<ring, mu, held, added, done, freed>>

(* stop_pool joins every handle, then frees the ring and what is left in it. *)
JoinAndFree ==
  /\ main = "join"
  /\ \A w \in Workers : pc[w] \in {"exited", "failed"}
  /\ freed' = {tasks[i] : i \in Slots} \cap Files
  /\ tasks' = [i \in Slots |-> NoTask]
  /\ main' = "done"
  /\ UNCHANGED <<head, tail, full, mu, stop, pc, held, added, done>>

(* task_free frees what a slot holds unless it is NULL: a slot that no file  *)
(* ever passed through is uninitialized memory, so unless it happens to be   *)
(* NULL, as above, this crashes.                                             *)
FreeCrashes ==
  /\ main = "join"
  /\ \A w \in Workers : pc[w] \in {"exited", "failed"}
  /\ \E i \in Slots : tasks[i] = Unset
  /\ main' = "crashed"
  /\ UNCHANGED <<ring, mu, stop, pc, held, added, done, freed>>

(* A handle that pthread_create never wrote is uninitialized memory:         *)
(* joining it returns an error, as above, or crashes.                        *)
JoinCrashes ==
  /\ main = "join"
  /\ \E w \in Workers : pc[w] = "failed"
  /\ main' = "crashed"
  /\ UNCHANGED <<ring, mu, stop, pc, held, added, done, freed>>
-----------------------------------------------------------------------------
(* thread_executor. *)

(* Mutation: the mutex is not taken. *)
AcquireAnyway(w) ==
  /\ pc[w] \in {"lock", "woken"}
  /\ mu' = w
  /\ pc' = [pc EXCEPT ![w] = "check"]
  /\ UNCHANGED <<ring, stop, held, main, added, done, freed>>

Acquire(w) ==
  /\ pc[w] \in {"lock", "woken"}
  /\ mu = Nobody
  /\ mu' = w
  /\ pc' = [pc EXCEPT ![w] = "check"]
  /\ UNCHANGED <<ring, stop, held, main, added, done, freed>>

WaitReady(w) ==
  /\ pc[w] = "check"
  /\ Size = 0
  /\ ~stop
  /\ mu' = Nobody
  /\ pc' = [pc EXCEPT ![w] = "wait"]
  /\ UNCHANGED <<ring, stop, held, main, added, done, freed>>

(* POSIX lets pthread_cond_wait return without a signal. *)
WakeSpuriously(w) ==
  /\ main # "crashed"
  /\ pc[w] = "wait"
  /\ pc' = [pc EXCEPT ![w] = "woken"]
  /\ UNCHANGED <<ring, mu, stop, held, main, added, done, freed>>

ExitOnStop(w) ==
  /\ pc[w] = "check"
  /\ stop
  /\ mu' = Nobody
  /\ pc' = [pc EXCEPT ![w] = "exited"]
  /\ UNCHANGED <<ring, stop, held, main, added, done, freed>>

(* cir_buffer_get up to its write of tail. *)
TakeSlot(w) ==
  /\ pc[w] = "check"
  /\ ~stop
  /\ Size # 0
  /\ full' = FALSE
  /\ held' = [held EXCEPT ![w] = tasks[tail]]
  /\ tasks' = [tasks EXCEPT ![tail] = NoTask]
  /\ pc' = [pc EXCEPT ![w] = "advance"]
  /\ UNCHANGED <<head, tail, mu, stop, main, added, done, freed>>

(* Mutation: `full' is not signalled. *)
AdvanceWithoutSignal(w) ==
  /\ pc[w] = "advance"
  /\ tail' = Succ(tail)
  /\ mu' = Nobody
  /\ pc' = [pc EXCEPT ![w] = IF held[w] = NoTask THEN "exited" ELSE "run"]
  /\ UNCHANGED <<tasks, head, full, stop, held, main, added, done, freed>>

(* The write of tail, the NULL check, the signal on `full' and the unlock. *)
AdvanceTail(w) ==
  /\ pc[w] = "advance"
  /\ tail' = Succ(tail)
  /\ mu' = Nobody
  /\ pc' = [pc EXCEPT ![w] = IF held[w] = NoTask THEN "exited" ELSE "run"]
  /\ main' = IF main = "waitFull" /\ held[w] # NoTask THEN "wokenFull" ELSE main
  /\ UNCHANGED <<tasks, head, full, stop, held, added, done, freed>>

(* executeTask and the two frees. *)
RunTask(w) ==
  /\ pc[w] = "run"
  /\ done' = done \cup {held[w]}
  /\ held' = [held EXCEPT ![w] = NoTask]
  /\ pc' = [pc EXCEPT ![w] = "lock"]
  /\ UNCHANGED <<ring, mu, stop, main, added, freed>>
-----------------------------------------------------------------------------
Finished ==
  /\ main \in {"done", "crashed"}
  /\ UNCHANGED vars

(* So may the wait of add_to_pool, which then looks at `full' again. *)
MainWakesSpuriously ==
  /\ main = "waitFull"
  /\ main' = "wokenFull"
  /\ UNCHANGED <<ring, mu, stop, pc, held, added, done, freed>>

MainStep ==
  \/ \E w \in Workers : CreateWorker(w) \/ CreateFails(w)
  \/ PoolCreated
  \/ AddLock \/ AddWait \/ AddPut \/ AddSignal \/ AddDone
  \/ PollFull \/ PollCompare \/ PollSubtract
  \/ StopPool \/ JoinAndFree \/ JoinCrashes \/ FreeCrashes

SpuriousWakeup ==
  \/ MainWakesSpuriously
  \/ \E w \in Workers : WakeSpuriously(w)

(* A crash of the process takes the workers with it. *)
WorkerStep(w) ==
  /\ main # "crashed"
  /\ \/ Acquire(w) \/ WaitReady(w) \/ ExitOnStop(w)
     \/ TakeSlot(w) \/ AdvanceTail(w) \/ RunTask(w)

Next ==
  \/ MainStep
  \/ \E w \in Workers : WorkerStep(w)
  \/ SpuriousWakeup
  \/ Finished

Spec == Init /\ [][Next]_vars

(* The scheduler runs every thread that can run, the mutex is granted to a   *)
(* thread for which it stays free, and spurious wakeups do not go on for     *)
(* ever.                                                                     *)
Fairness ==
  /\ WF_vars(MainStep)
  /\ \A w \in Workers : WF_vars(WorkerStep(w))
  /\ <>[][~SpuriousWakeup]_vars

FairSpec == Spec /\ Fairness
-----------------------------------------------------------------------------
(* A worker is inside cir_buffer_get: `full' is written, tail is not. *)
InGet == \E w \in Workers : pc[w] = "advance"

(* How many slots, from tail on, the ring still counts; InGet one of them is *)
(* already empty.                                                            *)
Window ==
  IF full \/ (InGet /\ head = tail) THEN Max ELSE Distance(tail, head)

Skip == IF InGet THEN 1 ELSE 0

Queued == {tasks[i] : i \in Slots} \cap Files
Running == {held[w] : w \in Workers} \cap Files

TypeOK ==
  /\ tasks \in [Slots -> Files \cup {NoTask, Unset}]
  /\ head \in Slots
  /\ tail \in Slots
  /\ full \in BOOLEAN
  /\ mu \in Workers \cup {Main, Nobody}
  /\ stop \in BOOLEAN
  /\ pc \in [Workers -> WorkerState]
  /\ held \in [Workers -> Files \cup {NoTask}]
  /\ main \in MainState
  /\ added \in 0 .. NFiles
  /\ done \subseteq Files
  /\ freed \subseteq Files

(* Every file submitted so far is in exactly one place: one slot of the ring,*)
(* the hands of one worker, the set of processed files, or the ring that was *)
(* freed.  No interleaving hands a task to two workers, overwrites one that  *)
(* waits, frees one that runs, or drops one without trace.                   *)
EveryFileInOnePlace ==
  /\ Queued \cup Running \cup done \cup freed = 1 .. added
  /\ Queued \cap Running = {}
  /\ (Queued \cup Running) \cap (done \cup freed) = {}
  /\ done \cap freed = {}
  /\ \A i, j \in Slots : tasks[i] \in Files /\ tasks[i] = tasks[j] => i = j
  /\ \A v, w \in Workers : held[v] \in Files /\ held[v] = held[w] => v = w

(* main's unlocked poll can take a full ring, seen while a worker is between *)
(* its two writes of cir_buffer_get, for an empty one, and stop the pool on  *)
(* tasks that wait.  Only the last Max - 1 files can be lost that way, and   *)
(* none when the directory has fewer files than the ring has slots.          *)
OnlyTheLastFilesAreLost ==
  /\ \A f \in freed : f > added - (Max - 1)
  /\ added < Max => freed = {}

(* No lost wakeup: tasks in the ring never meet a pool where every worker    *)
(* sleeps on `ready', unless main is just about to signal; a worker that     *)
(* is woken, running or looking at the ring will come for them.              *)
NoStrandedTask ==
  Window > Skip /\ ~stop /\ main \notin {"create", "signal"} =>
    \/ \A w \in Workers : pc[w] = "failed"
    \/ \E w \in Workers : pc[w] \in {"lock", "woken", "check", "advance", "run"}

(* main never sleeps on `full' beside a ring that has room: when it waits,   *)
(* the ring is full or the worker that makes room has still to signal.       *)
NoStrandedSubmitter ==
  main = "waitFull" => full \/ InGet

(* Every file of the directory is processed by the time the pool is stopped: *)
(* circular_buffer.h:10 says of a task that it `must be executed'.           *)
EveryFileProcessed == main = "done" => done = 1 .. added

(* The process does not survive the end of the pool only if a thread was not *)
(* created, whose handle it joins, or if the files were fewer than the slots *)
(* of the ring, of which it then frees one that was never written.           *)
CrashExplained ==
  main = "crashed" => (\E w \in Workers : pc[w] = "failed") \/ added < Max

(* The program ends: main submits every file, sees the ring empty, stops the *)
(* pool and joins every worker, unless that crashes.  It hangs only if there *)
(* is a file and not one worker: when pthread_create failed throughout, or   *)
(* when the scan that counts the threads has found no file and the second    *)
(* one has.                                                                  *)
Termination ==
  <>(\/ main \in {"done", "crashed"}
     \/ added > 0 /\ \A w \in Workers : pc[w] = "failed")

(* What the ring carries, oldest task first. *)
Pending ==
  IF main = "done" THEN <<>>
  ELSE [k \in 1 .. (Window - Skip) |-> tasks[At(tail, k - 1 + Skip)]]

Abstract == INSTANCE WorkPool
              WITH submitted <- added, pending <- Pending, running <- Running,
                   finished <- done, lost <- freed

(* Threads, mutex, condition variables and ring together are a work pool. *)
IsWorkPool == Abstract!WSpec
=============================================================================
