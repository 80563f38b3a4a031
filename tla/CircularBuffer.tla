--------------------------- MODULE CircularBuffer ---------------------------
(***************************************************************************)
(* hw12/src/circular_buffer.c: the ring that carries tasks from main to    *)
(* the workers of the thread pool.  Every function is one action: all      *)
(* calls but the unlocked cir_buffer_size of main run under the pool's     *)
(* mutex (ThreadPool models that exception).                               *)
(***************************************************************************)
EXTENDS RingIndex, Sequences

CONSTANTS
  Tasks,    \* the task_t values the ring may carry
  Null,     \* the null pointer
  Unset     \* what a slot of malloc'ed memory holds that nobody wrote

ASSUME PointerAssumption ==
  /\ Null \notin Tasks
  /\ Unset \notin Tasks
  /\ Null # Unset

VARIABLES
  tasks,     \* buf->tasks
  head,      \* buf->head, the next slot to write
  tail,      \* buf->tail, the next slot to read
  full,      \* buf->full
  fate,      \* "freed" once cir_buffer_free has returned, or "crashed" in it
  ret,       \* what the last call returned
  released   \* the tasks that cir_buffer_free released

ringVars == <<tasks, head, tail, full, fate, ret, released>>

Size == SizeOf(head, tail, full)

(* create_cir_buffer does not clear the array it allocates. *)
RingInit ==
  /\ tasks \in [Slots -> {Null, Unset}]
  /\ head = 0
  /\ tail = 0
  /\ full = FALSE
  /\ fate = "alive"
  /\ ret = "nothing"
  /\ released = {}

(* Mutation: the flag is not raised when head catches up with tail. *)
PutNeverFull(t) ==
  /\ fate = "alive"
  /\ ~full
  /\ tasks' = [tasks EXCEPT ![head] = t]
  /\ head' = Succ(head)
  /\ ret' = "accepted"
  /\ UNCHANGED <<tail, full, fate, released>>

Put(t) ==
  /\ fate = "alive"
  /\ ~full
  /\ tasks' = [tasks EXCEPT ![head] = t]
  /\ head' = Succ(head)
  /\ full' = (Succ(head) = tail)
  /\ ret' = "accepted"
  /\ UNCHANGED <<tail, fate, released>>

PutRefused ==
  /\ fate = "alive"
  /\ full
  /\ ret' = "refused"
  /\ UNCHANGED <<tasks, head, tail, full, fate, released>>

(* Mutation: the flag is not lowered. *)
GetLeavesFull ==
  /\ fate = "alive"
  /\ ret' = tasks[tail]
  /\ tasks' = [tasks EXCEPT ![tail] = Null]
  /\ tail' = Succ(tail)
  /\ UNCHANGED <<head, full, fate, released>>

(* cir_buffer_get itself does not look whether the ring is empty. *)
RingGet ==
  /\ fate = "alive"
  /\ full' = FALSE
  /\ ret' = tasks[tail]
  /\ tasks' = [tasks EXCEPT ![tail] = Null]
  /\ tail' = Succ(tail)
  /\ UNCHANGED <<head, fate, released>>

(* thread_executor calls it only after it saw a size other than 0. *)
GuardedGet ==
  /\ Size # 0
  /\ RingGet

(* task_free frees what every slot points to that is not the null pointer;   *)
(* a slot that nobody ever wrote is not told from a task.                    *)
Free ==
  /\ fate = "alive"
  /\ \A i \in Slots : tasks[i] # Unset
  /\ fate' = "freed"
  /\ released' = {tasks[i] : i \in Slots} \ {Null}
  /\ tasks' = [i \in Slots |-> Null]
  /\ ret' = "nothing"
  /\ UNCHANGED <<head, tail, full>>

FreeCrashes ==
  /\ fate = "alive"
  /\ \E i \in Slots : tasks[i] = Unset
  /\ fate' = "crashed"
  /\ UNCHANGED <<tasks, head, tail, full, ret, released>>

RingNext ==
  \/ \E t \in Tasks : Put(t)
  \/ PutRefused
  \/ GuardedGet
  \/ Free
  \/ FreeCrashes

RingSpec == RingInit /\ [][RingNext]_ringVars
-----------------------------------------------------------------------------
(* The slots that hold a task, from the three fields of the ring. *)
Occupied == {i \in Slots : Distance(tail, i) < Size}

(* The fields have the types the header gives them. *)
RingTypeOK ==
  /\ tasks \in [Slots -> Tasks \cup {Null, Unset}]
  /\ head \in Slots
  /\ tail \in Slots
  /\ full \in BOOLEAN
  /\ fate \in {"alive", "freed", "crashed"}
  /\ ret \in Tasks \cup {"nothing", "accepted", "refused"}
  /\ released \subseteq Tasks

(* head, tail and full always tell which slots hold a task: the window that  *)
(* starts at tail and is cir_buffer_size long, across every wrap-around and  *)
(* although head = tail both when the ring is empty and when it is full.     *)
WindowHoldsTheTasks ==
  /\ full => head = tail
  /\ fate # "freed" => \A i \in Slots : tasks[i] \in Tasks <=> i \in Occupied

(* What the queue contains, oldest task first. *)
Contents ==
  IF fate = "freed" THEN <<>> ELSE [k \in 1 .. Size |-> tasks[At(tail, k - 1)]]

Queue == INSTANCE BoundedQueue WITH queue <- Contents

(* The ring used by the pool's discipline is a bounded first-in first-out    *)
(* queue: put appends or refuses at Max, get returns the oldest task, and a  *)
(* free that returns has released exactly the tasks still queued.            *)
IsBoundedQueue == Queue!QSpec
=============================================================================
