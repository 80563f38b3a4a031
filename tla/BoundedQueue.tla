---------------------------- MODULE BoundedQueue ----------------------------
(***************************************************************************)
(* What the task ring of hw12 promises its user: a first-in first-out      *)
(* queue of at most Max tasks, that refuses a task when it is full and     *)
(* releases the tasks still queued when it is freed.                       *)
(***************************************************************************)
EXTENDS Integers, Sequences

CONSTANTS Tasks, Max

VARIABLES
  queue,     \* the tasks put and not yet taken, oldest first
  ret,       \* what the last call returned
  released   \* the tasks that were queued when the queue was freed

qvars == <<queue, ret, released>>

Accepted == "accepted"
Refused == "refused"
Nothing == "nothing"

QInit ==
  /\ queue = <<>>
  /\ ret = Nothing
  /\ released = {}

Enqueue(t) ==
  /\ Len(queue) < Max
  /\ queue' = Append(queue, t)
  /\ ret' = Accepted
  /\ UNCHANGED released

Refuse ==
  /\ Len(queue) = Max
  /\ ret' = Refused
  /\ UNCHANGED <<queue, released>>

Dequeue ==
  /\ queue # <<>>
  /\ ret' = Head(queue)
  /\ queue' = Tail(queue)
  /\ UNCHANGED released

Release ==
  /\ released' = {queue[i] : i \in DOMAIN queue}
  /\ queue' = <<>>
  /\ ret' = Nothing

QNext ==
  \/ \E t \in Tasks : Enqueue(t)
  \/ Refuse
  \/ Dequeue
  \/ Release

QSpec == QInit /\ [][QNext]_qvars
=============================================================================
