------------------------ MODULE ThreadPoolInvariant -------------------------
(***************************************************************************)
(* The inductive invariant of ThreadPool: who holds the mutex, what main   *)
(* has done so far, what the workers hold, and which file is in which slot *)
(* of the ring at every instant, in the middle of cir_buffer_get included. *)
(***************************************************************************)
EXTENDS ThreadPool

(* A thread between lock and unlock owns the mutex, and no other one does. *)
Locks ==
  /\ \A w \in Workers : pc[w] \in {"check", "advance"} <=> mu = w
  /\ main = "addCheck" <=> mu = Main

Polling == {"pollFull", "pollCompare", "pollSubtract"}
Stopped == {"join", "done", "crashed"}
SawNotFull == {"pollCompare", "pollSubtract", "stop"} \cup Stopped

(* What main's position tells of its past. *)
Phases ==
  /\ main = "create" => added = 0
  /\ main # "create" => \A w \in Workers : pc[w] # "unborn"
  /\ main \in {"addCheck", "waitFull", "wokenFull"} => added < NFiles
  /\ main \in SawNotFull => ~full
  /\ stop <=> main \in Stopped
  /\ \A w \in Workers : pc[w] = "exited" => stop
  /\ main = "done" => \A w \in Workers : pc[w] \in {"exited", "failed"}

(* A worker holds a task from cir_buffer_get to the end of the task. *)
Hands ==
  \A w \in Workers : held[w] # NoTask <=> pc[w] \in {"advance", "run"}

(* How many files have left the ring. *)
Taken == added - Window + Skip

(* The files still queued lie in the window in the order main added them. *)
Slotted ==
  /\ full => ~InGet /\ head = tail
  /\ Taken >= 0
  /\ main # "done" => \A i \in Slots :
       IF Skip <= Distance(tail, i) /\ Distance(tail, i) < Window
       THEN tasks[i] = added - Window + 1 + Distance(tail, i)
       ELSE tasks[i] \notin Files

(* The files that have left the ring are in one worker's hands or done. *)
Places ==
  /\ main # "done" =>
       /\ freed = {}
       /\ \A f \in Files : f \in Running \cup done <=> f <= Taken
  /\ Running \cap done = {}
  /\ \A v, w \in Workers : held[v] # NoTask /\ held[v] = held[w] => v = w

(* With fewer files than slots main stops the pool on an empty ring only. *)
Drained ==
  added < Max /\ main \in {"stop"} \cup Stopped => Window = 0

(* What the ring held when it was freed. *)
Final ==
  main = "done" =>
    /\ \A i \in Slots : tasks[i] = NoTask
    /\ done \cup freed = 1 .. added
    /\ done \cap freed = {}
    /\ \A f \in freed : f > added - (Max - 1)
    /\ added < Max => freed = {}

(* Slots are written in order: while one was never written, head has not gone*)
(* round and is the number of files added.                                   *)
Unwritten ==
  \A i \in Slots : tasks[i] = Unset => added = head /\ head <= i

IInv ==
  /\ TypeOK
  /\ Locks
  /\ Phases
  /\ Hands
  /\ Slotted
  /\ Places
  /\ Drained
  /\ Final
  /\ NoStrandedTask
  /\ NoStrandedSubmitter
=============================================================================
