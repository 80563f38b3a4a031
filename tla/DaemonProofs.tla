---------------------------- MODULE DaemonProofs ----------------------------
(***************************************************************************)
(* Theorems about Daemon, for any number of processes and directories and  *)
(* any length of the queue of connections.                                 *)
(***************************************************************************)
EXTENDS Daemon, TLAPS

(* The processes between validate_is_already_worked and their end. *)
Owning == Working \cup {"exit", "refused"}

(* The write lock on the pid file belongs to the one process that got it, to *)
(* its very end: nothing that process calls gives the lock away.             *)
LockedByOwner == \A p \in Procs : lock = p <=> pc[p] \in Owning

(* Who has written its pid finds it there until it ends. *)
PidWritten ==
  \A p \in Procs : pc[p] \in Working \ {"pid"} => pidFile = p

(* A socket file is that of a process which has bound it and will unlink it  *)
(* in the directory it works in, unless that process was killed.             *)
SocketOwned ==
  \A d \in Dirs :
    /\ sock[d] \in Procs => /\ pc[sock[d]] \in Bound \cup {"cleanup"}
                            /\ dir[sock[d]] = d
    /\ sock[d] = Stale => killed

IInv ==
  /\ TypeOK
  /\ LockedByOwner
  /\ PidWritten
  /\ SocketOwned
  /\ BindRefusedOnlyAfterKill
-----------------------------------------------------------------------------
(* At first nothing runs, nothing is locked and no directory has a socket.   *)
LEMMA InitInvariant == Init => IInv
<1> SUFFICES ASSUME Init PROVE IInv
  OBVIOUS
<1> USE DaemonAssumption DEF Init
<1>1. TypeOK
  <2>1. backlog \in [Procs -> 0 .. Backlog]
    OBVIOUS
  <2> QED
    BY <2>1 DEF TypeOK, States
<1>2. \A p \in Procs : pc[p] \notin Owning \cup {"refused"}
  BY DEF Owning, Working, Bound, Listening
<1>3. LockedByOwner
  BY <1>2 DEF LockedByOwner
<1>4. PidWritten
  BY <1>2 DEF PidWritten, Owning
<1>5. SocketOwned
  BY DEF SocketOwned
<1>6. BindRefusedOnlyAfterKill
  BY <1>2 DEF BindRefusedOnlyAfterKill
<1> QED
  BY <1>1, <1>3, <1>4, <1>5, <1>6 DEF IInv

(* Every step of a process, and every signal and connection, keeps the types.*)
LEMMA TypeStep ==
  ASSUME IInv, [Next]_vars
  PROVE  TypeOK'
<1> USE DaemonAssumption
    DEF IInv, TypeOK, States, Working, Bound, Listening, Refusals, Goto, files
<1>1. ASSUME NEW p \in Procs, Start(p) PROVE TypeOK'
  BY <1>1 DEF Start
<1>2. ASSUME NEW p \in Procs, Lock(p) \/ AlreadyWorked(p) \/ WritePid(p)
      PROVE  TypeOK'
  BY <1>2 DEF Lock, AlreadyWorked, WritePid, LockKept
<1>3. ASSUME NEW p \in Procs, ReadConf(p) \/ InstallHandler(p) PROVE TypeOK'
  BY <1>3 DEF ReadConf, InstallHandler
<1>4. ASSUME NEW p \in Procs, Bind(p) PROVE TypeOK'
  BY <1>4 DEF Bind
<1>5. ASSUME NEW p \in Procs, BindRefused(p) \/ SocketFails(p) \/ Listen(p)
      PROVE  TypeOK'
  BY <1>5 DEF BindRefused, SocketFails, Listen
<1>6. ASSUME NEW p \in Procs, TestFlag(p) \/ EnterAccept(p) \/ Reply(p)
      PROVE  TypeOK'
  BY <1>6 DEF TestFlag, StopSeen, EnterAccept, Reply
<1>7. ASSUME NEW p \in Procs, Accept(p) \/ AcceptFails(p) PROVE TypeOK'
  BY <1>7 DEF Accept, AcceptFails, Peer
<1>8. ASSUME NEW p \in Procs, Cleanup(p) PROVE TypeOK'
  BY <1>8 DEF Cleanup, Unlinked
<1>9. ASSUME NEW p \in Procs, Exit(p) PROVE TypeOK'
  BY <1>9 DEF Exit, Release
<1>10. ASSUME NEW p \in Procs, Connect(p) \/ Interrupt(p) PROVE TypeOK'
  <2>1. CASE Connect(p)
    <3>1. backlog[p] + 1 \in 0 .. Backlog
      BY <2>1 DEF Connect
    <3> QED
      BY <2>1, <3>1 DEF Connect
  <2>2. CASE Interrupt(p)
    BY <2>2 DEF Interrupt
  <2> QED
    BY <1>10, <2>1, <2>2
<1>11. ASSUME NEW p \in Procs, Kill(p) PROVE TypeOK'
  BY <1>11 DEF Kill, Release
<1>12. CASE UNCHANGED vars
  BY <1>12 DEF vars
<1> QED
  BY <1>1, <1>2, <1>3, <1>4, <1>5, <1>6, <1>7, <1>8, <1>9, <1>10, <1>11, <1>12
     DEF Next, Step

(* Who locks the file was the only one to try successfully; who holds the    *)
(* lock keeps it until it exits or is killed.                                *)
LEMMA LockStep ==
  ASSUME IInv, [Next]_vars
  PROVE  LockedByOwner'
<1> USE DaemonAssumption
    DEF IInv, TypeOK, LockedByOwner, Owning, Working, Bound, Listening,
        Refusals, Goto, files
<1>1. ASSUME NEW p \in Procs, Start(p) PROVE LockedByOwner'
  BY <1>1 DEF Start
<1>2. ASSUME NEW p \in Procs, Lock(p) PROVE LockedByOwner'
  BY <1>2 DEF Lock
<1>3. ASSUME NEW p \in Procs, AlreadyWorked(p) \/ WritePid(p)
      PROVE  LockedByOwner'
  BY <1>3 DEF AlreadyWorked, WritePid, LockKept
<1>4. ASSUME NEW p \in Procs, ReadConf(p) \/ InstallHandler(p)
      PROVE  LockedByOwner'
  BY <1>4 DEF ReadConf, InstallHandler
<1>5. ASSUME NEW p \in Procs,
             Bind(p) \/ BindRefused(p) \/ SocketFails(p) \/ Listen(p)
      PROVE  LockedByOwner'
  BY <1>5 DEF Bind, BindRefused, SocketFails, Listen
<1>6. ASSUME NEW p \in Procs, TestFlag(p) \/ EnterAccept(p) \/ Reply(p)
      PROVE  LockedByOwner'
  BY <1>6 DEF TestFlag, EnterAccept, Reply
<1>7. ASSUME NEW p \in Procs, Accept(p) \/ AcceptFails(p)
      PROVE  LockedByOwner'
  BY <1>7 DEF Accept, AcceptFails
<1>8. ASSUME NEW p \in Procs, Cleanup(p) PROVE LockedByOwner'
  BY <1>8 DEF Cleanup
<1>9. ASSUME NEW p \in Procs, Exit(p) PROVE LockedByOwner'
  BY <1>9 DEF Exit, Release
<1>10. ASSUME NEW p \in Procs, Connect(p) \/ Interrupt(p)
       PROVE  LockedByOwner'
  BY <1>10 DEF Connect, Interrupt
<1>11. ASSUME NEW p \in Procs, Kill(p) PROVE LockedByOwner'
  BY <1>11 DEF Kill, Release
<1>12. CASE UNCHANGED vars
  BY <1>12 DEF vars
<1> QED
  BY <1>1, <1>2, <1>3, <1>4, <1>5, <1>6, <1>7, <1>8, <1>9, <1>10, <1>11, <1>12
     DEF Next, Step

(* A process writes the pid file, or leaves it empty when it is killed       *)
(* between ftruncate and write, only while it has the lock: then no other    *)
(* process has its pid to lose.                                              *)
LEMMA PidStep ==
  ASSUME IInv, [Next]_vars
  PROVE  PidWritten'
<1> USE DaemonAssumption
    DEF IInv, TypeOK, LockedByOwner, PidWritten, Owning, Working, Bound,
        Listening, Refusals, Goto, files
<1>1. ASSUME NEW p \in Procs, Start(p) PROVE PidWritten'
  BY <1>1 DEF Start
<1>2. ASSUME NEW p \in Procs, Lock(p) \/ AlreadyWorked(p) PROVE PidWritten'
  BY <1>2 DEF Lock, AlreadyWorked
<1>3. ASSUME NEW p \in Procs, WritePid(p) PROVE PidWritten'
  BY <1>3 DEF WritePid
<1>4. ASSUME NEW p \in Procs, ReadConf(p) \/ InstallHandler(p)
      PROVE  PidWritten'
  BY <1>4 DEF ReadConf, InstallHandler
<1>5. ASSUME NEW p \in Procs,
             Bind(p) \/ BindRefused(p) \/ SocketFails(p) \/ Listen(p)
      PROVE  PidWritten'
  BY <1>5 DEF Bind, BindRefused, SocketFails, Listen
<1>6. ASSUME NEW p \in Procs, TestFlag(p) \/ EnterAccept(p) \/ Reply(p)
      PROVE  PidWritten'
  BY <1>6 DEF TestFlag, EnterAccept, Reply
<1>7. ASSUME NEW p \in Procs, Accept(p) \/ AcceptFails(p)
      PROVE  PidWritten'
  BY <1>7 DEF Accept, AcceptFails
<1>8. ASSUME NEW p \in Procs, Cleanup(p) \/ Exit(p) PROVE PidWritten'
  BY <1>8 DEF Cleanup, Exit
<1>10. ASSUME NEW p \in Procs, Connect(p) \/ Interrupt(p)
       PROVE  PidWritten'
  BY <1>10 DEF Connect, Interrupt
<1>11. ASSUME NEW p \in Procs, Kill(p) PROVE PidWritten'
  BY <1>11 DEF Kill
<1>12. CASE UNCHANGED vars
  BY <1>12 DEF vars
<1> QED
  BY <1>1, <1>2, <1>3, <1>4, <1>5, <1>6, <1>7, <1>8, <1>10, <1>11, <1>12
     DEF Next, Step

(* A process that has bound its socket neither starts again nor moves to     *)
(* another directory before it has unlinked the file; a kill marks the file. *)
LEMMA SocketStep ==
  ASSUME IInv, [Next]_vars
  PROVE  SocketOwned'
<1> USE DaemonAssumption
    DEF IInv, TypeOK, SocketOwned, Bound, Listening, Refusals, Goto, files
<1>1. ASSUME NEW p \in Procs, Start(p) PROVE SocketOwned'
  BY <1>1 DEF Start
<1>2. ASSUME NEW p \in Procs, Lock(p) \/ AlreadyWorked(p) \/ WritePid(p)
      PROVE  SocketOwned'
  BY <1>2 DEF Lock, AlreadyWorked, WritePid
<1>3. ASSUME NEW p \in Procs, ReadConf(p) \/ InstallHandler(p)
      PROVE  SocketOwned'
  BY <1>3 DEF ReadConf, InstallHandler
<1>4. ASSUME NEW p \in Procs, Bind(p) PROVE SocketOwned'
  BY <1>4 DEF Bind
<1>5. ASSUME NEW p \in Procs, BindRefused(p) \/ SocketFails(p) \/ Listen(p)
      PROVE  SocketOwned'
  BY <1>5 DEF BindRefused, SocketFails, Listen
<1>6. ASSUME NEW p \in Procs, TestFlag(p) \/ EnterAccept(p) \/ Reply(p)
      PROVE  SocketOwned'
  BY <1>6 DEF TestFlag, EnterAccept, Reply
<1>7. ASSUME NEW p \in Procs, Accept(p) \/ AcceptFails(p)
      PROVE  SocketOwned'
  BY <1>7 DEF Accept, AcceptFails
<1>8. ASSUME NEW p \in Procs, Cleanup(p) PROVE SocketOwned'
  BY <1>8 DEF Cleanup, Unlinked
<1>9. ASSUME NEW p \in Procs, Exit(p) PROVE SocketOwned'
  BY <1>9 DEF Exit
<1>10. ASSUME NEW p \in Procs, Connect(p) \/ Interrupt(p)
       PROVE  SocketOwned'
  BY <1>10 DEF Connect, Interrupt
<1>11. ASSUME NEW p \in Procs, Kill(p) PROVE SocketOwned'
  BY <1>11 DEF Kill
<1>12. CASE UNCHANGED vars
  BY <1>12 DEF vars
<1> QED
  BY <1>1, <1>2, <1>3, <1>4, <1>5, <1>6, <1>7, <1>8, <1>9, <1>10, <1>11, <1>12
     DEF Next, Step

(* The socket file that makes bind fail is not the caller's own, and the     *)
(* caller has the lock: so no living process has bound it, and it is left    *)
(* over from one that was killed.                                            *)
LEMMA RefusedStep ==
  ASSUME IInv, [Next]_vars
  PROVE  BindRefusedOnlyAfterKill'
<1> USE DEF IInv, TypeOK, BindRefusedOnlyAfterKill, Goto
<1>1. ASSUME NEW p \in Procs, BindRefused(p)
      PROVE  killed
  <2>1. lock = p /\ sock[dir[p]] # NoFile
    BY <1>1 DEF BindRefused, LockedByOwner, Owning, Working
  <2>2. sock[dir[p]] \notin Procs
    <3> SUFFICES ASSUME sock[dir[p]] \in Procs PROVE FALSE
      OBVIOUS
    <3>1. pc[sock[dir[p]]] \in Bound \cup {"cleanup"}
      BY DEF SocketOwned
    <3>2. sock[dir[p]] = p
      BY <2>1, <3>1 DEF LockedByOwner, Owning, Working
    <3> QED
      BY <1>1, <3>1, <3>2 DEF BindRefused, Bound, Listening
  <2> QED
    BY <2>1, <2>2 DEF SocketOwned
<1>2. killed => killed'
  BY DEF Next, Step, Start, Lock, AlreadyWorked, WritePid, ReadConf,
         InstallHandler, Bind, BindRefused, SocketFails, Listen, TestFlag,
         EnterAccept, Accept, AcceptFails, Reply, Cleanup, Exit, Connect,
         Interrupt, Kill, files, vars
<1>3. ASSUME NEW q \in Procs, pc'[q] = "refused", pc[q] # "refused"
      PROVE  BindRefused(q)
  <2>1. PICK p \in Procs :
          \/ Start(p) \/ Step(p)
          \/ Connect(p) \/ Interrupt(p) \/ AcceptFails(p) \/ Kill(p)
    BY <1>3 DEF Next, vars
  <2>2. CASE BindRefused(p)
    BY <1>3, <2>2 DEF BindRefused
  <2>3. CASE Start(p) \/ (Step(p) /\ ~ BindRefused(p))
    BY <1>3, <2>3
       DEF Step, Start, Lock, AlreadyWorked, WritePid, ReadConf,
           InstallHandler, Bind, SocketFails, Listen, TestFlag, EnterAccept,
           Accept, Reply, Cleanup, Exit
  <2>4. CASE Connect(p) \/ AcceptFails(p) \/ Kill(p)
    BY <1>3, <2>4 DEF Connect, AcceptFails, Kill
  <2>5. CASE Interrupt(p)
    BY <1>3, <2>5 DEF Interrupt
  <2> QED
    BY <2>1, <2>2, <2>3, <2>4, <2>5
<1> QED
  BY <1>1, <1>2, <1>3

(* The inductive invariant is one.                                           *)
LEMMA NextInvariant == IInv /\ [Next]_vars => IInv'
BY TypeStep, LockStep, PidStep, SocketStep, RefusedStep DEF IInv

(* It holds in every state any number of processes reach, wherever they are  *)
(* started and whenever they are interrupted or killed.                      *)
THEOREM Invariance == Spec => []IInv
<1>1. Init => IInv
  BY InitInvariant
<1>2. IInv /\ [Next]_vars => IInv'
  BY NextInvariant
<1> QED
  BY <1>1, <1>2, PTL DEF Spec

(* Types, and the queue of connections stays within what listen asked for.   *)
THEOREM TypeCorrect == Spec => []TypeOK
<1>1. IInv => TypeOK
  BY DEF IInv
<1> QED
  BY <1>1, Invariance, PTL

(* Mutual exclusion of the servers, and the pid file names the one there is. *)
THEOREM OneServer == Spec => []OneServerNamed
<1>1. ASSUME IInv, NEW p \in Procs, NEW q \in Procs \ {p}, pc[p] \in Working
      PROVE  pc[q] \notin Working
  BY <1>1 DEF IInv, LockedByOwner, Owning
<1>2. ASSUME IInv, NEW p \in Procs, pc[p] \in Bound \cup {"cleanup"}
      PROVE  pidFile = p
  BY <1>2 DEF IInv, PidWritten, Working, Bound, Listening
<1>3. IInv => OneServerNamed
  BY <1>1, <1>2 DEF OneServerNamed
<1> QED
  BY <1>3, Invariance, PTL

(* A shutdown that is not a kill leaves nothing that stops the next server.  *)
THEOREM CleanShutdown == Spec => []BindRefusedOnlyAfterKill
<1>1. IInv => BindRefusedOnlyAfterKill
  BY DEF IInv
<1> QED
  BY <1>1, Invariance, PTL
=============================================================================
