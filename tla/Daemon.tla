------------------------------- MODULE Daemon -------------------------------
(***************************************************************************)
(* hw10/src/main.c: a daemon that tells its clients the size of a file     *)
(* over a unix socket.  Processes are started, interrupted and killed at   *)
(* any time; what they leave behind in the file system outlives them: the  *)
(* pid file, which a living process may lock, and the socket file.         *)
(***************************************************************************)
EXTENDS Integers

CONSTANTS
  Procs,    \* the processes that run the program, one run after another
  Dirs,     \* where it is started; -d changes to one of them, of fixed name
  Backlog,  \* how many connections the kernel queues, 5 in listen
  Nobody,   \* no process: the lock is free, the pid file is empty
  NoFile,   \* there is no socket file
  Stale     \* a socket file whose process is gone

ASSUME DaemonAssumption ==
  /\ Backlog \in Nat \ {0}
  /\ {Nobody, NoFile, Stale} \cap Procs = {}
  /\ NoFile # Stale

VARIABLES
  pc,       \* where each process is; "none" is not running
  dir,      \* its working directory
  flag,     \* its `flag', set by the SIGINT handler
  backlog,  \* the connections that wait for its accept
  lock,     \* the process that holds the write lock on the pid file
  pidFile,  \* the process whose pid is in the pid file, or Nobody: it is empty
  sock,     \* the process each directory's usd.socket is bound to
  killed    \* history: some process died before it could clean up

files == <<lock, pidFile, sock, killed>>
vars == <<pc, dir, flag, backlog, files>>

(* After validate_is_already_worked, and after bind, in that order. *)
Listening == {"loop", "tested", "accept", "reply"}
Bound == {"listen"} \cup Listening
Working == {"pid", "conf", "handler", "bind", "cleanup"} \cup Bound
Refusals == {"already", "refused"}
States == {"none", "lock", "exit"} \cup Working \cup Refusals

Init ==
  /\ pc = [p \in Procs |-> "none"]
  /\ dir \in [Procs -> Dirs]
  /\ flag = [p \in Procs |-> FALSE]
  /\ backlog = [p \in Procs |-> 0]
  /\ lock = Nobody
  /\ pidFile = Nobody
  /\ sock = [d \in Dirs |-> NoFile]
  /\ killed = FALSE

Goto(p, from, to) ==
  /\ pc[p] = from
  /\ pc' = [pc EXCEPT ![p] = to]
-----------------------------------------------------------------------------
(* In the foreground, or with -d: daemonize forks twice, changes directory   *)
(* and closes every descriptor, all of it before the pid file is locked.     *)
Start(p) ==
  /\ Goto(p, "none", "lock")
  /\ \E d \in Dirs : dir' = [dir EXCEPT ![p] = d]
  /\ flag' = [flag EXCEPT ![p] = FALSE]
  /\ backlog' = [backlog EXCEPT ![p] = 0]
  /\ UNCHANGED files

(* validate_is_already_worked: F_SETLK does not wait. *)
Lock(p) ==
  /\ Goto(p, "lock", "pid")
  /\ lock = Nobody
  /\ lock' = p
  /\ UNCHANGED <<dir, flag, backlog, pidFile, sock, killed>>

(* Another one has the lock, or the file cannot be opened or locked. *)
AlreadyWorked(p) ==
  /\ Goto(p, "lock", "already")
  /\ UNCHANGED <<dir, flag, backlog, files>>

(* Mutation: the descriptor is closed, and the lock goes with it. *)
LockDropped == Nobody

(* The pid file stays open. *)
LockKept == lock

(* ftruncate and write. *)
WritePid(p) ==
  /\ Goto(p, "pid", "conf")
  /\ pidFile' = p
  /\ lock' = LockKept
  /\ UNCHANGED <<dir, flag, backlog, sock, killed>>

(* init_conf: the watched file is named and there, or the program ends. *)
ReadConf(p) ==
  /\ Goto(p, "conf", "handler") \/ Goto(p, "conf", "exit")
  /\ UNCHANGED <<dir, flag, backlog, files>>

InstallHandler(p) ==
  /\ Goto(p, "handler", "bind") \/ Goto(p, "handler", "exit")
  /\ UNCHANGED <<dir, flag, backlog, files>>
-----------------------------------------------------------------------------
(* unix_socket_server. *)
Bind(p) ==
  /\ Goto(p, "bind", "listen")
  /\ sock[dir[p]] = NoFile
  /\ sock' = [sock EXCEPT ![dir[p]] = p]
  /\ UNCHANGED <<dir, flag, backlog, lock, pidFile, killed>>

(* EADDRINUSE: the file exists, and nothing is unlinked. *)
BindRefused(p) ==
  /\ Goto(p, "bind", "refused")
  /\ sock[dir[p]] # NoFile
  /\ UNCHANGED <<dir, flag, backlog, files>>

SocketFails(p) ==
  /\ Goto(p, "bind", "exit")
  /\ UNCHANGED <<dir, flag, backlog, files>>

Listen(p) ==
  /\ Goto(p, "listen", "loop")
  /\ UNCHANGED <<dir, flag, backlog, files>>

(* Mutation: the loop goes on for ever. *)
StopUnseen(p) == FALSE

StopSeen(p) == flag[p]

(* while(!flag) *)
TestFlag(p) ==
  /\ Goto(p, "loop", IF StopSeen(p) THEN "cleanup" ELSE "tested")
  /\ UNCHANGED <<dir, flag, backlog, files>>

EnterAccept(p) ==
  /\ Goto(p, "tested", "accept")
  /\ UNCHANGED <<dir, flag, backlog, files>>

(* Mutation: accept does not wait for a connection. *)
PeerOrNone(p) == TRUE

Peer(p) == backlog[p] > 0

Accept(p) ==
  /\ Goto(p, "accept", "reply")
  /\ Peer(p)
  /\ backlog' = [backlog EXCEPT ![p] = @ - 1]
  /\ UNCHANGED <<dir, flag, files>>

(* accept fails for another reason than a signal: the loop ends. *)
AcceptFails(p) ==
  /\ Goto(p, "accept", "cleanup")
  /\ UNCHANGED <<dir, flag, backlog, files>>

(* stat, send and close, if the client is still there. *)
Reply(p) ==
  /\ Goto(p, "reply", "loop")
  /\ UNCHANGED <<dir, flag, backlog, files>>

(* Mutation: the socket file is not removed. *)
StaleFile == Stale

Unlinked == NoFile

(* close and unlink; the pid file stays locked. *)
Cleanup(p) ==
  /\ Goto(p, "cleanup", "exit")
  /\ backlog' = [backlog EXCEPT ![p] = 0]
  /\ sock' = [sock EXCEPT ![dir[p]] = Unlinked]
  /\ UNCHANGED <<dir, flag, lock, pidFile, killed>>

(* The kernel drops the lock with the process. *)
Release(p) == lock' = IF lock = p THEN Nobody ELSE lock

Exit(p) ==
  /\ pc[p] \in {"exit"} \cup Refusals
  /\ pc' = [pc EXCEPT ![p] = "none"]
  /\ Release(p)
  /\ UNCHANGED <<dir, flag, backlog, pidFile, sock, killed>>
-----------------------------------------------------------------------------
(* What the world does: clients, signals, crashes. *)
Connect(p) ==
  /\ pc[p] \in Listening
  /\ backlog[p] < Backlog
  /\ backlog' = [backlog EXCEPT ![p] = @ + 1]
  /\ UNCHANGED <<pc, dir, flag, files>>

(* SIGINT while the handler is installed: it sets the flag, and accept, if   *)
(* the process waits in it, fails and ends the loop.                         *)
Interrupt(p) ==
  /\ pc[p] \in {"bind", "cleanup"} \cup Bound
  /\ flag' = [flag EXCEPT ![p] = TRUE]
  /\ \/ pc[p] = "accept" /\ pc' = [pc EXCEPT ![p] = "cleanup"]
     \/ (pc[p] = "accept" => backlog[p] > 0) /\ UNCHANGED pc
  /\ UNCHANGED <<dir, backlog, files>>

(* SIGTERM and SIGKILL at any time, SIGINT before there is a handler, and    *)
(* SIGPIPE when the client hung up before send: no line of the program runs. *)
(* Between ftruncate and write the pid file is left empty.                   *)
Kill(p) ==
  /\ pc[p] # "none"
  /\ pc' = [pc EXCEPT ![p] = "none"]
  /\ Release(p)
  /\ sock' = [d \in Dirs |-> IF sock[d] = p THEN Stale ELSE sock[d]]
  /\ backlog' = [backlog EXCEPT ![p] = 0]
  /\ pidFile' \in {pidFile} \cup (IF pc[p] = "pid" THEN {Nobody} ELSE {})
  /\ killed' = TRUE
  /\ UNCHANGED <<dir, flag>>

Step(p) ==
  \/ Lock(p) \/ AlreadyWorked(p) \/ WritePid(p)
  \/ ReadConf(p) \/ InstallHandler(p)
  \/ Bind(p) \/ BindRefused(p) \/ SocketFails(p) \/ Listen(p)
  \/ TestFlag(p) \/ EnterAccept(p) \/ Accept(p) \/ Reply(p)
  \/ Cleanup(p) \/ Exit(p)

Next ==
  \E p \in Procs :
    \/ Start(p) \/ Step(p)
    \/ Connect(p) \/ Interrupt(p) \/ AcceptFails(p) \/ Kill(p)

Spec == Init /\ [][Next]_vars

(* A process that can run does; accept need not ever fail. *)
FairSpec == Spec /\ \A p \in Procs : WF_vars(Step(p))
-----------------------------------------------------------------------------
(* Every variable has its type; only a running process holds the lock, and   *)
(* only one that listens has connections.                                    *)
TypeOK ==
  /\ pc \in [Procs -> States]
  /\ dir \in [Procs -> Dirs]
  /\ flag \in [Procs -> BOOLEAN]
  /\ backlog \in [Procs -> 0 .. Backlog]
  /\ lock \in Procs \cup {Nobody}
  /\ pidFile \in Procs \cup {Nobody}
  /\ sock \in [Dirs -> Procs \cup {NoFile, Stale}]
  /\ killed \in BOOLEAN

(* At most one process is past validate_is_already_worked, wherever the      *)
(* processes were started, however they end, and until it has cleaned up;    *)
(* and who reads the pid file of a running server finds that server's pid,   *)
(* whatever earlier or refused processes did to the file.                    *)
OneServerNamed ==
  \A p \in Procs :
    /\ pc[p] \in Working => \A q \in Procs \ {p} : pc[q] \notin Working
    /\ pc[p] \in Bound \cup {"cleanup"} => pidFile = p

(* Shutdown is clean: bind is never refused, not even in the race between a  *)
(* server that leaves and one that starts, unless a process was killed.      *)
BindRefusedOnlyAfterKill ==
  \A p \in Procs : pc[p] = "refused" => killed

(* A SIGINT between the test of the flag and accept is missed, but not for   *)
(* longer than until the next connection.                                    *)
StopsAtNextConnection ==
  \A p \in Procs : flag[p] /\ backlog[p] > 0 ~> pc[p] = "none"
=============================================================================
