---------------------------- MODULE TelnetClient ----------------------------
(***************************************************************************)
(* hw13/src/main.c: a client that waits for the prompt of a telnet service,*)
(* sends one command and prints what comes back until the server closes.   *)
(* The server, whose bytes arrive in whatever portions the network makes,  *)
(* is external: it greets, answers a command, and may close at any time.   *)
(* A byte is known by its position in everything the server sends.         *)
(***************************************************************************)
EXTENDS Integers, Sequences

CONSTANTS
  Greeting,      \* the bytes before the command: "nl", "dot" or any other
  AnswerLength,  \* how many bytes the answer to the command has
  BufSize        \* BUF_SIZE

ASSUME TelnetAssumption ==
  /\ Greeting \in Seq(STRING)
  /\ Greeting # <<>> /\ Greeting[Len(Greeting)] = "dot"
  /\ AnswerLength \in Nat
  /\ BufSize \in Nat \ {0, 1}

VARIABLES
  pc,       \* where main is
  buff,     \* the positions of the bytes in buff that were received
  read,     \* how many bytes the client has received
  sent,     \* how many bytes of the server have arrived
  asked,    \* whether the command has been sent
  closed    \* whether the server has closed

client == <<pc, buff, read>>
server == <<sent, asked, closed>>
vars == <<client, server>>

Final == {"printed", "cut", "failed"}

Init ==
  /\ pc = "start"
  /\ buff = <<>>
  /\ read = 0
  /\ sent = 0
  /\ asked = FALSE
  /\ closed = FALSE

Goto(from, to) == pc = from /\ pc' = to

Least(m, n) == IF m <= n THEN m ELSE n

(* The positions recv hands over when there is room for that many bytes. *)
Arrived(room) == [i \in 1 .. Least(sent - read, room) |-> read + i]
-----------------------------------------------------------------------------
(* socket, the look-up of the name, connect. *)
Connect ==
  /\ pc = "start"
  /\ pc' \in {"prompt", "failed"}
  /\ UNCHANGED <<buff, read, server>>

(* Mutation: the whole prompt is expected in one portion. *)
PromptEndsWhole(chunk, before) ==
  /\ before = "nl"
  /\ Greeting[chunk[Len(chunk)]] = "dot"

(* The negation of the condition of do ... while, for a chunk that is not    *)
(* empty: its last byte but one is a newline, or its last byte a dot.        *)
PromptEnds(chunk, before) ==
  \/ before = "nl"
  \/ Greeting[chunk[Len(chunk)]] = "dot"

(* One round of the first loop.  Before a chunk of one byte lies buff[-1],   *)
(* whatever that is.                                                         *)
RecvPrompt ==
  /\ pc = "prompt"
  /\ sent > read
  /\ LET chunk == Arrived(BufSize - 1)
         n == Len(chunk)
     IN \E before \in IF n = 1 THEN {"nl", "other"} ELSE {Greeting[chunk[n - 1]]} :
          /\ pc' = IF PromptEnds(chunk, before) THEN "send" ELSE "prompt"
          /\ read' = read + n
  /\ UNCHANGED <<buff, server>>

(* The server has closed: recv returns 0, and main sends all the same. *)
PromptCutOff ==
  /\ Goto("prompt", "send")
  /\ sent = read /\ closed
  /\ UNCHANGED <<buff, read, server>>

RecvFails ==
  /\ Goto("prompt", "failed")
  /\ UNCHANGED <<buff, read, server>>

Send ==
  /\ Goto("send", "answer")
  /\ asked' = TRUE
  /\ UNCHANGED <<buff, read, sent, closed>>

SendFails ==
  /\ Goto("send", "failed")
  /\ UNCHANGED <<buff, read, server>>

(* Mutation: every portion is received at the start of the buffer. *)
PlacedAtStart(chunk) == chunk \o SubSeq(buff, Len(chunk) + 1, Len(buff))

(* Mutation: len is not subtracted from the room. *)
WholeRoom == BufSize

Placed(chunk) == buff \o chunk
Room == BufSize - Len(buff)

(* recv(sockfd, &buff[len], BUF_SIZE - len, 0) *)
RecvAnswer ==
  /\ Goto("answer", "answer")
  /\ sent > read /\ Len(buff) < BufSize
  /\ buff' = Placed(Arrived(Room))
  /\ read' = read + Len(Arrived(Room))
  /\ UNCHANGED server

(* recv returns 0, at the end of the stream or for want of room, in which    *)
(* case the terminating NUL goes to buff[BUF_SIZE].                          *)
Finish ==
  /\ Goto("answer", "printed")
  /\ Len(buff) = BufSize \/ (sent = read /\ closed)
  /\ UNCHANGED <<buff, read, server>>

(* recv returns -1: main prints what it has. *)
AnswerCut ==
  /\ Goto("answer", "cut")
  /\ UNCHANGED <<buff, read, server>>
-----------------------------------------------------------------------------
ServerSends ==
  /\ pc # "start" /\ ~closed
  /\ sent < Len(Greeting) + (IF asked THEN AnswerLength ELSE 0)
  /\ sent' = sent + 1
  /\ UNCHANGED <<client, asked, closed>>

ServerCloses ==
  /\ pc # "start" /\ ~closed
  /\ closed' = TRUE
  /\ UNCHANGED <<client, sent, asked>>

Ended ==
  /\ pc \in Final
  /\ UNCHANGED vars

Receive == RecvPrompt \/ PromptCutOff \/ RecvAnswer \/ Finish

Next ==
  \/ Connect \/ Receive \/ RecvFails \/ Send \/ SendFails \/ AnswerCut
  \/ ServerSends \/ ServerCloses
  \/ Ended

Spec == Init /\ [][Next]_vars

(* The client runs when it can, and the server completes its greeting and    *)
(* its answer unless it closes; it need not close.                           *)
FairSpec ==
  /\ Spec
  /\ WF_vars(Connect)
  /\ WF_vars(Receive \/ Send)
  /\ WF_vars(ServerSends)
-----------------------------------------------------------------------------
(* Every variable has its type; the client receives what has arrived, and an *)
(* answer only once it was asked for.                                        *)
TypeOK ==
  /\ pc \in {"start", "prompt", "send", "answer"} \cup Final
  /\ Len(buff) <= BufSize
  /\ buff \in [1 .. Len(buff) -> 1 .. sent]
  /\ sent \in 0 .. (Len(Greeting) + AnswerLength)
  /\ sent > Len(Greeting) => asked
  /\ read \in 0 .. sent
  /\ <<asked, closed>> \in BOOLEAN \X BOOLEAN

(* However the stream is cut into portions, what main prints is a run of     *)
(* consecutive bytes, with the whole answer in it unless the buffer was full:*)
(* the wait for the prompt throws away none of the answer, and the second    *)
(* loop stops no earlier than the server.                                    *)
PrintsTheAnswer ==
  pc = "printed" =>
    /\ \A i \in DOMAIN buff : buff[i] = read - Len(buff) + i
    /\ read - Len(buff) <= Len(Greeting)
    /\ Len(buff) = BufSize \/ read = sent

(* main never waits for what cannot come any more: however the greeting is   *)
(* cut into portions, the first loop does not wait for a prompt that has     *)
(* gone by, and once the server has closed main ends, wherever it was.       *)
NeverWaitsInVain ==
  /\ pc = "prompt" ~> pc # "prompt"
  /\ closed ~> pc \in Final
=============================================================================
