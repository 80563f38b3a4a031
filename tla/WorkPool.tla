------------------------------ MODULE WorkPool ------------------------------
(***************************************************************************)
(* What the log parser of hw12 may expect of its thread pool.  Files are   *)
(* submitted in order, at most Max of them wait, each is started at most   *)
(* once and in the order of submission, and a started file is finished.    *)
(* What the pool does not promise is that every file is started: it may    *)
(* discard what still waits once the last file is submitted, but never a   *)
(* whole queue of Max files, and nothing at all when there are fewer files *)
(* than places.                                                            *)
(***************************************************************************)
EXTENDS Integers, Sequences

CONSTANTS
  NFiles,  \* bound: at most how many files are submitted
  Max

VARIABLES
  submitted,  \* how many files were submitted
  pending,    \* the files that wait, oldest first
  running,    \* the files some worker is processing
  finished,   \* the files that were processed
  lost        \* the files that never will be

wvars == <<submitted, pending, running, finished, lost>>

WInit ==
  /\ submitted = 0
  /\ pending = <<>>
  /\ running = {}
  /\ finished = {}
  /\ lost = {}

Submit ==
  /\ lost = {}
  /\ submitted < NFiles
  /\ Len(pending) < Max
  /\ submitted' = submitted + 1
  /\ pending' = Append(pending, submitted')
  /\ UNCHANGED <<running, finished, lost>>

Start ==
  /\ pending # <<>>
  /\ running' = running \cup {Head(pending)}
  /\ pending' = Tail(pending)
  /\ UNCHANGED <<submitted, finished, lost>>

Finish(f) ==
  /\ f \in running
  /\ running' = running \ {f}
  /\ finished' = finished \cup {f}
  /\ UNCHANGED <<submitted, pending, lost>>

Discard ==
  /\ pending # <<>>
  /\ running = {}
  /\ Len(pending) < Max
  /\ submitted >= Max
  /\ lost' = {pending[i] : i \in DOMAIN pending}
  /\ pending' = <<>>
  /\ UNCHANGED <<submitted, running, finished>>

WNext ==
  \/ Submit
  \/ Start
  \/ \E f \in running : Finish(f)
  \/ Discard

WSpec == WInit /\ [][WNext]_wvars
=============================================================================
