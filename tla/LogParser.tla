----------------------------- MODULE LogParser ------------------------------
(***************************************************************************)
(* The log parser of hw12 (main.c) on top of its parts: the pool, of which *)
(* WorkPool says what main may expect, and the two tables of counters, of  *)
(* which CounterMap says that each hash_t_inc takes effect at one instant. *)
(* Such an increment is dropped without a word if the key has no node yet  *)
(* and there is no memory for one.  What is left between the workers is    *)
(* the static state of strtok, which every worker uses to cut the URI out  *)
(* of a request.                                                           *)
(***************************************************************************)
EXTENDS WorkPool, FiniteSets

Totals == INSTANCE FiniteSetsExt

CONSTANTS
  Workers,
  Content,     \* the lines of each file, with a `uri', a `ref' and `number'
  MayNotOpen,  \* the files fopen may fail on
  NoRef,       \* the referer "-"
  Proto,       \* the last word of every request
  Junk,        \* whatever a pointer into a dead stack frame points to
  Null         \* the null pointer, and strtok's state at the end of a string

Files == 1 .. NFiles
Lines == UNION {{<<f, n>> : n \in DOMAIN Content[f]} : f \in Files}
LineAt(l) == Content[l[1]][l[2]]
Uris == {LineAt(l).uri : l \in Lines}
Refs == {LineAt(l).ref : l \in Lines} \ {NoRef}

ASSUME ContentAssumption ==
  /\ NFiles \in Nat
  /\ DOMAIN Content = Files
  /\ \A f \in Files : /\ Len(Content[f]) \in Nat
                       /\ DOMAIN Content[f] = 1 .. Len(Content[f])
  /\ MayNotOpen \subseteq Files
  /\ \A l \in Lines : LineAt(l).number \in Nat
  /\ {Proto, Junk, Null} \cap Uris = {}
  /\ Cardinality({Proto, Junk, Null}) = 3
  /\ Null \notin [of : Workers, line : Lines, word : {"uri", "proto"}]

VARIABLES
  step,     \* where each worker is in process_file and parse_apache_log
  line,     \* the file and the number of the line each worker is at
  uri,      \* where its pointer `uri' points: a worker's line and a word of it
  current,  \* its current_bytes
  last,     \* what strtok remembers: a worker's line and the next word of it
  bytes,    \* the atomic counter
  refers,   \* refer_hash_t
  uris,     \* uri_hash_t
  stored,   \* the words uri_hash_t has a node for
  opened,   \* history: the files that could be opened
  mixed,    \* history: strtok went on in a request that is not the caller's
  droppedRefs,  \* history: the lines whose referer found no memory for a node,
  droppedUris   \* and those whose URI found none

pool == <<submitted, pending, running, finished, lost>>
parser == <<step, line, uri, current, last, bytes, refers, uris, stored,
            opened, mixed, droppedRefs, droppedUris>>
vars == <<pool, parser>>

NoLine == <<0, 0>>

Init ==
  /\ WInit
  /\ step = [w \in Workers |-> "idle"]
  /\ line = [w \in Workers |-> NoLine]
  /\ uri = [w \in Workers |-> Null]
  /\ current = [w \in Workers |-> 0]
  /\ last = Null
  /\ bytes = 0
  /\ refers = [r \in Refs |-> 0]
  /\ uris = [u \in Uris \cup {Proto, Junk} |-> 0]
  /\ stored = {}
  /\ opened = {}
  /\ mixed = FALSE
  /\ droppedRefs = {}
  /\ droppedUris = {}

Goto(w, from, to) ==
  /\ step[w] = from
  /\ step' = [step EXCEPT ![w] = to]

Here(w) == LineAt(line[w])

(* fgets finds a next line, or the end of the file. *)
StepAt(f, n) == IF n \in DOMAIN Content[f] THEN "method" ELSE "close"
-----------------------------------------------------------------------------
(* main submits, or stops the pool. *)
MainStep ==
  /\ Submit \/ Discard
  /\ UNCHANGED parser

Open(w) ==
  /\ step[w] = "idle"
  /\ Start
  /\ step' = [step EXCEPT ![w] = StepAt(Head(pending), 1)]
  /\ line' = [line EXCEPT ![w] = <<Head(pending), 1>>]
  /\ current' = [current EXCEPT ![w] = 0]
  /\ opened' = opened \cup {Head(pending)}
  /\ UNCHANGED <<uri, last, bytes, refers, uris, stored, mixed, droppedRefs, droppedUris>>

OpenFails(w) ==
  /\ Start
  /\ Goto(w, "idle", "failed")
  /\ Head(pending) \in MayNotOpen
  /\ line' = [line EXCEPT ![w] = <<Head(pending), 1>>]
  /\ UNCHANGED <<uri, current, last, bytes, refers, uris, stored, opened, mixed,
                 droppedRefs, droppedUris>>

GiveUp(w) ==
  /\ Goto(w, "failed", "idle")
  /\ Finish(line[w][1])
  /\ UNCHANGED <<line, uri, current, last, bytes, refers, uris, stored, opened, mixed,
                 droppedRefs, droppedUris>>

(* strtok(request, " "): the method; the URI is the next word. *)
TokenizeMethod(w) ==
  /\ Goto(w, "method", "uri")
  /\ last' = [of |-> w, line |-> line[w], word |-> "uri"]
  /\ UNCHANGED <<pool, line, uri, current, bytes, refers, uris, stored, opened, mixed,
                 droppedRefs, droppedUris>>

(* strtok(NULL, " "): the next word of the request strtok was last given,    *)
(* whosever it is.                                                           *)
TokenizeUri(w) ==
  /\ Goto(w, "uri", "referer")
  /\ uri' = [uri EXCEPT ![w] = last]
  /\ last' = IF last # Null /\ last.word = "uri"
             THEN [last EXCEPT !.word = "proto"] ELSE Null
  /\ mixed' = (mixed \/ last # [of |-> w, line |-> line[w], word |-> "uri"])
  /\ UNCHANGED <<pool, line, current, bytes, refers, uris, stored, opened,
                 droppedRefs, droppedUris>>

(* Mutation: strtok is not called on the referer. *)
RequestGoesOn == last

(* The referer is used up. *)
RequestForgotten == Null

(* strtok(referer, " ") and the increment of the referer's counter, which no *)
(* other worker reads; a referer that has a counter needs no memory.         *)
CountReferer(w) ==
  LET ref == Here(w).ref
  IN /\ Goto(w, "referer", "credit")
     /\ last' = RequestForgotten
     /\ \/ ref = NoRef /\ UNCHANGED <<refers, droppedRefs>>
        \/ /\ ref # NoRef
           /\ refers' = [refers EXCEPT ![ref] = @ + 1]
           /\ UNCHANGED droppedRefs
        \/ /\ ref # NoRef /\ refers[ref] = 0
           /\ droppedRefs' = droppedRefs \cup {line[w]}
           /\ UNCHANGED refers
     /\ UNCHANGED <<pool, line, uri, current, bytes, uris, stored, opened, mixed,
                    droppedUris>>

(* The string a pointer points to: the frame of its owner may be gone. *)
WordAt(p) ==
  IF line[p.of] # p.line \/ step[p.of] \in {"idle", "close"} THEN Junk
  ELSE IF p.word = "uri" THEN LineAt(p.line).uri
  ELSE Proto

(* Mutation: requests are counted, not bytes. *)
One(w) == 1

Credit(w) == Here(w).number

(* hash_t_inc(uri_hash_t, uri, number): it drops the number if the word has  *)
(* no node and there is no memory for one.                                   *)
CountUri(w) ==
  \/ uri[w] = Null /\ UNCHANGED <<uris, stored, droppedUris>>
  \/ /\ uri[w] # Null
     /\ uris' = [uris EXCEPT ![WordAt(uri[w])] = @ + Credit(w)]
     /\ stored' = stored \cup {WordAt(uri[w])}
     /\ UNCHANGED droppedUris
  \/ /\ uri[w] # Null /\ WordAt(uri[w]) \notin stored
     /\ droppedUris' = droppedUris \cup {line[w]}
     /\ UNCHANGED <<uris, stored>>

(* The URI is counted, and fgets finds the next line. *)
CreditUri(w) ==
  LET f == line[w][1]
      n == line[w][2]
  IN /\ Goto(w, "credit", StepAt(f, n + 1))
     /\ CountUri(w)
     /\ current' = [current EXCEPT ![w] = @ + Here(w).number]
     /\ line' = [line EXCEPT ![w] = <<f, n + 1>>]
     /\ uri' = [uri EXCEPT ![w] = Null]
     /\ UNCHANGED <<pool, last, bytes, refers, opened, mixed, droppedRefs>>

(* Mutation: the counter is overwritten. *)
TotalOverwritten(w) == current[w]

(* atomic_fetch_add *)
Total(w) == bytes + current[w]

Close(w) ==
  /\ Goto(w, "close", "idle")
  /\ bytes' = Total(w)
  /\ Finish(line[w][1])
  /\ UNCHANGED <<line, uri, current, last, refers, uris, stored, opened, mixed,
                 droppedRefs, droppedUris>>

(* Every submitted file is done with: if there are no more, main prints the  *)
(* tables and the number of bytes.                                           *)
Reported == finished \cup lost = 1 .. submitted

Report ==
  /\ Reported
  /\ UNCHANGED vars

Next ==
  \/ MainStep
  \/ \E w \in Workers :
       \/ Open(w) \/ OpenFails(w) \/ GiveUp(w)
       \/ TokenizeMethod(w) \/ TokenizeUri(w) \/ CountReferer(w)
       \/ CreditUri(w) \/ Close(w)
  \/ Report

Spec == Init /\ [][Next]_vars
-----------------------------------------------------------------------------
Words == {"uri", "proto"}
Pointers == [of : Workers, line : Lines, word : Words] \cup {Null}

(* Every variable has its type; what strtok remembers is always a request    *)
(* that some worker is still parsing; a word without a node has no bytes.    *)
TypeOK ==
  /\ step \in [Workers -> {"idle", "failed", "method", "uri", "referer",
                           "credit", "close"}]
  /\ line \in [Workers -> Nat \X Nat]
  /\ uri \in [Workers -> Pointers]
  /\ current \in [Workers -> Nat]
  /\ last \in Pointers
  /\ last # Null => line[last.of] = last.line /\ step[last.of] \in {"uri", "referer"}
  /\ bytes \in Nat
  /\ refers \in [Refs -> Nat]
  /\ uris \in [Uris \cup {Proto, Junk} -> Nat]
  /\ opened \subseteq running \cup finished
  /\ mixed \in BOOLEAN
  /\ stored \subseteq DOMAIN uris
  /\ \A u \in DOMAIN uris \ stored : uris[u] = 0
  /\ droppedRefs \subseteq Lines /\ droppedUris \subseteq Lines

(* The lines that were parsed, once all is reported. *)
Parsed == {l \in Lines : l[1] \in opened}

NumberOf(l) == LineAt(l).number

(* What is reported counts every line of every file that was not lost by the *)
(* pool and could be opened exactly once, in the size and with its referer,  *)
(* however the workers' additions interleave and whatever strtok does; only  *)
(* the referers that found no memory for their first node are left out.  And *)
(* no line is credited to two URIs, so that all of these together never      *)
(* exceed the size.                                                          *)
TotalsExact ==
  Reported =>
    /\ bytes = Totals!MapThenSumSet(NumberOf, Parsed)
    /\ \A r \in Refs :
         refers[r] = Cardinality({l \in Parsed \ droppedRefs : LineAt(l).ref = r})
    /\ Totals!MapThenSumSet(LAMBDA u : uris[u], DOMAIN uris) <= bytes

CreditOf(u) ==
  Totals!MapThenSumSet(NumberOf, {l \in Parsed \ droppedUris : LineAt(l).uri = u})

(* Each URI is credited with the bytes of its own lines, but for those that  *)
(* found no memory for its first node.                                       *)
UrisExact == Reported => \A u \in Uris : uris[u] = CreditOf(u)

(* That holds whenever no worker called strtok while another one was between *)
(* its own two calls: that shared state and a want of memory are the only    *)
(* things that can go wrong.                                                 *)
UrisExactUnlessMixed == ~mixed => UrisExact
=============================================================================
