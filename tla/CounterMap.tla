----------------------------- MODULE CounterMap -----------------------------
(***************************************************************************)
(* What the concurrent hash table of hw12 promises its callers: a map from *)
(* keys to unsigned counters in which every call takes effect at one       *)
(* instant between its begin and its return, whatever else is running.     *)
(* An increment or an assignment may also be dropped (out of memory), and a *)
(* read may take a stored key for the wanted one where Prefixes lets it:    *)
(* with nothing but <<k, k>> in it a read is exact.                         *)
(***************************************************************************)
EXTENDS Integers

CONSTANTS
  Threads,
  Keys,
  Prefixes, \* the pairs <<a, b>> where a read of b may find a instead
  Modulus,  \* counters wrap modulo 2^64 in the program
  Absent,   \* the value of a key that was never stored
  None      \* a thread that waits for no effect

VARIABLES
  counters,  \* the value of each key
  request,   \* the call of each thread that has yet to take effect
  answer     \* what each thread's last read returned

cvars == <<counters, request, answer>>

Requests ==
  [kind : {"inc", "put", "get"}, key : Keys, amount : 0 .. (Modulus - 1)]

CInit ==
  /\ counters = [k \in Keys |-> Absent]
  /\ request = [t \in Threads |-> None]
  /\ answer = [t \in Threads |-> Absent]

Begin(t) ==
  /\ request[t] = None
  /\ \E r \in Requests : request' = [request EXCEPT ![t] = r]
  /\ UNCHANGED <<counters, answer>>

(* The request of t, of the given kind, is answered by this step. *)
Serve(t, kind) ==
  /\ request[t] # None
  /\ request[t].kind = kind
  /\ request' = [request EXCEPT ![t] = None]

Increment(t) ==
  /\ Serve(t, "inc")
  /\ counters' = [counters EXCEPT ![request[t].key] =
                    IF @ = Absent THEN request[t].amount
                    ELSE (@ + request[t].amount) % Modulus]
  /\ UNCHANGED answer

Assign(t) ==
  /\ Serve(t, "put")
  /\ counters' = [counters EXCEPT ![request[t].key] = request[t].amount]
  /\ UNCHANGED answer

(* A read returns a counter that is there, its own or that of a key it takes *)
(* for its own; it comes back without one only if its own is not there.      *)
Read(t) ==
  /\ Serve(t, "get")
  /\ \/ \E j \in Keys :
          /\ <<j, request[t].key>> \in Prefixes
          /\ counters[j] # Absent
          /\ answer' = [answer EXCEPT ![t] = counters[j]]
     \/ /\ counters[request[t].key] = Absent
        /\ answer' = [answer EXCEPT ![t] = Absent]
  /\ UNCHANGED counters

(* Only a key that was never stored needs memory. *)
Drop(t) ==
  /\ Serve(t, "inc") \/ Serve(t, "put")
  /\ counters[request[t].key] = Absent
  /\ UNCHANGED <<counters, answer>>

CNext ==
  \E t \in Threads : Begin(t) \/ Increment(t) \/ Assign(t) \/ Read(t) \/ Drop(t)

CSpec == CInit /\ [][CNext]_cvars
=============================================================================
