----------------------------- MODULE HashTable ------------------------------
(***************************************************************************)
(* hw12/src/hashtable.c: a chained hash table with one mutex per bucket,   *)
(* called by any number of threads.  A call is split where another thread  *)
(* would see it half done if the mutex did not protect it: the walk along  *)
(* the chain, the write that ends it, and the read and the write of        *)
(* `t->size++', which no mutex common to all buckets protects.             *)
(***************************************************************************)
EXTENDS Integers, Sequences, FiniteSets

CONSTANTS
  Threads,
  Keys,       \* the strings used as keys
  Buckets,    \* the indices 0 .. cap - 1
  HashOf,     \* hash(): the bucket of each key
  Prefixes,   \* the pairs <<a, b>> where a is a prefix of b
  Modulus,    \* 2^64: val is a uint64_t
  Amounts,    \* the deltas and values callers pass
  Kinds,      \* the calls the threads make: "inc", "put", "get"
  MaxCalls,   \* bound: how many calls each thread makes
  Zeroed,     \* whether malloc returned zeroed memory for the buckets
  Nobody,     \* the owner of a free mutex
  Wild,       \* a bucket pointer that malloc left uninitialized
  Absent,     \* no value: hash_t_get returned false
  None        \* no call

ASSUME TableAssumption ==
  /\ HashOf \in [Keys -> Buckets]
  /\ Prefixes \subseteq Keys \X Keys
  /\ \A k \in Keys : <<k, k>> \in Prefixes
  /\ Modulus \in Nat \ {0}
  /\ Amounts \subseteq 0 .. (Modulus - 1)
  /\ Kinds \subseteq {"inc", "put", "get"}
  /\ MaxCalls \in Nat
  /\ Zeroed \in BOOLEAN
  /\ Nobody \notin Threads
  /\ Absent \notin 0 .. (Modulus - 1)
  /\ IsFiniteSet(Keys)
  /\ Wild \notin Seq([key : Keys, val : 0 .. (Modulus - 1)])
  /\ None \notin [kind : Kinds, key : Keys, amount : 0 .. (Modulus - 1)]

VARIABLES
  buckets,   \* t->buckets: each a chain of nodes with a key and a val, or Wild
  size,      \* t->size
  mus,       \* the owner of each bucket's mutex
  pc,        \* where each thread is in its call
  call,      \* the call each thread makes
  at,        \* how many nodes its walk has passed: `current' is the last one
  reg,       \* the value the thread has loaded and not yet stored
  answer,    \* what its last hash_t_get returned
  calls,     \* how many calls it has begun
  fate,      \* "alive" until the table is freed or the process is broken
  raced      \* history: two increments of size from two buckets overlapped

local == <<call, at, reg, answer, calls>>
vars == <<buckets, size, mus, pc, local, fate, raced>>

Requests ==
  [kind : Kinds \ {"get"}, key : Keys, amount : Amounts]
    \cup [kind : Kinds \cap {"get"}, key : Keys, amount : {0}]

(* create_hash_t does not clear the array of buckets. *)
Init ==
  /\ buckets \in [Buckets -> IF Zeroed THEN {<<>>} ELSE {<<>>, Wild}]
  /\ size = 0
  /\ mus = [b \in Buckets |-> Nobody]
  /\ pc = [t \in Threads |-> "idle"]
  /\ call = [t \in Threads |-> None]
  /\ at = [t \in Threads |-> 0]
  /\ reg = [t \in Threads |-> 0]
  /\ answer = [t \in Threads |-> Absent]
  /\ calls = [t \in Threads |-> 0]
  /\ fate = "alive"
  /\ raced = FALSE

Bucket(t) == HashOf[call[t].key]
Chain(t) == buckets[Bucket(t)]

Goto(t, from, to) ==
  /\ fate = "alive"
  /\ pc[t] = from
  /\ pc' = [pc EXCEPT ![t] = to]

(* Mutation: the mutex gives no exclusion. *)
AlwaysOpen(b) == TRUE

Open(b) == mus[b] = Nobody

(* Mutation: the paths of put keep the mutex. *)
UnlockUnlessPut(t) ==
  mus' = IF call[t].kind = "put" THEN mus ELSE [mus EXCEPT ![Bucket(t)] = Nobody]

Unlock(t) == mus' = [mus EXCEPT ![Bucket(t)] = Nobody]

(* Mutation: the sum is not cut to the width of val. *)
SumWide(val, delta) == val + delta

Sum(val, delta) == (val + delta) % Modulus

(* Mutation: the new node always becomes the first of the bucket. *)
LinkedFirst(chain, i, node) == <<node>>

(* The node becomes the first of the bucket or the next of the i-th, and     *)
(* replaces whatever was there.                                              *)
Linked(chain, i, node) == Append(SubSeq(chain, 1, i), node)

First(hits) == CHOOSE i \in hits : \A j \in hits : i <= j
-----------------------------------------------------------------------------
Call(t) ==
  /\ calls[t] < MaxCalls
  /\ Goto(t, "idle", "lock")
  /\ \E r \in Requests : call' = [call EXCEPT ![t] = r]
  /\ calls' = [calls EXCEPT ![t] = @ + 1]
  /\ UNCHANGED <<buckets, size, mus, at, reg, answer, fate, raced>>

Lock(t) ==
  /\ Goto(t, "lock", "search")
  /\ Open(Bucket(t))
  /\ mus' = [mus EXCEPT ![Bucket(t)] = t]
  /\ UNCHANGED <<buckets, size, local, fate, raced>>

(* The walk of put and inc: strcmp until the key is found or the chain ends. *)
Search(t) ==
  /\ pc[t] = "search"
  /\ call[t].kind \in {"inc", "put"}
  /\ Chain(t) # Wild
  /\ LET hits == {i \in DOMAIN Chain(t) : Chain(t)[i].key = call[t].key}
     IN \/ /\ hits # {}
           /\ Goto(t, "search", "store")
           /\ at' = [at EXCEPT ![t] = First(hits)]
           /\ reg' = [reg EXCEPT ![t] = Chain(t)[First(hits)].val]
        \/ /\ hits = {}
           /\ Goto(t, "search", "insert")
           /\ at' = [at EXCEPT ![t] = Len(Chain(t))]
           /\ UNCHANGED reg
  /\ UNCHANGED <<buckets, size, mus, call, answer, calls, fate, raced>>

(* current->val += delta or current->val = value, and the unlock. *)
Store(t) ==
  /\ Goto(t, "store", "idle")
  /\ buckets' = [buckets EXCEPT ![Bucket(t)][at[t]].val =
                   IF call[t].kind = "inc"
                   THEN Sum(reg[t], call[t].amount)
                   ELSE call[t].amount]
  /\ Unlock(t)
  /\ UNCHANGED <<size, local, fate, raced>>

Insert(t) ==
  /\ Goto(t, "insert", "readSize")
  /\ buckets' = [buckets EXCEPT ![Bucket(t)] =
       Linked(@, at[t], [key |-> call[t].key, val |-> call[t].amount])]
  /\ UNCHANGED <<size, mus, local, fate, raced>>

(* malloc or strndup fails: the call returns and nothing is stored. *)
AllocFails(t) ==
  /\ Goto(t, "insert", "idle")
  /\ Unlock(t)
  /\ UNCHANGED <<buckets, size, local, fate, raced>>

(* t->size++, a read and a write under the mutex of this bucket only. *)
ReadSize(t) ==
  /\ Goto(t, "readSize", "writeSize")
  /\ reg' = [reg EXCEPT ![t] = size]
  /\ raced' = (raced \/ \E o \in Threads : pc[o] = "writeSize" /\ Bucket(o) # Bucket(t))
  /\ UNCHANGED <<buckets, size, mus, call, at, answer, calls, fate>>

WriteSize(t) ==
  /\ Goto(t, "writeSize", "idle")
  /\ size' = reg[t] + 1
  /\ Unlock(t)
  /\ UNCHANGED <<buckets, local, fate, raced>>

(* hash_t_get on an empty bucket returns false and keeps the mutex. *)
GetFromEmpty(t) ==
  /\ Goto(t, "search", "idle")
  /\ call[t].kind = "get"
  /\ Chain(t) = <<>>
  /\ answer' = [answer EXCEPT ![t] = Absent]
  /\ UNCHANGED <<buckets, size, mus, call, at, reg, calls, fate, raced>>

(* Its walk compares the length of the stored key only, so a stored prefix   *)
(* of the wanted key is a hit.                                               *)
GetFromChain(t) ==
  /\ Goto(t, "search", "idle")
  /\ call[t].kind = "get"
  /\ Chain(t) \notin {<<>>, Wild}
  /\ LET hits == {i \in DOMAIN Chain(t) :
                    <<Chain(t)[i].key, call[t].key>> \in Prefixes}
     IN answer' = [answer EXCEPT ![t] =
                     IF hits = {} THEN Absent ELSE Chain(t)[First(hits)].val]
  /\ Unlock(t)
  /\ UNCHANGED <<buckets, size, call, at, reg, calls, fate, raced>>

(* A walk over a bucket that create_hash_t left uninitialized. *)
FollowWildPointer(t) ==
  /\ fate = "alive"
  /\ pc[t] = "search"
  /\ Chain(t) = Wild
  /\ fate' = "wild"
  /\ UNCHANGED <<buckets, size, mus, pc, local, raced>>
-----------------------------------------------------------------------------
AllIdle == \A t \in Threads : pc[t] = "idle"

AnyWild == \E b \in Buckets : buckets[b] = Wild

NodeCount ==
  Cardinality(UNION {{<<b, i>> : i \in DOMAIN buckets[b]} : b \in Buckets})

(* print_top, once no call is running, allocates t->size pairs and fills one *)
(* for every node.                                                           *)
PrintTop ==
  /\ fate = "alive"
  /\ AllIdle
  /\ fate' = IF AnyWild THEN "wild"
             ELSE IF NodeCount > size THEN "overrun" ELSE "alive"
  /\ UNCHANGED <<buckets, size, mus, pc, local, raced>>

(* hash_t_free walks every chain and destroys every mutex. *)
Free ==
  /\ fate = "alive"
  /\ AllIdle
  /\ fate' = IF AnyWild THEN "wild" ELSE "freed"
  /\ UNCHANGED <<buckets, size, mus, pc, local, raced>>

Ended ==
  /\ fate # "alive"
  /\ UNCHANGED vars

ThreadStep(t) ==
  \/ Lock(t)
  \/ Search(t) \/ Store(t) \/ Insert(t) \/ AllocFails(t)
  \/ ReadSize(t) \/ WriteSize(t)
  \/ GetFromEmpty(t) \/ GetFromChain(t)
  \/ FollowWildPointer(t)

Next ==
  \/ \E t \in Threads : Call(t) \/ ThreadStep(t)
  \/ PrintTop
  \/ Free
  \/ Ended

Spec == Init /\ [][Next]_vars

(* The scheduler runs every thread that can run. *)
FairSpec == Spec /\ \A t \in Threads : WF_vars(ThreadStep(t))
-----------------------------------------------------------------------------
States ==
  {"idle", "lock", "search", "store", "insert", "readSize", "writeSize"}

(* Every variable has its type; `at' and the loaded value stay in range. *)
TypeOK ==
  /\ \A b \in Buckets : buckets[b] = Wild
       \/ /\ Len(buckets[b]) <= Cardinality(Keys)
          /\ \A i \in DOMAIN buckets[b] :
               buckets[b][i] \in [key : Keys, val : 0 .. (Modulus - 1)]
  /\ size \in Nat
  /\ mus \in [Buckets -> Threads \cup {Nobody}]
  /\ pc \in [Threads -> States]
  /\ call \in [Threads -> Requests \cup {None}]
  /\ at \in [Threads -> 0 .. Cardinality(Keys)]
  /\ reg \in [Threads -> Nat]
  /\ answer \in [Threads -> {Absent} \cup 0 .. (Modulus - 1)]
  /\ calls \in [Threads -> 0 .. MaxCalls]
  /\ fate \in {"alive", "freed", "wild", "overrun"}

(* A key has at most one node, in the bucket it hashes to, however many      *)
(* threads insert it at the same time.                                       *)
OneNodePerKey ==
  \A b \in Buckets : buckets[b] # Wild =>
    \A i, j \in DOMAIN buckets[b] :
      /\ HashOf[buckets[b][i].key] = b
      /\ buckets[b][i].key = buckets[b][j].key => i = j

(* The counter a key has: the val of its node. *)
Counter(k) ==
  IF /\ buckets[HashOf[k]] # Wild
     /\ \E i \in DOMAIN buckets[HashOf[k]] : buckets[HashOf[k]][i].key = k
  THEN buckets[HashOf[k]][CHOOSE i \in DOMAIN buckets[HashOf[k]] :
                            buckets[HashOf[k]][i].key = k].val
  ELSE Absent

(* A call has yet to take effect until its store or its insert, a get until  *)
(* its walk.                                                                 *)
Pending(t) ==
  IF pc[t] \in {"lock", "search", "store", "insert"} THEN call[t] ELSE None

Map == INSTANCE CounterMap
         WITH counters <- [k \in Keys |-> Counter(k)],
              request <- [t \in Threads |-> Pending(t)]

(* The table is linearizable: no increment is lost or counted twice, and no  *)
(* insert cuts off a node that another thread linked.  A get returns the     *)
(* value its own key has at that instant, or that of a stored key its own    *)
(* begins with (it compares the stored key's length only), never another     *)
(* one, and does not miss its own key; where no key begins another one, it   *)
(* is exact.                                                                 *)
IsCounterMap == Map!CSpec

(* A bucket whose mutex a call has kept that is over. *)
Leaked(b) ==
  mus[b] # Nobody /\ (pc[mus[b]] \in {"idle", "lock"} \/ Bucket(mus[b]) # b)

(* The only mutex ever left locked by a call that has returned is that of an *)
(* empty bucket, and hash_t_get left it there: every other return path of    *)
(* put, inc and get unlocks.                                                 *)
OnlyEmptyBucketsLeak ==
  \A b \in Buckets : Leaked(b) => "get" \in Kinds /\ buckets[b] = <<>>

(* t->size never counts a node that does not exist, and is the number of     *)
(* nodes whenever no call is running, unless two increments of it in         *)
(* different buckets have overlapped: within a bucket the mutex covers the   *)
(* node and the count, on every path.                                        *)
SizeExactUnlessRaced ==
  ~AnyWild => /\ size <= NodeCount
              /\ AllIdle => IF raced THEN size > 0 ELSE size = NodeCount

(* print_top writes no pair past the array it allocated. *)
TopFitsItsArray == fate # "overrun"

(* Every call returns, whatever the other threads do and whichever           *)
(* allocation fails, unless the mutex of its bucket was left locked while    *)
(* the bucket was empty.                                                     *)
EveryCallReturns ==
  \A t \in Threads : pc[t] = "lock" ~>
    \/ pc[t] = "idle" \/ fate # "alive"
    \/ Leaked(Bucket(t)) /\ Chain(t) = <<>>
=============================================================================
