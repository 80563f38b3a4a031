-------------------------- MODULE HashTableProofs ---------------------------
(***************************************************************************)
(* Theorems about HashTable, for any number of threads, calls, keys and    *)
(* buckets, any hash function, and buckets that malloc may leave wild.     *)
(***************************************************************************)
EXTENDS HashTable, FiniteSetTheorems, SequenceTheorems, WellFoundedInduction,
        TLAPS

Node == [key : Keys, val : 0 .. (Modulus - 1)]

(* The places between the lock and the unlock of a bucket. *)
Holding == {"search", "store", "insert", "readSize", "writeSize"}

(* The threads that have linked a node and not yet counted it. *)
Counting == {t \in Threads : pc[t] \in {"readSize", "writeSize"}}

Nodes == UNION {{<<b, i>> : i \in DOMAIN buckets[b]} : b \in Buckets}

(* What TypeOK leaves open. *)
Shape ==
  /\ buckets \in [Buckets -> Seq(Node) \cup {Wild}]
  /\ \A t \in Threads : pc[t] # "idle" => call[t] \in Requests
  /\ raced \in BOOLEAN

(* A thread at work in a bucket owns its mutex. *)
MutexOwned == \A t \in Threads : pc[t] \in Holding => mus[Bucket(t)] = t

(* What a walk has found still holds when its result is used. *)
FoundBy(t) ==
  /\ pc[t] = "store" =>
       /\ Chain(t) # Wild
       /\ at[t] \in DOMAIN Chain(t)
       /\ Chain(t)[at[t]].key = call[t].key
       /\ Chain(t)[at[t]].val = reg[t]
  /\ pc[t] = "insert" =>
       /\ Chain(t) # Wild
       /\ at[t] = Len(Chain(t))
       /\ \A i \in DOMAIN Chain(t) : Chain(t)[i].key # call[t].key
  /\ pc[t] \in {"store", "insert"} => call[t].kind \in {"inc", "put"}

Found == \A t \in Threads : FoundBy(t)

(* Every node is counted, or some thread is about to count it; a loaded size *)
(* is no larger than the nodes that are counted, and is the size while       *)
(* increments do not overlap.                                                *)
Counted ==
  ~AnyWild =>
    /\ IsFiniteSet(Nodes) /\ IsFiniteSet(Counting)
    /\ size + Cardinality(Counting) <= NodeCount
    /\ \A t \in Threads : pc[t] = "writeSize" =>
         reg[t] + Cardinality(Counting) <= NodeCount
    /\ ~raced =>
         /\ size + Cardinality(Counting) = NodeCount
         /\ \A t, u \in Threads :
              pc[t] = "writeSize" /\ pc[u] = "writeSize" => t = u
         /\ \A t \in Threads : pc[t] = "writeSize" => reg[t] = size
    /\ raced => size > 0 \/ \E t \in Threads : pc[t] = "writeSize"

IInv ==
  /\ TypeOK
  /\ Shape
  /\ MutexOwned
  /\ Found
  /\ OneNodePerKey
  /\ OnlyEmptyBucketsLeak
  /\ Counted
-----------------------------------------------------------------------------
(* A set of positions has a first one. *)
LEMMA LeastPosition ==
  ASSUME NEW hits, hits \subseteq Nat, hits # {}
  PROVE  First(hits) \in hits
<1> DEFINE Less == OpToRel(<, Nat)
<1>1. IsWellFoundedOn(Less, Nat)
  BY NatLessThanWellFounded
<1>2. \A i, j \in Nat : <<j, i>> \in Less <=> j < i
  BY DEF OpToRel
<1> HIDE DEF Less
<1>3. \E i \in hits : \A j \in Nat : <<j, i>> \in Less => j \notin hits
  BY <1>1, WFMin, Zenon
<1>4. PICK i \in hits : \A j \in Nat : <<j, i>> \in Less => j \notin hits
  BY <1>3
<1>5. ASSUME NEW j \in hits
      PROVE  i <= j
  <2>1. i \in Nat /\ j \in Nat
    OBVIOUS
  <2>2. ~(<<j, i>> \in Less)
    BY <1>4, <2>1, Zenon
  <2>3. ~(j < i)
    BY <1>2, <2>1, <2>2, Zenon
  <2> QED
    BY <2>1, <2>3
<1> QED
  BY <1>4, <1>5 DEF First

(* What the request of a running call consists of. *)
LEMMA CallFacts ==
  ASSUME IInv, NEW t \in Threads, pc[t] # "idle"
  PROVE  /\ call[t] \in Requests
         /\ call[t].kind \in Kinds
         /\ call[t].key \in Keys
         /\ call[t].amount \in 0 .. (Modulus - 1)
         /\ Bucket(t) \in Buckets
         /\ Chain(t) \in Seq(Node) \cup {Wild}
<1>1. call[t] \in Requests
  BY DEF IInv, Shape
<1>2. /\ call[t].kind \in Kinds /\ call[t].key \in Keys
      /\ call[t].amount \in Amounts \cup {0}
  BY <1>1 DEF Requests
<1>3. Bucket(t) \in Buckets
  BY <1>2, TableAssumption DEF Bucket
<1>4. call[t].amount \in 0 .. (Modulus - 1)
  <2>1. Amounts \subseteq 0 .. (Modulus - 1) /\ 0 \in 0 .. (Modulus - 1)
    BY TableAssumption
  <2> QED
    BY <1>2, <2>1, Zenon
<1>5. Chain(t) \in Seq(Node) \cup {Wild}
  BY <1>3 DEF IInv, Shape, Chain
<1> QED
  BY <1>1, <1>2, <1>3, <1>4, <1>5

(* The mutex lets one thread at a time into a bucket. *)
LEMMA Exclusion ==
  ASSUME IInv, NEW t \in Threads, NEW u \in Threads,
         pc[t] \in Holding, pc[u] \in Holding, Bucket(t) = Bucket(u)
  PROVE  t = u
BY DEF IInv, MutexOwned

(* Wild is no chain: it has no nodes and no thread can put one there. *)
LEMMA WildIsNoChain == Wild \notin Seq(Node) /\ Wild # <<>>
<1>1. <<>> \in Seq(Node)
  OBVIOUS
<1> QED
  BY <1>1, TableAssumption DEF Node

(* A chain with one node per key is no longer than there are keys. *)
LEMMA ChainLength ==
  ASSUME NEW c \in Seq(Node),
         \A i, j \in DOMAIN c : c[i].key = c[j].key => i = j
  PROVE  Len(c) \in 0 .. Cardinality(Keys)
<1> DEFINE f == [i \in 1 .. Len(c) |-> c[i].key]
<1>1. Len(c) \in Nat /\ DOMAIN c = 1 .. Len(c)
  BY LenProperties
<1>2. \A i \in 1 .. Len(c) : c[i].key \in Keys
  <2>1. \A i \in 1 .. Len(c) : c[i] \in Node
    BY <1>1, ElementOfSeq
  <2> QED
    BY <2>1 DEF Node
<1>3. f \in Injection(1 .. Len(c), Keys)
  <2>1. f \in [1 .. Len(c) -> Keys]
    BY <1>2
  <2>2. \A i, j \in 1 .. Len(c) : f[i] = f[j] => i = j
    BY <1>1
  <2> QED
    BY <2>1, <2>2 DEF Injection, IsInjective
<1>4. IsFiniteSet(Keys)
  BY TableAssumption, Zenon
<1>5. IsFiniteSet(1 .. Len(c)) /\ Cardinality(1 .. Len(c)) = Len(c)
  BY <1>1, FS_Interval
<1> HIDE DEF f
<1>6. Cardinality(1 .. Len(c)) <= Cardinality(Keys)
  BY <1>3, <1>4, <1>5, FS_Injection, Zenon
<1> QED
  BY <1>1, <1>4, <1>5, <1>6, FS_CardinalityType

(* put and inc change or add one node, in the caller's own bucket. *)
LEMMA StoreFacts ==
  ASSUME IInv, NEW t \in Threads, Store(t)
  PROVE  \E c \in Seq(Node) :
           /\ buckets' = [buckets EXCEPT ![Bucket(t)] = c]
           /\ Chain(t) \in Seq(Node) /\ Chain(t) # Wild
           /\ DOMAIN c = DOMAIN Chain(t) /\ Len(c) = Len(Chain(t))
           /\ \A i \in DOMAIN c :
                /\ c[i].key = Chain(t)[i].key
                /\ i # at[t] => c[i] = Chain(t)[i]
           /\ at[t] \in DOMAIN c /\ c[at[t]].key = call[t].key
           /\ c[at[t]].val = IF call[t].kind = "inc"
                             THEN Sum(Chain(t)[at[t]].val, call[t].amount)
                             ELSE call[t].amount
<1>1. pc[t] = "store"
  BY DEF Store, Goto
<1>2. /\ Chain(t) \in Seq(Node) /\ Chain(t) # Wild
      /\ at[t] \in DOMAIN Chain(t) /\ DOMAIN Chain(t) = 1 .. Len(Chain(t))
      /\ Chain(t)[at[t]].key = call[t].key /\ Chain(t)[at[t]].val = reg[t]
  BY <1>1, CallFacts, LenProperties DEF IInv, Found, FoundBy
<1>3. PICK v : v = IF call[t].kind = "inc" THEN Sum(reg[t], call[t].amount)
                   ELSE call[t].amount
  OBVIOUS
<1>4. v \in 0 .. (Modulus - 1)
  <2>1. reg[t] \in Nat /\ call[t].amount \in 0 .. (Modulus - 1)
    BY <1>1, CallFacts DEF IInv, TypeOK
  <2>2. (reg[t] + call[t].amount) % Modulus \in 0 .. (Modulus - 1)
    BY <2>1, TableAssumption
  <2> QED
    BY <1>3, <2>1, <2>2 DEF Sum
<1>5. Chain(t)[at[t]] \in Node
  BY <1>2, ElementOfSeq
<1> DEFINE n == [Chain(t)[at[t]] EXCEPT !.val = v]
           c == [Chain(t) EXCEPT ![at[t]] = n]
<1>6. n \in Node /\ n.key = Chain(t)[at[t]].key /\ n.val = v
  BY <1>4, <1>5 DEF Node
<1>7. buckets' = [buckets EXCEPT ![Bucket(t)] = c]
  BY <1>3 DEF Store, Chain
<1> HIDE DEF n
<1>8. /\ c \in Seq(Node) /\ Len(c) = Len(Chain(t))
      /\ DOMAIN c = DOMAIN Chain(t) /\ c[at[t]] = n
      /\ \A i \in DOMAIN c : i # at[t] => c[i] = Chain(t)[i]
  BY <1>2, <1>6, ExceptSeq
<1> HIDE DEF c
<1>9. \A i \in DOMAIN c : c[i].key = Chain(t)[i].key
  BY <1>6, <1>8
<1>10. c[at[t]].key = call[t].key
  BY <1>2, <1>6, <1>8
<1>11. c[at[t]].val = IF call[t].kind = "inc"
                      THEN Sum(Chain(t)[at[t]].val, call[t].amount)
                      ELSE call[t].amount
  BY <1>2, <1>3, <1>6, <1>8
<1> QED
  BY <1>2, <1>7, <1>8, <1>9, <1>10, <1>11, Zenon

(* An insert links a node of a new key behind the last one of its bucket.    *)
LEMMA InsertFacts ==
  ASSUME IInv, NEW t \in Threads, Insert(t)
  PROVE  LET n == [key |-> call[t].key, val |-> call[t].amount]
         IN  /\ n \in Node
             /\ Chain(t) \in Seq(Node) /\ Chain(t) # Wild
             /\ buckets' = [buckets EXCEPT ![Bucket(t)] = Append(Chain(t), n)]
             /\ \A i \in DOMAIN Chain(t) : Chain(t)[i].key # n.key
<1> DEFINE n == [key |-> call[t].key, val |-> call[t].amount]
<1>1. pc[t] = "insert"
  BY DEF Insert, Goto
<1>2. /\ Chain(t) \in Seq(Node) /\ Chain(t) # Wild
      /\ at[t] = Len(Chain(t))
      /\ \A i \in DOMAIN Chain(t) : Chain(t)[i].key # call[t].key
  BY <1>1, CallFacts DEF IInv, Found, FoundBy
<1>3. n \in Node
  BY <1>1, CallFacts DEF Node
<1>4. SubSeq(Chain(t), 1, at[t]) = Chain(t)
  BY <1>2, SubSeqFull
<1>5. buckets' = [buckets EXCEPT ![Bucket(t)] = Append(Chain(t), n)]
  BY <1>4 DEF Insert, Linked, Chain
<1> QED
  BY <1>2, <1>3, <1>5
-----------------------------------------------------------------------------
(* The chains: typed, no longer than there are keys, one node for each key.  *)
ChainsOK ==
  /\ buckets \in [Buckets -> Seq(Node) \cup {Wild}]
  /\ \A b \in Buckets : buckets[b] = Wild
       \/ /\ Len(buckets[b]) <= Cardinality(Keys)
          /\ \A i \in DOMAIN buckets[b] :
               buckets[b][i] \in [key : Keys, val : 0 .. (Modulus - 1)]
  /\ OneNodePerKey

(* One chain may be replaced by another that has one node for each key.      *)
LEMMA ChainReplaced ==
  ASSUME IInv, NEW b \in Buckets, NEW c \in Seq(Node),
         buckets' = [buckets EXCEPT ![b] = c],
         \A i \in DOMAIN c : HashOf[c[i].key] = b,
         \A i, j \in DOMAIN c : c[i].key = c[j].key => i = j
  PROVE  ChainsOK'
<1>1. buckets' \in [Buckets -> Seq(Node) \cup {Wild}]
  BY DEF IInv, Shape
<1>2. \A a \in Buckets : buckets'[a] = IF a = b THEN c ELSE buckets[a]
  BY DEF IInv, Shape
<1>3. Len(c) <= Cardinality(Keys)
  BY ChainLength, FS_CardinalityType, TableAssumption
<1>4. DOMAIN c = 1 .. Len(c)
  BY LenProperties
<1>5. \A i \in DOMAIN c : c[i] \in Node
  BY <1>4, ElementOfSeq
<1>6. ASSUME NEW a \in Buckets
      PROVE  buckets'[a] = Wild
               \/ /\ Len(buckets'[a]) <= Cardinality(Keys)
                  /\ \A i \in DOMAIN buckets'[a] :
                       buckets'[a][i] \in [key : Keys, val : 0 .. (Modulus - 1)]
  <2>1. CASE a = b
    BY <2>1, <1>2, <1>3, <1>5 DEF Node
  <2>2. CASE a # b
    BY <2>2, <1>2 DEF IInv, TypeOK
  <2> QED
    BY <2>1, <2>2
<1>7. OneNodePerKey'
  BY <1>2 DEF IInv, OneNodePerKey
<1> QED
  BY <1>1, <1>6, <1>7 DEF ChainsOK

(* So every step keeps the chains well formed.                               *)
LEMMA ChainsStep ==
  ASSUME IInv, [Next]_vars
  PROVE  ChainsOK'
<1>1. CASE UNCHANGED buckets
  BY <1>1 DEF IInv, Shape, TypeOK, ChainsOK, OneNodePerKey
<1>2. ASSUME NEW t \in Threads, Store(t)
      PROVE  ChainsOK'
  <2>1. Bucket(t) \in Buckets
    BY <1>2, CallFacts DEF Store, Goto
  <2>2. PICK c \in Seq(Node) :
           /\ buckets' = [buckets EXCEPT ![Bucket(t)] = c]
           /\ Chain(t) # Wild
           /\ DOMAIN c = DOMAIN Chain(t)
           /\ \A i \in DOMAIN c : c[i].key = Chain(t)[i].key
    BY <1>2, StoreFacts
  <2>3. \A i, j \in DOMAIN c :
          /\ HashOf[c[i].key] = Bucket(t)
          /\ c[i].key = c[j].key => i = j
    BY <2>1, <2>2 DEF IInv, OneNodePerKey, Chain
  <2> QED
    BY <2>1, <2>2, <2>3, ChainReplaced
<1>3. ASSUME NEW t \in Threads, Insert(t)
      PROVE  ChainsOK'
  <2> DEFINE n == [key |-> call[t].key, val |-> call[t].amount]
             c == Append(Chain(t), n)
  <2>1. Bucket(t) \in Buckets
    BY <1>3, CallFacts DEF Insert, Goto
  <2>2. /\ n \in Node
        /\ Chain(t) \in Seq(Node) /\ Chain(t) # Wild
        /\ buckets' = [buckets EXCEPT ![Bucket(t)] = c]
        /\ \A i \in DOMAIN Chain(t) : Chain(t)[i].key # n.key
    BY <1>3, InsertFacts
  <2>3. n.key = call[t].key /\ HashOf[n.key] = Bucket(t)
    BY DEF Bucket
  <2> HIDE DEF n
  <2>4. /\ c \in Seq(Node) /\ Len(Chain(t)) \in Nat
        /\ DOMAIN Chain(t) = 1 .. Len(Chain(t))
        /\ DOMAIN c = 1 .. Len(Chain(t)) + 1
        /\ c[Len(Chain(t)) + 1] = n
        /\ \A i \in DOMAIN Chain(t) : c[i] = Chain(t)[i]
    BY <2>2, AppendProperties, LenProperties
  <2> HIDE DEF c
  <2>5. \A i, j \in DOMAIN Chain(t) :
          /\ HashOf[Chain(t)[i].key] = Bucket(t)
          /\ Chain(t)[i].key = Chain(t)[j].key => i = j
    BY <2>1, <2>2 DEF IInv, OneNodePerKey, Chain
  <2>6. \A i \in DOMAIN c : i \in DOMAIN Chain(t) \/ i = Len(Chain(t)) + 1
    BY <2>4
  <2>7. \A i \in DOMAIN c : HashOf[c[i].key] = Bucket(t)
    BY <2>3, <2>4, <2>5, <2>6
  <2>8. \A i, j \in DOMAIN c : c[i].key = c[j].key => i = j
    BY <2>2, <2>4, <2>5, <2>6
  <2> QED
    BY <2>1, <2>2, <2>4, <2>7, <2>8, ChainReplaced
<1> QED
  BY <1>1, <1>2, <1>3 DEF Next, ThreadStep, vars, Call, Lock, Search, AllocFails,
     ReadSize, WriteSize, GetFromEmpty, GetFromChain, FollowWildPointer,
     PrintTop, Free, Ended

(* A walk ends at a node of the chain, the first of those it looked for, and *)
(* passes no node when there is none.                                        *)
LEMMA SearchFacts ==
  ASSUME IInv, NEW t \in Threads, Search(t)
  PROVE  /\ pc[t] = "search" /\ Chain(t) \in Seq(Node) /\ Chain(t) # Wild
         /\ call[t].kind \in {"inc", "put"}
         /\ \/ /\ pc' = [pc EXCEPT ![t] = "store"]
               /\ \E i \in DOMAIN Chain(t) :
                    /\ Chain(t)[i].key = call[t].key
                    /\ at' = [at EXCEPT ![t] = i]
                    /\ reg' = [reg EXCEPT ![t] = Chain(t)[i].val]
            \/ /\ pc' = [pc EXCEPT ![t] = "insert"]
               /\ \A i \in DOMAIN Chain(t) : Chain(t)[i].key # call[t].key
               /\ at' = [at EXCEPT ![t] = Len(Chain(t))]
               /\ UNCHANGED reg
<1> DEFINE hits == {i \in DOMAIN Chain(t) : Chain(t)[i].key = call[t].key}
<1>1. pc[t] = "search" /\ Chain(t) # Wild /\ call[t].kind \in {"inc", "put"}
  BY DEF Search
<1>2. Chain(t) \in Seq(Node)
  BY <1>1, CallFacts
<1>3. hits \subseteq Nat
  BY <1>2, LenProperties
<1>4. CASE hits # {}
  <2>1. First(hits) \in hits
    BY <1>3, <1>4, LeastPosition
  <2>2. /\ pc' = [pc EXCEPT ![t] = "store"]
        /\ at' = [at EXCEPT ![t] = First(hits)]
        /\ reg' = [reg EXCEPT ![t] = Chain(t)[First(hits)].val]
    BY <1>4 DEF Search, Goto
  <2> QED
    BY <1>1, <1>2, <2>1, <2>2
<1>5. CASE hits = {}
  <2>1. /\ pc' = [pc EXCEPT ![t] = "insert"]
        /\ at' = [at EXCEPT ![t] = Len(Chain(t))]
        /\ UNCHANGED reg
    BY <1>5 DEF Search, Goto
  <2> QED
    BY <1>1, <1>2, <1>5, <2>1
<1> QED
  BY <1>4, <1>5

(* A thread that looks into another bucket does not see a bucket change.     *)
LEMMA OtherBucket ==
  ASSUME IInv, NEW t \in Threads, NEW u \in Threads, u # t,
         pc[t] \in Holding, pc[u] \in Holding, UNCHANGED call,
         NEW c, buckets' = [buckets EXCEPT ![Bucket(t)] = c]
  PROVE  Chain(u)' = Chain(u) /\ Bucket(u)' = Bucket(u)
<1>1. Bucket(u) # Bucket(t)
  BY Exclusion
<1>2. Bucket(u) \in Buckets /\ Bucket(u)' = Bucket(u)
  BY CallFacts DEF Holding, Bucket
<1>3. buckets'[Bucket(u)] = buckets[Bucket(u)]
  BY <1>1, <1>2 DEF IInv, Shape
<1> QED
  BY <1>2, <1>3 DEF Chain

(* Every step keeps the types of the variables other than buckets.           *)
LEMMA TypeStep ==
  ASSUME IInv, [Next]_vars
  PROVE  TypeOK' /\ Shape'
<1>1. ChainsOK'
  BY ChainsStep
<1> DEFINE Rest ==
      /\ size \in Nat
      /\ mus \in [Buckets -> Threads \cup {Nobody}]
      /\ pc \in [Threads -> States]
      /\ call \in [Threads -> Requests \cup {None}]
      /\ at \in [Threads -> 0 .. Cardinality(Keys)]
      /\ reg \in [Threads -> Nat]
      /\ answer \in [Threads -> {Absent} \cup 0 .. (Modulus - 1)]
      /\ calls \in [Threads -> 0 .. MaxCalls]
      /\ fate \in {"alive", "freed", "wild", "overrun"}
      /\ \A t \in Threads : pc[t] # "idle" => call[t] \in Requests
      /\ raced \in BOOLEAN
<1>2. Rest
  BY DEF IInv, TypeOK, Shape
<1>3. ASSUME UNCHANGED vars
      PROVE  Rest'
  BY <1>2, <1>3 DEF vars, local
<1>4. ASSUME NEW t \in Threads, Call(t)
      PROVE  Rest'
  <2>1. calls' \in [Threads -> 0 .. MaxCalls]
    BY <1>2, <1>4, TableAssumption DEF Call
  <2>2. PICK r \in Requests : call' = [call EXCEPT ![t] = r]
    BY <1>4 DEF Call
  <2>3. pc' = [pc EXCEPT ![t] = "lock"]
    BY <1>4 DEF Call, Goto
  <2>4. pc' \in [Threads -> States] /\ call' \in [Threads -> Requests \cup {None}]
    BY <1>2, <2>2, <2>3 DEF States
  <2>5. \A u \in Threads : pc'[u] # "idle" => call'[u] \in Requests
    BY <1>2, <2>2, <2>3
  <2> QED
    BY <1>2, <1>4, <2>1, <2>4, <2>5 DEF Call
<1>5. ASSUME NEW t \in Threads, Lock(t)
      PROVE  Rest'
  <2>1. Bucket(t) \in Buckets
    BY <1>5, CallFacts DEF Lock, Goto
  <2> QED
    BY <1>2, <1>5, <2>1 DEF Lock, Goto, States, local
<1>6. ASSUME NEW t \in Threads, Search(t)
      PROVE  Rest'
  <2>1. /\ Chain(t) \in Seq(Node) /\ Chain(t) # Wild /\ Bucket(t) \in Buckets
        /\ pc[t] = "search"
    BY <1>6, SearchFacts, CallFacts
  <2>2. /\ Len(Chain(t)) \in 0 .. Cardinality(Keys)
        /\ \A i \in DOMAIN Chain(t) :
             i \in 0 .. Cardinality(Keys) /\ Chain(t)[i].val \in Nat
    <3>1. Len(Chain(t)) <= Cardinality(Keys)
      BY <2>1 DEF IInv, TypeOK, Chain
    <3>2. Cardinality(Keys) \in Nat
      BY FS_CardinalityType, TableAssumption
    <3>3. Len(Chain(t)) \in Nat /\ DOMAIN Chain(t) = 1 .. Len(Chain(t))
      BY <2>1, LenProperties
    <3>4. \A i \in DOMAIN Chain(t) : Chain(t)[i] \in Node
      BY <2>1, <3>3, ElementOfSeq
    <3>5. \A i \in DOMAIN Chain(t) : Chain(t)[i].val \in Nat
      BY <3>4, TableAssumption DEF Node
    <3> QED
      BY <3>1, <3>2, <3>3, <3>5
  <2>3. /\ pc' = [pc EXCEPT ![t] = "store"] \/ pc' = [pc EXCEPT ![t] = "insert"]
        /\ at' \in [Threads -> 0 .. Cardinality(Keys)]
        /\ reg' \in [Threads -> Nat]
    <3>1. CASE /\ pc' = [pc EXCEPT ![t] = "store"]
               /\ \E i \in DOMAIN Chain(t) :
                    /\ at' = [at EXCEPT ![t] = i]
                    /\ reg' = [reg EXCEPT ![t] = Chain(t)[i].val]
      BY <1>2, <2>2, <3>1
    <3>2. CASE /\ pc' = [pc EXCEPT ![t] = "insert"]
               /\ at' = [at EXCEPT ![t] = Len(Chain(t))]
               /\ UNCHANGED reg
      BY <1>2, <2>2, <3>2
    <3> QED
      BY <1>6, <3>1, <3>2, SearchFacts
  <2>4. /\ pc' \in [Threads -> States]
        /\ \A u \in Threads : pc'[u] # "idle" => call[u] \in Requests
    BY <1>2, <2>1, <2>3 DEF States
  <2> QED
    BY <1>2, <1>6, <2>3, <2>4 DEF Search
<1>7. ASSUME NEW t \in Threads, Store(t) \/ AllocFails(t) \/ WriteSize(t)
      PROVE  Rest'
  <2>1. /\ mus' = [mus EXCEPT ![Bucket(t)] = Nobody]
        /\ pc' = [pc EXCEPT ![t] = "idle"]
        /\ UNCHANGED <<call, at, reg, answer, calls, fate, raced>>
    BY <1>7 DEF Store, AllocFails, WriteSize, Goto, Unlock, local
  <2>2. size' \in Nat
    BY <1>2, <1>7 DEF Store, AllocFails, WriteSize
  <2>3. pc' \in [Threads -> States] /\ mus' \in [Buckets -> Threads \cup {Nobody}]
    BY <1>2, <2>1 DEF States
  <2>4. \A u \in Threads : pc'[u] # "idle" => call'[u] \in Requests
    BY <1>2, <2>1
  <2> QED
    BY <1>2, <2>1, <2>2, <2>3, <2>4
<1>8. ASSUME NEW t \in Threads, Insert(t)
      PROVE  Rest'
  BY <1>2, <1>8 DEF Insert, Goto, States, local
<1>9. ASSUME NEW t \in Threads, ReadSize(t)
      PROVE  Rest'
  <2>1. /\ pc[t] = "readSize" /\ pc' = [pc EXCEPT ![t] = "writeSize"]
        /\ reg' = [reg EXCEPT ![t] = size] /\ raced' \in BOOLEAN
    BY <1>2, <1>9 DEF ReadSize, Goto
  <2>2. /\ pc' \in [Threads -> States] /\ reg' \in [Threads -> Nat]
        /\ \A u \in Threads : pc'[u] # "idle" => call[u] \in Requests
    BY <1>2, <2>1 DEF States
  <2> QED
    BY <1>2, <1>9, <2>1, <2>2 DEF ReadSize
<1>10. ASSUME NEW t \in Threads, GetFromEmpty(t)
       PROVE  Rest'
  BY <1>2, <1>10 DEF GetFromEmpty, Goto, States
<1>11. ASSUME NEW t \in Threads, GetFromChain(t)
       PROVE  Rest'
  <2> DEFINE hits == {i \in DOMAIN Chain(t) :
                        <<Chain(t)[i].key, call[t].key>> \in Prefixes}
  <2>1. Chain(t) \in Seq(Node)
    BY <1>11, CallFacts DEF GetFromChain, Goto
  <2>2. DOMAIN Chain(t) = 1 .. Len(Chain(t)) /\ Len(Chain(t)) \in Nat
    BY <2>1, LenProperties
  <2>3. hits # {} => First(hits) \in DOMAIN Chain(t)
    <3>1. hits \subseteq Nat
      BY <2>2
    <3>2. hits # {} => First(hits) \in hits
      BY <3>1, LeastPosition
    <3> QED
      BY <3>2
  <2>4. hits # {} => Chain(t)[First(hits)].val \in 0 .. (Modulus - 1)
    <3>1. hits # {} => Chain(t)[First(hits)] \in Node
      BY <2>1, <2>2, <2>3, ElementOfSeq
    <3> QED
      BY <3>1 DEF Node
  <2>5. answer' = [answer EXCEPT ![t] = IF hits = {} THEN Absent
                                        ELSE Chain(t)[First(hits)].val]
    BY <1>11 DEF GetFromChain
  <2> HIDE DEF hits
  <2>6. answer' \in [Threads -> {Absent} \cup 0 .. (Modulus - 1)]
    BY <1>2, <2>4, <2>5
  <2>7. /\ pc' \in [Threads -> States] /\ mus' \in [Buckets -> Threads \cup {Nobody}]
        /\ \A u \in Threads : pc'[u] # "idle" => call[u] \in Requests
    BY <1>2, <1>11 DEF GetFromChain, Goto, Unlock, States
  <2> QED
    BY <1>2, <1>11, <2>6, <2>7 DEF GetFromChain
<1>12. ASSUME \/ \E t \in Threads : FollowWildPointer(t)
              \/ PrintTop \/ Free
       PROVE  Rest'
  <2>1. fate' \in {"alive", "freed", "wild", "overrun"}
    BY <1>12 DEF FollowWildPointer, PrintTop, Free
  <2>2. UNCHANGED <<buckets, size, mus, pc, call, at, reg, answer, calls, raced>>
    BY <1>12 DEF FollowWildPointer, PrintTop, Free, local
  <2> QED
    BY <1>2, <2>1, <2>2
<1>13. Rest'
  BY <1>3, <1>4, <1>5, <1>6, <1>7, <1>8, <1>9, <1>10, <1>11, <1>12
     DEF Next, ThreadStep, Ended
<1> QED
  BY <1>1, <1>13 DEF ChainsOK, TypeOK, Shape
-----------------------------------------------------------------------------
(* A thread locks its bucket, works there, and unlocks it: every step of a   *)
(* call is one of these, and only hash_t_get of an empty bucket leaves       *)
(* without the unlock.                                                       *)
LEMMA MutexMoves ==
  ASSUME IInv, [Next]_vars
  PROVE  \/ UNCHANGED <<mus, pc, call>>
         \/ \E t \in Threads :
              \/ /\ pc[t] = "idle" /\ pc' = [pc EXCEPT ![t] = "lock"]
                 /\ \E r \in Requests : call' = [call EXCEPT ![t] = r]
                 /\ UNCHANGED mus
              \/ /\ UNCHANGED call
                 /\ \/ /\ pc[t] = "lock" /\ pc' = [pc EXCEPT ![t] = "search"]
                       /\ mus[Bucket(t)] = Nobody
                       /\ mus' = [mus EXCEPT ![Bucket(t)] = t]
                    \/ /\ pc[t] \in Holding
                       /\ \E h \in Holding : pc' = [pc EXCEPT ![t] = h]
                       /\ UNCHANGED mus
                    \/ /\ pc[t] \in Holding /\ pc' = [pc EXCEPT ![t] = "idle"]
                       /\ mus' = [mus EXCEPT ![Bucket(t)] = Nobody]
                    \/ GetFromEmpty(t)
<1>1. CASE UNCHANGED vars
  BY <1>1 DEF vars, local
<1>2. ASSUME NEW t \in Threads, Call(t)
      PROVE  /\ pc[t] = "idle" /\ pc' = [pc EXCEPT ![t] = "lock"]
             /\ \E r \in Requests : call' = [call EXCEPT ![t] = r]
             /\ UNCHANGED mus
  BY <1>2 DEF Call, Goto
<1>3. ASSUME NEW t \in Threads, Lock(t)
      PROVE  /\ pc[t] = "lock" /\ pc' = [pc EXCEPT ![t] = "search"]
             /\ mus[Bucket(t)] = Nobody
             /\ mus' = [mus EXCEPT ![Bucket(t)] = t] /\ UNCHANGED call
  BY <1>3 DEF Lock, Goto, Open, local
<1>4. ASSUME NEW t \in Threads, Search(t) \/ Insert(t) \/ ReadSize(t)
      PROVE  /\ pc[t] \in Holding
             /\ \E h \in Holding : pc' = [pc EXCEPT ![t] = h]
             /\ UNCHANGED <<mus, call>>
  BY <1>4 DEF Search, Insert, ReadSize, Goto, Holding, local
<1>5. ASSUME NEW t \in Threads,
             Store(t) \/ AllocFails(t) \/ WriteSize(t) \/ GetFromChain(t)
      PROVE  /\ pc[t] \in Holding /\ pc' = [pc EXCEPT ![t] = "idle"]
             /\ mus' = [mus EXCEPT ![Bucket(t)] = Nobody] /\ UNCHANGED call
  BY <1>5 DEF Store, AllocFails, WriteSize, GetFromChain, Goto, Holding,
     Unlock, local
<1>6. ASSUME NEW t \in Threads, GetFromEmpty(t)
      PROVE  UNCHANGED call
  BY <1>6 DEF GetFromEmpty
<1>7. CASE (\E t \in Threads : FollowWildPointer(t)) \/ PrintTop \/ Free
  BY <1>7 DEF FollowWildPointer, PrintTop, Free, local
<1> QED
  BY <1>1, <1>2, <1>3, <1>4, <1>5, <1>6, <1>7 DEF Next, ThreadStep, Ended

(* No step takes a mutex from a thread at work in its bucket.                *)
LEMMA MutexStep ==
  ASSUME IInv, [Next]_vars
  PROVE  MutexOwned'
<1> USE DEF MutexOwned
<1>1. /\ mus \in [Buckets -> Threads \cup {Nobody}] /\ pc \in [Threads -> States]
      /\ call \in [Threads -> Requests \cup {None}] /\ Nobody \notin Threads
      /\ \A t \in Threads : pc[t] \in Holding => mus[Bucket(t)] = t
      /\ \A t \in Threads : pc[t] # "idle" => Bucket(t) \in Buckets
  BY CallFacts, TableAssumption DEF IInv, TypeOK
<1>2. CASE UNCHANGED <<mus, pc, call>>
  BY <1>1, <1>2 DEF Bucket
<1>3. ASSUME NEW t \in Threads,
             /\ pc[t] = "idle" /\ pc' = [pc EXCEPT ![t] = "lock"]
             /\ \E r \in Requests : call' = [call EXCEPT ![t] = r]
             /\ UNCHANGED mus
      PROVE  MutexOwned'
  BY <1>1, <1>3 DEF Bucket, Holding
<1>4. ASSUME NEW t \in Threads, UNCHANGED call,
             pc[t] = "lock", pc' = [pc EXCEPT ![t] = "search"],
             mus[Bucket(t)] = Nobody, mus' = [mus EXCEPT ![Bucket(t)] = t]
      PROVE  MutexOwned'
  BY <1>1, <1>4 DEF Bucket, Holding
<1>5. ASSUME NEW t \in Threads, UNCHANGED call, pc[t] \in Holding,
             \E h \in Holding : pc' = [pc EXCEPT ![t] = h], UNCHANGED mus
      PROVE  MutexOwned'
  BY <1>1, <1>5 DEF Bucket
<1>6. ASSUME NEW t \in Threads, UNCHANGED call, pc[t] \in Holding,
             pc' = [pc EXCEPT ![t] = "idle"],
             mus' = [mus EXCEPT ![Bucket(t)] = Nobody]
      PROVE  MutexOwned'
  BY <1>1, <1>6 DEF Bucket, Holding
<1>7. ASSUME NEW t \in Threads, GetFromEmpty(t)
      PROVE  MutexOwned'
  BY <1>1, <1>7 DEF Bucket, Holding, GetFromEmpty, Goto
<1> QED
  BY <1>2, <1>3, <1>4, <1>5, <1>6, <1>7, MutexMoves

(* A mutex is kept for good only by a get of a bucket that is empty, and no  *)
(* call can fill that bucket any more.                                       *)
LEMMA LeakStep ==
  ASSUME IInv, [Next]_vars
  PROVE  OnlyEmptyBucketsLeak'
<1>1. /\ mus \in [Buckets -> Threads \cup {Nobody}] /\ pc \in [Threads -> States]
      /\ call \in [Threads -> Requests \cup {None}] /\ Nobody \notin Threads
      /\ \A t \in Threads : pc[t] \in Holding => mus[Bucket(t)] = t
      /\ \A t \in Threads : pc[t] # "idle" => Bucket(t) \in Buckets
  BY CallFacts, TableAssumption DEF IInv, TypeOK, MutexOwned
<1>2. SUFFICES ASSUME NEW b \in Buckets, Leaked(b)'
               PROVE  "get" \in Kinds /\ buckets'[b] = <<>>
  BY DEF OnlyEmptyBucketsLeak
<1>3. Leaked(b) => "get" \in Kinds /\ buckets[b] = <<>>
  BY DEF IInv, OnlyEmptyBucketsLeak
<1>4. \/ Leaked(b)
      \/ \E t \in Threads : GetFromEmpty(t) /\ b = Bucket(t)
  <2>1. /\ mus'[b] # Nobody
        /\ pc'[mus'[b]] \in {"idle", "lock"} \/ HashOf[call'[mus'[b]].key] # b
    BY <1>2 DEF Leaked, Bucket
  <2>2. CASE UNCHANGED <<mus, pc, call>>
    BY <2>1, <2>2 DEF Leaked, Bucket
  <2>3. ASSUME NEW t \in Threads,
               /\ pc[t] = "idle" /\ pc' = [pc EXCEPT ![t] = "lock"]
               /\ \E r \in Requests : call' = [call EXCEPT ![t] = r]
               /\ UNCHANGED mus
        PROVE  Leaked(b)
    BY <1>1, <2>1, <2>3 DEF Leaked, Bucket
  <2>4. ASSUME NEW t \in Threads, UNCHANGED call,
               pc[t] = "lock", pc' = [pc EXCEPT ![t] = "search"],
               mus[Bucket(t)] = Nobody, mus' = [mus EXCEPT ![Bucket(t)] = t]
        PROVE  Leaked(b)
    BY <1>1, <2>1, <2>4 DEF Leaked, Bucket
  <2>5. ASSUME NEW t \in Threads, UNCHANGED call, pc[t] \in Holding,
               \E h \in Holding : pc' = [pc EXCEPT ![t] = h], UNCHANGED mus
        PROVE  Leaked(b)
    BY <1>1, <2>1, <2>5 DEF Leaked, Bucket, Holding
  <2>6. ASSUME NEW t \in Threads, UNCHANGED call, pc[t] \in Holding,
               pc' = [pc EXCEPT ![t] = "idle"],
               mus' = [mus EXCEPT ![Bucket(t)] = Nobody]
        PROVE  Leaked(b)
    BY <1>1, <2>1, <2>6 DEF Leaked, Bucket
  <2>7. ASSUME NEW t \in Threads, GetFromEmpty(t)
        PROVE  Leaked(b) \/ b = Bucket(t)
    BY <1>1, <2>1, <2>7 DEF Leaked, Bucket, GetFromEmpty, Goto
  <2> QED
    BY <2>2, <2>3, <2>4, <2>5, <2>6, <2>7, MutexMoves
<1>5. CASE Leaked(b)
  <2>1. ASSUME NEW t \in Threads, pc[t] \in Holding
        PROVE  Bucket(t) # b
    BY <1>1, <1>5, <2>1 DEF Leaked, Holding
  <2>2. ASSUME NEW t \in Threads, Store(t) \/ Insert(t)
        PROVE  buckets'[b] = buckets[b]
    <3>1. pc[t] \in Holding /\ Bucket(t) # b /\ Bucket(t) \in Buckets
      BY <1>1, <2>1, <2>2 DEF Store, Insert, Goto, Holding
    <3> QED
      BY <2>2, <3>1 DEF Store, Insert, IInv, Shape
  <2>3. UNCHANGED buckets \/ \E t \in Threads : Store(t) \/ Insert(t)
    BY DEF Next, ThreadStep, vars, Call, Lock, Search, AllocFails,
       ReadSize, WriteSize, GetFromEmpty, GetFromChain, FollowWildPointer,
       PrintTop, Free, Ended
  <2> QED
    BY <1>3, <1>5, <2>2, <2>3
<1>6. ASSUME NEW t \in Threads, GetFromEmpty(t), b = Bucket(t)
      PROVE  "get" \in Kinds /\ buckets'[b] = <<>>
  <2>1. /\ pc[t] = "search" /\ call[t].kind = "get"
        /\ Chain(t) = <<>> /\ UNCHANGED buckets
    BY <1>6 DEF GetFromEmpty, Goto
  <2> QED
    BY <1>6, <2>1, CallFacts DEF Chain
<1> QED
  BY <1>3, <1>4, <1>5, <1>6

(* What a walk has found stays true: the chain of its bucket changes only by *)
(* the thread that owns the mutex.                                           *)
LEMMA FoundStep ==
  ASSUME IInv, [Next]_vars
  PROVE  Found'
<1> SUFFICES ASSUME NEW u \in Threads
             PROVE  FoundBy(u)'
  BY DEF Found
<1>1. FoundBy(u)
  BY DEF IInv, Found
<1>2. /\ pc \in [Threads -> States] /\ call \in [Threads -> Requests \cup {None}]
      /\ at \in [Threads -> 0 .. Cardinality(Keys)] /\ reg \in [Threads -> Nat]
  BY DEF IInv, TypeOK
<1>3. CASE UNCHANGED <<buckets, pc, call, at, reg>>
  BY <1>1, <1>3 DEF FoundBy, Chain, Bucket
<1>4. ASSUME NEW t \in Threads, Call(t) \/ ThreadStep(t), t # u
      PROVE  FoundBy(u)'
  <2>1. /\ pc'[u] = pc[u] /\ call'[u] = call[u]
        /\ at'[u] = at[u] /\ reg'[u] = reg[u]
    BY <1>2, <1>4 DEF ThreadStep, Call, Lock, Search, Store, Insert, AllocFails,
       ReadSize, WriteSize, GetFromEmpty, GetFromChain, FollowWildPointer,
       Goto, local
  <2>2. CASE UNCHANGED buckets
    BY <1>1, <2>1, <2>2 DEF FoundBy, Chain, Bucket
  <2>3. CASE pc[u] \notin {"store", "insert"}
    BY <2>1, <2>3 DEF FoundBy
  <2>4. ASSUME Store(t) \/ Insert(t), pc[u] \in {"store", "insert"}
        PROVE  FoundBy(u)'
    <3>1. /\ pc[t] \in Holding /\ pc[u] \in Holding /\ UNCHANGED call
          /\ \E c : buckets' = [buckets EXCEPT ![Bucket(t)] = c]
      BY <2>4 DEF Store, Insert, Goto, Holding, local
    <3>2. Chain(u)' = Chain(u)
      BY <1>4, <3>1, OtherBucket
    <3> QED
      BY <1>1, <2>1, <3>2 DEF FoundBy
  <2> QED
    BY <1>4, <2>2, <2>3, <2>4 DEF ThreadStep, Call, Lock, Search, AllocFails,
       ReadSize, WriteSize, GetFromEmpty, GetFromChain, FollowWildPointer
<1>5. ASSUME Search(u)
      PROVE  FoundBy(u)'
  <2>1. UNCHANGED <<buckets, call>>
    BY <1>5 DEF Search
  <2>2. Chain(u)' = Chain(u)
    BY <2>1 DEF Chain, Bucket
  <2>3. Chain(u) # Wild /\ call[u].kind \in {"inc", "put"}
    BY <1>5, SearchFacts
  <2>4. \/ /\ pc'[u] = "store"
           /\ at'[u] \in DOMAIN Chain(u)
           /\ Chain(u)[at'[u]].key = call[u].key
           /\ Chain(u)[at'[u]].val = reg'[u]
        \/ /\ pc'[u] = "insert"
           /\ \A i \in DOMAIN Chain(u) : Chain(u)[i].key # call[u].key
           /\ at'[u] = Len(Chain(u))
    BY <1>2, <1>5, SearchFacts
  <2> QED
    BY <2>1, <2>2, <2>3, <2>4 DEF FoundBy
<1>6. ASSUME \/ Call(u) \/ Lock(u) \/ Store(u) \/ Insert(u) \/ AllocFails(u)
             \/ ReadSize(u) \/ WriteSize(u) \/ GetFromEmpty(u) \/ GetFromChain(u)
      PROVE  FoundBy(u)'
  <2>1. pc'[u] \notin {"store", "insert"}
    BY <1>2, <1>6 DEF Call, Lock, Store, Insert, AllocFails, ReadSize, WriteSize,
       GetFromEmpty, GetFromChain, Goto
  <2> QED
    BY <2>1 DEF FoundBy
<1>7. \/ UNCHANGED <<buckets, pc, call, at, reg>>
      \/ \E t \in Threads : Call(t) \/ ThreadStep(t)
  BY DEF Next, vars, local, PrintTop, Free, Ended
<1>8. FollowWildPointer(u) => UNCHANGED <<buckets, pc, call, at, reg>>
  BY DEF FollowWildPointer, local
<1> QED
  BY <1>3, <1>4, <1>5, <1>6, <1>7, <1>8 DEF ThreadStep
-----------------------------------------------------------------------------
(* Which buckets are wild never changes, and Nodes grows by one node at an   *)
(* insert only.                                                              *)
LEMMA NodesStep ==
  ASSUME IInv, [Next]_vars
  PROVE  /\ AnyWild' = AnyWild
         /\ \/ Nodes' = Nodes /\ \A t \in Threads : ~Insert(t)
            \/ \E t \in Threads : \E x : /\ Insert(t) /\ x \notin Nodes
                                         /\ Nodes' = Nodes \cup {x}
<1>1. buckets \in [Buckets -> Seq(Node) \cup {Wild}]
  BY DEF IInv, Shape
<1>2. ASSUME NEW t \in Threads, Insert(t)
      PROVE  /\ AnyWild' = AnyWild
             /\ \E x : x \notin Nodes /\ Nodes' = Nodes \cup {x}
  <2> DEFINE n == [key |-> call[t].key, val |-> call[t].amount]
             c == Append(Chain(t), n)
             x == <<Bucket(t), Len(Chain(t)) + 1>>
  <2>1. Bucket(t) \in Buckets
    BY <1>2, CallFacts DEF Insert, Goto
  <2>2. /\ n \in Node
        /\ Chain(t) \in Seq(Node) /\ Chain(t) # Wild
        /\ buckets' = [buckets EXCEPT ![Bucket(t)] = c]
    BY <1>2, InsertFacts
  <2> HIDE DEF n
  <2>3. /\ c \in Seq(Node) /\ Len(Chain(t)) \in Nat
        /\ DOMAIN Chain(t) = 1 .. Len(Chain(t))
        /\ DOMAIN c = 1 .. Len(Chain(t)) + 1
    BY <2>2, AppendProperties, LenProperties
  <2> HIDE DEF c
  <2>4. c # Wild
    BY <2>3, WildIsNoChain
  <2>5. /\ DOMAIN c = DOMAIN Chain(t) \cup {Len(Chain(t)) + 1}
        /\ Len(Chain(t)) + 1 \notin DOMAIN Chain(t)
    BY <2>3
  <2>6. \A b \in Buckets : buckets'[b] = IF b = Bucket(t) THEN c ELSE buckets[b]
    BY <1>1, <2>2
  <2>7. AnyWild' = AnyWild
    BY <2>1, <2>2, <2>4, <2>6 DEF AnyWild, Chain
  <2>8. x \notin Nodes
    BY <2>5 DEF Nodes, Chain
  <2>9. Nodes' = Nodes \cup {x}
    BY <2>1, <2>5, <2>6 DEF Nodes, Chain
  <2> QED
    BY <2>7, <2>8, <2>9
<1>3. ASSUME NEW t \in Threads, Store(t)
      PROVE  /\ AnyWild' = AnyWild /\ Nodes' = Nodes
  <2>1. PICK c \in Seq(Node) :
          /\ buckets' = [buckets EXCEPT ![Bucket(t)] = c]
          /\ Chain(t) # Wild /\ DOMAIN c = DOMAIN Chain(t)
    BY <1>3, StoreFacts
  <2>2. c # Wild
    BY WildIsNoChain
  <2>3. \A b \in Buckets : buckets'[b] = IF b = Bucket(t) THEN c ELSE buckets[b]
    BY <1>1, <2>1
  <2> QED
    BY <2>1, <2>2, <2>3 DEF AnyWild, Nodes, Chain
<1>4. CASE UNCHANGED buckets
  <2>1. \A t \in Threads : ~Insert(t)
    <3> SUFFICES ASSUME NEW t \in Threads, Insert(t)
                 PROVE  FALSE
      OBVIOUS
    <3>1. PICK x : x \notin Nodes /\ Nodes' = Nodes \cup {x}
      BY <1>2
    <3>2. Nodes' = Nodes
      BY <1>4 DEF Nodes
    <3> QED
      BY <3>1, <3>2
  <2> QED
    BY <1>4, <2>1 DEF AnyWild, Nodes
<1>5. \A t \in Threads : Store(t) => \A u \in Threads : ~Insert(u)
  <2> SUFFICES ASSUME NEW t \in Threads, Store(t), NEW u \in Threads, Insert(u)
               PROVE  FALSE
    OBVIOUS
  <2>1. PICK x : x \notin Nodes /\ Nodes' = Nodes \cup {x}
    BY <1>2
  <2>2. Nodes' = Nodes
    BY <1>3
  <2> QED
    BY <2>1, <2>2
<1>6. UNCHANGED buckets \/ \E t \in Threads : Store(t) \/ Insert(t)
  BY DEF Next, ThreadStep, vars, Call, Lock, Search, AllocFails,
     ReadSize, WriteSize, GetFromEmpty, GetFromChain, FollowWildPointer,
     PrintTop, Free, Ended
<1> QED
  BY <1>2, <1>3, <1>4, <1>5, <1>6 DEF Nodes, AnyWild

(* A node is linked and counted under the same mutex, so the size falls      *)
(* behind the nodes by the threads between the two, unless increments of it  *)
(* overlap, and then it falls behind further.                                *)
LEMMA CountedStep ==
  ASSUME IInv, [Next]_vars
  PROVE  Counted'
<1> SUFFICES ASSUME ~AnyWild
             PROVE  Counted'
  BY NodesStep DEF Counted
<1> DEFINE C == Cardinality(Counting)
           N == Cardinality(Nodes)
           Writing == {t \in Threads : pc[t] = "writeSize"}
           Exact == /\ size + C = N
                    /\ \A t, u \in Writing : t = u
                    /\ \A t \in Writing : reg[t] = size
           Sizes == /\ size + C <= N
                    /\ \A t \in Writing : reg[t] + C <= N
                    /\ ~raced => Exact
                    /\ raced => size > 0 \/ Writing # {}
<1>1. IsFiniteSet(Nodes) /\ IsFiniteSet(Counting) /\ Sizes
  BY DEF IInv, Counted, NodeCount, Nodes
<1>2. /\ pc \in [Threads -> States] /\ reg \in [Threads -> Nat]
      /\ size \in Nat /\ raced \in BOOLEAN /\ C \in Nat /\ N \in Nat
  BY <1>1, FS_CardinalityType DEF IInv, TypeOK, Shape
<1>3. SUFFICES IsFiniteSet(Nodes)' /\ IsFiniteSet(Counting)' /\ Sizes'
  BY DEF Counted, NodeCount, Nodes
<1>4. ASSUME UNCHANGED <<size, raced>>, Nodes' = Nodes, Counting' = Counting,
             Writing' = Writing, \A t \in Writing : reg'[t] = reg[t]
      PROVE  IsFiniteSet(Nodes)' /\ IsFiniteSet(Counting)' /\ Sizes'
  BY <1>1, <1>4
<1>5. CASE UNCHANGED <<buckets, pc, size, reg, raced>>
  <2>1. /\ UNCHANGED <<size, raced>> /\ Nodes' = Nodes /\ Counting' = Counting
        /\ Writing' = Writing /\ \A t \in Writing : reg'[t] = reg[t]
    BY <1>5 DEF Nodes, Counting
  <2> QED
    BY <1>4, <2>1
<1>6. ASSUME NEW t \in Threads,
             \/ Call(t) \/ Lock(t) \/ Search(t) \/ Store(t) \/ AllocFails(t)
             \/ GetFromEmpty(t) \/ GetFromChain(t)
      PROVE  IsFiniteSet(Nodes)' /\ IsFiniteSet(Counting)' /\ Sizes'
  <2>1. /\ UNCHANGED <<size, raced>>
        /\ pc[t] \notin {"readSize", "writeSize"}
        /\ \E p \in States \ {"readSize", "writeSize"} : pc' = [pc EXCEPT ![t] = p]
        /\ UNCHANGED reg \/ \E r : reg' = [reg EXCEPT ![t] = r]
    BY <1>6 DEF Call, Lock, Search, Store, AllocFails, GetFromEmpty,
       GetFromChain, Goto, States, local
  <2>2. Nodes' = Nodes
    <3>1. \A u \in Threads : ~Insert(u)
      <4>1. \A u \in Threads : ~(pc[u] = "insert" /\ pc' = [pc EXCEPT ![u] = "readSize"])
        BY <1>2, <2>1
      <4> QED
        BY <4>1 DEF Insert, Goto
    <3> QED
      BY <3>1, NodesStep
  <2>3. Counting' = Counting /\ Writing' = Writing
    BY <1>2, <2>1 DEF Counting
  <2>4. \A u \in Writing : reg'[u] = reg[u]
    BY <1>2, <2>1
  <2> QED
    BY <1>4, <2>1, <2>2, <2>3, <2>4
<1>7. ASSUME NEW t \in Threads, Insert(t)
      PROVE  IsFiniteSet(Nodes)' /\ IsFiniteSet(Counting)' /\ Sizes'
  <2>1. PICK x : x \notin Nodes /\ Nodes' = Nodes \cup {x}
    <3>1. \E u \in Threads : \E x : x \notin Nodes /\ Nodes' = Nodes \cup {x}
      BY <1>7, NodesStep
    <3> QED
      BY <3>1
  <2>2. /\ pc[t] = "insert" /\ pc' = [pc EXCEPT ![t] = "readSize"]
        /\ UNCHANGED <<size, reg, raced>>
    BY <1>7 DEF Insert, Goto, local
  <2>3. t \notin Counting /\ Counting' = Counting \cup {t} /\ Writing' = Writing
    BY <1>2, <2>2 DEF Counting
  <2>4. IsFiniteSet(Nodes)' /\ N' = N + 1
    BY <1>1, <2>1, FS_AddElement
  <2>5. IsFiniteSet(Counting)' /\ C' = C + 1
    BY <1>1, <2>3, FS_AddElement
  <2> HIDE DEF C, N, Writing
  <2>6. Sizes'
    <3>1. \A u \in Writing : reg[u] \in Nat
      BY <1>2 DEF Writing
    <3> QED
      BY <1>1, <1>2, <2>2, <2>3, <2>4, <2>5, <3>1
  <2> QED
    BY <2>4, <2>5, <2>6
<1>8. ASSUME NEW t \in Threads, ReadSize(t)
      PROVE  IsFiniteSet(Nodes)' /\ IsFiniteSet(Counting)' /\ Sizes'
  <2>1. /\ pc[t] = "readSize" /\ pc' = [pc EXCEPT ![t] = "writeSize"]
        /\ reg' = [reg EXCEPT ![t] = size] /\ UNCHANGED <<buckets, size>>
        /\ raced' = (raced \/ \E o \in Threads :
                       pc[o] = "writeSize" /\ Bucket(o) # Bucket(t))
    BY <1>8 DEF ReadSize, Goto
  <2>2. Nodes' = Nodes /\ Counting' = Counting /\ Writing' = Writing \cup {t}
    BY <1>2, <2>1 DEF Nodes, Counting
  <2>3. ~raced' => ~raced /\ Writing = {}
    BY <2>1, Exclusion DEF Holding
  <2>4. /\ reg'[t] = size /\ \A u \in Writing : u # t => reg'[u] = reg[u]
    BY <1>2, <2>1
  <2>5. C' = C /\ N' = N
    BY <2>2
  <2>6. t \in Writing' /\ \A u \in Writing : reg[u] \in Nat
    BY <1>2, <2>2
  <2> HIDE DEF C, N, Writing
  <2>7. Sizes'
    BY <1>1, <1>2, <2>1, <2>2, <2>3, <2>4, <2>5, <2>6
  <2> QED
    BY <1>1, <2>2, <2>7
<1>9. ASSUME NEW t \in Threads, WriteSize(t)
      PROVE  IsFiniteSet(Nodes)' /\ IsFiniteSet(Counting)' /\ Sizes'
  <2>1. /\ pc[t] = "writeSize" /\ pc' = [pc EXCEPT ![t] = "idle"]
        /\ size' = reg[t] + 1 /\ UNCHANGED <<buckets, reg, raced>>
    BY <1>9 DEF WriteSize, Goto, local
  <2>2. /\ Nodes' = Nodes /\ Counting' = Counting \ {t} /\ t \in Counting
        /\ Writing' = Writing \ {t} /\ t \in Writing
    BY <1>2, <2>1 DEF Nodes, Counting
  <2>3. IsFiniteSet(Counting)' /\ C' = C - 1 /\ N' = N
    BY <1>1, <2>2, FS_RemoveElement
  <2>4. \A u \in Writing : reg[u] \in Nat
    BY <1>2
  <2> HIDE DEF C, N, Writing
  <2>5. Sizes'
    BY <1>1, <1>2, <2>1, <2>2, <2>3, <2>4
  <2> QED
    BY <1>1, <2>2, <2>3, <2>5
<1>10. \/ UNCHANGED <<buckets, pc, size, reg, raced>>
       \/ \E t \in Threads :
            \/ Call(t) \/ Lock(t) \/ Search(t) \/ Store(t) \/ AllocFails(t)
            \/ GetFromEmpty(t) \/ GetFromChain(t)
            \/ Insert(t) \/ ReadSize(t) \/ WriteSize(t)
  BY DEF Next, ThreadStep, FollowWildPointer, PrintTop, Free, Ended, vars, local
<1> QED
  BY <1>5, <1>6, <1>7, <1>8, <1>9, <1>10
-----------------------------------------------------------------------------
(* The invariant holds initially: no chain has a node and nothing is locked. *)
LEMMA InitInvariant == Init => IInv
<1> SUFFICES ASSUME Init
             PROVE  IInv
  OBVIOUS
<1> USE DEF Init
<1>1. <<>> \in Seq(Node) /\ DOMAIN <<>> = {} /\ Len(<<>>) = 0
  OBVIOUS
<1>2. Cardinality(Keys) \in Nat
  BY FS_CardinalityType, TableAssumption
<1>3. buckets \in [Buckets -> {<<>>, Wild}]
  BY TableAssumption
<1>4. TypeOK
  <2>1. \A b \in Buckets : buckets[b] = Wild
          \/ /\ Len(buckets[b]) <= Cardinality(Keys)
             /\ \A i \in DOMAIN buckets[b] :
                  buckets[b][i] \in [key : Keys, val : 0 .. (Modulus - 1)]
    BY <1>1, <1>2, <1>3
  <2> QED
    BY <1>2, <2>1, TableAssumption DEF TypeOK, States
<1>5. Shape
  BY <1>1, <1>3 DEF Shape
<1>6. MutexOwned /\ Found
  BY DEF MutexOwned, Found, FoundBy, Holding
<1>7. OneNodePerKey
  BY <1>1, <1>3 DEF OneNodePerKey
<1>8. OnlyEmptyBucketsLeak
  BY DEF OnlyEmptyBucketsLeak, Leaked
<1>9. Counted
  <2>1. ASSUME ~AnyWild
        PROVE  Nodes = {}
    BY <1>1, <1>3, <2>1 DEF AnyWild, Nodes
  <2>2. Counting = {}
    BY DEF Counting
  <2>3. IsFiniteSet({}) /\ Cardinality({}) = 0
    BY FS_EmptySet
  <2>4. NodeCount = Cardinality(Nodes)
    BY DEF NodeCount, Nodes
  <2>5. size = 0 /\ raced = FALSE /\ \A t \in Threads : pc[t] = "idle"
    OBVIOUS
  <2>6. ~AnyWild => NodeCount = 0 /\ IsFiniteSet(Nodes)
    BY <2>1, <2>3, <2>4
  <2>7. IsFiniteSet(Counting) /\ Cardinality(Counting) = 0
    BY <2>2, <2>3
  <2> HIDE DEF Init
  <2> QED
    BY <2>5, <2>6, <2>7 DEF Counted
<1> QED
  BY <1>4, <1>5, <1>6, <1>7, <1>8, <1>9 DEF IInv

(* Every step keeps the invariant.                                           *)
LEMMA NextInvariant == IInv /\ [Next]_vars => IInv'
BY TypeStep, ChainsStep, MutexStep, FoundStep, LeakStep, CountedStep
   DEF IInv, ChainsOK

(* The invariant holds in every reachable state.                             *)
THEOREM Invariance == Spec => []IInv
BY InitInvariant, NextInvariant, PTL DEF Spec

(* Every variable keeps its type, and no chain outgrows the number of keys.  *)
THEOREM TypeCorrect == Spec => []TypeOK
<1>1. IInv => TypeOK
  BY DEF IInv
<1> QED
  BY <1>1, Invariance, PTL

(* However many threads insert a key at the same time, it gets one node, in  *)
(* the bucket it hashes to: the search and the insert are under one mutex.   *)
THEOREM OneNode == Spec => []OneNodePerKey
<1>1. IInv => OneNodePerKey
  BY DEF IInv
<1> QED
  BY <1>1, Invariance, PTL

(* A call that has returned left its mutex locked only if it was a get of a  *)
(* bucket that is, and stays, empty.                                         *)
THEOREM LeakCorrect == Spec => []OnlyEmptyBucketsLeak
<1>1. IInv => OnlyEmptyBucketsLeak
  BY DEF IInv
<1> QED
  BY <1>1, Invariance, PTL

(* The size never exceeds the number of nodes, and is that number when no    *)
(* call runs, unless increments in two buckets have overlapped.              *)
THEOREM SizeCorrect == Spec => []SizeExactUnlessRaced
<1>1. ASSUME IInv
      PROVE  SizeExactUnlessRaced
  <2>1. SUFFICES ASSUME ~AnyWild
                 PROVE  /\ size <= NodeCount
                        /\ AllIdle => IF raced THEN size > 0 ELSE size = NodeCount
    BY DEF SizeExactUnlessRaced
  <2>2. /\ IsFiniteSet(Nodes) /\ IsFiniteSet(Counting)
        /\ size + Cardinality(Counting) <= NodeCount
        /\ ~raced => size + Cardinality(Counting) = NodeCount
        /\ raced => size > 0 \/ \E t \in Threads : pc[t] = "writeSize"
    BY <1>1, <2>1 DEF IInv, Counted
  <2>3. /\ Cardinality(Counting) \in Nat /\ NodeCount \in Nat
        /\ size \in Nat /\ raced \in BOOLEAN
    BY <1>1, <2>2, FS_CardinalityType DEF IInv, TypeOK, Shape, NodeCount, Nodes
  <2>4. AllIdle => Counting = {}
    BY DEF AllIdle, Counting
  <2>5. AllIdle => Cardinality(Counting) = 0
    BY <2>4, FS_EmptySet
  <2> QED
    BY <2>2, <2>3, <2>5 DEF AllIdle
<1> QED
  BY <1>1, Invariance, PTL
-----------------------------------------------------------------------------
(* The value a chain holds for a key.                                        *)
ValueIn(chain, k) ==
  IF chain # Wild /\ \E i \in DOMAIN chain : chain[i].key = k
  THEN chain[CHOOSE i \in DOMAIN chain : chain[i].key = k].val
  ELSE Absent

(* It is the val of the node of that key, when the key has one node only.    *)
LEMMA ValueOfNode ==
  ASSUME NEW chain, chain # Wild, NEW i \in DOMAIN chain,
         \A j, l \in DOMAIN chain : chain[j].key = chain[l].key => j = l
  PROVE  ValueIn(chain, chain[i].key) = chain[i].val
<1> DEFINE j == CHOOSE l \in DOMAIN chain : chain[l].key = chain[i].key
<1>1. j \in DOMAIN chain /\ chain[j].key = chain[i].key
  OBVIOUS
<1>2. j = i
  BY <1>1
<1> QED
  BY <1>2 DEF ValueIn

(* Counter(k) is the value in the bucket the key hashes to.                  *)
LEMMA CounterIsValue ==
  ASSUME NEW k
  PROVE  /\ Counter(k) = ValueIn(buckets[HashOf[k]], k)
         /\ Counter(k)' = ValueIn(buckets'[HashOf[k]], k)
BY DEF Counter, ValueIn

(* A new chain of the same keys, or with one more, changes one counter.      *)
LEMMA OneCounter ==
  ASSUME IInv, NEW t \in Threads, pc[t] # "idle", Chain(t) # Wild,
         NEW c, buckets' = [buckets EXCEPT ![Bucket(t)] = c], c # Wild,
         \A k \in Keys : k # call[t].key => ValueIn(c, k) = ValueIn(Chain(t), k)
  PROVE  \A k \in Keys :
           Counter(k)' = IF k = call[t].key THEN ValueIn(c, k) ELSE Counter(k)
<1> SUFFICES ASSUME NEW k \in Keys
             PROVE  Counter(k)' = IF k = call[t].key THEN ValueIn(c, k)
                                  ELSE Counter(k)
  OBVIOUS
<1>1. Bucket(t) \in Buckets /\ HashOf[k] \in Buckets
  BY CallFacts, TableAssumption
<1>2. buckets'[HashOf[k]] = IF HashOf[k] = Bucket(t) THEN c ELSE buckets[HashOf[k]]
  BY <1>1 DEF IInv, Shape
<1>3. CASE k = call[t].key
  BY <1>2, <1>3, CounterIsValue DEF Bucket
<1>4. CASE k # call[t].key /\ HashOf[k] = Bucket(t)
  BY <1>2, <1>4, CounterIsValue DEF Chain
<1>5. CASE k # call[t].key /\ HashOf[k] # Bucket(t)
  BY <1>2, <1>5, CounterIsValue
<1> QED
  BY <1>3, <1>4, <1>5

(* The counter of the key a thread is called with.                           *)
LEMMA OwnCounter ==
  ASSUME IInv, NEW t \in Threads, pc[t] # "idle", Chain(t) # Wild
  PROVE  /\ \A i \in DOMAIN Chain(t) :
              Counter(Chain(t)[i].key) = Chain(t)[i].val
         /\ (\A i \in DOMAIN Chain(t) : Chain(t)[i].key # call[t].key) =>
              Counter(call[t].key) = Absent
<1>1. Bucket(t) \in Buckets
  BY CallFacts
<1>2. \A i, j \in DOMAIN Chain(t) :
        /\ HashOf[Chain(t)[i].key] = Bucket(t)
        /\ Chain(t)[i].key = Chain(t)[j].key => i = j
  BY <1>1 DEF IInv, OneNodePerKey, Chain
<1>3. ASSUME NEW i \in DOMAIN Chain(t)
      PROVE  Counter(Chain(t)[i].key) = Chain(t)[i].val
  <2>1. ValueIn(Chain(t), Chain(t)[i].key) = Chain(t)[i].val
    BY <1>2, ValueOfNode
  <2>2. buckets[HashOf[Chain(t)[i].key]] = Chain(t)
    BY <1>2 DEF Chain
  <2> QED
    BY <2>1, <2>2, CounterIsValue
<1>4. ASSUME \A i \in DOMAIN Chain(t) : Chain(t)[i].key # call[t].key
      PROVE  Counter(call[t].key) = Absent
  <2>1. buckets[HashOf[call[t].key]] = Chain(t)
    BY DEF Chain, Bucket
  <2> QED
    BY <1>4, <2>1, CounterIsValue DEF ValueIn
<1> QED
  BY <1>3, <1>4

(* A store gives the counter of its key the value the call asks for.         *)
LEMMA StoreServes ==
  ASSUME IInv, NEW t \in Threads, Store(t)
  PROVE  LET k == call[t].key
         IN  /\ Counter(k) \in 0 .. (Modulus - 1)
             /\ \A l \in Keys : Counter(l)' =
                  IF l # k THEN Counter(l)
                  ELSE IF call[t].kind = "inc"
                       THEN (Counter(k) + call[t].amount) % Modulus
                       ELSE call[t].amount
<1>1. pc[t] = "store"
  BY DEF Store, Goto
<1>2. PICK c \in Seq(Node) :
        /\ buckets' = [buckets EXCEPT ![Bucket(t)] = c]
        /\ Chain(t) \in Seq(Node) /\ Chain(t) # Wild
        /\ DOMAIN c = DOMAIN Chain(t)
        /\ \A i \in DOMAIN c :
             /\ c[i].key = Chain(t)[i].key
             /\ i # at[t] => c[i] = Chain(t)[i]
        /\ at[t] \in DOMAIN c /\ c[at[t]].key = call[t].key
        /\ c[at[t]].val = IF call[t].kind = "inc"
                          THEN Sum(Chain(t)[at[t]].val, call[t].amount)
                          ELSE call[t].amount
  BY StoreFacts
<1>3. c # Wild /\ Bucket(t) \in Buckets
  BY <1>1, WildIsNoChain, CallFacts
<1>4. /\ \A i, j \in DOMAIN Chain(t) : Chain(t)[i].key = Chain(t)[j].key => i = j
      /\ \A i, j \in DOMAIN c : c[i].key = c[j].key => i = j
  <2>1. \A i, j \in DOMAIN Chain(t) : Chain(t)[i].key = Chain(t)[j].key => i = j
    BY <1>2, <1>3 DEF IInv, OneNodePerKey, Chain
  <2> QED
    BY <1>2, <2>1
<1>5. ASSUME NEW k \in Keys, k # call[t].key
      PROVE  ValueIn(c, k) = ValueIn(Chain(t), k)
  <2>1. CASE \E i \in DOMAIN c : c[i].key = k
    <3>1. PICK i \in DOMAIN c : c[i].key = k
      BY <2>1
    <3>2. i \in DOMAIN Chain(t) /\ Chain(t)[i].key = k /\ c[i] = Chain(t)[i]
      BY <1>2, <1>5, <3>1
    <3>3. ValueIn(c, k) = c[i].val /\ ValueIn(Chain(t), k) = Chain(t)[i].val
      BY <1>2, <1>3, <1>4, <3>1, <3>2, ValueOfNode
    <3> QED
      BY <3>2, <3>3
  <2>2. CASE ~\E i \in DOMAIN c : c[i].key = k
    BY <1>2, <2>2 DEF ValueIn
  <2> QED
    BY <2>1, <2>2
<1>6. \A k \in Keys :
        Counter(k)' = IF k = call[t].key THEN ValueIn(c, k) ELSE Counter(k)
  <2>1. /\ pc[t] # "idle" /\ Chain(t) # Wild /\ c # Wild
        /\ buckets' = [buckets EXCEPT ![Bucket(t)] = c]
    BY <1>1, <1>2, <1>3
  <2> QED
    BY <1>5, <2>1, OneCounter, Zenon
<1>7. ValueIn(c, call[t].key) = c[at[t]].val
  BY <1>2, <1>3, <1>4, ValueOfNode
<1>8. Counter(call[t].key) = Chain(t)[at[t]].val
  BY <1>1, <1>2, OwnCounter
<1>9. Chain(t)[at[t]].val \in 0 .. (Modulus - 1)
  <2>1. Chain(t)[at[t]] \in Node
    BY <1>2, LenProperties, ElementOfSeq
  <2> QED
    BY <2>1 DEF Node
<1>10. c[at[t]].val = IF call[t].kind = "inc"
                      THEN (Counter(call[t].key) + call[t].amount) % Modulus
                      ELSE call[t].amount
  BY <1>2, <1>8 DEF Sum
<1> QED
  BY <1>6, <1>7, <1>8, <1>9, <1>10

(* An insert gives a key that had no counter the amount of the call.         *)
LEMMA InsertServes ==
  ASSUME IInv, NEW t \in Threads, Insert(t)
  PROVE  /\ Counter(call[t].key) = Absent
         /\ \A l \in Keys :
              Counter(l)' = IF l = call[t].key THEN call[t].amount ELSE Counter(l)
<1> DEFINE n == [key |-> call[t].key, val |-> call[t].amount]
           c == Append(Chain(t), n)
           e == Len(Chain(t)) + 1
<1>1. pc[t] = "insert"
  BY DEF Insert, Goto
<1>2. /\ n \in Node
      /\ Chain(t) \in Seq(Node) /\ Chain(t) # Wild
      /\ buckets' = [buckets EXCEPT ![Bucket(t)] = c]
      /\ \A i \in DOMAIN Chain(t) : Chain(t)[i].key # n.key
  BY InsertFacts
<1>3. n.key = call[t].key /\ n.val = call[t].amount /\ Bucket(t) \in Buckets
  BY <1>1, CallFacts
<1> HIDE DEF n
<1>4. /\ c \in Seq(Node) /\ e \notin DOMAIN Chain(t)
      /\ DOMAIN c = DOMAIN Chain(t) \cup {e}
      /\ c[e] = n
      /\ \A i \in DOMAIN Chain(t) : c[i] = Chain(t)[i]
  BY <1>2, AppendProperties, LenProperties
<1> HIDE DEF c, e
<1>5. c # Wild
  BY <1>4, WildIsNoChain
<1>6. /\ \A i, j \in DOMAIN Chain(t) : Chain(t)[i].key = Chain(t)[j].key => i = j
      /\ \A i, j \in DOMAIN c : c[i].key = c[j].key => i = j
  <2>1. \A i, j \in DOMAIN Chain(t) : Chain(t)[i].key = Chain(t)[j].key => i = j
    BY <1>2, <1>3 DEF IInv, OneNodePerKey, Chain
  <2> QED
    BY <1>2, <1>4, <2>1
<1>7. ASSUME NEW k \in Keys, k # call[t].key
      PROVE  ValueIn(c, k) = ValueIn(Chain(t), k)
  <2>1. CASE \E i \in DOMAIN Chain(t) : Chain(t)[i].key = k
    <3>1. PICK i \in DOMAIN Chain(t) : Chain(t)[i].key = k
      BY <2>1
    <3>2. i \in DOMAIN c /\ c[i].key = k /\ c[i] = Chain(t)[i]
      BY <1>4, <3>1
    <3>3. ValueIn(c, k) = c[i].val /\ ValueIn(Chain(t), k) = Chain(t)[i].val
      BY <1>2, <1>5, <1>6, <3>1, <3>2, ValueOfNode
    <3> QED
      BY <3>2, <3>3
  <2>2. CASE ~\E i \in DOMAIN Chain(t) : Chain(t)[i].key = k
    <3>1. ~\E i \in DOMAIN c : c[i].key = k
      BY <1>3, <1>4, <1>7, <2>2
    <3> QED
      BY <2>2, <3>1 DEF ValueIn
  <2> QED
    BY <2>1, <2>2
<1>8. \A k \in Keys :
        Counter(k)' = IF k = call[t].key THEN ValueIn(c, k) ELSE Counter(k)
  BY <1>1, <1>2, <1>5, <1>7, OneCounter
<1>9. ValueIn(c, call[t].key) = call[t].amount
  BY <1>3, <1>4, <1>5, <1>6, ValueOfNode
<1>10. Counter(call[t].key) = Absent
  BY <1>1, <1>2, <1>3, OwnCounter
<1> QED
  BY <1>8, <1>9, <1>10

(* A get answers with the counter of its own key or of one it begins with,   *)
(* and comes back with nothing only if its own key has none.                 *)
LEMMA GetServes ==
  ASSUME IInv, NEW t \in Threads, GetFromEmpty(t) \/ GetFromChain(t)
  PROVE  \/ /\ Counter(call[t].key) = Absent
            /\ answer' = [answer EXCEPT ![t] = Absent]
         \/ \E j \in Keys :
              /\ <<j, call[t].key>> \in Prefixes
              /\ Counter(j) # Absent
              /\ answer' = [answer EXCEPT ![t] = Counter(j)]
<1>1. pc[t] = "search" /\ Chain(t) # Wild
  BY WildIsNoChain DEF GetFromEmpty, GetFromChain, Goto
<1>2. call[t].key \in Keys /\ Chain(t) \in Seq(Node)
  BY <1>1, CallFacts
<1>3. CASE GetFromEmpty(t)
  <2>1. Chain(t) = <<>> /\ answer' = [answer EXCEPT ![t] = Absent]
    BY <1>3 DEF GetFromEmpty
  <2>2. Counter(call[t].key) = Absent
    BY <1>1, <2>1, OwnCounter
  <2> QED
    BY <2>1, <2>2
<1>4. CASE GetFromChain(t)
  <2> DEFINE hits == {i \in DOMAIN Chain(t) :
                        <<Chain(t)[i].key, call[t].key>> \in Prefixes}
  <2>1. answer' = [answer EXCEPT ![t] = IF hits = {} THEN Absent
                                        ELSE Chain(t)[First(hits)].val]
    BY <1>4 DEF GetFromChain
  <2>2. DOMAIN Chain(t) = 1 .. Len(Chain(t)) /\ Len(Chain(t)) \in Nat
    BY <1>2, LenProperties
  <2>3. CASE hits = {}
    <3>1. \A i \in DOMAIN Chain(t) : Chain(t)[i].key # call[t].key
      BY <1>2, <2>3, TableAssumption
    <3>2. Counter(call[t].key) = Absent
      BY <1>1, <3>1, OwnCounter
    <3> QED
      BY <2>1, <2>3, <3>2
  <2>4. CASE hits # {}
    <3> DEFINE node == Chain(t)[First(hits)]
    <3>1. First(hits) \in hits
      <4>1. hits \subseteq Nat
        BY <2>2
      <4> QED
        BY <2>4, <4>1, LeastPosition
    <3>2. First(hits) \in DOMAIN Chain(t) /\ <<node.key, call[t].key>> \in Prefixes
      BY <3>1
    <3>3. node \in Node
      BY <1>2, <2>2, <3>2, ElementOfSeq
    <3>4. Counter(node.key) = node.val
      BY <1>1, <3>2, OwnCounter
    <3>5. node.key \in Keys /\ node.val # Absent
      BY <3>3, TableAssumption DEF Node
    <3>6. answer' = [answer EXCEPT ![t] = Counter(node.key)]
      BY <2>1, <2>4, <3>4
    <3> HIDE DEF node
    <3> QED
      BY <3>2, <3>4, <3>5, <3>6
  <2> QED
    BY <2>3, <2>4
<1> QED
  BY <1>3, <1>4

(* Initially every counter is absent and no call waits.                      *)
LEMMA MapInit == Init => Map!CInit
<1> SUFFICES ASSUME Init
             PROVE  Map!CInit
  OBVIOUS
<1>1. ASSUME NEW k \in Keys
      PROVE  Counter(k) = Absent
  <2>1. HashOf[k] \in Buckets
    BY TableAssumption
  <2>2. buckets[HashOf[k]] = Wild \/ buckets[HashOf[k]] = <<>>
    BY <2>1 DEF Init
  <2> QED
    BY <2>2 DEF Counter
<1>2. \A t \in Threads : Pending(t) = None
  BY DEF Init, Pending
<1> QED
  BY <1>1, <1>2 DEF Init, Map!CInit

(* Every step of the table is a step of the map or none: an increment or an  *)
(* assignment takes effect at the store or the insert, a get at the end of   *)
(* its walk, and a failed allocation drops the call.                         *)
LEMMA MapNext ==
  ASSUME IInv, [Next]_vars
  PROVE  [Map!CNext]_(Map!cvars)
<1> DEFINE counters == [k \in Keys |-> Counter(k)]
           request == [t \in Threads |-> Pending(t)]
<1>1. pc \in [Threads -> States] /\ answer \in [Threads -> {Absent} \cup 0 .. (Modulus - 1)]
      /\ call \in [Threads -> Requests \cup {None}]
  BY DEF IInv, TypeOK
<1>2. ASSUME UNCHANGED <<buckets, answer>>, \A t \in Threads : Pending(t)' = Pending(t)
      PROVE  [Map!CNext]_(Map!cvars)
  <2>1. counters' = counters
    BY <1>2, CounterIsValue
  <2>2. request' = request
    BY <1>2
  <2> QED
    BY <1>2, <2>1, <2>2 DEF Map!cvars
<1>3. ASSUME NEW t \in Threads, pc[t] \in {"search", "store", "insert"},
             pc' = [pc EXCEPT ![t] = "idle"] \/ pc' = [pc EXCEPT ![t] = "readSize"],
             UNCHANGED call
      PROVE  /\ request[t] = call[t] /\ request[t] # None
             /\ request' = [request EXCEPT ![t] = None]
  <2>1. request[t] = call[t]
    BY <1>3 DEF Pending
  <2>2. call[t] # None
    <3>1. call[t] \in Requests
      BY <1>3, CallFacts
    <3>2. call[t] \in [kind : Kinds, key : Keys, amount : 0 .. (Modulus - 1)]
      <4>1. Amounts \cup {0} \subseteq 0 .. (Modulus - 1)
        BY TableAssumption
      <4> QED
        BY <3>1, <4>1 DEF Requests
    <3> QED
      BY <3>2, TableAssumption
  <2>3. \A u \in Threads : Pending(u)' = IF u = t THEN None ELSE Pending(u)
    BY <1>1, <1>3 DEF Pending
  <2> QED
    BY <2>1, <2>2, <2>3
<1>4. ASSUME NEW t \in Threads, Call(t)
      PROVE  Map!Begin(t)
  <2>1. PICK r \in Requests : call' = [call EXCEPT ![t] = r]
    BY <1>4 DEF Call
  <2>2. r \in Map!Requests
    <3>1. /\ Amounts \cup {0} \subseteq 0 .. (Modulus - 1)
          /\ Kinds \subseteq {"inc", "put", "get"}
      BY TableAssumption
    <3> QED
      BY <2>1, <3>1 DEF Requests, Map!Requests
  <2>3. /\ pc[t] = "idle" /\ pc' = [pc EXCEPT ![t] = "lock"]
        /\ UNCHANGED <<buckets, answer>>
    BY <1>4 DEF Call, Goto
  <2>4. \A u \in Threads : Pending(u)' = IF u = t THEN r ELSE Pending(u)
    BY <1>1, <2>1, <2>3 DEF Pending
  <2>5. request[t] = None /\ request' = [request EXCEPT ![t] = r]
    BY <2>3, <2>4 DEF Pending
  <2>6. counters' = counters
    BY <2>3, CounterIsValue
  <2> QED
    BY <2>2, <2>3, <2>5, <2>6 DEF Map!Begin
<1>5. ASSUME NEW t \in Threads, Store(t)
      PROVE  Map!Increment(t) \/ Map!Assign(t)
  <2>1. /\ pc[t] = "store" /\ pc' = [pc EXCEPT ![t] = "idle"]
        /\ UNCHANGED <<call, answer>>
    BY <1>5 DEF Store, Goto, local
  <2>2. /\ request[t] = call[t] /\ request[t] # None
        /\ request' = [request EXCEPT ![t] = None]
    BY <1>3, <2>1
  <2>3. /\ call[t].kind \in {"inc", "put"} /\ call[t].key \in Keys
        /\ counters[call[t].key] = Counter(call[t].key)
    BY <2>1, CallFacts DEF IInv, Found, FoundBy
  <2>4. Counter(call[t].key) # Absent
    BY <1>5, StoreServes, TableAssumption
  <2>5. counters' = [counters EXCEPT ![call[t].key] =
                       IF call[t].kind = "inc"
                       THEN (Counter(call[t].key) + call[t].amount) % Modulus
                       ELSE call[t].amount]
    BY <1>5, <2>3, StoreServes
  <2>6. CASE call[t].kind = "inc"
    BY <2>1, <2>2, <2>3, <2>4, <2>5, <2>6 DEF Map!Increment, Map!Serve
  <2>7. CASE call[t].kind = "put"
    BY <2>1, <2>2, <2>3, <2>4, <2>5, <2>7 DEF Map!Assign, Map!Serve
  <2> QED
    BY <2>3, <2>6, <2>7
<1>6. ASSUME NEW t \in Threads, Insert(t)
      PROVE  Map!Increment(t) \/ Map!Assign(t)
  <2>1. /\ pc[t] = "insert" /\ pc' = [pc EXCEPT ![t] = "readSize"]
        /\ UNCHANGED <<call, answer>>
    BY <1>6 DEF Insert, Goto, local
  <2>2. /\ request[t] = call[t] /\ request[t] # None
        /\ request' = [request EXCEPT ![t] = None]
    BY <1>3, <2>1
  <2>3. /\ call[t].kind \in {"inc", "put"} /\ call[t].key \in Keys
        /\ counters[call[t].key] = Absent
    BY <1>6, <2>1, CallFacts, InsertServes DEF IInv, Found, FoundBy
  <2>4. counters' = [counters EXCEPT ![call[t].key] = call[t].amount]
    BY <1>6, <2>3, InsertServes
  <2>5. CASE call[t].kind = "inc"
    BY <2>1, <2>2, <2>3, <2>4, <2>5 DEF Map!Increment, Map!Serve
  <2>6. CASE call[t].kind = "put"
    BY <2>1, <2>2, <2>3, <2>4, <2>6 DEF Map!Assign, Map!Serve
  <2> QED
    BY <2>3, <2>5, <2>6
<1>7. ASSUME NEW t \in Threads, AllocFails(t)
      PROVE  Map!Drop(t)
  <2>1. /\ pc[t] = "insert" /\ pc' = [pc EXCEPT ![t] = "idle"]
        /\ UNCHANGED <<buckets, call, answer>>
    BY <1>7 DEF AllocFails, Goto, local
  <2>2. /\ request[t] = call[t] /\ request[t] # None
        /\ request' = [request EXCEPT ![t] = None]
    BY <1>3, <2>1
  <2>3. /\ call[t].kind \in {"inc", "put"} /\ Chain(t) # Wild
        /\ \A i \in DOMAIN Chain(t) : Chain(t)[i].key # call[t].key
    BY <2>1 DEF IInv, Found, FoundBy
  <2>4. call[t].key \in Keys /\ counters[call[t].key] = Absent
    BY <2>1, <2>3, CallFacts, OwnCounter
  <2>5. counters' = counters
    BY <2>1, CounterIsValue
  <2> QED
    BY <2>1, <2>2, <2>3, <2>4, <2>5 DEF Map!Drop, Map!Serve
<1>8. ASSUME NEW t \in Threads, GetFromEmpty(t) \/ GetFromChain(t)
      PROVE  Map!Read(t)
  <2>1. /\ pc[t] = "search" /\ pc' = [pc EXCEPT ![t] = "idle"]
        /\ call[t].kind = "get" /\ UNCHANGED <<buckets, call>>
    BY <1>8 DEF GetFromEmpty, GetFromChain, Goto
  <2>2. /\ request[t] = call[t] /\ request[t] # None
        /\ request' = [request EXCEPT ![t] = None]
    BY <1>3, <2>1
  <2>3. \/ /\ counters[call[t].key] = Absent
           /\ answer' = [answer EXCEPT ![t] = Absent]
        \/ \E j \in Keys :
             /\ <<j, call[t].key>> \in Prefixes
             /\ counters[j] # Absent
             /\ answer' = [answer EXCEPT ![t] = counters[j]]
    <3>1. call[t].key \in Keys
      BY <2>1, CallFacts
    <3> QED
      BY <1>8, <3>1, GetServes
  <2>4. counters' = counters
    BY <2>1, CounterIsValue
  <2> QED
    BY <2>1, <2>2, <2>3, <2>4 DEF Map!Read, Map!Serve
<1>9. ASSUME NEW t \in Threads,
             Lock(t) \/ Search(t) \/ ReadSize(t) \/ WriteSize(t)
      PROVE  /\ UNCHANGED <<buckets, answer>>
             /\ \A u \in Threads : Pending(u)' = Pending(u)
  <2>1. /\ UNCHANGED <<buckets, answer, call>>
        /\ \/ /\ pc[t] \in {"lock", "search"}
              /\ \E p \in {"search", "store", "insert"} : pc' = [pc EXCEPT ![t] = p]
           \/ /\ pc[t] \in {"readSize", "writeSize"}
              /\ \E p \in {"writeSize", "idle"} : pc' = [pc EXCEPT ![t] = p]
    BY <1>9 DEF Lock, Search, ReadSize, WriteSize, Goto, local
  <2> QED
    BY <1>1, <2>1 DEF Pending
<1>10. CASE \/ UNCHANGED vars \/ PrintTop \/ Free
            \/ \E t \in Threads : FollowWildPointer(t)
  <2>1. /\ UNCHANGED <<buckets, answer>>
        /\ \A u \in Threads : Pending(u)' = Pending(u)
    BY <1>10 DEF vars, local, PrintTop, Free, FollowWildPointer, Pending
  <2> QED
    BY <1>2, <2>1
<1>11. (\E t \in Threads : Map!Begin(t) \/ Map!Increment(t) \/ Map!Assign(t)
          \/ Map!Read(t) \/ Map!Drop(t)) => Map!CNext
  BY DEF Map!CNext
<1> QED
  BY <1>2, <1>4, <1>5, <1>6, <1>7, <1>8, <1>9, <1>10, <1>11
     DEF Next, ThreadStep, Ended

(* The table is linearizable for any number of threads, keys and buckets: it *)
(* implements the map in which every call takes effect at one instant, a get *)
(* with the counter of its own key or of a stored key it begins with.        *)
THEOREM Refinement == Spec => IsCounterMap
<1>1. IInv /\ [Next]_vars => [Map!CNext]_(Map!cvars)
  BY MapNext
<1> QED
  BY <1>1, MapInit, Invariance, PTL DEF Spec, IsCounterMap, Map!CSpec
=============================================================================
