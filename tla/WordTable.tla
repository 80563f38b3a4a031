----------------------------- MODULE WordTable ------------------------------
(***************************************************************************)
(* hw3: main.c counts the words of a file in the open-addressing table of  *)
(* hashtable.c.  One action is one word: the get of main, its ++v, and the *)
(* whole put with the growth of the table that it may cause.               *)
(***************************************************************************)
EXTENDS Integers, FiniteSets

Sums == INSTANCE FiniteSetsExt

CONSTANTS
  Keys,         \* the words of the file
  Hash,         \* the 32-bit number hash() computes before it divides by size
  Prefixes,     \* the pairs <<a, b>> where a is a prefix of b
  InitialSize,  \* the size main creates the table with
  Collision,    \* how many buckets find_index and insert look at
  Modulus,      \* 2^32: a value is a uint32_t, and UINT32_MAX means `not found'
  MaxWords,     \* bound: how many words the file has
  Empty         \* a bucket whose key is NULL

ASSUME WordAssumption ==
  /\ IsFiniteSet(Keys)
  /\ Hash \in [Keys -> Nat]
  /\ Prefixes \subseteq Keys \X Keys
  /\ \A k \in Keys : <<k, k>> \in Prefixes
  /\ InitialSize \in Nat \ {0}
  /\ Collision \in 1 .. InitialSize
  /\ Modulus \in Nat \ {0, 1}
  /\ MaxWords \in Nat
  /\ Empty \notin [key : Keys, v : 1 .. (Modulus - 1)]

VARIABLES
  values,   \* t->values: a key and a v, or Empty, for each bucket
  size,     \* t->size
  cap,      \* t->cap: the number of inserts
  status,   \* whether main is counting, has reported or has failed, and why
  count,    \* history: how often main has read each word
  collided  \* history: growth moved two entries to the same bucket

wordVars == <<values, size, cap, status, count, collided>>

NotFound == Modulus - 1   \* UINT32_MAX
Buckets == DOMAIN values
Home(k) == Hash[k] % size
WordCount == Sums!MapThenSumSet(LAMBDA k : count[k], Keys)

WordInit ==
  /\ values = [i \in 0 .. (InitialSize - 1) |-> Empty]
  /\ size = InitialSize
  /\ cap = 0
  /\ status = "counting"
  /\ count = [k \in Keys |-> 0]
  /\ collided = FALSE
-----------------------------------------------------------------------------
(* Mutation: the last bucket of the window is not looked at. *)
WindowOneShort(start, sz) ==
  [i \in 0 .. (Collision - 2) |-> (start + i) % sz]

(* The buckets find_index and insert look at, in their order. *)
Window(start, sz) == [i \in 0 .. (Collision - 1) |-> (start + i) % sz]

(* The first place in a window for which a set of buckets has been picked. *)
FirstIn(window, picked) ==
  window[CHOOSE i \in DOMAIN window :
           /\ window[i] \in picked
           /\ \A j \in DOMAIN window : window[j] \in picked => i <= j]

Meets(window, picked) == \E i \in DOMAIN window : window[i] \in picked

(* find_index compares no more than the length of the stored key. *)
Hits(k) ==
  {i \in Buckets : values[i] # Empty /\ <<values[i].key, k>> \in Prefixes}

Found(k) == Meets(Window(Home(k), size), Hits(k))
IndexOf(k) == FirstIn(Window(Home(k), size), Hits(k))

Get(k) == IF Found(k) THEN values[IndexOf(k)].v ELSE NotFound

(* What main passes to put: ++v. *)
NewValue(k) == IF Get(k) = NotFound THEN 1 ELSE Get(k) + 1

(* Mutation: realloc, which leaves the old entries where they were. *)
OldEntry(j) == IF j \in Buckets THEN values[j] ELSE Empty

NoEntry(j) == Empty

GrownHome(i) == Hash[values[i].key] % (2 * size)

(* grow_bucket_size moves every entry to where it hashes, without probing: a *)
(* later entry replaces an earlier one.                                      *)
Grown ==
  [j \in 0 .. (2 * size - 1) |->
     LET same == {i \in Buckets : values[i] # Empty /\ GrownHome(i) = j}
     IN IF same = {} THEN NoEntry(j) ELSE values[Sums!Max(same)]]

Collides ==
  \E i, j \in Buckets :
    /\ i # j /\ values[i] # Empty /\ values[j] # Empty
    /\ GrownHome(i) = GrownHome(j)

(* Mutation: insert does not look whether the bucket is taken. *)
EveryBucket(table) == DOMAIN table

Frees(table) == {i \in DOMAIN table : table[i] = Empty}
-----------------------------------------------------------------------------
(* main has read the word k and calls get and put. *)
Read(k) ==
  /\ status = "counting"
  /\ WordCount < MaxWords
  /\ count' = [count EXCEPT ![k] = @ + 1]

(* put finds the key and replaces its value. *)
Replace(k) ==
  /\ Read(k)
  /\ Get(k) # NotFound
  /\ values' = [values EXCEPT ![IndexOf(k)].v = NewValue(k)]
  /\ UNCHANGED <<size, cap, status, collided>>

(* insert, into a table of the given size, from the index that put computed  *)
(* before the table grew.                                                    *)
InsertInto(table, sz, k) ==
  /\ size' = sz
  /\ \/ /\ Meets(Window(Home(k), sz), Frees(table))
        /\ values' = [table EXCEPT ![FirstIn(Window(Home(k), sz), Frees(table))] =
                        [key |-> k, v |-> NewValue(k)]]
        /\ cap' = cap + 1
        /\ UNCHANGED status
     \/ /\ ~Meets(Window(Home(k), sz), Frees(table))
        /\ values' = table
        /\ status' = "noRoom"
        /\ UNCHANGED cap
     \/ /\ Meets(Window(Home(k), sz), Frees(table))
        /\ values' = table
        /\ status' = "noMemory"
        /\ UNCHANGED cap

Insert(k) ==
  /\ Read(k)
  /\ Get(k) = NotFound
  /\ cap + 1 <= size
  /\ InsertInto(values, size, k)
  /\ UNCHANGED collided

GrowAndInsert(k) ==
  /\ Read(k)
  /\ Get(k) = NotFound
  /\ cap + 1 > size
  /\ InsertInto(Grown, 2 * size, k)
  /\ collided' = (collided \/ Collides)

(* Mutation: main does not look at what put returned. *)
FailureUnseen == "counting"

FailureSeen == "noMemory"

(* Out of memory: size is doubled all the same, and main gives up. *)
GrowFails(k) ==
  /\ Read(k)
  /\ Get(k) = NotFound
  /\ cap + 1 > size
  /\ size' = 2 * size
  /\ status' = FailureSeen
  /\ UNCHANGED <<values, cap, collided>>

(* The file has no more words: main prints every entry and clears the table. *)
ReportWords ==
  /\ status = "counting"
  /\ status' = "reported"
  /\ UNCHANGED <<values, size, cap, count, collided>>

Ended ==
  /\ status # "counting"
  /\ UNCHANGED wordVars

WordNext ==
  \/ \E k \in Keys :
       Replace(k) \/ Insert(k) \/ GrowAndInsert(k) \/ GrowFails(k)
  \/ ReportWords
  \/ Ended

WordSpec == WordInit /\ [][WordNext]_wordVars
-----------------------------------------------------------------------------
Entries == {i \in Buckets : values[i] # Empty}
EntriesOf(k) == {i \in Entries : values[i].key = k}
WordsRead == {k \in Keys : count[k] > 0}

(* Every variable has its type, and while main counts, the array is as long  *)
(* as size says.                                                             *)
WordTypeOK ==
  /\ size \in Nat
  /\ status \in {"counting", "reported", "noRoom", "noMemory"}
  /\ status # "noMemory" => DOMAIN values = 0 .. (size - 1)
  /\ \A i \in Entries : values[i] \in [key : Keys, v : 1 .. (Modulus - 1)]
  /\ cap \in 0 .. size
  /\ count \in [Keys -> Nat]
  /\ collided \in BOOLEAN

(* The words read so far do not meet the two limits of the comparison and of *)
(* the width of a value.                                                     *)
Distinguishable ==
  /\ \A j, k \in WordsRead : <<j, k>> \in Prefixes => j = k
  /\ \A k \in Keys : count[k] < NotFound

(* Until a table in which probing reaches every bucket, like that of main,   *)
(* first grows, probing with wrap-around is exact: each word has one entry   *)
(* with its count, and a put fails only for want of memory.                  *)
ExactUntilGrowth ==
  size = InitialSize /\ Collision = size /\ Distinguishable =>
    /\ status # "noRoom"
    /\ status # "noMemory" => \A k \in Keys :
         IF count[k] = 0 THEN EntriesOf(k) = {}
         ELSE \E i \in Buckets : /\ EntriesOf(k) = {i}
                                 /\ values[i].v = count[k]

(* What the entries of some words count together, and how often some words   *)
(* were read.                                                                *)
Claimed(S) ==
  Sums!MapThenSumSet(LAMBDA i : values[i].v, {i \in Entries : values[i].key \in S})
Readings(S) == Sums!MapThenSumSet(LAMBDA k : count[k], S)

(* The words that begin with one of some words, and those one of them begins *)
(* with.                                                                     *)
Continuations(S) == {k \in Keys : \E j \in S : <<j, k>> \in Prefixes}
Beginnings(S) == {j \in Keys : \E k \in S : <<j, k>> \in Prefixes}

(* However entries are overwritten, misplaced or doubled by growth, taken for*)
(* each other or cut off at UINT32_MAX, the entries of any words together    *)
(* never count more than the words that begin with one of them were read.    *)
NeverOvercounts ==
  \A S \in SUBSET Keys : Claimed(S) <= Readings(Continuations(S))

(* And as long as growth has not moved two entries to the same bucket, they  *)
(* count no less either: a word that has got a second entry, and one counted *)
(* in the entry of its beginning, is misreported but not lost.               *)
NothingLost ==
  ~collided /\ status \in {"counting", "reported"} =>
    \A S \in SUBSET Keys : Readings(S) <= Claimed(Beginnings(S))

(* Together: what main reports of any words is what it has read of them, but *)
(* for words taken for each other's beginnings and for collisions of growth. *)
EveryReadingCounted == NeverOvercounts /\ NothingLost

(* Every word that was counted still has an entry: hashtable.c:150 says that *)
(* growth copies all existing elements.                                      *)
NoWordDropped ==
  status \in {"counting", "reported"} /\ Distinguishable =>
    \A k \in WordsRead : EntriesOf(k) # {}
=============================================================================
