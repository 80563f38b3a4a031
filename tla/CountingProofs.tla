--------------------------- MODULE CountingProofs ---------------------------
(***************************************************************************)
(* Theorems about the programs that count: the word counter of hw3, and    *)
(* the log parser of hw12 on its pool and its tables; and about the sums   *)
(* their properties speak of.                                              *)
(***************************************************************************)
EXTENDS WordTable, LogParser, FiniteSetTheorems, WellFoundedInduction, TLAPS

(* A set of natural numbers has a least one.                                 *)
LEMMA LeastNumber ==
  ASSUME NEW S, S \subseteq Nat, S # {}
  PROVE  \E i \in S : \A j \in S : i <= j
<1> DEFINE Less == OpToRel(<, Nat)
<1>1. IsWellFoundedOn(Less, Nat)
  BY NatLessThanWellFounded
<1>2. \A i, j \in Nat : <<j, i>> \in Less <=> j < i
  BY DEF OpToRel
<1> HIDE DEF Less
<1>3. \E i \in S : \A j \in Nat : <<j, i>> \in Less => j \notin S
  BY <1>1, WFMin, Zenon
<1>4. PICK i \in S : \A j \in Nat : <<j, i>> \in Less => j \notin S
  BY <1>3
<1>5. ASSUME NEW j \in S
      PROVE  i <= j
  <2>1. i \in Nat /\ j \in Nat
    OBVIOUS
  <2>2. ~(<<j, i>> \in Less)
    BY <1>4, <2>1, Zenon
  <2>3. ~(j < i)
    BY <1>2, <2>1, <2>2, Zenon
  <2> QED
    BY <2>1, <2>3
<1> QED
  BY <1>4, <1>5

(* Of the subsets of a finite set that a collection has, one is smallest.    *)
LEMMA SmallestSubset ==
  ASSUME NEW S, IsFiniteSet(S), NEW C \in SUBSET (SUBSET S), C # {}
  PROVE  \E T \in C : /\ IsFiniteSet(T)
                      /\ \A x \in T : T \ {x} \notin C
<1> DEFINE N == {Cardinality(T) : T \in C}
<1>1. \A T \in C : IsFiniteSet(T) /\ Cardinality(T) \in Nat
  BY FS_Subset, FS_CardinalityType
<1>2. N \subseteq Nat /\ N # {}
  BY <1>1
<1>3. PICK n \in N : \A m \in N : n <= m
  <2> HIDE DEF N
  <2> QED
    BY <1>2, LeastNumber
<1>4. PICK T \in C : n = Cardinality(T)
  OBVIOUS
<1>5. ASSUME NEW x \in T, T \ {x} \in C
      PROVE  FALSE
  <2>1. Cardinality(T \ {x}) = Cardinality(T) - 1
    BY <1>1, FS_RemoveElement
  <2>2. Cardinality(T) <= Cardinality(T \ {x})
    BY <1>3, <1>4, <1>5
  <2> QED
    BY <1>1, <2>1, <2>2
<1> QED
  BY <1>1, <1>5

(* The element a sum takes next.                                             *)
Pick(s) == CHOOSE x \in s : TRUE

(* g has the sums of f over the subsets of S.                                *)
SumsOver(f, S, g) ==
  g = [s \in SUBSET S |-> IF s = {} THEN 0 ELSE f[Pick(s)] + g[s \ {Pick(s)}]]

(* The sum of f over S.                                                      *)
Sum(f, S) == (CHOOSE g : SumsOver(f, S, g))[S]

(* The sum that the models take from the library is the one of this module.  *)
LEMMA SumIs ==
  ASSUME NEW f, NEW S
  PROVE  Sums!MapThenSumSet(LAMBDA x : f[x], S) = Sum(f, S)
BY DEF Sums!MapThenSumSet, Sums!MapThenFoldSet, Sum, SumsOver, Pick

(* Two functions that give the sums over the subsets of two sets agree on a  *)
(* set that is in both.                                                      *)
LEMMA SumsAgree ==
  ASSUME NEW f, NEW S, IsFiniteSet(S), NEW T \in SUBSET S, NEW g, NEW h,
         SumsOver(f, S, g), SumsOver(f, T, h)
  PROVE  g[T] = h[T]
<1> DEFINE C == {s \in SUBSET T : g[s] # h[s]}
<1>1. IsFiniteSet(T)
  BY FS_Subset
<1>2. SUFFICES ASSUME C # {}
               PROVE  FALSE
  OBVIOUS
<1>3. PICK s \in C : \A x \in s : s \ {x} \notin C
  <2>1. C \in SUBSET (SUBSET T)
    OBVIOUS
  <2> HIDE DEF C
  <2> QED
    BY <1>1, <1>2, <2>1, SmallestSubset
<1>4. /\ g[s] = IF s = {} THEN 0 ELSE f[Pick(s)] + g[s \ {Pick(s)}]
      /\ h[s] = IF s = {} THEN 0 ELSE f[Pick(s)] + h[s \ {Pick(s)}]
  BY DEF SumsOver
<1>5. s # {} => Pick(s) \in s
  BY DEF Pick
<1>6. s # {} => g[s \ {Pick(s)}] = h[s \ {Pick(s)}]
  BY <1>3, <1>5
<1> QED
  BY <1>4, <1>6

(* The sums over the subsets of a finite set have such a function.           *)
LEMMA SumsExist ==
  ASSUME NEW f, NEW S, IsFiniteSet(S)
  PROVE  \E g : SumsOver(f, S, g)
<1> DEFINE C == {T \in SUBSET S : ~\E g : SumsOver(f, T, g)}
<1>1. SUFFICES ASSUME C # {}
               PROVE  FALSE
  OBVIOUS
<1>2. PICK T \in C : IsFiniteSet(T) /\ \A x \in T : T \ {x} \notin C
  <2>1. C \in SUBSET (SUBSET S)
    OBVIOUS
  <2> HIDE DEF C
  <2> QED
    BY <1>1, <2>1, SmallestSubset
<1>3. ASSUME NEW U \in SUBSET T, U # T
      PROVE  \E g : SumsOver(f, U, g)
  <2>1. PICK x \in T : x \notin U
    BY <1>3
  <2>2. PICK g : SumsOver(f, T \ {x}, g)
    BY <1>2
  <2>3. U \in SUBSET (T \ {x})
    BY <2>1
  <2> DEFINE h == [s \in SUBSET U |-> g[s]]
  <2>4. h = [s \in SUBSET U |-> IF s = {} THEN 0 ELSE f[Pick(s)] + h[s \ {Pick(s)}]]
    <3>1. ASSUME NEW s \in SUBSET U
          PROVE  g[s] = IF s = {} THEN 0 ELSE f[Pick(s)] + h[s \ {Pick(s)}]
      <4>1. g[s] = IF s = {} THEN 0 ELSE f[Pick(s)] + g[s \ {Pick(s)}]
        BY <2>2, <2>3 DEF SumsOver
      <4>2. s \ {Pick(s)} \in SUBSET U
        OBVIOUS
      <4> QED
        BY <4>1, <4>2
    <3> QED
      BY <3>1
  <2> QED
    BY <2>4 DEF SumsOver
<1>4. ASSUME NEW U \in SUBSET T, U # T
      PROVE  Sum(f, U) = IF U = {} THEN 0 ELSE f[Pick(U)] + Sum(f, U \ {Pick(U)})
  <2> DEFINE V == U \ {Pick(U)}
             g == CHOOSE h : SumsOver(f, U, h)
             k == CHOOSE h : SumsOver(f, V, h)
  <2>1. V \in SUBSET T /\ (V # T) /\ V \in SUBSET U /\ IsFiniteSet(U)
    BY <1>2, <1>4, FS_Subset
  <2>2. SumsOver(f, U, g) /\ SumsOver(f, V, k)
    BY <1>3, <1>4, <2>1
  <2>3. Sum(f, U) = g[U] /\ Sum(f, V) = k[V]
    BY DEF Sum
  <2> HIDE DEF g, k
  <2>4. g[V] = k[V]
    BY <2>1, <2>2, SumsAgree
  <2>5. g[U] = IF U = {} THEN 0 ELSE f[Pick(U)] + g[V]
    BY <2>2 DEF SumsOver
  <2> QED
    BY <2>3, <2>4, <2>5
<1> DEFINE g == [s \in SUBSET T |-> IF s = {} THEN 0
                                    ELSE f[Pick(s)] + Sum(f, s \ {Pick(s)})]
<1>5. ASSUME NEW s \in SUBSET T, s # {}
      PROVE  g[s \ {Pick(s)}] = Sum(f, s \ {Pick(s)})
  <2>1. Pick(s) \in s
    BY <1>5 DEF Pick
  <2>2. s \ {Pick(s)} \in SUBSET T /\ s \ {Pick(s)} # T
    BY <2>1
  <2> QED
    BY <1>4, <2>2
<1>6. SumsOver(f, T, g)
  <2> HIDE DEF g
  <2>1. g = [s \in SUBSET T |-> IF s = {} THEN 0 ELSE f[Pick(s)] + g[s \ {Pick(s)}]]
    BY <1>5 DEF g
  <2> QED
    BY <2>1 DEF SumsOver
<1> QED
  BY <1>6

(* A sum is the value of the element picked first and the sum of the others. *)
LEMMA SumPicks ==
  ASSUME NEW f, NEW S, IsFiniteSet(S)
  PROVE  Sum(f, S) = IF S = {} THEN 0 ELSE f[Pick(S)] + Sum(f, S \ {Pick(S)})
<1> DEFINE V == S \ {Pick(S)}
           g == CHOOSE h : SumsOver(f, S, h)
           k == CHOOSE h : SumsOver(f, V, h)
<1>1. V \in SUBSET S /\ IsFiniteSet(V)
  BY FS_Subset
<1>2. SumsOver(f, S, g) /\ SumsOver(f, V, k)
  BY <1>1, SumsExist
<1>3. Sum(f, S) = g[S] /\ Sum(f, V) = k[V]
  BY DEF Sum
<1> HIDE DEF g, k
<1>4. g[V] = k[V]
  BY <1>1, <1>2, SumsAgree
<1>5. g[S] = IF S = {} THEN 0 ELSE f[Pick(S)] + g[V]
  BY <1>2 DEF SumsOver
<1> QED
  BY <1>3, <1>4, <1>5

(* A sum of natural numbers is one.                                          *)
LEMMA SumType ==
  ASSUME NEW S, IsFiniteSet(S), NEW f, \A x \in S : f[x] \in Nat
  PROVE  Sum(f, S) \in Nat
<1> DEFINE C == {T \in SUBSET S : Sum(f, T) \notin Nat}
<1>1. SUFFICES ASSUME C # {}
               PROVE  FALSE
  OBVIOUS
<1>2. PICK T \in C : IsFiniteSet(T) /\ \A x \in T : T \ {x} \notin C
  <2>1. C \in SUBSET (SUBSET S)
    OBVIOUS
  <2> HIDE DEF C
  <2> QED
    BY <1>1, <2>1, SmallestSubset
<1>3. Sum(f, T) = IF T = {} THEN 0 ELSE f[Pick(T)] + Sum(f, T \ {Pick(T)})
  BY <1>2, SumPicks
<1>4. T # {} => Pick(T) \in T
  BY DEF Pick
<1>5. T # {} => Sum(f, T \ {Pick(T)}) \in Nat /\ f[Pick(T)] \in Nat
  BY <1>2, <1>4
<1> QED
  BY <1>3, <1>5

(* A sum does not depend on the order of its terms.                          *)
LEMMA SumTakesAny ==
  ASSUME NEW S, IsFiniteSet(S), NEW f, \A x \in S : f[x] \in Nat, NEW x \in S
  PROVE  Sum(f, S) = f[x] + Sum(f, S \ {x})
<1> DEFINE C == {T \in SUBSET S : \E y \in T : Sum(f, T) # f[y] + Sum(f, T \ {y})}
<1>1. SUFFICES ASSUME C # {}
               PROVE  FALSE
  OBVIOUS
<1>2. PICK T \in C : IsFiniteSet(T) /\ \A y \in T : T \ {y} \notin C
  <2>1. C \in SUBSET (SUBSET S)
    OBVIOUS
  <2> HIDE DEF C
  <2> QED
    BY <1>1, <2>1, SmallestSubset
<1>3. PICK y \in T : Sum(f, T) # f[y] + Sum(f, T \ {y})
  BY <1>2
<1> DEFINE p == Pick(T)
<1>4. p \in T /\ Sum(f, T) = f[p] + Sum(f, T \ {p})
  BY <1>2, SumPicks DEF Pick
<1> HIDE DEF p
<1>5. y # p
  BY <1>3, <1>4
<1>6. Sum(f, T \ {p}) = f[y] + Sum(f, (T \ {p}) \ {y})
  <2>1. T \ {p} \notin C /\ T \ {p} \in SUBSET S /\ y \in T \ {p}
    BY <1>2, <1>4, <1>5
  <2> QED
    BY <2>1
<1>7. Sum(f, T \ {y}) = f[p] + Sum(f, (T \ {y}) \ {p})
  <2>1. T \ {y} \notin C /\ T \ {y} \in SUBSET S /\ p \in T \ {y}
    BY <1>2, <1>4, <1>5
  <2> QED
    BY <2>1
<1>8. (T \ {p}) \ {y} = (T \ {y}) \ {p}
  OBVIOUS
<1>9. Sum(f, (T \ {p}) \ {y}) \in Nat
  <2>1. IsFiniteSet((T \ {p}) \ {y}) /\ \A z \in (T \ {p}) \ {y} : f[z] \in Nat
    BY <1>2, FS_Subset
  <2> QED
    BY <2>1, SumType
<1>10. f[p] \in Nat /\ f[y] \in Nat
  BY <1>4
<1> QED
  BY <1>3, <1>4, <1>6, <1>7, <1>8, <1>9, <1>10

(* Nothing adds up to 0.                                                     *)
LEMMA SumEmpty == \A f : Sum(f, {}) = 0
BY SumPicks, FS_EmptySet

(* A sum depends on the values in its set only.                              *)
LEMMA SumCong ==
  ASSUME NEW S, NEW f, NEW g, \A x \in S : f[x] = g[x]
  PROVE  Sum(f, S) = Sum(g, S)
<1>1. ASSUME NEW h
      PROVE  SumsOver(f, S, h) <=> SumsOver(g, S, h)
  <2>1. ASSUME NEW s \in SUBSET S
        PROVE  (IF s = {} THEN 0 ELSE f[Pick(s)] + h[s \ {Pick(s)}])
                 = (IF s = {} THEN 0 ELSE g[Pick(s)] + h[s \ {Pick(s)}])
    BY DEF Pick
  <2> QED
    BY <2>1 DEF SumsOver
<1>2. (CHOOSE h : SumsOver(f, S, h)) = (CHOOSE h : SumsOver(g, S, h))
  BY <1>1
<1> QED
  BY <1>2 DEF Sum

(* A sum over two sets that have nothing in common.                          *)
LEMMA SumUnion ==
  ASSUME NEW A, IsFiniteSet(A), NEW B, IsFiniteSet(B), A \cap B = {},
         NEW f, \A x \in A \cup B : f[x] \in Nat
  PROVE  Sum(f, A \cup B) = Sum(f, A) + Sum(f, B)
<1> DEFINE C == {T \in SUBSET B : Sum(f, A \cup T) # Sum(f, A) + Sum(f, T)}
<1>1. SUFFICES ASSUME C # {}
               PROVE  FALSE
  OBVIOUS
<1>2. PICK T \in C : IsFiniteSet(T) /\ \A x \in T : T \ {x} \notin C
  <2>1. C \in SUBSET (SUBSET B)
    OBVIOUS
  <2> HIDE DEF C
  <2> QED
    BY <1>1, <2>1, SmallestSubset
<1>3. Sum(f, A) \in Nat
  BY SumType
<1>4. PICK x \in T : TRUE
  <2>1. T # {}
    BY <1>2, <1>3, SumEmpty
  <2> QED
    BY <2>1
<1>5. Sum(f, T) = f[x] + Sum(f, T \ {x})
  BY <1>2, SumTakesAny
<1>6. Sum(f, A \cup T) = f[x] + Sum(f, A \cup (T \ {x}))
  <2>1. IsFiniteSet(A \cup T) /\ x \in A \cup T /\ \A y \in A \cup T : f[y] \in Nat
    BY <1>2, <1>4, FS_Union
  <2>2. (A \cup T) \ {x} = A \cup (T \ {x})
    BY <1>2, <1>4
  <2>3. Sum(f, A \cup T) = f[x] + Sum(f, (A \cup T) \ {x})
    BY <2>1, SumTakesAny
  <2> QED
    BY <2>2, <2>3
<1>7. Sum(f, A \cup (T \ {x})) = Sum(f, A) + Sum(f, T \ {x})
  BY <1>2, <1>4
<1>8. f[x] \in Nat /\ Sum(f, T \ {x}) \in Nat
  <2>1. IsFiniteSet(T \ {x}) /\ \A y \in T \ {x} : f[y] \in Nat
    BY <1>2, FS_Subset
  <2> QED
    BY <1>4, <2>1, SumType
<1>9. Sum(f, A \cup T) # Sum(f, A) + Sum(f, T)
  BY <1>2
<1> QED
  BY <1>3, <1>5, <1>6, <1>7, <1>8, <1>9

(* A sum over more is no less.                                               *)
LEMMA SumMonotone ==
  ASSUME NEW S, IsFiniteSet(S), NEW T \in SUBSET S, NEW f, \A x \in S : f[x] \in Nat
  PROVE  Sum(f, T) <= Sum(f, S)
<1>1. IsFiniteSet(T) /\ IsFiniteSet(S \ T) /\ T \cap (S \ T) = {} /\ S = T \cup (S \ T)
  BY FS_Subset
<1>2. Sum(f, T) \in Nat /\ Sum(f, S \ T) \in Nat
  BY <1>1, SumType
<1>3. Sum(f, S) = Sum(f, T) + Sum(f, S \ T)
  BY <1>1, SumUnion
<1> QED
  BY <1>2, <1>3

(* A sum one of whose terms changes.                                         *)
LEMMA SumChanges ==
  ASSUME NEW S, IsFiniteSet(S), NEW f, NEW g, NEW x \in S,
         \A y \in S : f[y] \in Nat /\ g[y] \in Nat,
         \A y \in S : y # x => g[y] = f[y]
  PROVE  Sum(g, S) - g[x] = Sum(f, S) - f[x]
<1>1. Sum(f, S) = f[x] + Sum(f, S \ {x}) /\ Sum(g, S) = g[x] + Sum(g, S \ {x})
  BY SumTakesAny
<1>2. Sum(f, S \ {x}) = Sum(g, S \ {x})
  BY SumCong
<1>3. Sum(f, S \ {x}) \in Nat
  <2>1. IsFiniteSet(S \ {x})
    BY FS_Subset
  <2> QED
    BY <2>1, SumType
<1> QED
  BY <1>1, <1>2, <1>3

(* A sum of zeros.                                                           *)
LEMMA SumOfZeros ==
  ASSUME NEW S, IsFiniteSet(S), NEW f, \A x \in S : f[x] = 0
  PROVE  Sum(f, S) = 0
<1> DEFINE C == {T \in SUBSET S : Sum(f, T) # 0}
<1>1. SUFFICES ASSUME C # {}
               PROVE  FALSE
  OBVIOUS
<1>2. PICK T \in C : IsFiniteSet(T) /\ \A x \in T : T \ {x} \notin C
  <2>1. C \in SUBSET (SUBSET S)
    OBVIOUS
  <2> HIDE DEF C
  <2> QED
    BY <1>1, <2>1, SmallestSubset
<1>3. Sum(f, T) = IF T = {} THEN 0 ELSE f[Pick(T)] + Sum(f, T \ {Pick(T)})
  BY <1>2, SumPicks
<1>4. T # {} => Pick(T) \in T
  BY DEF Pick
<1>5. T # {} => Sum(f, T \ {Pick(T)}) = 0 /\ f[Pick(T)] = 0
  BY <1>2, <1>4
<1> QED
  BY <1>2, <1>3, <1>5

(* Terms that are taken from different places of a sum are no more than it.  *)
LEMMA SumOfSome ==
  ASSUME NEW S, IsFiniteSet(S), NEW f, \A x \in S : f[x] \in Nat,
         NEW T, IsFiniteSet(T), NEW m, \A t \in T : m[t] \in S,
         \A t, u \in T : m[t] = m[u] => t = u,
         NEW g, \A t \in T : g[t] = f[m[t]]
  PROVE  Sum(g, T) <= Sum(f, S)
<1> DEFINE Image(U) == {m[t] : t \in U}
           C == {U \in SUBSET T : Sum(g, U) # Sum(f, Image(U))}
<1>1. ASSUME C # {}
      PROVE  FALSE
  <2>1. PICK U \in C : IsFiniteSet(U) /\ \A t \in U : U \ {t} \notin C
    <3>1. C \in SUBSET (SUBSET T)
      OBVIOUS
    <3> HIDE DEF C
    <3> QED
      BY <1>1, <3>1, SmallestSubset
  <2>2. PICK t \in U : TRUE
    <3>1. CASE U = {}
      <4>1. Image(U) = {}
        BY <3>1
      <4> QED
        BY <2>1, <3>1, <4>1, SumEmpty
    <3> QED
      BY <3>1
  <2>3. Sum(g, U) = g[t] + Sum(g, U \ {t})
    <3>1. \A u \in U : g[u] \in Nat
      OBVIOUS
    <3> QED
      BY <2>1, <3>1, SumTakesAny
  <2>4. /\ Image(U) \ {m[t]} = Image(U \ {t}) /\ m[t] \in Image(U)
        /\ Image(U) \in SUBSET S
    BY <2>2
  <2>5. Sum(f, Image(U)) = f[m[t]] + Sum(f, Image(U \ {t}))
    <3>1. IsFiniteSet(Image(U)) /\ \A x \in Image(U) : f[x] \in Nat
      BY <2>4, FS_Subset
    <3> HIDE DEF Image
    <3>2. Sum(f, Image(U)) = f[m[t]] + Sum(f, Image(U) \ {m[t]})
      BY <2>4, <3>1, SumTakesAny
    <3> QED
      BY <2>4, <3>2
  <2>6. Sum(g, U \ {t}) = Sum(f, Image(U \ {t})) /\ g[t] = f[m[t]]
    BY <2>1, <2>2
  <2> QED
    BY <2>1, <2>3, <2>5, <2>6
<1>2. Sum(g, T) = Sum(f, Image(T))
  BY <1>1
<1>3. Image(T) \in SUBSET S
  OBVIOUS
<1> HIDE DEF Image
<1> QED
  BY <1>2, <1>3, SumMonotone
-----------------------------------------------------------------------------
Entry == [key : Keys, v : 1 .. (Modulus - 1)]

(* While the table has not grown, cap is the number of its entries, so that  *)
(* cap < size promises a free bucket.                                        *)
CapCounts ==
  size = InitialSize =>
    /\ DOMAIN values = 0 .. (size - 1)
    /\ Cardinality(Entries) = cap

WordInv ==
  /\ WordTypeOK
  /\ values \in [Buckets -> Entry \cup {Empty}]
  /\ size >= InitialSize
  /\ CapCounts
  /\ ExactUntilGrowth

(* The remainder of a number that is past one modulus but not past two.      *)
LEMMA ModPastOnce ==
  ASSUME NEW m \in Nat, m > 0, NEW x \in Nat, m <= x, x < m + m
  PROVE  x % m = x - m
OBVIOUS

(* Max of the community modules is a member of a set that is bounded.        *)
LEMMA GreatestNumber ==
  ASSUME NEW n \in Nat, NEW S, S \subseteq 0 .. n, S # {}
  PROVE  Sums!Max(S) \in S
<1> DEFINE T == {n - i : i \in S}
<1>1. T \subseteq Nat /\ T # {}
  <2>1. \A i \in S : n - i \in Nat
    OBVIOUS
  <2>2. PICK i \in S : TRUE
    OBVIOUS
  <2>3. n - i \in T
    OBVIOUS
  <2> QED
    BY <2>1, <2>3
<1>2. PICK t \in T : \A u \in T : t <= u
  BY <1>1, LeastNumber
<1>3. PICK i \in S : t = n - i
  OBVIOUS
<1>4. ASSUME NEW j \in S
      PROVE  i >= j
  <2>1. n - j \in T
    OBVIOUS
  <2>2. n - i <= n - j /\ i \in 0 .. n /\ j \in 0 .. n
    BY <1>2, <1>3, <2>1
  <2> QED
    BY <2>2
<1> QED
  BY <1>4 DEF Sums!Max

(* FirstIn finds a picked bucket of the window.                              *)
LEMMA FirstInPicked ==
  ASSUME NEW w, NEW n \in Nat, DOMAIN w = 0 .. n, NEW picked, Meets(w, picked)
  PROVE  /\ FirstIn(w, picked) \in picked
         /\ \E i \in 0 .. n : FirstIn(w, picked) = w[i]
<1> DEFINE S == {i \in DOMAIN w : w[i] \in picked}
<1>1. S \subseteq Nat /\ S # {}
  BY DEF Meets
<1>2. PICK i \in S : \A j \in S : i <= j
  BY <1>1, LeastNumber
<1> DEFINE P(l) == /\ w[l] \in picked
                   /\ \A j \in DOMAIN w : w[j] \in picked => l <= j
           c == CHOOSE l \in DOMAIN w : P(l)
<1>3. i \in DOMAIN w /\ P(i)
  BY <1>2
<1>4. c \in DOMAIN w /\ P(c)
  <2> HIDE DEF P
  <2> QED
    BY <1>3
<1>5. FirstIn(w, picked) = w[c]
  BY DEF FirstIn
<1> HIDE DEF c
<1> QED
  BY <1>4, <1>5

(* A window stays in the table, and one as long as the table is all of it.   *)
LEMMA WindowBuckets ==
  ASSUME NEW sz \in Nat, sz > 0, NEW start \in Nat
  PROVE  /\ Collision - 1 \in Nat
         /\ DOMAIN Window(start, sz) = 0 .. (Collision - 1)
         /\ \A i \in 0 .. (Collision - 1) : Window(start, sz)[i] \in 0 .. (sz - 1)
<1>1. Collision \in Nat /\ Collision > 0
  BY WordAssumption
<1>2. \A x \in Nat : x % sz \in 0 .. (sz - 1)
  OBVIOUS
<1> QED
  BY <1>1, <1>2 DEF Window

(* A window as long as the table meets every bucket, wherever it starts.     *)
LEMMA WindowIsTable ==
  ASSUME NEW sz \in Nat, sz > 0, Collision = sz, NEW start \in 0 .. (sz - 1),
         NEW j \in 0 .. (sz - 1)
  PROVE  \E i \in DOMAIN Window(start, sz) : Window(start, sz)[i] = j
<1> DEFINE i == IF start <= j THEN j - start ELSE j + sz - start
<1>1. i \in 0 .. (sz - 1)
  OBVIOUS
<1>2. (start + i) % sz = j
  <2>1. CASE start <= j
    <3>1. start + i = j
      BY <2>1
    <3> QED
      BY <3>1
  <2>2. CASE ~(start <= j)
    <3>1. start + i = j + sz
      BY <2>2
    <3>2. (j + sz) % sz = j
      <4>1. j + sz \in Nat /\ sz <= j + sz /\ j + sz < sz + sz
        OBVIOUS
      <4>2. (j + sz) % sz = (j + sz) - sz
        BY <4>1, ModPastOnce
      <4> QED
        BY <4>2
    <3> QED
      BY <3>1, <3>2
  <2> QED
    BY <2>1, <2>2
<1> QED
  BY <1>1, <1>2 DEF Window

(* What find_index returns is an entry whose key begins the word; what get   *)
(* returns is a value that one can be added to, or `not found'.              *)
LEMMA GetFacts ==
  ASSUME WordInv, status = "counting", NEW k \in Keys
  PROVE  /\ size \in Nat /\ size > 0 /\ Home(k) \in 0 .. (size - 1)
         /\ DOMAIN values = 0 .. (size - 1)
         /\ Found(k) => IndexOf(k) \in Hits(k) /\ Get(k) = values[IndexOf(k)].v
         /\ Get(k) # NotFound => Found(k)
         /\ NewValue(k) \in 1 .. (Modulus - 1)
<1>1. size \in Nat /\ size > 0 /\ DOMAIN values = 0 .. (size - 1)
  BY WordAssumption DEF WordInv, WordTypeOK
<1>2. Home(k) \in 0 .. (size - 1)
  <2>1. Hash[k] \in Nat
    BY WordAssumption
  <2> QED
    BY <1>1, <2>1 DEF Home
<1>3. Found(k) => IndexOf(k) \in Hits(k)
  <2>1. Home(k) \in Nat
    BY <1>1, <1>2
  <2>2. /\ Collision - 1 \in Nat
        /\ DOMAIN Window(Home(k), size) = 0 .. (Collision - 1)
    BY <1>1, <2>1, WindowBuckets
  <2> QED
    BY <2>2, FirstInPicked DEF Found, IndexOf
<1>4. Found(k) => Get(k) = values[IndexOf(k)].v
  BY DEF Get
<1>5. Get(k) # NotFound => Found(k)
  BY DEF Get
<1>6. Found(k) => Get(k) \in 1 .. (Modulus - 1)
  <2>1. ASSUME NEW i \in Hits(k)
        PROVE  values[i].v \in 1 .. (Modulus - 1)
    <3>1. i \in Entries
      BY DEF Hits, Entries
    <3>2. values[i] \in [key : Keys, v : 1 .. (Modulus - 1)]
      BY <3>1 DEF WordInv, WordTypeOK
    <3> QED
      BY <3>2
  <2> QED
    BY <1>3, <1>4, <2>1
<1>7. NewValue(k) \in 1 .. (Modulus - 1)
  <2>1. Modulus \in Nat /\ Modulus > 1
    BY WordAssumption
  <2>2. CASE Get(k) = NotFound
    BY <2>1, <2>2 DEF NewValue
  <2>3. CASE Get(k) # NotFound
    <3>1. Get(k) \in 1 .. (Modulus - 1)
      BY <1>5, <1>6, <2>3
    <3> QED
      BY <2>1, <2>3, <3>1 DEF NewValue, NotFound
  <2> QED
    BY <2>2, <2>3
<1> QED
  BY <1>1, <1>2, <1>3, <1>4, <1>5, <1>7

(* insert writes one new entry into a free bucket of the table, or nothing.  *)
LEMMA InsertIntoFacts ==
  ASSUME NEW table, NEW sz \in Nat, sz > 0, table \in [0 .. (sz - 1) -> Entry \cup {Empty}],
         NEW k \in Keys, Home(k) \in Nat, NewValue(k) \in 1 .. (Modulus - 1),
         InsertInto(table, sz, k)
  PROVE  /\ size' = sz
         /\ \/ \E j \in Frees(table) :
                 /\ values' = [table EXCEPT ![j] = [key |-> k, v |-> NewValue(k)]]
                 /\ cap' = cap + 1 /\ UNCHANGED status
            \/ /\ values' = table /\ UNCHANGED cap
               /\ \/ /\ ~Meets(Window(Home(k), sz), Frees(table))
                     /\ status' = "noRoom"
                  \/ status' = "noMemory"
         /\ values' \in [0 .. (sz - 1) -> Entry \cup {Empty}]
<1> DEFINE w == Window(Home(k), sz)
           f == FirstIn(w, Frees(table))
           e == [key |-> k, v |-> NewValue(k)]
<1>1. Collision - 1 \in Nat /\ DOMAIN w = 0 .. (Collision - 1)
  BY WindowBuckets
<1>2. Meets(w, Frees(table)) => f \in Frees(table)
  BY <1>1, FirstInPicked
<1>3. e \in Entry
  BY DEF Entry
<1>4. \/ /\ Meets(w, Frees(table))
         /\ values' = [table EXCEPT ![f] = e]
         /\ cap' = cap + 1 /\ UNCHANGED status
      \/ /\ ~Meets(w, Frees(table))
         /\ values' = table /\ status' = "noRoom" /\ UNCHANGED cap
      \/ values' = table /\ status' = "noMemory" /\ UNCHANGED cap
  BY DEF InsertInto
<1>5. size' = sz
  BY DEF InsertInto
<1> HIDE DEF w, f, e
<1>6. values' \in [0 .. (sz - 1) -> Entry \cup {Empty}]
  BY <1>3, <1>4
<1>7. \/ \E j \in Frees(table) :
           /\ values' = [table EXCEPT ![j] = e]
           /\ cap' = cap + 1 /\ UNCHANGED status
      \/ /\ values' = table /\ UNCHANGED cap
         /\ \/ ~Meets(w, Frees(table)) /\ status' = "noRoom"
            \/ status' = "noMemory"
  BY <1>2, <1>4
<1> QED
  BY <1>5, <1>6, <1>7 DEF w, e

(* Growth moves the entries into a table twice as large and makes no others. *)
LEMMA GrownTyped ==
  ASSUME size \in Nat, size > 0, DOMAIN values = 0 .. (size - 1),
         values \in [Buckets -> Entry \cup {Empty}]
  PROVE  Grown \in [0 .. (2 * size - 1) -> Entry \cup {Empty}]
<1> DEFINE same(j) == {i \in Buckets : values[i] # Empty /\ GrownHome(i) = j}
<1>1. ASSUME NEW j \in 0 .. (2 * size - 1), same(j) # {}
      PROVE  values[Sums!Max(same(j))] \in Entry \cup {Empty}
  <2>1. same(j) \subseteq 0 .. (size - 1) /\ size - 1 \in Nat
    BY DEF Buckets
  <2>2. Sums!Max(same(j)) \in same(j)
    <3> HIDE DEF same
    <3> QED
      BY <1>1, <2>1, GreatestNumber
  <2> QED
    BY <2>2
<1>2. Grown = [j \in 0 .. (2 * size - 1) |->
                 IF same(j) = {} THEN Empty ELSE values[Sums!Max(same(j))]]
  BY DEF Grown, NoEntry
<1> HIDE DEF same
<1> QED
  BY <1>1, <1>2

(* The types of what a step leaves.                                          *)
LEMMA WordTypes ==
  ASSUME WordInv, [WordNext]_wordVars
  PROVE  /\ WordTypeOK' /\ values' \in [Buckets -> Entry \cup {Empty}]'
         /\ size' >= InitialSize
         /\ \A k \in Keys : count'[k] >= count[k]
<1> DEFINE Kinds == {"counting", "reported", "noRoom", "noMemory"}
<1>1. /\ size \in Nat /\ size > 0 /\ size >= InitialSize /\ InitialSize \in Nat
      /\ cap \in 0 .. size /\ count \in [Keys -> Nat] /\ collided \in BOOLEAN
      /\ values \in [Buckets -> Entry \cup {Empty}] /\ status \in Kinds
      /\ status # "noMemory" => DOMAIN values = 0 .. (size - 1)
  BY WordAssumption DEF WordInv, WordTypeOK
<1>0. collided' \in BOOLEAN
  BY <1>1 DEF WordNext, Replace, Insert, GrowAndInsert, GrowFails, ReportWords, Ended, wordVars
<1>2. SUFFICES /\ size' \in Nat /\ size' >= InitialSize /\ cap' \in 0 .. size'
               /\ count' \in [Keys -> Nat] /\ \A k \in Keys : count'[k] >= count[k]
               /\ values' \in [DOMAIN values' -> Entry \cup {Empty}]
               /\ status' \in Kinds
               /\ status' # "noMemory" => DOMAIN values' = 0 .. (size' - 1)
  BY <1>0 DEF WordTypeOK, Entries, Buckets, Entry
<1>3. CASE UNCHANGED <<values, size, cap, count>> /\ status' \in {status, "reported"}
            /\ (status' # status => status = "counting")
  BY <1>1, <1>3 DEF Buckets
<1>4. ASSUME NEW k \in Keys, Read(k)
      PROVE  count' \in [Keys -> Nat] /\ \A j \in Keys : count'[j] >= count[j]
  BY <1>1, <1>4 DEF Read
<1>5. ASSUME NEW k \in Keys, Replace(k)
      PROVE  /\ UNCHANGED <<size, cap, status>> /\ DOMAIN values' = DOMAIN values
             /\ values' \in [DOMAIN values' -> Entry \cup {Empty}]
  <2>1. /\ Read(k) /\ Get(k) # NotFound /\ status = "counting"
        /\ values' = [values EXCEPT ![IndexOf(k)].v = NewValue(k)]
        /\ UNCHANGED <<size, cap, status>>
    BY <1>5 DEF Replace, Read
  <2>2. IndexOf(k) \in Hits(k) /\ NewValue(k) \in 1 .. (Modulus - 1)
    BY <2>1, GetFacts
  <2>3. values[IndexOf(k)] \in Entry
    BY <1>1, <2>2 DEF Hits
  <2>4. [values[IndexOf(k)] EXCEPT !.v = NewValue(k)] \in Entry
    BY <2>2, <2>3 DEF Entry
  <2> QED
    BY <1>1, <2>1, <2>4 DEF Buckets
<1>6. ASSUME NEW k \in Keys, Insert(k) \/ GrowAndInsert(k)
      PROVE  /\ size' \in Nat /\ size' >= InitialSize /\ cap' \in 0 .. size'
             /\ values' \in [DOMAIN values' -> Entry \cup {Empty}]
             /\ status' \in Kinds /\ DOMAIN values' = 0 .. (size' - 1)
  <2>1. /\ status = "counting" /\ DOMAIN values = 0 .. (size - 1)
        /\ Home(k) \in Nat /\ NewValue(k) \in 1 .. (Modulus - 1)
    BY <1>6, GetFacts DEF Insert, GrowAndInsert, Read
  <2>2. ASSUME NEW table, NEW sz \in Nat, sz >= size, cap + 1 <= sz,
               table \in [0 .. (sz - 1) -> Entry \cup {Empty}],
               InsertInto(table, sz, k)
        PROVE  /\ size' \in Nat /\ size' >= InitialSize /\ cap' \in 0 .. size'
               /\ values' \in [DOMAIN values' -> Entry \cup {Empty}]
               /\ status' \in Kinds /\ DOMAIN values' = 0 .. (size' - 1)
    <3>1. /\ size' = sz /\ cap' \in {cap, cap + 1}
          /\ status' \in {status, "noRoom", "noMemory"}
          /\ values' \in [0 .. (sz - 1) -> Entry \cup {Empty}]
      <4>1. sz > 0
        BY <1>1, <2>1, <2>2
      <4>2. /\ size' = sz /\ values' \in [0 .. (sz - 1) -> Entry \cup {Empty}]
            /\ \/ cap' = cap + 1 /\ UNCHANGED status
               \/ UNCHANGED cap /\ status' \in {"noRoom", "noMemory"}
        BY <2>1, <2>2, <4>1, InsertIntoFacts, SMTT(40)
      <4> QED
        BY <4>2
    <3>2. DOMAIN values' = 0 .. (sz - 1)
      BY <3>1
    <3> QED
      BY <1>1, <2>1, <2>2, <3>1, <3>2
  <2>3. CASE Insert(k)
    <3>1. /\ cap + 1 <= size /\ InsertInto(values, size, k)
          /\ values \in [0 .. (size - 1) -> Entry \cup {Empty}]
      BY <1>1, <2>1, <2>3 DEF Insert, Buckets
    <3> QED
      BY <1>1, <2>2, <3>1
  <2>4. CASE GrowAndInsert(k)
    <3>1. 2 * size \in Nat /\ 2 * size >= size /\ cap + 1 <= 2 * size
      BY <1>1
    <3>2. Grown \in [0 .. (2 * size - 1) -> Entry \cup {Empty}]
      BY <1>1, <2>1, GrownTyped
    <3>3. InsertInto(Grown, 2 * size, k)
      BY <2>4 DEF GrowAndInsert
    <3> HIDE DEF Kinds
    <3> QED
      BY <2>2, <3>1, <3>2, <3>3
  <2> QED
    BY <1>6, <2>3, <2>4
<1>7. ASSUME NEW k \in Keys, GrowFails(k)
      PROVE  /\ UNCHANGED <<values, cap>> /\ size' = 2 * size /\ status' = "noMemory"
  BY <1>7 DEF GrowFails, FailureSeen
<1>8. \/ UNCHANGED <<values, size, cap, count>> /\ status' \in {status, "reported"}
         /\ (status' # status => status = "counting")
      \/ \E k \in Keys : Replace(k) \/ Insert(k) \/ GrowAndInsert(k) \/ GrowFails(k)
  BY DEF WordNext, ReportWords, Ended, wordVars
<1>9. ASSUME NEW k \in Keys, Replace(k) \/ Insert(k) \/ GrowAndInsert(k) \/ GrowFails(k)
      PROVE  Read(k)
  BY <1>9 DEF Replace, Insert, GrowAndInsert, GrowFails
<1> QED
  BY <1>1, <1>3, <1>4, <1>5, <1>6, <1>7, <1>8, <1>9 DEF Buckets

(* What a step can do to a table that has not grown after it: it had not     *)
(* grown before either, and the step stays outside the table, raises one     *)
(* value, fills one free bucket, or fails.                                   *)
LEMMA BeforeGrowth ==
  ASSUME WordInv, [WordNext]_wordVars, size' = InitialSize
  PROVE  /\ size = InitialSize
         /\ \/ /\ UNCHANGED <<values, cap, count>>
               /\ status' = status \/ (status = "counting" /\ status' = "reported")
            \/ \E k \in Keys :
                 /\ Read(k)
                 /\ \/ /\ \E i \in Hits(k) :
                            /\ Get(k) # NotFound /\ Get(k) = values[i].v
                            /\ values' = [values EXCEPT ![i].v = Get(k) + 1]
                       /\ UNCHANGED <<cap, status>>
                    \/ /\ Get(k) = NotFound
                       /\ \E j \in Frees(values) :
                            values' = [values EXCEPT ![j] = [key |-> k, v |-> 1]]
                       /\ cap' = cap + 1 /\ UNCHANGED status
                    \/ /\ Get(k) = NotFound /\ cap + 1 <= size
                       /\ UNCHANGED <<values, cap>>
                       /\ \/ /\ ~Meets(Window(Home(k), size), Frees(values))
                             /\ status' = "noRoom"
                          \/ status' = "noMemory"
<1>1. /\ size \in Nat /\ size > 0 /\ size >= InitialSize /\ InitialSize \in Nat
      /\ values \in [Buckets -> Entry \cup {Empty}]
  BY WordAssumption DEF WordInv, WordTypeOK
<1>2. ASSUME NEW k \in Keys, Replace(k)
      PROVE  /\ size' = size /\ Read(k) /\ UNCHANGED <<cap, status>>
             /\ \E i \in Hits(k) : /\ Get(k) # NotFound /\ Get(k) = values[i].v
                                   /\ values' = [values EXCEPT ![i].v = Get(k) + 1]
  <2>1. /\ Read(k) /\ status = "counting" /\ Get(k) # NotFound
        /\ values' = [values EXCEPT ![IndexOf(k)].v = Get(k) + 1]
        /\ UNCHANGED <<size, cap, status>>
    BY <1>2 DEF Replace, Read, NewValue
  <2>2. IndexOf(k) \in Hits(k) /\ Get(k) = values[IndexOf(k)].v
    BY <2>1, GetFacts
  <2> QED
    BY <2>1, <2>2
<1>3. ASSUME NEW k \in Keys, Insert(k)
      PROVE  /\ size' = size /\ Read(k) /\ Get(k) = NotFound /\ cap + 1 <= size
             /\ \/ /\ \E j \in Frees(values) :
                        values' = [values EXCEPT ![j] = [key |-> k, v |-> 1]]
                   /\ cap' = cap + 1 /\ UNCHANGED status
                \/ /\ UNCHANGED <<values, cap>>
                   /\ \/ /\ ~Meets(Window(Home(k), size), Frees(values))
                         /\ status' = "noRoom"
                      \/ status' = "noMemory"
  <2>1. /\ Read(k) /\ status = "counting" /\ Get(k) = NotFound /\ cap + 1 <= size
        /\ InsertInto(values, size, k) /\ NewValue(k) = 1
    BY <1>3 DEF Insert, Read, NewValue
  <2>2. /\ values \in [0 .. (size - 1) -> Entry \cup {Empty}]
        /\ Home(k) \in Nat /\ NewValue(k) \in 1 .. (Modulus - 1)
    BY <1>1, <2>1, GetFacts DEF Buckets
  <2>3. /\ size' = size
        /\ \/ \E j \in Frees(values) :
                /\ values' = [values EXCEPT ![j] = [key |-> k, v |-> NewValue(k)]]
                /\ cap' = cap + 1 /\ UNCHANGED status
           \/ /\ values' = values /\ UNCHANGED cap
              /\ \/ /\ ~Meets(Window(Home(k), size), Frees(values))
                    /\ status' = "noRoom"
                 \/ status' = "noMemory"
    BY <1>1, <2>1, <2>2, InsertIntoFacts
  <2> QED
    BY <2>1, <2>3
<1>4. ASSUME NEW k \in Keys, GrowAndInsert(k) \/ GrowFails(k)
      PROVE  FALSE
  <2>1. size' = 2 * size
    BY <1>4 DEF GrowAndInsert, InsertInto, GrowFails
  <2> QED
    BY <1>1, <2>1
<1>5. CASE ReportWords \/ Ended \/ UNCHANGED wordVars
  BY <1>5 DEF ReportWords, Ended, wordVars
<1>6. ReportWords \/ Ended \/ UNCHANGED wordVars
      \/ \E k \in Keys : Replace(k) \/ Insert(k) \/ GrowAndInsert(k) \/ GrowFails(k)
  BY DEF WordNext
<1> QED
  BY <1>2, <1>3, <1>4, <1>5, <1>6

(* An insert fills one free bucket and adds one to cap.                      *)
LEMMA CapStep ==
  ASSUME WordInv, [WordNext]_wordVars
  PROVE  CapCounts'
<1> SUFFICES ASSUME size' = InitialSize
             PROVE  DOMAIN values' = 0 .. (size' - 1) /\ Cardinality(Entries') = cap'
  BY DEF CapCounts
<1>1. /\ size = InitialSize /\ size \in Nat /\ cap \in Nat
      /\ DOMAIN values = 0 .. (size - 1) /\ Cardinality(Entries) = cap
      /\ values \in [Buckets -> Entry \cup {Empty}]
  BY BeforeGrowth DEF WordInv, CapCounts, WordTypeOK
<1>2. IsFiniteSet(Entries)
  <2>1. IsFiniteSet(0 .. (size - 1))
    BY <1>1, FS_Interval
  <2>2. Entries \subseteq 0 .. (size - 1)
    BY <1>1 DEF Entries, Buckets
  <2> QED
    BY <2>1, <2>2, FS_Subset
<1>3. CASE UNCHANGED <<values, cap>>
  BY <1>1, <1>3 DEF Entries, Buckets
<1>4. ASSUME NEW k \in Keys, NEW i \in Hits(k), UNCHANGED cap,
             Get(k) # NotFound, Get(k) = values[i].v,
             values' = [values EXCEPT ![i].v = Get(k) + 1]
      PROVE  DOMAIN values' = DOMAIN values /\ Entries' = Entries
  <2>1. values[i] \in Entry /\ i \in DOMAIN values
    BY <1>1, <1>4 DEF Hits, Buckets
  <2>2. values'[i] \in Entry
    <3>1. /\ values'[i] = [values[i] EXCEPT !.v = Get(k) + 1]
          /\ Get(k) \in 1 .. (Modulus - 1) /\ Modulus \in Nat
      BY <1>4, <2>1, WordAssumption DEF Entry
    <3>2. Get(k) + 1 \in 1 .. (Modulus - 1)
      BY <1>4, <3>1 DEF NotFound
    <3> QED
      BY <2>1, <3>1, <3>2 DEF Entry
  <2> QED
    BY <1>4, <2>1, <2>2, WordAssumption DEF Entries, Hits, Buckets, Entry
<1>5. ASSUME NEW k \in Keys, NEW j \in Frees(values), cap' = cap + 1,
             values' = [values EXCEPT ![j] = [key |-> k, v |-> 1]]
      PROVE  DOMAIN values' = DOMAIN values /\ Cardinality(Entries') = cap'
  <2>1. j \in DOMAIN values /\ j \notin Entries
    BY DEF Frees, Entries
  <2>2. [key |-> k, v |-> 1] # Empty
    BY WordAssumption
  <2>3. Entries' = Entries \cup {j}
    BY <1>5, <2>1, <2>2 DEF Entries, Buckets
  <2>4. Cardinality(Entries \cup {j}) = Cardinality(Entries) + 1
    BY <1>2, <2>1, FS_AddElement
  <2> QED
    BY <1>1, <1>5, <2>3, <2>4
<1> QED
  BY <1>1, <1>3, <1>4, <1>5, BeforeGrowth

(* Where probing reaches every bucket, find_index finds a word that has an   *)
(* entry and no other one, and get returns how often main has read it.       *)
LEMMA GetIsCount ==
  ASSUME WordInv, status = "counting", size = InitialSize, Collision = size,
         Distinguishable, NEW k \in Keys,
         \A j \in WordsRead : <<j, k>> \in Prefixes => j = k
  PROVE  /\ Hits(k) = EntriesOf(k)
         /\ count[k] = 0 => EntriesOf(k) = {} /\ Get(k) = NotFound
         /\ count[k] # 0 => Get(k) # NotFound /\ Get(k) = count[k]
<1>1. /\ values \in [Buckets -> Entry \cup {Empty}] /\ count \in [Keys -> Nat]
      /\ size \in Nat /\ size > 0 /\ Home(k) \in 0 .. (size - 1)
      /\ DOMAIN values = 0 .. (size - 1)
  BY GetFacts DEF WordInv, WordTypeOK
<1>2. \A j \in Keys :
        IF count[j] = 0 THEN EntriesOf(j) = {}
        ELSE \E i \in Buckets : EntriesOf(j) = {i} /\ values[i].v = count[j]
  BY DEF WordInv, ExactUntilGrowth
<1>3. Hits(k) = EntriesOf(k)
  <2>1. ASSUME NEW i \in Hits(k)
        PROVE  i \in EntriesOf(k)
    <3>1. /\ i \in Entries /\ values[i].key \in Keys
          /\ <<values[i].key, k>> \in Prefixes
      BY <1>1 DEF Hits, Entries, Entry
    <3>2. i \in EntriesOf(values[i].key)
      BY <3>1 DEF EntriesOf
    <3>3. count[values[i].key] # 0
      BY <1>2, <3>1, <3>2
    <3>4. values[i].key \in WordsRead
      BY <1>1, <3>1, <3>3 DEF WordsRead
    <3> QED
      BY <3>1, <3>4 DEF EntriesOf
  <2>2. EntriesOf(k) \subseteq Hits(k)
    BY WordAssumption DEF EntriesOf, Entries, Hits
  <2> QED
    BY <2>1, <2>2
<1>4. CASE count[k] = 0
  <2>1. EntriesOf(k) = {}
    BY <1>2, <1>4
  <2>2. ~Found(k)
    BY <1>3, <2>1 DEF Found, Meets
  <2> QED
    BY <1>3, <1>4, <2>1, <2>2 DEF Get
<1>5. CASE count[k] # 0
  <2>1. PICK i \in Buckets : EntriesOf(k) = {i} /\ values[i].v = count[k]
    BY <1>2, <1>5
  <2>2. i \in 0 .. (size - 1)
    BY <1>1 DEF Buckets
  <2>3. \E l \in DOMAIN Window(Home(k), size) : Window(Home(k), size)[l] = i
    BY <1>1, <2>2, WindowIsTable
  <2>4. Found(k)
    BY <1>3, <2>1, <2>3 DEF Found, Meets
  <2>5. IndexOf(k) = i /\ Get(k) = count[k]
    BY <1>3, <2>1, <2>4, GetFacts
  <2>6. count[k] < NotFound /\ count[k] \in Nat
    BY <1>1 DEF Distinguishable
  <2>7. NotFound \in Nat
    BY WordAssumption DEF NotFound
  <2> QED
    BY <1>3, <1>5, <2>5, <2>6, <2>7
<1> QED
  BY <1>4, <1>5

(* A table with fewer entries than buckets has a free one, and probing that  *)
(* reaches every bucket meets it.                                            *)
LEMMA RoomLeft ==
  ASSUME WordInv, size = InitialSize, Collision = size, cap + 1 <= size,
         NEW start \in 0 .. (size - 1)
  PROVE  Meets(Window(start, size), Frees(values))
<1>1. /\ size \in Nat /\ size > 0 /\ cap \in Nat
      /\ DOMAIN values = 0 .. (size - 1) /\ Cardinality(Entries) = cap
  BY WordAssumption DEF WordInv, CapCounts, WordTypeOK
<1>2. Cardinality(0 .. (size - 1)) = size
  BY <1>1, FS_Interval
<1>3. PICK j \in 0 .. (size - 1) : values[j] = Empty
  <2>1. ASSUME \A j \in 0 .. (size - 1) : values[j] # Empty
        PROVE  FALSE
    <3>1. Entries = 0 .. (size - 1)
      BY <1>1, <2>1 DEF Entries, Buckets
    <3> QED
      BY <1>1, <1>2, <3>1
  <2> QED
    BY <2>1
<1>4. j \in Frees(values)
  BY <1>1, <1>3 DEF Frees
<1>5. \E i \in DOMAIN Window(start, size) : Window(start, size)[i] = j
  BY <1>1, WindowIsTable
<1> QED
  BY <1>4, <1>5 DEF Meets

(* A put changes the entry of the word it is for and leaves the others.      *)
LEMMA ExactStep ==
  ASSUME WordInv, [WordNext]_wordVars
  PROVE  ExactUntilGrowth'
<1> DEFINE Exact == \A j \in Keys :
             IF count[j] = 0 THEN EntriesOf(j) = {}
             ELSE \E i \in Buckets : EntriesOf(j) = {i} /\ values[i].v = count[j]
<1> SUFFICES ASSUME size' = InitialSize, Collision = size', Distinguishable'
             PROVE  status' # "noRoom" /\ (status' # "noMemory" => Exact')
  BY DEF ExactUntilGrowth
<1>1. /\ size = InitialSize /\ size \in Nat /\ size > 0
      /\ values \in [Buckets -> Entry \cup {Empty}]
      /\ count \in [Keys -> Nat] /\ count' \in [Keys -> Nat]
      /\ \A j \in Keys : count'[j] >= count[j]
      /\ NotFound \in Nat
  BY BeforeGrowth, WordTypes, WordAssumption, SMTT(40) DEF WordInv, WordTypeOK, NotFound
<1>2. WordsRead \subseteq WordsRead'
  BY <1>1 DEF WordsRead
<1>3. Distinguishable
  BY <1>1, <1>2 DEF Distinguishable
<1>4. status # "noRoom" /\ (status # "noMemory" => Exact)
  BY <1>1, <1>3 DEF WordInv, ExactUntilGrowth
<1>5. CASE UNCHANGED <<values, cap, count>>
           /\ (status' = status \/ (status = "counting" /\ status' = "reported"))
  <2>1. Exact => Exact'
    BY <1>5 DEF EntriesOf, Entries, Buckets
  <2> QED
    BY <1>4, <1>5, <2>1
<1>6. ASSUME NEW k \in Keys, Read(k)
      PROVE  /\ status = "counting" /\ Exact
             /\ count' = [count EXCEPT ![k] = @ + 1] /\ count'[k] = count[k] + 1
             /\ Hits(k) = EntriesOf(k)
             /\ count[k] = 0 => EntriesOf(k) = {} /\ Get(k) = NotFound
             /\ count[k] # 0 => Get(k) # NotFound /\ Get(k) = count[k]
  <2>1. /\ status = "counting" /\ count' = [count EXCEPT ![k] = @ + 1]
        /\ count'[k] = count[k] + 1
    BY <1>1, <1>6 DEF Read
  <2>2. k \in WordsRead'
    BY <1>1, <2>1 DEF WordsRead
  <2>3. \A j \in WordsRead : <<j, k>> \in Prefixes => j = k
    BY <1>2, <2>2 DEF Distinguishable
  <2> QED
    BY <1>1, <1>3, <1>4, <2>1, <2>3, GetIsCount
<1>7. ASSUME NEW k \in Keys, Read(k), NEW i \in Hits(k), UNCHANGED status,
             Get(k) # NotFound, values' = [values EXCEPT ![i].v = Get(k) + 1]
      PROVE  status' # "noRoom" /\ Exact'
  <2>1. /\ i \in EntriesOf(k) /\ count[k] # 0 /\ Get(k) = count[k]
        /\ i \in DOMAIN values /\ values[i] \in Entry /\ values[i].key = k
    BY <1>1, <1>6, <1>7 DEF EntriesOf, Entries, Buckets
  <2>2. EntriesOf(k) = {i}
    BY <1>6, <1>7, <2>1
  <2>3. /\ values'[i] = [key |-> k, v |-> count[k] + 1]
        /\ DOMAIN values' = DOMAIN values
        /\ \A l \in DOMAIN values : l # i => values'[l] = values[l]
    BY <1>7, <2>1 DEF Entry
  <2>4. values'[i] # Empty
    <3>1. count[k] + 1 \in 1 .. (Modulus - 1)
      BY <1>1, <1>6, <1>7, WordAssumption DEF Distinguishable, NotFound
    <3> QED
      BY <2>3, <3>1, WordAssumption
  <2>5. EntriesOf(k)' = {i} /\ values'[i].v = count'[k] /\ count'[k] # 0
    BY <1>1, <1>6, <1>7, <2>2, <2>3, <2>4 DEF EntriesOf, Entries, Buckets
  <2>6. ASSUME NEW j \in Keys, j # k
        PROVE  /\ count'[j] = count[j] /\ EntriesOf(j)' = EntriesOf(j)
               /\ i \notin EntriesOf(j)
    BY <1>1, <1>6, <1>7, <2>1, <2>3, <2>6 DEF EntriesOf, Entries, Buckets
  <2>7. ASSUME NEW j \in Keys
        PROVE  IF count'[j] = 0 THEN EntriesOf(j)' = {}
               ELSE \E l \in DOMAIN values : EntriesOf(j)' = {l} /\ values'[l].v = count'[j]
    <3>1. CASE j = k
      BY <2>1, <2>5, <3>1
    <3>2. CASE j # k
      BY <1>6, <1>7, <2>3, <2>6, <3>2 DEF Buckets
    <3> QED
      BY <3>1, <3>2
  <2> QED
    BY <1>4, <1>7, <2>3, <2>7 DEF Buckets
<1>8. ASSUME NEW k \in Keys, Read(k), NEW i \in Frees(values), UNCHANGED status,
             Get(k) = NotFound,
             values' = [values EXCEPT ![i] = [key |-> k, v |-> 1]]
      PROVE  status' # "noRoom" /\ Exact'
  <2>1. count[k] = 0 /\ EntriesOf(k) = {} /\ i \in DOMAIN values /\ values[i] = Empty
    BY <1>6, <1>8 DEF Frees
  <2>2. /\ values'[i] = [key |-> k, v |-> 1] /\ values'[i] # Empty
        /\ DOMAIN values' = DOMAIN values
        /\ \A l \in DOMAIN values : l # i => values'[l] = values[l]
    BY <1>8, <2>1, WordAssumption
  <2>3. EntriesOf(k)' = {i} /\ values'[i].v = count'[k] /\ count'[k] # 0
    BY <1>6, <1>8, <2>1, <2>2 DEF EntriesOf, Entries, Buckets
  <2>4. ASSUME NEW j \in Keys, j # k
        PROVE  /\ count'[j] = count[j] /\ EntriesOf(j)' = EntriesOf(j)
               /\ i \notin EntriesOf(j)
    BY <1>1, <1>6, <1>8, <2>1, <2>2, <2>4 DEF EntriesOf, Entries, Buckets
  <2>5. ASSUME NEW j \in Keys
        PROVE  IF count'[j] = 0 THEN EntriesOf(j)' = {}
               ELSE \E l \in DOMAIN values : EntriesOf(j)' = {l} /\ values'[l].v = count'[j]
    <3>1. CASE j = k
      BY <2>1, <2>3, <3>1
    <3>2. CASE j # k
      BY <1>6, <1>8, <2>2, <2>4, <3>2 DEF Buckets
    <3> QED
      BY <3>1, <3>2
  <2> QED
    BY <1>4, <1>8, <2>2, <2>5 DEF Buckets
<1>9. ASSUME NEW k \in Keys, Read(k), cap + 1 <= size,
             ~Meets(Window(Home(k), size), Frees(values))
      PROVE  FALSE
  <2>1. Home(k) \in 0 .. (size - 1)
    BY <1>6, <1>9, GetFacts
  <2> QED
    BY <1>1, <1>9, <2>1, RoomLeft
<1> HIDE DEF Exact
<1> QED
  BY <1>5, <1>7, <1>8, <1>9, BeforeGrowth
-----------------------------------------------------------------------------
(* WordInv holds when the table has been created, and every word keeps it.   *)
LEMMA WordInvariance == WordSpec => []WordInv
<1>1. WordInit => WordInv
  <2> SUFFICES ASSUME WordInit
               PROVE  WordInv
    OBVIOUS
  <2>1. /\ InitialSize \in Nat /\ InitialSize > 0
        /\ values = [i \in 0 .. (InitialSize - 1) |-> Empty]
        /\ size = InitialSize /\ cap = 0 /\ status = "counting"
        /\ count = [k \in Keys |-> 0] /\ collided = FALSE
    BY WordAssumption DEF WordInit
  <2>2. Entries = {} /\ \A k \in Keys : EntriesOf(k) = {}
    BY <2>1 DEF Entries, EntriesOf, Buckets
  <2>3. Cardinality(Entries) = 0
    BY <2>2, FS_EmptySet
  <2>4. WordTypeOK /\ CapCounts /\ values \in [Buckets -> Entry \cup {Empty}]
    <3>1. collided \in BOOLEAN
      BY <2>1
    <3> QED
      BY <2>1, <2>2, <2>3, <3>1 DEF WordTypeOK, CapCounts, Buckets
  <2>5. ExactUntilGrowth
    BY <2>1, <2>2 DEF ExactUntilGrowth
  <2> QED
    BY <2>1, <2>4, <2>5 DEF WordInv
<1>2. WordInv /\ [WordNext]_wordVars => WordInv'
  BY WordTypes, CapStep, ExactStep DEF WordInv
<1> QED
  BY <1>1, <1>2, PTL DEF WordSpec

(* The buckets of hw3's table hold words with counts that fit a uint32_t,    *)
(* and the table is as long as its size field says while main counts.        *)
THEOREM WordTypeCorrect == WordSpec => []WordTypeOK
<1>1. WordInv => WordTypeOK
  BY DEF WordInv
<1> QED
  BY <1>1, WordInvariance, PTL

(* Until the table first grows, every word has one entry with its count and  *)
(* insert finds a free bucket, for every hash function and table size.       *)
THEOREM WordCorrect == WordSpec => []ExactUntilGrowth
<1>1. WordInv => ExactUntilGrowth
  BY DEF WordInv
<1> QED
  BY <1>1, WordInvariance, PTL
-----------------------------------------------------------------------------
(* What the buckets of a table count for some words: nothing for those that  *)
(* are empty or another word's.                                              *)
CountsFor(table, i, T) == table[i] # Empty /\ table[i].key \in T
ValuesOf(table, T) ==
  [i \in DOMAIN table |-> IF CountsFor(table, i, T) THEN table[i].v ELSE 0]
TotalOf(table, T) == Sum(ValuesOf(table, T), DOMAIN table)

(* Their values never exceed the number of words read that begin with one of *)
(* the words.                                                                *)
NoneTwice ==
  \A T \in SUBSET Keys : TotalOf(values, T) <= Sum(count, Continuations(T))

(* Unless growth overwrote an entry, a word read is counted in an entry whose*)
(* key it begins with.                                                       *)
NoneLost ==
  ~collided /\ status \in {"counting", "reported"} =>
    \A T \in SUBSET Keys : Sum(count, T) <= TotalOf(values, Beginnings(T))

Tallied == IsFiniteSet(Buckets) /\ NoneTwice /\ NoneLost

(* The sum that Claimed speaks of.                                           *)
LEMMA EntriesSum ==
  ASSUME NEW table, NEW S
  PROVE  Sums!MapThenSumSet(LAMBDA i : table[i].v, S)
           = Sum([i \in S |-> table[i].v], S)
<1> DEFINE f == [i \in S |-> table[i].v]
           P(g) == g = [s \in SUBSET S |->
                          IF s = {} THEN 0 ELSE table[Pick(s)].v + g[s \ {Pick(s)}]]
<1>1. Sums!MapThenSumSet(LAMBDA i : table[i].v, S) = (CHOOSE g : P(g))[S]
  BY DEF Sums!MapThenSumSet, Sums!MapThenFoldSet, Pick
<1>2. ASSUME NEW g
      PROVE  P(g) <=> SumsOver(f, S, g)
  <2>1. ASSUME NEW s \in SUBSET S
        PROVE  (IF s = {} THEN 0 ELSE table[Pick(s)].v + g[s \ {Pick(s)}])
                 = (IF s = {} THEN 0 ELSE f[Pick(s)] + g[s \ {Pick(s)}])
    BY DEF Pick
  <2> HIDE DEF f
  <2> QED
    BY <2>1 DEF SumsOver
<1> HIDE DEF P, f
<1>3. (CHOOSE g : P(g)) = (CHOOSE g : SumsOver(f, S, g))
  BY <1>2
<1> QED
  BY <1>1, <1>3 DEF Sum, f

(* The values of a typed table are numbers.                                  *)
LEMMA ValuesTyped ==
  ASSUME NEW B, NEW table \in [B -> Entry \cup {Empty}], IsFiniteSet(B), NEW T
  PROVE  /\ DOMAIN table = B
         /\ \A i \in B : ValuesOf(table, T)[i] \in Nat
         /\ TotalOf(table, T) = Sum(ValuesOf(table, T), B)
         /\ TotalOf(table, T) \in Nat
<1>1. Modulus \in Nat /\ DOMAIN table = B
  BY WordAssumption
<1>2. \A i \in B : table[i] # Empty => table[i].v \in Nat
  BY <1>1 DEF Entry
<1>3. \A i \in B : ValuesOf(table, T)[i] \in Nat
  BY <1>1, <1>2 DEF ValuesOf, CountsFor
<1> QED
  BY <1>1, <1>3, SumType DEF TotalOf

(* A sum changes by what one of its terms does.                              *)
LEMMA OneValueChanges ==
  ASSUME NEW B, IsFiniteSet(B), NEW i \in B, NEW T,
         NEW old \in [B -> Entry \cup {Empty}], NEW new \in [B -> Entry \cup {Empty}],
         \A j \in B : j # i => new[j] = old[j]
  PROVE  TotalOf(new, T) - ValuesOf(new, T)[i] = TotalOf(old, T) - ValuesOf(old, T)[i]
<1>1. /\ DOMAIN old = B /\ DOMAIN new = B
      /\ \A j \in B : ValuesOf(old, T)[j] \in Nat /\ ValuesOf(new, T)[j] \in Nat
      /\ TotalOf(old, T) = Sum(ValuesOf(old, T), B)
      /\ TotalOf(new, T) = Sum(ValuesOf(new, T), B)
  BY ValuesTyped
<1>2. \A j \in B : j # i => ValuesOf(new, T)[j] = ValuesOf(old, T)[j]
  BY <1>1 DEF ValuesOf, CountsFor
<1> QED
  BY <1>1, <1>2, SumChanges

(* Growth lets entries be overwritten, but copies none of them twice; and    *)
(* where no two meet, it keeps them all.                                     *)
LEMMA GrownSum ==
  ASSUME size \in Nat, size > 0, DOMAIN values = 0 .. (size - 1),
         values \in [Buckets -> Entry \cup {Empty}], NEW S
  PROVE  /\ TotalOf(Grown, S) <= TotalOf(values, S)
         /\ ~Collides => TotalOf(Grown, S) = TotalOf(values, S)
<1> DEFINE same(j) == {i \in Buckets : values[i] # Empty /\ GrownHome(i) = j}
           D == 0 .. (2 * size - 1)
           T == {j \in D : same(j) # {}}
           U == {i \in Buckets : values[i] # Empty}
           m == [j \in T |-> Sums!Max(same(j))]
           h == [i \in U |-> GrownHome(i)]
           f == ValuesOf(values, S)
           g == ValuesOf(Grown, S)
<1>1. ASSUME NEW j \in T
      PROVE  m[j] \in same(j)
  <2>1. same(j) \subseteq 0 .. (size - 1) /\ size - 1 \in Nat /\ same(j) # {}
    BY DEF Buckets
  <2>2. Sums!Max(same(j)) \in same(j)
    <3> HIDE DEF same
    <3> QED
      BY <2>1, GreatestNumber
  <2> QED
    BY <2>2
<1>2. \A j, l \in T : m[j] = m[l] => j = l
  BY <1>1
<1>3. Grown = [j \in D |-> IF same(j) = {} THEN Empty ELSE values[Sums!Max(same(j))]]
  BY DEF Grown, NoEntry
<1>4. \A j \in T : g[j] = f[m[j]]
  <2> SUFFICES ASSUME NEW j \in T
               PROVE  g[j] = f[m[j]]
    OBVIOUS
  <2>1. j \in DOMAIN Grown /\ Grown[j] = values[m[j]] /\ m[j] \in DOMAIN values
    BY <1>1, <1>3 DEF Buckets
  <2> QED
    BY <2>1 DEF ValuesOf, CountsFor
<1>5. \A j \in D \ T : g[j] = 0
  BY <1>3 DEF ValuesOf, CountsFor
<1>6. \A i \in U : h[i] \in D /\ i \in same(h[i])
  <2>1. \A i \in U : values[i].key \in Keys
    BY DEF Entry
  <2>2. \A i \in U : Hash[values[i].key] \in Nat
    BY <2>1, WordAssumption
  <2> QED
    BY <2>2 DEF GrownHome
<1>7. ~Collides => /\ \A i, j \in U : h[i] = h[j] => i = j
                   /\ \A i \in U : f[i] = g[h[i]]
  <2> SUFFICES ASSUME ~Collides
               PROVE  /\ \A i, j \in U : h[i] = h[j] => i = j
                      /\ \A i \in U : f[i] = g[h[i]]
    OBVIOUS
  <2>1. \A i, j \in U : h[i] = h[j] => i = j
    BY DEF Collides
  <2>2. ASSUME NEW i \in U
        PROVE  f[i] = g[h[i]]
    <3>1. h[i] \in T /\ m[h[i]] \in same(h[i])
      BY <1>1, <1>6
    <3>2. m[h[i]] \in U /\ h[m[h[i]]] = h[i]
      BY <3>1
    <3>3. m[h[i]] = i
      BY <2>1, <3>2
    <3> HIDE DEF T, m, f, g, h, U
    <3> QED
      BY <1>4, <3>1, <3>3
  <2> QED
    BY <2>1, <2>2
<1>8. \A i \in Buckets \ U : f[i] = 0
  BY DEF ValuesOf, CountsFor, Buckets
<1>9. /\ IsFiniteSet(D) /\ IsFiniteSet(T) /\ IsFiniteSet(D \ T)
      /\ IsFiniteSet(Buckets) /\ IsFiniteSet(U) /\ IsFiniteSet(Buckets \ U)
      /\ D = T \cup (D \ T) /\ T \cap (D \ T) = {}
      /\ Buckets = U \cup (Buckets \ U) /\ U \cap (Buckets \ U) = {}
  <2>1. IsFiniteSet(D) /\ IsFiniteSet(Buckets)
    BY FS_Interval DEF Buckets
  <2>2. /\ T \in SUBSET D /\ D \ T \in SUBSET D
        /\ U \in SUBSET Buckets /\ Buckets \ U \in SUBSET Buckets
    OBVIOUS
  <2> QED
    BY <2>1, <2>2, FS_Subset
<1>10. /\ \A i \in Buckets : f[i] \in Nat
       /\ TotalOf(values, S) = Sum(f, Buckets) /\ TotalOf(values, S) \in Nat
  BY <1>9, ValuesTyped DEF Buckets
<1>11. /\ \A j \in D : g[j] \in Nat
       /\ TotalOf(Grown, S) = Sum(g, D) /\ TotalOf(Grown, S) \in Nat
  BY <1>9, GrownTyped, ValuesTyped
<1>12. \A j \in T : m[j] \in Buckets
  BY <1>1
<1> HIDE DEF T, U, m, h, f, g, D
<1>13. Sum(g, T) <= Sum(f, Buckets)
  BY <1>2, <1>4, <1>9, <1>10, <1>12, SumOfSome
<1>14. ~Collides => Sum(f, U) <= Sum(g, D)
  BY <1>6, <1>7, <1>9, <1>11, SumOfSome
<1>15. Sum(g, D \ T) = 0 /\ Sum(f, Buckets \ U) = 0
  BY <1>5, <1>8, <1>9, SumOfZeros
<1>16. Sum(g, D) = Sum(g, T) + Sum(g, D \ T)
  BY <1>9, <1>11, SumUnion
<1>17. Sum(f, Buckets) = Sum(f, U) + Sum(f, Buckets \ U)
  BY <1>9, <1>10, SumUnion
<1>18. Sum(g, T) \in Nat /\ Sum(f, U) \in Nat
  <2>1. (\A j \in T : g[j] \in Nat) /\ (\A i \in U : f[i] \in Nat)
    BY <1>9, <1>10, <1>11
  <2> QED
    BY <1>9, <2>1, SumType
<1> QED
  BY <1>10, <1>11, <1>13, <1>14, <1>15, <1>16, <1>17, <1>18

(* What main's handling of a word does to the sums: it raises those of the   *)
(* words of which one, a beginning of the word, is the key it was counted    *)
(* under; or it fails, and raises none.                                      *)
CountedUnder(j) ==
  \A T \in SUBSET Keys :
    /\ j \in T => TotalOf(values', T) <= TotalOf(values, T) + 1
    /\ j \notin T => TotalOf(values', T) <= TotalOf(values, T)
    /\ ~collided' /\ j \in T => TotalOf(values', T) = TotalOf(values, T) + 1
    /\ ~collided' /\ j \notin T => TotalOf(values', T) = TotalOf(values, T)
NotCounted ==
  /\ status' \in {"noRoom", "noMemory"}
  /\ \A T \in SUBSET Keys : TotalOf(values', T) <= TotalOf(values, T)

(* One value of a table is raised or set to one, where that table has the    *)
(* sums of the old one or, if growth overwrote an entry, less.               *)
LEMMA ValueRaised ==
  ASSUME NEW B, IsFiniteSet(B), NEW i \in B, NEW j \in Keys,
         IsFiniteSet(Buckets), values \in [Buckets -> Entry \cup {Empty}],
         NEW table \in [B -> Entry \cup {Empty}],
         values' \in [B -> Entry \cup {Empty}],
         \A l \in B : l # i => values'[l] = table[l],
         \A T \in SUBSET Keys :
           ValuesOf(values', T)[i] = ValuesOf(table, T)[i] + (IF j \in T THEN 1 ELSE 0),
         \A T \in SUBSET Keys : /\ TotalOf(table, T) <= TotalOf(values, T)
                                /\ ~collided' => TotalOf(table, T) = TotalOf(values, T)
  PROVE  CountedUnder(j)
<1> SUFFICES ASSUME NEW T \in SUBSET Keys
             PROVE  /\ j \in T => TotalOf(values', T) <= TotalOf(values, T) + 1
                    /\ j \notin T => TotalOf(values', T) <= TotalOf(values, T)
                    /\ ~collided' /\ j \in T => TotalOf(values', T) = TotalOf(values, T) + 1
                    /\ ~collided' /\ j \notin T => TotalOf(values', T) = TotalOf(values, T)
  BY DEF CountedUnder
<1>1. TotalOf(values', T) - ValuesOf(values', T)[i] = TotalOf(table, T) - ValuesOf(table, T)[i]
  BY OneValueChanges
<1>2. /\ TotalOf(values', T) \in Nat /\ TotalOf(table, T) \in Nat
      /\ ValuesOf(table, T)[i] \in Nat /\ ValuesOf(values', T)[i] \in Nat
      /\ TotalOf(values, T) \in Nat
  BY ValuesTyped
<1>3. /\ ValuesOf(values', T)[i] = ValuesOf(table, T)[i] + (IF j \in T THEN 1 ELSE 0)
      /\ TotalOf(table, T) <= TotalOf(values, T)
      /\ ~collided' => TotalOf(table, T) = TotalOf(values, T)
  OBVIOUS
<1> QED
  BY <1>1, <1>2, <1>3

(* The whole handling of a word.                                             *)
LEMMA WordCounted ==
  ASSUME WordInv, IsFiniteSet(Buckets), NEW k \in Keys,
         Replace(k) \/ Insert(k) \/ GrowAndInsert(k) \/ GrowFails(k)
  PROVE  /\ Read(k) /\ IsFiniteSet(DOMAIN values')
         /\ NotCounted \/ \E j \in Keys : <<j, k>> \in Prefixes /\ CountedUnder(j)
<1>1. /\ size \in Nat /\ size > 0
      /\ values \in [Buckets -> Entry \cup {Empty}] /\ Buckets = DOMAIN values
  BY WordAssumption DEF WordInv, WordTypeOK, Buckets
<1>2. CASE Replace(k)
  <2>1. /\ Read(k) /\ Get(k) # NotFound /\ status = "counting"
        /\ values' = [values EXCEPT ![IndexOf(k)].v = Get(k) + 1]
    BY <1>2 DEF Replace, Read, NewValue
  <2>2. /\ IndexOf(k) \in Hits(k) /\ Get(k) = values[IndexOf(k)].v
        /\ Get(k) + 1 \in 1 .. (Modulus - 1)
    BY <2>1, GetFacts DEF NewValue
  <2> DEFINE i == IndexOf(k)
             j == values[i].key
  <2>3. /\ i \in Buckets /\ values[i] # Empty /\ values[i] \in Entry
        /\ <<j, k>> \in Prefixes
    BY <1>1, <2>2 DEF Hits
  <2> HIDE DEF i
  <2>4. [values[i] EXCEPT !.v = Get(k) + 1] \in Entry /\ j \in Keys
    BY <2>2, <2>3 DEF Entry
  <2>5. /\ values' = [values EXCEPT ![i] = [values[i] EXCEPT !.v = Get(k) + 1]]
        /\ Get(k) = values[i].v
    BY <2>1, <2>2 DEF i
  <2>6. /\ values' \in [Buckets -> Entry \cup {Empty}] /\ values'[i] \in Entry
        /\ values'[i].v = values[i].v + 1 /\ values'[i].key = j
        /\ \A l \in Buckets : l # i => values'[l] = values[l]
    BY <1>1, <2>3, <2>4, <2>5 DEF Entry
  <2>7. ASSUME NEW T \in SUBSET Keys
        PROVE  ValuesOf(values', T)[i] = ValuesOf(values, T)[i] + (IF j \in T THEN 1 ELSE 0)
    <3>1. /\ i \in DOMAIN values /\ i \in DOMAIN values' /\ values'[i] # Empty
          /\ values[i].v \in Nat
      BY <1>1, <2>3, <2>6, WordAssumption DEF Entry
    <3>2. /\ ValuesOf(values, T)[i] = IF j \in T THEN values[i].v ELSE 0
          /\ ValuesOf(values', T)[i] = IF j \in T THEN values[i].v + 1 ELSE 0
      BY <2>3, <2>6, <3>1 DEF ValuesOf, CountsFor
    <3> QED
      BY <3>1, <3>2
  <2> HIDE DEF j
  <2>8. \A T \in SUBSET Keys : TotalOf(values, T) \in Nat
    BY <1>1, ValuesTyped
  <2>9. CountedUnder(j)
    BY <1>1, <2>3, <2>4, <2>6, <2>7, <2>8, ValueRaised
  <2> QED
    BY <2>1, <2>3, <2>4, <2>6, <2>9
<1>3. ASSUME Read(k), Get(k) = NotFound, NEW table,
             NEW sz \in Nat, sz > 0, table \in [0 .. (sz - 1) -> Entry \cup {Empty}],
             \A T \in SUBSET Keys : /\ TotalOf(table, T) <= TotalOf(values, T)
                                    /\ ~collided' => TotalOf(table, T) = TotalOf(values, T),
             InsertInto(table, sz, k)
      PROVE  /\ IsFiniteSet(DOMAIN values')
             /\ NotCounted \/ CountedUnder(k)
  <2> DEFINE B == 0 .. (sz - 1)
  <2>1. status = "counting" /\ NewValue(k) = 1
    BY <1>3 DEF Read, NewValue
  <2>2. Home(k) \in Nat /\ NewValue(k) \in 1 .. (Modulus - 1)
    BY <2>1, GetFacts
  <2>3. /\ values' \in [B -> Entry \cup {Empty}]
        /\ \/ \E j \in Frees(table) : values' = [table EXCEPT ![j] = [key |-> k, v |-> 1]]
           \/ values' = table /\ status' \in {"noRoom", "noMemory"}
    BY <1>3, <2>1, <2>2, InsertIntoFacts
  <2>4. IsFiniteSet(B) /\ DOMAIN values' = B
    BY <1>3, <2>3, FS_Interval
  <2>5. CASE values' = table /\ status' \in {"noRoom", "noMemory"}
    BY <1>3, <2>4, <2>5 DEF NotCounted
  <2>6. ASSUME NEW j \in Frees(table), values' = [table EXCEPT ![j] = [key |-> k, v |-> 1]]
        PROVE  CountedUnder(k)
    <3>1. j \in B /\ j \in DOMAIN table /\ table[j] = Empty
      BY <1>3 DEF Frees
    <3>2. values'[j] = [key |-> k, v |-> 1] /\ values'[j] # Empty
      BY <2>2, <2>1, <2>6, <3>1, WordAssumption
    <3>3. ASSUME NEW T \in SUBSET Keys
          PROVE  ValuesOf(values', T)[j] = ValuesOf(table, T)[j] + (IF k \in T THEN 1 ELSE 0)
      BY <2>4, <3>1, <3>2 DEF ValuesOf, CountsFor
    <3>4. \A l \in B : l # j => values'[l] = table[l]
      BY <1>3, <2>6
    <3> HIDE DEF B
    <3>5. table \in [B -> Entry \cup {Empty}]
      BY <1>3 DEF B
    <3> QED
      BY <1>1, <1>3, <2>3, <2>4, <3>1, <3>3, <3>4, <3>5, ValueRaised
  <2> QED
    BY <2>3, <2>4, <2>5, <2>6
<1>4. CASE Insert(k) \/ GrowAndInsert(k)
  <2>1. Read(k) /\ Get(k) = NotFound /\ status = "counting"
    BY <1>4 DEF Insert, GrowAndInsert, Read
  <2>2. DOMAIN values = 0 .. (size - 1)
    BY <2>1, GetFacts
  <2>3. \A T \in SUBSET Keys : TotalOf(values, T) \in Nat
    BY <1>1, ValuesTyped
  <2>4. <<k, k>> \in Prefixes
    BY WordAssumption
  <2>5. CASE Insert(k)
    <3>1. InsertInto(values, size, k)
      BY <2>5 DEF Insert
    <3>2. \A T \in SUBSET Keys : TotalOf(values, T) <= TotalOf(values, T)
      BY <2>3
    <3> QED
      BY <1>1, <1>3, <2>1, <2>2, <2>4, <3>1, <3>2
  <2>6. CASE GrowAndInsert(k)
    <3>1. InsertInto(Grown, 2 * size, k) /\ (~collided' => ~Collides)
      BY <2>6 DEF GrowAndInsert
    <3>2. Grown \in [0 .. (2 * size - 1) -> Entry \cup {Empty}]
      BY <1>1, <2>2, GrownTyped
    <3>3. \A T \in SUBSET Keys : /\ TotalOf(Grown, T) <= TotalOf(values, T)
                                 /\ ~collided' => TotalOf(Grown, T) = TotalOf(values, T)
      BY <1>1, <2>2, <3>1, GrownSum
    <3>4. 2 * size \in Nat /\ 2 * size > 0
      BY <1>1
    <3> QED
      BY <1>3, <2>1, <2>4, <3>1, <3>2, <3>3, <3>4
  <2> QED
    BY <1>4, <2>5, <2>6
<1>5. CASE GrowFails(k)
  <2>1. Read(k) /\ values' = values /\ status' = "noMemory"
    BY <1>5 DEF GrowFails, FailureSeen
  <2>2. \A T \in SUBSET Keys : TotalOf(values, T) \in Nat
    BY <1>1, ValuesTyped
  <2> QED
    BY <1>1, <2>1, <2>2 DEF NotCounted
<1> QED
  BY <1>2, <1>4, <1>5

(* A word read is one reading more of the sets of words that it is in.       *)
LEMMA ReadingAdds ==
  ASSUME WordInv, NEW k \in Keys, Read(k), NEW T \in SUBSET Keys
  PROVE  /\ Sum(count, T) \in Nat
         /\ k \in T => Sum(count', T) = Sum(count, T) + 1
         /\ k \notin T => Sum(count', T) = Sum(count, T)
<1>1. /\ IsFiniteSet(T) /\ count \in [Keys -> Nat]
      /\ count' = [count EXCEPT ![k] = @ + 1]
  BY WordAssumption, FS_Subset DEF WordInv, WordTypeOK, Read
<1>2. /\ count'[k] = count[k] + 1 /\ \A j \in T : j # k => count'[j] = count[j]
      /\ \A j \in T : count[j] \in Nat /\ count'[j] \in Nat
      /\ count[k] \in Nat
  BY <1>1
<1>3. Sum(count, T) \in Nat /\ Sum(count', T) \in Nat
  BY <1>1, <1>2, SumType
<1>4. CASE k \in T
  <2>1. ASSUME NEW new, \A j \in T : new[j] \in Nat, \A j \in T : j # k => new[j] = count[j]
        PROVE  Sum(new, T) - new[k] = Sum(count, T) - count[k]
    BY <1>1, <1>2, <1>4, <2>1, SumChanges
  <2>2. Sum(count', T) - count'[k] = Sum(count, T) - count[k]
    BY <1>2, <2>1
  <2> QED
    BY <1>2, <1>3, <1>4, <2>2
<1>5. CASE k \notin T
  <2>1. \A j \in T : count'[j] = count[j]
    BY <1>2, <1>5
  <2> QED
    BY <1>3, <1>5, <2>1, SumCong
<1> QED
  BY <1>4, <1>5

(* Both bounds are kept: what a word is counted under is a beginning of it.  *)
LEMMA TalliedStep ==
  ASSUME WordInv, Tallied, [WordNext]_wordVars
  PROVE  Tallied'
<1>1. CASE UNCHANGED <<values, count, collided>>
            /\ (status' = status \/ status = "counting")
  BY <1>1 DEF Tallied, NoneTwice, NoneLost, Buckets, TotalOf, ValuesOf, CountsFor
<1>2. ASSUME NEW k \in Keys, Replace(k) \/ Insert(k) \/ GrowAndInsert(k) \/ GrowFails(k)
      PROVE  Tallied'
  <2>1. /\ Read(k) /\ IsFiniteSet(DOMAIN values') /\ status = "counting"
        /\ NotCounted \/ \E j \in Keys : <<j, k>> \in Prefixes /\ CountedUnder(j)
    <3>1. IsFiniteSet(Buckets)
      BY DEF Tallied
    <3> QED
      BY <1>2, <3>1, WordCounted DEF Read
  <2>2. ~collided' => ~collided
    BY <1>2 DEF Replace, Insert, GrowAndInsert, GrowFails
  <2>3. /\ values' \in [DOMAIN values' -> Entry \cup {Empty}]
        /\ values \in [Buckets -> Entry \cup {Empty}] /\ IsFiniteSet(Buckets)
    BY WordTypes DEF Buckets, Tallied, WordInv
  <2>4. \A T \in SUBSET Keys : TotalOf(values', T) \in Nat /\ TotalOf(values, T) \in Nat
    BY <2>1, <2>3, ValuesTyped
  <2>5. ASSUME NEW T \in SUBSET Keys
        PROVE  TotalOf(values', T) <= Sum(count', Continuations(T))
    <3>1. /\ Continuations(T) \in SUBSET Keys
          /\ TotalOf(values, T) <= Sum(count, Continuations(T))
      BY DEF Continuations, Tallied, NoneTwice
    <3>2. /\ Sum(count, Continuations(T)) \in Nat
          /\ k \in Continuations(T) =>
               Sum(count', Continuations(T)) = Sum(count, Continuations(T)) + 1
          /\ k \notin Continuations(T) =>
               Sum(count', Continuations(T)) = Sum(count, Continuations(T))
      BY <2>1, <3>1, ReadingAdds
    <3>3. CASE NotCounted
      <4>1. TotalOf(values', T) <= TotalOf(values, T)
        BY <3>3 DEF NotCounted
      <4> QED
        BY <2>4, <3>1, <3>2, <4>1
    <3>4. ASSUME NEW j \in Keys, <<j, k>> \in Prefixes, CountedUnder(j)
          PROVE  TotalOf(values', T) <= Sum(count', Continuations(T))
      <4>1. /\ j \in T => TotalOf(values', T) <= TotalOf(values, T) + 1
            /\ j \notin T => TotalOf(values', T) <= TotalOf(values, T)
        BY <3>4 DEF CountedUnder
      <4>2. j \in T => k \in Continuations(T)
        BY <3>4 DEF Continuations
      <4> QED
        BY <2>4, <3>1, <3>2, <4>1, <4>2
    <3> QED
      BY <2>1, <3>3, <3>4
  <2>6. ASSUME ~collided', status' \in {"counting", "reported"}, NEW T \in SUBSET Keys
        PROVE  Sum(count', T) <= TotalOf(values', Beginnings(T))
    <3>1. PICK j \in Keys : <<j, k>> \in Prefixes /\ CountedUnder(j)
      BY <2>1, <2>6 DEF NotCounted
    <3>2. /\ Beginnings(T) \in SUBSET Keys
          /\ Sum(count, T) <= TotalOf(values, Beginnings(T))
      BY <2>1, <2>2, <2>6 DEF Beginnings, Tallied, NoneLost
    <3>3. /\ j \in Beginnings(T) =>
               TotalOf(values', Beginnings(T)) = TotalOf(values, Beginnings(T)) + 1
          /\ j \notin Beginnings(T) =>
               TotalOf(values', Beginnings(T)) = TotalOf(values, Beginnings(T))
      BY <2>6, <3>1, <3>2 DEF CountedUnder
    <3>4. k \in T => j \in Beginnings(T)
      BY <3>1 DEF Beginnings
    <3>5. /\ Sum(count, T) \in Nat
          /\ k \in T => Sum(count', T) = Sum(count, T) + 1
          /\ k \notin T => Sum(count', T) = Sum(count, T)
      BY <2>1, ReadingAdds
    <3>6. TotalOf(values, Beginnings(T)) \in Nat
      BY <2>4, <3>2
    <3> QED
      BY <3>2, <3>3, <3>4, <3>5, <3>6
  <2>7. (\A T \in SUBSET Keys : TotalOf(values, T) <= Sum(count, Continuations(T)))'
    BY <2>5 DEF Continuations
  <2>8. (~collided /\ status \in {"counting", "reported"} =>
           \A T \in SUBSET Keys : Sum(count, T) <= TotalOf(values, Beginnings(T)))'
    BY <2>6 DEF Beginnings
  <2> QED
    BY <2>1, <2>7, <2>8 DEF Tallied, NoneTwice, NoneLost, Buckets
<1>3. CASE ReportWords \/ Ended \/ UNCHANGED wordVars
  <2>1. /\ UNCHANGED <<values, count, collided>>
        /\ status' = status \/ status = "counting"
    BY <1>3 DEF ReportWords, Ended, wordVars
  <2> QED
    BY <1>1, <2>1
<1> QED
  BY <1>2, <1>3 DEF WordNext

(* Nothing is counted at first.                                              *)
LEMMA TalliedInit == WordInit => Tallied
<1> SUFFICES ASSUME WordInit
             PROVE  Tallied
  OBVIOUS
<1>1. /\ InitialSize \in Nat /\ IsFiniteSet(Keys)
      /\ values = [i \in 0 .. (InitialSize - 1) |-> Empty]
      /\ count = [k \in Keys |-> 0]
  BY WordAssumption DEF WordInit
<1>2. IsFiniteSet(Buckets)
  BY <1>1, FS_Interval DEF Buckets
<1>3. ASSUME NEW T \in SUBSET Keys
      PROVE  TotalOf(values, T) = 0 /\ Sum(count, T) = 0
  <2>1. \A i \in DOMAIN values : ValuesOf(values, T)[i] = 0
    BY <1>1 DEF ValuesOf, CountsFor
  <2>2. IsFiniteSet(T) /\ \A k \in T : count[k] = 0
    BY <1>1, FS_Subset
  <2> QED
    BY <1>2, <2>1, <2>2, SumOfZeros DEF TotalOf, Buckets
<1>4. \A T \in SUBSET Keys : Continuations(T) \in SUBSET Keys /\ Beginnings(T) \in SUBSET Keys
  BY DEF Continuations, Beginnings
<1> QED
  BY <1>2, <1>3, <1>4 DEF Tallied, NoneTwice, NoneLost

(* Both bounds hold in every reachable state.                                *)
LEMMA TalliedInvariance == WordSpec => [](WordInv /\ Tallied)
<1>1. WordInv /\ Tallied /\ [WordNext]_wordVars => Tallied'
  BY TalliedStep
<1> QED
  BY <1>1, TalliedInit, WordInvariance, PTL DEF WordSpec

(* What some words claim and how often they were read, in this module's sums.*)
LEMMA ClaimedIs ==
  ASSUME WordInv, Tallied, NEW T \in SUBSET Keys
  PROVE  Claimed(T) = TotalOf(values, T) /\ Readings(T) = Sum(count, T)
<1> DEFINE E == {i \in Entries : values[i].key \in T}
           f == [i \in E |-> values[i].v]
           g == ValuesOf(values, T)
<1>1. /\ IsFiniteSet(Buckets) /\ E \in SUBSET Buckets
      /\ \A i \in Buckets : g[i] \in Nat
      /\ TotalOf(values, T) = Sum(g, Buckets)
  <2>1. values \in [Buckets -> Entry \cup {Empty}] /\ IsFiniteSet(Buckets)
    BY DEF WordInv, Tallied
  <2> QED
    BY <2>1, ValuesTyped DEF Entries
<1>2. (\A i \in E : f[i] = g[i]) /\ (\A i \in Buckets \ E : g[i] = 0)
  BY DEF Entries, Buckets, ValuesOf, CountsFor
<1>3. Claimed(T) = Sum(f, E)
  BY EntriesSum DEF Claimed
<1>4. Readings(T) = Sum(count, T)
  BY SumIs DEF Readings
<1> HIDE DEF E, f, g
<1>5. /\ IsFiniteSet(E) /\ IsFiniteSet(Buckets \ E) /\ Buckets = E \cup (Buckets \ E)
      /\ E \cap (Buckets \ E) = {}
  BY <1>1, FS_Subset
<1>6. Sum(f, E) = Sum(g, E)
  BY <1>2, SumCong
<1>7. Sum(g, Buckets) = Sum(g, E) + Sum(g, Buckets \ E)
  BY <1>1, <1>5, SumUnion
<1>8. Sum(g, Buckets \ E) = 0
  BY <1>2, <1>5, SumOfZeros
<1>9. Sum(g, E) \in Nat
  BY <1>1, <1>5, SumType
<1> QED
  BY <1>1, <1>3, <1>4, <1>6, <1>7, <1>8, <1>9

(* However growth and the limits of the comparison misplace entries, the     *)
(* entries of any words of hw3 never count more than the words that begin    *)
(* with one of them were read.                                               *)
LEMMA NoWordTwice == WordSpec => []NeverOvercounts
<1>1. WordInv /\ Tallied => NeverOvercounts
  <2> SUFFICES ASSUME WordInv, Tallied, NEW S \in SUBSET Keys
               PROVE  Claimed(S) <= Readings(Continuations(S))
    BY DEF NeverOvercounts
  <2>1. Continuations(S) \in SUBSET Keys
    BY DEF Continuations
  <2>2. Claimed(S) = TotalOf(values, S) /\ Readings(Continuations(S)) = Sum(count, Continuations(S))
    BY <2>1, ClaimedIs
  <2> QED
    BY <2>2 DEF Tallied, NoneTwice
<1> QED
  BY <1>1, TalliedInvariance, PTL

(* A word of hw3 is lost only when growth moves two entries to one bucket:   *)
(* until then the entries of the beginnings of any words count no less than  *)
(* these were read.                                                          *)
LEMMA NoWordLost == WordSpec => []NothingLost
<1>1. WordInv /\ Tallied => NothingLost
  <2> SUFFICES ASSUME WordInv, Tallied, ~collided, status \in {"counting", "reported"},
                      NEW S \in SUBSET Keys
               PROVE  Readings(S) <= Claimed(Beginnings(S))
    BY DEF NothingLost
  <2>1. Beginnings(S) \in SUBSET Keys
    BY DEF Beginnings
  <2>2. Readings(S) = Sum(count, S) /\ Claimed(Beginnings(S)) = TotalOf(values, Beginnings(S))
    BY <2>1, ClaimedIs
  <2> QED
    BY <2>2 DEF Tallied, NoneLost
<1> QED
  BY <1>1, TalliedInvariance, PTL

(* Main reports of any words of hw3 what it has read of them, but for words  *)
(* taken for each other's beginnings and for collisions of growth.           *)
THEOREM ReadingsCounted == WordSpec => []EveryReadingCounted
BY NoWordTwice, NoWordLost, PTL DEF EveryReadingCounted
-----------------------------------------------------------------------------
(* The places between fopen and fclose. *)
Active == {"method", "uri", "referer", "credit", "close"}

(* The pool hands the files out in their order, and none is in two places.   *)
FilesInOrder ==
  /\ submitted \in 0 .. NFiles
  /\ pending \in Seq(Nat)
  /\ Len(pending) <= submitted
  /\ \A i \in DOMAIN pending : pending[i] = submitted - Len(pending) + i
  /\ running \cup finished \cup lost \subseteq 1 .. (submitted - Len(pending))
  /\ running \cap finished = {} /\ running \cap lost = {} /\ finished \cap lost = {}

(* A file that runs has one worker, which is at a line of it or at its end.  *)
OneWorkerPerFile ==
  /\ \A w \in Workers : step[w] # "idle" => line[w][1] \in running
  /\ \A v, w \in Workers :
       step[v] # "idle" /\ step[w] # "idle" /\ line[v][1] = line[w][1] => v = w
  /\ \A w \in Workers : step[w] \in Active => line[w][1] \in opened
  /\ \A w \in Workers : step[w] = "failed" => line[w][1] \notin opened
  /\ \A w \in Workers : step[w] \in Active \ {"close"} => line[w] \in Lines
  /\ \A w \in Workers : step[w] = "close" => line[w][2] = Len(Content[line[w][1]]) + 1

Placed == TypeOK /\ FilesInOrder /\ OneWorkerPerFile

(* Lines are numbered from 1 in each file, and there are finitely many.      *)
LEMMA LinesAre ==
  /\ \A l \in Lines : /\ l[1] \in Files /\ l[2] \in 1 .. Len(Content[l[1]])
                      /\ l = <<l[1], l[2]>> /\ l \in Nat \X Nat
                      /\ LineAt(l).number \in Nat /\ LineAt(l).uri \in Uris
                      /\ LineAt(l).ref \in Refs \cup {NoRef}
  /\ \A f \in Files : \A n \in 1 .. Len(Content[f]) : <<f, n>> \in Lines
  /\ Files \subseteq Nat /\ \A f \in Files : Len(Content[f]) \in Nat
<1>1. \A f \in Files : Len(Content[f]) \in Nat /\ DOMAIN Content[f] = 1 .. Len(Content[f])
  BY ContentAssumption
<1>2. Lines = UNION {{<<f, n>> : n \in 1 .. Len(Content[f])} : f \in Files}
  BY <1>1 DEF Lines
<1>3. \A l \in Lines : \E f \in Files : \E n \in 1 .. Len(Content[f]) : l = <<f, n>>
  BY <1>2
<1>4. Files \subseteq Nat
  BY ContentAssumption DEF Files
<1>5. \A f \in Files : \A n \in 1 .. Len(Content[f]) : <<f, n>> \in Lines
  BY <1>2
<1>6. \A l \in Lines : /\ LineAt(l).number \in Nat /\ LineAt(l).uri \in Uris
                      /\ LineAt(l).ref \in Refs \cup {NoRef}
  BY ContentAssumption DEF Uris, Refs
<1>7. ASSUME NEW l \in Lines
      PROVE  /\ l[1] \in Files /\ l[2] \in 1 .. Len(Content[l[1]])
             /\ l = <<l[1], l[2]>> /\ l \in Nat \X Nat
  <2>1. PICK f \in Files : \E n \in 1 .. Len(Content[f]) : l = <<f, n>>
    BY <1>3
  <2>2. PICK n \in 1 .. Len(Content[f]) : l = <<f, n>>
    BY <2>1
  <2> QED
    BY <1>1, <1>4, <2>2
<1> QED
  BY <1>1, <1>4, <1>5, <1>6, <1>7

(* The image of a finite set is finite.                                      *)
LEMMA ImageFinite ==
  ASSUME NEW S, IsFiniteSet(S), NEW g
  PROVE  IsFiniteSet({g[x] : x \in S})
<1> DEFINE T == {g[x] : x \in S}
           h == [x \in S |-> g[x]]
<1>1. h \in [S -> T] /\ \A t \in T : \E x \in S : h[x] = t
  OBVIOUS
<1>2. h \in Surjection(S, T)
  BY <1>1 DEF Surjection
<1> HIDE DEF h, T
<1> QED
  BY <1>2, FS_Surjection DEF T

(* A directory has finitely many lines.                                      *)
LEMMA LinesFinite == IsFiniteSet(Lines)
<1> DEFINE g == [f \in Files |-> {<<f, n>> : n \in 1 .. Len(Content[f])}]
<1>1. IsFiniteSet(Files)
  BY ContentAssumption, FS_Interval DEF Files
<1>2. IsFiniteSet({g[f] : f \in Files})
  <2> HIDE DEF g
  <2> QED
    BY <1>1, ImageFinite
<1>3. ASSUME NEW f \in Files
      PROVE  IsFiniteSet(g[f])
  <2> DEFINE I == 1 .. Len(Content[f])
             p == [n \in I |-> <<f, n>>]
  <2>1. IsFiniteSet(I)
    <3>1. 1 \in Int /\ Len(Content[f]) \in Int
      BY LinesAre
    <3> QED
      BY <3>1, FS_Interval
  <2>2. g[f] = {p[n] : n \in I}
    OBVIOUS
  <2> HIDE DEF p, I, g
  <2> QED
    BY <2>1, <2>2, ImageFinite
<1>4. Lines = UNION {g[f] : f \in Files}
  BY ContentAssumption DEF Lines
<1> HIDE DEF g
<1> QED
  BY <1>2, <1>3, <1>4, FS_UNION

(* The file that is handed out next has not been handed out before.          *)
LEMMA HeadIsNew ==
  ASSUME Placed, pending # <<>>
  PROVE  /\ Head(pending) = submitted - Len(pending) + 1
         /\ Len(pending) \in Nat /\ Len(pending) >= 1 /\ submitted \in Nat
         /\ Head(pending) \in Files
         /\ Head(pending) \notin running \cup finished \cup lost \cup opened
<1>1. /\ pending \in Seq(Nat) /\ Len(pending) \in Nat /\ Len(pending) >= 1
      /\ Head(pending) = pending[1] /\ 1 \in DOMAIN pending
  BY DEF Placed, FilesInOrder
<1>2. /\ pending[1] = submitted - Len(pending) + 1 /\ submitted \in 0 .. NFiles
      /\ Len(pending) <= submitted /\ NFiles \in Nat
      /\ running \cup finished \cup lost \subseteq 1 .. (submitted - Len(pending))
      /\ opened \subseteq running \cup finished
  BY <1>1, ContentAssumption DEF Placed, FilesInOrder, TypeOK
<1>3. Head(pending) \notin 1 .. (submitted - Len(pending))
  BY <1>1, <1>2
<1> QED
  BY <1>1, <1>2, <1>3 DEF Files

(* What the pool does to its files.                                          *)
LEMMA OrderStep ==
  ASSUME Placed, [Next]_vars
  PROVE  FilesInOrder'
<1> USE DEF FilesInOrder
<1>1. /\ submitted \in 0 .. NFiles /\ NFiles \in Nat
      /\ pending \in Seq(Nat) /\ Len(pending) \in Nat /\ DOMAIN pending = 1 .. Len(pending)
      /\ Len(pending) <= submitted
      /\ \A i \in 1 .. Len(pending) : pending[i] = submitted - Len(pending) + i
      /\ running \cup finished \cup lost \subseteq 1 .. (submitted - Len(pending))
      /\ running \cap finished = {} /\ running \cap lost = {} /\ finished \cap lost = {}
  BY ContentAssumption DEF Placed
<1>2. CASE Submit
  <2>1. /\ submitted' = submitted + 1 /\ submitted < NFiles
        /\ pending' = Append(pending, submitted + 1)
        /\ UNCHANGED <<running, finished, lost>>
    BY <1>2 DEF Submit
  <2>2. /\ pending' \in Seq(Nat) /\ Len(pending') = Len(pending) + 1
        /\ DOMAIN pending' = 1 .. (Len(pending) + 1)
        /\ \A i \in 1 .. Len(pending) : pending'[i] = pending[i]
        /\ pending'[Len(pending) + 1] = submitted + 1
    BY <1>1, <2>1
  <2>3. \A i \in DOMAIN pending' : pending'[i] = submitted' - Len(pending') + i
    BY <1>1, <2>1, <2>2
  <2>4. submitted' - Len(pending') = submitted - Len(pending)
    BY <1>1, <2>1, <2>2
  <2> QED
    BY <1>1, <2>1, <2>2, <2>3, <2>4
<1>3. CASE Start
  <2>1. /\ running' = running \cup {Head(pending)} /\ pending' = Tail(pending)
        /\ pending # <<>> /\ UNCHANGED <<submitted, finished, lost>>
    BY <1>3 DEF Start
  <2>2. /\ Head(pending) = submitted - Len(pending) + 1 /\ Len(pending) >= 1
        /\ Head(pending) \notin running \cup finished \cup lost
    BY <2>1, HeadIsNew
  <2>3. /\ pending' \in Seq(Nat) /\ Len(pending') = Len(pending) - 1
        /\ DOMAIN pending' = 1 .. (Len(pending) - 1)
        /\ \A i \in 1 .. (Len(pending) - 1) : pending'[i] = pending[i + 1]
    BY <1>1, <2>1, <2>2
  <2>4. \A i \in DOMAIN pending' : pending'[i] = submitted' - Len(pending') + i
    BY <1>1, <2>1, <2>2, <2>3
  <2>5. submitted' - Len(pending') = submitted - Len(pending) + 1
    BY <1>1, <2>1, <2>3
  <2>6. running' \cup finished' \cup lost' \subseteq 1 .. (submitted' - Len(pending'))
    BY <1>1, <2>1, <2>2, <2>5
  <2> QED
    BY <1>1, <2>1, <2>2, <2>3, <2>4, <2>6
<1>4. ASSUME NEW f, Finish(f)
      PROVE  FilesInOrder'
  BY <1>1, <1>4 DEF Finish
<1>5. CASE Discard
  <2>1. /\ running = {} /\ lost' = {pending[i] : i \in DOMAIN pending} /\ pending' = <<>>
        /\ UNCHANGED <<submitted, running, finished>>
    BY <1>5 DEF Discard
  <2>2. \A f \in lost' : f \in 1 .. submitted /\ f \notin 1 .. (submitted - Len(pending))
    BY <1>1, <2>1
  <2>3. submitted' - Len(pending') = submitted
    BY <1>1, <2>1
  <2>4. 1 .. (submitted - Len(pending)) \subseteq 1 .. submitted
    BY <1>1
  <2> QED
    BY <1>1, <2>1, <2>2, <2>3, <2>4
<1>6. CASE UNCHANGED pool
  BY <1>1, <1>6 DEF pool
<1>7. Submit \/ Start \/ (\E f : Finish(f)) \/ Discard \/ UNCHANGED pool
  BY DEF Next, MainStep, Open, OpenFails, GiveUp, TokenizeMethod, TokenizeUri,
         CountReferer, CreditUri, Close, Report, vars, pool
<1> QED
  BY <1>2, <1>3, <1>4, <1>5, <1>6, <1>7

(* A step of a worker changes its own place only, a step of main none.       *)
LEMMA OneWorkerMoves ==
  ASSUME [Next]_vars
  PROVE  \/ UNCHANGED <<parser, running, finished>>
         \/ \E w \in Workers :
              \/ Open(w) \/ OpenFails(w) \/ GiveUp(w)
              \/ TokenizeMethod(w) \/ TokenizeUri(w) \/ CountReferer(w)
              \/ CreditUri(w) \/ Close(w)
BY DEF Next, MainStep, Submit, Discard, Report, vars, pool

(* Where a worker is at a line or at the end of a file, the next line or the *)
(* end is where it goes on.                                                  *)
LEMMA StepAtLine ==
  ASSUME NEW f \in Files, NEW n \in Nat, n >= 1, n <= Len(Content[f]) + 1
  PROVE  /\ StepAt(f, n) \in {"method", "close"}
         /\ StepAt(f, n) = "method" => <<f, n>> \in Lines
         /\ StepAt(f, n) = "close" => n = Len(Content[f]) + 1
<1>1. Len(Content[f]) \in Nat /\ DOMAIN Content[f] = 1 .. Len(Content[f])
  BY ContentAssumption
<1>2. StepAt(f, n) = IF n \in 1 .. Len(Content[f]) THEN "method" ELSE "close"
  BY <1>1 DEF StepAt
<1>3. n \in 1 .. Len(Content[f]) => <<f, n>> \in Lines
  BY LinesAre
<1> QED
  BY <1>1, <1>2, <1>3

(* The place a worker goes on to after a line, and what is known of the line *)
(* it was at.                                                                *)
LEMMA NextLine ==
  ASSUME Placed, NEW w \in Workers, step[w] = "credit"
  PROVE  LET f == line[w][1]
             n == line[w][2]
         IN /\ line[w] \in Lines /\ line[w] = <<f, n>>
            /\ f \in Files /\ f \in Nat /\ n \in Nat /\ n >= 1
            /\ f \in running /\ f \in opened
            /\ StepAt(f, n + 1) \in {"method", "close"}
            /\ StepAt(f, n + 1) = "method" => <<f, n + 1>> \in Lines
            /\ StepAt(f, n + 1) = "close" => n + 1 = Len(Content[f]) + 1
<1> DEFINE f == line[w][1]
           n == line[w][2]
<1>1. /\ line[w] \in Lines /\ f \in running /\ f \in opened
  BY DEF Placed, OneWorkerPerFile, Active
<1>2. /\ f \in Files /\ n \in 1 .. Len(Content[f]) /\ line[w] = <<f, n>>
      /\ f \in Nat /\ Len(Content[f]) \in Nat
  BY <1>1, LinesAre
<1> HIDE DEF f, n
<1>3. n + 1 \in Nat /\ n + 1 >= 1 /\ n + 1 <= Len(Content[f]) + 1
  BY <1>2
<1>4. /\ StepAt(f, n + 1) \in {"method", "close"}
      /\ StepAt(f, n + 1) = "method" => <<f, n + 1>> \in Lines
      /\ StepAt(f, n + 1) = "close" => n + 1 = Len(Content[f]) + 1
  BY <1>2, <1>3, StepAtLine
<1> QED
  BY <1>1, <1>2, <1>4 DEF f, n

(* The place a worker starts a file at.                                      *)
LEMMA FirstLine ==
  ASSUME Placed, pending # <<>>
  PROVE  LET f == Head(pending)
         IN /\ f \in Files /\ f \in Nat
            /\ StepAt(f, 1) \in {"method", "close"}
            /\ StepAt(f, 1) = "method" => <<f, 1>> \in Lines
            /\ StepAt(f, 1) = "close" => 1 = Len(Content[f]) + 1
<1>1. Head(pending) \in Files
  BY HeadIsNew
<1>2. Head(pending) \in Nat /\ Len(Content[Head(pending)]) \in Nat
  BY <1>1, LinesAre
<1>3. 1 <= Len(Content[Head(pending)]) + 1
  BY <1>2
<1> QED
  BY <1>1, <1>2, <1>3, StepAtLine

(* A worker keeps its file to itself.                                        *)
LEMMA WorkersStep ==
  ASSUME Placed, [Next]_vars
  PROVE  OneWorkerPerFile'
<1>1. /\ OneWorkerPerFile /\ step \in [Workers -> {"idle", "failed", "method", "uri",
                                       "referer", "credit", "close"}]
      /\ line \in [Workers -> Nat \X Nat] /\ opened \subseteq running \cup finished
      /\ running \cap finished = {}
  BY DEF Placed, TypeOK, FilesInOrder
<1> USE DEF OneWorkerPerFile, Active
<1>2. CASE UNCHANGED <<parser, running, finished>>
  BY <1>1, <1>2 DEF parser
<1>3. ASSUME NEW w \in Workers, Open(w) \/ OpenFails(w)
      PROVE  OneWorkerPerFile'
  <2> DEFINE f == Head(pending)
  <2>1. /\ step[w] = "idle" /\ pending # <<>>
        /\ running' = running \cup {f} /\ line' = [line EXCEPT ![w] = <<f, 1>>]
        /\ \/ /\ step' = [step EXCEPT ![w] = StepAt(f, 1)] /\ opened' = opened \cup {f}
           \/ /\ step' = [step EXCEPT ![w] = "failed"] /\ opened' = opened
    BY <1>3 DEF Open, OpenFails, Start, Goto
  <2>2. /\ f \notin running \cup opened
        /\ StepAt(f, 1) \in {"method", "close"}
        /\ StepAt(f, 1) = "method" => <<f, 1>> \in Lines
        /\ StepAt(f, 1) = "close" => 1 = Len(Content[f]) + 1
    BY <2>1, HeadIsNew, FirstLine
  <2> HIDE DEF f
  <2>3. /\ step'[w] \in {"failed", "method", "close"} /\ line'[w] = <<f, 1>>
        /\ step'[w] = "failed" => opened' = opened
        /\ step'[w] \in {"method", "close"} => /\ step'[w] = StepAt(f, 1)
                                             /\ opened' = opened \cup {f}
        /\ \A v \in Workers : v # w => step'[v] = step[v] /\ line'[v] = line[v]
    BY <1>1, <2>1, <2>2
  <2>4. \A v \in Workers : step[v] # "idle" => line[v][1] # f /\ v # w
    BY <1>1, <2>1, <2>2
  <2>5. \A v \in Workers : step'[v] # "idle" => line'[v][1] \in running'
    BY <1>1, <2>1, <2>3
  <2>6. \A u, v \in Workers :
          step'[u] # "idle" /\ step'[v] # "idle" /\ line'[u][1] = line'[v][1] => u = v
    BY <1>1, <2>3, <2>4
  <2>7. \A v \in Workers : step'[v] \in Active => line'[v][1] \in opened'
    <3>1. step'[w] \in Active => line'[w][1] \in opened'
      BY <2>3
    <3>2. \A v \in Workers \ {w} : step'[v] \in Active => line'[v][1] \in opened'
      BY <1>1, <2>1, <2>3
    <3> QED
      BY <3>1, <3>2
  <2>8. \A v \in Workers : step'[v] = "failed" => line'[v][1] \notin opened'
    BY <1>1, <2>1, <2>2, <2>3, <2>4
  <2>9. \A v \in Workers : step'[v] \in Active \ {"close"} => line'[v] \in Lines
    <3>1. step'[w] \in Active \ {"close"} => line'[w] \in Lines
      BY <2>2, <2>3
    <3>2. \A v \in Workers \ {w} : step'[v] \in Active \ {"close"} => line'[v] \in Lines
      BY <1>1, <2>3
    <3> QED
      BY <3>1, <3>2
  <2>10. \A v \in Workers : step'[v] = "close" => line'[v][2] = Len(Content[line'[v][1]]) + 1
    BY <1>1, <2>2, <2>3
  <2> QED
    BY <2>5, <2>6, <2>7, <2>8, <2>9, <2>10
<1>4. ASSUME NEW w \in Workers, GiveUp(w) \/ Close(w)
      PROVE  OneWorkerPerFile'
  <2>1. /\ step[w] \in {"failed", "close"} /\ step' = [step EXCEPT ![w] = "idle"]
        /\ running' = running \ {line[w][1]} /\ UNCHANGED <<line, opened>>
    BY <1>4 DEF GiveUp, Close, Goto, Finish
  <2>2. /\ step'[w] = "idle"
        /\ \A v \in Workers : v # w => step'[v] = step[v]
    BY <1>1, <2>1
  <2>3. \A v \in Workers : step'[v] # "idle" => line'[v][1] \in running'
    BY <1>1, <2>1, <2>2
  <2>4. /\ \A u, v \in Workers :
             step'[u] # "idle" /\ step'[v] # "idle" /\ line'[u][1] = line'[v][1] => u = v
        /\ \A v \in Workers : step'[v] \in Active => line'[v][1] \in opened'
        /\ \A v \in Workers : step'[v] = "failed" => line'[v][1] \notin opened'
    BY <1>1, <2>1, <2>2
  <2>5. \A v \in Workers : step'[v] \in Active \ {"close"} => line'[v] \in Lines
    BY <1>1, <2>1, <2>2
  <2>6. \A v \in Workers : step'[v] = "close" => line'[v][2] = Len(Content[line'[v][1]]) + 1
    BY <1>1, <2>1, <2>2
  <2> QED
    BY <2>3, <2>4, <2>5, <2>6
<1>5. ASSUME NEW w \in Workers, TokenizeMethod(w) \/ TokenizeUri(w) \/ CountReferer(w)
      PROVE  OneWorkerPerFile'
  <2>1. /\ step[w] \in {"method", "uri", "referer"}
        /\ \E to \in {"uri", "referer", "credit"} : step' = [step EXCEPT ![w] = to]
        /\ UNCHANGED <<running, line, opened>>
    BY <1>5 DEF TokenizeMethod, TokenizeUri, CountReferer, Goto, pool
  <2>2. /\ step'[w] \in {"uri", "referer", "credit"}
        /\ \A v \in Workers : v # w => step'[v] = step[v]
    BY <1>1, <2>1
  <2>3. /\ \A v \in Workers : step'[v] # "idle" => line'[v][1] \in running'
        /\ \A u, v \in Workers :
             step'[u] # "idle" /\ step'[v] # "idle" /\ line'[u][1] = line'[v][1] => u = v
        /\ \A v \in Workers : step'[v] \in Active => line'[v][1] \in opened'
        /\ \A v \in Workers : step'[v] = "failed" => line'[v][1] \notin opened'
    BY <1>1, <2>1, <2>2
  <2>4. \A v \in Workers : step'[v] \in Active \ {"close"} => line'[v] \in Lines
    BY <1>1, <2>1, <2>2
  <2>5. \A v \in Workers : step'[v] = "close" => line'[v][2] = Len(Content[line'[v][1]]) + 1
    BY <1>1, <2>1, <2>2
  <2> QED
    BY <2>3, <2>4, <2>5
<1>6. ASSUME NEW w \in Workers, CreditUri(w)
      PROVE  OneWorkerPerFile'
  <2> DEFINE f == line[w][1]
             n == line[w][2]
  <2>1. /\ step[w] = "credit" /\ step' = [step EXCEPT ![w] = StepAt(f, n + 1)]
        /\ line' = [line EXCEPT ![w] = <<f, n + 1>>]
        /\ UNCHANGED <<running, opened>>
    BY <1>6 DEF CreditUri, Goto, pool
  <2>2. /\ f \in running /\ f \in opened
        /\ StepAt(f, n + 1) \in {"method", "close"}
        /\ StepAt(f, n + 1) = "method" => <<f, n + 1>> \in Lines
        /\ StepAt(f, n + 1) = "close" => n + 1 = Len(Content[f]) + 1
    BY <2>1, NextLine
  <2>3. /\ step'[w] = StepAt(f, n + 1) /\ line'[w] = <<f, n + 1>>
        /\ \A v \in Workers : v # w => step'[v] = step[v] /\ line'[v] = line[v]
        /\ line'[w][1] = line[w][1] /\ step'[w] # "idle"
    BY <1>1, <2>1, <2>2
  <2> HIDE DEF f, n
  <2>4. /\ \A v \in Workers : line'[v][1] = line[v][1]
        /\ \A v \in Workers : step'[v] = "idle" <=> step[v] = "idle"
        /\ \A v \in Workers : step'[v] \in Active => step[v] \in Active
        /\ \A v \in Workers : step'[v] = "failed" => step[v] = "failed"
    BY <1>1, <2>1, <2>2, <2>3
  <2>5. \A v \in Workers : step'[v] \in Active \ {"close"} => line'[v] \in Lines
    BY <1>1, <2>2, <2>3
  <2>6. \A v \in Workers : step'[v] = "close" => line'[v][2] = Len(Content[line'[v][1]]) + 1
    <3>1. step'[w] = "close" => line'[w][2] = Len(Content[line'[w][1]]) + 1
      BY <2>2, <2>3
    <3>2. \A v \in Workers \ {w} :
            step'[v] = "close" => line'[v][2] = Len(Content[line'[v][1]]) + 1
      BY <1>1, <2>3
    <3> QED
      BY <3>1, <3>2
  <2>7. /\ \A v \in Workers : step'[v] # "idle" => line'[v][1] \in running'
        /\ \A u, v \in Workers :
             step'[u] # "idle" /\ step'[v] # "idle" /\ line'[u][1] = line'[v][1] => u = v
        /\ \A v \in Workers : step'[v] \in Active => line'[v][1] \in opened'
        /\ \A v \in Workers : step'[v] = "failed" => line'[v][1] \notin opened'
    <3>1. /\ \A v \in Workers : step[v] # "idle" => line[v][1] \in running
          /\ \A u, v \in Workers :
               step[u] # "idle" /\ step[v] # "idle" /\ line[u][1] = line[v][1] => u = v
          /\ \A v \in Workers : step[v] \in Active => line[v][1] \in opened
          /\ \A v \in Workers : step[v] = "failed" => line[v][1] \notin opened
      BY <1>1
    <3> HIDE DEF OneWorkerPerFile, Active
    <3> QED
      BY <2>1, <2>4, <3>1
  <2> QED
    BY <2>5, <2>6, <2>7
<1> QED
  BY <1>2, <1>3, <1>4, <1>5, <1>6, OneWorkerMoves

(* A table of counters stays one when something is added to one of them.     *)
LEMMA CounterGrows ==
  ASSUME NEW S, NEW f \in [S -> Nat], NEW x, NEW d \in Nat
  PROVE  [f EXCEPT ![x] = @ + d] \in [S -> Nat]
<1> DEFINE g == [f EXCEPT ![x] = @ + d]
<1>1. \A y \in S : g[y] = IF y = x THEN f[x] + d ELSE f[y]
  OBVIOUS
<1>2. \A y \in S : g[y] \in Nat
  <2> HIDE DEF g
  <2> QED
    BY <1>1
<1>3. g = [y \in S |-> g[y]]
  OBVIOUS
<1> HIDE DEF g
<1> QED
  BY <1>2, <1>3 DEF g

(* Types: what strtok remembers stays a request that is still parsed.        *)
LEMMA TypeStep ==
  ASSUME Placed, [Next]_vars
  PROVE  TypeOK'
<1>1. /\ step \in [Workers -> {"idle", "failed", "method", "uri", "referer",
                               "credit", "close"}]
      /\ line \in [Workers -> Nat \X Nat]
      /\ uri \in [Workers -> Pointers]
      /\ current \in [Workers -> Nat]
      /\ last \in Pointers
      /\ last # Null => line[last.of] = last.line /\ step[last.of] \in {"uri", "referer"}
      /\ bytes \in Nat
      /\ refers \in [Refs -> Nat]
      /\ uris \in [Uris \cup {Proto, Junk} -> Nat]
      /\ opened \subseteq running \cup finished
      /\ mixed \in BOOLEAN
      /\ stored \subseteq DOMAIN uris /\ \A u \in DOMAIN uris \ stored : uris[u] = 0
      /\ droppedRefs \subseteq Lines /\ droppedUris \subseteq Lines
  BY DEF Placed, TypeOK
<1>2. \A p \in Pointers \ {Null} : p.of \in Workers /\ p.line \in Lines /\ p.word \in Words
  BY DEF Pointers
<1>3. Null \notin [of : Workers, line : Lines, word : Words]
  BY ContentAssumption DEF Words
<1>4. \A v \in Workers : step[v] \in Active \ {"close"} => line[v] \in Lines
  BY DEF Placed, OneWorkerPerFile
<1> DEFINE LastOK == last # Null => /\ line[last.of] = last.line
                                   /\ step[last.of] \in {"uri", "referer"}
<1>5. CASE UNCHANGED <<parser, running, finished>>
  BY <1>1, <1>5 DEF TypeOK, parser
<1>6. ASSUME NEW w \in Workers, Open(w) \/ OpenFails(w)
      PROVE  TypeOK'
  <2> DEFINE f == Head(pending)
  <2>1. /\ step[w] = "idle" /\ pending # <<>>
        /\ running' = running \cup {f} /\ line' = [line EXCEPT ![w] = <<f, 1>>]
        /\ \/ /\ step' = [step EXCEPT ![w] = StepAt(f, 1)] /\ opened' = opened \cup {f}
              /\ current' = [current EXCEPT ![w] = 0]
           \/ /\ step' = [step EXCEPT ![w] = "failed"] /\ opened' = opened
              /\ current' = current
        /\ UNCHANGED <<finished, uri, last, bytes, refers, uris, stored, mixed,
                       droppedRefs, droppedUris>>
    BY <1>6 DEF Open, OpenFails, Start, Goto
  <2>2. f \in Nat /\ StepAt(f, 1) \in {"method", "close"}
    BY <2>1, FirstLine
  <2> HIDE DEF f
  <2>3. LastOK'
    BY <1>1, <1>2, <2>1, <2>2
  <2>4. step' \in [Workers -> {"idle", "failed", "method", "uri", "referer",
                              "credit", "close"}]
    BY <1>1, <2>1, <2>2
  <2>5. line' \in [Workers -> Nat \X Nat]
    BY <1>1, <2>1, <2>2
  <2>6. current' \in [Workers -> Nat]
    BY <1>1, <2>1
  <2>7. opened' \subseteq running' \cup finished'
    BY <1>1, <2>1
  <2> QED
    BY <1>1, <2>1, <2>3, <2>4, <2>5, <2>6, <2>7 DEF TypeOK
<1>7. ASSUME NEW w \in Workers, GiveUp(w) \/ Close(w)
      PROVE  TypeOK'
  <2>1. /\ step[w] \in {"failed", "close"} /\ step' = [step EXCEPT ![w] = "idle"]
        /\ bytes' \in {bytes, bytes + current[w]}
        /\ running' = running \ {line[w][1]} /\ finished' = finished \cup {line[w][1]}
        /\ UNCHANGED <<line, uri, current, last, refers, uris, stored, opened, mixed,
                       droppedRefs, droppedUris>>
    BY <1>7 DEF GiveUp, Close, Goto, Finish, Total
  <2>2. LastOK'
    BY <1>1, <1>2, <2>1
  <2>3. /\ step' \in [Workers -> {"idle", "failed", "method", "uri", "referer",
                                 "credit", "close"}]
        /\ bytes' \in Nat /\ opened' \subseteq running' \cup finished'
    BY <1>1, <2>1
  <2> QED
    BY <1>1, <2>1, <2>2, <2>3 DEF TypeOK
<1>8. ASSUME NEW w \in Workers, TokenizeMethod(w)
      PROVE  TypeOK'
  <2>1. /\ step[w] = "method" /\ step' = [step EXCEPT ![w] = "uri"]
        /\ last' = [of |-> w, line |-> line[w], word |-> "uri"]
        /\ UNCHANGED <<running, finished, line, uri, current, bytes, refers, uris, stored,
                       opened, mixed, droppedRefs, droppedUris>>
    BY <1>8 DEF TokenizeMethod, Goto, pool
  <2>2. line[w] \in Lines
    BY <1>4, <2>1 DEF Active
  <2>3. last' \in Pointers /\ last' # Null /\ last'.of = w /\ last'.line = line[w]
    BY <1>3, <2>1, <2>2 DEF Pointers, Words
  <2>4. LastOK' /\ step' \in [Workers -> {"idle", "failed", "method", "uri", "referer",
                                         "credit", "close"}]
    BY <1>1, <2>1, <2>3
  <2> QED
    BY <1>1, <2>1, <2>3, <2>4 DEF TypeOK
<1>9. ASSUME NEW w \in Workers, TokenizeUri(w)
      PROVE  TypeOK'
  <2>1. /\ step[w] = "uri" /\ step' = [step EXCEPT ![w] = "referer"]
        /\ uri' = [uri EXCEPT ![w] = last]
        /\ last' = IF last # Null /\ last.word = "uri"
                   THEN [last EXCEPT !.word = "proto"] ELSE Null
        /\ mixed' = (mixed \/ last # [of |-> w, line |-> line[w], word |-> "uri"])
        /\ UNCHANGED <<running, finished, line, current, bytes, refers, uris, stored, opened,
                       droppedRefs, droppedUris>>
    BY <1>9 DEF TokenizeUri, Goto, pool
  <2>2. mixed' \in BOOLEAN
    BY <1>1, <2>1
  <2>3. \/ last' = Null
        \/ /\ last # Null /\ last' \in [of : Workers, line : Lines, word : Words]
           /\ last'.of = last.of /\ last'.line = last.line
    <3>1. CASE last # Null /\ last.word = "uri"
      <4>1. PICK v \in Workers : \E l \in Lines : \E x \in Words :
              last = [of |-> v, line |-> l, word |-> x]
        BY <1>1, <3>1 DEF Pointers
      <4>2. PICK l \in Lines : \E x \in Words : last = [of |-> v, line |-> l, word |-> x]
        BY <4>1
      <4>3. last' = [of |-> v, line |-> l, word |-> "proto"]
        BY <2>1, <3>1, <4>2
      <4> QED
        BY <3>1, <4>2, <4>3 DEF Words
    <3>2. CASE ~(last # Null /\ last.word = "uri")
      BY <2>1, <3>2
    <3> QED
      BY <3>1, <3>2
  <2>4. last' \in Pointers
    BY <2>3 DEF Pointers
  <2>5. step' \in [Workers -> {"idle", "failed", "method", "uri", "referer",
                              "credit", "close"}]
        /\ \A v \in Workers : step[v] \in {"uri", "referer"} => step'[v] \in {"uri", "referer"}
    BY <1>1, <2>1
  <2>6. LastOK'
    BY <1>1, <1>2, <2>1, <2>3, <2>5
  <2>7. uri' \in [Workers -> Pointers]
    BY <1>1, <2>1
  <2> QED
    BY <1>1, <2>1, <2>2, <2>4, <2>5, <2>6, <2>7 DEF TypeOK
<1>10. ASSUME NEW w \in Workers, CountReferer(w)
       PROVE  TypeOK'
  <2>1. /\ step[w] = "referer" /\ step' = [step EXCEPT ![w] = "credit"]
        /\ last' = Null
        /\ refers' = refers \/ refers' = [refers EXCEPT ![Here(w).ref] = @ + 1]
        /\ droppedRefs' \subseteq droppedRefs \cup {line[w]}
        /\ UNCHANGED <<running, finished, line, uri, current, bytes, uris, stored, opened,
                       mixed, droppedUris>>
    BY <1>10 DEF CountReferer, Goto, pool, RequestForgotten
  <2>2. refers' \in [Refs -> Nat] /\ droppedRefs' \subseteq Lines
    <3>1. line[w] \in Lines
      BY <1>4, <2>1 DEF Active
    <3> QED
      BY <1>1, <2>1, <3>1, CounterGrows
  <2>3. last' \in Pointers /\ LastOK'
    BY <2>1 DEF Pointers
  <2>4. step' \in [Workers -> {"idle", "failed", "method", "uri", "referer",
                              "credit", "close"}]
    BY <1>1, <2>1
  <2> QED
    BY <1>1, <2>1, <2>2, <2>3, <2>4 DEF TypeOK
<1>11. ASSUME NEW w \in Workers, CreditUri(w)
       PROVE  TypeOK'
  <2> DEFINE f == line[w][1]
             n == line[w][2]
  <2>1. /\ step[w] = "credit" /\ step' = [step EXCEPT ![w] = StepAt(f, n + 1)]
        /\ line' = [line EXCEPT ![w] = <<f, n + 1>>]
        /\ uri' = [uri EXCEPT ![w] = Null]
        /\ current' = [current EXCEPT ![w] = @ + Here(w).number]
        /\ \/ /\ uri[w] # Null /\ stored' = stored \cup {WordAt(uri[w])}
              /\ uris' = [uris EXCEPT ![WordAt(uri[w])] = @ + Here(w).number]
           \/ UNCHANGED <<uris, stored>>
        /\ droppedUris' \subseteq droppedUris \cup {line[w]}
        /\ UNCHANGED <<running, finished, last, bytes, refers, opened, mixed, droppedRefs>>
    BY <1>11 DEF CreditUri, CountUri, Goto, pool, Credit
  <2>2. /\ line[w] \in Lines /\ f \in Nat /\ n \in Nat
        /\ StepAt(f, n + 1) \in {"method", "close"}
    BY <2>1, NextLine
  <2>3. Here(w).number \in Nat
    BY <2>2, LinesAre DEF Here
  <2> HIDE DEF f, n
  <2>4. LastOK'
    BY <1>1, <1>2, <2>1
  <2>5. step' \in [Workers -> {"idle", "failed", "method", "uri", "referer",
                              "credit", "close"}]
    BY <1>1, <2>1, <2>2
  <2>6. line' \in [Workers -> Nat \X Nat]
    BY <1>1, <2>1, <2>2
  <2>7. uri' \in [Workers -> Pointers]
    BY <1>1, <2>1 DEF Pointers
  <2>8. current' \in [Workers -> Nat]
    BY <1>1, <2>1, <2>3
  <2>9. uris' \in [Uris \cup {Proto, Junk} -> Nat]
    BY <1>1, <2>1, <2>3, CounterGrows
  <2>10. stored' \subseteq DOMAIN uris' /\ \A u \in DOMAIN uris' \ stored' : uris'[u] = 0
    <3>1. CASE UNCHANGED <<uris, stored>>
      BY <1>1, <3>1
    <3>2. CASE /\ uri[w] # Null /\ stored' = stored \cup {WordAt(uri[w])}
               /\ uris' = [uris EXCEPT ![WordAt(uri[w])] = @ + Here(w).number]
      <4>1. uri[w] \in Pointers \ {Null}
        BY <1>1, <3>2
      <4>2. WordAt(uri[w]) \in Uris \cup {Proto, Junk}
        <5>1. LineAt(uri[w].line).uri \in Uris
          BY <1>2, <4>1, LinesAre
        <5> QED
          BY <5>1 DEF WordAt
      <4> QED
        BY <1>1, <3>2, <4>2
    <3> QED
      BY <2>1, <3>1, <3>2
  <2>11. droppedUris' \subseteq Lines
    BY <1>1, <2>1, <2>2
  <2> QED
    BY <1>1, <2>1, <2>4, <2>5, <2>6, <2>7, <2>8, <2>9, <2>10, <2>11 DEF TypeOK
<1> QED
  BY <1>5, <1>6, <1>7, <1>8, <1>9, <1>10, <1>11, OneWorkerMoves
-----------------------------------------------------------------------------
(* Some worker has gone on from the line.                                    *)
LeftBehind(l) ==
  \E w \in Workers : step[w] \in Active /\ line[w][1] = l[1] /\ l[2] < line[w][2]

(* The lines whose bytes were credited, and those whose referer was counted. *)
Credited == {l \in Lines : l[1] \in opened /\ (l[1] \in finished \/ LeftBehind(l))}
Referred == Credited \cup {line[w] : w \in {v \in Workers : step[v] = "credit"}}

(* A line that a worker is at is not credited, and no other worker is at it. *)
LEMMA LineIsNew ==
  ASSUME Placed, NEW w \in Workers, step[w] \in Active \ {"close"}
  PROVE  /\ line[w] \in Lines /\ line[w] \notin Credited
         /\ line[w][1] \in running /\ line[w][1] \notin finished /\ line[w][1] \in opened
         /\ line[w][1] \in Nat /\ line[w][2] \in Nat
         /\ \A v \in Workers : v # w /\ step[v] # "idle" => line[v][1] # line[w][1]
<1>1. /\ line[w] \in Lines /\ line[w][1] \in running /\ line[w][1] \in opened
      /\ step[w] # "idle"
      /\ \A v \in Workers : v # w /\ step[v] # "idle" => line[v][1] # line[w][1]
  BY DEF Placed, OneWorkerPerFile, Active
<1>2. /\ line[w][1] \notin finished /\ line[w][1] \in Nat /\ line[w][2] \in Nat
      /\ \A v \in Workers : line[v][2] \in Nat
  BY <1>1 DEF Placed, FilesInOrder, TypeOK
<1>3. ~LeftBehind(line[w])
  <2>1. ASSUME NEW v \in Workers, step[v] \in Active, line[v][1] = line[w][1],
               line[w][2] < line[v][2]
        PROVE  FALSE
    <3>1. v = w
      BY <1>1, <2>1 DEF Active
    <3> QED
      BY <1>2, <2>1, <3>1
  <2> QED
    BY <2>1 DEF LeftBehind
<1>4. line[w] \notin Credited
  BY <1>2, <1>3 DEF Credited
<1> QED
  BY <1>1, <1>2, <1>4

(* A step credits a line exactly when a worker goes on from it.              *)
LEMMA CreditedStep ==
  ASSUME Placed
  PROVE  /\ \A w \in Workers : CreditUri(w) => Credited' = Credited \cup {line[w]}
         /\ \A w \in Workers :
              \/ Open(w) \/ OpenFails(w) \/ GiveUp(w) \/ Close(w)
              \/ TokenizeMethod(w) \/ TokenizeUri(w) \/ CountReferer(w)
              => Credited' = Credited
         /\ UNCHANGED <<parser, running, finished>> => Credited' = Credited
<1>1. /\ OneWorkerPerFile /\ step \in [Workers -> {"idle", "failed", "method", "uri",
                                       "referer", "credit", "close"}]
      /\ line \in [Workers -> Nat \X Nat] /\ opened \subseteq running \cup finished
      /\ running \cap finished = {}
  BY DEF Placed, TypeOK, FilesInOrder
<1>2. ASSUME NEW w \in Workers, CreditUri(w)
      PROVE  Credited' = Credited \cup {line[w]}
  <2> DEFINE f == line[w][1]
             n == line[w][2]
  <2>1. /\ step[w] = "credit" /\ step' = [step EXCEPT ![w] = StepAt(f, n + 1)]
        /\ line' = [line EXCEPT ![w] = <<f, n + 1>>]
        /\ UNCHANGED <<running, finished, opened>>
    BY <1>2 DEF CreditUri, Goto, pool
  <2>2. /\ line[w] \in Lines /\ line[w] = <<f, n>> /\ f \in opened /\ n \in Nat
        /\ StepAt(f, n + 1) \in {"method", "close"}
    BY <2>1, NextLine
  <2>3. /\ step'[w] \in Active /\ step[w] \in Active /\ line'[w] = <<f, n + 1>>
        /\ \A v \in Workers : v # w => step'[v] = step[v] /\ line'[v] = line[v]
    BY <1>1, <2>1, <2>2 DEF Active
  <2> HIDE DEF f, n
  <2>4. ASSUME NEW l \in Lines
        PROVE  LeftBehind(l)' <=> LeftBehind(l) \/ l = line[w]
    <3>1. l = <<l[1], l[2]>> /\ l[2] \in Nat
      BY LinesAre
    <3>2. LeftBehind(l)' <=> \/ f = l[1] /\ l[2] < n + 1
                             \/ \E v \in Workers \ {w} : /\ step[v] \in Active
                                                         /\ line[v][1] = l[1]
                                                         /\ l[2] < line[v][2]
      <4>1. LeftBehind(l)' <=> \/ line'[w][1] = l[1] /\ l[2] < line'[w][2]
                               \/ \E v \in Workers \ {w} : /\ step'[v] \in Active
                                                           /\ line'[v][1] = l[1]
                                                           /\ l[2] < line'[v][2]
        BY <2>3 DEF LeftBehind
      <4> QED
        BY <2>3, <4>1
    <3>3. LeftBehind(l) <=> \/ f = l[1] /\ l[2] < n
                            \/ \E v \in Workers \ {w} : /\ step[v] \in Active
                                                        /\ line[v][1] = l[1]
                                                        /\ l[2] < line[v][2]
      BY <2>3 DEF LeftBehind, f, n
    <3>4. l[2] < n + 1 <=> l[2] < n \/ l[2] = n
      BY <2>2, <3>1
    <3>5. l = line[w] <=> l[1] = f /\ l[2] = n
      BY <2>2, <3>1
    <3> QED
      BY <3>2, <3>3, <3>4, <3>5
  <2>5. line[w][1] \in opened
    BY <2>2 DEF f
  <2> QED
    BY <2>1, <2>2, <2>4, <2>5 DEF Credited
<1>3. ASSUME NEW w \in Workers, Open(w) \/ OpenFails(w)
      PROVE  Credited' = Credited
  <2> DEFINE f == Head(pending)
  <2>1. /\ step[w] = "idle" /\ pending # <<>>
        /\ line' = [line EXCEPT ![w] = <<f, 1>>] /\ UNCHANGED finished
        /\ \/ /\ step' = [step EXCEPT ![w] = StepAt(f, 1)] /\ opened' = opened \cup {f}
           \/ /\ step' = [step EXCEPT ![w] = "failed"] /\ opened' = opened
    BY <1>3 DEF Open, OpenFails, Start, Goto
  <2>2. f \notin running \cup finished \cup opened
    BY <2>1, HeadIsNew
  <2> HIDE DEF f
  <2>3. /\ line'[w] = <<f, 1>>
        /\ \A v \in Workers : v # w => step'[v] = step[v] /\ line'[v] = line[v]
    BY <1>1, <2>1
  <2>4. ASSUME NEW l \in Lines
        PROVE  LeftBehind(l)' <=> LeftBehind(l)
    <3>1. l[2] \in Nat /\ l[2] >= 1
      BY LinesAre
    <3>2. ~(l[2] < line'[w][2])
      BY <2>3, <3>1
    <3>3. step[w] \notin Active
      BY <2>1 DEF Active
    <3> QED
      BY <2>3, <3>2, <3>3 DEF LeftBehind
  <2>5. ASSUME NEW l \in Lines, l[1] = f
        PROVE  ~LeftBehind(l) /\ l[1] \notin finished
    BY <1>1, <2>2, <2>5 DEF LeftBehind, OneWorkerPerFile, Active
  <2> QED
    BY <2>1, <2>4, <2>5 DEF Credited
<1>4. ASSUME NEW w \in Workers, GiveUp(w) \/ Close(w)
      PROVE  Credited' = Credited
  <2> DEFINE f == line[w][1]
  <2>1. /\ step[w] \in {"failed", "close"} /\ step' = [step EXCEPT ![w] = "idle"]
        /\ finished' = finished \cup {f} /\ UNCHANGED <<line, opened>>
    BY <1>4 DEF GiveUp, Close, Goto, Finish
  <2>2. /\ step'[w] = "idle" /\ \A v \in Workers : v # w => step'[v] = step[v]
    BY <1>1, <2>1
  <2>3. ASSUME NEW l \in Lines, l[1] # f
        PROVE  LeftBehind(l)' <=> LeftBehind(l)
    BY <2>1, <2>2, <2>3 DEF LeftBehind
  <2>4. ASSUME NEW l \in Lines, l[1] = f, f \in opened
        PROVE  LeftBehind(l)
    <3>1. step[w] = "close" /\ line[w][2] = Len(Content[f]) + 1
      BY <1>1, <2>1, <2>4 DEF OneWorkerPerFile
    <3>2. l[2] \in 1 .. Len(Content[f]) /\ Len(Content[f]) \in Nat
      BY <2>4, LinesAre
    <3>3. l[2] < line[w][2]
      BY <3>1, <3>2
    <3> QED
      BY <2>4, <3>1, <3>3 DEF LeftBehind, Active
  <2>5. ASSUME NEW l \in Lines
        PROVE  l \in Credited' <=> l \in Credited
    <3>1. CASE l[1] # f
      BY <2>1, <2>3, <3>1 DEF Credited
    <3>2. CASE l[1] = f
      BY <2>1, <2>4, <3>2 DEF Credited
    <3> QED
      BY <3>1, <3>2
  <2> HIDE DEF f
  <2> QED
    BY <2>5 DEF Credited
<1>5. ASSUME NEW w \in Workers, TokenizeMethod(w) \/ TokenizeUri(w) \/ CountReferer(w)
      PROVE  Credited' = Credited
  <2>1. /\ step[w] \in {"method", "uri", "referer"}
        /\ \E to \in {"uri", "referer", "credit"} : step' = [step EXCEPT ![w] = to]
        /\ UNCHANGED <<finished, line, opened>>
    BY <1>5 DEF TokenizeMethod, TokenizeUri, CountReferer, Goto, pool
  <2>2. \A v \in Workers : step'[v] \in Active <=> step[v] \in Active
    BY <1>1, <2>1 DEF Active
  <2>3. \A l \in Lines : LeftBehind(l)' <=> LeftBehind(l)
    BY <2>1, <2>2 DEF LeftBehind
  <2> QED
    BY <2>1, <2>3 DEF Credited
<1>6. ASSUME UNCHANGED <<parser, running, finished>>
      PROVE  Credited' = Credited
  <2>1. UNCHANGED <<step, line, opened, finished>>
    BY <1>6 DEF parser
  <2>2. \A l \in Lines : LeftBehind(l)' <=> LeftBehind(l)
    BY <2>1 DEF LeftBehind
  <2> QED
    BY <2>1, <2>2 DEF Credited
<1> QED
  BY <1>2, <1>3, <1>4, <1>5, <1>6

(* A step counts a line's referer exactly when a worker has cut it.          *)
LEMMA ReferredStep ==
  ASSUME Placed
  PROVE  /\ \A w \in Workers :
              CountReferer(w) => /\ line[w] \in Lines /\ line[w] \notin Referred
                                 /\ Referred' = Referred \cup {line[w]}
         /\ \A w \in Workers :
              \/ Open(w) \/ OpenFails(w) \/ GiveUp(w) \/ Close(w)
              \/ TokenizeMethod(w) \/ TokenizeUri(w) \/ CreditUri(w)
              => Referred' = Referred
         /\ UNCHANGED <<parser, running, finished>> => Referred' = Referred
<1> DEFINE At == {line[v] : v \in {u \in Workers : step[u] = "credit"}}
<1>1. /\ step \in [Workers -> {"idle", "failed", "method", "uri", "referer",
                               "credit", "close"}]
      /\ line \in [Workers -> Nat \X Nat]
  BY DEF Placed, TypeOK
<1>2. ASSUME NEW w \in Workers, CountReferer(w)
      PROVE  /\ line[w] \in Lines /\ line[w] \notin Referred
             /\ Referred' = Referred \cup {line[w]}
  <2>1. /\ step[w] = "referer" /\ step' = [step EXCEPT ![w] = "credit"] /\ line' = line
    BY <1>2 DEF CountReferer, Goto
  <2>2. /\ line[w] \in Lines /\ line[w] \notin Credited
        /\ \A v \in Workers : v # w /\ step[v] # "idle" => line[v][1] # line[w][1]
    BY <2>1, LineIsNew DEF Active
  <2>3. line[w] \notin At
    BY <2>1, <2>2
  <2>4. At' = At \cup {line[w]}
    BY <1>1, <2>1
  <2>5. Credited' = Credited
    BY <1>2, CreditedStep
  <2> QED
    BY <2>2, <2>3, <2>4, <2>5 DEF Referred
<1>3. ASSUME NEW w \in Workers, CreditUri(w)
      PROVE  Referred' = Referred
  <2> DEFINE to == StepAt(line[w][1], line[w][2] + 1)
  <2>1. /\ step[w] = "credit" /\ step' = [step EXCEPT ![w] = to] /\ to \in {"method", "close"}
    BY <1>3, NextLine DEF CreditUri, Goto
  <2>2. \A v \in Workers : v # w => line'[v] = line[v]
    BY <1>1, <1>3 DEF CreditUri
  <2> HIDE DEF to
  <2>3. At = At' \cup {line[w]}
    BY <1>1, <2>1, <2>2
  <2>4. Credited' = Credited \cup {line[w]}
    BY <1>3, CreditedStep
  <2> QED
    BY <2>3, <2>4 DEF Referred
<1>4. ASSUME NEW w \in Workers, Open(w) \/ OpenFails(w) \/ GiveUp(w) \/ Close(w)
      PROVE  Referred' = Referred
  <2>1. /\ step[w] \in {"idle", "failed", "close"}
        /\ \E to \in {"idle", "failed", "method", "close"} : step' = [step EXCEPT ![w] = to]
    <3>1. CASE Open(w)
      BY <3>1, FirstLine DEF Open, Start
    <3>2. CASE OpenFails(w) \/ GiveUp(w) \/ Close(w)
      BY <3>2 DEF OpenFails, GiveUp, Close, Goto
    <3> QED
      BY <1>4, <3>1, <3>2
  <2>2. \A v \in Workers : v # w => line'[v] = line[v]
    BY <1>1, <1>4 DEF Open, OpenFails, GiveUp, Close
  <2>3. \A v \in Workers : /\ step'[v] = "credit" <=> step[v] = "credit"
                           /\ step[v] = "credit" => line'[v] = line[v]
    BY <1>1, <2>1, <2>2
  <2>4. At' = At
    BY <2>3
  <2>5. Credited' = Credited
    BY <1>4, CreditedStep
  <2> QED
    BY <2>4, <2>5 DEF Referred
<1>5. ASSUME NEW w \in Workers, TokenizeMethod(w) \/ TokenizeUri(w)
      PROVE  Referred' = Referred
  <2>1. /\ step[w] \in {"method", "uri"} /\ line' = line
        /\ \E to \in {"uri", "referer"} : step' = [step EXCEPT ![w] = to]
    BY <1>5 DEF TokenizeMethod, TokenizeUri, Goto
  <2>2. \A v \in Workers : step'[v] = "credit" <=> step[v] = "credit"
    BY <1>1, <2>1
  <2>3. At' = At
    BY <2>1, <2>2
  <2>4. Credited' = Credited
    BY <1>5, CreditedStep
  <2> QED
    BY <2>3, <2>4 DEF Referred
<1>6. ASSUME UNCHANGED <<parser, running, finished>>
      PROVE  Referred' = Referred
  <2>1. At' = At /\ Credited' = Credited
    BY <1>6, CreditedStep DEF parser
  <2> QED
    BY <2>1 DEF Referred
<1> QED
  BY <1>2, <1>3, <1>4, <1>5, <1>6

(* The lines of the files that were read to the end, and of one file.        *)
Done == {l \in Lines : l[1] \in opened \cap finished}
LinesOf(f) == {l \in Lines : l[1] = f}

(* The lines of its file that a worker has gone on from.                     *)
Before(w) == {l \in Lines : l[1] = line[w][1] /\ l[2] < line[w][2]}

(* A file that was read is done with when its worker closes it.              *)
LEMMA DoneStep ==
  ASSUME Placed
  PROVE  /\ \A w \in Workers :
              Close(w) => /\ Done' = Done \cup LinesOf(line[w][1])
                          /\ Done \cap LinesOf(line[w][1]) = {}
                          /\ Before(w) = LinesOf(line[w][1])
         /\ \A w \in Workers :
              \/ Open(w) \/ OpenFails(w) \/ GiveUp(w) \/ CreditUri(w)
              \/ TokenizeMethod(w) \/ TokenizeUri(w) \/ CountReferer(w)
              => Done' = Done
         /\ UNCHANGED <<parser, running, finished>> => Done' = Done
<1>1. ASSUME NEW w \in Workers, Close(w)
      PROVE  /\ Done' = Done \cup LinesOf(line[w][1])
             /\ Done \cap LinesOf(line[w][1]) = {}
             /\ Before(w) = LinesOf(line[w][1])
  <2> DEFINE f == line[w][1]
  <2>1. /\ step[w] = "close" /\ finished' = finished \cup {f} /\ opened' = opened
    BY <1>1 DEF Close, Goto, Finish
  <2>2. /\ f \in running /\ f \in opened /\ f \notin finished
        /\ line[w][2] = Len(Content[f]) + 1
    BY <2>1 DEF Placed, OneWorkerPerFile, FilesInOrder, Active
  <2>3. \A l \in Lines : l[1] = f => l[2] < line[w][2]
    <3>1. ASSUME NEW l \in Lines, l[1] = f
          PROVE  l[2] < line[w][2]
      <4>1. l[2] \in 1 .. Len(Content[f]) /\ Len(Content[f]) \in Nat
        BY <3>1, LinesAre
      <4> QED
        BY <2>2, <4>1
    <3> QED
      BY <3>1
  <2> HIDE DEF f
  <2>4. Done' = Done \cup LinesOf(f) /\ Done \cap LinesOf(f) = {}
    BY <2>1, <2>2 DEF Done, LinesOf
  <2>5. Before(w) = LinesOf(f)
    BY <2>3 DEF Before, LinesOf, f
  <2> QED
    BY <2>4, <2>5 DEF f
<1>2. ASSUME NEW w \in Workers, Open(w) \/ OpenFails(w)
      PROVE  Done' = Done
  <2>1. /\ pending # <<>> /\ finished' = finished
        /\ opened' = opened \cup {Head(pending)} \/ opened' = opened
    BY <1>2 DEF Open, OpenFails, Start
  <2>2. Head(pending) \notin finished
    BY <2>1, HeadIsNew
  <2> QED
    BY <2>1, <2>2 DEF Done
<1>3. ASSUME NEW w \in Workers, GiveUp(w)
      PROVE  Done' = Done
  <2>1. /\ step[w] = "failed" /\ finished' = finished \cup {line[w][1]} /\ opened' = opened
    BY <1>3 DEF GiveUp, Goto, Finish
  <2>2. line[w][1] \notin opened
    BY <2>1 DEF Placed, OneWorkerPerFile
  <2> QED
    BY <2>1, <2>2 DEF Done
<1>4. ASSUME NEW w \in Workers, \/ CreditUri(w) \/ TokenizeMethod(w)
                               \/ TokenizeUri(w) \/ CountReferer(w)
      PROVE  Done' = Done
  <2>1. UNCHANGED <<opened, finished>>
    BY <1>4 DEF CreditUri, TokenizeMethod, TokenizeUri, CountReferer, pool
  <2> QED
    BY <2>1 DEF Done
<1>5. ASSUME UNCHANGED <<parser, running, finished>>
      PROVE  Done' = Done
  BY <1>5 DEF Done, parser
<1> QED
  BY <1>1, <1>2, <1>3, <1>4, <1>5
-----------------------------------------------------------------------------
(* The sizes of the lines.                                                   *)
Numbers == [l \in Lines |-> LineAt(l).number]

(* The sums that the properties speak of.                                    *)
LEMMA NumbersSum ==
  ASSUME NEW S \in SUBSET Lines
  PROVE  Totals!MapThenSumSet(NumberOf, S) = Sum(Numbers, S)
<1> DEFINE P(g) == g = [s \in SUBSET S |->
                          IF s = {} THEN 0 ELSE LineAt(Pick(s)).number + g[s \ {Pick(s)}]]
<1>1. Totals!MapThenSumSet(NumberOf, S) = (CHOOSE g : P(g))[S]
  BY DEF Totals!MapThenSumSet, Totals!MapThenFoldSet, Pick, NumberOf
<1>2. ASSUME NEW g
      PROVE  P(g) <=> SumsOver(Numbers, S, g)
  <2>1. ASSUME NEW s \in SUBSET S
        PROVE  (IF s = {} THEN 0 ELSE LineAt(Pick(s)).number + g[s \ {Pick(s)}])
                 = (IF s = {} THEN 0 ELSE Numbers[Pick(s)] + g[s \ {Pick(s)}])
    <3>1. s # {} => Pick(s) \in s
      BY DEF Pick
    <3>2. s # {} => Numbers[Pick(s)] = LineAt(Pick(s)).number
      BY <3>1 DEF Numbers
    <3> QED
      BY <3>2
  <2> QED
    BY <2>1 DEF SumsOver
<1> HIDE DEF P
<1>3. (CHOOSE g : P(g)) = (CHOOSE g : SumsOver(Numbers, S, g))
  BY <1>2
<1> QED
  BY <1>1, <1>3 DEF Sum

(* The sum of a table's counters.                                            *)
LEMMA TotalsSum ==
  ASSUME NEW f, NEW S
  PROVE  Totals!MapThenSumSet(LAMBDA u : f[u], S) = Sum(f, S)
BY DEF Totals!MapThenSumSet, Totals!MapThenFoldSet, Sum, SumsOver, Pick

(* Some of the lines have a size; one line more adds its own to it.          *)
LEMMA LineAdds ==
  /\ \A S \in SUBSET Lines : IsFiniteSet(S) /\ Sum(Numbers, S) \in Nat
  /\ \A S \in SUBSET Lines : \A l \in Lines \ S :
       Sum(Numbers, S \cup {l}) = Sum(Numbers, S) + LineAt(l).number
<1>1. \A l \in Lines : Numbers[l] \in Nat /\ Numbers[l] = LineAt(l).number
  BY LinesAre DEF Numbers
<1>2. ASSUME NEW S \in SUBSET Lines
      PROVE  IsFiniteSet(S) /\ Sum(Numbers, S) \in Nat
  <2>1. IsFiniteSet(S)
    BY LinesFinite, FS_Subset
  <2> QED
    BY <1>1, <2>1, SumType
<1>3. ASSUME NEW S \in SUBSET Lines, NEW l \in Lines \ S
      PROVE  Sum(Numbers, S \cup {l}) = Sum(Numbers, S) + LineAt(l).number
  <2> DEFINE T == S \cup {l}
  <2>1. T \in SUBSET Lines /\ l \in T /\ T \ {l} = S
    OBVIOUS
  <2>2. IsFiniteSet(T) /\ \A x \in T : Numbers[x] \in Nat
    BY <1>1, <1>2, <2>1
  <2> HIDE DEF T
  <2>3. Sum(Numbers, T) = Numbers[l] + Sum(Numbers, T \ {l})
    BY <2>1, <2>2, SumTakesAny
  <2>4. Numbers[l] \in Nat /\ Numbers[l] = LineAt(l).number /\ Sum(Numbers, S) \in Nat
    BY <1>1, <1>2
  <2>5. Sum(Numbers, T \ {l}) = Sum(Numbers, S)
    BY <2>1, Zenon
  <2>6. Sum(Numbers, T) = Sum(Numbers, S) + LineAt(l).number
    BY <2>3, <2>4, <2>5
  <2> QED
    BY <2>6 DEF T
<1> QED
  BY <1>2, <1>3

(* What every counter holds at any time: the size of the files that were     *)
(* read, that of the lines a worker has gone on from, and of each referer    *)
(* how often it was cut and not dropped; and the URIs together not more than *)
(* was credited.                                                             *)
CurrentCounted ==
  \A w \in Workers : step[w] \in Active => current[w] = Sum(Numbers, Before(w))
Counters ==
  /\ bytes = Sum(Numbers, Done)
  /\ CurrentCounted
  /\ \A r \in Refs :
       refers[r] = Cardinality({l \in Referred \ droppedRefs : LineAt(l).ref = r})
  /\ Sum(uris, DOMAIN uris) <= Sum(Numbers, Credited)
  /\ droppedRefs \subseteq Referred /\ droppedUris \subseteq Credited

(* Until two workers meet in strtok a worker's pointer is to its own word,   *)
(* and each URI has the bytes of the lines it was credited for.              *)
OwnWords ==
  /\ \A w \in Workers : step[w] \in {"referer", "credit"} =>
       uri[w] = [of |-> w, line |-> line[w], word |-> "uri"]
  /\ \A u \in Uris :
       uris[u] = Sum(Numbers, {l \in Credited \ droppedUris : LineAt(l).uri = u})

ParserInv == Placed /\ Counters /\ (~mixed => OwnWords)

(* The total is added to once for each file that was read, with its size.    *)
LEMMA BytesStep ==
  ASSUME ParserInv, [Next]_vars
  PROVE  bytes' = Sum(Numbers, Done')
<1>1. Placed /\ bytes = Sum(Numbers, Done)
  BY DEF ParserInv, Counters
<1>2. ASSUME NEW w \in Workers, Close(w)
      PROVE  bytes' = Sum(Numbers, Done')
  <2> DEFINE T == LinesOf(line[w][1])
  <2>1. /\ bytes' = bytes + current[w] /\ step[w] = "close"
    BY <1>2 DEF Close, Total, Goto
  <2>2. current[w] = Sum(Numbers, Before(w))
    BY <2>1 DEF ParserInv, Counters, CurrentCounted, Active
  <2>3. Done' = Done \cup T /\ Done \cap T = {} /\ Before(w) = T
    BY <1>1, <1>2, DoneStep
  <2>4. Done \in SUBSET Lines /\ T \in SUBSET Lines
    BY DEF Done, LinesOf
  <2>5. IsFiniteSet(Done) /\ IsFiniteSet(T) /\ \A l \in Done \cup T : Numbers[l] \in Nat
    BY <2>4, LineAdds, LinesAre DEF Numbers
  <2> HIDE DEF T
  <2>6. Sum(Numbers, Done \cup T) = Sum(Numbers, Done) + Sum(Numbers, T)
    BY <2>3, <2>5, SumUnion
  <2> QED
    BY <1>1, <2>1, <2>2, <2>3, <2>6
<1>3. ASSUME NEW w \in Workers, \/ Open(w) \/ OpenFails(w) \/ GiveUp(w) \/ CreditUri(w)
                                \/ TokenizeMethod(w) \/ TokenizeUri(w) \/ CountReferer(w)
      PROVE  bytes' = Sum(Numbers, Done')
  <2>1. bytes' = bytes
    BY <1>3 DEF Open, OpenFails, GiveUp, CreditUri, TokenizeMethod, TokenizeUri, CountReferer
  <2>2. Done' = Done
    BY <1>1, <1>3, DoneStep
  <2> QED
    BY <1>1, <2>1, <2>2
<1>4. CASE UNCHANGED <<parser, running, finished>>
  <2>1. bytes' = bytes /\ Done' = Done
    BY <1>1, <1>4, DoneStep DEF parser
  <2> QED
    BY <1>1, <2>1
<1> QED
  BY <1>2, <1>3, <1>4, OneWorkerMoves

(* What a worker has added up goes with the line it is at.                   *)
LEMMA CurrentStep ==
  ASSUME ParserInv, [Next]_vars
  PROVE  CurrentCounted'
<1>1. /\ Placed /\ CurrentCounted
      /\ step \in [Workers -> {"idle", "failed", "method", "uri", "referer",
                               "credit", "close"}]
      /\ line \in [Workers -> Nat \X Nat] /\ current \in [Workers -> Nat]
  BY DEF ParserInv, Counters, Placed, TypeOK
<1>2. ASSUME NEW v \in Workers, step'[v] \in Active,
             step[v] \in Active, current'[v] = current[v], line'[v] = line[v]
      PROVE  current'[v] = Sum(Numbers, Before(v)')
  <2>1. Before(v)' = Before(v)
    BY <1>2 DEF Before
  <2> QED
    BY <1>1, <1>2, <2>1 DEF CurrentCounted
<1>3. ASSUME NEW w \in Workers, Open(w)
      PROVE  CurrentCounted'
  <2>1. /\ line' = [line EXCEPT ![w] = <<Head(pending), 1>>]
        /\ current' = [current EXCEPT ![w] = 0]
        /\ \A v \in Workers : v # w => step'[v] = step[v]
    BY <1>1, <1>3 DEF Open
  <2>2. current'[w] = 0 /\ line'[w][2] = 1
    BY <1>1, <2>1
  <2>3. Before(w)' = {}
    <3>1. \A l \in Lines : l[2] \in Nat /\ l[2] >= 1
      BY LinesAre
    <3>2. \A l \in Lines : ~(l[2] < line'[w][2])
      BY <2>2, <3>1
    <3> QED
      BY <3>2 DEF Before
  <2>4. current'[w] = Sum(Numbers, Before(w)')
    BY <2>2, <2>3, SumEmpty
  <2>5. \A v \in Workers : v # w => current'[v] = current[v] /\ line'[v] = line[v]
    BY <1>1, <2>1
  <2> QED
    BY <1>2, <2>1, <2>4, <2>5 DEF CurrentCounted
<1>4. ASSUME NEW w \in Workers, CreditUri(w)
      PROVE  CurrentCounted'
  <2> DEFINE f == line[w][1]
             n == line[w][2]
  <2>1. /\ line' = [line EXCEPT ![w] = <<f, n + 1>>] /\ step[w] = "credit"
        /\ current' = [current EXCEPT ![w] = @ + Here(w).number]
        /\ \A v \in Workers : v # w => step'[v] = step[v]
    BY <1>1, <1>4 DEF CreditUri, Goto
  <2>2. line[w] \in Lines /\ line[w] = <<f, n>> /\ n \in Nat
    BY <1>1, <2>1, NextLine
  <2>3. current'[w] = current[w] + LineAt(line[w]).number /\ line'[w] = <<f, n + 1>>
    BY <1>1, <2>1 DEF Here
  <2>4. line[w] \notin Before(w) /\ Before(w) \in SUBSET Lines
    BY <2>2 DEF Before
  <2>5. Before(w)' = Before(w) \cup {line[w]}
    <3> HIDE DEF f, n
    <3>1. ASSUME NEW l \in Lines
          PROVE  l[1] = f /\ l[2] < n + 1 <=> (l[1] = f /\ l[2] < n) \/ l = line[w]
      <4>1. l = <<l[1], l[2]>> /\ l[2] \in Nat
        BY LinesAre
      <4>2. l[2] < n + 1 <=> l[2] < n \/ l[2] = n
        BY <2>2, <4>1
      <4> QED
        BY <2>2, <4>1, <4>2
    <3>2. Before(w)' = {l \in Lines : l[1] = f /\ l[2] < n + 1}
      BY <2>3 DEF Before
    <3>3. Before(w) = {l \in Lines : l[1] = f /\ l[2] < n}
      BY DEF Before, f, n
    <3> QED
      BY <2>2, <3>1, <3>2, <3>3
  <2>6. current[w] = Sum(Numbers, Before(w))
    BY <1>1, <2>1 DEF CurrentCounted, Active
  <2>7. current'[w] = Sum(Numbers, Before(w)')
    BY <2>2, <2>3, <2>4, <2>5, <2>6, LineAdds
  <2>8. \A v \in Workers : v # w => current'[v] = current[v] /\ line'[v] = line[v]
    BY <1>1, <2>1
  <2> QED
    BY <1>2, <2>1, <2>7, <2>8 DEF CurrentCounted
<1>5. ASSUME NEW w \in Workers, \/ OpenFails(w) \/ GiveUp(w) \/ Close(w)
                                \/ TokenizeMethod(w) \/ TokenizeUri(w) \/ CountReferer(w)
      PROVE  CurrentCounted'
  <2>1. /\ current' = current
        /\ \E to \in {"failed", "idle"} \cup Active :
             /\ step' = [step EXCEPT ![w] = to]
             /\ \/ to \notin Active
                \/ step[w] \in Active /\ line' = line
        /\ \A v \in Workers : v # w => line'[v] = line[v]
    BY <1>1, <1>5 DEF OpenFails, GiveUp, Close, TokenizeMethod, TokenizeUri, CountReferer,
                      Goto, Active
  <2>2. /\ \A v \in Workers : step'[v] \in Active => step[v] \in Active /\ line'[v] = line[v]
    BY <1>1, <2>1
  <2> QED
    BY <1>2, <2>1, <2>2 DEF CurrentCounted
<1>6. CASE UNCHANGED <<parser, running, finished>>
  <2>1. UNCHANGED <<step, line, current>>
    BY <1>6 DEF parser
  <2> QED
    BY <1>2, <2>1 DEF CurrentCounted
<1> QED
  BY <1>3, <1>4, <1>5, <1>6, OneWorkerMoves

(* Only lines that were counted or would have been are left out.             *)
LEMMA DroppedStep ==
  ASSUME ParserInv, [Next]_vars
  PROVE  droppedRefs' \subseteq Referred' /\ droppedUris' \subseteq Credited'
<1>1. Placed /\ droppedRefs \subseteq Referred /\ droppedUris \subseteq Credited
  BY DEF ParserInv, Counters
<1>2. ASSUME NEW w \in Workers, CountReferer(w)
      PROVE  droppedRefs' \subseteq Referred' /\ droppedUris' \subseteq Credited'
  <2>1. droppedRefs' \subseteq droppedRefs \cup {line[w]} /\ droppedUris' = droppedUris
    BY <1>2 DEF CountReferer
  <2>2. Referred' = Referred \cup {line[w]} /\ Credited' = Credited
    BY <1>1, <1>2, ReferredStep, CreditedStep
  <2> QED
    BY <1>1, <2>1, <2>2
<1>3. ASSUME NEW w \in Workers, CreditUri(w)
      PROVE  droppedRefs' \subseteq Referred' /\ droppedUris' \subseteq Credited'
  <2>1. droppedUris' \subseteq droppedUris \cup {line[w]} /\ droppedRefs' = droppedRefs
    BY <1>3 DEF CreditUri, CountUri
  <2>2. Referred' = Referred /\ Credited' = Credited \cup {line[w]}
    BY <1>1, <1>3, ReferredStep, CreditedStep
  <2> QED
    BY <1>1, <2>1, <2>2
<1>4. ASSUME NEW w \in Workers, \/ Open(w) \/ OpenFails(w) \/ GiveUp(w) \/ Close(w)
                                \/ TokenizeMethod(w) \/ TokenizeUri(w)
      PROVE  droppedRefs' \subseteq Referred' /\ droppedUris' \subseteq Credited'
  <2>1. UNCHANGED <<droppedRefs, droppedUris>>
    BY <1>4 DEF Open, OpenFails, GiveUp, Close, TokenizeMethod, TokenizeUri
  <2>2. Referred' = Referred /\ Credited' = Credited
    BY <1>1, <1>4, ReferredStep, CreditedStep
  <2> QED
    BY <1>1, <2>1, <2>2
<1>5. CASE UNCHANGED <<parser, running, finished>>
  <2>1. UNCHANGED <<droppedRefs, droppedUris>>
    BY <1>5 DEF parser
  <2>2. Referred' = Referred /\ Credited' = Credited
    BY <1>1, <1>5, ReferredStep, CreditedStep
  <2> QED
    BY <1>1, <2>1, <2>2
<1> QED
  BY <1>2, <1>3, <1>4, <1>5, OneWorkerMoves

(* A referer is counted once for each line it was cut from, or dropped.      *)
LEMMA RefersStep ==
  ASSUME ParserInv, [Next]_vars
  PROVE  \A r \in Refs :
           refers'[r] = Cardinality({l \in Referred' \ droppedRefs' : LineAt(l).ref = r})
<1>1. /\ Placed /\ refers \in [Refs -> Nat] /\ droppedRefs \subseteq Referred
      /\ \A r \in Refs :
           refers[r] = Cardinality({l \in Referred \ droppedRefs : LineAt(l).ref = r})
  BY DEF ParserInv, Counters, Placed, TypeOK
<1>2. Referred \in SUBSET Lines
  BY <1>1 DEF Placed, OneWorkerPerFile, Active, Referred, Credited
<1>3. ASSUME NEW w \in Workers, CountReferer(w), NEW r \in Refs
      PROVE  refers'[r] = Cardinality({l \in Referred' \ droppedRefs' : LineAt(l).ref = r})
  <2> DEFINE S == {l \in Referred \ droppedRefs : LineAt(l).ref = r}
             q == LineAt(line[w]).ref
  <2>1. /\ line[w] \in Lines /\ line[w] \notin Referred /\ Referred' = Referred \cup {line[w]}
    BY <1>1, <1>3, ReferredStep
  <2>2. \/ q = NoRef /\ UNCHANGED <<refers, droppedRefs>>
        \/ q # NoRef /\ refers' = [refers EXCEPT ![q] = @ + 1] /\ UNCHANGED droppedRefs
        \/ droppedRefs' = droppedRefs \cup {line[w]} /\ UNCHANGED refers
    BY <1>3 DEF CountReferer, Here
  <2>3. r # NoRef /\ refers[r] = Cardinality(S)
    BY <1>1 DEF Refs
  <2>4. IsFiniteSet(S) /\ line[w] \notin S
    <3>1. S \in SUBSET Lines
      BY <1>2
    <3> QED
      BY <2>1, <3>1, LineAdds
  <2>5. CASE q = r /\ UNCHANGED droppedRefs /\ refers' = [refers EXCEPT ![q] = @ + 1]
    <3>1. {l \in Referred' \ droppedRefs' : LineAt(l).ref = r} = S \cup {line[w]}
      BY <1>1, <2>1, <2>5
    <3> HIDE DEF S, q
    <3>2. Cardinality(S \cup {line[w]}) = Cardinality(S) + 1
      BY <2>4, FS_AddElement
    <3>3. refers'[r] = refers[r] + 1
      BY <1>1, <2>3, <2>5
    <3> QED
      BY <2>3, <3>1, <3>2, <3>3
  <2>6. CASE q # r /\ UNCHANGED droppedRefs
    <3>1. {l \in Referred' \ droppedRefs' : LineAt(l).ref = r} = S
      BY <2>1, <2>6
    <3> HIDE DEF S, q
    <3>2. refers'[r] = refers[r]
      BY <1>1, <2>2, <2>6
    <3> QED
      BY <2>3, <3>1, <3>2
  <2>7. CASE droppedRefs' = droppedRefs \cup {line[w]} /\ UNCHANGED refers
    <3>1. {l \in Referred' \ droppedRefs' : LineAt(l).ref = r} = S
      BY <2>1, <2>7
    <3> HIDE DEF S, q
    <3> QED
      BY <2>3, <2>7, <3>1
  <2> QED
    BY <2>2, <2>3, <2>5, <2>6, <2>7
<1>4. ASSUME NEW w \in Workers, \/ Open(w) \/ OpenFails(w) \/ GiveUp(w) \/ Close(w)
                                \/ TokenizeMethod(w) \/ TokenizeUri(w) \/ CreditUri(w)
      PROVE  UNCHANGED <<refers, droppedRefs>> /\ Referred' = Referred
  <2>1. UNCHANGED <<refers, droppedRefs>>
    BY <1>4 DEF Open, OpenFails, GiveUp, Close, TokenizeMethod, TokenizeUri, CreditUri
  <2> QED
    BY <1>1, <1>4, <2>1, ReferredStep
<1>5. ASSUME UNCHANGED <<parser, running, finished>>
      PROVE  UNCHANGED <<refers, droppedRefs>> /\ Referred' = Referred
  BY <1>1, <1>5, ReferredStep DEF parser
<1>6. CASE UNCHANGED <<refers, droppedRefs>> /\ Referred' = Referred
  BY <1>1, <1>6
<1> QED
  BY <1>3, <1>4, <1>5, <1>6, OneWorkerMoves

(* The table of URIs has finitely many entries.                              *)
LEMMA NamesFinite == IsFiniteSet(Uris \cup {Proto, Junk})
<1> DEFINE g == [l \in Lines |-> LineAt(l).uri]
<1>1. Uris = {g[l] : l \in Lines}
  BY DEF Uris
<1> HIDE DEF g
<1>2. IsFiniteSet(Uris)
  BY <1>1, LinesFinite, ImageFinite
<1>3. IsFiniteSet(Uris \cup {Proto})
  BY <1>2, FS_AddElement
<1>4. IsFiniteSet(Uris \cup {Proto} \cup {Junk})
  BY <1>3, FS_AddElement
<1>5. Uris \cup {Proto, Junk} = Uris \cup {Proto} \cup {Junk}
  OBVIOUS
<1> QED
  BY <1>4, <1>5

(* A credit goes to at most one of the URIs.                                 *)
LEMMA UrisStep ==
  ASSUME ParserInv, [Next]_vars
  PROVE  Sum(uris', DOMAIN uris') <= Sum(Numbers, Credited')
<1> DEFINE D == Uris \cup {Proto, Junk}
<1>1. /\ Placed /\ uris \in [D -> Nat] /\ Sum(uris, DOMAIN uris) <= Sum(Numbers, Credited)
  BY DEF ParserInv, Counters, Placed, TypeOK
<1>2. IsFiniteSet(D)
  BY NamesFinite
<1> HIDE DEF D
<1>3. Sum(uris, D) \in Nat /\ Credited \in SUBSET Lines /\ Sum(Numbers, Credited) \in Nat
  BY <1>1, <1>2, SumType, LineAdds DEF Credited
<1>4. ASSUME NEW w \in Workers, CreditUri(w)
      PROVE  Sum(uris', DOMAIN uris') <= Sum(Numbers, Credited')
  <2> DEFINE d == LineAt(line[w]).number
             u == WordAt(uri[w])
  <2>1. /\ step[w] = "credit"
        /\ uris' = uris \/ uris' = [uris EXCEPT ![u] = @ + d]
    BY <1>4 DEF CreditUri, CountUri, Goto, Credit, Here
  <2>2. line[w] \in Lines /\ line[w] \notin Credited /\ d \in Nat
    BY <1>1, <2>1, LineIsNew, LinesAre DEF Active
  <2>3. Sum(Numbers, Credited') = Sum(Numbers, Credited) + d
    <3>1. Credited' = Credited \cup {line[w]}
      BY <1>1, <1>4, CreditedStep
    <3> QED
      BY <1>3, <2>2, <3>1, LineAdds
  <2> HIDE DEF d, u
  <2>4. uris' \in [D -> Nat]
    BY <1>1, <2>1, <2>2, CounterGrows
  <2>5. CASE uris' = uris
    BY <1>1, <1>3, <2>2, <2>3, <2>5
  <2>6. CASE uris' = [uris EXCEPT ![u] = @ + d] /\ u \in D
    <3>1. uris'[u] = uris[u] + d /\ \A v \in D : v # u => uris'[v] = uris[v]
      BY <1>1, <2>6
    <3>2. /\ \A v \in D : uris[v] \in Nat /\ uris'[v] \in Nat
          /\ DOMAIN uris = D /\ DOMAIN uris' = D
      BY <1>1, <2>4
    <3>3. Sum(uris', D) - uris'[u] = Sum(uris, D) - uris[u]
      <4>1. u \in D
        BY <2>6
      <4> QED
        BY <1>2, <3>1, <3>2, <4>1, SumChanges
    <3>4. Sum(uris', D) \in Nat /\ uris[u] \in Nat
      BY <1>2, <2>6, <3>2, SumType
    <3>5. Sum(uris', D) = Sum(uris, D) + d
      BY <1>3, <2>2, <3>1, <3>3, <3>4
    <3> QED
      BY <1>1, <1>3, <2>2, <2>3, <3>2, <3>5
  <2>7. u \notin D => [uris EXCEPT ![u] = @ + d] = uris
    BY <1>1
  <2> QED
    BY <2>1, <2>5, <2>6, <2>7
<1>5. ASSUME NEW w \in Workers, \/ Open(w) \/ OpenFails(w) \/ GiveUp(w) \/ Close(w)
                                \/ TokenizeMethod(w) \/ TokenizeUri(w) \/ CountReferer(w)
      PROVE  uris' = uris /\ Credited' = Credited
  <2>1. uris' = uris
    BY <1>5 DEF Open, OpenFails, GiveUp, Close, TokenizeMethod, TokenizeUri, CountReferer
  <2> QED
    BY <1>1, <1>5, <2>1, CreditedStep
<1>6. ASSUME UNCHANGED <<parser, running, finished>>
      PROVE  uris' = uris /\ Credited' = Credited
  BY <1>1, <1>6, CreditedStep DEF parser
<1>7. CASE uris' = uris /\ Credited' = Credited
  BY <1>1, <1>7
<1> QED
  BY <1>4, <1>5, <1>6, <1>7, OneWorkerMoves

(* As long as no two workers meet in strtok, a worker credits its own URI.   *)
LEMMA OwnStep ==
  ASSUME ParserInv, [Next]_vars, ~mixed'
  PROVE  OwnWords'
<1>1. /\ Placed /\ (~mixed => OwnWords) /\ droppedUris \subseteq Credited
      /\ step \in [Workers -> {"idle", "failed", "method", "uri", "referer",
                               "credit", "close"}]
      /\ line \in [Workers -> Nat \X Nat] /\ uri \in [Workers -> Pointers]
      /\ uris \in [Uris \cup {Proto, Junk} -> Nat]
  BY DEF ParserInv, Counters, Placed, TypeOK
<1> DEFINE Own(v) == [of |-> v, line |-> line[v], word |-> "uri"]
           Of(u) == {l \in Credited \ droppedUris : LineAt(l).uri = u}
           Own1 == \A v \in Workers : step[v] \in {"referer", "credit"} => uri[v] = Own(v)
           Own2 == \A u \in Uris : uris[u] = Sum(Numbers, Of(u))
<1>2. ASSUME NEW w \in Workers, CreditUri(w)
      PROVE  OwnWords'
  <2> DEFINE f == line[w][1]
             n == line[w][2]
             d == LineAt(line[w]).number
             u == LineAt(line[w]).uri
  <2>1. /\ step[w] = "credit" /\ step' = [step EXCEPT ![w] = StepAt(f, n + 1)]
        /\ line' = [line EXCEPT ![w] = <<f, n + 1>>]
        /\ uri' = [uri EXCEPT ![w] = Null]
        /\ \/ uri[w] = Null
           \/ uris' = [uris EXCEPT ![WordAt(uri[w])] = @ + d] /\ droppedUris' = droppedUris
           \/ uris' = uris /\ droppedUris' = droppedUris \cup {line[w]}
        /\ ~mixed
    BY <1>2 DEF CreditUri, CountUri, Goto, Credit, Here
  <2>2. /\ StepAt(f, n + 1) \in {"method", "close"} /\ line[w] \in Lines
        /\ line[w] \notin Credited /\ d \in Nat /\ u \in Uris
    BY <1>1, <2>1, NextLine, LineIsNew, LinesAre DEF Active
  <2>3. Own1 /\ Own2
    BY <1>1, <2>1 DEF OwnWords
  <2> HIDE DEF f, n
  <2>4. Own1'
    <3>1. /\ step'[w] \notin {"referer", "credit"}
          /\ \A v \in Workers : v # w => /\ step'[v] = step[v] /\ line'[v] = line[v]
                                         /\ uri'[v] = uri[v]
      BY <1>1, <2>1, <2>2
    <3> QED
      BY <2>3, <3>1
  <2>5. uri[w] = Own(w) /\ uri[w] # Null
    <3>1. Own(w) \in [of : Workers, line : Lines, word : {"uri", "proto"}]
      BY <2>2
    <3> QED
      BY <2>1, <2>3, <3>1, ContentAssumption
  <2>6. WordAt(uri[w]) = u
    BY <2>1, <2>5 DEF WordAt
  <2>7. \/ uris' = [uris EXCEPT ![u] = @ + d] /\ droppedUris' = droppedUris
        \/ uris' = uris /\ droppedUris' = droppedUris \cup {line[w]}
    BY <2>1, <2>5, <2>6
  <2>8. Credited' = Credited \cup {line[w]}
    BY <1>1, <1>2, CreditedStep
  <2>9. Own2'
    <3>1. ASSUME NEW v \in Uris
          PROVE  uris'[v] = Sum(Numbers, {l \in Credited' \ droppedUris' : LineAt(l).uri = v})
      <4>1. CASE v = u /\ uris' = [uris EXCEPT ![u] = @ + d] /\ droppedUris' = droppedUris
        <5>1. {l \in Credited' \ droppedUris' : LineAt(l).uri = v} = Of(u) \cup {line[w]}
          BY <1>1, <2>2, <2>8, <4>1
        <5>2. Of(u) \in SUBSET Lines /\ line[w] \in Lines \ Of(u)
          BY <2>2 DEF Credited
        <5>3. uris[u] = Sum(Numbers, Of(u))
          BY <2>2, <2>3
        <5> HIDE DEF Of, d, u
        <5>4. Sum(Numbers, Of(u) \cup {line[w]}) = Sum(Numbers, Of(u)) + d
          BY <5>2, LineAdds DEF d
        <5>5. uris'[u] = uris[u] + d
          BY <1>1, <2>2, <4>1
        <5> QED
          BY <4>1, <5>1, <5>3, <5>4, <5>5
      <4>2. CASE v # u \/ (uris' = uris /\ droppedUris' = droppedUris \cup {line[w]})
        <5>1. {l \in Credited' \ droppedUris' : LineAt(l).uri = v} = Of(v)
          BY <2>2, <2>7, <2>8, <4>2
        <5>2. uris[v] = Sum(Numbers, Of(v))
          BY <2>3
        <5> HIDE DEF Of, d, u
        <5>3. uris'[v] = uris[v]
          BY <1>1, <2>7, <4>2
        <5> QED
          BY <5>1, <5>2, <5>3
      <4> QED
        BY <2>7, <4>1, <4>2
    <3> QED
      BY <3>1
  <2> QED
    BY <2>4, <2>9 DEF OwnWords
<1>3. ASSUME uris' = uris, droppedUris' = droppedUris, Credited' = Credited, Own1', ~mixed
      PROVE  OwnWords'
  BY <1>1, <1>3 DEF OwnWords
<1>4. ASSUME NEW w \in Workers, TokenizeUri(w)
      PROVE  OwnWords'
  <2>1. /\ step[w] = "uri" /\ step' = [step EXCEPT ![w] = "referer"]
        /\ uri' = [uri EXCEPT ![w] = last] /\ line' = line /\ uris' = uris
        /\ droppedUris' = droppedUris
        /\ last = Own(w) /\ ~mixed
    BY <1>4 DEF TokenizeUri, Goto
  <2>2. Own1
    BY <1>1, <2>1 DEF OwnWords
  <2>3. Own1'
    <3>1. uri'[w] = Own(w) /\ \A v \in Workers : v # w => /\ step'[v] = step[v]
                                                         /\ uri'[v] = uri[v]
      BY <1>1, <2>1
    <3> QED
      BY <2>1, <2>2, <3>1
  <2>4. Credited' = Credited
    BY <1>1, <1>4, CreditedStep
  <2> QED
    BY <1>3, <2>1, <2>3, <2>4
<1>5. ASSUME NEW w \in Workers, \/ Open(w) \/ OpenFails(w) \/ GiveUp(w) \/ Close(w)
                                \/ TokenizeMethod(w) \/ CountReferer(w)
      PROVE  OwnWords'
  <2>1. /\ uri' = uri /\ uris' = uris /\ droppedUris' = droppedUris /\ ~mixed
        /\ \A v \in Workers : step'[v] \in {"referer", "credit"} =>
             step[v] \in {"referer", "credit"} /\ line'[v] = line[v]
    <3>1. CASE Open(w)
      <4>1. StepAt(Head(pending), 1) \in {"method", "close"}
        BY <1>1, <3>1, FirstLine DEF Open, Start
      <4> QED
        BY <1>1, <3>1, <4>1 DEF Open
    <3>2. CASE OpenFails(w) \/ GiveUp(w) \/ Close(w) \/ TokenizeMethod(w) \/ CountReferer(w)
      BY <1>1, <3>2 DEF OpenFails, GiveUp, Close, TokenizeMethod, CountReferer, Goto
    <3> QED
      BY <1>5, <3>1, <3>2
  <2>2. Own1
    BY <1>1, <2>1 DEF OwnWords
  <2>3. Own1'
    BY <2>1, <2>2
  <2>4. Credited' = Credited
    BY <1>1, <1>5, CreditedStep
  <2> QED
    BY <1>3, <2>1, <2>3, <2>4
<1>6. CASE UNCHANGED <<parser, running, finished>>
  <2>1. UNCHANGED <<step, line, uri, uris, droppedUris, mixed>> /\ Credited' = Credited
    BY <1>1, <1>6, CreditedStep DEF parser
  <2>2. Own1
    BY <1>1, <2>1 DEF OwnWords
  <2>3. Own1'
    BY <2>1, <2>2
  <2> QED
    BY <1>3, <2>1, <2>3
<1> QED
  BY <1>2, <1>4, <1>5, <1>6, OneWorkerMoves

(* Nothing is read and nothing counted at first.                             *)
LEMMA ParserInit == Init => ParserInv
<1> SUFFICES ASSUME Init
             PROVE  ParserInv
  OBVIOUS
<1>1. /\ submitted = 0 /\ pending = <<>> /\ running = {} /\ finished = {} /\ lost = {}
      /\ step = [w \in Workers |-> "idle"] /\ line = [w \in Workers |-> <<0, 0>>]
      /\ uri = [w \in Workers |-> Null] /\ current = [w \in Workers |-> 0]
      /\ last = Null /\ bytes = 0 /\ refers = [r \in Refs |-> 0]
      /\ uris = [u \in Uris \cup {Proto, Junk} |-> 0] /\ opened = {} /\ mixed = FALSE
      /\ stored = {} /\ droppedRefs = {} /\ droppedUris = {}
  BY DEF Init, WInit, NoLine
<1>2. TypeOK
  BY <1>1 DEF TypeOK, Pointers
<1>3. FilesInOrder
  BY <1>1, ContentAssumption DEF FilesInOrder
<1>4. OneWorkerPerFile
  BY <1>1 DEF OneWorkerPerFile, Active
<1>5. Done = {} /\ Credited = {} /\ Referred = {}
  BY <1>1 DEF Done, Credited, Referred
<1>6. CurrentCounted
  BY <1>1 DEF CurrentCounted, Active
<1>7. bytes = Sum(Numbers, Done) /\ Sum(Numbers, Credited) = 0
  BY <1>1, <1>5, SumEmpty
<1>8. \A r \in Refs :
        refers[r] = Cardinality({l \in Referred \ droppedRefs : LineAt(l).ref = r})
  BY <1>1, <1>5, FS_EmptySet
<1>9. Sum(uris, DOMAIN uris) = 0
  <2>1. IsFiniteSet(DOMAIN uris)
    BY <1>1, NamesFinite
  <2>2. \A u \in DOMAIN uris : uris[u] = 0
    BY <1>1
  <2> QED
    BY <2>1, <2>2, SumOfZeros
<1>10. OwnWords
  <2>1. \A u \in Uris :
          {l \in Credited \ droppedUris : LineAt(l).uri = u} = {} /\ uris[u] = 0
    BY <1>1, <1>5
  <2>2. \A u \in Uris :
          uris[u] = Sum(Numbers, {l \in Credited \ droppedUris : LineAt(l).uri = u})
    BY <2>1, SumEmpty
  <2> QED
    BY <1>1, <2>2 DEF OwnWords
<1> QED
  BY <1>1, <1>2, <1>3, <1>4, <1>6, <1>7, <1>8, <1>9, <1>10 DEF ParserInv, Placed, Counters

(* All of it holds in every reachable state.                                 *)
LEMMA ParserInvariance == Spec => []ParserInv
<1>1. ASSUME ParserInv, [Next]_vars
      PROVE  ParserInv'
  <2>1. Placed
    BY <1>1 DEF ParserInv
  <2>2. Placed'
    BY <1>1, <2>1, TypeStep, OrderStep, WorkersStep DEF Placed
  <2>3. Counters'
    BY <1>1, BytesStep, CurrentStep, RefersStep, UrisStep, DroppedStep DEF Counters
  <2>4. (~mixed => OwnWords)'
    BY <1>1, OwnStep
  <2> QED
    BY <2>2, <2>3, <2>4 DEF ParserInv
<1> QED
  BY <1>1, ParserInit, PTL DEF Spec

(* What strtok remembers is always a request that is being parsed.           *)
THEOREM ParserTypeCorrect == Spec => []TypeOK
<1>1. ParserInv => TypeOK
  BY DEF ParserInv, Placed
<1> QED
  BY <1>1, ParserInvariance, PTL

(* Once everything is reported, nobody works, and the lines that were        *)
(* credited and whose referers were counted are those that were parsed.      *)
LEMMA ReportedMeansDone ==
  ASSUME Placed, Reported
  PROVE  Done = Parsed /\ Credited = Parsed /\ Referred = Parsed
<1>1. running = {}
  <2>1. /\ submitted \in Nat /\ Len(pending) \in Nat
        /\ running \subseteq 1 .. (submitted - Len(pending))
        /\ running \cap finished = {} /\ running \cap lost = {}
        /\ finished \cup lost = 1 .. submitted
    BY ContentAssumption DEF Placed, FilesInOrder, Reported
  <2>2. 1 .. (submitted - Len(pending)) \subseteq 1 .. submitted
    BY <2>1
  <2> QED
    BY <2>1, <2>2
<1>2. \A w \in Workers : step[w] = "idle"
  BY <1>1 DEF Placed, OneWorkerPerFile
<1>3. opened \subseteq finished
  BY <1>1 DEF Placed, TypeOK
<1>4. \A l \in Lines : ~LeftBehind(l)
  BY <1>2 DEF LeftBehind, Active
<1>5. Done = Parsed /\ Credited = Parsed
  BY <1>3, <1>4 DEF Done, Credited, Parsed
<1> QED
  BY <1>2, <1>5 DEF Referred

(* Once everything is reported, the size and the referers are those of the   *)
(* lines that were read, but for referers that found no memory, and the URIs *)
(* together have no more than the size: for any number of workers, files and *)
(* lines, and however strtok mixes.                                          *)
THEOREM TotalsCorrect == Spec => []TotalsExact
<1>1. ParserInv => TotalsExact
  <2> SUFFICES ASSUME ParserInv, Reported
               PROVE  /\ bytes = Totals!MapThenSumSet(NumberOf, Parsed)
                      /\ \A r \in Refs : refers[r] =
                           Cardinality({l \in Parsed \ droppedRefs : LineAt(l).ref = r})
                      /\ Totals!MapThenSumSet(LAMBDA u : uris[u], DOMAIN uris) <= bytes
    BY DEF TotalsExact
  <2>1. /\ Done = Parsed /\ Credited = Parsed /\ Referred = Parsed
        /\ bytes = Sum(Numbers, Done)
        /\ \A r \in Refs :
             refers[r] = Cardinality({l \in Referred \ droppedRefs : LineAt(l).ref = r})
        /\ Sum(uris, DOMAIN uris) <= Sum(Numbers, Credited)
    BY ReportedMeansDone DEF ParserInv, Counters
  <2>2. Totals!MapThenSumSet(NumberOf, Parsed) = Sum(Numbers, Parsed)
    BY NumbersSum DEF Parsed
  <2>3. Totals!MapThenSumSet(LAMBDA u : uris[u], DOMAIN uris) = Sum(uris, DOMAIN uris)
    BY TotalsSum
  <2> QED
    BY <2>1, <2>2, <2>3
<1> QED
  BY <1>1, ParserInvariance, PTL

(* Each URI is reported with the bytes of its own lines, but for those that  *)
(* found no memory, unless a worker called strtok between the two calls of   *)
(* another one.                                                              *)
THEOREM UrisCorrect == Spec => []UrisExactUnlessMixed
<1>1. ParserInv => UrisExactUnlessMixed
  <2> SUFFICES ASSUME ParserInv, ~mixed, Reported, NEW u \in Uris
               PROVE  uris[u] = CreditOf(u)
    BY DEF UrisExactUnlessMixed, UrisExact
  <2>1. Credited = Parsed
    BY ReportedMeansDone DEF ParserInv
  <2>2. uris[u] = Sum(Numbers, {l \in Credited \ droppedUris : LineAt(l).uri = u})
    BY DEF ParserInv, OwnWords
  <2>3. Totals!MapThenSumSet(NumberOf, {l \in Parsed \ droppedUris : LineAt(l).uri = u})
          = Sum(Numbers, {l \in Parsed \ droppedUris : LineAt(l).uri = u})
    BY NumbersSum DEF Parsed
  <2> QED
    BY <2>1, <2>2, <2>3 DEF CreditOf
<1> QED
  BY <1>1, ParserInvariance, PTL
=============================================================================
