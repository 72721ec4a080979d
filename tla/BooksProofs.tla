----------------------------- MODULE BooksProofs -----------------------------
(***************************************************************************)
(* Proofs about what is counted, summed up and written down: the books of  *)
(* Pnl, for any orders, markets and order books; the table of resolutions  *)
(* they rest on; the rolling window of the kill switch; and the list of    *)
(* candidates of the wallet discovery.                                     *)
(*                                                                         *)
(* A sum of the community modules is a recursive function over the subsets *)
(* of a set.  What it is for every finite set is proved here without an    *)
(* induction theorem, from the least counterexample.                       *)
(***************************************************************************)
EXTENDS Pnl, KillSwitchClient, Resolver, Discovery, FiniteSetTheorems, SequenceTheorems,
        WellFoundedInduction, TLAPS

\* A non-empty set of naturals has a least element.
LEMMA LeastNatural ==
  ASSUME NEW S \in SUBSET Nat, S # {}
  PROVE  \E x \in S : \A y \in S : x <= y
<1> DEFINE R == OpToRel(<, Nat)
<1>1. IsWellFoundedOn(R, Nat)
  BY NatLessThanWellFounded
<1>2. \A n, m \in Nat : <<n, m>> \in R <=> n < m
  BY DEF OpToRel
<1> HIDE DEF R
<1>3. PICK x \in S : \A y \in S : ~ (<<y, x>> \in R)
  BY <1>1, WFMin
<1>4. ASSUME NEW y \in S
      PROVE  x <= y
  <2>1. x \in Nat /\ y \in Nat
    OBVIOUS
  <2>2. ~ (y < x)
    BY <1>2, <1>3, <2>1
  <2> QED
    BY <2>1, <2>2
<1> QED
  BY <1>4

(***************************************************************************)
(* Sums.                                                                   *)
(***************************************************************************)

SumOf(F, S) == MapThenSumSet(LAMBDA x : F[x], S)

\* g sums up F over the sets of a family that is closed under Without.
Chosen(s) == CHOOSE x \in s : TRUE
Without(s) == s \ {Chosen(s)}
Unfolds(g, F, Family) ==
  g = [s \in Family |-> IF s = {} THEN 0 ELSE F[Chosen(s)] + g[Without(s)]]

\* The definition of the community modules.
LEMMA SumIs == \A F, S : SumOf(F, S) = (CHOOSE g : Unfolds(g, F, SUBSET S))[S]
  BY DEF SumOf, MapThenSumSet, MapThenFoldSet, Unfolds, Chosen, Without

\* The subsets of S with at most n elements.
UpTo(S, n) == {s \in SUBSET S : Cardinality(s) <= n}

\* A set that is not empty gets smaller.
LEMMA Smaller ==
  ASSUME NEW S, IsFiniteSet(S), NEW s \in SUBSET S, s # {}
  PROVE  /\ Chosen(s) \in s /\ Without(s) \in SUBSET S
         /\ Cardinality(s) \in Nat \ {0} /\ Cardinality(Without(s)) = Cardinality(s) - 1
<1>1. IsFiniteSet(s) /\ Cardinality(s) \in Nat
  BY FS_Subset, FS_CardinalityType
<1>2. Chosen(s) \in s
  BY DEF Chosen
<1>3. Cardinality(Without(s)) = Cardinality(s) - 1
  BY <1>1, <1>2, FS_RemoveElement DEF Without
<1>4. Cardinality(Without(s)) \in Nat
  BY <1>1, FS_Subset, FS_CardinalityType DEF Without
<1> QED
  BY <1>1, <1>2, <1>3, <1>4 DEF Without

\* There is a function that sums up.
LEMMA SumExists ==
  ASSUME NEW F, NEW S, IsFiniteSet(S)
  PROVE  \E g : Unfolds(g, F, SUBSET S)
<1> DEFINE Bad == {n \in Nat : ~ \E g : Unfolds(g, F, UpTo(S, n))}
<1>1. ASSUME Bad # {}
      PROVE  FALSE
  <2>1. PICK n \in Bad : \A m \in Bad : n <= m
    BY <1>1, LeastNatural
  <2>2. \E g : \A s \in UpTo(S, n - 1) :
           g[s] = IF s = {} THEN 0 ELSE F[Chosen(s)] + g[Without(s)]
    <3>1. CASE n = 0
      <4>1. UpTo(S, n - 1) = {}
        BY <3>1, FS_Subset, FS_CardinalityType DEF UpTo
      <4> QED
        BY <4>1
    <3>2. CASE n # 0
      <4>1. PICK g : Unfolds(g, F, UpTo(S, n - 1))
        BY <2>1, <3>2
      <4> QED
        BY <4>1 DEF Unfolds
    <3> QED
      BY <3>1, <3>2
  <2>3. PICK g : \A s \in UpTo(S, n - 1) :
           g[s] = IF s = {} THEN 0 ELSE F[Chosen(s)] + g[Without(s)]
    BY <2>2
  <2> DEFINE h == [s \in UpTo(S, n) |-> IF s = {} THEN 0 ELSE F[Chosen(s)] + g[Without(s)]]
  <2>4. ASSUME NEW s \in UpTo(S, n), s # {}
        PROVE  h[Without(s)] = g[Without(s)]
    <3>1. Without(s) \in UpTo(S, n - 1) /\ Without(s) \in UpTo(S, n)
      BY <2>4, Smaller DEF UpTo
    <3> QED
      BY <2>3, <3>1
  <2>5. Unfolds(h, F, UpTo(S, n))
    BY <2>4 DEF Unfolds
  <2> QED
    BY <2>1, <2>5
<1>2. Cardinality(S) \in Nat /\ UpTo(S, Cardinality(S)) = SUBSET S
  BY FS_Subset, FS_CardinalityType DEF UpTo
<1>3. Cardinality(S) \notin Bad
  BY <1>1
<1> QED
  BY <1>2, <1>3

\* ... and only one.
LEMMA SumUnique ==
  ASSUME NEW F, NEW S, IsFiniteSet(S), NEW T \in SUBSET S, NEW g, NEW h,
         Unfolds(g, F, SUBSET S), Unfolds(h, F, SUBSET T)
  PROVE  g[T] = h[T]
<1> DEFINE Bad == {n \in Nat : \E s \in SUBSET T : Cardinality(s) = n /\ g[s] # h[s]}
<1>1. IsFiniteSet(T)
  BY FS_Subset
<1>2. ASSUME Bad # {}
      PROVE  FALSE
  <2>1. PICK n \in Bad : \A m \in Bad : n <= m
    BY <1>2, LeastNatural
  <2>2. PICK s \in SUBSET T : Cardinality(s) = n /\ g[s] # h[s]
    BY <2>1
  <2>3. s # {}
    BY <2>2 DEF Unfolds
  <2>4. /\ Without(s) \in SUBSET T
        /\ Cardinality(Without(s)) = n - 1 /\ n - 1 \in Nat
    BY <1>1, <2>2, <2>3, Smaller
  <2>5. g[Without(s)] = h[Without(s)]
    BY <2>1, <2>4
  <2>6. g[s] = F[Chosen(s)] + g[Without(s)]
    BY <2>3 DEF Unfolds
  <2>7. h[s] = F[Chosen(s)] + h[Without(s)]
    BY <2>3 DEF Unfolds
  <2> QED
    BY <2>2, <2>5, <2>6, <2>7
<1>3. Cardinality(T) \in Nat
  BY <1>1, FS_CardinalityType
<1> QED
  BY <1>2, <1>3

\* The equation of a sum.
LEMMA SumUnfolds ==
  ASSUME NEW F, NEW S, IsFiniteSet(S)
  PROVE  SumOf(F, S) = IF S = {} THEN 0 ELSE F[Chosen(S)] + SumOf(F, Without(S))
<1> DEFINE sum(T) == CHOOSE g : Unfolds(g, F, SUBSET T)
<1>1. ASSUME NEW T \in SUBSET S
      PROVE  Unfolds(sum(T), F, SUBSET T) /\ SumOf(F, T) = sum(T)[T]
  <2>1. Unfolds(sum(T), F, SUBSET T)
    BY SumExists, FS_Subset
  <2> QED
    BY <2>1, SumIs
<1> HIDE DEF sum
<1>2. sum(S)[S] = IF S = {} THEN 0 ELSE F[Chosen(S)] + sum(S)[Without(S)]
  <2>1. Unfolds(sum(S), F, SUBSET S) /\ S \in SUBSET S
    BY <1>1
  <2> QED
    BY <2>1 DEF Unfolds
<1>3. ASSUME S # {}
      PROVE  sum(S)[Without(S)] = SumOf(F, Without(S))
  <2>1. Without(S) \in SUBSET S
    BY DEF Without
  <2>2. Unfolds(sum(S), F, SUBSET S)
    BY <1>1
  <2>3. /\ Unfolds(sum(Without(S)), F, SUBSET Without(S))
        /\ SumOf(F, Without(S)) = sum(Without(S))[Without(S)]
    BY <1>1, <2>1
  <2> QED
    BY <2>1, <2>2, <2>3, SumUnique
<1> QED
  BY <1>1, <1>2, <1>3

\* A sum of integers is one, and it does not matter what is taken first.
LEMMA SumType ==
  ASSUME NEW S, IsFiniteSet(S), NEW F, \A x \in S : F[x] \in Int
  PROVE  SumOf(F, S) \in Int
<1> DEFINE Bad == {n \in Nat : \E T \in SUBSET S : Cardinality(T) = n /\ SumOf(F, T) \notin Int}
<1>1. ASSUME Bad # {}
      PROVE  FALSE
  <2>1. PICK n \in Bad : \A m \in Bad : n <= m
    BY <1>1, LeastNatural
  <2>2. PICK T \in SUBSET S : Cardinality(T) = n /\ SumOf(F, T) \notin Int
    BY <2>1
  <2>3. IsFiniteSet(T) /\ SumOf(F, T) = IF T = {} THEN 0 ELSE F[Chosen(T)] + SumOf(F, Without(T))
    BY FS_Subset, SumUnfolds
  <2>4. T # {}
    BY <2>2, <2>3
  <2>5. /\ Chosen(T) \in T /\ Without(T) \in SUBSET S
        /\ Cardinality(Without(T)) = n - 1 /\ n - 1 \in Nat
    BY <2>2, <2>4, Smaller
  <2>6. SumOf(F, Without(T)) \in Int
    BY <2>1, <2>5
  <2> QED
    BY <2>2, <2>3, <2>4, <2>5, <2>6
<1>2. Cardinality(S) \in Nat
  BY FS_CardinalityType
<1> QED
  BY <1>1, <1>2

\* It does not matter which element is taken first.
LEMMA SumRemove ==
  ASSUME NEW S, IsFiniteSet(S), NEW F, \A x \in S : F[x] \in Int, NEW e \in S
  PROVE  SumOf(F, S) = F[e] + SumOf(F, S \ {e})
<1> DEFINE Fails(T) == \E x \in T : SumOf(F, T) # F[x] + SumOf(F, T \ {x})
           Bad == {n \in Nat : \E T \in SUBSET S : Cardinality(T) = n /\ Fails(T)}
<1>1. ASSUME Bad # {}
      PROVE  FALSE
  <2>1. PICK n \in Bad : \A m \in Bad : n <= m
    BY <1>1, LeastNatural
  <2>2. PICK T \in SUBSET S : Cardinality(T) = n /\ Fails(T)
    BY <2>1
  <2>0. PICK x \in T : SumOf(F, T) # F[x] + SumOf(F, T \ {x})
    BY <2>2
  <2> DEFINE y == Chosen(T)
             rest == T \ {x, y}
  <2>3. IsFiniteSet(T) /\ T # {}
    BY FS_Subset, <2>2
  <2>4. /\ y \in T /\ Without(T) = T \ {y}
        /\ Cardinality(T \ {y}) = n - 1 /\ n - 1 \in Nat
    BY <2>2, <2>3, Smaller DEF Without
  <2>5. SumOf(F, T) = F[y] + SumOf(F, T \ {y})
    BY <2>3, <2>4, SumUnfolds
  <2> HIDE DEF y
  <2>6. x # y
    BY <2>0, <2>5
  <2>7. Cardinality(T \ {x}) = n - 1
    BY <2>2, <2>3, FS_RemoveElement
  <2>8. \A U \in SUBSET S : Cardinality(U) = n - 1 => ~Fails(U)
    BY <2>1, <2>4
  <2>9. SumOf(F, T \ {y}) = F[x] + SumOf(F, rest)
    <3>1. x \in T \ {y} /\ (T \ {y}) \ {x} = rest
      BY <2>6
    <3>2. ~Fails(T \ {y})
      BY <2>4, <2>8
    <3> QED
      BY <3>1, <3>2
  <2>10. SumOf(F, T \ {x}) = F[y] + SumOf(F, rest)
    <3>1. y \in T \ {x} /\ (T \ {x}) \ {y} = rest
      BY <2>4, <2>6
    <3>2. ~Fails(T \ {x})
      BY <2>7, <2>8
    <3> QED
      BY <3>1, <3>2
  <2>11. F[x] \in Int /\ F[y] \in Int /\ SumOf(F, rest) \in Int
    <3>1. IsFiniteSet(rest) /\ rest \subseteq S
      BY <2>3, FS_Subset
    <3> HIDE DEF rest
    <3>2. SumOf(F, rest) \in Int
      BY <3>1, SumType
    <3> QED
      BY <2>4, <3>2
  <2> HIDE DEF rest
  <2> QED
    BY <2>0, <2>5, <2>9, <2>10, <2>11
<1>2. Cardinality(S) \in Nat
  BY FS_CardinalityType
<1> QED
  BY <1>1, <1>2

\* Only the values in the set matter.
LEMMA SumSame ==
  ASSUME NEW F, NEW G, NEW S, \A x \in S : F[x] = G[x]
  PROVE  SumOf(F, S) = SumOf(G, S)
<1>1. \A g : Unfolds(g, F, SUBSET S) <=> Unfolds(g, G, SUBSET S)
  <2> SUFFICES ASSUME NEW g
               PROVE  Unfolds(g, F, SUBSET S) <=> Unfolds(g, G, SUBSET S)
    OBVIOUS
  <2>1. \A s \in SUBSET S : s # {} => F[Chosen(s)] = G[Chosen(s)]
    BY DEF Chosen
  <2> QED
    BY <2>1 DEF Unfolds
<1>2. (CHOOSE g : Unfolds(g, F, SUBSET S)) = (CHOOSE g : Unfolds(g, G, SUBSET S))
  BY <1>1
<1> QED
  BY <1>2, SumIs

\* The sum over two sets is the sum of the sums.
LEMMA SumUnion ==
  ASSUME NEW A, IsFiniteSet(A), NEW B, IsFiniteSet(B), A \cap B = {},
         NEW F, \A x \in A \cup B : F[x] \in Int
  PROVE  SumOf(F, A \cup B) = SumOf(F, A) + SumOf(F, B)
<1> DEFINE Fails(T) == SumOf(F, A \cup T) # SumOf(F, A) + SumOf(F, T)
           Bad == {n \in Nat : \E T \in SUBSET B : Cardinality(T) = n /\ Fails(T)}
<1>1. ASSUME Bad # {}
      PROVE  FALSE
  <2>1. PICK n \in Bad : \A m \in Bad : n <= m
    BY <1>1, LeastNatural
  <2>2. PICK T \in SUBSET B : Cardinality(T) = n /\ Fails(T)
    BY <2>1
  <2>3. IsFiniteSet(T) /\ IsFiniteSet(A \cup T)
    BY FS_Subset, FS_Union
  <2>4. SumOf(F, A) \in Int
    BY SumType
  <2>5. CASE T = {}
    <3>1. SumOf(F, {}) = 0
      BY FS_EmptySet, SumUnfolds
    <3>2. A \cup T = A
      BY <2>5
    <3> QED
      BY <2>2, <2>4, <2>5, <3>1, <3>2
  <2>6. ASSUME NEW e \in T
        PROVE  FALSE
    <3> DEFINE rest == T \ {e}
    <3>1. /\ rest \in SUBSET B /\ Cardinality(rest) = n - 1 /\ IsFiniteSet(rest)
          /\ n - 1 \in Nat
      <4>1. Cardinality(rest) = n - 1 /\ IsFiniteSet(rest)
        BY <2>2, <2>3, FS_RemoveElement
      <4> QED
        BY <4>1, FS_CardinalityType
    <3>2. ~Fails(rest)
      <4> HIDE DEF Fails
      <4>1. n - 1 \notin Bad
        <5>1. n \in Nat
          BY <2>1
        <5> HIDE DEF Bad
        <5> QED
          BY <2>1, <3>1, <5>1
      <4>2. \A U \in SUBSET B : Cardinality(U) = n - 1 => ~Fails(U)
        BY <3>1, <4>1
      <4> HIDE DEF rest
      <4> QED
        BY <3>1, <4>2
    <3>3. SumOf(F, T) = F[e] + SumOf(F, rest)
      BY <2>3, SumRemove
    <3>4. SumOf(F, A \cup T) = F[e] + SumOf(F, A \cup rest)
      <4>1. (A \cup T) \ {e} = A \cup rest /\ e \in A \cup T
        OBVIOUS
      <4>2. \A x \in A \cup T : F[x] \in Int
        OBVIOUS
      <4> HIDE DEF rest
      <4> QED
        BY <2>3, <4>1, <4>2, SumRemove
    <3>5. SumOf(F, rest) \in Int /\ F[e] \in Int
      <4>1. \A x \in rest : F[x] \in Int
        OBVIOUS
      <4> HIDE DEF rest
      <4> QED
        BY <3>1, <4>1, SumType
    <3> HIDE DEF rest
    <3> QED
      BY <2>2, <2>4, <3>2, <3>3, <3>4, <3>5
  <2> QED
    BY <2>5, <2>6
<1>2. Cardinality(B) \in Nat
  BY FS_CardinalityType
<1> QED
  BY <1>1, <1>2

\* The elements with one key, and the sums over such parts.
Part(S, K, w) == {x \in S : K[x] = w}
PartSums(F, S, K, W) == [w \in W |-> SumOf(F, Part(S, K, w))]

\* The parts of a set sum up to the sum over the set.
LEMMA SumParts ==
  ASSUME NEW S, IsFiniteSet(S), NEW F, \A x \in S : F[x] \in Int,
         NEW W, IsFiniteSet(W), NEW K, \A x \in S : K[x] \in W
  PROVE  SumOf(F, S) = SumOf(PartSums(F, S, K, W), W)
<1> DEFINE G == PartSums(F, S, K, W)
           Keyed(V) == {x \in S : K[x] \in V}
           Fails(V) == SumOf(F, Keyed(V)) # SumOf(G, V)
           Bad == {n \in Nat : \E V \in SUBSET W : Cardinality(V) = n /\ Fails(V)}
<1>1. \A w \in W : G[w] = SumOf(F, Part(S, K, w)) /\ G[w] \in Int
  <2> SUFFICES ASSUME NEW w \in W
               PROVE  SumOf(F, Part(S, K, w)) \in Int
    BY DEF PartSums
  <2>1. IsFiniteSet(Part(S, K, w)) /\ \A x \in Part(S, K, w) : F[x] \in Int
    BY FS_Subset DEF Part
  <2> QED
    BY <2>1, SumType
<1> HIDE DEF G
<1>2. ASSUME Bad # {}
      PROVE  FALSE
  <2>1. PICK n \in Bad : \A m \in Bad : n <= m
    BY <1>2, LeastNatural
  <2>2. PICK V \in SUBSET W : Cardinality(V) = n /\ Fails(V)
    BY <2>1
  <2>3. IsFiniteSet(V)
    BY FS_Subset
  <2>4. CASE V = {}
    <3>1. SumOf(F, {}) = 0 /\ SumOf(G, {}) = 0
      BY FS_EmptySet, SumUnfolds
    <3>2. Keyed(V) = {}
      BY <2>4
    <3> HIDE DEF Keyed
    <3> QED
      BY <2>2, <2>4, <3>1, <3>2
  <2>5. ASSUME NEW w \in V
        PROVE  FALSE
    <3> DEFINE rest == V \ {w}
    <3>1. rest \in SUBSET W /\ Cardinality(rest) = n - 1 /\ n - 1 \in Nat /\ w \in W
      <4>1. Cardinality(rest) = n - 1 /\ IsFiniteSet(rest)
        BY <2>2, <2>3, FS_RemoveElement
      <4> QED
        BY <4>1, FS_CardinalityType
    <3>2. ~Fails(rest)
      BY <2>1, <3>1
    <3>3. SumOf(G, V) = G[w] + SumOf(G, rest)
      BY <1>1, <2>3, SumRemove
    <3> HIDE DEF rest
    <3>4. /\ Keyed(V) = Keyed(rest) \cup Part(S, K, w)
          /\ Keyed(rest) \cap Part(S, K, w) = {}
      BY DEF Part, rest
    <3>5. /\ IsFiniteSet(Keyed(rest)) /\ IsFiniteSet(Part(S, K, w))
          /\ \A x \in Keyed(rest) \cup Part(S, K, w) : F[x] \in Int
      <4>1. Keyed(rest) \in SUBSET S /\ Part(S, K, w) \in SUBSET S
        BY DEF Part
      <4> HIDE DEF Keyed
      <4> QED
        BY <4>1, FS_Subset
    <3> HIDE DEF Keyed
    <3>6. SumOf(F, Keyed(V)) = SumOf(F, Keyed(rest)) + SumOf(F, Part(S, K, w))
      BY <3>4, <3>5, SumUnion
    <3>7. SumOf(F, Keyed(rest)) \in Int
      BY <3>5, SumType
    <3> QED
      BY <1>1, <2>2, <3>1, <3>2, <3>3, <3>6, <3>7
  <2> QED
    BY <2>4, <2>5
<1>3. Cardinality(W) \in Nat /\ Keyed(W) = S
  BY FS_CardinalityType
<1> QED
  BY <1>2, <1>3 DEF G

\* If every difference between two values is at least that of two amounts,
\* times a rate, then so is the difference of the sums.
LEMMA Exchange ==
  ASSUME NEW S, IsFiniteSet(S), NEW rate \in Int,
         NEW a \in [S -> Int], NEW b \in [S -> Int], NEW s \in [S -> Int], NEW t \in [S -> Int],
         \A x \in S : a[x] - b[x] >= rate * (s[x] - t[x])
  PROVE  SumOf(a, S) - SumOf(b, S) >= rate * (SumOf(s, S) - SumOf(t, S))
<1> DEFINE Fails(T) == ~ (SumOf(a, T) - SumOf(b, T) >= rate * (SumOf(s, T) - SumOf(t, T)))
           Bad == {n \in Nat : \E T \in SUBSET S : Cardinality(T) = n /\ Fails(T)}
<1>0. \A T \in SUBSET S : /\ IsFiniteSet(T)
                          /\ SumOf(a, T) \in Int /\ SumOf(b, T) \in Int
                          /\ SumOf(s, T) \in Int /\ SumOf(t, T) \in Int
  BY FS_Subset, SumType
<1>1. ASSUME Bad # {}
      PROVE  FALSE
  <2>1. PICK n \in Bad : \A m \in Bad : n <= m
    BY <1>1, LeastNatural
  <2>2. PICK T \in SUBSET S : Cardinality(T) = n /\ Fails(T)
    BY <2>1
  <2>3. CASE T = {}
    <3>1. SumOf(a, {}) = 0 /\ SumOf(b, {}) = 0 /\ SumOf(s, {}) = 0 /\ SumOf(t, {}) = 0
      BY FS_EmptySet, SumUnfolds
    <3> QED
      BY <2>2, <2>3, <3>1
  <2>4. ASSUME NEW e \in T
        PROVE  FALSE
    <3> DEFINE rest == T \ {e}
    <3>1. rest \in SUBSET S /\ Cardinality(rest) = n - 1 /\ n - 1 \in Nat
      <4>1. Cardinality(rest) = n - 1 /\ IsFiniteSet(rest)
        BY <1>0, <2>2, FS_RemoveElement
      <4> QED
        BY <4>1, FS_CardinalityType
    <3>2. ~Fails(rest)
      <4> HIDE DEF Fails
      <4>1. n - 1 \notin Bad
        <5>1. n \in Nat
          BY <2>1
        <5> HIDE DEF Bad
        <5> QED
          BY <2>1, <3>1, <5>1
      <4>2. \A U \in SUBSET S : Cardinality(U) = n - 1 => ~Fails(U)
        BY <3>1, <4>1
      <4> HIDE DEF rest
      <4> QED
        BY <3>1, <4>2
    <3>3. /\ SumOf(a, T) = a[e] + SumOf(a, rest) /\ SumOf(b, T) = b[e] + SumOf(b, rest)
          /\ SumOf(s, T) = s[e] + SumOf(s, rest) /\ SumOf(t, T) = t[e] + SumOf(t, rest)
      BY <1>0, SumRemove
    <3> HIDE DEF rest
    <3> DEFINE A == SumOf(a, rest)
               B == SumOf(b, rest)
               M == SumOf(s, rest)
               N == SumOf(t, rest)
    <3>4. A \in Int /\ B \in Int /\ M \in Int /\ N \in Int
      BY <1>0, <3>1
    <3>5. A - B >= rate * (M - N)
      BY <3>2
    <3>6. /\ a[e] \in Int /\ b[e] \in Int /\ s[e] \in Int /\ t[e] \in Int
          /\ a[e] - b[e] >= rate * (s[e] - t[e])
      OBVIOUS
    <3>7. ~ ((a[e] + A) - (b[e] + B) >= rate * ((s[e] + M) - (t[e] + N)))
      BY <2>2, <3>3
    <3> HIDE DEF A, B, M, N
    <3>8. \A x, y \in Int : rate * (x + y) = rate * x + rate * y /\ rate * x \in Int
      OBVIOUS
    <3>9. (s[e] + M) - (t[e] + N) = (s[e] - t[e]) + (M - N)
      BY <3>4, <3>6
    <3>10. rate * ((s[e] + M) - (t[e] + N)) = rate * (s[e] - t[e]) + rate * (M - N)
      BY <3>4, <3>6, <3>8, <3>9
    <3>11. rate * (s[e] - t[e]) \in Int /\ rate * (M - N) \in Int
      BY <3>4, <3>6, <3>8
    <3> QED
      BY <3>4, <3>5, <3>6, <3>7, <3>10, <3>11
  <2> QED
    BY <2>3, <2>4
<1>2. Cardinality(S) \in Nat
  BY FS_CardinalityType
<1> QED
  BY <1>1, <1>2

\* So greater amounts sum up to more.
LEMMA SumGrows ==
  ASSUME NEW S, IsFiniteSet(S), NEW a \in [S -> Int], NEW b \in [S -> Int],
         \A x \in S : b[x] <= a[x]
  PROVE  SumOf(b, S) <= SumOf(a, S)
<1>1. \A x \in S : a[x] - b[x] >= 0 * (a[x] - b[x])
  OBVIOUS
<1>2. SumOf(a, S) - SumOf(b, S) >= 0 * (SumOf(a, S) - SumOf(b, S))
  BY <1>1, Exchange
<1>3. SumOf(a, S) \in Int /\ SumOf(b, S) \in Int
  BY SumType
<1> QED
  BY <1>2, <1>3

(***************************************************************************)
(* Ranks: in a finite set that a relation orders, the k-th element is the  *)
(* one that has k - 1 elements before it.                                  *)
(***************************************************************************)

Below(R, S, x) == {y \in S : <<y, x>> \in R}

StrictlyOrders(R, S) ==
  /\ \A x \in S : <<x, x>> \notin R
  /\ \A x, y \in S : x # y => <<x, y>> \in R \/ <<y, x>> \in R
  /\ \A x, y, z \in S : <<x, y>> \in R /\ <<y, z>> \in R => <<x, z>> \in R

\* What comes later has more before it.
LEMMA RankGrows ==
  ASSUME NEW S, IsFiniteSet(S), NEW R, StrictlyOrders(R, S), NEW x \in S, NEW y \in S, <<x, y>> \in R
  PROVE  Cardinality(Below(R, S, x)) < Cardinality(Below(R, S, y))
<1>1. IsFiniteSet(Below(R, S, x)) /\ IsFiniteSet(Below(R, S, y))
  BY FS_Subset DEF Below
<1>2. Below(R, S, x) \subseteq Below(R, S, y)
  BY DEF Below, StrictlyOrders
<1>3. x \in Below(R, S, y) /\ x \notin Below(R, S, x)
  BY DEF Below, StrictlyOrders
<1>4. /\ Cardinality(Below(R, S, x)) <= Cardinality(Below(R, S, y))
      /\ Cardinality(Below(R, S, x)) # Cardinality(Below(R, S, y))
  <2> DEFINE A == Below(R, S, x)
             B == Below(R, S, y)
  <2>1. IsFiniteSet(B) /\ A \in SUBSET B /\ A # B
    BY <1>1, <1>2, <1>3
  <2> HIDE DEF A, B
  <2> QED
    BY <2>1, FS_Subset DEF A, B
<1>5. Cardinality(Below(R, S, x)) \in Nat /\ Cardinality(Below(R, S, y)) \in Nat
  BY <1>1, FS_CardinalityType
<1> QED
  BY <1>4, <1>5

\* Every rank is taken.
LEMMA RankTaken ==
  ASSUME NEW S, IsFiniteSet(S), NEW R, StrictlyOrders(R, S), NEW k \in 1..Cardinality(S)
  PROVE  \E x \in S : Cardinality(Below(R, S, x)) = k - 1
<1> DEFINE n == Cardinality(S)
           rank == [x \in S |-> Cardinality(Below(R, S, x))]
<1>1. n \in Nat
  BY FS_CardinalityType
<1>2. ASSUME NEW x \in S
      PROVE  rank[x] \in 0..(n - 1)
  <2>1. Below(R, S, x) \in SUBSET S /\ x \notin Below(R, S, x)
    BY DEF Below, StrictlyOrders
  <2>2. /\ Cardinality(Below(R, S, x)) <= n /\ Cardinality(Below(R, S, x)) # n
        /\ IsFiniteSet(Below(R, S, x))
    BY <2>1, FS_Subset
  <2>3. Cardinality(Below(R, S, x)) \in Nat
    BY <2>2, FS_CardinalityType
  <2> QED
    BY <1>1, <2>2, <2>3
<1>3. ASSUME NEW x \in S, NEW y \in S, x # y
      PROVE  rank[x] # rank[y]
  <2>1. rank[x] \in Int /\ rank[y] \in Int
    BY <1>2
  <2>2. rank[x] < rank[y] \/ rank[y] < rank[x]
    BY <1>3, RankGrows DEF StrictlyOrders
  <2> QED
    BY <2>1, <2>2
<1>4. rank \in [S -> 0..(n - 1)]
  BY <1>2
<1>5. rank \in Injection(S, 0..(n - 1))
  BY <1>3, <1>4 DEF Injection, IsInjective
<1>6. IsFiniteSet(0..(n - 1)) /\ Cardinality(0..(n - 1)) = n
  <2>1. 0 \in Int /\ n - 1 \in Int
    BY <1>1
  <2> HIDE DEF n
  <2>2. IsFiniteSet(0..(n - 1)) /\ Cardinality(0..(n - 1)) = IF 0 > n - 1 THEN 0 ELSE (n - 1) - 0 + 1
    BY <2>1, FS_Interval
  <2> QED
    BY <1>1, <2>2
<1> HIDE DEF rank
<1>7. rank \in Surjection(S, 0..(n - 1))
  BY <1>5, <1>6, FS_Injection
<1>8. k - 1 \in 0..(n - 1)
  BY <1>1
<1>9. \E x \in S : rank[x] = k - 1
  BY <1>7, <1>8 DEF Surjection
<1> QED
  BY <1>9 DEF rank

\* The k-th element.
Nth(R, S, k) == CHOOSE x \in S : Cardinality(Below(R, S, x)) = k - 1

\* The elements are in a row, none left out.
LEMMA NthIs ==
  ASSUME NEW S, IsFiniteSet(S), NEW R, StrictlyOrders(R, S)
  PROVE  /\ \A k \in 1..Cardinality(S) : Nth(R, S, k) \in S
         /\ \A i, k \in 1..Cardinality(S) : i < k => <<Nth(R, S, i), Nth(R, S, k)>> \in R
         /\ \A x \in S : \E k \in 1..Cardinality(S) : x = Nth(R, S, k)
<1> DEFINE n == Cardinality(S)
           rank(x) == Cardinality(Below(R, S, x))
<1>1. n \in Nat
  BY FS_CardinalityType
<1>2. \A k \in 1..n : Nth(R, S, k) \in S /\ rank(Nth(R, S, k)) = k - 1
  <2> SUFFICES ASSUME NEW k \in 1..n
               PROVE  Nth(R, S, k) \in S /\ rank(Nth(R, S, k)) = k - 1
    OBVIOUS
  <2>1. \E x \in S : Cardinality(Below(R, S, x)) = k - 1
    BY RankTaken
  <2> QED
    BY <2>1 DEF Nth
<1>3. ASSUME NEW x \in S
      PROVE  rank(x) \in 0..(n - 1)
  <2>1. Below(R, S, x) \in SUBSET S /\ x \notin Below(R, S, x)
    BY DEF Below, StrictlyOrders
  <2>2. /\ Cardinality(Below(R, S, x)) <= n /\ Cardinality(Below(R, S, x)) # n
        /\ IsFiniteSet(Below(R, S, x))
    BY <2>1, FS_Subset
  <2>3. Cardinality(Below(R, S, x)) \in Nat
    BY <2>2, FS_CardinalityType
  <2> QED
    BY <1>1, <2>2, <2>3
<1>4. ASSUME NEW x \in S, NEW y \in S, rank(x) <= rank(y), x # y
      PROVE  <<x, y>> \in R
  <2>1. <<y, x>> \in R => rank(y) < rank(x)
    BY RankGrows
  <2>2. rank(x) \in Nat /\ rank(y) \in Nat
    BY <1>3
  <2> HIDE DEF rank
  <2>3. <<y, x>> \notin R
    BY <1>4, <2>1, <2>2
  <2> QED
    BY <1>4, <2>3 DEF StrictlyOrders
<1> HIDE DEF rank
<1>5. ASSUME NEW i \in 1..n, NEW k \in 1..n, i < k
      PROVE  <<Nth(R, S, i), Nth(R, S, k)>> \in R
  <2> DEFINE x == Nth(R, S, i)
             y == Nth(R, S, k)
  <2>1. x \in S /\ y \in S /\ rank(x) = i - 1 /\ rank(y) = k - 1
    BY <1>2
  <2> HIDE DEF x, y
  <2>2. rank(x) <= rank(y) /\ x # y
    BY <1>5, <2>1
  <2> QED
    BY <1>4, <2>1, <2>2 DEF x, y
<1>6. ASSUME NEW x \in S
      PROVE  \E k \in 1..n : x = Nth(R, S, k)
  <2> DEFINE k == rank(x) + 1
             y == Nth(R, S, k)
  <2>1. rank(x) \in 0..(n - 1)
    BY <1>3
  <2>2. k \in 1..n
    BY <1>1, <2>1
  <2>3. y \in S /\ rank(y) = k - 1
    BY <1>2, <2>2
  <2> HIDE DEF y
  <2>4. rank(y) = rank(x)
    BY <2>1, <2>3
  <2>5. x = y
    <3> SUFFICES ASSUME x # y
                 PROVE  FALSE
      OBVIOUS
    <3>1. rank(x) <= rank(y) /\ rank(y) <= rank(x)
      BY <2>1, <2>4
    <3>2. <<x, y>> \in R /\ <<y, x>> \in R
      BY <1>4, <2>3, <3>1
    <3> QED
      BY <2>3, <3>2 DEF StrictlyOrders
  <2> QED
    BY <2>2, <2>5 DEF y
<1> QED
  BY <1>2, <1>5, <1>6

\* The greatest number of a finite set.
LEMMA MaxIsGreatest ==
  ASSUME NEW S \in SUBSET Int, IsFiniteSet(S), S # {}
  PROVE  Max(S) \in S /\ \A y \in S : y <= Max(S)
<1> DEFINE R == {p \in S \X S : p[1] < p[2]}
<1>1. \A x, y \in S : <<x, y>> \in R <=> x < y
  OBVIOUS
<1> HIDE DEF R
<1>2. StrictlyOrders(R, S)
  BY <1>1 DEF StrictlyOrders
<1>3. Cardinality(S) \in Nat \ {0}
  BY FS_CardinalityType, FS_EmptySet
<1> DEFINE n == Cardinality(S)
<1>4. PICK x \in S : Cardinality(Below(R, S, x)) = n - 1
  <2>1. n \in 1..Cardinality(S)
    BY <1>3
  <2> HIDE DEF n
  <2> QED
    BY <1>2, <2>1, RankTaken
<1>5. Below(R, S, x) = S \ {x}
  <2>1. Below(R, S, x) \in SUBSET (S \ {x})
    BY <1>2 DEF Below, StrictlyOrders
  <2>2. IsFiniteSet(S \ {x}) /\ Cardinality(S \ {x}) = Cardinality(S) - 1
    BY FS_RemoveElement
  <2> QED
    BY <1>4, <2>1, <2>2, FS_Subset
<1>6. ASSUME NEW y \in S
      PROVE  y <= x
  <2>1. CASE y # x
    <3>1. <<y, x>> \in R
      BY <1>5, <2>1 DEF Below
    <3> QED
      BY <1>1, <3>1
  <2> QED
    BY <2>1
<1>7. \E z \in S : \A y \in S : y <= z
  BY <1>6
<1> QED
  BY <1>7 DEF Max

\* The greatest and the least number of a set, by an element that is.
LEMMA GreatestIs ==
  ASSUME NEW S \in SUBSET Nat, NEW m \in S, \A x \in S : x <= m
  PROVE  Max(S) = m
<1>1. \E x \in S : \A y \in S : x >= y
  OBVIOUS
<1>2. Max(S) \in S /\ \A y \in S : Max(S) >= y
  BY <1>1 DEF Max
<1> QED
  <2> DEFINE x == Max(S)
  <2>1. x \in Nat /\ m \in Nat /\ x >= m /\ x <= m
    BY <1>2
  <2> HIDE DEF x
  <2>2. x = m
    BY <2>1
  <2> QED
    BY <2>2 DEF x

\* The least number, likewise.
LEMMA LeastIs ==
  ASSUME NEW S \in SUBSET Nat, NEW m \in S, \A x \in S : m <= x
  PROVE  Min(S) = m
<1>1. \E x \in S : \A y \in S : x <= y
  OBVIOUS
<1>2. Min(S) \in S /\ \A y \in S : Min(S) <= y
  BY <1>1 DEF Min
<1> QED
  <2> DEFINE x == Min(S)
  <2>1. x \in Nat /\ m \in Nat /\ x >= m /\ x <= m
    BY <1>2
  <2> HIDE DEF x
  <2>2. x = m
    BY <2>1
  <2> QED
    BY <2>2 DEF x

\* The greater of two numbers.
LEMMA MaxOfTwo ==
  ASSUME NEW a \in Int, NEW b \in Int
  PROVE  Max({a, b}) \in {a, b} /\ a <= Max({a, b}) /\ b <= Max({a, b})
<1>1. IsFiniteSet({a, b})
  <2>1. IsFiniteSet({a}) /\ {a, b} = {a} \cup {b}
    BY FS_Singleton
  <2> QED
    BY <2>1, FS_AddElement
<1>2. {a, b} \in SUBSET Int /\ {a, b} # {}
  OBVIOUS
<1> QED
  BY <1>1, <1>2, MaxIsGreatest

\* The last index of a set.
LEMMA LastIndex ==
  ASSUME NEW n \in Nat, NEW s \in SUBSET (1..n), s # {}
  PROVE  /\ Max(s) \in s /\ \A i \in s : i <= Max(s)
         /\ IsFiniteSet(s) /\ Cardinality(s \ {Max(s)}) = Cardinality(s) - 1
         /\ Cardinality(s) \in Nat \ {0}
<1>1. IsFiniteSet(1..n)
  BY FS_Interval
<1>2. IsFiniteSet(s)
  BY <1>1, FS_Subset
<1>3. Max(s) \in s /\ \A i \in s : i <= Max(s)
  BY <1>2, MaxIsGreatest
<1>4. Cardinality(s \ {Max(s)}) = Cardinality(s) - 1 /\ Cardinality(s) \in Nat \ {0}
  BY <1>2, <1>3, FS_RemoveElement, FS_CardinalityType, FS_EmptySet
<1> QED
  BY <1>2, <1>3, <1>4

\* A set of values of a function on a finite set is finite.
LEMMA ValuesFinite ==
  ASSUME NEW S, IsFiniteSet(S), NEW f
  PROVE  IsFiniteSet({f[x] : x \in S})
<1> DEFINE T == {f[x] : x \in S}
           h == [x \in S |-> f[x]]
<1>1. h \in Surjection(S, T)
  BY DEF Surjection
<1> HIDE DEF h, T
<1>2. IsFiniteSet(T)
  BY <1>1, FS_Surjection
<1> QED
  BY <1>2 DEF T

(***************************************************************************)
(* The quantity a quote expects.                                           *)
(***************************************************************************)

\* What the i-th level makes of what the levels before it gave.
NextLevel(levels, target, i, before) ==
  LET level == levels[i]
      slice == Min({level.price * level.size, target - before.usdc})
  IN  [usdc |-> before.usdc + slice, qty |-> before.qty + slice * (Grain \div level.price)]

Walks(g, levels, target, n) ==
  g = [i \in 0..n |-> IF i = 0 THEN [usdc |-> 0, qty |-> 0]
                      ELSE NextLevel(levels, target, i, g[i - 1])]

\* What Walk returns is the last value of its walk.
LEMMA WalkIs ==
  \A levels, target :
    Walk(levels, target) = (CHOOSE g : Walks(g, levels, target, Len(levels)))[Len(levels)]
  BY DEF Walk, Walks, NextLevel

\* The walk is defined.
LEMMA WalkExists ==
  ASSUME NEW levels, NEW target, NEW n \in Nat
  PROVE  \E g : Walks(g, levels, target, n)
<1> DEFINE Bad == {m \in Nat : ~ \E g : Walks(g, levels, target, m)}
<1>1. ASSUME Bad # {}
      PROVE  FALSE
  <2>1. PICK m \in Bad : \A k \in Bad : m <= k
    BY <1>1, LeastNatural
  <2>2. CASE m = 0
    <3> DEFINE g == [i \in 0..0 |-> [usdc |-> 0, qty |-> 0]]
    <3>1. Walks(g, levels, target, 0)
      BY DEF Walks
    <3> QED
      BY <2>1, <2>2, <3>1
  <2>3. CASE m # 0
    <3>1. PICK g : Walks(g, levels, target, m - 1)
      BY <2>1, <2>3
    <3> DEFINE h == [i \in 0..m |-> IF i = 0 THEN [usdc |-> 0, qty |-> 0]
                                    ELSE NextLevel(levels, target, i, g[i - 1])]
    <3>2. \A i \in 0..(m - 1) : h[i] = g[i]
      <4>1. \A i \in 0..(m - 1) : g[i] = IF i = 0 THEN [usdc |-> 0, qty |-> 0]
                                         ELSE NextLevel(levels, target, i, g[i - 1])
        BY <3>1 DEF Walks
      <4>2. ASSUME NEW i \in 0..(m - 1)
            PROVE  h[i] = IF i = 0 THEN [usdc |-> 0, qty |-> 0]
                          ELSE NextLevel(levels, target, i, g[i - 1])
        <5>1. i \in 0..m
          BY <2>1
        <5> QED
          BY <5>1
      <4> HIDE DEF h
      <4> QED
        BY <4>1, <4>2
    <3>3. \A i \in 0..m : i # 0 => h[i - 1] = g[i - 1]
      <4>1. \A i \in 0..m : i # 0 => i - 1 \in 0..(m - 1)
        BY <2>1
      <4> HIDE DEF h
      <4> QED
        BY <3>2, <4>1
    <3>4. h = [i \in 0..m |-> IF i = 0 THEN [usdc |-> 0, qty |-> 0]
                              ELSE NextLevel(levels, target, i, h[i - 1])]
      BY <3>3
    <3> HIDE DEF h
    <3>5. Walks(h, levels, target, m)
      BY <3>4 DEF Walks
    <3> QED
      BY <2>1, <3>5
  <2> QED
    BY <2>2, <2>3
<1> QED
  BY <1>1

\* Division of naturals.
LEMMA Quotient == ASSUME NEW n \in Nat, NEW d \in Nat \ {0} PROVE n \div d \in Nat
  OBVIOUS

\* A greater divisor leaves a smaller quotient.
LEMMA QuotientShrinks ==
  ASSUME NEW n \in Nat, NEW p \in Nat \ {0}, NEW q \in Nat \ {0}, p <= q
  PROVE  n \div q <= n \div p
<1> DEFINE a == n \div p
           b == n \div q
<1>1. a \in Nat /\ b \in Nat
  BY Quotient
<1>2. n < p * (a + 1)
  OBVIOUS
<1>3. q * b <= n
  OBVIOUS
<1> HIDE DEF a, b
<1>4. CASE a + 1 <= b
  <2>1. p * (a + 1) <= q * (a + 1)
    BY <1>1
  <2>2. q * (a + 1) <= q * b
    BY <1>1, <1>4
  <2>3. p * (a + 1) \in Int /\ q * (a + 1) \in Int /\ q * b \in Int
    BY <1>1
  <2> QED
    BY <1>2, <1>3, <2>1, <2>2, <2>3
<1>5. CASE b <= a
  BY <1>5 DEF a, b
<1> QED
  BY <1>1, <1>4, <1>5

\* What the i-th level gives: all of it, or what is left of the target.
LEMMA NextLevelIs ==
  ASSUME NEW levels \in Seq(Level), NEW target \in Nat, NEW i \in 1..Len(levels),
         NEW before \in [usdc : 0..target, qty : Nat]
  PROVE  \E slice \in Nat :
           /\ NextLevel(levels, target, i, before) =
                [usdc |-> before.usdc + slice,
                 qty |-> before.qty + slice * (Grain \div levels[i].price)]
           /\ slice <= levels[i].price * levels[i].size
           /\ slice = levels[i].price * levels[i].size \/ before.usdc + slice = target
           /\ NextLevel(levels, target, i, before) \in [usdc : 0..target, qty : Nat]
<1> DEFINE price == levels[i].price
           left == target - before.usdc
           offer == price * levels[i].size
           slice == Min({offer, left})
           rate == Grain \div price
<1>1. price \in Nat \ {0} /\ levels[i].size \in Nat
  <2>1. levels[i] \in Level
    BY ElementOfSeq
  <2> QED
    BY <2>1, SlippageAssumption DEF Level
<1>2. left \in 0..target /\ before.usdc + left = target
  OBVIOUS
<1>3. offer \in Nat
  BY <1>1
<1>4. rate \in Nat
  BY <1>1, Quotient, SlippageAssumption
<1> HIDE DEF price, offer, left, rate
<1>5. slice \in {offer, left} /\ slice <= left /\ slice <= offer
  <2>1. \E x \in {offer, left} : \A y \in {offer, left} : x <= y
    BY <1>2, <1>3
  <2> QED
    BY <2>1 DEF Min
<1> HIDE DEF slice
<1>6. slice \in Nat /\ slice * rate \in Nat
  <2>1. slice \in Nat
    BY <1>2, <1>3, <1>5
  <2> QED
    BY <1>4, <2>1
<1>7. NextLevel(levels, target, i, before) =
        [usdc |-> before.usdc + slice, qty |-> before.qty + slice * rate]
  BY DEF NextLevel, slice, offer, left, price, rate
<1> DEFINE tokens == slice * rate
<1>8. before.usdc + slice \in 0..target /\ before.qty + tokens \in Nat
  <2>1. tokens \in Nat
    BY <1>6
  <2> HIDE DEF tokens
  <2> QED
    BY <1>2, <1>5, <1>6, <2>1 DEF left
<1>9. NextLevel(levels, target, i, before) \in [usdc : 0..target, qty : Nat]
  BY <1>7, <1>8
<1>10. slice = offer \/ before.usdc + slice = target
  BY <1>2, <1>5
<1> QED
  BY <1>5, <1>6, <1>7, <1>9, <1>10 DEF price, offer, rate

\* The walk, level by level, never spends more than the target nor less than
\* before.
LEMMA WalkSteps ==
  ASSUME NEW levels \in Seq(Level), NEW target \in Nat
  PROVE  \E g : /\ Walk(levels, target) = g[Len(levels)]
                /\ g[0] = [usdc |-> 0, qty |-> 0]
                /\ \A i \in 1..Len(levels) : g[i] = NextLevel(levels, target, i, g[i - 1])
                /\ \A i \in 0..Len(levels) : /\ g[i] \in [usdc : 0..target, qty : Nat]
                                             /\ \A k \in 0..i : g[k].usdc <= g[i].usdc
<1> DEFINE n == Len(levels)
           g == CHOOSE f : Walks(f, levels, target, n)
           Fine(i) == /\ g[i] \in [usdc : 0..target, qty : Nat]
                      /\ \A k \in 0..i : g[k].usdc <= g[i].usdc
           Bad == {i \in Nat : i <= n /\ ~Fine(i)}
<1>1. n \in Nat
  BY LenProperties
<1>2. Walks(g, levels, target, n)
  BY <1>1, WalkExists
<1>3. Walk(levels, target) = g[n]
  BY WalkIs
<1> HIDE DEF g
<1>4. /\ g[0] = [usdc |-> 0, qty |-> 0]
      /\ \A i \in 1..n : g[i] = NextLevel(levels, target, i, g[i - 1])
  BY <1>1, <1>2 DEF Walks
<1>5. ASSUME Bad # {}
      PROVE  FALSE
  <2>1. PICK i \in Bad : \A j \in Bad : i <= j
    BY <1>5, LeastNatural
  <2>2. CASE i = 0
    <3>1. 0..i = {0}
      BY <2>2
    <3> QED
      BY <1>4, <2>1, <2>2, <3>1
  <2>3. CASE i # 0
    <3>1. i - 1 \in 0..n /\ i \in 1..n /\ Fine(i - 1)
      BY <1>1, <2>1, <2>3
    <3>2. PICK slice \in Nat :
             /\ g[i].usdc = g[i - 1].usdc + slice
             /\ g[i] \in [usdc : 0..target, qty : Nat]
      <4> DEFINE before == g[i - 1]
      <4>1. before \in [usdc : 0..target, qty : Nat] /\ g[i] = NextLevel(levels, target, i, before)
        BY <1>4, <3>1
      <4>2. i \in 1..Len(levels)
        BY <3>1
      <4> HIDE DEF before, Fine, Bad
      <4>3. PICK slice \in Nat :
               /\ NextLevel(levels, target, i, before) =
                    [usdc |-> before.usdc + slice,
                     qty |-> before.qty + slice * (Grain \div levels[i].price)]
               /\ NextLevel(levels, target, i, before) \in [usdc : 0..target, qty : Nat]
        BY <4>1, <4>2, NextLevelIs
      <4> QED
        BY <4>1, <4>3 DEF before
    <3>3. ASSUME NEW k \in 0..i
          PROVE  g[k].usdc <= g[i].usdc
      <4>1. CASE k = i
        BY <3>2, <4>1
      <4>2. CASE k # i
        <5>1. k \in 0..(i - 1)
          BY <2>1, <4>2
        <5>2. g[k].usdc <= g[i - 1].usdc /\ g[i - 1].usdc \in Int /\ g[k].usdc \in Int
          <6>1. k \in 0..n /\ Fine(k)
            BY <1>1, <2>1, <5>1
          <6> QED
            BY <3>1, <5>1, <6>1
        <5> QED
          BY <3>2, <5>2
      <4> QED
        BY <4>1, <4>2
    <3> QED
      BY <2>1, <3>2, <3>3
  <2> QED
    BY <2>2, <2>3
<1>6. \A i \in 0..n : Fine(i)
  BY <1>1, <1>5
<1> QED
  BY <1>3, <1>4, <1>6

\* The levels of a book, in another order.
Reordered(items, f) == [i \in DOMAIN items |-> items[f[i]]]
Reorders(f, items) == f \in [DOMAIN items -> DOMAIN items] /\ IsInjective(f)

\* The levels in another order are as many levels.
LEMMA ReorderedType ==
  ASSUME NEW items \in Seq(Level), NEW f, Reorders(f, items)
  PROVE  /\ Reordered(items, f) \in Seq(Level)
         /\ Len(Reordered(items, f)) = Len(items)
         /\ Len(items) \in Nat /\ DOMAIN items = 1..Len(items)
         /\ \A i \in DOMAIN items : Reordered(items, f)[i] = items[f[i]]
<1>1. Len(items) \in Nat /\ DOMAIN items = 1..Len(items)
  BY LenProperties
<1>2. \A i \in 1..Len(items) : items[f[i]] \in Level
  BY <1>1, ElementOfSeq DEF Reorders
<1>3. Reordered(items, f) \in Seq(Level) /\ DOMAIN Reordered(items, f) = 1..Len(items)
  BY <1>1, <1>2 DEF Reordered
<1>4. Len(Reordered(items, f)) = Len(items)
  BY <1>1, <1>3, LenProperties
<1> QED
  BY <1>1, <1>3, <1>4 DEF Reordered

\* A book has finitely many levels.
LEMMA LevelsFinite ==
  ASSUME NEW items \in Seq(Level)
  PROVE  IsFiniteSet(DOMAIN items)
<1>1. Len(items) \in Nat /\ DOMAIN items = 1..Len(items)
  BY LenProperties
<1> QED
  BY <1>1, FS_Interval

\* The order takes every level.
LEMMA ReordersAll ==
  ASSUME NEW items \in Seq(Level), NEW f, Reorders(f, items)
  PROVE  /\ IsFiniteSet(DOMAIN items)
         /\ \A x \in DOMAIN items : \E k \in DOMAIN items : f[k] = x
<1> DEFINE D == DOMAIN items
<1>1. IsFiniteSet(D)
  BY LevelsFinite
<1>2. f \in [D -> D] /\ \A i, k \in D : f[i] = f[k] => i = k
  BY DEF Reorders, IsInjective
<1> HIDE DEF D
<1>3. f \in Injection(D, D)
  BY <1>2 DEF Injection, IsInjective
<1>4. f \in Surjection(D, D)
  BY <1>1, <1>3, FS_Injection
<1> QED
  BY <1>1, <1>4 DEF Surjection, D

\* The quantity is a number, when there is one.
LEMMA ExpectedQtyType ==
  ASSUME NEW levels \in Seq(Level), NEW target \in Nat
  PROVE  ExpectedQty(levels, target) \in Nat \cup {NoQty}
<1>1. PICK g : /\ Walk(levels, target) = g[Len(levels)]
               /\ \A i \in 0..Len(levels) : g[i] \in [usdc : 0..target, qty : Nat]
  BY WalkSteps
<1>2. Len(levels) \in 0..Len(levels)
  BY LenProperties
<1> QED
  BY <1>1, <1>2 DEF ExpectedQty

\* What is offered at each level, the tokens that a part of a USDC buys there,
\* and the tokens that all spent there buy.
Offers(items) == [x \in DOMAIN items |-> items[x].price * items[x].size]
Rates(items) == [x \in DOMAIN items |-> Grain \div items[x].price]
Bought(items, spent) == [x \in DOMAIN items |-> spent[x] * Rates(items)[x]]

\* All of these are natural numbers.
LEMMA AmountTypes ==
  ASSUME NEW items \in Seq(Level)
  PROVE  /\ Offers(items) \in [DOMAIN items -> Nat] /\ Rates(items) \in [DOMAIN items -> Nat]
         /\ \A spent \in [DOMAIN items -> Nat] : Bought(items, spent) \in [DOMAIN items -> Nat]
<1>1. \A x \in DOMAIN items : items[x].price \in Nat \ {0} /\ items[x].size \in Nat
  <2>1. \A x \in DOMAIN items : items[x] \in Level
    BY ElementOfSeq, LenProperties
  <2> QED
    BY <2>1, SlippageAssumption DEF Level
<1>2. Grain \in Nat
  BY SlippageAssumption
<1>3. Offers(items) \in [DOMAIN items -> Nat]
  <2>1. \A p, s \in Nat : p * s \in Nat
    OBVIOUS
  <2> QED
    BY <1>1, <2>1 DEF Offers
<1>4. Rates(items) \in [DOMAIN items -> Nat]
  <2>1. \A x \in DOMAIN items : Grain \div items[x].price \in Nat
    BY <1>1, <1>2, Quotient
  <2> QED
    BY <2>1 DEF Rates
<1>5. ASSUME NEW spent \in [DOMAIN items -> Nat]
      PROVE  Bought(items, spent) \in [DOMAIN items -> Nat]
  <2>1. \A p, s \in Nat : p * s \in Nat
    OBVIOUS
  <2>2. \A x \in DOMAIN items : spent[x] \in Nat /\ Rates(items)[x] \in Nat
    BY <1>4
  <2> QED
    BY <2>1, <2>2 DEF Bought
<1> QED
  BY <1>3, <1>4, <1>5

\* A walk spends the target, or all there is; no level is used before those
\* that come earlier are used up.
Spends(spent, items, f, target) ==
  /\ spent \in [DOMAIN items -> Nat]
  /\ \A x \in DOMAIN items : spent[x] <= Offers(items)[x]
  /\ SumOf(spent, DOMAIN items) <= target
  /\ SumOf(spent, DOMAIN items) < target => spent = Offers(items)
  /\ \A i, k \in DOMAIN items : i < k => spent[f[i]] = Offers(items)[f[i]] \/ spent[f[k]] = 0

\* So does each walk, which buys what is bought for what it spends.
LEMMA WalkSpends ==
  ASSUME NEW items \in Seq(Level), NEW f, Reorders(f, items), NEW target \in Nat
  PROVE  \E spent :
           /\ Spends(spent, items, f, target)
           /\ Walk(Reordered(items, f), target).usdc = SumOf(spent, DOMAIN items)
           /\ Walk(Reordered(items, f), target).qty = SumOf(Bought(items, spent), DOMAIN items)
           /\ Walk(Reordered(items, f), target).qty \in Nat
<1> DEFINE D == DOMAIN items
           n == Len(items)
           levels == Reordered(items, f)
           offer == Offers(items)
           rate == Rates(items)
<1>1. /\ levels \in Seq(Level) /\ Len(levels) = n /\ n \in Nat /\ D = 1..n
      /\ \A i \in D : levels[i] = items[f[i]]
  BY ReorderedType
<1>2. /\ f \in [D -> D] /\ \A i, k \in D : f[i] = f[k] => i = k
      /\ IsFiniteSet(D) /\ \A x \in D : \E k \in D : f[k] = x
  BY ReordersAll DEF Reorders, IsInjective
<1>3. /\ offer \in [D -> Nat] /\ rate \in [D -> Nat]
      /\ \A spent \in [D -> Nat] : Bought(items, spent) \in [D -> Nat]
  BY AmountTypes
<1>4. PICK g : /\ Walk(levels, target) = g[n]
               /\ g[0] = [usdc |-> 0, qty |-> 0]
               /\ \A i \in 1..n : g[i] = NextLevel(levels, target, i, g[i - 1])
               /\ \A i \in 0..n : /\ g[i] \in [usdc : 0..target, qty : Nat]
                                  /\ \A k \in 0..i : g[k].usdc <= g[i].usdc
  <2>1. levels \in Seq(Level) /\ n = Len(levels)
    BY <1>1
  <2> HIDE DEF levels, n
  <2> QED
    BY <2>1, WalkSteps
<1> DEFINE slice(i) == g[i].usdc - g[i - 1].usdc
<1>5. ASSUME NEW i \in D
      PROVE  /\ slice(i) \in Nat /\ slice(i) <= offer[f[i]]
             /\ g[i].usdc = g[i - 1].usdc + slice(i)
             /\ g[i].qty = g[i - 1].qty + slice(i) * rate[f[i]]
             /\ slice(i) = offer[f[i]] \/ g[i].usdc = target
  <2> DEFINE before == g[i - 1]
  <2>1. /\ before \in [usdc : 0..target, qty : Nat] /\ i \in 1..Len(levels)
        /\ g[i] = NextLevel(levels, target, i, before)
    BY <1>1, <1>4
  <2>2. /\ offer[f[i]] = levels[i].price * levels[i].size
        /\ rate[f[i]] = Grain \div levels[i].price
    BY <1>1, <1>2 DEF Offers, Rates
  <2> HIDE DEF before, levels, offer, rate
  <2>3. PICK part \in Nat :
           /\ g[i] = [usdc |-> before.usdc + part, qty |-> before.qty + part * rate[f[i]]]
           /\ part <= offer[f[i]]
           /\ part = offer[f[i]] \/ before.usdc + part = target
    <3>1. \E part \in Nat :
           /\ NextLevel(levels, target, i, before) =
                [usdc |-> before.usdc + part,
                 qty |-> before.qty + part * (Grain \div levels[i].price)]
           /\ part <= levels[i].price * levels[i].size
           /\ part = levels[i].price * levels[i].size \/ before.usdc + part = target
           /\ NextLevel(levels, target, i, before) \in [usdc : 0..target, qty : Nat]
      BY <1>1, <2>1, NextLevelIs
    <3> QED
      BY <2>1, <2>2, <3>1
  <2>4. slice(i) = part
    BY <2>1, <2>3 DEF before
  <2>5. g[i].qty = before.qty + part * rate[f[i]] /\ g[i].usdc = before.usdc + part
    BY <2>3
  <2> HIDE DEF slice
  <2> QED
    BY <2>3, <2>4, <2>5 DEF before
<1> DEFINE place(x) == CHOOSE k \in D : f[k] = x
           spent == [x \in D |-> slice(place(x))]
<1>6. \A k \in D : spent[f[k]] = slice(k)
  <2> SUFFICES ASSUME NEW k \in D
               PROVE  spent[f[k]] = slice(k)
    OBVIOUS
  <2>1. place(f[k]) = k /\ f[k] \in D
    BY <1>2
  <2> HIDE DEF slice, place
  <2> QED
    BY <2>1
<1>7. \A x \in D : spent[x] \in Nat /\ spent[x] <= offer[x]
  <2> SUFFICES ASSUME NEW x \in D
               PROVE  spent[x] \in Nat /\ spent[x] <= offer[x]
    OBVIOUS
  <2>1. PICK k \in D : f[k] = x
    BY <1>2
  <2> HIDE DEF slice, spent
  <2> QED
    BY <1>5, <1>6, <2>1
<1>8. spent \in [D -> Nat] /\ Bought(items, spent) \in [D -> Nat]
  <2>1. spent \in [D -> Nat]
    BY <1>7
  <2> HIDE DEF spent
  <2> QED
    BY <1>3, <2>1
<1>9. \A x \in D : Bought(items, spent)[x] = spent[x] * rate[x]
  BY DEF Bought
<1> DEFINE b == Bought(items, spent)
           first(k) == {f[i] : i \in 1..k}
           Adds(k) == g[k].usdc = SumOf(spent, first(k)) /\ g[k].qty = SumOf(b, first(k))
           Bad == {k \in Nat : k <= n /\ ~Adds(k)}
<1> HIDE DEF slice, spent, D, b
<1>10. ASSUME Bad # {}
       PROVE  FALSE
  <2>1. PICK k \in Bad : \A j \in Bad : k <= j
    BY <1>10, LeastNatural
  <2>2. CASE k = 0
    <3>1. first(k) = {}
      BY <2>2
    <3>2. SumOf(spent, {}) = 0 /\ SumOf(b, {}) = 0
      BY FS_EmptySet, SumUnfolds
    <3>3. g[k].usdc = 0 /\ g[k].qty = 0
      BY <1>4, <2>2
    <3> HIDE DEF first
    <3>4. Adds(k)
      BY <3>1, <3>2, <3>3
    <3> QED
      BY <2>1, <3>4
  <2>3. CASE k # 0
    <3>1. k \in D /\ k - 1 \in Nat /\ k - 1 <= n
      BY <1>1, <2>1, <2>3
    <3>2. Adds(k - 1)
      <4> HIDE DEF Adds
      <4> QED
        BY <2>1, <3>1
    <3>3. f[k] \in first(k) /\ first(k) \ {f[k]} = first(k - 1) /\ first(k) \in SUBSET D
      <4>1. ASSUME NEW i \in 1..k
            PROVE  i \in D /\ (i # k => f[i] # f[k] /\ i \in 1..(k - 1))
        <5>1. i \in D /\ (i # k => i \in 1..(k - 1))
          BY <1>1, <3>1
        <5> QED
          BY <1>2, <3>1, <5>1
      <4>2. \A i \in 1..(k - 1) : f[i] # f[k] /\ i \in 1..k
        BY <1>1, <1>2, <3>1
      <4>3. k \in 1..k
        BY <1>1, <3>1
      <4> QED
        BY <1>2, <4>1, <4>2, <4>3
    <3> DEFINE T == first(k)
               e == f[k]
    <3>4. IsFiniteSet(T) /\ T \in SUBSET D /\ e \in T
      <4> HIDE DEF first
      <4> QED
        BY <1>2, <3>3, FS_Subset
    <3>5. T \ {e} = first(k - 1)
      BY <3>3
    <3> HIDE DEF T, e, first
    <3>6. SumOf(spent, T) = spent[e] + SumOf(spent, T \ {e})
      BY <1>8, <3>4, SumRemove
    <3>7. SumOf(b, T) = b[e] + SumOf(b, T \ {e})
      <4>1. b \in [D -> Nat]
        BY <1>8 DEF b
      <4> QED
        BY <3>4, <4>1, SumRemove
    <3>8. spent[e] = slice(k) /\ b[e] = slice(k) * rate[f[k]] /\ e = f[k] /\ e \in D
      BY <1>6, <1>9, <3>1, <3>4 DEF e, b
    <3>9. /\ g[k].usdc = g[k - 1].usdc + slice(k) /\ slice(k) \in Nat
          /\ g[k].qty = g[k - 1].qty + b[e]
      BY <1>5, <3>1, <3>8
    <3>10. /\ g[k - 1].usdc = SumOf(spent, T \ {e}) /\ g[k - 1].qty = SumOf(b, T \ {e})
           /\ g[k - 1].usdc \in Nat /\ g[k - 1].qty \in Nat
      <4>1. g[k - 1] \in [usdc : 0..target, qty : Nat]
        BY <1>4, <3>1
      <4>2. g[k - 1].usdc \in Nat /\ g[k - 1].qty \in Nat
        BY <4>1
      <4>3. g[k - 1].usdc = SumOf(spent, first(k - 1)) /\ g[k - 1].qty = SumOf(b, first(k - 1))
        BY <3>2
      <4> QED
        BY <3>5, <4>2, <4>3
    <3>11. b[e] \in Nat
      BY <1>8, <3>8 DEF b
    <3>12. g[k].usdc = SumOf(spent, T) /\ g[k].qty = SumOf(b, T)
      BY <3>6, <3>7, <3>8, <3>9, <3>10, <3>11
    <3> QED
      BY <2>1, <3>12 DEF T
  <2> QED
    BY <2>2, <2>3
<1>11. first(n) = D
  <2>1. first(n) = {f[i] : i \in D}
    BY <1>1
  <2> HIDE DEF first
  <2> QED
    BY <1>2, <2>1
<1> HIDE DEF first
<1>12. g[n].usdc = SumOf(spent, D) /\ g[n].qty = SumOf(Bought(items, spent), D)
  <2>1. Adds(n)
    <3> HIDE DEF Adds
    <3> QED
      BY <1>1, <1>10
  <2> QED
    BY <1>11, <2>1 DEF b
<1>13. SumOf(spent, D) <= target /\ g[n].qty \in Nat
  <2>1. g[n] \in [usdc : 0..target, qty : Nat]
    BY <1>1, <1>4
  <2> QED
    BY <1>12, <2>1
<1>14. ASSUME NEW i \in D, NEW k \in D, i < k
       PROVE  spent[f[i]] = offer[f[i]] \/ spent[f[k]] = 0
  <2>1. CASE slice(i) = offer[f[i]]
    BY <1>6, <2>1
  <2>2. CASE g[i].usdc = target
    <3>1. i \in 0..(k - 1) /\ k - 1 \in 0..n /\ k \in 0..n
      BY <1>1, <1>14
    <3>2. /\ g[k - 1].usdc \in 0..target /\ g[k].usdc \in 0..target
          /\ g[i].usdc <= g[k - 1].usdc
      BY <1>4, <3>1
    <3>3. slice(k) = 0
      <4>1. g[k].usdc = g[k - 1].usdc + slice(k) /\ slice(k) \in Nat
        BY <1>5
      <4> QED
        BY <2>2, <3>2, <4>1
    <3> QED
      BY <1>6, <3>3
  <2> QED
    BY <1>5, <2>1, <2>2
<1>15. ASSUME SumOf(spent, D) < target
       PROVE  spent = offer
  <2>1. ASSUME NEW x \in D
        PROVE  spent[x] = offer[x]
    <3>1. PICK k \in D : f[k] = x
      BY <1>2
    <3>2. g[k].usdc <= g[n].usdc /\ g[k].usdc \in Int /\ g[n].usdc \in Int
      <4>1. k \in 0..n /\ n \in 0..n
        BY <1>1
      <4> QED
        BY <1>4, <4>1
    <3>3. g[k].usdc # target
      BY <1>12, <1>15, <3>2
    <3> QED
      BY <1>5, <1>6, <3>1, <3>3
  <2> QED
    BY <1>3, <1>8, <2>1
<1>16. Spends(spent, items, f, target)
  BY <1>7, <1>8, <1>13, <1>14, <1>15 DEF Spends, D
<1> QED
  BY <1>4, <1>12, <1>13, <1>16 DEF D

\* The sorted book has each level once, the prices in order.
InOrder(items, f, descending) ==
  \A i, k \in DOMAIN items :
    i < k => IF descending THEN items[f[i]].price >= items[f[k]].price
             ELSE items[f[i]].price <= items[f[k]].price

\* Sorted reorders the levels, and orders their prices.
LEMMA SortedIsOrdered ==
  ASSUME NEW items \in Seq(Level), NEW descending \in BOOLEAN
  PROVE  \E f : /\ Reorders(f, items) /\ InOrder(items, f, descending)
                /\ Sorted(items, descending) = Reordered(items, f)
<1> DEFINE all == DOMAIN items
           better(i, j) == IF descending THEN items[i].price > items[j].price
                           ELSE items[i].price < items[j].price
           before(i, j) == better(i, j) \/ (items[i].price = items[j].price /\ i < j)
           R == {p \in all \X all : before(p[1], p[2])}
           f == [k \in all |-> Nth(R, all, k)]
<1>1. Len(items) \in Nat /\ all = 1..Len(items)
  BY LenProperties
<1>2. IsFiniteSet(all) /\ 1..Cardinality(all) = all
  <2>1. Len(items) \in Int /\ 1 \in Int
    BY <1>1
  <2>2. /\ IsFiniteSet(1..Len(items))
        /\ Cardinality(1..Len(items)) = IF 1 > Len(items) THEN 0 ELSE Len(items) - 1 + 1
    BY <2>1, FS_Interval
  <2> QED
    BY <1>1, <2>2
<1>3. \A i \in all : items[i].price \in Nat /\ i \in Nat
  <2>1. \A i \in all : items[i] \in Level /\ i \in Nat
    BY <1>1, ElementOfSeq
  <2> QED
    BY <2>1, SlippageAssumption DEF Level
<1>4. \A i, j \in all : <<i, j>> \in R <=> before(i, j)
  OBVIOUS
<1> HIDE DEF R
<1>5. StrictlyOrders(R, all)
  <2>1. \A i \in all : <<i, i>> \notin R
    BY <1>3, <1>4
  <2>2. ASSUME NEW i \in all, NEW j \in all, i # j
        PROVE  <<i, j>> \in R \/ <<j, i>> \in R
    <3>1. /\ i \in Nat /\ j \in Nat
          /\ items[i].price \in Nat /\ items[j].price \in Nat
      BY <1>3
    <3>2. before(i, j) \/ before(j, i)
      BY <2>2, <3>1
    <3> QED
      BY <1>4, <3>2
  <2>3. ASSUME NEW i \in all, NEW j \in all, NEW k \in all, before(i, j), before(j, k)
        PROVE  before(i, k)
    <3>1. CASE descending
      BY <1>3, <2>3, <3>1
    <3>2. CASE ~descending
      BY <1>3, <2>3, <3>2
    <3> QED
      BY <3>1, <3>2
  <2> HIDE DEF all, before
  <2> QED
    BY <1>4, <2>1, <2>2, <2>3 DEF StrictlyOrders
<1>6. /\ \A k \in all : Nth(R, all, k) \in all
      /\ \A i, k \in all : i < k => <<Nth(R, all, i), Nth(R, all, k)>> \in R
  <2> DEFINE D == all
  <2>1. IsFiniteSet(D) /\ 1..Cardinality(D) = D /\ StrictlyOrders(R, D)
    BY <1>2, <1>5
  <2> HIDE DEF D
  <2>2. /\ \A k \in 1..Cardinality(D) : Nth(R, D, k) \in D
        /\ \A i, k \in 1..Cardinality(D) : i < k => <<Nth(R, D, i), Nth(R, D, k)>> \in R
    BY <2>1, NthIs
  <2>3. /\ \A k \in D : Nth(R, D, k) \in D
        /\ \A i, k \in D : i < k => <<Nth(R, D, i), Nth(R, D, k)>> \in R
    BY <2>1, <2>2
  <2> QED
    BY <2>3 DEF D
<1>7. Sorted(items, descending) = Reordered(items, f)
  <2>1. \A i \in all : {j \in all : before(j, i)} = Below(R, all, i)
    BY <1>4 DEF Below
  <2>2. Sorted(items, descending) =
          [k \in all |-> items[CHOOSE i \in all : Cardinality({j \in all : before(j, i)}) = k - 1]]
    BY DEF Sorted
  <2> HIDE DEF before
  <2>3. \A k \in all :
          (CHOOSE i \in all : Cardinality({j \in all : before(j, i)}) = k - 1) = Nth(R, all, k)
    BY <2>1 DEF Nth
  <2> QED
    BY <2>2, <2>3 DEF Reordered
<1>8. Reorders(f, items)
  <2>1. f \in [all -> all]
    BY <1>6
  <2>2. ASSUME NEW i \in all, NEW k \in all, f[i] = f[k]
        PROVE  i = k
    <3>1. ~(i < k) /\ ~(k < i)
      BY <1>5, <1>6, <2>2 DEF StrictlyOrders
    <3> QED
      BY <1>3, <3>1
  <2> QED
    BY <2>1, <2>2 DEF Reorders, IsInjective
<1>9. InOrder(items, f, descending)
  <2> SUFFICES ASSUME NEW i \in all, NEW k \in all, i < k
               PROVE  IF descending THEN items[f[i]].price >= items[f[k]].price
                      ELSE items[f[i]].price <= items[f[k]].price
    BY DEF InOrder
  <2>1. before(f[i], f[k]) /\ f[i] \in all /\ f[k] \in all
    BY <1>4, <1>6
  <2> QED
    BY <1>3, <2>1
<1> QED
  BY <1>7, <1>8, <1>9

\* Where prices are in order, so is what a part of a USDC buys.
LEMMA RatesInOrder ==
  ASSUME NEW items \in Seq(Level), NEW f, Reorders(f, items), NEW descending \in BOOLEAN,
         InOrder(items, f, descending), NEW i \in DOMAIN items, NEW k \in DOMAIN items, i < k
  PROVE  IF descending THEN Rates(items)[f[i]] <= Rates(items)[f[k]]
         ELSE Rates(items)[f[k]] <= Rates(items)[f[i]]
<1>1. \A x \in DOMAIN items : items[x].price \in Nat \ {0}
  <2>1. \A x \in DOMAIN items : items[x] \in Level
    BY ElementOfSeq, LenProperties
  <2> QED
    BY <2>1, SlippageAssumption DEF Level
<1>2. f[i] \in DOMAIN items /\ f[k] \in DOMAIN items
  BY DEF Reorders
<1>3. /\ Rates(items)[f[i]] = Grain \div items[f[i]].price
      /\ Rates(items)[f[k]] = Grain \div items[f[k]].price
  BY <1>2 DEF Rates
<1>4. Grain \in Nat
  BY SlippageAssumption
<1>5. IF descending THEN items[f[i]].price >= items[f[k]].price
      ELSE items[f[i]].price <= items[f[k]].price
  BY DEF InOrder
<1> DEFINE p == items[f[i]].price
           q == items[f[k]].price
<1>6. p \in Nat \ {0} /\ q \in Nat \ {0}
  BY <1>1, <1>2
<1>7. IF descending THEN q <= p ELSE p <= q
  BY <1>5, <1>6
<1> HIDE DEF p, q
<1>8. IF descending THEN Grain \div p <= Grain \div q ELSE Grain \div q <= Grain \div p
  BY <1>4, <1>6, <1>7, QuotientShrinks
<1> QED
  BY <1>3, <1>8 DEF p, q

\* Some rate separates the levels that a sorted walk takes whole from those
\* that it does not take.
LEMMA SortedRate ==
  ASSUME NEW items \in Seq(Level), NEW f, Reorders(f, items), NEW descending \in BOOLEAN,
         InOrder(items, f, descending), NEW target \in Nat,
         NEW spent, Spends(spent, items, f, target)
  PROVE  \E rate \in Nat : \A x \in DOMAIN items :
           LET gain == Rates(items)[x] - rate IN
             /\ spent[x] # Offers(items)[x] => IF descending THEN gain >= 0 ELSE gain <= 0
             /\ spent[x] # 0 => IF descending THEN gain <= 0 ELSE gain >= 0
<1> DEFINE D == DOMAIN items
           r == Rates(items)
           part == {k \in D : spent[f[k]] # Offers(items)[f[k]]}
<1>1. /\ D \in SUBSET Nat /\ f \in [D -> D] /\ r \in [D -> Nat]
      /\ \A x \in D : \E k \in D : f[k] = x
  <2>1. D = 1..Len(items) /\ Len(items) \in Nat
    BY LenProperties
  <2>2. f \in [D -> D]
    BY DEF Reorders
  <2>3. \A x \in D : \E k \in D : f[k] = x
    BY ReordersAll
  <2>4. r \in [D -> Nat]
    BY AmountTypes
  <2>5. D \in SUBSET Nat
    BY <2>1
  <2> QED
    BY <2>2, <2>3, <2>4, <2>5
<1>2. \A i, k \in D : i < k => spent[f[i]] = Offers(items)[f[i]] \/ spent[f[k]] = 0
  BY DEF Spends
<1>3. \A i, k \in D : i < k => IF descending THEN r[f[i]] <= r[f[k]] ELSE r[f[k]] <= r[f[i]]
  BY RatesInOrder
<1> HIDE DEF D, r
<1>4. CASE part = {}
  <2>1. \A x \in D : spent[x] = Offers(items)[x]
    BY <1>1, <1>4
  <2>2. CASE descending
    <3>1. \A x \in D : r[x] <= Grain
      <4> SUFFICES ASSUME NEW x \in D
                   PROVE  Grain \div items[x].price <= Grain
        BY DEF r, Rates, D
      <4>1. items[x].price \in Nat \ {0}
        <5>1. items[x] \in Level
          BY ElementOfSeq, LenProperties DEF D
        <5> QED
          BY <5>1, SlippageAssumption DEF Level
      <4> DEFINE p == items[x].price
      <4>2. p \in Nat \ {0} /\ 1 <= p /\ Grain \in Nat
        BY <4>1, SlippageAssumption
      <4> HIDE DEF p
      <4> DEFINE one == 1
      <4>3. Grain \div one = Grain /\ one \in Nat \ {0} /\ one <= p
        BY <4>2
      <4> HIDE DEF one
      <4>4. Grain \div p <= Grain \div one
        BY <4>2, <4>3, QuotientShrinks
      <4> QED
        BY <4>3, <4>4 DEF p
    <3>2. Grain \in Nat
      BY SlippageAssumption
    <3>3. \A x \in D : r[x] - Grain <= 0
      BY <1>1, <3>1, <3>2
    <3> QED
      BY <2>1, <2>2, <3>2, <3>3 DEF D, r
  <2>3. CASE ~descending
    <3>1. \A x \in D : r[x] - 0 >= 0
      BY <1>1
    <3> QED
      BY <2>1, <2>3, <3>1 DEF D, r
  <2> QED
    BY <2>2, <2>3
<1>5. CASE part # {}
  <2>1. PICK k \in part : \A i \in part : k <= i
    <3>1. part \in SUBSET Nat
      BY <1>1
    <3> HIDE DEF part
    <3> QED
      BY <1>5, <3>1, LeastNatural
  <2>2. k \in D /\ f[k] \in D /\ r[f[k]] \in Nat
    BY <1>1, <2>1
  <2>3. ASSUME NEW x \in D
        PROVE  LET gain == r[x] - r[f[k]] IN
                 /\ spent[x] # Offers(items)[x] => IF descending THEN gain >= 0 ELSE gain <= 0
                 /\ spent[x] # 0 => IF descending THEN gain <= 0 ELSE gain >= 0
    <3>1. PICK i \in D : f[i] = x
      BY <1>1
    <3>2. r[x] \in Nat
      BY <1>1
    <3>3. i \in Nat /\ k \in Nat
      BY <1>1, <2>2
    <3>4. CASE i < k
      <4>1. spent[x] = Offers(items)[x]
        BY <2>1, <3>1, <3>3, <3>4
      <4>2. IF descending THEN r[x] <= r[f[k]] ELSE r[f[k]] <= r[x]
        BY <1>3, <2>2, <3>1, <3>4
      <4> QED
        BY <2>2, <3>2, <4>1, <4>2
    <3>5. CASE i = k
      BY <2>2, <3>1, <3>2, <3>5
    <3>6. CASE k < i
      <4>1. spent[x] = 0
        BY <1>2, <2>1, <2>2, <3>1, <3>6
      <4>2. IF descending THEN r[f[k]] <= r[x] ELSE r[x] <= r[f[k]]
        BY <1>3, <2>2, <3>1, <3>6
      <4> QED
        BY <2>2, <3>2, <4>1, <4>2
    <3> QED
      BY <3>3, <3>4, <3>5, <3>6
  <2> QED
    BY <2>2, <2>3 DEF D, r
<1> QED
  BY <1>4, <1>5

\* A gain on a level, when what is spent there differs from s to t.
LEMMA GainOnLevel ==
  ASSUME NEW s \in Nat, NEW t \in Nat, NEW r \in Nat, NEW rate \in Nat,
         \/ s >= t /\ r >= rate
         \/ s <= t /\ r <= rate
  PROVE  s * r - t * r >= rate * (s - t)
<1> DEFINE amount == s - t
           gain == r - rate
<1>1. amount \in Int /\ gain \in Int
  OBVIOUS
<1>2. (amount >= 0 /\ gain >= 0) \/ (amount <= 0 /\ gain <= 0)
  OBVIOUS
<1>3. s * r - t * r = (rate + gain) * amount
  <2>1. (s - t) * r = s * r - t * r
    OBVIOUS
  <2>2. r = rate + gain
    OBVIOUS
  <2>3. (s - t) * (rate + gain) = (rate + gain) * (s - t)
    OBVIOUS
  <2> HIDE DEF gain
  <2> QED
    BY <2>1, <2>2, <2>3
<1> HIDE DEF amount, gain
<1>4. gain * amount >= 0
  BY <1>1, <1>2
<1>5. (rate + gain) * amount = rate * amount + gain * amount
  BY <1>1
<1>6. rate * amount \in Int /\ gain * amount \in Int
  BY <1>1
<1>7. s * r - t * r >= rate * amount
  BY <1>3, <1>4, <1>5, <1>6
<1> QED
  BY <1>7 DEF amount

\* No walk that spends the target buys more than that along ascending prices,
\* or sells less than that along descending ones.
LEMMA SortedIsBest ==
  ASSUME NEW items \in Seq(Level), NEW target \in Nat,
         NEW f, Reorders(f, items), NEW descending \in BOOLEAN, InOrder(items, f, descending),
         NEW s, Spends(s, items, f, target), SumOf(s, DOMAIN items) = target,
         NEW g, NEW t, Spends(t, items, g, target), SumOf(t, DOMAIN items) = target
  PROVE  LET sorted == SumOf(Bought(items, s), DOMAIN items)
             other == SumOf(Bought(items, t), DOMAIN items)
         IN  IF descending THEN sorted <= other ELSE other <= sorted
<1> DEFINE D == DOMAIN items
           r == Rates(items)
           a == Bought(items, s)
           b == Bought(items, t)
<1>1. PICK rate \in Nat : \A x \in D :
         LET gain == r[x] - rate IN
           /\ s[x] # Offers(items)[x] => IF descending THEN gain >= 0 ELSE gain <= 0
           /\ s[x] # 0 => IF descending THEN gain <= 0 ELSE gain >= 0
  BY SortedRate
<1>2. IsFiniteSet(D)
  BY ReordersAll
<1>3. /\ r \in [D -> Nat] /\ Offers(items) \in [D -> Nat]
      /\ a \in [D -> Nat] /\ b \in [D -> Nat] /\ s \in [D -> Nat] /\ t \in [D -> Nat]
  BY AmountTypes DEF Spends
<1>4. \A x \in D : /\ a[x] = s[x] * r[x] /\ b[x] = t[x] * r[x]
                   /\ s[x] <= Offers(items)[x] /\ t[x] <= Offers(items)[x]
  BY DEF Bought, Spends
<1> HIDE DEF D, r, a, b
<1>5. ASSUME NEW x \in D
      PROVE  IF descending THEN b[x] - a[x] >= rate * (t[x] - s[x])
             ELSE a[x] - b[x] >= rate * (s[x] - t[x])
  <2>1. /\ s[x] \in Nat /\ t[x] \in Nat /\ r[x] \in Nat /\ Offers(items)[x] \in Nat
        /\ s[x] <= Offers(items)[x] /\ t[x] <= Offers(items)[x]
    BY <1>3, <1>4
  <2>2. CASE descending
    <3>1. (t[x] >= s[x] /\ r[x] >= rate) \/ (t[x] <= s[x] /\ r[x] <= rate)
      BY <1>1, <2>1, <2>2
    <3>2. t[x] * r[x] - s[x] * r[x] >= rate * (t[x] - s[x])
      BY <2>1, <3>1, GainOnLevel
    <3> QED
      BY <1>4, <2>2, <3>2
  <2>3. CASE ~descending
    <3>1. (s[x] >= t[x] /\ r[x] >= rate) \/ (s[x] <= t[x] /\ r[x] <= rate)
      BY <1>1, <2>1, <2>3
    <3>2. s[x] * r[x] - t[x] * r[x] >= rate * (s[x] - t[x])
      BY <2>1, <3>1, GainOnLevel
    <3> QED
      BY <1>4, <2>3, <3>2
  <2> QED
    BY <2>2, <2>3
<1>6. /\ rate \in Int /\ a \in [D -> Int] /\ b \in [D -> Int]
      /\ s \in [D -> Int] /\ t \in [D -> Int]
  BY <1>3
<1>7. SumOf(a, D) \in Int /\ SumOf(b, D) \in Int
  BY <1>2, <1>6, SumType
<1>8. SumOf(s, D) = target /\ SumOf(t, D) = target /\ rate * (target - target) = 0
  BY DEF D
<1>9. CASE descending
  <2>1. \A x \in D : b[x] - a[x] >= rate * (t[x] - s[x])
    BY <1>5, <1>9
  <2>2. SumOf(b, D) - SumOf(a, D) >= rate * (SumOf(t, D) - SumOf(s, D))
    BY <1>2, <1>6, <2>1, Exchange
  <2>3. SumOf(a, D) <= SumOf(b, D)
    BY <1>7, <1>8, <2>2
  <2> QED
    BY <1>9, <2>3 DEF a, b, D
<1>10. CASE ~descending
  <2>1. \A x \in D : a[x] - b[x] >= rate * (s[x] - t[x])
    BY <1>5, <1>10
  <2>2. SumOf(a, D) - SumOf(b, D) >= rate * (SumOf(s, D) - SumOf(t, D))
    BY <1>2, <1>6, <2>1, Exchange
  <2>3. SumOf(b, D) <= SumOf(a, D)
    BY <1>7, <1>8, <2>2
  <2> QED
    BY <1>10, <2>3 DEF a, b, D
<1> QED
  BY <1>9, <1>10

\* Every walk spends the target, or none does.
LEMMA WalksSpendAlike ==
  ASSUME NEW items \in Seq(Level), NEW target \in Nat, NEW f, NEW g,
         NEW s, Spends(s, items, f, target), NEW t, Spends(t, items, g, target),
         SumOf(s, DOMAIN items) # target
  PROVE  SumOf(t, DOMAIN items) # target
<1> DEFINE D == DOMAIN items
<1>1. IsFiniteSet(D)
  BY LevelsFinite
<1>2. s \in [D -> Nat] /\ t \in [D -> Nat] /\ \A x \in D : t[x] <= Offers(items)[x]
  BY DEF Spends
<1>3. SumOf(s, D) \in Int
  <2>1. \A x \in D : s[x] \in Int
    BY <1>2
  <2> HIDE DEF D
  <2> QED
    BY <1>1, <2>1, SumType
<1>4. SumOf(s, D) < target /\ s = Offers(items)
  BY <1>3 DEF Spends
<1>5. SumOf(t, D) <= SumOf(s, D)
  <2>1. s \in [D -> Int] /\ t \in [D -> Int] /\ \A x \in D : t[x] <= s[x]
    BY <1>2, <1>4
  <2> HIDE DEF D
  <2> QED
    BY <1>1, <2>1, SumGrows
<1>6. SumOf(t, D) \in Int
  <2>1. \A x \in D : t[x] \in Int
    BY <1>2
  <2> HIDE DEF D
  <2> QED
    BY <1>1, <2>1, SumType
<1> QED
  BY <1>3, <1>4, <1>5, <1>6

\* The quantity along the sorted book is the best of all orders of the levels.
LEMMA QuoteIsBest ==
  ASSUME NEW items \in Seq(Level), NEW side \in {"BUY", "SELL"}, NEW target \in Nat
  PROVE  ExpectedQty(Levels(items, side), target) = BestQty(items, side, target)
<1> DEFINE D == DOMAIN items
           descending == side = "SELL"
           all == AnyQty(items, target)
           quote == ExpectedQty(Levels(items, side), target)
<1>1. PICK f : /\ Reorders(f, items) /\ InOrder(items, f, descending)
               /\ Levels(items, side) = Reordered(items, f)
  BY SortedIsOrdered DEF Levels
<1>2. PICK s : /\ Spends(s, items, f, target)
               /\ Walk(Reordered(items, f), target).usdc = SumOf(s, D)
               /\ Walk(Reordered(items, f), target).qty = SumOf(Bought(items, s), D)
  BY <1>1, WalkSpends
<1>3. all = {ExpectedQty(Reordered(items, g), target) : g \in {h \in [D -> D] : IsInjective(h)}}
  BY DEF AnyQty, Reordered
<1>4. quote \in all
  BY <1>1, <1>3 DEF Reorders
<1>5. ASSUME NEW q \in all
      PROVE  \E g, t : /\ Spends(t, items, g, target)
                       /\ q = IF SumOf(t, D) = target THEN SumOf(Bought(items, t), D) ELSE NoQty
                       /\ SumOf(Bought(items, t), D) \in Nat
  <2>1. PICK g \in [D -> D] : IsInjective(g) /\ q = ExpectedQty(Reordered(items, g), target)
    BY <1>3
  <2>2. Reorders(g, items)
    BY <2>1 DEF Reorders
  <2>3. PICK t : /\ Spends(t, items, g, target)
                 /\ Walk(Reordered(items, g), target).usdc = SumOf(t, D)
                 /\ Walk(Reordered(items, g), target).qty = SumOf(Bought(items, t), D)
                 /\ Walk(Reordered(items, g), target).qty \in Nat
    BY <2>2, WalkSpends
  <2>4. q = IF SumOf(t, D) = target THEN SumOf(Bought(items, t), D) ELSE NoQty
    BY <2>1, <2>3 DEF ExpectedQty
  <2>5. SumOf(Bought(items, t), D) \in Nat
    BY <2>3
  <2> QED
    BY <2>3, <2>4, <2>5
<1>6. quote = IF SumOf(s, D) = target THEN SumOf(Bought(items, s), D) ELSE NoQty
  BY <1>1, <1>2 DEF ExpectedQty
<1> HIDE DEF all, quote
<1>7. CASE SumOf(s, D) # target
  <2>1. quote = NoQty
    BY <1>6, <1>7
  <2> QED
    BY <1>4, <2>1 DEF BestQty, all, quote
<1>8. CASE SumOf(s, D) = target
  <2>1. ASSUME NEW q \in all
        PROVE  q \in Nat /\ IF descending THEN quote <= q ELSE q <= quote
    <3>1. PICK g, t : /\ Spends(t, items, g, target)
                      /\ q = IF SumOf(t, D) = target THEN SumOf(Bought(items, t), D) ELSE NoQty
                      /\ SumOf(Bought(items, t), D) \in Nat
      BY <1>5
    <3>2. SumOf(t, D) = target
      BY <1>1, <1>2, <1>8, <3>1, WalksSpendAlike
    <3> QED
      BY <1>1, <1>2, <1>6, <1>8, <3>1, <3>2, SortedIsBest
  <2>2. NoQty \notin all /\ all \in SUBSET Nat
    BY <2>1, SlippageAssumption
  <2>3. CASE side = "BUY"
    <3>1. \A q \in all : q <= quote
      BY <2>1, <2>3
    <3>2. Max(all) = quote
      BY <1>4, <2>2, <3>1, GreatestIs
    <3> QED
      BY <2>2, <2>3, <3>2 DEF BestQty, all, quote
  <2>4. CASE side = "SELL"
    <3>1. \A q \in all : quote <= q
      BY <2>1, <2>4
    <3>2. Min(all) = quote
      BY <1>4, <2>2, <3>1, LeastIs
    <3> QED
      BY <2>2, <2>4, <3>2 DEF BestQty, all, quote
  <2> QED
    BY <2>3, <2>4
<1> QED
  BY <1>7, <1>8

(***************************************************************************)
(* The tables.                                                             *)
(***************************************************************************)

Qty == Nat \cup {NoQty}

TablesInv ==
  /\ executions \in [Orders -> Qty \cup {NoRow}]
  /\ resolutions \in [Conditions -> Resolution \cup {NoRow}]
  /\ \A c \in Resolved : resolutions[c].resolved_at <= Cardinality(Resolved)

\* An order of the table.
LEMMA OrderType ==
  ASSUME NEW o \in Orders
  PROVE  /\ Order[o].condition \in Conditions /\ Order[o].token \in Tokens
         /\ Order[o].size \in Nat /\ Order[o].side \in {"BUY", "SELL"}
  BY PnlAssumption

\* A quote is a quantity or none.
LEMMA QuoteType ==
  ASSUME NEW o \in Orders, NEW book \in Books \cup {NoBook}
  PROVE  Quote(o, book) \in Qty
<1>1. CASE book = NoBook
  BY <1>1 DEF Quote, Qty
<1>2. CASE book # NoBook
  <2>1. book \in Seq(Level) /\ (Order[o].side = "SELL") \in BOOLEAN
    BY <1>2, PnlAssumption
  <2>2. Levels(book, Order[o].side) \in Seq(Level)
    <3> DEFINE descending == Order[o].side = "SELL"
    <3>1. descending \in BOOLEAN /\ Levels(book, Order[o].side) = Sorted(book, descending)
      BY DEF Levels
    <3> HIDE DEF descending
    <3>2. PICK f : Reorders(f, book) /\ Sorted(book, descending) = Reordered(book, f)
      BY <2>1, <3>1, SortedIsOrdered
    <3> QED
      BY <2>1, <3>1, <3>2, ReorderedType
  <2>3. Order[o].size \in Nat
    BY OrderType
  <2> QED
    BY <1>2, <2>2, <2>3, ExpectedQtyType DEF Quote, Qty
<1> QED
  BY <1>1, <1>2

\* The sets of conditions and of orders are finite.
LEMMA TablesFinite ==
  /\ \A S \in SUBSET Conditions : IsFiniteSet(S) /\ Cardinality(S) \in Nat
  /\ \A S \in SUBSET Orders : IsFiniteSet(S) /\ Cardinality(S) \in Nat
  BY PnlAssumption, FS_Subset, FS_CardinalityType

\* A step inserts one execution, or one batch of resolutions, or neither.
OneExecution(o, qty) ==
  /\ executions[o] = NoRow
  /\ executions' = [executions EXCEPT ![o] = qty]
  /\ UNCHANGED resolutions

OneBatch(batch, outcome) ==
  /\ Insert(batch, outcome)
  /\ UNCHANGED executions

\* Each step is one of these, or leaves both tables as they are.
LEMMA StepKinds ==
  ASSUME [Next]_vars
  PROVE  \/ UNCHANGED <<executions, resolutions>>
         \/ \E o \in Orders : \E qty \in Qty : OneExecution(o, qty)
         \/ \E batch \in SUBSET (Conditions \ Resolved) :
              \E outcome \in [batch -> Outcomes] : OneBatch(batch, outcome)
<1>1. ASSUME NEW o \in Orders, Execute(o)
      PROVE  \E qty \in Qty : OneExecution(o, qty)
  <2>1. PICK book \in Books \cup {NoBook} : InsertExecution(o, book)
    BY <1>1 DEF Execute
  <2>2. OneExecution(o, Quote(o, book))
    BY <1>1, <2>1 DEF Execute, InsertExecution, OneExecution
  <2> QED
    BY <2>2, QuoteType
<1>2. CASE Poll
  BY <1>2 DEF Poll, OneBatch
<1>3. CASE Day \/ ReadSums \/ ReadDrawdown \/ ComputeFails \/ UNCHANGED vars
  BY <1>3 DEF Day, ReadSums, ReadDrawdown, ComputeFails, vars, tables
<1> QED
  BY <1>1, <1>2, <1>3 DEF Next

\* What a batch puts into the table.
LEMMA BatchRows ==
  ASSUME TablesInv, NEW batch \in SUBSET (Conditions \ Resolved),
         NEW outcome \in [batch -> Outcomes], Insert(batch, outcome)
  PROVE  /\ \A c \in Conditions \ batch : resolutions'[c] = resolutions[c]
         /\ \A c \in batch :
              /\ resolutions'[c] \in Resolution
              /\ resolutions'[c].resolved_at > Cardinality(Resolved)
              /\ resolutions'[c].resolved_at <= Cardinality(Resolved) + Cardinality(batch)
<1>1. \A c \in Conditions \ batch : resolutions'[c] = resolutions[c]
  BY DEF Insert
<1>2. ASSUME NEW c \in batch
      PROVE  /\ resolutions'[c] \in Resolution
             /\ resolutions'[c].resolved_at > Cardinality(Resolved)
             /\ resolutions'[c].resolved_at <= Cardinality(Resolved) + Cardinality(batch)
  <2> DEFINE upto == {d \in batch : d <= c}
  <2>1. /\ resolutions'[c].outcome = outcome[c]
        /\ resolutions'[c].resolved_at = Cardinality(Resolved) + Cardinality(upto)
        /\ resolutions'[c] = [outcome |-> outcome[c],
                              resolved_at |-> Cardinality(Resolved) + Cardinality(upto)]
    BY DEF Insert
  <2>2. c \in upto /\ upto \in SUBSET batch
    BY PnlAssumption
  <2> HIDE DEF upto
  <2>3. /\ Cardinality(upto) \in Nat /\ Cardinality(upto) # 0
        /\ Cardinality(upto) <= Cardinality(batch) /\ Cardinality(batch) \in Nat
    <3>1. IsFiniteSet(batch) /\ Cardinality(batch) \in Nat
      BY TablesFinite
    <3>2. IsFiniteSet(upto) /\ Cardinality(upto) <= Cardinality(batch)
      BY <2>2, <3>1, FS_Subset
    <3>3. Cardinality(upto) \in Nat /\ Cardinality(upto) # 0
      BY <2>2, <3>2, FS_CardinalityType, FS_EmptySet
    <3> QED
      BY <3>1, <3>2, <3>3
  <2>4. Cardinality(Resolved) \in Nat
    BY TablesFinite DEF Resolved
  <2> QED
    BY <2>1, <2>3, <2>4 DEF Resolution
<1> QED
  BY <1>1, <1>2

\* The tables have rows of their types, and a resolution of tomorrow is later
\* than those of today.
LEMMA TablesInductive == TablesInv /\ [Next]_vars => TablesInv'
<1> SUFFICES ASSUME TablesInv, [Next]_vars
             PROVE  TablesInv'
  OBVIOUS
<1>1. CASE UNCHANGED <<executions, resolutions>>
  BY <1>1 DEF TablesInv, Resolved
<1>2. ASSUME NEW o \in Orders, NEW qty \in Qty, OneExecution(o, qty)
      PROVE  TablesInv'
  BY <1>2 DEF TablesInv, Resolved, OneExecution
<1>3. ASSUME NEW batch \in SUBSET (Conditions \ Resolved),
             NEW outcome \in [batch -> Outcomes], OneBatch(batch, outcome)
      PROVE  TablesInv'
  <2>1. /\ \A c \in Conditions \ batch : resolutions'[c] = resolutions[c]
        /\ \A c \in batch :
             /\ resolutions'[c] \in Resolution
             /\ resolutions'[c].resolved_at <= Cardinality(Resolved) + Cardinality(batch)
    BY <1>3, BatchRows DEF OneBatch
  <2>2. Resolved' = Resolved \cup batch
    BY <2>1, NoRowAssumption DEF Resolved
  <2>3. /\ Cardinality(Resolved') = Cardinality(Resolved) + Cardinality(batch)
        /\ Cardinality(Resolved) \in Nat /\ Cardinality(batch) \in Nat
    <3>1. /\ IsFiniteSet(Resolved) /\ Cardinality(Resolved) \in Nat
          /\ IsFiniteSet(batch) /\ Cardinality(batch) \in Nat
      BY TablesFinite DEF Resolved
    <3>2. Resolved \cap batch = {}
      OBVIOUS
    <3>3. Cardinality(Resolved \cup batch) =
            Cardinality(Resolved) + Cardinality(batch) - Cardinality({})
      BY <3>1, <3>2, FS_Union
    <3> QED
      BY <2>2, <3>1, <3>3, FS_EmptySet
  <2>4. ASSUME NEW c \in Resolved'
        PROVE  resolutions'[c].resolved_at <= Cardinality(Resolved')
    <3>1. CASE c \in batch
      BY <2>1, <2>3, <3>1
    <3>2. CASE c \notin batch
      <4>1. c \in Resolved /\ c \in Conditions /\ resolutions'[c] = resolutions[c]
        BY <2>1, <2>2, <3>2 DEF Resolved
      <4>2. resolutions[c].resolved_at <= Cardinality(Resolved)
        BY <4>1 DEF TablesInv
      <4>3. resolutions[c].resolved_at \in Nat
        BY <4>1 DEF TablesInv, Resolved, Resolution
      <4> QED
        BY <2>3, <4>1, <4>2, <4>3
    <3> QED
      BY <3>1, <3>2
  <2>5. resolutions' \in [Conditions -> Resolution \cup {NoRow}]
    <3>1. \A c \in Conditions : resolutions'[c] \in Resolution \cup {NoRow}
      BY <2>1 DEF TablesInv
    <3>2. resolutions' = [c \in Conditions |-> resolutions'[c]]
      BY <1>3 DEF OneBatch, Insert
    <3> QED
      BY <3>1, <3>2
  <2>6. executions' = executions
    BY <1>3 DEF OneBatch
  <2> QED
    BY <2>4, <2>5, <2>6 DEF TablesInv
<1> QED
  BY <1>1, <1>2, <1>3, StepKinds

\* The tables keep their types.
LEMMA TablesInvariant == Spec => []TablesInv
<1>1. Init => TablesInv
  BY DEF Init, TablesInv, Resolved
<1> QED
  BY <1>1, TablesInductive, PTL DEF Spec

(***************************************************************************)
(* Results.                                                                *)
(***************************************************************************)

\* What is settled: the market is, and the quantity is known.
LEMMA SettledIs ==
  Settled = {o \in Orders : /\ executions[o] # NoRow /\ executions[o] # NoQty
                            /\ ResolutionOf(o) # NoRow}
<1>1. ASSUME NEW o \in Orders
      PROVE  Status(o) \in {"win", "lose", "invalid"} <=>
               executions[o] # NoQty /\ ResolutionOf(o) # NoRow
  BY DEF Status
<1> QED
  BY <1>1 DEF Settled, Executed

\* A step leaves the rows of what is settled as they are.
LEMMA SettledRowsStay ==
  ASSUME TablesInv, [Next]_vars, NEW o \in Settled
  PROVE  executions'[o] = executions[o] /\ ResolutionOf(o)' = ResolutionOf(o)
<1>1. /\ o \in Orders /\ executions[o] # NoRow /\ ResolutionOf(o) # NoRow
      /\ Order[o].condition \in Conditions
  BY SettledIs, OrderType
<1>2. CASE UNCHANGED <<executions, resolutions>>
  BY <1>2 DEF ResolutionOf
<1>3. ASSUME NEW p \in Orders, NEW qty \in Qty, OneExecution(p, qty)
      PROVE  executions'[o] = executions[o] /\ ResolutionOf(o)' = ResolutionOf(o)
  BY <1>1, <1>3 DEF OneExecution, ResolutionOf, TablesInv
<1>4. ASSUME NEW batch \in SUBSET (Conditions \ Resolved),
             NEW outcome \in [batch -> Outcomes], OneBatch(batch, outcome)
      PROVE  executions'[o] = executions[o] /\ ResolutionOf(o)' = ResolutionOf(o)
  <2>1. Order[o].condition \in Conditions \ batch
    BY <1>1 DEF Resolved, ResolutionOf
  <2> QED
    BY <1>4, <2>1 DEF OneBatch, Insert, ResolutionOf
<1> QED
  BY <1>2, <1>3, <1>4, StepKinds

\* So what is settled stays settled, with its result.
LEMMA SettledStays ==
  ASSUME TablesInv, [Next]_vars, NEW o \in Settled
  PROVE  o \in Settled' /\ Status(o)' = Status(o) /\ PnlUsdc(o)' = PnlUsdc(o)
<1>1. executions'[o] = executions[o] /\ ResolutionOf(o)' = ResolutionOf(o)
  BY SettledRowsStay
<1>2. Status(o)' = Status(o)
  BY <1>1 DEF Status
<1>3. PnlUsdc(o)' = PnlUsdc(o)
  BY <1>1 DEF PnlUsdc, PayoutPerToken
<1>4. o \in Executed'
  BY <1>1 DEF Settled, Executed
<1> QED
  BY <1>2, <1>3, <1>4 DEF Settled

\* What is settled stays as it is, for any orders, books and outcomes: neither
\* a redelivered order that meets another book nor another poll changes a
\* result that was reported.
THEOREM ResultsAreFinal == Spec => BookedForGood
<1>1. TablesInv /\ [Next]_vars =>
        [\A o \in Settled : o \in Settled' /\ Status(o)' = Status(o) /\ PnlUsdc(o)' = PnlUsdc(o)]_tables
  BY SettledStays
<1> QED
  BY <1>1, TablesInvariant, PTL DEF Spec, BookedForGood

\* Every row of order_executions has the quantity of the best execution on the
\* book that its order met, for all books and sizes, however the API lists the
\* levels, or none.
THEOREM BooksAreWalkedBest == Spec => []QuotesAreBest
<1>1. Init => QuotesAreBest
  BY DEF Init, QuotesAreBest, Executed
<1>2. TablesInv /\ QuotesAreBest /\ [Next]_vars => QuotesAreBest'
  <2> SUFFICES ASSUME TablesInv, QuotesAreBest, [Next]_vars, NEW o \in Executed'
               PROVE  executions'[o] \in BestQtys[o]
    BY DEF QuotesAreBest
  <2>1. o \in Orders /\ executions'[o] # NoRow
    BY DEF Executed
  <2>2. ASSUME NEW p \in Orders, Execute(p)
        PROVE  executions'[o] \in BestQtys[o]
    <3>1. PICK book \in Books \cup {NoBook} : InsertExecution(p, book)
      BY <2>2 DEF Execute
    <3>2. CASE o = p
      <4>1. executions'[o] = Quote(o, book)
        BY <2>1, <3>1, <3>2 DEF InsertExecution, TablesInv
      <4>2. CASE book = NoBook
        BY <2>1, <4>1, <4>2 DEF Quote, BestQtys
      <4>3. CASE book # NoBook
        <5>1. book \in Books /\ book \in Seq(Level)
          BY <4>3, PnlAssumption
        <5>2. Order[o].side \in {"BUY", "SELL"} /\ Order[o].size \in Nat
          BY <2>1, OrderType
        <5>3. Quote(o, book) = BestQty(book, Order[o].side, Order[o].size)
          BY <4>3, <5>1, <5>2, QuoteIsBest DEF Quote
        <5> QED
          BY <2>1, <4>1, <5>1, <5>3 DEF BestQtys
      <4> QED
        BY <4>2, <4>3
    <3>3. CASE o # p
      <4>1. executions'[o] = executions[o]
        BY <2>1, <3>1, <3>3 DEF InsertExecution, TablesInv
      <4>2. o \in Executed
        BY <2>1, <4>1 DEF Executed
      <4> QED
        BY <4>1, <4>2 DEF QuotesAreBest
    <3> QED
      BY <3>2, <3>3
  <2>3. CASE UNCHANGED executions
    <3>1. o \in Executed
      BY <2>1, <2>3 DEF Executed
    <3> QED
      BY <2>3, <3>1 DEF QuotesAreBest
  <2>4. (\E p \in Orders : Execute(p)) \/ UNCHANGED executions
    BY DEF Next, vars, tables, Day, Poll, ReadSums, ReadDrawdown, ComputeFails
  <2> QED
    BY <2>2, <2>3, <2>4
<1> QED
  BY <1>1, <1>2, TablesInvariant, PTL DEF Spec

(***************************************************************************)
(* The drawdown.                                                           *)
(***************************************************************************)

Results == [o \in Orders |-> PnlUsdc(o)]

\* A total is the sum of the results.
LEMMA TotalIs ==
  ASSUME NEW S \in SUBSET Orders
  PROVE  Total(S) = SumOf(Results, S)
<1> DEFINE SumsUp(g) ==
             g = [s \in SUBSET S |-> IF s = {} THEN 0 ELSE PnlUsdc(Chosen(s)) + g[Without(s)]]
<1>1. Total(S) = (CHOOSE g : SumsUp(g))[S]
  BY DEF Total, MapThenSumSet, MapThenFoldSet, Chosen, Without
<1>2. \A g : SumsUp(g) <=> Unfolds(g, Results, SUBSET S)
  <2> SUFFICES ASSUME NEW g
               PROVE  SumsUp(g) <=> Unfolds(g, Results, SUBSET S)
    OBVIOUS
  <2>1. \A s \in SUBSET S : s # {} => Results[Chosen(s)] = PnlUsdc(Chosen(s))
    BY DEF Chosen, Results
  <2> QED
    BY <2>1 DEF Unfolds
<1>3. (CHOOSE g : SumsUp(g)) = (CHOOSE g : Unfolds(g, Results, SUBSET S))
  BY <1>2
<1> QED
  BY <1>1, <1>3, SumIs

\* The result of what is settled is a number.
LEMMA PnlType ==
  ASSUME TablesInv, NEW o \in Settled
  PROVE  PnlUsdc(o) \in Int
<1>1. o \in Orders /\ executions[o] \in Nat
  BY SettledIs DEF TablesInv, Qty
<1>2. PayoutPerToken(o) \in Int
  BY PnlAssumption DEF PayoutPerToken
<1>3. Order[o].size \in Nat /\ Grain \in Nat
  BY <1>1, OrderType, SlippageAssumption
<1>4. executions[o] * PayoutPerToken(o) \in Int /\ Order[o].size * Grain \in Int
  BY <1>1, <1>2, <1>3
<1> QED
  BY <1>4 DEF PnlUsdc

\* The sum up to a row is a number.
LEMMA TotalType ==
  ASSUME TablesInv, NEW S \in SUBSET Settled
  PROVE  Total(S) \in Int
<1>1. S \in SUBSET Orders /\ IsFiniteSet(S)
  BY SettledIs, TablesFinite
<1>2. \A o \in S : Results[o] \in Int
  BY <1>1, PnlType DEF Results
<1> QED
  BY <1>1, <1>2, SumType, TotalIs

\* The differences of which MaxDrawdown takes the greatest.
Falls ==
  {0} \cup {CumPnl(p[1]) - CumPnl(p[2]) : p \in {q \in Settled \X Settled : Before(q[1], q[2])}}

\* They are finitely many numbers.
LEMMA FallsType ==
  TablesInv => Falls \in SUBSET Int /\ IsFiniteSet(Falls) /\ Falls # {}
<1> SUFFICES ASSUME TablesInv
             PROVE  Falls \in SUBSET Int /\ IsFiniteSet(Falls) /\ Falls # {}
  OBVIOUS
<1> DEFINE pairs == {q \in Settled \X Settled : Before(q[1], q[2])}
           fall == [p \in pairs |-> CumPnl(p[1]) - CumPnl(p[2])]
           image == {fall[p] : p \in pairs}
<1>1. \A o \in Settled : CumPnl(o) \in Int
  BY TotalType DEF CumPnl
<1>2. \A p \in pairs : CumPnl(p[1]) - CumPnl(p[2]) \in Int
  BY <1>1
<1>3. IsFiniteSet(pairs)
  <2>1. IsFiniteSet(Settled)
    BY TablesFinite, SettledIs
  <2>2. IsFiniteSet(Settled \X Settled)
    BY <2>1, FS_Product
  <2> QED
    BY <2>2, FS_Subset
<1>4. Falls = {0} \cup image
  BY DEF Falls
<1>5. \A p \in pairs : fall[p] \in Int
  BY <1>2
<1>6. fall \in Surjection(pairs, image)
  BY DEF Surjection
<1> HIDE DEF fall, pairs
<1>7. IsFiniteSet(image)
  <2> HIDE DEF image
  <2> QED
    BY <1>3, <1>6, FS_Surjection
<1>8. image \subseteq Int
  BY <1>5
<1> HIDE DEF image
<1>9. IsFiniteSet({0} \cup image)
  BY <1>7, FS_AddElement
<1> QED
  BY <1>4, <1>8, <1>9

\* A drawdown with more differences is greater.
LEMMA MoreFalls ==
  ASSUME NEW A \in SUBSET Int, IsFiniteSet(A), A # {},
         NEW B \in SUBSET Int, IsFiniteSet(B), A \subseteq B
  PROVE  Max(B) >= Max(A)
<1>1. Max(A) \in A
  BY MaxIsGreatest
<1>2. Max(B) \in B /\ \A y \in B : y <= Max(B)
  BY MaxIsGreatest
<1> QED
  BY <1>1, <1>2

\* A settled row, as a state of the tables.
IsBooked(o) ==
  executions[o] # NoRow /\ executions[o] # NoQty /\ ResolutionOf(o) # NoRow

\* What is settled is booked.
LEMMA SettledAreBooked == \A o \in Settled : o \in Orders /\ IsBooked(o)
  BY SettledIs DEF IsBooked

\* A row that becomes settled is later than those that are, unless its order
\* was executed late.
LEMMA NewRowsAreLast ==
  ASSUME TablesInv, [Next]_vars, ~LateExecution, NEW x \in Settled', NEW a \in Settled
  PROVE  /\ x \in Settled => Before(x, a)' = Before(x, a)
         /\ x \notin Settled => ~ Before(x, a)' /\ x # a
<1>1. ResolutionOf(a)' = ResolutionOf(a)
  BY SettledRowsStay
<1>2. CASE x \in Settled
  <2>1. ResolutionOf(x)' = ResolutionOf(x)
    BY <1>2, SettledRowsStay
  <2> QED
    BY <1>1, <1>2, <2>1 DEF Before
<1>3. CASE x \notin Settled
  <2>1. /\ x \in Orders /\ executions'[x] # NoRow /\ executions'[x] # NoQty
        /\ ResolutionOf(x)' # NoRow
    <3>1. (\A o \in Settled : o \in Orders /\ IsBooked(o))'
      BY SettledAreBooked, PTL
    <3> QED
      BY <3>1 DEF IsBooked
  <2>2. Order[x].condition \in Conditions /\ Order[a].condition \in Conditions
    BY <2>1, OrderType, SettledIs
  <2>3. CASE UNCHANGED <<executions, resolutions>>
    <3>1. executions'[x] = executions[x] /\ ResolutionOf(x)' = ResolutionOf(x)
      BY <2>3 DEF ResolutionOf
    <3> QED
      BY <1>3, <2>1, <3>1, SettledIs
  <2>4. ASSUME NEW o \in Orders, NEW qty \in Qty, OneExecution(o, qty)
        PROVE  FALSE
    <3>1. ResolutionOf(x)' = ResolutionOf(x) /\ ResolutionOf(x) # NoRow
      BY <2>1, <2>4 DEF OneExecution, ResolutionOf
    <3>2. CASE x = o
      <4>1. x \in Executed' \ Executed
        BY <2>1, <2>4, <3>2 DEF OneExecution, Executed
      <4> QED
        BY <3>1, <4>1 DEF LateExecution
    <3>3. CASE x # o
      <4>1. executions'[x] = executions[x]
        BY <2>1, <2>4, <3>3 DEF OneExecution, TablesInv
      <4> QED
        BY <1>3, <2>1, <3>1, <4>1, SettledIs
    <3> QED
      BY <3>2, <3>3
  <2>5. ASSUME NEW batch \in SUBSET (Conditions \ Resolved),
               NEW outcome \in [batch -> Outcomes], OneBatch(batch, outcome)
        PROVE  ~ Before(x, a)'
    <3>1. executions'[x] = executions[x]
      BY <2>5 DEF OneBatch
    <3>2. ResolutionOf(x) = NoRow
      BY <1>3, <2>1, <3>1, SettledIs
    <3>3. Order[x].condition \in batch
      BY <2>1, <2>2, <2>5, <3>2 DEF OneBatch, Insert, ResolutionOf
    <3>4. /\ ResolutionOf(x)' \in Resolution
          /\ ResolutionOf(x)'.resolved_at > Cardinality(Resolved)
      BY <2>5, <3>3, BatchRows DEF OneBatch, ResolutionOf
    <3>5. /\ ResolutionOf(a) \in Resolution
          /\ ResolutionOf(a).resolved_at <= Cardinality(Resolved)
      <4>1. Order[a].condition \in Resolved /\ ResolutionOf(a) # NoRow
        BY <2>2, SettledIs DEF Resolved, ResolutionOf
      <4> QED
        BY <4>1 DEF TablesInv, ResolutionOf, Resolved
    <3>6. Cardinality(Resolved) \in Nat
      BY TablesFinite DEF Resolved
    <3>7. ResolutionOf(x)'.resolved_at \in Nat /\ ResolutionOf(a).resolved_at \in Nat
      BY <3>4, <3>5 DEF Resolution
    <3> QED
      BY <1>1, <3>4, <3>5, <3>6, <3>7 DEF Before
  <2> QED
    BY <1>3, <2>3, <2>4, <2>5, StepKinds
<1> QED
  BY <1>2, <1>3

\* The sum up to a row, as a sum.
SumUpTo(o) == SumOf(Results, {x \in Settled : x = o \/ Before(x, o)})

\* It is cum_pnl.
LEMMA CumPnlIs == \A o \in Orders : CumPnl(o) = SumUpTo(o)
<1> SUFFICES ASSUME NEW o \in Orders
             PROVE  CumPnl(o) = SumUpTo(o)
  OBVIOUS
<1>1. {x \in Settled : x = o \/ Before(x, o)} \in SUBSET Orders
  BY SettledIs
<1> QED
  BY <1>1, TotalIs DEF CumPnl, SumUpTo

\* So the sum up to a settled row does not change.
LEMMA CumPnlStays ==
  ASSUME TablesInv, [Next]_vars, ~LateExecution, NEW a \in Settled
  PROVE  CumPnl(a)' = CumPnl(a)
<1> DEFINE upto == {x \in Settled : x = a \/ Before(x, a)}
<1>1. {x \in Settled' : x = a \/ Before(x, a)'} = upto
  <2>1. \A x \in Settled : x \in Settled' /\ (Before(x, a)' <=> Before(x, a))
    BY SettledStays, NewRowsAreLast
  <2>2. \A x \in Settled' : x \notin Settled => ~ Before(x, a)' /\ x # a
    BY NewRowsAreLast
  <2> QED
    BY <2>1, <2>2
<1>2. \A x \in upto : Results'[x] = Results[x]
  <2>1. \A x \in Settled : x \in Orders /\ PnlUsdc(x)' = PnlUsdc(x)
    BY SettledIs, SettledStays
  <2> QED
    BY <2>1 DEF Results
<1>3. SumOf(Results', upto) = SumOf(Results, upto)
  <2> DEFINE R1 == Results'
             R2 == Results
             U == upto
  <2>1. \A x \in U : R1[x] = R2[x]
    BY <1>2
  <2> HIDE DEF R1, R2, U
  <2>2. SumOf(R1, U) = SumOf(R2, U)
    BY <2>1, SumSame
  <2> QED
    BY <2>2 DEF R1, R2, U
<1>4. (\A o \in Orders : CumPnl(o) = SumUpTo(o))'
  BY CumPnlIs, PTL
<1>5. a \in Orders /\ CumPnl(a) = SumOf(Results, upto)
  BY SettledIs, CumPnlIs DEF SumUpTo
<1>6. CumPnl(a)' = SumUpTo(a)'
  BY <1>4, <1>5
<1>7. SumUpTo(a)' = SumOf(Results', upto)
  BY <1>1 DEF SumUpTo
<1> QED
  BY <1>3, <1>5, <1>6, <1>7

\* MaxDrawdown is the greatest of the falls, and no fall is lost.
LEMMA MaxDrawdownIs == MaxDrawdown = Max(Falls)
  BY DEF MaxDrawdown, Falls

\* A fall between settled rows stays one.
LEMMA FallsStay ==
  ASSUME TablesInv, [Next]_vars, ~LateExecution
  PROVE  Falls \subseteq Falls'
<1> SUFFICES ASSUME NEW a \in Settled, NEW b \in Settled, Before(a, b)
             PROVE  CumPnl(a) - CumPnl(b) \in Falls'
  BY DEF Falls
<1>1. a \in Settled' /\ b \in Settled'
  BY SettledStays
<1>2. Before(a, b)'
  BY <1>1, NewRowsAreLast
<1>3. CumPnl(a)' = CumPnl(a) /\ CumPnl(b)' = CumPnl(b)
  BY CumPnlStays
<1>4. CumPnl(a)' - CumPnl(b)' \in Falls'
  <2>1. <<a, b>> \in {q \in Settled' \X Settled' : Before(q[1], q[2])'}
    BY <1>1, <1>2
  <2> QED
    BY <2>1 DEF Falls
<1> QED
  BY <1>3, <1>4

\* The maximal drawdown never gets smaller, but for an order that is executed
\* after its market was resolved and enters the series in the middle.
THEOREM DrawdownNeverShrinks == Spec => DrawdownGrows
<1>1. TablesInv /\ TablesInv' /\ [Next]_vars =>
        [LateExecution \/ MaxDrawdown' >= MaxDrawdown]_tables
  <2> SUFFICES ASSUME TablesInv, TablesInv', [Next]_vars, ~LateExecution
               PROVE  MaxDrawdown' >= MaxDrawdown
    OBVIOUS
  <2>1. Falls \in SUBSET Int /\ IsFiniteSet(Falls) /\ Falls # {}
    BY FallsType
  <2>2. (TablesInv => Falls \in SUBSET Int /\ IsFiniteSet(Falls) /\ Falls # {})'
    BY FallsType, PTL
  <2>3. Falls' \in SUBSET Int /\ IsFiniteSet(Falls') /\ Falls' # {}
    BY <2>2
  <2>4. Falls \subseteq Falls'
    BY FallsStay
  <2>5. Max(Falls') >= Max(Falls)
    <3> DEFINE A == Falls
               B == Falls'
    <3>1. A \in SUBSET Int /\ IsFiniteSet(A) /\ A # {} /\ B \in SUBSET Int /\ IsFiniteSet(B) /\ A \subseteq B
      BY <2>1, <2>3, <2>4
    <3> HIDE DEF A, B
    <3>2. Max(B) >= Max(A)
      BY <3>1, MoreFalls
    <3> QED
      BY <3>2 DEF A, B
  <2>6. MaxDrawdown' = Max(Falls')
    BY DEF MaxDrawdown, Falls
  <2> QED
    BY <2>5, <2>6, MaxDrawdownIs
<1> QED
  BY <1>1, TablesInvariant, PTL DEF Spec, DrawdownGrows

(***************************************************************************)
(* The series of the backtest.                                             *)
(***************************************************************************)

\* The settled rows, in order: one row after the other, none left out.
Row(k) == Series(Settled)[k]

BeforeOn(S) == {p \in S \X S : Before(p[1], p[2])}

\* Every settled row has its place in the series.
LEMMA SeriesIs ==
  ASSUME TablesInv
  PROVE  /\ Cardinality(Settled) \in Nat /\ DOMAIN Series(Settled) = 1..Cardinality(Settled)
         /\ \A k \in 1..Cardinality(Settled) : Row(k) \in Settled
         /\ \A i, k \in 1..Cardinality(Settled) :
              i < k => Before(Row(i), Row(k)) /\ ~Before(Row(k), Row(i)) /\ Row(i) # Row(k)
         /\ \A o \in Settled : ~Before(o, o)
         /\ \A o \in Settled : \E k \in 1..Cardinality(Settled) : o = Row(k)
<1> DEFINE S == Settled
           n == Cardinality(S)
           R == BeforeOn(S)
<1>1. IsFiniteSet(S) /\ n \in Nat
  BY TablesFinite, SettledIs
<1>2. \A a, b \in S : <<a, b>> \in R <=> Before(a, b)
  BY DEF BeforeOn
<1>3. \A o \in S : o \in Nat /\ ResolutionOf(o).resolved_at \in Nat
  <2> SUFFICES ASSUME NEW o \in S
               PROVE  o \in Nat /\ ResolutionOf(o).resolved_at \in Nat
    OBVIOUS
  <2>1. o \in Orders /\ ResolutionOf(o) # NoRow /\ Order[o].condition \in Conditions
    BY SettledIs, OrderType
  <2>2. ResolutionOf(o) \in Resolution
    BY <2>1 DEF TablesInv, ResolutionOf
  <2> QED
    BY <2>1, <2>2, PnlAssumption DEF Resolution
<1> HIDE DEF R, S
<1>4. StrictlyOrders(R, S)
  BY <1>2, <1>3 DEF StrictlyOrders, Before
<1>5. \A k \in 1..n : Row(k) = Nth(R, S, k)
  <2> SUFFICES ASSUME NEW k \in 1..n
               PROVE  Row(k) = Nth(R, S, k)
    OBVIOUS
  <2>1. \A o \in S : {a \in S : Before(a, o)} = Below(R, S, o)
    BY <1>2 DEF Below
  <2>2. Row(k) = CHOOSE o \in S : Cardinality({a \in S : Before(a, o)}) = k - 1
    BY DEF Row, Series, S
  <2> QED
    BY <2>1, <2>2 DEF Nth
<1>6. DOMAIN Series(S) = 1..n
  BY DEF Series
<1>7. /\ \A k \in 1..n : Nth(R, S, k) \in S
      /\ \A i, k \in 1..n : i < k => <<Nth(R, S, i), Nth(R, S, k)>> \in R
      /\ \A x \in S : \E k \in 1..n : x = Nth(R, S, k)
  BY <1>1, <1>4, NthIs
<1>8. \A k \in 1..n : Row(k) \in S
  BY <1>5, <1>7
<1>9. \A i, k \in 1..n :
        i < k => Before(Row(i), Row(k)) /\ ~Before(Row(k), Row(i)) /\ Row(i) # Row(k)
  <2> SUFFICES ASSUME NEW i \in 1..n, NEW k \in 1..n, i < k
               PROVE  Before(Row(i), Row(k)) /\ ~Before(Row(k), Row(i)) /\ Row(i) # Row(k)
    OBVIOUS
  <2>1. <<Row(i), Row(k)>> \in R
    BY <1>5, <1>7
  <2>2. <<Row(k), Row(i)>> \notin R /\ Row(i) # Row(k)
    BY <1>4, <1>8, <2>1 DEF StrictlyOrders
  <2> QED
    BY <1>2, <1>8, <2>1, <2>2
<1>10. \A o \in S : ~Before(o, o)
  BY <1>2, <1>4 DEF StrictlyOrders
<1>11. \A x \in S : \E k \in 1..n : x = Row(k)
  BY <1>5, <1>7
<1> QED
  BY <1>1, <1>6, <1>8, <1>9, <1>10, <1>11 DEF S

\* The first k rows, and their sum.
FirstRows(k) == {Row(i) : i \in 1..k}
Cum(k) == SumOf(Results, FirstRows(k))

\* A fold over the series is a recursive function over the sets of indices,
\* which takes the last index of a set first.
Zero == [cum |-> 0, peak |-> 0, max_dd |-> 0]
NextAcc(acc, o) ==
  LET cum == acc.cum + PnlUsdc(o)
      peak == Max({acc.peak, cum})
  IN  [cum |-> cum, peak |-> peak, max_dd |-> Max({acc.max_dd, peak - cum})]

FoldsUp(g, series, Family) ==
  g = [s \in Family |->
         IF s = {} THEN Zero ELSE NextAcc(g[s \ {Max(s)}], series[Max(s)])]

\* The loop of the backtest is such a fold.
LEMMA FoldIs ==
  \A orders :
    AnalyticsDrawdown(orders) =
      (CHOOSE g : FoldsUp(g, Series(orders \cap Settled), SUBSET DOMAIN Series(orders \cap Settled)))
        [DOMAIN Series(orders \cap Settled)].max_dd
  BY DEF AnalyticsDrawdown, FoldLeft, MapThenFoldSet, FoldsUp, NextAcc, Zero

\* There is such a function.
LEMMA FoldExists ==
  ASSUME NEW n \in Nat, NEW series
  PROVE  \E g : FoldsUp(g, series, SUBSET (1..n))
<1> DEFINE S == 1..n
           Bad == {m \in Nat : ~ \E g : FoldsUp(g, series, UpTo(S, m))}
<1>0. IsFiniteSet(S) /\ Cardinality(S) \in Nat
  BY FS_Interval, FS_CardinalityType
<1>1. ASSUME Bad # {}
      PROVE  FALSE
  <2>1. PICK m \in Bad : \A k \in Bad : m <= k
    BY <1>1, LeastNatural
  <2>2. \E g : \A s \in UpTo(S, m - 1) :
           g[s] = IF s = {} THEN Zero ELSE NextAcc(g[s \ {Max(s)}], series[Max(s)])
    <3>1. CASE m = 0
      <4>1. UpTo(S, m - 1) = {}
        <5> HIDE DEF S
        <5> QED
          BY <1>0, <3>1, FS_Subset, FS_CardinalityType DEF UpTo
      <4> QED
        BY <4>1
    <3>2. CASE m # 0
      <4>1. PICK g : FoldsUp(g, series, UpTo(S, m - 1))
        BY <2>1, <3>2
      <4> QED
        BY <4>1 DEF FoldsUp
    <3> QED
      BY <3>1, <3>2
  <2>3. PICK g : \A s \in UpTo(S, m - 1) :
           g[s] = IF s = {} THEN Zero ELSE NextAcc(g[s \ {Max(s)}], series[Max(s)])
    BY <2>2
  <2> DEFINE h == [s \in UpTo(S, m) |->
                     IF s = {} THEN Zero ELSE NextAcc(g[s \ {Max(s)}], series[Max(s)])]
  <2>4. ASSUME NEW s \in UpTo(S, m), s # {}
        PROVE  h[s \ {Max(s)}] = g[s \ {Max(s)}]
    <3>1. s \in SUBSET (1..n) /\ Cardinality(s) <= m
      BY DEF UpTo
    <3>2. Cardinality(s \ {Max(s)}) = Cardinality(s) - 1 /\ Cardinality(s) \in Nat \ {0}
      BY <2>4, <3>1, LastIndex
    <3> DEFINE rest == s \ {Max(s)}
    <3>3. rest \in SUBSET S
      BY <3>1
    <3> HIDE DEF rest, S
    <3>4. Cardinality(rest) <= m - 1 /\ Cardinality(rest) <= m
      BY <2>1, <3>1, <3>2 DEF rest
    <3>5. rest \in UpTo(S, m - 1) /\ rest \in UpTo(S, m)
      BY <3>3, <3>4 DEF UpTo
    <3>6. h[rest] = g[rest]
      BY <2>3, <3>5
    <3> QED
      BY <3>6 DEF rest
  <2>5. FoldsUp(h, series, UpTo(S, m))
    BY <2>4 DEF FoldsUp
  <2> QED
    BY <2>1, <2>5
<1>2. UpTo(S, Cardinality(S)) = SUBSET S
  <2> HIDE DEF S
  <2> QED
    BY <1>0, FS_Subset DEF UpTo
<1>3. Cardinality(S) \notin Bad
  BY <1>1
<1> QED
  BY <1>0, <1>2, <1>3

\* The sum grows by the result of each row; it is cum_pnl of the view.
LEMMA CumIs ==
  ASSUME TablesInv
  PROVE  /\ Cum(0) = 0
         /\ \A k \in 1..Cardinality(Settled) :
              /\ Cum(k - 1) \in Int /\ PnlUsdc(Row(k)) \in Int
              /\ Cum(k) = Cum(k - 1) + PnlUsdc(Row(k))
              /\ Cum(k) = CumPnl(Row(k))
<1> DEFINE n == Cardinality(Settled)
<1>1. /\ n \in Nat
      /\ \A k \in 1..n : Row(k) \in Settled
      /\ \A i, k \in 1..n :
           i < k => Before(Row(i), Row(k)) /\ ~Before(Row(k), Row(i)) /\ Row(i) # Row(k)
      /\ \A o \in Settled : \E k \in 1..n : o = Row(k)
  BY SeriesIs
<1> HIDE DEF n
<1>2. Cum(0) = 0
  <2>1. FirstRows(0) = {}
    BY DEF FirstRows
  <2> QED
    BY <2>1, FS_EmptySet, SumUnfolds DEF Cum
<1>3. \A k \in 0..n : /\ FirstRows(k) \in SUBSET Settled /\ FirstRows(k) \in SUBSET Orders
                      /\ IsFiniteSet(FirstRows(k))
                      /\ \A x \in FirstRows(k) : Results[x] = PnlUsdc(x) /\ Results[x] \in Int
  <2> SUFFICES ASSUME NEW k \in 0..n
               PROVE  /\ FirstRows(k) \in SUBSET Settled /\ FirstRows(k) \in SUBSET Orders
                      /\ IsFiniteSet(FirstRows(k))
                      /\ \A x \in FirstRows(k) : Results[x] = PnlUsdc(x) /\ Results[x] \in Int
    OBVIOUS
  <2>1. FirstRows(k) \in SUBSET Settled
    BY <1>1 DEF FirstRows
  <2>2. FirstRows(k) \in SUBSET Orders
    BY <2>1, SettledIs
  <2> QED
    BY <2>1, <2>2, TablesFinite, PnlType DEF Results
<1>4. ASSUME NEW k \in 1..n
      PROVE  /\ Cum(k - 1) \in Int /\ PnlUsdc(Row(k)) \in Int
             /\ Cum(k) = Cum(k - 1) + PnlUsdc(Row(k))
             /\ Cum(k) = CumPnl(Row(k))
  <2>1. k - 1 \in 0..n /\ k \in 0..n
    BY <1>1
  <2>2. Row(k) \in FirstRows(k) /\ FirstRows(k) \ {Row(k)} = FirstRows(k - 1)
    <3>1. \A i \in 1..k : i # k => Row(i) # Row(k) /\ i \in 1..(k - 1)
      BY <1>1
    <3>2. \A i \in 1..(k - 1) : Row(i) # Row(k) /\ i \in 1..k
      BY <1>1
    <3> QED
      BY <3>1, <3>2 DEF FirstRows
  <2>3. Cum(k - 1) \in Int
    BY <1>3, <2>1, SumType DEF Cum
  <2>4. Cum(k) = Results[Row(k)] + Cum(k - 1)
    <3> DEFINE T == FirstRows(k)
               e == Row(k)
    <3>1. IsFiniteSet(T) /\ e \in T /\ \A x \in T : Results[x] \in Int
      BY <1>3, <2>1, <2>2
    <3> HIDE DEF T, e
    <3>2. SumOf(Results, T) = Results[e] + SumOf(Results, T \ {e})
      BY <3>1, SumRemove
    <3> QED
      BY <2>2, <3>2 DEF Cum, T, e
  <2>5. Results[Row(k)] = PnlUsdc(Row(k)) /\ PnlUsdc(Row(k)) \in Int
    BY <1>3, <2>1, <2>2
  <2>6. {x \in Settled : x = Row(k) \/ Before(x, Row(k))} = FirstRows(k)
    <3>1. ASSUME NEW x \in Settled, x = Row(k) \/ Before(x, Row(k))
          PROVE  x \in FirstRows(k)
      <4>1. PICK i \in 1..n : x = Row(i)
        BY <1>1
      <4>2. i <= k
        BY <1>1, <3>1, <4>1
      <4> QED
        BY <1>1, <4>1, <4>2 DEF FirstRows
    <3>2. ASSUME NEW i \in 1..k
          PROVE  Row(i) \in Settled /\ (Row(i) = Row(k) \/ Before(Row(i), Row(k)))
      <4>1. i \in 1..n /\ (i = k \/ i < k)
        BY <1>1
      <4> QED
        BY <1>1, <4>1
    <3> QED
      BY <3>1, <3>2 DEF FirstRows
  <2>7. Cum(k) = CumPnl(Row(k))
    <3>1. Row(k) \in Orders
      BY <1>1, SettledIs
    <3> QED
      BY <2>6, <3>1, CumPnlIs DEF Cum, SumUpTo
  <2> QED
    BY <2>3, <2>4, <2>5, <2>7
<1> QED
  BY <1>2, <1>4 DEF n

\* What the loop knows after k rows: the peak of the sums so far, from 0 on,
\* and the deepest fall from a sum to a later one.
DrawdownOf(acc, k) ==
  /\ acc.cum = Cum(k)
  /\ acc.peak \in Int /\ acc.max_dd \in Int
  /\ \E i \in 0..k : acc.peak = Cum(i)
  /\ \A i \in 0..k : Cum(i) <= acc.peak
  /\ \E i, j \in 0..k : i <= j /\ acc.max_dd = Cum(i) - Cum(j)
  /\ \A i, j \in 0..k : i <= j => Cum(i) - Cum(j) <= acc.max_dd

\* The next row.
LEMMA NextDrawdown ==
  ASSUME TablesInv, NEW k \in 1..Cardinality(Settled), NEW acc, DrawdownOf(acc, k - 1)
  PROVE  DrawdownOf(NextAcc(acc, Row(k)), k)
<1> DEFINE cum == acc.cum + PnlUsdc(Row(k))
           peak == Max({acc.peak, cum})
           max_dd == Max({acc.max_dd, peak - cum})
           next == NextAcc(acc, Row(k))
<1>1. next = [cum |-> cum, peak |-> peak, max_dd |-> max_dd]
  BY DEF NextAcc
<1>2. cum = Cum(k) /\ cum \in Int
  BY CumIs DEF DrawdownOf
<1>3. \A i \in 0..(k - 1) : Cum(i) \in Int
  <2>1. Cardinality(Settled) \in Nat
    BY SeriesIs
  <2>2. \A i \in 1..Cardinality(Settled) : Cum(i - 1) \in Int
    BY CumIs
  <2>3. ASSUME NEW i \in 0..(k - 1)
        PROVE  Cum(i) \in Int
    <3>1. i + 1 \in 1..Cardinality(Settled) /\ (i + 1) - 1 = i
      BY <2>1
    <3>2. Cum((i + 1) - 1) \in Int
      BY <2>2, <3>1
    <3> QED
      BY <3>1, <3>2
  <2> QED
    BY <2>3
<1>4. k \in Nat \ {0}
  BY SeriesIs
<1> HIDE DEF cum
<1>5. acc.peak \in Int /\ acc.max_dd \in Int
  BY DEF DrawdownOf
<1>6. peak \in {acc.peak, cum} /\ acc.peak <= peak /\ cum <= peak /\ peak \in Int
  BY <1>2, <1>5, MaxOfTwo
<1> HIDE DEF peak
<1>7. /\ max_dd \in {acc.max_dd, peak - cum} /\ acc.max_dd <= max_dd
      /\ peak - cum <= max_dd /\ max_dd \in Int
  <2> DEFINE fall == peak - cum
  <2>1. fall \in Int
    BY <1>2, <1>6
  <2> HIDE DEF fall
  <2>2. /\ Max({acc.max_dd, fall}) \in {acc.max_dd, fall}
        /\ acc.max_dd <= Max({acc.max_dd, fall}) /\ fall <= Max({acc.max_dd, fall})
    BY <1>5, <2>1, MaxOfTwo
  <2> QED
    BY <1>5, <2>1, <2>2 DEF fall
<1> HIDE DEF max_dd, next
<1>8. /\ \E i \in 0..k : peak = Cum(i)
      /\ \A i \in 0..k : Cum(i) <= peak
  <2>1. \A i \in 0..k : i \in 0..(k - 1) \/ i = k
    BY <1>4
  <2>2. \A i \in 0..(k - 1) : i \in 0..k /\ Cum(i) <= acc.peak
    BY <1>4 DEF DrawdownOf
  <2>3. \E i \in 0..(k - 1) : acc.peak = Cum(i)
    BY DEF DrawdownOf
  <2>4. \A i \in 0..k : Cum(i) <= peak
    BY <1>2, <1>3, <1>5, <1>6, <2>1, <2>2
  <2>5. k \in 0..k
    BY <1>4
  <2> QED
    BY <1>2, <1>6, <2>2, <2>3, <2>4, <2>5
<1>9. \E i, j \in 0..k : i <= j /\ max_dd = Cum(i) - Cum(j)
  <2>1. CASE max_dd = acc.max_dd
    <3>1. PICK i \in 0..(k - 1), j \in 0..(k - 1) : i <= j /\ acc.max_dd = Cum(i) - Cum(j)
      BY DEF DrawdownOf
    <3>2. i \in 0..k /\ j \in 0..k
      BY <1>4
    <3> QED
      BY <2>1, <3>1, <3>2
  <2>2. CASE max_dd = peak - cum
    <3>1. PICK i \in 0..k : peak = Cum(i)
      BY <1>8
    <3>2. k \in 0..k /\ i <= k
      BY <1>4
    <3> QED
      BY <1>2, <2>2, <3>1, <3>2
  <2> QED
    BY <1>7, <2>1, <2>2
<1>10. ASSUME NEW i \in 0..k, NEW j \in 0..k, i <= j
       PROVE  Cum(i) - Cum(j) <= max_dd
  <2>1. CASE j = k
    <3>1. Cum(i) <= peak /\ Cum(i) \in Int
      BY <1>2, <1>3, <1>4, <1>8
    <3> QED
      BY <1>2, <1>6, <1>7, <2>1, <3>1
  <2>2. CASE j # k
    <3>1. i \in 0..(k - 1) /\ j \in 0..(k - 1)
      BY <1>4, <1>10, <2>2
    <3>2. Cum(i) - Cum(j) <= acc.max_dd /\ Cum(i) \in Int /\ Cum(j) \in Int
      BY <1>3, <1>10, <3>1 DEF DrawdownOf
    <3> QED
      BY <1>5, <1>7, <3>2
  <2> QED
    BY <2>1, <2>2
<1>11. next.cum = cum /\ next.peak = peak /\ next.max_dd = max_dd
  BY <1>1
<1> QED
  BY <1>2, <1>6, <1>7, <1>8, <1>9, <1>10, <1>11 DEF DrawdownOf, next

\* So the loop ends with the deepest fall of all.
LEMMA AnalyticsIs ==
  ASSUME TablesInv
  PROVE  \E acc : /\ AnalyticsDrawdown(Executed) = acc.max_dd
                  /\ DrawdownOf(acc, Cardinality(Settled))
<1> DEFINE n == Cardinality(Settled)
           series == Series(Settled)
           g == CHOOSE f : FoldsUp(f, series, SUBSET (1..n))
           Bad == {k \in Nat : k <= n /\ ~DrawdownOf(g[1..k], k)}
<1>1. n \in Nat /\ DOMAIN series = 1..n /\ \A k \in 1..n : series[k] = Row(k)
  BY SeriesIs DEF Row
<1>2. AnalyticsDrawdown(Executed) = g[1..n].max_dd
  <2>1. Executed \cap Settled = Settled
    BY DEF Settled
  <2>2. AnalyticsDrawdown(Executed) =
          (CHOOSE f : FoldsUp(f, series, SUBSET DOMAIN series))[DOMAIN series].max_dd
    BY <2>1, FoldIs
  <2> HIDE DEF series, n
  <2> QED
    BY <1>1, <2>2
<1>3. FoldsUp(g, series, SUBSET (1..n))
  <2> HIDE DEF n, series
  <2>1. \E f : FoldsUp(f, series, SUBSET (1..n))
    BY <1>1, FoldExists
  <2> QED
    BY <2>1
<1> HIDE DEF g
<1>4. ASSUME Bad # {}
      PROVE  FALSE
  <2>1. PICK k \in Bad : \A j \in Bad : k <= j
    BY <1>4, LeastNatural
  <2>2. CASE k = 0
    <3>1. 1..k = {} /\ 0..k = {0}
      BY <2>2
    <3>2. g[1..k] = Zero
      BY <1>3, <3>1 DEF FoldsUp
    <3>3. Cum(0) = 0
      BY CumIs
    <3> QED
      BY <2>1, <2>2, <3>1, <3>2, <3>3 DEF DrawdownOf, Zero
  <2>3. CASE k # 0
    <3>1. k \in 1..n /\ k - 1 \in Nat
      BY <1>1, <2>1, <2>3
    <3>2. DrawdownOf(g[1..(k - 1)], k - 1)
      BY <1>1, <2>1, <3>1
    <3>3. 1..k \in SUBSET (1..n) /\ 1..k # {} /\ (1..k) \ {k} = 1..(k - 1)
      <4> HIDE DEF n
      <4>1. k \in 1..k /\ \A i \in 1..k : i \in 1..n
        BY <1>1, <3>1
      <4>2. \A i \in Int : i \in (1..k) \ {k} <=> i \in 1..(k - 1)
        BY <3>1
      <4> QED
        BY <4>1, <4>2
    <3>4. Max(1..k) = k
      <4>1. Max(1..k) \in 1..k /\ \A i \in 1..k : i <= Max(1..k)
        BY <1>1, <3>3, LastIndex
      <4>2. k \in 1..k
        BY <3>1
      <4> QED
        BY <3>1, <4>1, <4>2
    <3>5. g[1..k] = NextAcc(g[1..(k - 1)], Row(k))
      BY <1>1, <1>3, <3>1, <3>3, <3>4 DEF FoldsUp
    <3>6. k \in 1..Cardinality(Settled)
      BY <3>1
    <3>7. DrawdownOf(NextAcc(g[1..(k - 1)], Row(k)), k)
      <4> HIDE DEF n
      <4> QED
        BY <3>2, <3>6, NextDrawdown
    <3> QED
      BY <2>1, <3>5, <3>7
  <2> QED
    BY <2>2, <2>3
<1>5. DrawdownOf(g[1..n], n)
  BY <1>1, <1>4
<1> QED
  BY <1>2, <1>5

\* The drawdowns differ only by their first peak.
LEMMA DrawdownsAgree ==
  ASSUME TablesInv
  PROVE  AnalyticsDrawdown(Executed) = Max({MaxDrawdown} \cup {-CumPnl(o) : o \in Settled})
<1> DEFINE n == Cardinality(Settled)
           cum == [o \in Settled |-> -CumPnl(o)]
           negs == {-CumPnl(o) : o \in Settled}
           all == {MaxDrawdown} \cup negs
<1>1. PICK acc : /\ AnalyticsDrawdown(Executed) = acc.max_dd
                 /\ DrawdownOf(acc, n)
  BY AnalyticsIs
<1>2. /\ n \in Nat
      /\ \A k \in 1..n : Row(k) \in Settled
      /\ \A i, k \in 1..n :
           i < k => Before(Row(i), Row(k)) /\ ~Before(Row(k), Row(i)) /\ Row(i) # Row(k)
      /\ \A o \in Settled : ~Before(o, o)
      /\ \A o \in Settled : \E k \in 1..n : o = Row(k)
  BY SeriesIs
<1>3. /\ Cum(0) = 0
      /\ \A k \in 1..n : Cum(k) = CumPnl(Row(k)) /\ Cum(k) \in Int
  <2>1. /\ Cum(0) = 0
        /\ \A k \in 1..n : /\ Cum(k - 1) \in Int /\ PnlUsdc(Row(k)) \in Int
                           /\ Cum(k) = Cum(k - 1) + PnlUsdc(Row(k))
                           /\ Cum(k) = CumPnl(Row(k))
    BY CumIs
  <2> HIDE DEF n
  <2>2. \A k \in 1..n : Cum(k) \in Int
    BY <2>1
  <2> QED
    BY <2>1, <2>2
<1>4. \A o \in Settled : CumPnl(o) \in Int
  BY TotalType DEF CumPnl
<1>5. /\ MaxDrawdown \in Falls /\ \A f \in Falls : f <= MaxDrawdown
      /\ Falls \in SUBSET Int
  BY FallsType, MaxDrawdownIs, MaxIsGreatest
<1> HIDE DEF n
<1>6. all \in SUBSET Int /\ IsFiniteSet(all) /\ all # {}
  <2>1. IsFiniteSet(Settled)
    BY TablesFinite, SettledIs
  <2>2. IsFiniteSet({cum[o] : o \in Settled})
    <3> HIDE DEF cum
    <3> QED
      BY <2>1, ValuesFinite
  <2>3. {cum[o] : o \in Settled} = negs
    OBVIOUS
  <2>4. IsFiniteSet(all)
    <3>1. all = negs \cup {MaxDrawdown}
      OBVIOUS
    <3>2. IsFiniteSet(negs)
      BY <2>2, <2>3
    <3> HIDE DEF negs, all
    <3> QED
      BY <3>1, <3>2, FS_AddElement
  <2>5. all \in SUBSET Int /\ all # {}
    BY <1>4, <1>5
  <2> QED
    BY <2>4, <2>5
<1>7. Max(all) \in all /\ \A x \in all : x <= Max(all)
  <2> HIDE DEF all
  <2> QED
    BY <1>6, MaxIsGreatest
<1> DEFINE top == Max(all)
           dd == acc.max_dd
<1>7a. top \in Int /\ MaxDrawdown \in Int /\ MaxDrawdown <= top
  BY <1>5, <1>6, <1>7
<1>8. acc.max_dd \in Int /\ \A i, j \in 0..n : i <= j => Cum(i) - Cum(j) <= acc.max_dd
  BY <1>1 DEF DrawdownOf
<1>9. \A x \in all : x <= acc.max_dd
  <2>1. ASSUME NEW f \in Falls
        PROVE  f <= acc.max_dd
    <3>1. CASE f = 0
      <4>1. Cum(0) - Cum(0) <= acc.max_dd
        BY <1>2, <1>8
      <4> QED
        BY <1>3, <3>1, <4>1
    <3>2. ASSUME NEW a \in Settled, NEW b \in Settled, Before(a, b), f = CumPnl(a) - CumPnl(b)
          PROVE  f <= acc.max_dd
      <4>1. PICK i \in 1..n : a = Row(i)
        BY <1>2
      <4>2. PICK j \in 1..n : b = Row(j)
        BY <1>2
      <4>3. i <= j
        BY <1>2, <3>2, <4>1, <4>2
      <4>4. i \in 0..n /\ j \in 0..n
        BY <1>2
      <4>5. Cum(i) - Cum(j) <= acc.max_dd
        BY <1>8, <4>3, <4>4
      <4> QED
        BY <1>3, <3>2, <4>1, <4>2, <4>5
    <3> QED
      BY <3>1, <3>2 DEF Falls
  <2>2. ASSUME NEW o \in Settled
        PROVE  -CumPnl(o) <= acc.max_dd
    <3>1. PICK k \in 1..n : o = Row(k)
      BY <1>2
    <3>2. Cum(0) - Cum(k) <= acc.max_dd
      BY <1>2, <1>8
    <3> QED
      BY <1>3, <3>1, <3>2
  <2> QED
    BY <1>5, <2>1, <2>2
<1>10. acc.max_dd <= Max(all)
  <2>1. PICK i \in 0..n, j \in 0..n : i <= j /\ acc.max_dd = Cum(i) - Cum(j)
    BY <1>1 DEF DrawdownOf
  <2>2. MaxDrawdown <= Max(all)
    BY <1>7
  <2>3. CASE i = j
    <3>1. 0 \in Falls
      BY DEF Falls
    <3>2. Cum(i) \in Int
      BY <1>2, <1>3
    <3>3. acc.max_dd = 0
      BY <2>1, <2>3, <3>2
    <3> QED
      BY <1>5, <1>6, <1>7, <2>2, <3>1, <3>3
  <2>4. CASE i = 0 /\ j # 0
    <3>1. j \in 1..n
      BY <1>2, <2>4
    <3>2. acc.max_dd = -CumPnl(Row(j)) /\ Row(j) \in Settled
      BY <1>2, <1>3, <2>1, <2>4, <3>1
    <3>3. acc.max_dd \in all
      BY <3>2
    <3> QED
      BY <1>7, <3>3
  <2>5. CASE i # 0 /\ i # j
    <3>1. i \in 1..n /\ j \in 1..n /\ i < j
      BY <1>2, <2>1, <2>5
    <3>2. /\ acc.max_dd = CumPnl(Row(i)) - CumPnl(Row(j))
          /\ Row(i) \in Settled /\ Row(j) \in Settled /\ Before(Row(i), Row(j))
      BY <1>2, <1>3, <2>1, <3>1
    <3>3. acc.max_dd \in Falls
      <4>1. <<Row(i), Row(j)>> \in {q \in Settled \X Settled : Before(q[1], q[2])}
        BY <3>2
      <4> QED
        BY <3>2, <4>1 DEF Falls
    <3>4. acc.max_dd <= MaxDrawdown
      BY <1>5, <3>3
    <3>5. dd \in Int /\ dd <= MaxDrawdown
      BY <1>8, <3>4
    <3> HIDE DEF all, top, dd
    <3>6. dd <= top
      BY <1>7a, <3>5
    <3> QED
      BY <3>6 DEF dd, top
  <2> QED
    BY <2>3, <2>4, <2>5
<1>11. acc.max_dd = Max(all)
  <2>1. dd \in Int /\ dd <= top
    BY <1>8, <1>10
  <2>2. top <= dd
    <3> HIDE DEF all
    <3> QED
      BY <1>7, <1>9
  <2> HIDE DEF all, top, dd
  <2>3. dd = top
    BY <1>7a, <2>1, <2>2
  <2> QED
    BY <2>3 DEF dd, top
<1> QED
  BY <1>1, <1>11

\* The rows of the view: settled, pending or without a price.
LEMMA StatusesPartition ==
  ASSUME TablesInv
  PROVE  /\ Count(Executed, {"win", "lose", "invalid"}) = Cardinality(Settled)
         /\ Count(Executed, {"win", "lose", "invalid"}) + Count(Executed, {"pending"})
              + Count(Executed, {"no_expected_price"}) = Cardinality(Executed)
<1> DEFINE P == {o \in Executed : Status(o) \in {"pending"}}
           N == {o \in Executed : Status(o) \in {"no_expected_price"}}
<1>1. Count(Executed, {"win", "lose", "invalid"}) = Cardinality(Settled)
  BY DEF Count, Settled
<1>2. /\ IsFiniteSet(Settled) /\ Cardinality(Settled) \in Nat
      /\ IsFiniteSet(P) /\ Cardinality(P) \in Nat /\ IsFiniteSet(N) /\ Cardinality(N) \in Nat
  <2>1. Executed \in SUBSET Orders
    BY DEF Executed
  <2>2. Settled \in SUBSET Orders /\ P \in SUBSET Orders /\ N \in SUBSET Orders
    BY <2>1 DEF Settled
  <2> HIDE DEF P, N
  <2> QED
    BY <2>2, TablesFinite
<1>3. Executed = (Settled \cup P) \cup N
  <2>1. \A o \in Executed :
          Status(o) \in {"pending", "no_expected_price", "invalid", "win", "lose"}
    BY DEF Status
  <2> QED
    BY <2>1 DEF Settled
<1>4. Settled \cap P = {} /\ (Settled \cup P) \cap N = {}
  BY DEF Settled
<1>5. Count(Executed, {"pending"}) = Cardinality(P)
  BY DEF Count
<1>6. Count(Executed, {"no_expected_price"}) = Cardinality(N)
  BY DEF Count
<1> HIDE DEF P, N
<1>7. /\ IsFiniteSet(Settled \cup P)
      /\ Cardinality(Settled \cup P) = Cardinality(Settled) + Cardinality(P) - Cardinality({})
  <2> DEFINE S == Settled
  <2>1. IsFiniteSet(S) /\ IsFiniteSet(P) /\ S \cap P = {}
    BY <1>2, <1>4
  <2> HIDE DEF S
  <2>2. IsFiniteSet(S \cup P)
    BY <2>1, FS_Union
  <2>3. Cardinality(S \cup P) = Cardinality(S) + Cardinality(P) - Cardinality({})
    BY <2>1, FS_Union
  <2> QED
    BY <2>2, <2>3 DEF S
<1>8. Cardinality((Settled \cup P) \cup N) =
        Cardinality(Settled \cup P) + Cardinality(N) - Cardinality({})
  BY <1>2, <1>4, <1>7, FS_Union
<1> QED
  BY <1>1, <1>2, <1>3, <1>5, <1>6, <1>7, <1>8, FS_EmptySet

\* The key of the parts: the wallet of an order.
WalletOf == [o \in Orders |-> Order[o].wallet]

\* The wallets of the backtest sum up to the total of the gauge.
LEMMA WalletsSumUp ==
  ASSUME TablesInv
  PROVE  Total(Settled) =
           MapThenSumSet(LAMBDA w : WalletPnl(Executed, w), {Order[o].wallet : o \in Orders})
<1> DEFINE W == {Order[o].wallet : o \in Orders}
           Byw == PartSums(Results, Settled, WalletOf, W)
           SumsUp(g) == g = [s \in SUBSET W |->
             IF s = {} THEN 0 ELSE WalletPnl(Executed, Chosen(s)) + g[Without(s)]]
<1>1. IsFiniteSet(W)
  <2>1. W = {WalletOf[o] : o \in Orders}
    BY DEF WalletOf
  <2>2. IsFiniteSet(Orders)
    BY PnlAssumption
  <2> HIDE DEF W
  <2> QED
    BY <2>1, <2>2, ValuesFinite
<1>2. /\ Settled \in SUBSET Orders /\ IsFiniteSet(Settled)
      /\ \A x \in Settled : Results[x] \in Int
  <2>1. Settled \in SUBSET Orders
    BY SettledIs
  <2> QED
    BY <2>1, TablesFinite, PnlType DEF Results
<1>3. \A x \in Settled : WalletOf[x] \in W
  BY <1>2 DEF WalletOf
<1>4. Total(Settled) = SumOf(Byw, W)
  <2>1. Total(Settled) = SumOf(Results, Settled)
    BY <1>2, TotalIs
  <2> HIDE DEF W
  <2>2. SumOf(Results, Settled) = SumOf(PartSums(Results, Settled, WalletOf, W), W)
    BY <1>1, <1>2, <1>3, SumParts
  <2> QED
    BY <2>1, <2>2
<1>5. \A w \in W : WalletPnl(Executed, w) = Byw[w]
  <2> SUFFICES ASSUME NEW w \in W
               PROVE  WalletPnl(Executed, w) = SumOf(Results, Part(Settled, WalletOf, w))
    BY DEF PartSums
  <2>1. {o \in Executed \cap Settled : Order[o].wallet = w} = Part(Settled, WalletOf, w)
    BY <1>2 DEF Part, WalletOf, Settled
  <2>2. Part(Settled, WalletOf, w) \in SUBSET Orders
    BY <1>2 DEF Part
  <2> QED
    BY <2>1, <2>2, TotalIs DEF WalletPnl
<1> HIDE DEF Byw, W
<1>6. MapThenSumSet(LAMBDA w : WalletPnl(Executed, w), W) = (CHOOSE g : SumsUp(g))[W]
  BY DEF MapThenSumSet, MapThenFoldSet, Chosen, Without
<1>7. \A g : SumsUp(g) <=> Unfolds(g, Byw, SUBSET W)
  <2> SUFFICES ASSUME NEW g
               PROVE  SumsUp(g) <=> Unfolds(g, Byw, SUBSET W)
    OBVIOUS
  <2>1. \A s \in SUBSET W : s # {} => Byw[Chosen(s)] = WalletPnl(Executed, Chosen(s))
    BY <1>5 DEF Chosen
  <2> QED
    BY <2>1 DEF Unfolds
<1>8. (CHOOSE g : SumsUp(g)) = (CHOOSE g : Unfolds(g, Byw, SUBSET W))
  BY <1>7
<1>9. MapThenSumSet(LAMBDA w : WalletPnl(Executed, w), W) = SumOf(Byw, W)
  BY <1>6, <1>8, SumIs
<1> QED
  BY <1>4, <1>9 DEF W

\* Whenever Resolver reads the view, the backtest would report the same of it,
\* however many orders, markets and wallets there are, in whatever order the
\* markets were resolved: SQL and Python count and sum alike, the wallets sum
\* up to the total, and the drawdowns differ only by their first peak.
THEOREM BacktestAgrees == Spec => []ReportsAgree
<1>1. TablesInv => ReportsAgree
  <2> SUFFICES ASSUME TablesInv
               PROVE  LET report == Report(Executed) IN
                        /\ \A f \in DOMAIN Sums \ {"day"} : report[f] = Sums[f]
                        /\ report.max_drawdown = Max({MaxDrawdown} \cup {-CumPnl(o) : o \in Settled})
                        /\ report.resolved + report.pending + report.excluded = Cardinality(Executed)
                        /\ Report(recent).total = Sums.day
                        /\ report.total =
                             MapThenSumSet(LAMBDA w : WalletPnl(Executed, w),
                                           {Order[o].wallet : o \in Orders})
    BY DEF ReportsAgree
  <2> DEFINE report == Report(Executed)
  <2>1. Executed \cap Settled = Settled /\ recent \cap Settled = Settled \cap recent
    BY DEF Settled
  <2>2. /\ report.total = Total(Settled)
        /\ report.resolved = Count(Executed, {"win", "lose", "invalid"})
        /\ report.pending = Count(Executed, {"pending"})
        /\ report.excluded = Count(Executed, {"no_expected_price"})
        /\ report.wins = Count(Executed, {"win"})
        /\ report.decided = Count(Executed, {"win", "lose"})
        /\ report.max_drawdown = AnalyticsDrawdown(Executed)
    BY <2>1 DEF Report
  <2>3. /\ Sums.total = Total(Settled) /\ Sums.day = Total(Settled \cap recent)
        /\ Sums.resolved = Cardinality(Settled)
        /\ Sums.pending = Count(Executed, {"pending"})
        /\ Sums.wins = Count(Executed, {"win"})
        /\ Sums.decided = Count(Executed, {"win", "lose"})
        /\ DOMAIN Sums = {"total", "day", "resolved", "pending", "wins", "decided"}
    BY DEF Sums
  <2>4. Report(recent).total = Sums.day
    BY <2>1, <2>3 DEF Report
  <2>5. \A f \in DOMAIN Sums \ {"day"} : report[f] = Sums[f]
    <3> HIDE DEF report
    <3> QED
      BY <2>2, <2>3, StatusesPartition
  <2> HIDE DEF report
  <2>6. /\ \A f \in DOMAIN Sums \ {"day"} : report[f] = Sums[f]
        /\ report.max_drawdown = Max({MaxDrawdown} \cup {-CumPnl(o) : o \in Settled})
        /\ report.resolved + report.pending + report.excluded = Cardinality(Executed)
        /\ Report(recent).total = Sums.day
        /\ report.total =
             MapThenSumSet(LAMBDA w : WalletPnl(Executed, w), {Order[o].wallet : o \in Orders})
    <3>1. report.max_drawdown = Max({MaxDrawdown} \cup {-CumPnl(o) : o \in Settled})
      BY <2>2, DrawdownsAgree
    <3>2. report.resolved + report.pending + report.excluded = Cardinality(Executed)
      BY <2>2, StatusesPartition
    <3>3. report.total =
            MapThenSumSet(LAMBDA w : WalletPnl(Executed, w), {Order[o].wallet : o \in Orders})
      BY <2>2, WalletsSumUp
    <3> QED
      BY <2>4, <2>5, <3>1, <3>2, <3>3
  <2> QED
    BY <2>6 DEF report
<1> QED
  BY <1>1, TablesInvariant, PTL

(***************************************************************************)
(* Resolver: although Gamma goes on to move between the answer and the     *)
(* insert, and nothing that was inserted is ever corrected, the table      *)
(* agrees with Gamma about every market whose settlement was not reverted. *)
(***************************************************************************)

\* Prices are classified as an outcome or left for a later poll.
LEMMA ClassifyType == \A p : Classify(p) \in ResolvedOutcome \cup {Unresolved}
  BY DEF Classify, ResolvedOutcome

\* A set of markets is finite, and so is its size a number.
LEMMA MarketsFinite ==
  ASSUME NEW S \in SUBSET Markets
  PROVE  IsFiniteSet(S) /\ Cardinality(S) \in Nat
  BY ResolverAssumption, FS_Subset, FS_CardinalityType

\* The insert records an outcome of what was answered, or leaves a row alone.
LEMMA ResolverInsertType ==
  ASSUME TypeOK, InsertAnswers
  PROVE  market_resolutions' \in [Markets -> ResolvedOutcome \cup {Unresolved}]
  BY ClassifyType DEF TypeOK, InsertAnswers

\* The types at the start.
LEMMA ResolverInitType == ResolverInit => TypeOK
<1>1. Cardinality({}) = 0
  BY FS_EmptySet
<1> QED
  BY <1>1, ResolverAssumption DEF ResolverInit, TypeOK, Shows

\* Every step keeps the types; a batch never has more markets than its limit.
LEMMA ResolverTypeStep ==
  TypeOK /\ [ResolverNext]_resolver_vars => TypeOK'
<1> SUFFICES ASSUME TypeOK, [ResolverNext]_resolver_vars
             PROVE  TypeOK'
  OBVIOUS
<1> USE DEF TypeOK
<1>1. CASE Begin
  <2>1. todo' \subseteq traded /\ Cardinality(todo') <= BatchSize
    BY <1>1 DEF Begin, Batches, Pending
  <2> QED
    BY <1>1, <2>1 DEF Begin
<1>2. CASE Ask
  <2>1. PICK m \in todo :
          /\ todo' = todo \ {m}
          /\ answers' = IF gamma[m] = Open THEN answers
                        ELSE answers \cup {[market |-> m, row |-> gamma[m]]}
    BY <1>2 DEF Ask
  <2>2. Cardinality(todo \ {m}) = Cardinality(todo) - 1
    <3>1. IsFiniteSet(todo)
      BY MarketsFinite
    <3> QED
      BY <3>1, FS_RemoveElement
  <2>3. Cardinality(todo') <= BatchSize
    <3>1. /\ Cardinality(todo) \in Nat /\ Cardinality(todo) <= BatchSize
          /\ todo \in SUBSET Markets
      BY MarketsFinite
    <3> QED
      BY <2>1, <2>2, <3>1, ResolverAssumption
  <2>4. answers' \subseteq Answer
    BY <2>1 DEF Answer, Shows
  <2> QED
    BY <1>2, <2>1, <2>3, <2>4 DEF Ask
<1>3. CASE InsertBatch \/ PollFails
  <2>1. Cardinality({}) <= BatchSize
    BY FS_EmptySet, ResolverAssumption
  <2>2. market_resolutions' \in [Markets -> ResolvedOutcome \cup {Unresolved}]
    BY <1>3, ResolverInsertType DEF InsertBatch, PollFails
  <2> QED
    BY <1>3, <2>1, <2>2 DEF InsertBatch, PollFails, EndPoll
<1>4. ASSUME NEW m \in Markets, Trade(m)
      PROVE  TypeOK'
  BY <1>4 DEF Trade, poll_vars
<1>5. ASSUME NEW m \in Markets, GammaShows(m)
      PROVE  TypeOK'
  BY <1>5 DEF GammaShows, poll_vars, Shows
<1>6. CASE UNCHANGED resolver_vars
  BY <1>6 DEF resolver_vars, poll_vars
<1> QED
  BY <1>1, <1>2, <1>3, <1>4, <1>5, <1>6 DEF ResolverNext, RunOnce

\* Every variable keeps its type, for any number of markets and polls.
THEOREM ResolverTypeCorrect == ResolverSpec => []TypeOK
<1>1. ResolverInit => TypeOK
  BY ResolverInitType
<1>2. TypeOK /\ [ResolverNext]_resolver_vars => TypeOK'
  BY ResolverTypeStep
<1> QED
  BY <1>1, <1>2, PTL DEF ResolverSpec

(***************************************************************************)
(* Resolver: answers and settlements.                                      *)
(***************************************************************************)

\* A poll asks for a market once, and has nothing in hand between two polls.
AnswersInv ==
  /\ poll = "idle" => todo = {} /\ answers = {}
  /\ \A a \in answers : a.market \notin todo
  /\ \A a, b \in answers : a.market = b.market => a = b

\* An answer may be old when it is inserted, but not one that is final.
FinalInv ==
  \A a \in answers : a.row \in Final /\ a.market \notin reverted => gamma[a.market] = a.row

\* What is recorded is the class of the final prices Gamma still shows.
RecordedInv ==
  \A m \in Markets :
    market_resolutions[m] # Unresolved /\ m \notin reverted =>
      IsSettled(m) /\ Classify(gamma[m]) = market_resolutions[m]

SettlementInv == AnswersInv /\ FinalInv /\ RecordedInv

\* The prices of a market that awaits UMA have no class.
LEMMA ProvisionalIsPending == \A p \in Provisional : Classify(p) = Unresolved
<1> SUFFICES ASSUME NEW p \in Provisional
             PROVE  Classify(p) = Unresolved
  OBVIOUS
<1>1. p.yes \in Nat /\ p.no \in Nat
  BY ResolverAssumption DEF PricePair
<1>2. p.yes \in (2..44) \cup (56..98) \/ p.no \in (2..44) \cup (56..98)
  BY FinalityAssumption
<1>3. /\ ~(p.yes >= 99 /\ p.no <= 1) /\ ~(p.no >= 99 /\ p.yes <= 1)
      /\ ~(p.yes \in 45..55 /\ p.no \in 45..55)
  BY <1>1, <1>2
<1> QED
  BY <1>3 DEF Classify

\* What is inserted of a market is the class of what Gamma shows for good.
LEMMA InsertRecords ==
  ASSUME TypeOK, SettlementInv, InsertAnswers,
         NoGarbage, UNCHANGED <<gamma, reverted>>
  PROVE  RecordedInv'
<1> SUFFICES ASSUME NEW m \in Markets, market_resolutions'[m] # Unresolved, m \notin reverted
             PROVE  IsSettled(m) /\ Classify(gamma[m]) = market_resolutions'[m]
  BY DEF RecordedInv, IsSettled
<1>1. CASE market_resolutions[m] # Unresolved
  BY <1>1 DEF InsertAnswers, SettlementInv, RecordedInv
<1>2. CASE market_resolutions[m] = Unresolved
  <2>1. \E a \in answers : a.market = m
    BY <1>2 DEF InsertAnswers
  <2> DEFINE answer == CHOOSE a \in answers : a.market = m
  <2>2. answer \in answers /\ answer.market = m
    BY <2>1
  <2>3. market_resolutions'[m] = Classify(answer.row)
    BY <1>2, <2>1 DEF InsertAnswers
  <2> HIDE DEF answer
  <2>4. answer.row \in Closed
    BY <2>2 DEF NoGarbage, TypeOK, Answer
  <2>5. answer.row \in Final
    BY <2>3, <2>4, ProvisionalIsPending DEF Closed
  <2>6. gamma[m] = answer.row
    BY <2>2, <2>5 DEF SettlementInv, FinalInv
  <2> QED
    BY <2>3, <2>5, <2>6 DEF IsSettled
<1> QED
  BY <1>1, <1>2

\* Every step keeps SettlementInv.
LEMMA SettlementInductive ==
  TypeOK /\ SettlementInv /\ [ResolverNext]_resolver_vars => SettlementInv'
<1> SUFFICES ASSUME TypeOK, SettlementInv, [ResolverNext]_resolver_vars
             PROVE  SettlementInv'
  OBVIOUS
<1>1. CASE Begin
  BY <1>1 DEF Begin, SettlementInv, AnswersInv, FinalInv, RecordedInv, IsSettled
<1>2. CASE Ask
  <2>1. PICK m \in todo :
          /\ todo' = todo \ {m}
          /\ answers' = IF gamma[m] = Open THEN answers
                        ELSE answers \cup {[market |-> m, row |-> gamma[m]]}
    BY <1>2 DEF Ask
  <2>2. poll' # "idle" /\ UNCHANGED <<gamma, market_resolutions, reverted>>
    BY <1>2 DEF Ask
  <2>3. \A a \in answers' : a \in answers \/ a = [market |-> m, row |-> gamma[m]]
    BY <2>1
  <2>4. AnswersInv'
    BY <2>1, <2>2, <2>3 DEF SettlementInv, AnswersInv
  <2>5. FinalInv'
    BY <2>2, <2>3 DEF SettlementInv, FinalInv
  <2>6. RecordedInv'
    BY <2>2 DEF SettlementInv, RecordedInv, IsSettled
  <2> QED
    BY <2>4, <2>5, <2>6 DEF SettlementInv
<1>3. CASE InsertBatch \/ PollFails
  <2>1. EndPoll /\ UNCHANGED <<gamma, reverted>>
    BY <1>3 DEF InsertBatch, PollFails
  <2>2. RecordedInv'
    BY <1>3, <2>1, InsertRecords
       DEF InsertBatch, PollFails, SettlementInv, RecordedInv, IsSettled
  <2> QED
    BY <2>1, <2>2 DEF EndPoll, SettlementInv, AnswersInv, FinalInv
<1>4. ASSUME NEW m \in Markets, Trade(m)
      PROVE  SettlementInv'
  BY <1>4
     DEF Trade, poll_vars, SettlementInv, AnswersInv, FinalInv, RecordedInv, IsSettled
<1>5. ASSUME NEW m \in Markets, GammaShows(m)
      PROVE  SettlementInv'
  <2>1. /\ UNCHANGED <<market_resolutions, poll, todo, answers>>
        /\ \A n \in Markets \ {m} : gamma'[n] = gamma[n]
        /\ reverted \subseteq reverted'
        /\ IsSettled(m) => m \in reverted'
    BY <1>5 DEF GammaShows, poll_vars, TypeOK
  <2>2. \A n \in Markets \ reverted' : IsSettled(n) => gamma'[n] = gamma[n]
    BY <2>1
  <2>3. \A a \in answers : a.market \in Markets
    BY DEF TypeOK, Answer
  <2>4. FinalInv'
    BY <2>1, <2>2, <2>3 DEF SettlementInv, FinalInv, IsSettled
  <2>5. RecordedInv'
    BY <2>1, <2>2 DEF SettlementInv, RecordedInv, IsSettled
  <2> QED
    BY <2>1, <2>4, <2>5 DEF SettlementInv, AnswersInv
<1>6. CASE UNCHANGED resolver_vars
  BY <1>6
     DEF resolver_vars, poll_vars, SettlementInv, AnswersInv, FinalInv, RecordedInv, IsSettled
<1> QED
  BY <1>1, <1>2, <1>3, <1>4, <1>5, <1>6 DEF ResolverNext, RunOnce

\* The class of any prices is the settlement nearest to them.
LEMMA ClassIsNearest ==
  ASSUME NEW p \in PricePair,
         Classify(p) \in ResolvedOutcome, NEW o \in ResolvedOutcome
  PROVE  Distance(p, Classify(p)) <= Distance(p, o)
<1>1. p.yes \in Nat /\ p.no \in Nat
  BY DEF PricePair
<1>2. /\ Ideal["YES"] = 100 /\ Ideal["NO"] = 0 /\ Ideal["INVALID"] = 50
  BY DEF Ideal
<1> DEFINE Yes == p.yes >= 99 /\ p.no <= 1
           No == p.no >= 99 /\ p.yes <= 1
           Split == p.yes \in 45..55 /\ p.no \in 45..55
<1>3. CASE Yes
  <2>1. Classify(p) = "YES"
    BY <1>1, <1>3 DEF Classify
  <2> QED
    BY <1>1, <1>2, <1>3, <2>1 DEF ResolvedOutcome, Distance, Gap
<1>4. CASE ~Yes /\ No
  <2>1. Classify(p) = "NO"
    BY <1>1, <1>4 DEF Classify
  <2> QED
    BY <1>1, <1>2, <1>4, <2>1 DEF ResolvedOutcome, Distance, Gap
<1>5. CASE ~Yes /\ ~No /\ Split
  <2>1. Classify(p) = "INVALID"
    BY <1>1, <1>5 DEF Classify
  <2>2. Distance(p, "INVALID") \in 0..10
    BY <1>1, <1>2, <1>5 DEF Distance, Gap
  <2>3. ASSUME NEW x \in 45..55
        PROVE  Gap(x, 100) \in 45..55 /\ Gap(x, 0) \in 45..55
    BY DEF Gap
  <2>4. Distance(p, "YES") = Gap(p.yes, 100) + Gap(p.no, 0)
    BY <1>2 DEF Distance
  <2>5. Distance(p, "NO") = Gap(p.yes, 0) + Gap(p.no, 100)
    BY <1>2 DEF Distance
  <2>6. Distance(p, "YES") \in 90..110 /\ Distance(p, "NO") \in 90..110
    BY <1>5, <2>3, <2>4, <2>5
  <2> QED
    BY <2>1, <2>2, <2>6 DEF ResolvedOutcome
<1>6. CASE ~Yes /\ ~No /\ ~Split
  <2>1. Classify(p) = Unresolved
    BY <1>6 DEF Classify
  <2> QED
    BY <2>1, UnresolvedAssumption
<1> HIDE DEF Yes, No, Split
<1> QED
  BY <1>3, <1>4, <1>5, <1>6

\* What was recorded of a market is the settlement nearest to what Gamma shows
\* of it for good, unless Gamma took a settlement back: no batch, failure or
\* movement of Gamma between an answer and its insert makes the table wrong.
THEOREM RecordsAreRight ==
  ResolverSpec => []ResolutionsAgreeWithGamma
<1>1. ResolverInit => SettlementInv
  BY DEF ResolverInit, SettlementInv, AnswersInv, FinalInv, RecordedInv
<1>2. TypeOK /\ SettlementInv => ResolutionsAgreeWithGamma
  <2> SUFFICES ASSUME TypeOK, SettlementInv, NEW m \in Markets,
                      market_resolutions[m] # Unresolved, m \notin reverted
               PROVE  /\ gamma[m] \in PricePair
                      /\ \A o \in ResolvedOutcome :
                           Distance(gamma[m], market_resolutions[m])
                             <= Distance(gamma[m], o)
    BY DEF ResolutionsAgreeWithGamma
  <2>1. gamma[m] \in Final /\ Classify(gamma[m]) = market_resolutions[m]
    BY DEF SettlementInv, RecordedInv, IsSettled
  <2>2. market_resolutions[m] \in ResolvedOutcome
    BY DEF TypeOK
  <2> QED
    BY <2>1, <2>2, ClassIsNearest, ResolverAssumption
<1>3. ResolverSpec => []TypeOK
  BY ResolverTypeCorrect
<1>4. TypeOK /\ SettlementInv /\ [ResolverNext]_resolver_vars => SettlementInv'
  BY SettlementInductive
<1> QED
  BY <1>1, <1>2, <1>3, <1>4, PTL DEF ResolverSpec

(***************************************************************************)
(* Sequences of trades.                                                    *)
(***************************************************************************)

SizesOf(trades) == [i \in DOMAIN trades |-> trades[i].size]

\* What is left of a sequence when the first k trades are dropped.
LEMMA SuffixType ==
  ASSUME NEW trades \in Seq(RecordedTrade), NEW k \in 0..Len(trades)
  PROVE  LET s == SubSeq(trades, k + 1, Len(trades)) IN
           /\ s \in Seq(RecordedTrade)
           /\ Len(s) = Len(trades) - k
           /\ \A i \in 1..(Len(trades) - k) : s[i] = trades[i + k]
<1> DEFINE n == Len(trades)
<1>1. n \in Nat /\ n \in Int /\ k + 1 \in Int
  BY LenProperties
<1>2. \A i \in (k + 1)..n : trades[i] \in RecordedTrade
  BY <1>1, ElementOfSeq
<1> HIDE DEF n
<1>3. /\ SubSeq(trades, k + 1, n) \in Seq(RecordedTrade)
      /\ Len(SubSeq(trades, k + 1, n)) = IF k + 1 <= n THEN n - (k + 1) + 1 ELSE 0
      /\ \A i \in 1..(n - (k + 1) + 1) :
           SubSeq(trades, k + 1, n)[i] = trades[(k + 1) + i - 1]
  BY <1>1, <1>2, SubSeqProperties
<1>4. k \in 0..n
  BY DEF n
<1>5. n - (k + 1) + 1 = n - k /\ \A i \in 1..(n - k) : (k + 1) + i - 1 = i + k
  BY <1>1, <1>4
<1>6. \A i \in 1..(n - k) : SubSeq(trades, k + 1, n)[i] = trades[i + k]
  BY <1>3, <1>5
<1>7. Len(SubSeq(trades, k + 1, n)) = n - k
  BY <1>1, <1>3, <1>4
<1> QED
  BY <1>3, <1>6, <1>7 DEF n

\* What was spent is the sum of the sizes.
LEMMA SpentIs == \A trades : SpentUsdc(trades) = SumOf(SizesOf(trades), DOMAIN trades)
<1> SUFFICES ASSUME NEW trades
             PROVE  SpentUsdc(trades) = SumOf(SizesOf(trades), DOMAIN trades)
  OBVIOUS
<1> DEFINE D == DOMAIN trades
           SumsUp(g) ==
             g = [s \in SUBSET D |->
                    IF s = {} THEN 0 ELSE trades[Chosen(s)].size + g[Without(s)]]
<1>1. SpentUsdc(trades) = (CHOOSE g : SumsUp(g))[D]
  BY DEF SpentUsdc, MapThenSumSet, MapThenFoldSet, Chosen, Without
<1>2. \A g : SumsUp(g) <=> Unfolds(g, SizesOf(trades), SUBSET D)
  <2> SUFFICES ASSUME NEW g
               PROVE  SumsUp(g) <=> Unfolds(g, SizesOf(trades), SUBSET D)
    OBVIOUS
  <2>1. \A s \in SUBSET D : s # {} => SizesOf(trades)[Chosen(s)] = trades[Chosen(s)].size
    BY DEF Chosen, SizesOf
  <2> QED
    BY <2>1 DEF Unfolds
<1>3. (CHOOSE g : SumsUp(g)) = (CHOOSE g : Unfolds(g, SizesOf(trades), SUBSET D))
  BY <1>2
<1> QED
  BY <1>1, <1>3, SumIs

\* The sum over the indices of a sequence of trades.
LEMMA SpentType ==
  ASSUME NEW trades \in Seq(RecordedTrade)
  PROVE  SpentUsdc(trades) \in Int
<1>1. IsFiniteSet(DOMAIN trades)
  BY FS_Interval, LenProperties
<1>2. ASSUME NEW i \in DOMAIN trades
      PROVE  SizesOf(trades)[i] \in Int
  <2>1. trades[i] \in RecordedTrade
    BY ElementOfSeq, LenProperties
  <2> QED
    BY <2>1 DEF SizesOf, RecordedTrade
<1> QED
  BY <1>1, <1>2, SumType, SpentIs

\* Nothing is spent by no trade.
LEMMA SpentEmpty == SpentUsdc(<<>>) = 0
<1>1. IsFiniteSet(DOMAIN <<>>) /\ DOMAIN <<>> = {}
  BY FS_EmptySet
<1> QED
  BY <1>1, SpentIs, SumUnfolds

\* One more trade adds its size.
LEMMA SpentAppend ==
  ASSUME NEW trades \in Seq(RecordedTrade), NEW t \in RecordedTrade
  PROVE  SpentUsdc(Append(trades, t)) = SpentUsdc(trades) + t.size
<1> DEFINE more == Append(trades, t)
           n == Len(trades)
<1>1. /\ n \in Nat /\ more \in Seq(RecordedTrade) /\ Len(more) = n + 1
      /\ DOMAIN trades = 1..n /\ DOMAIN more = 1..(n + 1)
      /\ more[n + 1] = t
      /\ \A i \in 1..n : more[i] = trades[i]
  BY AppendProperties, LenProperties
<1> HIDE DEF more, n
<1>2. IsFiniteSet(1..(n + 1))
  <2>1. 1 \in Int /\ n + 1 \in Int
    BY <1>1
  <2> QED
    BY <2>1, FS_Interval
<1>3. ASSUME NEW i \in 1..(n + 1)
      PROVE  SizesOf(more)[i] \in Int
  <2>1. more[i] \in RecordedTrade
    BY <1>1, ElementOfSeq
  <2> QED
    BY <1>1, <2>1 DEF SizesOf, RecordedTrade
<1>4. SumOf(SizesOf(more), 1..(n + 1)) =
        SizesOf(more)[n + 1] + SumOf(SizesOf(more), 1..(n + 1) \ {n + 1})
  BY <1>1, <1>2, <1>3, SumRemove
<1>5. 1..(n + 1) \ {n + 1} = 1..n
  BY <1>1
<1>6. SumOf(SizesOf(more), 1..n) = SumOf(SizesOf(trades), 1..n)
  <2>1. \A i \in 1..n : SizesOf(more)[i] = SizesOf(trades)[i]
    BY <1>1 DEF SizesOf
  <2> QED
    BY <2>1, SumSame
<1>7. SizesOf(more)[n + 1] = t.size
  BY <1>1 DEF SizesOf
<1>8. SpentUsdc(trades) \in Int
  BY SpentType
<1>10. t.size \in Int
  BY DEF RecordedTrade
<1>9. SpentUsdc(more) = t.size + SpentUsdc(trades)
  BY <1>1, <1>4, <1>5, <1>6, <1>7, SpentIs
<1> QED
  BY <1>8, <1>9, <1>10 DEF more

\* Getting older costs nothing.
LEMMA SpentAged ==
  ASSUME NEW trades \in Seq(RecordedTrade)
  PROVE  SpentUsdc(Aged(trades)) = SpentUsdc(trades)
<1>1. \A i \in DOMAIN trades : SizesOf(Aged(trades))[i] = SizesOf(trades)[i]
  BY ElementOfSeq DEF SizesOf, Aged, Older, RecordedTrade
<1>2. DOMAIN Aged(trades) = DOMAIN trades
  BY DEF Aged
<1> QED
  BY <1>1, <1>2, SumSame, SpentIs

\* The newest trades cost no more than all of them.
LEMMA SpentSuffix ==
  ASSUME NEW trades \in Seq(RecordedTrade), NEW k \in 0..Len(trades)
  PROVE  SpentUsdc(SubSeq(trades, k + 1, Len(trades))) <= SpentUsdc(trades)
<1> DEFINE Suffix(ts, j) == SubSeq(ts, j + 1, Len(ts))
           Fine(ts) == \A j \in 0..Len(ts) : SpentUsdc(Suffix(ts, j)) <= SpentUsdc(ts)
           Bad == {n \in Nat : \E ts \in Seq(RecordedTrade) : Len(ts) = n /\ ~Fine(ts)}
<1>1. ASSUME Bad # {}
      PROVE  FALSE
  <2>1. PICK n \in Bad : \A m \in Bad : n <= m
    BY <1>1, LeastNatural
  <2>2. PICK ts \in Seq(RecordedTrade) : Len(ts) = n /\ ~Fine(ts)
    BY <2>1
  <2>3. PICK j \in 0..n : ~ (SpentUsdc(Suffix(ts, j)) <= SpentUsdc(ts))
    BY <2>2
  <2>4. SpentUsdc(ts) \in Int
    BY SpentType
  <2>5. CASE n = 0
    <3>1. Suffix(ts, j) = <<>> /\ ts = <<>>
      BY <2>2, <2>5, SubSeqProperties, EmptySeq
    <3>2. SpentUsdc(Suffix(ts, j)) = SpentUsdc(ts)
      BY <3>1
    <3> HIDE DEF Suffix
    <3> QED
      BY <2>3, <2>4, <3>2
  <2>6. CASE n # 0
    <3> DEFINE front == SubSeq(ts, 1, n - 1)
               last == ts[n]
    <3>1. /\ front \in Seq(RecordedTrade) /\ Len(front) = n - 1
          /\ last \in RecordedTrade /\ n - 1 \in Nat
          /\ \A i \in 1..(n - 1) : front[i] = ts[i]
      BY <2>2, <2>6, SubSeqProperties, ElementOfSeq
    <3>2. ts = Append(front, last)
      BY <2>2, <3>1, AppendProperties, SeqEqual
    <3> HIDE DEF front, last
    <3>3. SpentUsdc(ts) = SpentUsdc(front) + last.size
      BY <3>1, <3>2, SpentAppend
    <3>4. SpentUsdc(front) \in Int
      BY <3>1, SpentType
    <3>8. last.size \in Nat
      BY <3>1 DEF RecordedTrade
    <3>5. Fine(front)
      <4>1. n - 1 \notin Bad
        BY <2>1, <3>1
      <4> QED
        BY <3>1, <4>1
    <3>6. CASE j = n
      <4>1. Suffix(ts, j) = <<>> /\ Suffix(front, n - 1) = <<>>
        BY <2>2, <3>1, <3>6, SubSeqProperties, EmptySeq
      <4>2. 0 <= SpentUsdc(front)
        <5>1. n - 1 \in 0..Len(front) /\ Suffix(front, n - 1) = <<>>
          BY <3>1, <4>1
        <5>2. SpentUsdc(Suffix(front, n - 1)) <= SpentUsdc(front)
          BY <3>5, <5>1
        <5> QED
          BY <5>1, <5>2, SpentEmpty
      <4>3. SpentUsdc(Suffix(ts, j)) = 0
        BY <4>1, SpentEmpty
      <4> HIDE DEF Suffix
      <4> QED
        BY <2>3, <3>3, <3>4, <3>8, <4>2, <4>3
    <3>7. CASE j # n
      <4>1. j \in 0..Len(front)
        BY <3>1, <3>7
      <4>2. /\ Suffix(front, j) \in Seq(RecordedTrade)
            /\ Len(Suffix(front, j)) = n - 1 - j
            /\ \A i \in 1..(n - 1 - j) : Suffix(front, j)[i] = front[i + j]
        BY <3>1, <4>1, SuffixType
      <4>3. /\ Suffix(ts, j) \in Seq(RecordedTrade)
            /\ Len(Suffix(ts, j)) = n - j
            /\ \A i \in 1..(n - j) : Suffix(ts, j)[i] = ts[i + j]
        BY <2>2, <3>7, SuffixType
      <4>4. Suffix(ts, j) = Append(Suffix(front, j), last)
        <5> DEFINE a == Suffix(ts, j)
                   b == Suffix(front, j)
        <5>1. \A i \in 1..(n - j) : ts[i + j] = IF i = n - j THEN last ELSE front[i + j]
          BY <3>1, <3>7 DEF last
        <5> HIDE DEF a, b
        <5>2. Append(b, last) \in Seq(RecordedTrade) /\ Len(Append(b, last)) = n - j
          BY <3>1, <4>2 DEF b
        <5>3. \A i \in 1..(n - j) : a[i] = Append(b, last)[i]
          BY <3>1, <4>2, <4>3, <5>1 DEF a, b
        <5> QED
          BY <4>3, <5>2, <5>3, SeqEqual DEF a, b
      <4>5. SpentUsdc(Suffix(ts, j)) = SpentUsdc(Suffix(front, j)) + last.size
        BY <3>1, <4>2, <4>4, SpentAppend
      <4>6. SpentUsdc(Suffix(front, j)) <= SpentUsdc(front)
        BY <3>5, <4>1
      <4>7. SpentUsdc(Suffix(front, j)) \in Int
        BY <4>2, SpentType
      <4> QED
        BY <2>3, <3>3, <3>4, <3>8, <4>5, <4>6, <4>7
    <3> QED
      BY <3>6, <3>7
  <2> QED
    BY <2>1, <2>5, <2>6
<1>2. Len(trades) \notin Bad /\ Len(trades) \in Nat
  BY <1>1, LenProperties
<1> QED
  BY <1>2

\* A tick changes nothing in a sequence but ages, which stay in their range.
LEMMA AgedTrades ==
  ASSUME NEW trades \in Seq(RecordedTrade)
  PROVE  Aged(trades) \in Seq(RecordedTrade) /\ Len(Aged(trades)) = Len(trades)
<1>1. ASSUME NEW t \in RecordedTrade
      PROVE  Older(t) \in RecordedTrade
  BY KillSwitchAssumption DEF Older, RecordedTrade
<1>2. \A i \in 1..Len(trades) : trades[i] \in RecordedTrade
  BY ElementOfSeq
<1> QED
  BY <1>1, <1>2 DEF Aged

(***************************************************************************)
(* KillSwitchClient: the switch under an endless stream of orders.         *)
(***************************************************************************)

\* The oldest first, as a deque is filled.
OldestFirst(trades) ==
  \A i, j \in 1..Len(trades) : i <= j => trades[j].age <= trades[i].age

\* The first k trades are those that are out of the window.
Cut(trades, k) ==
  /\ k \in 0..Len(trades)
  /\ \A i \in 1..Len(trades) : i <= k <=> trades[i].age > Window

\* The ages of recorded trades, and what a tick makes of one.
LEMMA AgeOfTrade ==
  ASSUME NEW t \in RecordedTrade
  PROVE  t.age \in Nat /\ Older(t).age = IF t.age <= Window THEN t.age + 1 ELSE t.age
<1>1. t.age \in 0..(Window + 1)
  BY DEF RecordedTrade
<1>2. t.age \in Nat
  BY <1>1, KillSwitchAssumption
<1>3. Older(t).age = IF t.age <= Window THEN t.age + 1 ELSE t.age
  BY DEF Older, RecordedTrade
<1> QED
  BY <1>2, <1>3

\* So it is for all the trades of a list.
LEMMA AgesOfTrades ==
  ASSUME NEW trades \in Seq(RecordedTrade)
  PROVE  \A i \in 1..Len(trades) : trades[i] \in RecordedTrade /\ trades[i].age \in Nat
  BY ElementOfSeq, AgeOfTrade

\* There is such a place.
LEMMA CutExists ==
  ASSUME NEW trades \in Seq(RecordedTrade), OldestFirst(trades)
  PROVE  \E k \in Nat : Cut(trades, k)
<1>1. Len(trades) \in Nat
  BY LenProperties
<1>2. \A i \in 1..Len(trades) : trades[i].age \in Nat
  BY AgesOfTrades
<1>3. CASE InWindow(trades) = {}
  <2>1. \A i \in 1..Len(trades) : trades[i].age > Window
    BY <1>2, <1>3, KillSwitchAssumption DEF InWindow
  <2>2. Cut(trades, Len(trades))
    BY <1>1, <2>1 DEF Cut
  <2> QED
    BY <1>1, <2>2
<1>4. CASE InWindow(trades) # {}
  <2>1. PICK first \in InWindow(trades) : \A j \in InWindow(trades) : first <= j
    <3>1. InWindow(trades) \in SUBSET Nat
      BY <1>1 DEF InWindow
    <3> QED
      BY <1>4, <3>1, LeastNatural
  <2>2. first \in 1..Len(trades) /\ trades[first].age <= Window
    BY <2>1 DEF InWindow
  <2>3. ASSUME NEW i \in 1..Len(trades)
        PROVE  i <= first - 1 <=> trades[i].age > Window
    <3>1. CASE i <= first - 1
      <4>1. i \notin InWindow(trades)
        BY <1>1, <2>1, <2>2, <3>1
      <4> QED
        BY <1>2, <3>1, <4>1, KillSwitchAssumption DEF InWindow
    <3>2. CASE first <= i
      <4>1. trades[i].age <= trades[first].age
        BY <2>2, <3>2 DEF OldestFirst
      <4> QED
        BY <1>1, <1>2, <2>2, <3>2, <4>1, KillSwitchAssumption
    <3> QED
      BY <1>1, <2>2, <3>1, <3>2
  <2>4. Cut(trades, first - 1) /\ first - 1 \in Nat
    BY <1>1, <2>2, <2>3 DEF Cut
  <2> QED
    BY <2>4
<1> QED
  BY <1>3, <1>4

\* Eviction cuts there.
LEMMA EvictedIs ==
  ASSUME NEW trades \in Seq(RecordedTrade), NEW k \in Nat, Cut(trades, k)
  PROVE  Evicted(trades) = SubSeq(trades, k + 1, Len(trades))
<1>1. Len(trades) \in Nat
  BY LenProperties
<1>2. \A i \in 1..Len(trades) : trades[i].age \in Nat
  BY AgesOfTrades
<1>3. InWindow(trades) = (k + 1)..Len(trades)
  BY <1>1, <1>2, KillSwitchAssumption DEF InWindow, Cut
<1>4. CASE k = Len(trades)
  <2>1. InWindow(trades) = {}
    BY <1>1, <1>3, <1>4
  <2>2. SubSeq(trades, k + 1, Len(trades)) = <<>>
    BY <1>1, <1>4, SubSeqProperties, EmptySeq
  <2> QED
    BY <2>1, <2>2 DEF Evicted
<1>5. CASE k # Len(trades)
  <2>1. InWindow(trades) # {} /\ k + 1 \in InWindow(trades)
    BY <1>1, <1>3, <1>5 DEF Cut
  <2>2. (CHOOSE i \in InWindow(trades) : \A j \in InWindow(trades) : i <= j) = k + 1
    BY <1>1, <1>3, <2>1
  <2> QED
    BY <2>1, <2>2 DEF Evicted
<1> QED
  BY <1>4, <1>5

\* What eviction leaves is in order, too.
LEMMA SuffixIs ==
  ASSUME NEW trades \in Seq(RecordedTrade), NEW k \in 0..Len(trades)
  PROVE  LET s == SubSeq(trades, k + 1, Len(trades)) IN
           /\ s \in Seq(RecordedTrade)
           /\ Len(s) = Len(trades) - k
           /\ \A i \in 1..Len(s) : s[i] = trades[i + k]
           /\ OldestFirst(trades) => OldestFirst(s)
<1> DEFINE s == SubSeq(trades, k + 1, Len(trades))
<1>1. Len(trades) \in Nat
  BY LenProperties
<1>2. /\ s \in Seq(RecordedTrade)
      /\ Len(s) = Len(trades) - k
      /\ \A i \in 1..Len(s) : s[i] = trades[i + k]
  BY SuffixType
<1> HIDE DEF s
<1>3. ASSUME OldestFirst(trades), NEW i \in 1..Len(s), NEW j \in 1..Len(s), i <= j
      PROVE  s[j].age <= s[i].age
  <2>1. i + k \in 1..Len(trades) /\ j + k \in 1..Len(trades) /\ i + k <= j + k
    BY <1>1, <1>2, <1>3
  <2>2. trades[j + k].age <= trades[i + k].age
    BY <1>3, <2>1 DEF OldestFirst
  <2> QED
    BY <1>2, <2>2
<1>4. OldestFirst(trades) => OldestFirst(s)
  BY <1>3 DEF OldestFirst
<1> QED
  BY <1>2, <1>4 DEF s

\* A new trade stays at its end.
LEMMA AppendRecent ==
  ASSUME NEW trades \in Seq(RecordedTrade), OldestFirst(trades),
         NEW t \in RecordedTrade, t.age = 0
  PROVE  /\ OldestFirst(Append(trades, t))
         /\ Evicted(Append(trades, t)) = Append(Evicted(trades), t)
<1> DEFINE n == Len(trades)
           more == Append(trades, t)
<1>1. /\ n \in Nat /\ more \in Seq(RecordedTrade) /\ Len(more) = n + 1
      /\ more[n + 1] = t
      /\ \A i \in 1..n : more[i] = trades[i]
  BY AppendProperties, LenProperties
<1>2. \A i \in 1..(n + 1) : more[i].age \in Nat
  BY <1>1, AgesOfTrades
<1> HIDE DEF n, more
<1>3. OldestFirst(more)
  <2> SUFFICES ASSUME NEW i \in 1..(n + 1), NEW j \in 1..(n + 1), i <= j
               PROVE  more[j].age <= more[i].age
    BY <1>1 DEF OldestFirst
  <2>1. CASE j = n + 1
    BY <1>1, <1>2, <2>1
  <2>2. CASE j # n + 1
    <3>1. i \in 1..n /\ j \in 1..n
      BY <1>1, <2>2
    <3>2. trades[j].age <= trades[i].age
      BY <3>1 DEF OldestFirst, n
    <3> QED
      BY <1>1, <3>1, <3>2
  <2> QED
    BY <2>1, <2>2
<1>4. PICK k \in Nat : Cut(trades, k)
  BY CutExists
<1>5. k \in 0..n
  BY <1>4 DEF Cut, n
<1>6. Cut(more, k)
  <2> SUFFICES ASSUME NEW i \in 1..(n + 1)
               PROVE  i <= k <=> more[i].age > Window
    BY <1>1, <1>5 DEF Cut
  <2>1. CASE i = n + 1
    BY <1>1, <1>5, <2>1, KillSwitchAssumption
  <2>2. CASE i # n + 1
    <3>1. i \in 1..n
      BY <1>1, <2>2
    <3> QED
      BY <1>1, <1>4, <3>1 DEF Cut, n
  <2> QED
    BY <2>1, <2>2
<1>7. Evicted(more) = SubSeq(more, k + 1, n + 1) /\ Evicted(trades) = SubSeq(trades, k + 1, n)
  BY <1>1, <1>4, <1>6, EvictedIs DEF n
<1>8. SubSeq(more, k + 1, n + 1) = Append(SubSeq(trades, k + 1, n), t)
  <2> DEFINE a == SubSeq(more, k + 1, n + 1)
             b == SubSeq(trades, k + 1, n)
  <2>1. a \in Seq(RecordedTrade) /\ Len(a) = n + 1 - k /\ \A i \in 1..(n + 1 - k) : a[i] = more[i + k]
    BY <1>1, <1>5, SuffixIs
  <2>2. b \in Seq(RecordedTrade) /\ Len(b) = n - k /\ \A i \in 1..(n - k) : b[i] = trades[i + k]
    BY <1>1, <1>5, SuffixIs DEF n
  <2> HIDE DEF a, b
  <2>3. /\ Append(b, t) \in Seq(RecordedTrade) /\ Len(Append(b, t)) = n - k + 1
        /\ Append(b, t)[n - k + 1] = t
        /\ \A i \in 1..(n - k) : Append(b, t)[i] = b[i]
    BY <2>2, AppendProperties
  <2>4. ASSUME NEW i \in 1..(n + 1 - k)
        PROVE  a[i] = Append(b, t)[i]
    <3>1. CASE i = n + 1 - k
      <4>1. i + k = n + 1 /\ i = n - k + 1
        BY <1>1, <1>5, <3>1
      <4> QED
        BY <1>1, <2>1, <2>3, <4>1
    <3>2. CASE i # n + 1 - k
      <4>1. i \in 1..(n - k) /\ i + k \in 1..n
        BY <1>1, <1>5, <3>2
      <4> QED
        BY <1>1, <2>1, <2>2, <2>3, <4>1
    <3> QED
      BY <3>1, <3>2
  <2>5. n - k + 1 = n + 1 - k
    BY <1>1, <1>5
  <2>6. Append(b, t) \in Seq(RecordedTrade) /\ Len(Append(b, t)) = Len(a)
    BY <2>1, <2>3, <2>5
  <2>7. \A i \in 1..Len(a) : a[i] = Append(b, t)[i]
    BY <2>1, <2>4
  <2>8. a = Append(b, t)
    BY <2>1, <2>6, <2>7, SeqEqual
  <2> QED
    BY <2>8 DEF a, b
<1> QED
  BY <1>3, <1>7, <1>8 DEF more

\* Getting older changes no order.
LEMMA AgedOrder ==
  ASSUME NEW trades \in Seq(RecordedTrade), OldestFirst(trades)
  PROVE  OldestFirst(Aged(trades))
<1>1. /\ Len(trades) \in Nat /\ Len(Aged(trades)) = Len(trades)
      /\ \A i \in 1..Len(trades) : Aged(trades)[i] = Older(trades[i])
  BY AgedTrades, LenProperties DEF Aged
<1>2. ASSUME NEW i \in 1..Len(trades), NEW j \in 1..Len(trades), i <= j
      PROVE  Older(trades[j]).age <= Older(trades[i]).age
  <2>1. trades[i] \in RecordedTrade /\ trades[j] \in RecordedTrade
    BY ElementOfSeq
  <2>2. trades[j].age <= trades[i].age
    BY <1>2 DEF OldestFirst
  <2> QED
    BY <2>1, <2>2, AgeOfTrade, KillSwitchAssumption
<1> QED
  BY <1>1, <1>2 DEF OldestFirst

\* It does not matter whether what has left the window is dropped before or
\* after a tick.
LEMMA EvictedAged ==
  ASSUME NEW trades \in Seq(RecordedTrade), OldestFirst(trades)
  PROVE  LET aged == Aged(Evicted(trades))
             gone == {i \in DOMAIN aged : aged[i].age > Window}
         IN  /\ Cardinality(gone) \in 0..Len(aged)
             /\ Evicted(Aged(trades)) = SubSeq(aged, Cardinality(gone) + 1, Len(aged))
<1> DEFINE n == Len(trades)
           rest == Evicted(trades)
           aged == Aged(rest)
           gone == {i \in DOMAIN aged : aged[i].age > Window}
           all == Aged(trades)
<1>1. PICK k \in Nat : Cut(trades, k)
  BY CutExists
<1>2. n \in Nat /\ k \in 0..n /\ rest = SubSeq(trades, k + 1, n)
  BY <1>1, EvictedIs, LenProperties DEF Cut
<1>3. /\ rest \in Seq(RecordedTrade) /\ Len(rest) = n - k /\ OldestFirst(rest)
      /\ \A i \in 1..(n - k) : rest[i] = trades[i + k]
  BY <1>2, SuffixIs
<1> HIDE DEF rest
<1>4. /\ aged \in Seq(RecordedTrade) /\ Len(aged) = n - k /\ OldestFirst(aged)
      /\ DOMAIN aged = 1..(n - k)
      /\ \A i \in 1..(n - k) : aged[i] = Older(trades[i + k])
  <2>1. \A i \in 1..(n - k) : aged[i] = Older(rest[i])
    BY <1>3, LenProperties DEF Aged
  <2> QED
    BY <1>3, <2>1, AgedTrades, AgedOrder, LenProperties
<1>5. /\ all \in Seq(RecordedTrade) /\ Len(all) = n
      /\ \A i \in 1..n : all[i] = Older(trades[i])
  BY AgedTrades, LenProperties DEF Aged
<1> HIDE DEF aged, all
<1>6. PICK m \in Nat : Cut(aged, m)
  BY <1>4, CutExists
<1>7. m \in 0..(n - k) /\ \A i \in 1..(n - k) : i <= m <=> aged[i].age > Window
  BY <1>4, <1>6 DEF Cut
<1>8. gone = 1..m
  BY <1>2, <1>4, <1>7
<1>9. Cardinality(gone) = m
  <2>1. m \in Nat
    BY <1>6
  <2>2. Cardinality(1..m) = m
    BY <2>1, FS_Interval
  <2> QED
    BY <1>8, <2>2
<1>10. Cut(all, k + m)
  <2> SUFFICES ASSUME NEW i \in 1..n
               PROVE  i <= k + m <=> all[i].age > Window
    BY <1>2, <1>5, <1>7 DEF Cut
  <2>1. trades[i] \in RecordedTrade
    BY ElementOfSeq
  <2>2. CASE i <= k
    <3>1. trades[i].age > Window
      BY <1>1, <2>2 DEF Cut
    <3>2. all[i].age > Window
      BY <1>5, <2>1, <3>1, AgeOfTrade, KillSwitchAssumption
    <3> QED
      BY <1>2, <1>7, <2>2, <3>2
  <2>3. CASE ~ (i <= k)
    <3>1. i - k \in 1..(n - k) /\ (i - k) + k = i
      BY <1>2, <2>3
    <3>2. i - k <= m <=> aged[i - k].age > Window
      BY <1>7, <3>1
    <3>3. aged[i - k] = all[i]
      BY <1>4, <1>5, <3>1
    <3> QED
      BY <1>2, <1>7, <3>2, <3>3
  <2> QED
    BY <2>2, <2>3
<1>11. Evicted(all) = SubSeq(all, k + m + 1, n)
  BY <1>5, <1>10, EvictedIs
<1>12. SubSeq(all, k + m + 1, n) = SubSeq(aged, m + 1, n - k)
  <2> DEFINE a == SubSeq(all, k + m + 1, n)
             b == SubSeq(aged, m + 1, n - k)
  <2>1. /\ a \in Seq(RecordedTrade) /\ Len(a) = n - k - m
        /\ \A i \in 1..(n - k - m) : a[i] = all[i + (k + m)]
    <3>1. k + m \in 0..Len(all) /\ Len(all) - (k + m) = n - k - m
      BY <1>2, <1>5, <1>7
    <3> QED
      BY <1>5, <3>1, SuffixIs
  <2>2. /\ b \in Seq(RecordedTrade) /\ Len(b) = n - k - m
        /\ \A i \in 1..(n - k - m) : b[i] = aged[i + m]
    BY <1>4, <1>7, SuffixIs
  <2> HIDE DEF a, b
  <2>3. ASSUME NEW i \in 1..(n - k - m)
        PROVE  a[i] = b[i]
    <3>1. i + m \in 1..(n - k) /\ i + (k + m) \in 1..n /\ (i + m) + k = i + (k + m)
      BY <1>2, <1>7
    <3> QED
      BY <1>4, <1>5, <2>1, <2>2, <3>1
  <2> QED
    BY <2>1, <2>2, <2>3, SeqEqual DEF a, b
<1> QED
  BY <1>4, <1>7, <1>9, <1>11, <1>12 DEF aged, all, rest

\* The exchange's side of the window is what the switch sees after it
\* evicted, although it forgets at every tick and the switch when it checks.
WindowInv ==
  /\ trades_24h \in Seq(RecordedTrade)
  /\ in_flight \in Nat
  /\ OldestFirst(trades_24h)
  /\ accepted = Evicted(trades_24h)

\* The caps, in the words of KillSwitch.
Caps(trades, size) ==
  /\ Len(trades) + (IF size = 0 THEN 0 ELSE 1) <= DailyMaxTrades
  /\ SpentUsdc(trades) + size <= DailyMaxUsdc

ClientInv == WindowInv /\ Caps(accepted, in_flight)

\* What is left of a sequence by eviction.
LEMMA EvictedLeaves ==
  ASSUME NEW trades \in Seq(RecordedTrade), OldestFirst(trades)
  PROVE  /\ Evicted(trades) \in Seq(RecordedTrade)
         /\ OldestFirst(Evicted(trades))
         /\ Evicted(Evicted(trades)) = Evicted(trades)
<1>1. PICK k \in Nat : Cut(trades, k)
  BY CutExists
<1>2. k \in 0..Len(trades) /\ Len(trades) \in Nat
  BY <1>1, LenProperties DEF Cut
<1> DEFINE rest == Evicted(trades)
<1>3. rest = SubSeq(trades, k + 1, Len(trades))
  BY <1>1, EvictedIs
<1>4. /\ rest \in Seq(RecordedTrade) /\ OldestFirst(rest) /\ Len(rest) = Len(trades) - k
      /\ \A i \in 1..(Len(trades) - k) : rest[i] = trades[i + k]
  BY <1>2, <1>3, SuffixIs
<1> HIDE DEF rest
<1>5. ASSUME NEW i \in 1..Len(rest)
      PROVE  ~ (rest[i].age > Window)
  <2>1. i + k \in 1..Len(trades) /\ ~ (i + k <= k)
    BY <1>2, <1>4
  <2> QED
    BY <1>1, <1>4, <2>1 DEF Cut
<1>6. Cut(rest, 0)
  BY <1>4, <1>5, LenProperties DEF Cut
<1>7. Evicted(rest) = SubSeq(rest, 1, Len(rest))
  BY <1>4, <1>6, EvictedIs
<1>8. SubSeq(rest, 1, Len(rest)) = rest
  <2> DEFINE a == SubSeq(rest, 0 + 1, Len(rest))
  <2>1. Len(rest) \in Nat
    BY <1>4, LenProperties
  <2>2. a \in Seq(RecordedTrade) /\ Len(a) = Len(rest) /\ \A i \in 1..Len(a) : a[i] = rest[i]
    BY <1>4, <2>1, SubSeqProperties, ElementOfSeq
  <2> HIDE DEF a
  <2>3. a = rest
    BY <1>4, <2>2, SeqEqual
  <2> QED
    BY <2>3 DEF a
<1> QED
  BY <1>4, <1>7, <1>8 DEF rest

\* The caps hold of fewer trades.
LEMMA CapsOfSuffix ==
  ASSUME NEW trades \in Seq(RecordedTrade), NEW k \in 0..Len(trades)
  PROVE  LET s == SubSeq(trades, k + 1, Len(trades)) IN
           Len(s) <= Len(trades) /\ SpentUsdc(s) <= SpentUsdc(trades)
<1>1. Len(SubSeq(trades, k + 1, Len(trades))) = Len(trades) - k /\ Len(trades) \in Nat
  BY SuffixIs, LenProperties
<1> QED
  BY <1>1, SpentSuffix

\* What a passed check leaves room for.
LEMMA PassesLeavesRoom ==
  ASSUME NEW trades \in Seq(RecordedTrade), NEW size \in Nat, Passes(trades, size)
  PROVE  Caps(trades, size)
<1>1. ~Blocks(3, trades, size) /\ ~Blocks(4, trades, size)
  BY DEF Passes
<1>2. ~ (Len(trades) >= DailyMaxTrades) /\ ~ (SpentUsdc(trades) + size > DailyMaxUsdc)
  BY <1>1 DEF Blocks
<1>3. Len(trades) \in Nat /\ SpentUsdc(trades) \in Int
  BY LenProperties, SpentType
<1> QED
  BY <1>2, <1>3, KillSwitchAssumption DEF Caps

\* A new process starts with an empty window.
LEMMA EmptyWindow ==
  /\ <<>> \in Seq(RecordedTrade)
  /\ OldestFirst(<<>>)
  /\ Evicted(<<>>) = <<>>
  /\ Caps(<<>>, 0)
<1>1. <<>> \in Seq(RecordedTrade) /\ Len(<<>>) = 0
  BY EmptySeq
<1>2. OldestFirst(<<>>)
  BY <1>1 DEF OldestFirst
<1>3. Evicted(<<>>) = <<>>
  BY <1>1 DEF Evicted, InWindow
<1>4. Caps(<<>>, 0)
  BY <1>1, SpentEmpty, KillSwitchAssumption DEF Caps
<1> QED
  BY <1>1, <1>2, <1>3, <1>4

\* Every step keeps the two windows together and within the caps.
LEMMA ClientStep ==
  ASSUME ClientInv, [ClientNext]_switch_vars
  PROVE  ClientInv'
<1> USE DEF WindowInv
<1>1. WindowInv /\ Caps(accepted, in_flight)
  BY DEF ClientInv
<1> DEFINE now == Evicted(trades_24h)
<1>2. now \in Seq(RecordedTrade) /\ OldestFirst(now) /\ Evicted(now) = now
  BY <1>1, EvictedLeaves
<1>3. Len(now) \in Nat /\ SpentUsdc(now) \in Int
  BY <1>2, LenProperties, SpentType
<1> SUFFICES WindowInv' /\ Caps(accepted', in_flight')
  BY DEF ClientInv
<1>4. ASSUME NEW size \in Sizes, Offer(size)
      PROVE  WindowInv' /\ Caps(accepted', in_flight')
  <2>1. /\ in_flight = 0 /\ trades_24h' = now /\ accepted' = now
        /\ in_flight' = IF Passes(now, size) THEN size ELSE 0
    BY <1>1, <1>4 DEF Offer
  <2>2. size \in Nat
    BY SizesAssumption
  <2>5. WindowInv'
    BY <1>2, <2>1, <2>2
  <2>3. CASE Passes(now, size)
    <3>1. Caps(now, size)
      BY <1>2, <2>2, <2>3, PassesLeavesRoom
    <3> QED
      BY <2>1, <2>3, <2>5, <3>1
  <2>4. CASE ~Passes(now, size)
    BY <1>1, <2>1, <2>4, <2>5
  <2> QED
    BY <2>3, <2>4
<1>5. CASE Succeed
  <2> DEFINE t == [age |-> 0, size |-> in_flight]
  <2>1. /\ in_flight # 0 /\ in_flight' = 0
        /\ trades_24h' = Append(trades_24h, t) /\ accepted' = Append(accepted, t)
    BY <1>5 DEF Succeed, RecordSuccess
  <2>2. t \in RecordedTrade /\ t.age = 0 /\ t.size = in_flight
    BY <1>1, KillSwitchAssumption DEF RecordedTrade
  <2> HIDE DEF t
  <2>3. /\ trades_24h' \in Seq(RecordedTrade) /\ OldestFirst(trades_24h')
        /\ accepted' = Evicted(trades_24h')
    BY <1>1, <2>1, <2>2, AppendRecent, AppendProperties
  <2>4. /\ SpentUsdc(accepted') = SpentUsdc(now) + in_flight
        /\ Len(accepted') = Len(now) + 1
    BY <1>1, <1>2, <2>1, <2>2, SpentAppend, AppendProperties
  <2>5. Caps(accepted', in_flight')
    BY <1>1, <1>3, <2>1, <2>4, KillSwitchAssumption DEF Caps
  <2> QED
    BY <2>1, <2>3, <2>5
<1>6. CASE Fail
  <2>1. in_flight' = 0 /\ UNCHANGED <<trades_24h, accepted>>
    BY <1>6 DEF Fail, RecordFailure
  <2>2. Caps(accepted', in_flight')
    BY <1>1, <1>3, <2>1, KillSwitchAssumption DEF Caps
  <2> QED
    BY <1>1, <2>1, <2>2
<1>7. CASE Restart
  <2>1. trades_24h' = <<>> /\ accepted' = <<>> /\ in_flight' = 0
    BY <1>7 DEF Restart, KSReset
  <2> QED
    BY <2>1, EmptyWindow
<1>8. CASE Tick
  <2> DEFINE aged == Aged(now)
             gone == {i \in DOMAIN aged : aged[i].age > Window}
             k == Cardinality(gone)
  <2>1. /\ trades_24h' = Aged(trades_24h) /\ UNCHANGED in_flight
        /\ accepted' = SubSeq(aged, k + 1, Len(aged))
    BY <1>1, <1>8 DEF Tick
  <2>2. k \in 0..Len(aged) /\ Evicted(Aged(trades_24h)) = SubSeq(aged, k + 1, Len(aged))
    BY <1>1, EvictedAged
  <2>3. /\ aged \in Seq(RecordedTrade) /\ Len(aged) = Len(now)
        /\ SpentUsdc(aged) = SpentUsdc(now)
    BY <1>2, AgedTrades, SpentAged
  <2> HIDE DEF aged, k
  <2>4. /\ Len(accepted') <= Len(now) /\ SpentUsdc(accepted') <= SpentUsdc(now)
        /\ accepted' \in Seq(RecordedTrade)
    BY <2>1, <2>2, <2>3, CapsOfSuffix, SuffixIs
  <2>5. Len(accepted') \in Nat /\ SpentUsdc(accepted') \in Int
    BY <2>4, LenProperties, SpentType
  <2>6. Caps(accepted', in_flight')
    BY <1>1, <1>3, <2>1, <2>4, <2>5, KillSwitchAssumption DEF Caps
  <2>7. trades_24h' \in Seq(RecordedTrade) /\ OldestFirst(trades_24h')
    BY <1>1, <2>1, AgedTrades, AgedOrder
  <2> QED
    BY <1>1, <2>1, <2>2, <2>6, <2>7
<1>9. CASE Heal \/ TogglePause \/ UNCHANGED switch_vars
  <2>1. UNCHANGED <<trades_24h, accepted, in_flight>>
    BY <1>9 DEF Heal, TogglePause, switch_vars, ks_vars, client_vars
  <2> QED
    BY <1>1, <2>1
<1> QED
  BY <1>4, <1>5, <1>6, <1>7, <1>8, <1>9 DEF ClientNext

\* In every window of 24 hours, on both of its bounds, the exchange accepts
\* at most daily_max_trades orders and daily_max_usdc of one process, for
\* any limits, window and stream of orders.
THEOREM WindowIsCapped ==
  ClientSpec => []RollingCaps
<1>1. ClientInit => ClientInv
  BY EmptyWindow DEF ClientInit, ClientInv, WindowInv
<1>2. ClientInv /\ [ClientNext]_switch_vars => ClientInv'
  BY ClientStep
<1>3. ClientInv => RollingCaps
  BY DEF ClientInv, Caps, RollingCaps
<1> QED
  BY <1>1, <1>2, <1>3, PTL DEF ClientSpec

(***************************************************************************)
(* Discovery: what filter_and_rank returns.                                *)
(***************************************************************************)

Entry == [rank : Nat, address : Wallets]

\* The addresses differ, and none of them is in the seed the run has read.
Fresh(list) ==
  /\ \A i, j \in DOMAIN list : i # j => list[i].address # list[j].address
  /\ \A i \in DOMAIN list : list[i].address \notin seed_addrs

\* One turn of the loop of filter_and_rank.
NextList(entries, top_n, i, list) ==
  IF \/ Excluded(entries[i])
     \/ entries[i].address \in Addresses(list)
     \/ Len(list) = top_n
  THEN list ELSE Append(list, entries[i])

Lists(g, entries, top_n, n) ==
  g = [i \in 0..n |-> IF i = 0 THEN <<>> ELSE NextList(entries, top_n, i, g[i - 1])]

\* What FilterAndRank returns is the last value of its walk.
LEMMA FilterIs ==
  \A entries, top_n :
    FilterAndRank(entries, top_n) =
      (CHOOSE g : Lists(g, entries, top_n, Len(entries)))[Len(entries)]
  BY DEF FilterAndRank, Lists, NextList

\* The loop ends.
LEMMA ListsExist ==
  ASSUME NEW entries, NEW top_n, NEW n \in Nat
  PROVE  \E g : Lists(g, entries, top_n, n)
<1> DEFINE Bad == {m \in Nat : ~ \E g : Lists(g, entries, top_n, m)}
<1>1. ASSUME Bad # {}
      PROVE  FALSE
  <2>1. PICK m \in Bad : \A k \in Bad : m <= k
    BY <1>1, LeastNatural
  <2>2. CASE m = 0
    <3> DEFINE g == [i \in 0..0 |-> <<>>]
    <3>1. Lists(g, entries, top_n, 0)
      BY DEF Lists
    <3> QED
      BY <2>1, <2>2, <3>1
  <2>3. CASE m # 0
    <3>1. PICK g : Lists(g, entries, top_n, m - 1)
      BY <2>1, <2>3
    <3> DEFINE h == [i \in 0..m |-> IF i = 0 THEN <<>>
                                    ELSE NextList(entries, top_n, i, g[i - 1])]
    <3>2. \A i \in 0..(m - 1) : h[i] = g[i]
      <4>1. \A i \in 0..(m - 1) : g[i] = IF i = 0 THEN <<>>
                                         ELSE NextList(entries, top_n, i, g[i - 1])
        BY <3>1 DEF Lists
      <4>2. ASSUME NEW i \in 0..(m - 1)
            PROVE  h[i] = IF i = 0 THEN <<>> ELSE NextList(entries, top_n, i, g[i - 1])
        <5>1. i \in 0..m
          BY <2>1
        <5> QED
          BY <5>1
      <4> HIDE DEF h
      <4> QED
        BY <4>1, <4>2
    <3>3. \A i \in 0..m : i # 0 => h[i - 1] = g[i - 1]
      <4>1. \A i \in 0..m : i # 0 => i - 1 \in 0..(m - 1)
        BY <2>1
      <4> HIDE DEF h
      <4> QED
        BY <3>2, <4>1
    <3>4. h = [i \in 0..m |-> IF i = 0 THEN <<>>
                              ELSE NextList(entries, top_n, i, h[i - 1])]
      BY <3>3
    <3> HIDE DEF h
    <3>5. Lists(h, entries, top_n, m)
      BY <3>4 DEF Lists
    <3> QED
      BY <2>1, <3>5
  <2> QED
    BY <2>2, <2>3
<1> QED
  BY <1>1

\* The list after i entries: it is fresh, and has each of the first top_n of
\* them that is not excluded.
Keeps(list, entries, top_n, i) ==
  /\ list \in Seq(Entry) /\ Len(list) <= i
  /\ Fresh(list)
  /\ \A j \in 1..i :
       j <= top_n => Excluded(entries[j]) \/ entries[j].address \in Addresses(list)

\* One more entry keeps it so.
LEMMA NextListKeeps ==
  ASSUME NEW entries \in Seq(Entry), NEW top_n \in Nat, NEW i \in 1..Len(entries),
         NEW list, Keeps(list, entries, top_n, i - 1)
  PROVE  Keeps(NextList(entries, top_n, i, list), entries, top_n, i)
<1> DEFINE e == entries[i]
           next == NextList(entries, top_n, i, list)
<1>1. e \in Entry /\ i \in Nat /\ i - 1 \in Nat
  BY ElementOfSeq, LenProperties
<1>2. /\ list \in Seq(Entry) /\ Len(list) \in Nat /\ Len(list) <= i - 1 /\ Fresh(list)
      /\ \A j \in 1..(i - 1) :
           j <= top_n => Excluded(entries[j]) \/ entries[j].address \in Addresses(list)
  BY LenProperties DEF Keeps
<1> HIDE DEF e
<1>3. \A j \in 1..i : j # i => j \in 1..(i - 1)
  BY <1>1
<1>4. CASE Excluded(e) \/ e.address \in Addresses(list) \/ Len(list) = top_n
  <2>1. next = list
    BY <1>4 DEF NextList, e
  <2>2. i <= top_n => Excluded(e) \/ e.address \in Addresses(list)
    BY <1>1, <1>2, <1>4
  <2> HIDE DEF next
  <2>3. \A j \in 1..i :
          j <= top_n => Excluded(entries[j]) \/ entries[j].address \in Addresses(list)
    BY <1>2, <1>3, <2>2 DEF e
  <2>4. Len(list) <= i
    BY <1>1, <1>2
  <2> QED
    BY <1>2, <2>1, <2>3, <2>4 DEF Keeps, next
<1>5. CASE ~Excluded(e) /\ e.address \notin Addresses(list) /\ Len(list) # top_n
  <2> DEFINE n == Len(list)
  <2>1. next = Append(list, e)
    BY <1>5 DEF NextList, e
  <2> HIDE DEF next
  <2>2. /\ next \in Seq(Entry) /\ Len(next) = n + 1 /\ DOMAIN next = 1..(n + 1)
        /\ next[n + 1] = e /\ \A k \in 1..n : next[k] = list[k]
        /\ DOMAIN list = 1..n /\ n \in Nat
    BY <1>1, <1>2, <2>1, AppendProperties, LenProperties
  <2> HIDE DEF n
  <2>3. e.address \notin seed_addrs
    BY <1>5 DEF Excluded
  <2>4. \A k \in 1..n : list[k].address # e.address
    BY <1>5, <2>2 DEF Addresses
  <2>5. \A k \in 1..(n + 1) : k # n + 1 => k \in 1..n
    BY <2>2
  <2>6. Fresh(next)
    BY <1>2, <2>2, <2>3, <2>4, <2>5 DEF Fresh
  <2>7. Addresses(list) \subseteq Addresses(next) /\ e.address \in Addresses(next)
    <3>1. n + 1 \in 1..(n + 1) /\ \A k \in 1..n : k \in 1..(n + 1)
      BY <2>2
    <3> QED
      BY <2>2, <3>1 DEF Addresses
  <2>8. \A j \in 1..i :
          j <= top_n => Excluded(entries[j]) \/ entries[j].address \in Addresses(next)
    BY <1>2, <1>3, <2>7 DEF e
  <2>9. Len(next) <= i
    BY <1>1, <1>2, <2>2 DEF n
  <2> QED
    BY <2>2, <2>6, <2>8, <2>9 DEF Keeps, next
<1> QED
  BY <1>4, <1>5

\* So is the list at the end of the loop.
LEMMA FilterKeeps ==
  ASSUME NEW entries \in Seq(Entry), NEW top_n \in Nat
  PROVE  Keeps(FilterAndRank(entries, top_n), entries, top_n, Len(entries))
<1> DEFINE n == Len(entries)
           g == CHOOSE f : Lists(f, entries, top_n, n)
           Bad == {i \in Nat : i <= n /\ ~Keeps(g[i], entries, top_n, i)}
<1>1. n \in Nat
  BY LenProperties
<1>2. Lists(g, entries, top_n, n)
  BY <1>1, ListsExist
<1> HIDE DEF g
<1>3. \A i \in 0..n : g[i] = IF i = 0 THEN <<>> ELSE NextList(entries, top_n, i, g[i - 1])
  BY <1>2 DEF Lists
<1>4. ASSUME Bad # {}
      PROVE  FALSE
  <2>1. PICK i \in Bad : \A k \in Bad : i <= k
    BY <1>4, LeastNatural
  <2>2. CASE i = 0
    <3>1. g[0] = <<>>
      BY <1>1, <1>3
    <3>2. <<>> \in Seq(Entry) /\ Len(<<>>) = 0 /\ DOMAIN <<>> = {}
      BY EmptySeq
    <3>3. Keeps(g[0], entries, top_n, 0)
      BY <3>1, <3>2 DEF Keeps, Fresh
    <3> QED
      BY <2>1, <2>2, <3>3
  <2>3. CASE i # 0
    <3>1. i \in 1..n /\ i \in 0..n /\ i - 1 \in Nat /\ i - 1 <= n /\ ~ (i <= i - 1)
      BY <1>1, <2>1, <2>3
    <3>2. i - 1 \notin Bad
      BY <2>1, <3>1
    <3>3. Keeps(g[i - 1], entries, top_n, i - 1)
      BY <3>1, <3>2
    <3>4. g[i] = NextList(entries, top_n, i, g[i - 1])
      BY <1>3, <2>3, <3>1
    <3>5. Keeps(g[i], entries, top_n, i)
      BY <3>1, <3>3, <3>4, NextListKeeps
    <3> QED
      BY <2>1, <3>5
  <2> QED
    BY <2>2, <2>3
<1>5. Keeps(g[n], entries, top_n, n)
  BY <1>1, <1>4
<1> QED
  BY <1>5, FilterIs DEF g

(***************************************************************************)
(* Discovery: pages, files and the seed.                                   *)
(***************************************************************************)

ListTypes ==
  /\ board \in Seq(Wallets) /\ seed \in Seq(Wallets)
  /\ args \in [top : Nat \ {0}, dry_run : BOOLEAN]
  /\ offset \in Nat
  /\ fetched \in Seq(Entry) /\ candidates \in Seq(Entry)
  /\ files \in [candidates : Seq(Entry) \cup {NoFile}, report : Seq(Entry) \cup {NoFile}]
  /\ runs \in Seq(Seq(Entry))

\* The pages so far are whole; at the end of the loop they reach as far as
\* they are asked to; on a board that stands still they are its first rows.
PagesInv ==
  /\ script = "fetch" =>
       /\ Len(fetched) = offset /\ offset <= Len(board) /\ offset <= MaxOffset
       /\ \E n \in Nat : offset = n * PAGE_SIZE
  /\ script = "filter" =>
       \A i \in 1..Len(board) :
         i <= args.top /\ i <= MaxOffset + PAGE_SIZE => i <= Len(fetched)
  /\ still =>
       \A i \in DOMAIN fetched : i \in 1..Len(board) /\ fetched[i].address = board[i]

\* What has been written where the run is.
WrittenInv ==
  /\ script \in {"candidates", "report", "insert"} => candidates # <<>> /\ ~args.dry_run
  /\ script \in {"report", "insert"} => files.candidates = candidates
  /\ script = "insert" => files.report = candidates
  /\ script = "off" /\ exit_code = 0 /\ ~args.dry_run =>
       /\ candidates # <<>>
       /\ files.candidates = candidates /\ files.report = candidates
       /\ runs # <<>> /\ Last(runs) = candidates

\* The seed does not change from the start of a run to its adoption.
SeedInv ==
  /\ NoWalletTwice
  /\ ~adopted => seed_addrs = ToSet(seed)

DiscoveryInv ==
  ListTypes /\ PagesInv /\ Fresh(candidates) /\ WrittenInv /\ SeedInv /\ NoneSkipped

\* Offsets are whole pages: the first one beyond the last is a page beyond it.
LEMMA PageBeyond ==
  ASSUME NEW a \in Nat, NEW b \in Nat, NEW p \in Nat \ {0}, a * p > b * p
  PROVE  a * p >= b * p + p
<1>1. ASSUME a <= b
      PROVE  FALSE
  <2>1. PICK d \in Nat : b = a + d
    <3>1. b - a \in Nat /\ b = a + (b - a)
      BY <1>1
    <3> QED
      BY <3>1
  <2>2. b * p = a * p + d * p /\ d * p >= 0 /\ a * p \in Int
    BY <2>1
  <2> QED
    BY <2>2
<1>2. PICK d \in Nat : a = b + 1 + d
  <2>1. a - b - 1 \in Nat /\ a = b + 1 + (a - b - 1)
    BY <1>1
  <2> QED
    BY <2>1
<1>3. a * p = b * p + p + d * p /\ d * p >= 0 /\ b * p \in Int
  BY <1>2
<1> QED
  BY <1>3

\* The next offset is the next whole page.
LEMMA NextOffset ==
  ASSUME NEW n \in Nat
  PROVE  n * PAGE_SIZE + PAGE_SIZE = (n + 1) * PAGE_SIZE
  BY DiscoveryAssumption

\* A page is the next rows of the board, as many as there are.
LEMMA PageIs ==
  ASSUME board \in Seq(Wallets), NEW from \in Nat, from <= Len(board)
  PROVE  LET n == IF from + PAGE_SIZE <= Len(board) THEN PAGE_SIZE ELSE Len(board) - from
         IN  /\ Page(from) \in Seq(Entry) /\ Len(Page(from)) = n
             /\ \A i \in 1..n : Page(from)[i].address = board[from + i]
<1> DEFINE n == IF from + PAGE_SIZE <= Len(board) THEN PAGE_SIZE ELSE Len(board) - from
           Rows == {k \in 1..PAGE_SIZE : from + k <= Len(board)}
<1>1. Len(board) \in Nat /\ PAGE_SIZE \in Nat /\ n \in Nat
  BY LenProperties, DiscoveryAssumption
<1>2. Rows = 1..n
  BY <1>1
<1>3. Page(from) = [i \in Rows |-> [rank |-> from + i, address |-> board[from + i]]]
  BY DEF Page
<1> HIDE DEF n, Rows
<1>4. Page(from) = [i \in 1..n |-> [rank |-> from + i, address |-> board[from + i]]]
  BY <1>2, <1>3
<1>5. ASSUME NEW i \in 1..n
      PROVE  [rank |-> from + i, address |-> board[from + i]] \in Entry
  <2>1. from + i \in 1..Len(board)
    BY <1>1, <1>2 DEF Rows
  <2>2. board[from + i] \in Wallets
    BY <2>1, ElementOfSeq
  <2> QED
    BY <2>1, <2>2, <1>1 DEF Entry
<1>6. Page(from) \in [1..n -> Entry]
  BY <1>4, <1>5
<1>7. Page(from) \in Seq(Entry) /\ Len(Page(from)) = n
  BY <1>1, <1>6
<1>8. \A i \in 1..n : Page(from)[i].address = board[from + i]
  BY <1>4
<1> QED
  BY <1>7, <1>8 DEF n

\* Every state at the start.
LEMMA DiscoveryStarts == DiscoveryInit => DiscoveryInv
<1> SUFFICES ASSUME DiscoveryInit
             PROVE  DiscoveryInv
  OBVIOUS
<1> USE DEF DiscoveryInit
<1>1. /\ \A S : <<>> \in Seq(S)
      /\ Len(<<>>) = 0 /\ DOMAIN <<>> = {}
  BY EmptySeq
<1>2. ListTypes
  BY <1>1, DiscoveryAssumption DEF ListTypes
<1>3. PagesInv
  BY <1>1 DEF PagesInv
<1>4. Fresh(candidates)
  BY <1>1 DEF Fresh
<1>5. WrittenInv
  BY DEF WrittenInv
<1>6. SeedInv
  BY <1>1 DEF SeedInv, NoWalletTwice
<1>7. NoneSkipped
  BY DEF NoneSkipped
<1> QED
  BY <1>2, <1>3, <1>4, <1>5, <1>6, <1>7 DEF DiscoveryInv

\* A run begins with an empty list, and knows the seed.
LEMMA StartKeeps == DiscoveryInv /\ Start => DiscoveryInv'
<1> SUFFICES ASSUME DiscoveryInv, Start
             PROVE  DiscoveryInv'
  OBVIOUS
<1> USE DEF Start, DiscoveryInv, Exit
<1>1. /\ \A S : <<>> \in Seq(S)
      /\ Len(<<>>) = 0 /\ DOMAIN <<>> = {}
  BY EmptySeq
<1>2. ListTypes'
  BY <1>1, DiscoveryAssumption DEF ListTypes, outputs
<1>3. PagesInv'
  <2>1. Len(board) \in Nat
    BY LenProperties DEF ListTypes
  <2>2. 0 = 0 * PAGE_SIZE
    BY DiscoveryAssumption
  <2> QED
    BY <1>1, <2>1, <2>2, DiscoveryAssumption DEF PagesInv
<1>4. Fresh(candidates)'
  BY <1>1 DEF Fresh
<1>5. WrittenInv'
  BY DEF WrittenInv
<1>6. SeedInv'
  BY DEF SeedInv, NoWalletTwice
<1>7. NoneSkipped'
  BY DEF NoneSkipped
<1> QED
  BY <1>2, <1>3, <1>4, <1>5, <1>6, <1>7

\* A page more.
LEMMA FetchPageKeeps == DiscoveryInv /\ FetchPage => DiscoveryInv'
<1> SUFFICES ASSUME DiscoveryInv, FetchPage
             PROVE  DiscoveryInv'
  OBVIOUS
<1> USE DEF DiscoveryInv
<1> DEFINE page == Page(offset)
           n == IF offset + PAGE_SIZE <= Len(board) THEN PAGE_SIZE ELSE Len(board) - offset
<1>1. /\ script = "fetch" /\ fetched' = fetched \o page /\ offset' = offset + PAGE_SIZE
      /\ script' = IF Len(page) = PAGE_SIZE /\ MorePages(fetched', offset')
                   THEN "fetch" ELSE "filter"
      /\ UNCHANGED <<args, seed_addrs, candidates, exit_code, board, seed, still, adopted,
                     files, runs>>
  BY DEF FetchPage, outside, outputs
<1>2. /\ Len(fetched) = offset /\ offset <= Len(board) /\ offset <= MaxOffset
      /\ \E k \in Nat : offset = k * PAGE_SIZE
      /\ offset \in Nat /\ Len(board) \in Nat /\ PAGE_SIZE \in Nat \ {0} /\ MaxOffset \in Nat
      /\ board \in Seq(Wallets) /\ fetched \in Seq(Entry) /\ args.top \in Nat
  BY <1>1, LenProperties, DiscoveryAssumption DEF PagesInv, ListTypes
<1>3. /\ page \in Seq(Entry) /\ Len(page) = n
      /\ \A i \in 1..n : page[i].address = board[offset + i]
  BY <1>2, PageIs
<1> HIDE DEF page
<1>4. /\ n \in Nat /\ offset + n <= Len(board) /\ n <= PAGE_SIZE
      /\ n # PAGE_SIZE => offset + n = Len(board)
  <2>1. \A a, l, p \in Nat :
          a <= l => LET k == IF a + p <= l THEN p ELSE l - a
                    IN  /\ k \in Nat /\ a + k <= l /\ k <= p
                        /\ k # p => a + k = l
    OBVIOUS
  <2>2. offset \in Nat /\ Len(board) \in Nat /\ PAGE_SIZE \in Nat /\ offset <= Len(board)
    BY <1>2
  <2> QED
    BY <2>1, <2>2
<1> HIDE DEF n
<1>5. /\ fetched' \in Seq(Entry) /\ Len(fetched') = offset + n
      /\ \A i \in 1..offset : fetched'[i] = fetched[i]
      /\ \A i \in 1..n : fetched'[offset + i] = page[i]
  <2>1. /\ fetched \o page \in Seq(Entry) /\ Len(fetched \o page) = Len(fetched) + Len(page)
        /\ \A i \in 1..(Len(fetched) + Len(page)) :
             (fetched \o page)[i] = IF i <= Len(fetched) THEN fetched[i]
                                    ELSE page[i - Len(fetched)]
    BY <1>2, <1>3, ConcatProperties
  <2>2. \A i \in 1..n : /\ offset + i \in 1..(offset + n) /\ ~ (offset + i <= offset)
                        /\ (offset + i) - offset = i
    BY <1>2, <1>4
  <2>3. \A i \in 1..offset : i \in 1..(offset + n) /\ i <= offset
    BY <1>2, <1>4
  <2> QED
    BY <1>1, <1>2, <1>3, <2>1, <2>2, <2>3
<1>6. ListTypes'
  BY <1>1, <1>2, <1>5 DEF ListTypes
<1>7. PagesInv'
  <2>1. ASSUME script' = "fetch"
        PROVE  /\ Len(fetched') = offset' /\ offset' <= Len(board') /\ offset' <= MaxOffset
               /\ \E k \in Nat : offset' = k * PAGE_SIZE
    <3>1. n = PAGE_SIZE /\ offset' <= MaxOffset
      BY <1>1, <1>3, <2>1 DEF MorePages
    <3>2. PICK k \in Nat : offset = k * PAGE_SIZE
      BY <1>2
    <3>3. offset' = (k + 1) * PAGE_SIZE /\ k + 1 \in Nat
      BY <1>1, <3>2, NextOffset
    <3> QED
      BY <1>1, <1>4, <1>5, <3>1, <3>3
  <2>2. ASSUME script' = "filter", NEW i \in 1..Len(board), i <= args.top,
               i <= MaxOffset + PAGE_SIZE
        PROVE  i <= Len(fetched')
    <3>1. n # PAGE_SIZE \/ Len(fetched') >= args.top \/ offset' > MaxOffset
      <4>1. Len(fetched') \in Nat /\ offset' \in Nat
        BY <1>1, <1>2, <1>4, <1>5
      <4> QED
        BY <1>1, <1>2, <1>3, <2>2, <4>1 DEF MorePages
    <3>2. CASE n # PAGE_SIZE
      BY <1>2, <1>4, <1>5, <3>2
    <3>3. CASE Len(fetched') >= args.top
      BY <1>2, <1>4, <1>5, <2>2, <3>3
    <3>4. CASE n = PAGE_SIZE /\ offset' > MaxOffset
      <4>1. PICK k \in Nat : offset = k * PAGE_SIZE
        BY <1>2
      <4>2. PICK m \in Nat : MaxOffset = m * PAGE_SIZE
        BY DiscoveryAssumption
      <4>3. offset' = (k + 1) * PAGE_SIZE /\ k + 1 \in Nat
        BY <1>1, <4>1, NextOffset
      <4>4. (k + 1) * PAGE_SIZE > m * PAGE_SIZE
        BY <3>4, <4>2, <4>3
      <4>5. offset' >= MaxOffset + PAGE_SIZE
        BY <1>2, <4>2, <4>3, <4>4, PageBeyond
      <4> QED
        BY <1>1, <1>2, <1>5, <2>2, <3>4, <4>5
    <3> QED
      BY <3>1, <3>2, <3>3, <3>4
  <2>3. ASSUME still, NEW i \in DOMAIN fetched'
        PROVE  i \in 1..Len(board) /\ fetched'[i].address = board[i]
    <3>1. i \in 1..(offset + n)
      BY <1>5, LenProperties
    <3>2. CASE i <= offset
      <4>1. i \in DOMAIN fetched /\ fetched'[i] = fetched[i]
        BY <1>2, <1>5, <3>1, <3>2, LenProperties
      <4> QED
        BY <2>3, <4>1 DEF PagesInv
    <3>3. CASE ~ (i <= offset)
      <4>1. i - offset \in 1..n /\ offset + (i - offset) = i
        BY <1>2, <1>4, <3>1, <3>3
      <4>2. fetched'[i] = page[i - offset]
        BY <1>5, <4>1
      <4> QED
        BY <1>2, <1>3, <1>4, <3>1, <4>1, <4>2
    <3> QED
      BY <3>2, <3>3
  <2> QED
    BY <1>1, <2>1, <2>2, <2>3 DEF PagesInv
<1>8. Fresh(candidates)'
  BY <1>1 DEF Fresh
<1>9. WrittenInv' /\ NoneSkipped'
  BY <1>1 DEF WrittenInv, NoneSkipped
<1>10. SeedInv'
  BY <1>1 DEF SeedInv, NoWalletTwice
<1> QED
  BY <1>6, <1>7, <1>8, <1>9, <1>10

\* The list of the run.
LEMMA FilterStepKeeps == DiscoveryInv /\ Filter => DiscoveryInv'
<1> SUFFICES ASSUME DiscoveryInv, Filter
             PROVE  DiscoveryInv'
  OBVIOUS
<1> USE DEF DiscoveryInv
<1> DEFINE list == FilterAndRank(fetched, args.top)
<1>1. /\ script = "filter" /\ candidates' = list
      /\ \/ script' = "off" /\ (exit_code' = 2 \/ args.dry_run)
         \/ script' = "candidates" /\ ~args.dry_run /\ candidates' # <<>>
      /\ UNCHANGED <<args, seed_addrs, offset, fetched, board, seed, still, adopted, files, runs>>
  BY DEF Filter, Exit, outside, outputs
<1>2. Keeps(list, fetched, args.top, Len(fetched))
  BY FilterKeeps DEF ListTypes
<1> HIDE DEF list
<1>3. ListTypes'
  BY <1>1, <1>2 DEF ListTypes, Keeps
<1>4. PagesInv'
  BY <1>1 DEF PagesInv
<1>5. Fresh(candidates)'
  BY <1>1, <1>2 DEF Keeps, Fresh
<1>6. WrittenInv'
  BY <1>1 DEF WrittenInv
<1>7. SeedInv'
  BY <1>1 DEF SeedInv, NoWalletTwice
<1>8. NoneSkipped'
  <2> SUFFICES ASSUME still, NEW i \in 1..Len(board), i <= args.top,
                      i <= MaxOffset + PAGE_SIZE
               PROVE  board[i] \in seed_addrs \cup LowVolume \cup Addresses(candidates')
    BY <1>1 DEF NoneSkipped, Addresses
  <2>1. i <= Len(fetched)
    BY <1>1 DEF PagesInv
  <2>2. i \in 1..Len(fetched) /\ i \in DOMAIN fetched
    BY <2>1, LenProperties DEF ListTypes
  <2>3. fetched[i].address = board[i]
    BY <2>2 DEF PagesInv
  <2>4. Excluded(fetched[i]) \/ fetched[i].address \in Addresses(list)
    BY <1>2, <2>2 DEF Keeps
  <2> QED
    BY <1>1, <2>3, <2>4 DEF Excluded
<1> QED
  BY <1>3, <1>4, <1>5, <1>6, <1>7, <1>8

\* What is written, and a failure at any point.
LEMMA WritesKeep ==
  DiscoveryInv /\ (FetchFails \/ WriteCandidates \/ WriteReport \/ InsertRun \/ RunFails)
    => DiscoveryInv'
<1> SUFFICES ASSUME DiscoveryInv,
                    FetchFails \/ WriteCandidates \/ WriteReport \/ InsertRun \/ RunFails
             PROVE  DiscoveryInv'
  OBVIOUS
<1> USE DEF DiscoveryInv
<1>1. /\ UNCHANGED <<args, seed_addrs, offset, fetched, candidates, board, seed, still, adopted>>
      /\ script # "off" /\ script' \notin {"fetch", "filter"}
  BY DEF FetchFails, WriteCandidates, WriteReport, InsertRun, RunFails, Exit, progress, outside
<1>2. files' \in [candidates : Seq(Entry) \cup {NoFile}, report : Seq(Entry) \cup {NoFile}]
  BY DEF FetchFails, WriteCandidates, WriteReport, InsertRun, RunFails, outputs, ListTypes
<1>3. runs' \in {runs, Append(runs, candidates)}
  BY DEF FetchFails, WriteCandidates, WriteReport, InsertRun, RunFails, outputs
<1>4. /\ Append(runs, candidates) \in Seq(Seq(Entry))
      /\ Append(runs, candidates) # <<>> /\ Last(Append(runs, candidates)) = candidates
  <2>1. runs \in Seq(Seq(Entry)) /\ candidates \in Seq(Entry)
    BY DEF ListTypes
  <2>2. /\ Append(runs, candidates) \in Seq(Seq(Entry))
        /\ Len(Append(runs, candidates)) = Len(runs) + 1
        /\ Append(runs, candidates)[Len(runs) + 1] = candidates
    BY <2>1, AppendProperties
  <2>3. Append(runs, candidates) # <<>>
    BY <2>1, AppendProperties
  <2> QED
    BY <2>2, <2>3 DEF Last
<1>5. ListTypes'
  BY <1>1, <1>2, <1>3, <1>4 DEF ListTypes
<1>6. PagesInv'
  BY <1>1 DEF PagesInv
<1>7. Fresh(candidates)'
  BY <1>1 DEF Fresh
<1>8. WrittenInv'
  <2>1. CASE FetchFails \/ RunFails
    BY <2>1 DEF FetchFails, RunFails, Exit, WrittenInv
  <2>2. CASE WriteCandidates
    BY <2>2 DEF WriteCandidates, progress, outside, WrittenInv, ListTypes
  <2>3. CASE WriteReport
    BY <2>3 DEF WriteReport, progress, outside, WrittenInv, ListTypes
  <2>4. CASE InsertRun
    BY <1>4, <2>4 DEF InsertRun, Exit, WrittenInv
  <2> QED
    BY <2>1, <2>2, <2>3, <2>4
<1>9. SeedInv'
  BY <1>1 DEF SeedInv, NoWalletTwice
<1>10. NoneSkipped'
  <2>1. script' # "off" => script \in {"candidates", "report"}
    BY DEF FetchFails, WriteCandidates, WriteReport, InsertRun, RunFails, Exit
  <2> QED
    BY <1>1, <2>1 DEF NoneSkipped, Addresses
<1> QED
  BY <1>5, <1>6, <1>7, <1>8, <1>9, <1>10

\* The board moves; it keeps its length.
LEMMA MoveKeeps == DiscoveryInv /\ Move => DiscoveryInv'
<1> SUFFICES ASSUME DiscoveryInv, Move
             PROVE  DiscoveryInv'
  OBVIOUS
<1> USE DEF DiscoveryInv
<1>1. /\ ~still'
      /\ UNCHANGED <<script, args, seed_addrs, offset, fetched, candidates, exit_code, seed,
                     adopted, files, runs>>
  BY DEF Move, progress, outputs
<1>2. board' \in Seq(Wallets) /\ Len(board') = Len(board)
  <2>1. PICK i \in 1..(Len(board) - 1) :
          board' = [board EXCEPT ![i] = board[i + 1], ![i + 1] = board[i]]
    BY DEF Move
  <2>2. board \in Seq(Wallets) /\ Len(board) \in Nat
    BY LenProperties DEF ListTypes
  <2>3. i \in 1..Len(board) /\ i + 1 \in 1..Len(board)
    BY <2>2
  <2>4. board[i] \in Wallets /\ board[i + 1] \in Wallets
    BY <2>2, <2>3, ElementOfSeq
  <2>5. board' \in [1..Len(board) -> Wallets]
    <3>1. board \in [1..Len(board) -> Wallets]
      BY <2>2, LenProperties
    <3> QED
      BY <2>1, <2>4, <3>1
  <2> QED
    BY <2>2, <2>5
<1>3. ListTypes'
  BY <1>1, <1>2 DEF ListTypes
<1>4. PagesInv'
  BY <1>1, <1>2 DEF PagesInv
<1>5. Fresh(candidates)'
  BY <1>1 DEF Fresh
<1>6. WrittenInv' /\ SeedInv' /\ NoneSkipped'
  BY <1>1 DEF WrittenInv, SeedInv, NoWalletTwice, NoneSkipped
<1> QED
  BY <1>3, <1>4, <1>5, <1>6

\* The operator copies wallets that the seed does not have, each one once.
LEMMA AdoptKeeps == DiscoveryInv /\ Adopt => DiscoveryInv'
<1> SUFFICES ASSUME DiscoveryInv, Adopt
             PROVE  DiscoveryInv'
  OBVIOUS
<1> USE DEF DiscoveryInv
<1>1. /\ script = "off" /\ exit_code = 0 /\ ~args.dry_run /\ ~adopted /\ adopted'
      /\ UNCHANGED <<script, args, seed_addrs, offset, fetched, candidates, exit_code, board,
                     still, files, runs>>
  BY DEF Adopt, progress, outputs
<1>2. files.candidates = candidates /\ seed_addrs = ToSet(seed)
  BY <1>1 DEF WrittenInv, SeedInv
<1>3. PICK n \in 0..Len(candidates) :
        \E chosen \in [1..n -> DOMAIN candidates] :
          /\ \A i, j \in 1..n : i < j => chosen[i] < chosen[j]
          /\ seed' = seed \o [i \in 1..n |-> candidates[chosen[i]].address]
  BY <1>2 DEF Adopt
<1>4. PICK chosen \in [1..n -> DOMAIN candidates] :
        /\ \A i, j \in 1..n : i < j => chosen[i] < chosen[j]
        /\ seed' = seed \o [i \in 1..n |-> candidates[chosen[i]].address]
  BY <1>3
<1> DEFINE new == [i \in 1..n |-> candidates[chosen[i]].address]
           m == Len(seed)
<1>5. /\ n \in Nat /\ m \in Nat /\ seed \in Seq(Wallets) /\ candidates \in Seq(Entry)
      /\ DOMAIN candidates = 1..Len(candidates) /\ Len(candidates) \in Nat
      /\ DOMAIN seed = 1..m
  BY LenProperties DEF ListTypes
<1>6. \A i \in 1..n : /\ chosen[i] \in DOMAIN candidates
                      /\ new[i] = candidates[chosen[i]].address
                      /\ new[i] \in Wallets
  <2>1. \A k \in DOMAIN candidates : candidates[k] \in Entry
    BY <1>5, ElementOfSeq
  <2>2. \A e \in Entry : e.address \in Wallets
    BY DEF Entry
  <2> QED
    BY <2>1, <2>2
<1>7. new \in Seq(Wallets) /\ Len(new) = n
  <2>1. new \in [1..n -> Wallets]
    BY <1>6
  <2> QED
    BY <1>5, <2>1
<1>8. seed' = seed \o new
  BY <1>4
<1> HIDE DEF new, m
<1>9. /\ seed' \in Seq(Wallets) /\ DOMAIN seed' = 1..(m + n)
      /\ \A i \in 1..m : seed'[i] = seed[i]
      /\ \A i \in 1..n : seed'[m + i] = new[i]
  <2>1. /\ seed \o new \in Seq(Wallets) /\ Len(seed \o new) = m + n
        /\ \A i \in 1..(m + n) : (seed \o new)[i] = IF i <= m THEN seed[i] ELSE new[i - m]
    BY <1>5, <1>7, ConcatProperties DEF m
  <2>2. \A i \in 1..n : i + m \in 1..(m + n) /\ m + i = i + m /\ ~ (m + i <= m) /\ (m + i) - m = i
    BY <1>5
  <2>3. \A i \in 1..m : i \in 1..(m + n) /\ i <= m
    BY <1>5
  <2> QED
    BY <1>8, <2>1, <2>2, <2>3, LenProperties
<1>10. \A i \in 1..n : new[i] \notin ToSet(seed)
  BY <1>2, <1>6 DEF Fresh
<1>11. \A i, j \in 1..n : i # j => new[i] # new[j]
  <2> SUFFICES ASSUME NEW i \in 1..n, NEW j \in 1..n, i # j
               PROVE  new[i] # new[j]
    OBVIOUS
  <2>1. chosen[i] # chosen[j]
    <3>1. i < j \/ j < i
      BY <1>5
    <3>2. chosen[i] < chosen[j] \/ chosen[j] < chosen[i]
      BY <1>4, <3>1
    <3>3. chosen[i] \in Nat /\ chosen[j] \in Nat
      BY <1>5, <1>6
    <3> QED
      BY <3>2, <3>3
  <2> QED
    BY <1>6, <2>1 DEF Fresh
<1>12. NoWalletTwice'
  <2> SUFFICES ASSUME NEW i \in 1..(m + n), NEW j \in 1..(m + n), i < j
               PROVE  seed'[i] # seed'[j]
    <3>1. \A i, j \in 1..(m + n) : i # j => i < j \/ j < i
      BY <1>5
    <3> QED
      BY <1>9, <3>1 DEF NoWalletTwice
  <2>1. CASE j <= m
    <3>1. i \in 1..m /\ j \in 1..m /\ i # j
      BY <1>5, <2>1
    <3>2. seed[i] # seed[j]
      BY <1>5, <3>1 DEF SeedInv, NoWalletTwice
    <3> QED
      BY <1>9, <3>1, <3>2
  <2>2. CASE i <= m /\ ~ (j <= m)
    <3>1. i \in 1..m /\ j - m \in 1..n /\ m + (j - m) = j
      BY <1>5, <2>2
    <3>2. seed[i] \in ToSet(seed)
      BY <1>5, <3>1 DEF ToSet
    <3>3. seed'[j] = new[j - m]
      BY <1>9, <3>1
    <3> QED
      BY <1>9, <1>10, <3>1, <3>2, <3>3
  <2>3. CASE ~ (i <= m)
    <3>1. /\ i - m \in 1..n /\ j - m \in 1..n /\ i - m # j - m
          /\ m + (i - m) = i /\ m + (j - m) = j
      BY <1>5, <2>3
    <3>2. seed'[i] = new[i - m] /\ seed'[j] = new[j - m]
      BY <1>9, <3>1
    <3> QED
      BY <1>11, <3>1, <3>2
  <2> QED
    BY <2>1, <2>2, <2>3
<1>13. ListTypes'
  BY <1>1, <1>9 DEF ListTypes
<1>14. Fresh(candidates)' /\ PagesInv'
  BY <1>1 DEF Fresh, PagesInv
<1>15. WrittenInv' /\ SeedInv' /\ NoneSkipped'
  BY <1>1, <1>12 DEF WrittenInv, SeedInv, NoneSkipped, Addresses
<1> QED
  BY <1>13, <1>14, <1>15

\* The script and the operator keep DiscoveryInv, for any board, limits and
\* number of runs.
LEMMA DiscoveryInvariant == DiscoverySpec => []DiscoveryInv
<1>1. DiscoveryInv /\ [DiscoveryNext]_discovery_vars => DiscoveryInv'
  <2> SUFFICES ASSUME DiscoveryInv, [DiscoveryNext]_discovery_vars
               PROVE  DiscoveryInv'
    OBVIOUS
  <2>1. CASE UNCHANGED discovery_vars
    <3>1. /\ UNCHANGED <<script, args, seed_addrs, offset, fetched, candidates, exit_code>>
          /\ UNCHANGED <<board, moves, seed, runs_done, still, adopted, files, runs>>
      BY <2>1 DEF discovery_vars, progress, outside, outputs
    <3>2. ListTypes' /\ PagesInv'
      BY <3>1 DEF DiscoveryInv, ListTypes, PagesInv
    <3>3. WrittenInv' /\ SeedInv'
      BY <3>1 DEF DiscoveryInv, WrittenInv, SeedInv, NoWalletTwice
    <3>4. Fresh(candidates)' /\ NoneSkipped'
      BY <3>1 DEF DiscoveryInv, Fresh, NoneSkipped, Addresses
    <3> QED
      BY <3>2, <3>3, <3>4 DEF DiscoveryInv
  <2> QED
    BY <2>1, StartKeeps, FetchPageKeeps, FilterStepKeeps, WritesKeep, MoveKeeps, AdoptKeeps
       DEF DiscoveryNext, Run
<1> QED
  BY <1>1, DiscoveryStarts, PTL DEF DiscoverySpec

\* However the board moves between the pages and the runs, no wallet comes
\* twice into the seed file.
THEOREM NoDuplicateWallets == DiscoverySpec => []NoWalletTwice
<1>1. DiscoveryInv => NoWalletTwice
  BY DEF DiscoveryInv, SeedInv
<1> QED
  BY <1>1, DiscoveryInvariant, PTL

\* A run that reports success has left the same candidates in both files and
\* in the database, wherever an earlier one was cut off.
THEOREM RunsAreComplete == DiscoverySpec => []SuccessIsComplete
<1>1. DiscoveryInv => SuccessIsComplete
  BY DEF DiscoveryInv, ListTypes, WrittenInv, SuccessIsComplete
<1> QED
  BY <1>1, DiscoveryInvariant, PTL

\* On a board that stands still, no wallet of the first --top is left out but
\* for the seed and its volume.
THEOREM NobodyIsSkipped == DiscoverySpec => []NoneSkipped
<1>1. DiscoveryInv => NoneSkipped
  BY DEF DiscoveryInv
<1> QED
  BY <1>1, DiscoveryInvariant, PTL
=============================================================================
