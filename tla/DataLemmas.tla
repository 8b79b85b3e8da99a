----------------------------- MODULE DataLemmas -----------------------------
(***************************************************************************)
(* Facts about data that the proofs of several components need: sums over  *)
(* a finite set, as FiniteSetsExt computes them, queues, and functions     *)
(* that are defined by recursion.  They are proved by induction, of which  *)
(* this module has the set forms: a property is the set of what has it.    *)
(***************************************************************************)
EXTENDS Integers, Sequences, FiniteSets, FiniteSetsExt, SequencesExt,
        WellFoundedInduction, FiniteSetTheorems, TLAPS

LEMMA LeastNatural ==
    ASSUME NEW T \in SUBSET Nat, T # {}
    PROVE  \E n \in T : \A m \in T : n <= m
<1> DEFINE R == {ss \in Nat \X Nat : ss[1] < ss[2]}
<1>1. IsWellFoundedOn(R, Nat)
  BY NatLessThanWellFounded DEF OpToRel
<1>2. \A i, j \in Nat : i < j => <<i, j>> \in R
  OBVIOUS
<1> HIDE DEF R
<1>3. PICK n \in T : \A m \in T : ~(<<m, n>> \in R)
  BY <1>1, WFMin
<1>4. ASSUME NEW m \in T PROVE n <= m
  <2>1. n \in Nat /\ m \in Nat /\ <<m, n>> \notin R
    BY <1>3
  <2>2. ~(m < n)
    BY <1>2, <2>1
  <2>3. QED
    BY <2>1, <2>2
<1>5. QED
  BY <1>4

LEMMA NatSetInduction ==
    ASSUME NEW P, 0 \in P, \A n \in Nat : n \in P => n + 1 \in P
    PROVE  Nat \subseteq P
<1> SUFFICES ASSUME ~(Nat \subseteq P) PROVE FALSE
  OBVIOUS
<1>1. PICK n \in Nat \ P : \A m \in Nat \ P : n <= m
  BY LeastNatural
<1>2. n # 0 /\ n - 1 \in Nat
  BY <1>1
<1>3. n - 1 \in P
  BY <1>1, <1>2
<1>4. QED
  BY <1>1, <1>2, <1>3

LEMMA FiniteSetInduction ==
    ASSUME NEW S, IsFiniteSet(S), NEW P,
           \A T \in SUBSET S : (\A x \in T : T \ {x} \in P) => T \in P
    PROVE  S \in P
<1> DEFINE Q == {n \in Nat : \A T \in SUBSET S : Cardinality(T) = n => T \in P}
<1>0. \A T \in SUBSET S : IsFiniteSet(T) /\ Cardinality(T) \in Nat
  BY FS_Subset, FS_CardinalityType
<1>1. 0 \in Q
  BY <1>0, FS_EmptySet
<1>2. ASSUME NEW n \in Nat, n \in Q PROVE n + 1 \in Q
  <2> SUFFICES ASSUME NEW T \in SUBSET S, Cardinality(T) = n + 1 PROVE T \in P
    OBVIOUS
  <2>1. ASSUME NEW x \in T PROVE T \ {x} \in P
    <3>1. Cardinality(T \ {x}) = n
      BY <1>0, FS_RemoveElement
    <3>2. QED
      BY <1>2, <3>1
  <2>2. QED
    BY <2>1
<1> HIDE DEF Q
<1>3. Nat \subseteq Q
  BY <1>1, <1>2, NatSetInduction
<1>4. QED
  BY <1>0, <1>3 DEF Q

LEMMA AtMostOne ==
    ASSUME NEW S, IsFiniteSet(S), Cardinality(S) <= 1, NEW x \in S, NEW y \in S
    PROVE  x = y
<1> SUFFICES ASSUME x # y PROVE FALSE
  OBVIOUS
<1>1. Cardinality(S) \in Nat /\ IsFiniteSet(S \ {x}) /\ Cardinality(S \ {x}) \in Nat
  BY FS_CardinalityType, FS_RemoveElement
<1>2. Cardinality(S \ {x}) = Cardinality(S) - 1
  BY FS_RemoveElement
<1>3. Cardinality(S \ {x}) # 0
  BY <1>1, FS_EmptySet
<1>4. QED
  BY <1>1, <1>2, <1>3

-----------------------------------------------------------------------------
(* Sums. *)

Pick(s) == CHOOSE x \in s : TRUE

LEMMA PickIsMember == ASSUME NEW s, s # {} PROVE Pick(s) \in s
BY Zenon DEF Pick

SumOf(f, S) == MapThenSumSet(LAMBDA x : f[x], S)

(* The recursive equation of the fold on the sets of D. *)
IsSum(g, f, D) == g = [s \in D |-> IF s = {} THEN 0 ELSE f[Pick(s)] + g[s \ {Pick(s)}]]

LEMMA SumIsChosen ==
    ASSUME NEW f, NEW S
    PROVE  SumOf(f, S) = (CHOOSE g : IsSum(g, f, SUBSET S))[S]
BY Zenon DEF SumOf, MapThenSumSet, MapThenFoldSet, IsSum, Pick

LEMMA SumExists ==
    ASSUME NEW f, NEW S, IsFiniteSet(S)
    PROVE  \E g : IsSum(g, f, SUBSET S)
<1> DEFINE D(n) == {s \in SUBSET S : Cardinality(s) <= n}
           Q == {n \in Nat : \E g : IsSum(g, f, D(n))}
<1>0. \A T \in SUBSET S : IsFiniteSet(T) /\ Cardinality(T) \in Nat
  BY FS_Subset, FS_CardinalityType
<1>1. 0 \in Q
  <2> DEFINE g == [s \in D(0) |-> 0]
  <2>1. \A s \in D(0) : s = {}
    BY <1>0, FS_EmptySet
  <2>2. IsSum(g, f, D(0))
    BY <2>1 DEF IsSum
  <2>3. QED
    BY <2>2
<1>2. ASSUME NEW n \in Nat, n \in Q PROVE n + 1 \in Q
  <2>1. PICK g : IsSum(g, f, D(n))
    BY <1>2
  <2> DEFINE h == [s \in D(n + 1) |-> IF s = {} THEN 0 ELSE f[Pick(s)] + g[s \ {Pick(s)}]]
  <2>2. \A s \in D(n) : s \in D(n + 1) /\ h[s] = g[s]
    <3>1. \A s \in D(n) : s \in D(n + 1)
      BY <1>0
    <3> HIDE DEF D
    <3>2. QED
      BY <2>1, <3>1 DEF IsSum
  <2>3. \A s \in D(n + 1) : s # {} => s \ {Pick(s)} \in D(n)
    BY <1>0, PickIsMember, FS_RemoveElement
  <2> HIDE DEF D
  <2>4. \A s \in D(n + 1) : h[s] = IF s = {} THEN 0 ELSE f[Pick(s)] + h[s \ {Pick(s)}]
    BY <2>2, <2>3
  <2>5. h = [s \in D(n + 1) |-> IF s = {} THEN 0 ELSE f[Pick(s)] + h[s \ {Pick(s)}]]
    BY <2>4
  <2>6. IsSum(h, f, D(n + 1))
    BY <2>5 DEF IsSum
  <2>7. QED
    BY <2>6
<1>3. Nat \subseteq Q
  <2> HIDE DEF Q
  <2>1. QED
    BY <1>1, <1>2, NatSetInduction
<1>4. D(Cardinality(S)) = SUBSET S
  BY FS_Subset
<1>5. QED
  BY <1>0, <1>3, <1>4

LEMMA SumIsUnique ==
    ASSUME NEW f, NEW S, IsFiniteSet(S), NEW R \in SUBSET S,
           NEW g, NEW h, IsSum(g, f, SUBSET S), IsSum(h, f, SUBSET R)
    PROVE  g[R] = h[R]
<1> DEFINE P == {T \in SUBSET R : g[T] = h[T]}
<1>0. SUBSET R \subseteq SUBSET S /\ IsFiniteSet(R)
  BY FS_Subset
<1>1. ASSUME NEW T \in SUBSET R, \A x \in T : T \ {x} \in P PROVE T \in P
  <2>1. CASE T = {}
    BY <1>0, <2>1 DEF IsSum
  <2>2. CASE T # {}
    <3>1. Pick(T) \in T
      BY <2>2, PickIsMember
    <3>2. g[T \ {Pick(T)}] = h[T \ {Pick(T)}]
      BY <1>1, <3>1
    <3>3. g[T] = f[Pick(T)] + g[T \ {Pick(T)}]
      BY <1>0, <2>2 DEF IsSum
    <3>4. h[T] = f[Pick(T)] + h[T \ {Pick(T)}]
      BY <2>2 DEF IsSum
    <3>5. QED
      BY <3>2, <3>3, <3>4
  <2>3. QED
    BY <2>1, <2>2
<1> HIDE DEF P
<1>2. R \in P
  BY <1>0, <1>1, FiniteSetInduction
<1>3. QED
  BY <1>2 DEF P

LEMMA SumSatisfies ==
    ASSUME NEW f, NEW S, IsFiniteSet(S), NEW R \in SUBSET S,
           NEW g, IsSum(g, f, SUBSET S)
    PROVE  SumOf(f, R) = g[R]
<1>1. IsFiniteSet(R)
  BY FS_Subset
<1>2. ASSUME NEW h, IsSum(h, f, SUBSET R) PROVE g[R] = h[R]
  BY <1>2, SumIsUnique
<1>3. PICK h : IsSum(h, f, SUBSET R) /\ h = CHOOSE k : IsSum(k, f, SUBSET R)
  BY <1>1, SumExists, Zenon
<1>4. SumOf(f, R) = h[R]
  BY <1>3, SumIsChosen
<1>5. QED
  BY <1>2, <1>3, <1>4

LEMMA SumOfNothing == ASSUME NEW f PROVE SumOf(f, {}) = 0
<1>1. IsFiniteSet({})
  BY FS_EmptySet
<1>2. PICK g : IsSum(g, f, SUBSET {})
  BY <1>1, SumExists
<1>3. g[{}] = 0
  BY <1>2 DEF IsSum
<1>4. {} \in SUBSET {}
  OBVIOUS
<1>5. SumOf(f, {}) = g[{}]
  BY <1>1, <1>2, <1>4, SumSatisfies, ZenonT(30)
<1>6. QED
  BY <1>3, <1>5

LEMMA SumOfPicked ==
    ASSUME NEW f, NEW S, IsFiniteSet(S), S # {}
    PROVE  SumOf(f, S) = f[Pick(S)] + SumOf(f, S \ {Pick(S)})
<1>1. PICK g : IsSum(g, f, SUBSET S)
  BY SumExists
<1>2. g[S] = f[Pick(S)] + g[S \ {Pick(S)}]
  BY <1>1 DEF IsSum
<1>3. SumOf(f, S) = g[S] /\ SumOf(f, S \ {Pick(S)}) = g[S \ {Pick(S)}]
  BY <1>1, SumSatisfies
<1>4. QED
  BY <1>2, <1>3

LEMMA SumIsNatural ==
    ASSUME NEW S, IsFiniteSet(S), NEW f, \A x \in S : f[x] \in Nat
    PROVE  SumOf(f, S) \in Nat
<1> DEFINE P == {T \in SUBSET S : SumOf(f, T) \in Nat}
<1>1. ASSUME NEW T \in SUBSET S, \A x \in T : T \ {x} \in P PROVE T \in P
  <2>1. CASE T = {}
    BY <2>1, SumOfNothing
  <2>2. CASE T # {}
    <3>1. Pick(T) \in T
      BY <2>2, PickIsMember
    <3>2. SumOf(f, T \ {Pick(T)}) \in Nat
      BY <1>1, <3>1
    <3>3. SumOf(f, T) = f[Pick(T)] + SumOf(f, T \ {Pick(T)})
      BY <2>2, SumOfPicked, FS_Subset
    <3>4. QED
      BY <3>1, <3>2, <3>3
  <2>3. QED
    BY <2>1, <2>2
<1> HIDE DEF P
<1>2. S \in P
  BY <1>1, FiniteSetInduction
<1>3. QED
  BY <1>2 DEF P

(* A sum does not depend on the order of its terms. *)
LEMMA SumOfRemoved ==
    ASSUME NEW S, IsFiniteSet(S), NEW f, \A x \in S : f[x] \in Nat, NEW x \in S
    PROVE  SumOf(f, S) = f[x] + SumOf(f, S \ {x})
<1> DEFINE P == {T \in SUBSET S : \A y \in T : SumOf(f, T) = f[y] + SumOf(f, T \ {y})}
<1>0. \A T \in SUBSET S : IsFiniteSet(T) /\ SumOf(f, T) \in Nat
  BY FS_Subset, SumIsNatural
<1>1. ASSUME NEW T \in SUBSET S, \A y \in T : T \ {y} \in P PROVE T \in P
  <2> SUFFICES ASSUME NEW y \in T PROVE SumOf(f, T) = f[y] + SumOf(f, T \ {y})
    OBVIOUS
  <2> DEFINE p == Pick(T)
  <2>1. p \in T
    BY PickIsMember
  <2>2. SumOf(f, T) = f[p] + SumOf(f, T \ {p})
    BY <1>0, SumOfPicked
  <2> HIDE DEF p
  <2>3. CASE y = p
    BY <2>2, <2>3
  <2>4. CASE y # p
    <3>1. SumOf(f, T \ {p}) = f[y] + SumOf(f, (T \ {p}) \ {y})
      BY <1>1, <2>1, <2>4
    <3>2. SumOf(f, T \ {y}) = f[p] + SumOf(f, (T \ {y}) \ {p})
      BY <1>1, <2>1, <2>4
    <3>3. (T \ {y}) \ {p} = (T \ {p}) \ {y}
      OBVIOUS
    <3>4. SumOf(f, (T \ {p}) \ {y}) \in Nat /\ f[y] \in Nat /\ f[p] \in Nat
      BY <1>0, <2>1
    <3>5. QED
      BY <2>2, <3>1, <3>2, <3>3, <3>4
  <2>5. QED
    BY <2>3, <2>4
<1> HIDE DEF P
<1>2. S \in P
  BY <1>1, FiniteSetInduction
<1>3. QED
  BY <1>2 DEF P

LEMMA SumOfEquals ==
    ASSUME NEW S, IsFiniteSet(S), NEW f, NEW g, \A x \in S : f[x] = g[x]
    PROVE  SumOf(f, S) = SumOf(g, S)
<1> DEFINE P == {T \in SUBSET S : SumOf(f, T) = SumOf(g, T)}
<1>1. ASSUME NEW T \in SUBSET S, \A x \in T : T \ {x} \in P PROVE T \in P
  <2>1. CASE T = {}
    BY <2>1, SumOfNothing
  <2>2. CASE T # {}
    <3>1. Pick(T) \in T
      BY <2>2, PickIsMember
    <3>2. SumOf(f, T \ {Pick(T)}) = SumOf(g, T \ {Pick(T)})
      BY <1>1, <3>1
    <3>3. /\ SumOf(f, T) = f[Pick(T)] + SumOf(f, T \ {Pick(T)})
          /\ SumOf(g, T) = g[Pick(T)] + SumOf(g, T \ {Pick(T)})
      BY <2>2, SumOfPicked, FS_Subset
    <3>4. QED
      BY <3>1, <3>2, <3>3
  <2>3. QED
    BY <2>1, <2>2
<1> HIDE DEF P
<1>2. S \in P
  BY <1>1, FiniteSetInduction
<1>3. QED
  BY <1>2 DEF P

(* What changing one term changes. *)
LEMMA SumOfChanged ==
    ASSUME NEW S, IsFiniteSet(S), NEW x \in S,
           NEW f, \A y \in S : f[y] \in Nat,
           NEW g, \A y \in S : g[y] \in Nat,
           \A y \in S \ {x} : g[y] = f[y]
    PROVE  /\ SumOf(f, S) \in Nat /\ SumOf(g, S) \in Nat
           /\ SumOf(g, S) + f[x] = SumOf(f, S) + g[x]
<1>1. IsFiniteSet(S \ {x})
  BY FS_Subset
<1>2. SumOf(g, S \ {x}) = SumOf(f, S \ {x})
  BY <1>1, SumOfEquals
<1>3. SumOf(f, S) = f[x] + SumOf(f, S \ {x}) /\ SumOf(g, S) = g[x] + SumOf(g, S \ {x})
  BY SumOfRemoved
<1>4. SumOf(f, S \ {x}) \in Nat
  BY <1>1, SumIsNatural
<1>5. QED
  BY <1>2, <1>3, <1>4, SumIsNatural

LEMMA SumOfZeros ==
    ASSUME NEW S, IsFiniteSet(S), NEW f, \A x \in S : f[x] = 0
    PROVE  SumOf(f, S) = 0
<1> DEFINE P == {T \in SUBSET S : SumOf(f, T) = 0}
<1>1. ASSUME NEW T \in SUBSET S, \A x \in T : T \ {x} \in P PROVE T \in P
  <2>1. CASE T = {}
    BY <2>1, SumOfNothing
  <2>2. CASE T # {}
    <3>1. Pick(T) \in T
      BY <2>2, PickIsMember
    <3>2. SumOf(f, T \ {Pick(T)}) = 0
      BY <1>1, <3>1
    <3>3. SumOf(f, T) = f[Pick(T)] + SumOf(f, T \ {Pick(T)})
      BY <2>2, SumOfPicked, FS_Subset
    <3>4. QED
      BY <3>1, <3>2, <3>3
  <2>3. QED
    BY <2>1, <2>2
<1> HIDE DEF P
<1>2. S \in P
  BY <1>1, FiniteSetInduction
<1>3. QED
  BY <1>2 DEF P

LEMMA SumOfSingle ==
    ASSUME NEW S, IsFiniteSet(S), NEW f, \A x \in S : f[x] \in Nat,
           NEW x \in S, \A y \in S \ {x} : f[y] = 0
    PROVE  SumOf(f, S) = f[x]
<1>1. IsFiniteSet(S \ {x})
  BY FS_Subset
<1>2. SumOf(f, S \ {x}) = 0
  BY <1>1, SumOfZeros
<1>3. SumOf(f, S) = f[x] + SumOf(f, S \ {x})
  BY SumOfRemoved
<1>4. QED
  BY <1>2, <1>3

LEMMA SumBoundsTerms ==
    ASSUME NEW S, IsFiniteSet(S), NEW f, \A x \in S : f[x] \in Nat
    PROVE  /\ \A x \in S : f[x] <= SumOf(f, S)
           /\ \A x, y \in S : x # y => f[x] + f[y] <= SumOf(f, S)
<1>0. \A T \in SUBSET S : IsFiniteSet(T) /\ SumOf(f, T) \in Nat
  BY FS_Subset, SumIsNatural
<1>1. ASSUME NEW x \in S PROVE SumOf(f, S) = f[x] + SumOf(f, S \ {x})
  BY SumOfRemoved
<1>2. ASSUME NEW x \in S PROVE f[x] <= SumOf(f, S)
  <2>1. SumOf(f, S \ {x}) \in Nat /\ f[x] \in Nat
    BY <1>0
  <2>2. QED
    BY <1>1, <2>1
<1>3. ASSUME NEW x \in S, NEW y \in S, x # y PROVE f[x] + f[y] <= SumOf(f, S)
  <2>1. SumOf(f, S \ {x}) = f[y] + SumOf(f, (S \ {x}) \ {y})
    BY <1>0, <1>3, SumOfRemoved
  <2>2. f[x] \in Nat /\ f[y] \in Nat /\ SumOf(f, (S \ {x}) \ {y}) \in Nat
    BY <1>0
  <2>3. QED
    BY <1>1, <2>1, <2>2
<1>4. QED
  BY <1>2, <1>3

(* Terms of at least one count their members. *)
LEMMA SumCounts ==
    ASSUME NEW S, IsFiniteSet(S), NEW f, \A x \in S : f[x] \in Nat \ {0}
    PROVE  Cardinality(S) <= SumOf(f, S)
<1> DEFINE P == {T \in SUBSET S : Cardinality(T) <= SumOf(f, T)}
<1>0. \A T \in SUBSET S : /\ IsFiniteSet(T) /\ SumOf(f, T) \in Nat
                          /\ Cardinality(T) \in Nat
  BY FS_Subset, SumIsNatural, FS_CardinalityType
<1>1. ASSUME NEW T \in SUBSET S, \A x \in T : T \ {x} \in P PROVE T \in P
  <2>1. CASE T = {}
    BY <2>1, SumOfNothing, FS_EmptySet
  <2>2. CASE T # {}
    <3>1. Pick(T) \in T
      BY <2>2, PickIsMember
    <3>2. Cardinality(T \ {Pick(T)}) <= SumOf(f, T \ {Pick(T)})
      BY <1>1, <3>1
    <3>3. SumOf(f, T) = f[Pick(T)] + SumOf(f, T \ {Pick(T)})
      BY <1>0, <2>2, SumOfPicked
    <3>4. Cardinality(T \ {Pick(T)}) = Cardinality(T) - 1
      BY <1>0, <3>1, FS_RemoveElement
    <3>5. f[Pick(T)] \in Nat \ {0} /\ T \ {Pick(T)} \in SUBSET S
      BY <3>1
    <3>6. QED
      BY <1>0, <3>2, <3>3, <3>4, <3>5
  <2>3. QED
    BY <2>1, <2>2
<1> HIDE DEF P
<1>2. S \in P
  BY <1>1, FiniteSetInduction
<1>3. QED
  BY <1>2 DEF P

(* A part of a sum of naturals is at most the whole. *)
LEMMA SumOfPart ==
    ASSUME NEW S, IsFiniteSet(S), NEW f, \A x \in S : f[x] \in Nat, NEW R \in SUBSET S
    PROVE  SumOf(f, R) <= SumOf(f, S)
<1> DEFINE P == {T \in SUBSET S : SumOf(f, R \cap T) <= SumOf(f, T)}
<1>0. \A T \in SUBSET S : IsFiniteSet(T) /\ SumOf(f, T) \in Nat
  BY FS_Subset, SumIsNatural
<1>1. ASSUME NEW T \in SUBSET S, \A x \in T : T \ {x} \in P PROVE T \in P
  <2>1. CASE T = {}
    BY <2>1, SumOfNothing
  <2>2. CASE T # {}
    <3>1. PICK x \in T : TRUE
      BY <2>2
    <3>2. SumOf(f, R \cap (T \ {x})) <= SumOf(f, T \ {x})
      BY <1>1
    <3>3. SumOf(f, T) = f[x] + SumOf(f, T \ {x})
      BY <1>0, SumOfRemoved
    <3>4. /\ SumOf(f, R \cap (T \ {x})) \in Nat /\ SumOf(f, T \ {x}) \in Nat
          /\ f[x] \in Nat
      BY <1>0
    <3>5. CASE x \in R
      <4>1. x \in R \cap T /\ (R \cap T) \ {x} = R \cap (T \ {x})
        BY <3>5
      <4>2. SumOf(f, R \cap T) = f[x] + SumOf(f, R \cap (T \ {x}))
        BY <1>0, <4>1, SumOfRemoved
      <4>3. QED
        BY <3>2, <3>3, <3>4, <4>2
    <3>6. CASE x \notin R
      <4>1. R \cap T = R \cap (T \ {x})
        BY <3>6
      <4>2. SumOf(f, R \cap T) = SumOf(f, R \cap (T \ {x}))
        BY <4>1
      <4>3. QED
        BY <3>2, <3>3, <3>4, <4>2
    <3>7. QED
      BY <3>5, <3>6
  <2>3. QED
    BY <2>1, <2>2
<1> HIDE DEF P
<1>2. S \in P
  BY <1>1, FiniteSetInduction
<1>3. R \cap S = R
  OBVIOUS
<1>4. QED
  BY <1>2, <1>3 DEF P

-----------------------------------------------------------------------------
(* Sequences: what they hold, and what they hold once. *)

(* Each member of U is in the sequence at most once. *)
Once(s, U) == \A i, j \in DOMAIN s : s[i] = s[j] /\ s[i] \in U => i = j

LEMMA EmptySequence ==
    ASSUME NEW U
    PROVE  ToSet(<<>>) = {} /\ Once(<<>>, U)
BY DEF ToSet, Once

LEMMA ElementsIn ==
    ASSUME NEW S, NEW s \in Seq(S)
    PROVE  ToSet(s) \subseteq S
BY DEF ToSet

LEMMA AppendElements ==
    ASSUME NEW S, NEW s \in Seq(S), NEW e \in S
    PROVE  /\ Append(s, e) \in Seq(S)
           /\ ToSet(Append(s, e)) = ToSet(s) \cup {e}
<1>1. Append(s, e) \in Seq(S) /\ DOMAIN Append(s, e) = DOMAIN s \cup {Len(s) + 1}
  OBVIOUS
<1>2. /\ \A i \in DOMAIN s : Append(s, e)[i] = s[i]
      /\ Append(s, e)[Len(s) + 1] = e
  OBVIOUS
<1>3. QED
  BY <1>1, <1>2 DEF ToSet

LEMMA AppendOnce ==
    ASSUME NEW S, NEW s \in Seq(S), NEW e \in S, NEW U, Once(s, U), e \in U => e \notin ToSet(s)
    PROVE  Once(Append(s, e), U)
BY DEF ToSet, Once

LEMMA TailElements ==
    ASSUME NEW S, NEW s \in Seq(S), s # <<>>
    PROVE  /\ Head(s) \in S /\ Head(s) \in ToSet(s)
           /\ Tail(s) \in Seq(S)
           /\ ToSet(s) = ToSet(Tail(s)) \cup {Head(s)}
<1>1. Head(s) \in S /\ Tail(s) \in Seq(S) /\ Head(s) = s[1] /\ 1 \in DOMAIN s
  OBVIOUS
<1>2. \A i \in DOMAIN Tail(s) : i + 1 \in DOMAIN s /\ Tail(s)[i] = s[i + 1]
  OBVIOUS
<1>3. \A i \in DOMAIN s : i = 1 \/ (i - 1 \in DOMAIN Tail(s) /\ s[i] = Tail(s)[i - 1])
  OBVIOUS
<1>4. ASSUME NEW x \in ToSet(s) PROVE x \in ToSet(Tail(s)) \cup {Head(s)}
  BY <1>1, <1>3, <1>4, ZenonT(60) DEF ToSet
<1>5. ASSUME NEW x \in ToSet(Tail(s)) PROVE x \in ToSet(s)
  BY <1>2, <1>5, Zenon DEF ToSet
<1>6. Head(s) \in ToSet(s)
  BY <1>1, Zenon DEF ToSet
<1>7. QED
  BY <1>1, <1>4, <1>5, <1>6

LEMMA TailOnce ==
    ASSUME NEW S, NEW s \in Seq(S), s # <<>>, NEW U, Once(s, U)
    PROVE  /\ Once(Tail(s), U)
           /\ Head(s) \in U => Head(s) \notin ToSet(Tail(s))
<1>1. Head(s) = s[1] /\ 1 \in DOMAIN s
  OBVIOUS
<1>2. \A i \in DOMAIN Tail(s) : i \in Nat /\ i >= 1 /\ i + 1 \in DOMAIN s /\ Tail(s)[i] = s[i + 1]
  OBVIOUS
<1>3. Once(Tail(s), U)
  <2> SUFFICES ASSUME NEW i \in DOMAIN Tail(s), NEW j \in DOMAIN Tail(s),
                      Tail(s)[i] = Tail(s)[j], Tail(s)[i] \in U
               PROVE  i = j
    BY DEF Once
  <2>1. i + 1 = j + 1
    BY <1>2 DEF Once
  <2>2. QED
    BY <1>2, <2>1
<1>4. ASSUME Head(s) \in U, Head(s) \in ToSet(Tail(s)) PROVE FALSE
  <2>1. PICK i \in DOMAIN Tail(s) : Tail(s)[i] = Head(s)
    BY <1>4 DEF ToSet
  <2>2. i + 1 = 1
    BY <1>1, <1>2, <1>4, <2>1 DEF Once
  <2>3. QED
    BY <1>2, <2>2
<1>5. QED
  BY <1>3, <1>4

LEMMA ConcatIs ==
    ASSUME NEW S, NEW s \in Seq(S), NEW t \in Seq(S)
    PROVE  /\ s \o t \in Seq(S)
           /\ DOMAIN (s \o t) = 1 .. Len(s) + Len(t)
           /\ DOMAIN s = 1 .. Len(s) /\ DOMAIN t = 1 .. Len(t)
           /\ Len(s) \in Nat /\ Len(t) \in Nat
           /\ \A i \in 1 .. Len(s) + Len(t) :
                 (s \o t)[i] = IF i <= Len(s) THEN s[i] ELSE t[i - Len(s)]
OBVIOUS

LEMMA ConcatElements ==
    ASSUME NEW S, NEW s \in Seq(S), NEW t \in Seq(S)
    PROVE  /\ s \o t \in Seq(S)
           /\ ToSet(s \o t) = ToSet(s) \cup ToSet(t)
<1>1. s \o t \in Seq(S)
  OBVIOUS
<1>2. \A i \in DOMAIN (s \o t) :
         \/ i \in DOMAIN s /\ (s \o t)[i] = s[i]
         \/ i - Len(s) \in DOMAIN t /\ (s \o t)[i] = t[i - Len(s)]
  BY ConcatIs
<1>3. /\ \A i \in DOMAIN s : i \in DOMAIN (s \o t) /\ (s \o t)[i] = s[i]
      /\ \A i \in DOMAIN t : i + Len(s) \in DOMAIN (s \o t) /\ (s \o t)[i + Len(s)] = t[i]
  BY ConcatIs
<1>4. ASSUME NEW x \in ToSet(s \o t) PROVE x \in ToSet(s) \cup ToSet(t)
  BY <1>2, <1>4, Zenon DEF ToSet
<1>5. ASSUME NEW x \in ToSet(s) \cup ToSet(t) PROVE x \in ToSet(s \o t)
  BY <1>3, <1>5, Zenon DEF ToSet
<1>6. QED
  BY <1>1, <1>4, <1>5

LEMMA ConcatOnce ==
    ASSUME NEW S, NEW s \in Seq(S), NEW t \in Seq(S), NEW U, Once(s, U), Once(t, U),
           ToSet(s) \cap ToSet(t) \cap U = {}
    PROVE  Once(s \o t, U)
<1> SUFFICES ASSUME NEW i \in DOMAIN (s \o t), NEW j \in DOMAIN (s \o t),
                    (s \o t)[i] = (s \o t)[j], (s \o t)[i] \in U
             PROVE  i = j
  BY DEF Once
<1>1. \A k \in DOMAIN (s \o t) :
         \/ k \in DOMAIN s /\ (s \o t)[k] = s[k]
         \/ k - Len(s) \in DOMAIN t /\ (s \o t)[k] = t[k - Len(s)]
  BY ConcatIs
<1>2. CASE i \in DOMAIN s /\ (s \o t)[i] = s[i]
  <2>1. CASE j \in DOMAIN s /\ (s \o t)[j] = s[j]
    BY <1>2, <2>1 DEF Once
  <2>2. CASE j - Len(s) \in DOMAIN t /\ (s \o t)[j] = t[j - Len(s)]
    BY <1>2, <2>2 DEF ToSet
  <2>3. QED
    BY <1>1, <2>1, <2>2
<1>3. CASE i - Len(s) \in DOMAIN t /\ (s \o t)[i] = t[i - Len(s)]
  <2>1. CASE j \in DOMAIN s /\ (s \o t)[j] = s[j]
    BY <1>3, <2>1 DEF ToSet
  <2>2. CASE j - Len(s) \in DOMAIN t /\ (s \o t)[j] = t[j - Len(s)]
    <3>1. i - Len(s) = j - Len(s)
      BY <1>3, <2>2 DEF Once
    <3>2. i \in Nat /\ j \in Nat /\ Len(s) \in Nat
      OBVIOUS
    <3>3. QED
      BY <3>1, <3>2
  <2>3. QED
    BY <1>1, <2>1, <2>2
<1>4. QED
  BY <1>1, <1>2, <1>3

LEMMA SplitElements ==
    ASSUME NEW S, NEW s \in Seq(S), NEW n \in 0 .. Len(s)
    PROVE  /\ SubSeq(s, 1, n) \in Seq(S) /\ Len(SubSeq(s, 1, n)) = n
           /\ SubSeq(s, n + 1, Len(s)) \in Seq(S)
           /\ Len(SubSeq(s, n + 1, Len(s))) = Len(s) - n
           /\ ToSet(s) = ToSet(SubSeq(s, 1, n)) \cup ToSet(SubSeq(s, n + 1, Len(s)))
<1> DEFINE a == SubSeq(s, 1, n)
           b == SubSeq(s, n + 1, Len(s))
<1>1. a \in Seq(S) /\ Len(a) = n /\ b \in Seq(S) /\ Len(b) = Len(s) - n
  OBVIOUS
<1>2. \A i \in DOMAIN a : i \in DOMAIN s /\ a[i] = s[i]
  OBVIOUS
<1>3. \A i \in DOMAIN b : i + n \in DOMAIN s /\ b[i] = s[i + n]
  OBVIOUS
<1>4. \A i \in DOMAIN s : \/ i \in DOMAIN a /\ s[i] = a[i]
                          \/ i - n \in DOMAIN b /\ s[i] = b[i - n]
  OBVIOUS
<1> HIDE DEF a, b
<1>5. ASSUME NEW x \in ToSet(s) PROVE x \in ToSet(a) \cup ToSet(b)
  BY <1>4, <1>5, Zenon DEF ToSet
<1>6. ASSUME NEW x \in ToSet(a) \cup ToSet(b) PROVE x \in ToSet(s)
  BY <1>2, <1>3, <1>6, ZenonT(60) DEF ToSet
<1>7. QED
  BY <1>1, <1>5, <1>6 DEF a, b

LEMMA SplitOnce ==
    ASSUME NEW S, NEW s \in Seq(S), NEW n \in 0 .. Len(s), NEW U, Once(s, U)
    PROVE  /\ Once(SubSeq(s, n + 1, Len(s)), U)
           /\ ToSet(SubSeq(s, 1, n)) \cap ToSet(SubSeq(s, n + 1, Len(s))) \cap U = {}
<1> DEFINE a == SubSeq(s, 1, n)
           b == SubSeq(s, n + 1, Len(s))
<1>1. \A i \in DOMAIN a : i \in DOMAIN s /\ i <= n /\ a[i] = s[i]
  OBVIOUS
<1>2. \A i \in DOMAIN b : i \in Nat /\ i >= 1 /\ i + n \in DOMAIN s /\ b[i] = s[i + n]
  OBVIOUS
<1> HIDE DEF a, b
<1>3. Once(b, U)
  <2> SUFFICES ASSUME NEW i \in DOMAIN b, NEW j \in DOMAIN b, b[i] = b[j], b[i] \in U
               PROVE  i = j
    BY DEF Once
  <2>1. i + n = j + n
    BY <1>2 DEF Once
  <2>2. QED
    BY <1>2, <2>1
<1>4. ASSUME NEW x \in U, x \in ToSet(a), x \in ToSet(b) PROVE FALSE
  <2>1. PICK i \in DOMAIN a : a[i] = x
    BY <1>4 DEF ToSet
  <2>2. PICK j \in DOMAIN b : b[j] = x
    BY <1>4 DEF ToSet
  <2>3. i = j + n
    BY <1>1, <1>2, <2>1, <2>2 DEF Once
  <2>4. QED
    BY <1>1, <1>2, <2>3
<1>5. QED
  BY <1>3, <1>4 DEF a, b

LEMMA ElementsAreFew ==
    ASSUME NEW S, NEW s \in Seq(S)
    PROVE  IsFiniteSet(ToSet(s)) /\ Cardinality(ToSet(s)) <= Len(s)
<1>1. IsFiniteSet(1 .. Len(s)) /\ Cardinality(1 .. Len(s)) = Len(s)
  <2>1. PICK n \in Nat : n = Len(s)
    OBVIOUS
  <2>2. IsFiniteSet(1 .. n) /\ Cardinality(1 .. n) = IF 1 > n THEN 0 ELSE n - 1 + 1
    BY FS_Interval
  <2>3. QED
    BY <2>1, <2>2
<1>2. s \in Surjection(1 .. Len(s), ToSet(s))
  <2>1. s \in [1 .. Len(s) -> ToSet(s)]
    BY DEF ToSet
  <2>2. \A x \in ToSet(s) : \E i \in 1 .. Len(s) : s[i] = x
    BY DEF ToSet
  <2>3. QED
    BY <2>1, <2>2 DEF Surjection
<1>3. QED
  BY <1>1, <1>2, FS_Surjection

(* A recursion along 0 .. n that starts at base and goes on by the steps F. *)
StepFunctions(n, X) == [1 .. n -> [X -> X]]
Solutions(n, X, base, F) ==
    {g \in [0 .. n -> X] : g[0] = base /\ \A i \in 1 .. n : g[i] = F[i][g[i - 1]]}

LEMMA RecursionExists ==
    ASSUME NEW n \in Nat, NEW X, NEW base \in X, NEW F \in StepFunctions(n, X)
    PROVE  Solutions(n, X, base, F) # {}
<1> USE DEF StepFunctions, Solutions
<1> DEFINE Solves(g, m) == g[0] = base /\ \A i \in 1 .. m : g[i] = F[i][g[i - 1]]
           P == {m \in Nat : m <= n => \E g \in [0 .. m -> X] : Solves(g, m)}
<1>1. 0 \in P
  <2>1. [i \in 0 .. 0 |-> base] \in [0 .. 0 -> X] /\ Solves([i \in 0 .. 0 |-> base], 0)
    OBVIOUS
  <2>2. QED
    BY <2>1
<1>2. ASSUME NEW m \in P PROVE m + 1 \in P
  <2>0. m + 1 \in Nat
    OBVIOUS
  <2> SUFFICES ASSUME m + 1 <= n PROVE \E g \in [0 .. m + 1 -> X] : Solves(g, m + 1)
    BY <2>0, Zenon
  <2>1. PICK g \in [0 .. m -> X] : Solves(g, m)
    BY <1>2
  <2> DEFINE h == [i \in 0 .. m + 1 |-> IF i = m + 1 THEN F[m + 1][g[m]] ELSE g[i]]
  <2>2. m \in Nat /\ m + 1 \in 1 .. n /\ g[m] \in X
    OBVIOUS
  <2>3. F[m + 1] \in [X -> X]
    BY <2>2
  <2>4. h \in [0 .. m + 1 -> X]
    BY <2>2, <2>3
  <2>5. h[0] = base
    BY <2>1, <2>2
  <2>6. ASSUME NEW i \in 1 .. m + 1 PROVE h[i] = F[i][h[i - 1]]
    <3>1. CASE i = m + 1
      BY <2>2, <3>1
    <3>2. CASE i # m + 1
      <4>1. i \in 1 .. m /\ i - 1 \in 0 .. m /\ i - 1 # m + 1 /\ i \in 0 .. m + 1
            /\ i - 1 \in 0 .. m + 1
        BY <2>2, <3>2
      <4>2. h[i] = g[i] /\ h[i - 1] = g[i - 1]
        BY <3>2, <4>1
      <4>3. QED
        BY <2>1, <4>1, <4>2
    <3>3. QED
      BY <3>1, <3>2
  <2> HIDE DEF h
  <2>7. Solves(h, m + 1)
    BY <2>5, <2>6
  <2>8. QED
    BY <2>4, <2>7
<1> HIDE DEF P
<1>3. n \in P
  BY <1>1, <1>2, NatSetInduction
<1>4. QED
  BY <1>3 DEF P

-----------------------------------------------------------------------------
(* The counter of a fixed width. *)
LEMMA DivisionTheorem ==
    ASSUME NEW a \in Nat, NEW m \in Nat \ {0}
    PROVE  /\ a \div m \in Nat /\ a % m \in 0 .. m - 1
           /\ a = m * (a \div m) + (a % m)
OBVIOUS

LEMMA RemainderIsUnique ==
    ASSUME NEW m \in Nat \ {0}, NEW j \in Int, NEW k \in Int,
           NEW r \in 0 .. m - 1, NEW s \in 0 .. m - 1, m * j + r = m * k + s
    PROVE  r = s
OBVIOUS

LEMMA ModOfMultiple ==
    ASSUME NEW a \in Nat, NEW k \in Nat, NEW m \in Nat \ {0}
    PROVE  (a + m * k) % m = a % m
<1> DEFINE b == a + m * k
<1>1. b \in Nat
  OBVIOUS
<1> HIDE DEF b
<1>2. b = m * (b \div m) + (b % m) /\ b % m \in 0 .. m - 1 /\ b \div m \in Int
  BY <1>1, DivisionTheorem
<1>3. a = m * (a \div m) + (a % m) /\ a % m \in 0 .. m - 1 /\ a \div m \in Int
  BY DivisionTheorem
<1>4. PICK p \in Int, q \in Int : p = b \div m /\ q = a \div m
  BY <1>2, <1>3
<1>5. PICK r \in 0 .. m - 1, s \in 0 .. m - 1 : r = b % m /\ s = a % m
  BY <1>2, <1>3
<1>6. m * p + r = m * (q + k) + s
  BY <1>2, <1>3, <1>4, <1>5 DEF b
<1>7. r = s
  BY <1>6, RemainderIsUnique
<1>8. QED
  BY <1>5, <1>7 DEF b
=============================================================================
