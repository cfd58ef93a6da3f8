------------------------------ MODULE FiniteSums ------------------------------
(***************************************************************************)
(* Sums over finite sets: what MapThenSumSet computes, whatever element it *)
(* chooses next.  Natural induction is used in its form for sets, that a   *)
(* set of numbers that is not empty has a least one; what Min and Max      *)
(* return follows from it.                                                 *)
(***************************************************************************)
EXTENDS Integers, FiniteSets, FiniteSetsExt, FiniteSetTheorems, WellFoundedInduction, TLAPS

\* A set of naturals with 0 and the successors of its elements is all of Nat.
LEMMA NatSetInduction ==
    ASSUME NEW T, 0 \in T, \A n \in Nat : n \in T => n + 1 \in T
    PROVE  Nat \subseteq T
<1> SUFFICES ASSUME Nat \ T # {} PROVE FALSE
  OBVIOUS
<1> DEFINE less == {ss \in Nat \X Nat : ss[1] < ss[2]}
<1>0. IsWellFoundedOn(less, Nat)
  BY NatLessThanWellFounded DEF OpToRel
<1>1. PICK n \in Nat \ T : \A m \in Nat \ T : <<m, n>> \notin less
  <2> HIDE DEF less
  <2> QED
    BY <1>0, WFMin
<1>2. n # 0 /\ n - 1 \in Nat
  BY <1>1
<1>3. n - 1 \in T
  <2>1. <<n - 1, n>> \in less
    BY <1>2
  <2> HIDE DEF less
  <2> QED
    BY <1>1, <1>2, <2>1
<1> QED
  BY <1>1, <1>2, <1>3

Pick(s) == CHOOSE x \in s : TRUE

\* g adds up w over the subsets of S.
Adds(g, w, S) ==
    \A s \in SUBSET S : g[s] = IF s = {} THEN 0 ELSE w[Pick(s)] + g[s \ {Pick(s)}]

SumsUp(g, w, S) ==
    g = [s \in SUBSET S |-> IF s = {} THEN 0 ELSE w[Pick(s)] + g[s \ {Pick(s)}]]

\* The sum of w over S.
SumOf(w, S) == MapThenSumSet(LAMBDA x : w[x], S)

LEMMA PickIsElement == ASSUME NEW s, s # {} PROVE Pick(s) \in s
BY DEF Pick

\* There is a function that adds up w.
LEMMA AddsExists ==
    ASSUME NEW S, IsFiniteSet(S), NEW w
    PROVE  \E g : SumsUp(g, w, S)
<1> DEFINE R(g, s) == IF s = {} THEN 0 ELSE w[Pick(s)] + g[s \ {Pick(s)}]
           Upto(n) == {s \in SUBSET S : Cardinality(s) <= n}
           T == {n \in Nat : \E g : \A s \in Upto(n) : g[s] = R(g, s)}
<1>1. \A s \in SUBSET S : IsFiniteSet(s) /\ Cardinality(s) \in Nat
  BY FS_Subset, FS_CardinalityType
<1>2. ASSUME NEW s \in SUBSET S, s # {}
      PROVE  s \ {Pick(s)} \in SUBSET S /\ Cardinality(s \ {Pick(s)}) = Cardinality(s) - 1
  BY <1>1, <1>2, PickIsElement, FS_RemoveElement
<1>3. 0 \in T
  <2>1. \A s \in Upto(0) : s = {}
    BY <1>1, FS_EmptySet
  <2>2. \A s \in Upto(0) : [x \in SUBSET S |-> 0][s] = R([x \in SUBSET S |-> 0], s)
    BY <2>1
  <2> QED
    BY <2>2
<1>4. ASSUME NEW n \in Nat, n \in T
      PROVE  n + 1 \in T
  <2>1. PICK g : \A s \in Upto(n) : g[s] = R(g, s)
    BY <1>4
  <2> DEFINE h == [s \in SUBSET S |-> IF Cardinality(s) <= n THEN g[s] ELSE R(g, s)]
  <2>2. ASSUME NEW s \in Upto(n + 1)
        PROVE  h[s] = R(h, s)
    <3>1. h[s] = R(g, s)
      BY <2>1
    <3>2. s # {} => h[s \ {Pick(s)}] = g[s \ {Pick(s)}]
      BY <1>1, <1>2, <2>2
    <3> HIDE DEF h
    <3> QED
      BY <3>1, <3>2
  <2> HIDE DEF h, R
  <2> QED
    BY <2>2
<1>5. Cardinality(S) \in T
  <2> HIDE DEF T
  <2> QED
    BY <1>1, <1>3, <1>4, NatSetInduction
<1>6. PICK g : \A s \in Upto(Cardinality(S)) : g[s] = R(g, s)
  BY <1>5
<1>7. Upto(Cardinality(S)) = SUBSET S
  BY FS_Subset, <1>1
<1> DEFINE h == [s \in SUBSET S |-> g[s]]
<1>8. ASSUME NEW s \in SUBSET S
      PROVE  h[s] = R(h, s)
  BY <1>2, <1>6, <1>7
<1>9. SumsUp(h, w, S)
  <2>1. h = [s \in SUBSET S |-> h[s]]
    OBVIOUS
  <2> HIDE DEF h
  <2> QED
    BY <2>1, <1>8 DEF SumsUp
<1> HIDE DEF h
<1> QED
  BY <1>9

\* MapThenSumSet is such a function.
LEMMA SumOfAdds ==
    ASSUME NEW S, IsFiniteSet(S), NEW w
    PROVE  \E g : Adds(g, w, S) /\ SumOf(w, S) = g[S]
<1> DEFINE g == CHOOSE f : SumsUp(f, w, S)
<1>1. SumsUp(g, w, S)
  BY AddsExists
<1>2. SumOf(w, S) = g[S]
  BY DEF SumOf, MapThenSumSet, MapThenFoldSet, Pick, SumsUp
<1>3. Adds(g, w, S)
  <2> HIDE DEF g
  <2> QED
    BY <1>1 DEF Adds, SumsUp
<1> QED
  BY <1>2, <1>3

\* Induction over the subsets of a finite set, one element at a time.
LEMMA SubsetInduction ==
    ASSUME NEW S, IsFiniteSet(S), NEW T, {} \in T,
           \A s \in SUBSET S : s # {} /\ (\A x \in s : s \ {x} \in T) => s \in T
    PROVE  \A s \in SUBSET S : s \in T
<1> DEFINE U == {n \in Nat : \A s \in SUBSET S : Cardinality(s) = n => s \in T}
<1>1. \A s \in SUBSET S : IsFiniteSet(s) /\ Cardinality(s) \in Nat
  BY FS_Subset, FS_CardinalityType
<1>2. 0 \in U
  BY <1>1, FS_EmptySet
<1>3. ASSUME NEW n \in Nat, n \in U
      PROVE  n + 1 \in U
  <2>1. ASSUME NEW s \in SUBSET S, Cardinality(s) = n + 1
        PROVE  s \in T
    <3>1. s # {}
      BY <1>1, <2>1, FS_EmptySet
    <3>2. \A x \in s : s \ {x} \in SUBSET S /\ Cardinality(s \ {x}) = n
      BY <1>1, <2>1, FS_RemoveElement
    <3> QED
      BY <1>3, <3>1, <3>2
  <2> QED
    BY <2>1
<1>4. Nat \subseteq U
  <2> HIDE DEF U
  <2> QED
    BY <1>2, <1>3, NatSetInduction
<1> QED
  BY <1>1, <1>4

\* Functions that add up w agree.
LEMMA AddsUnique ==
    ASSUME NEW S, IsFiniteSet(S), NEW R, S \subseteq R, NEW w, NEW g, NEW h,
           Adds(g, w, S), Adds(h, w, R)
    PROVE  g[S] = h[S]
<1> DEFINE T == {s \in SUBSET S : g[s] = h[s]}
<1>1. {} \in T
  BY DEF Adds
<1>2. ASSUME NEW s \in SUBSET S, s # {}, \A x \in s : s \ {x} \in T
      PROVE  s \in T
  BY <1>2, PickIsElement DEF Adds
<1>3. \A s \in SUBSET S : s \in T
  <2> HIDE DEF T
  <2> QED
    BY <1>1, <1>2, SubsetInduction
<1> QED
  BY <1>3

\* The empty sum.
LEMMA SumEmpty == ASSUME NEW w PROVE SumOf(w, {}) = 0
<1>1. PICK g : Adds(g, w, {}) /\ SumOf(w, {}) = g[{}]
  BY SumOfAdds, FS_EmptySet
<1> QED
  BY <1>1 DEF Adds

\* A sum takes the picked element first.
LEMMA SumPick ==
    ASSUME NEW S, IsFiniteSet(S), S # {}, NEW w
    PROVE  SumOf(w, S) = w[Pick(S)] + SumOf(w, S \ {Pick(S)})
<1> DEFINE R == S \ {Pick(S)}
<1>1. PICK g : Adds(g, w, S) /\ SumOf(w, S) = g[S]
  BY SumOfAdds
<1>2. IsFiniteSet(R)
  BY FS_RemoveElement
<1>3. PICK h : Adds(h, w, R) /\ SumOf(w, R) = h[R]
  BY <1>2, SumOfAdds
<1>4. h[R] = g[R]
  BY <1>1, <1>2, <1>3, AddsUnique
<1> QED
  BY <1>1, <1>3, <1>4 DEF Adds

\* A sum of integers is an integer.
LEMMA SumType ==
    ASSUME NEW S, IsFiniteSet(S), NEW w, \A x \in S : w[x] \in Int
    PROVE  SumOf(w, S) \in Int
<1> DEFINE T == {s \in SUBSET S : SumOf(w, s) \in Int}
<1>1. {} \in T
  BY SumEmpty
<1>2. ASSUME NEW s \in SUBSET S, s # {}, \A x \in s : s \ {x} \in T
      PROVE  s \in T
  <2>1. PICK y \in s : SumOf(w, s) = w[y] + SumOf(w, s \ {y})
    BY <1>2, PickIsElement, SumPick, FS_Subset
  <2>2. w[y] \in Int /\ SumOf(w, s \ {y}) \in Int
    BY <1>2
  <2> QED
    BY <2>1, <2>2
<1>3. \A s \in SUBSET S : s \in T
  <2> HIDE DEF T
  <2> QED
    BY <1>1, <1>2, SubsetInduction
<1> QED
  BY <1>3

\* A sum of naturals is a natural.
LEMMA SumNat ==
    ASSUME NEW S, IsFiniteSet(S), NEW w, \A x \in S : w[x] \in Nat
    PROVE  SumOf(w, S) \in Nat
<1> DEFINE T == {s \in SUBSET S : SumOf(w, s) \in Nat}
<1>1. {} \in T
  BY SumEmpty
<1>2. ASSUME NEW s \in SUBSET S, s # {}, \A x \in s : s \ {x} \in T
      PROVE  s \in T
  <2>1. PICK y \in s : SumOf(w, s) = w[y] + SumOf(w, s \ {y})
    BY <1>2, PickIsElement, SumPick, FS_Subset
  <2>2. w[y] \in Nat /\ SumOf(w, s \ {y}) \in Nat
    BY <1>2
  <2> QED
    BY <2>1, <2>2
<1>3. \A s \in SUBSET S : s \in T
  <2> HIDE DEF T
  <2> QED
    BY <1>1, <1>2, SubsetInduction
<1> QED
  BY <1>3

\* Any element may be taken first.
LEMMA SumRemove ==
    ASSUME NEW S, IsFiniteSet(S), NEW w, \A x \in S : w[x] \in Int, NEW y \in S
    PROVE  SumOf(w, S) = w[y] + SumOf(w, S \ {y})
<1> DEFINE T == {s \in SUBSET S : \A x \in s : SumOf(w, s) = w[x] + SumOf(w, s \ {x})}
<1>0. \A s \in SUBSET S : IsFiniteSet(s) /\ SumOf(w, s) \in Int
  BY FS_Subset, SumType
<1>1. {} \in T
  OBVIOUS
<1>2. ASSUME NEW s \in SUBSET S, s # {}, \A x \in s : s \ {x} \in T
      PROVE  s \in T
  <2>1. ASSUME NEW x \in s
        PROVE  SumOf(w, s) = w[x] + SumOf(w, s \ {x})
    <3>1. PICK p \in s : SumOf(w, s) = w[p] + SumOf(w, s \ {p})
      BY <1>0, <1>2, PickIsElement, SumPick, SMTT(30)
    <3>2. CASE x = p
      BY <3>1, <3>2
    <3>3. CASE x # p
      <4>1. SumOf(w, s \ {p}) = w[x] + SumOf(w, (s \ {p}) \ {x})
        BY <1>2, <3>1, <3>3
      <4>2. SumOf(w, s \ {x}) = w[p] + SumOf(w, (s \ {x}) \ {p})
        BY <1>2, <3>1, <3>3
      <4>3. (s \ {p}) \ {x} = (s \ {x}) \ {p}
        OBVIOUS
      <4>4. SumOf(w, (s \ {x}) \ {p}) \in Int /\ w[x] \in Int /\ w[p] \in Int
        BY <1>0
      <4>5. SumOf(w, (s \ {p}) \ {x}) = SumOf(w, (s \ {x}) \ {p})
        BY <4>3, Zenon
      <4> QED
        BY <3>1, <4>1, <4>2, <4>4, <4>5
    <3> QED
      BY <3>2, <3>3
  <2> QED
    BY <2>1
<1>3. \A s \in SUBSET S : s \in T
  <2> HIDE DEF T
  <2> QED
    BY <1>1, <1>2, SubsetInduction
<1> QED
  BY <1>3

\* A new element adds its value.
LEMMA SumAdd ==
    ASSUME NEW S, IsFiniteSet(S), NEW y, y \notin S, NEW w, \A x \in S \cup {y} : w[x] \in Int
    PROVE  SumOf(w, S \cup {y}) = SumOf(w, S) + w[y]
<1>1. IsFiniteSet(S \cup {y}) /\ (S \cup {y}) \ {y} = S
  BY FS_AddElement
<1>2. SumOf(w, S) \in Int
  BY SumType
<1> QED
  BY <1>1, <1>2, SumRemove

\* A sum depends on the values of its elements only.
LEMMA SumAgrees ==
    ASSUME NEW S, IsFiniteSet(S), NEW w, NEW v, \A x \in S : w[x] = v[x]
    PROVE  SumOf(w, S) = SumOf(v, S)
<1> DEFINE T == {s \in SUBSET S : SumOf(w, s) = SumOf(v, s)}
<1>1. {} \in T
  BY SumEmpty
<1>2. ASSUME NEW s \in SUBSET S, s # {}, \A x \in s : s \ {x} \in T
      PROVE  s \in T
  BY <1>2, PickIsElement, SumPick, FS_Subset
<1>3. \A s \in SUBSET S : s \in T
  <2> HIDE DEF T
  <2> QED
    BY <1>1, <1>2, SubsetInduction
<1> QED
  BY <1>3

\* A sum of which every term, d times, is within another's is itself, d times,
\* within the other.
LEMMA SumScaled ==
    ASSUME NEW S, IsFiniteSet(S), NEW w, NEW v, NEW d \in Int,
           \A x \in S : w[x] \in Int /\ v[x] \in Int /\ w[x] * d <= v[x]
    PROVE  SumOf(w, S) * d <= SumOf(v, S)
<1> DEFINE T == {s \in SUBSET S : SumOf(w, s) * d <= SumOf(v, s)}
<1>0. \A s \in SUBSET S : IsFiniteSet(s) /\ SumOf(w, s) \in Int /\ SumOf(v, s) \in Int
  BY FS_Subset, SumType
<1>1. {} \in T
  BY SumEmpty
<1>2. ASSUME NEW s \in SUBSET S, s # {}, \A x \in s : s \ {x} \in T
      PROVE  s \in T
  <2> DEFINE y == Pick(s)
             r == s \ {y}
  <2>1. y \in S /\ y \in s
    BY <1>2, PickIsElement
  <2>2. SumOf(w, s) = w[y] + SumOf(w, r) /\ SumOf(v, s) = v[y] + SumOf(v, r)
    BY <1>0, <1>2, SumPick
  <2>3. SumOf(w, r) * d <= SumOf(v, r)
    BY <1>2, <2>1
  <2>4. SumOf(w, r) \in Int /\ SumOf(v, r) \in Int
    BY <1>0
  <2> HIDE DEF y, r
  <2>5. (w[y] + SumOf(w, r)) * d = w[y] * d + SumOf(w, r) * d
    BY <2>1, <2>4
  <2>6. w[y] * d \in Int /\ SumOf(w, r) * d \in Int
    BY <2>1, <2>4
  <2>7. (w[y] + SumOf(w, r)) * d <= v[y] + SumOf(v, r)
    BY <2>1, <2>3, <2>4, <2>5, <2>6
  <2> QED
    BY <2>2, <2>7
<1>3. \A s \in SUBSET S : s \in T
  <2> HIDE DEF T
  <2> QED
    BY <1>1, <1>2, SubsetInduction
<1> QED
  BY <1>3

\* A sum of which every term is d times another's is itself d times the other.
LEMMA SumTimes ==
    ASSUME NEW S, IsFiniteSet(S), NEW w, NEW v, NEW d \in Int,
           \A x \in S : w[x] \in Int /\ v[x] \in Int /\ v[x] = w[x] * d
    PROVE  SumOf(v, S) = SumOf(w, S) * d
<1> DEFINE T == {s \in SUBSET S : SumOf(v, s) = SumOf(w, s) * d}
<1>0. \A s \in SUBSET S : IsFiniteSet(s) /\ SumOf(w, s) \in Int /\ SumOf(v, s) \in Int
  BY FS_Subset, SumType
<1>1. {} \in T
  BY SumEmpty
<1>2. ASSUME NEW s \in SUBSET S, s # {}, \A x \in s : s \ {x} \in T
      PROVE  s \in T
  <2> DEFINE y == Pick(s)
             r == s \ {y}
  <2>1. y \in S /\ y \in s
    BY <1>2, PickIsElement
  <2>2. SumOf(w, s) = w[y] + SumOf(w, r) /\ SumOf(v, s) = v[y] + SumOf(v, r)
    BY <1>0, <1>2, SumPick
  <2>3. SumOf(v, r) = SumOf(w, r) * d
    BY <1>2, <2>1
  <2>4. SumOf(w, r) \in Int
    BY <1>0
  <2> HIDE DEF y, r
  <2>5. (w[y] + SumOf(w, r)) * d = w[y] * d + SumOf(w, r) * d
    BY <2>1, <2>4
  <2> QED
    BY <2>1, <2>2, <2>3, <2>5
<1>3. \A s \in SUBSET S : s \in T
  <2> HIDE DEF T
  <2> QED
    BY <1>1, <1>2, SubsetInduction
<1> QED
  BY <1>3

\* Fewer terms, none of them negative, give no larger sum.
LEMMA SumSubset ==
    ASSUME NEW S, IsFiniteSet(S), NEW R \in SUBSET S, NEW w, \A x \in S : w[x] \in Nat
    PROVE  SumOf(w, R) <= SumOf(w, S)
<1> DEFINE T == {s \in SUBSET S : SumOf(w, s \cap R) <= SumOf(w, s)}
<1>0. \A s \in SUBSET S : IsFiniteSet(s) /\ SumOf(w, s) \in Int
  BY FS_Subset, SumType
<1>1. {} \in T
  <2>1. {} \cap R = {}
    OBVIOUS
  <2>2. SumOf(w, {} \cap R) = 0 /\ SumOf(w, {}) = 0
    BY <2>1, SumEmpty
  <2> QED
    BY <2>2
<1>2. ASSUME NEW s \in SUBSET S, s # {}, \A x \in s : s \ {x} \in T
      PROVE  s \in T
  <2> DEFINE y == Pick(s)
             r == s \ {y}
  <2>1. y \in S /\ y \in s /\ w[y] \in Nat
    BY <1>2, PickIsElement
  <2>2. SumOf(w, s) = w[y] + SumOf(w, r)
    BY <1>0, <1>2, SumPick
  <2>3. SumOf(w, r \cap R) <= SumOf(w, r)
    BY <1>2, <2>1
  <2>4. SumOf(w, r) \in Int /\ SumOf(w, r \cap R) \in Int /\ IsFiniteSet(r \cap R)
    BY <1>0
  <2> HIDE DEF y, r
  <2>5. CASE y \notin R
    <3>1. s \cap R = r \cap R
      BY <2>5 DEF r
    <3>2. SumOf(w, s \cap R) = SumOf(w, r \cap R)
      BY <3>1, Zenon
    <3> QED
      BY <2>1, <2>2, <2>3, <2>4, <3>2
  <2>6. CASE y \in R
    <3>1. s \cap R = (r \cap R) \cup {y} /\ y \notin r \cap R
      BY <2>1, <2>6 DEF r
    <3>2. SumOf(w, s \cap R) = SumOf(w, (r \cap R) \cup {y})
      BY <3>1, Zenon
    <3>3. \A x \in (r \cap R) \cup {y} : w[x] \in Int
      BY <2>1 DEF r
    <3>4. SumOf(w, (r \cap R) \cup {y}) = SumOf(w, r \cap R) + w[y]
      BY <2>4, <3>1, <3>3, SumAdd
    <3> QED
      BY <2>1, <2>2, <2>3, <2>4, <3>2, <3>4
  <2> QED
    BY <2>5, <2>6
<1>3. SumOf(w, S \cap R) <= SumOf(w, S)
  <2>1. \A s \in SUBSET S : s \in T
    <3> HIDE DEF T
    <3> QED
      BY <1>1, <1>2, SubsetInduction
  <2> QED
    BY <2>1
<1>4. S \cap R = R
  OBVIOUS
<1> QED
  BY <1>3, <1>4

\* What adds up w gives its sum.
LEMMA SumsUpToSum ==
    ASSUME NEW S, IsFiniteSet(S), NEW w, NEW g, SumsUp(g, w, S)
    PROVE  g[S] = SumOf(w, S)
<1>1. Adds(g, w, S)
  BY DEF Adds, SumsUp
<1>2. PICK h : Adds(h, w, S) /\ SumOf(w, S) = h[S]
  BY SumOfAdds
<1> QED
  BY <1>1, <1>2, AddsUnique

-----------------------------------------------------------------------------
(* The least and the greatest of a set.                                    *)

\* A set of natural numbers that is not empty has a least one.
LEMMA LeastOf ==
    ASSUME NEW S, S \subseteq Nat, S # {}
    PROVE  Min(S) \in S /\ \A x \in S : Min(S) <= x
<1>1. \E n \in S : \A m \in S : n <= m
  <2> DEFINE T == {n \in Nat : \A m \in 0..n : m \notin S}
  <2> SUFFICES ASSUME \A n \in S : \E m \in S : m < n
               PROVE  FALSE
    OBVIOUS
  <2>1. 0 \in T
    OBVIOUS
  <2>2. ASSUME NEW n \in Nat, n \in T PROVE n + 1 \in T
    <3>1. n + 1 \notin S
      <4> SUFFICES ASSUME n + 1 \in S PROVE FALSE
        OBVIOUS
      <4>1. PICK m \in S : m < n + 1
        OBVIOUS
      <4>2. m \in 0..n
        BY <4>1
      <4> QED
        BY <2>2, <4>2
    <3> QED
      BY <2>2, <3>1
  <2>3. Nat \subseteq T
    <3> HIDE DEF T
    <3> QED
      BY <2>1, <2>2, NatSetInduction
  <2>4. PICK n \in S : TRUE
    OBVIOUS
  <2>5. n \in T
    BY <2>3
  <2>6. n \in 0..n
    OBVIOUS
  <2> QED
    BY <2>4, <2>5, <2>6
<1> QED
  BY <1>1 DEF Min

\* The maximum of a set is the member no member exceeds.
LEMMA GreatestOf ==
    ASSUME NEW S, S \subseteq Int, NEW x \in S, \A y \in S : y <= x
    PROVE  Max(S) = x
<1>1. Max(S) \in S /\ \A y \in S : Max(S) >= y
  BY DEF Max
<1>2. Max(S) \in Int /\ x \in Int
  BY <1>1
<1>3. Max(S) >= x
  BY <1>1
<1>4. x >= Max(S)
  BY <1>1
<1> QED
  BY <1>2, <1>3, <1>4

\* The minimum of a set is the member that exceeds no member.
LEMMA LeastIs ==
    ASSUME NEW S, S \subseteq Int, NEW x \in S, \A y \in S : x <= y
    PROVE  Min(S) = x
<1>1. Min(S) \in S /\ \A y \in S : Min(S) <= y
  BY DEF Min
<1>2. Min(S) \in Int /\ x \in Int
  BY <1>1
<1>3. Min(S) <= x
  BY <1>1
<1>4. x <= Min(S)
  BY <1>1
<1> QED
  BY <1>2, <1>3, <1>4

\* A set of numbers up to n that is not empty has a greatest one.
LEMMA GreatestUpTo ==
    ASSUME NEW n \in Nat, NEW S, S \subseteq 0..n, S # {}
    PROVE  Max(S) \in S /\ \A y \in S : y <= Max(S)
<1> DEFINE R == {n - x : x \in S}
<1>1. R \subseteq Nat /\ R # {}
  <2>1. \A x \in S : n - x \in Nat
    OBVIOUS
  <2> QED
    BY <2>1
<1>2. PICK m \in R : \A r \in R : m <= r
  <2> HIDE DEF R
  <2> QED
    BY <1>1, LeastOf
<1>3. PICK x \in S : m = n - x
  OBVIOUS
<1>4. ASSUME NEW y \in S PROVE y <= x
  <2>1. n - y \in R
    OBVIOUS
  <2>2. m <= n - y
    BY <1>2, <2>1
  <2>3. n \in Int /\ x \in Int /\ y \in Int
    OBVIOUS
  <2> HIDE DEF R
  <2> QED
    BY <1>3, <2>2, <2>3
<1>5. S \subseteq Int
  OBVIOUS
<1>6. Max(S) = x
  BY <1>4, <1>5, GreatestOf
<1> QED
  BY <1>4, <1>6

===============================================================================
