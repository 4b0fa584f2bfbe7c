------------------------ MODULE SumsAndLists_proofs -------------------------
(***************************************************************************)
(* Lemmas about sums of functions over finite sets and filtered lists.     *)
(***************************************************************************)
EXTENDS Functions, Lists, FiniteSetTheorems, TLAPS

(***************************************************************************)
(* Induction, stated for sets of numbers.                                  *)
(***************************************************************************)

(* Every nonempty set of naturals has a least element.                     *)
LEMMA LeastNatural ==
  ASSUME NEW T \in SUBSET Nat, T # {}
  PROVE  \E n \in T : \A m \in T : n <= m
<1> DEFINE R == OpToRel(<, Nat)
<1>1. IsWellFoundedOn(R, Nat)
  BY NatLessThanWellFounded
<1>2. PICK n \in T : \A m \in T : ~ (<<m, n>> \in R)
  <2> HIDE DEF R
  <2> QED
    BY <1>1, WFMin
<1>3. \A m \in T : ~ (m < n)
  BY <1>2 DEF OpToRel
<1> QED
  BY <1>3

(* A set of naturals with 0 and, with n, n + 1 has them all.               *)
LEMMA AllNaturals ==
  ASSUME NEW T \in SUBSET Nat, 0 \in T, \A n \in T : n + 1 \in T
  PROVE  T = Nat
<1> SUFFICES ASSUME Nat \ T # {} PROVE FALSE
  OBVIOUS
<1>1. PICK n \in Nat \ T : \A m \in Nat \ T : n <= m
  BY LeastNatural
<1>2. n # 0 /\ n - 1 \in Nat
  BY <1>1
<1>3. n - 1 \in T
  BY <1>1, <1>2
<1>4. (n - 1) + 1 \in T
  BY <1>3
<1> QED
  BY <1>1, <1>4

-----------------------------------------------------------------------------
First(s) == CHOOSE x \in s : TRUE

(* g holds the sums of f over the sets of D.                               *)
Step(g, f, s) == IF s = {} THEN 0 ELSE f[First(s)] + g[s \ {First(s)}]

ArePartialSums(g, f, D) == g = [s \in D |-> Step(g, f, s)]

AreSumsWithin(g, f, S) == ArePartialSums(g, f, SUBSET S)

LEMMA SumIsChosen ==
  ASSUME NEW f, NEW S
  PROVE  SumFunctionOnSet(f, S) = (CHOOSE g : AreSumsWithin(g, f, S))[S]
BY Zenon
   DEF SumFunctionOnSet, FoldFunctionOnSet, MapThenFoldSet, AreSumsWithin, ArePartialSums,
              Step, First

LEMMA FirstIn == ASSUME NEW s, s # {} PROVE First(s) \in s
BY DEF First

LEMMA SmallerWithout ==
  ASSUME NEW s, IsFiniteSet(s), NEW x \in s
  PROVE  /\ IsFiniteSet(s \ {x})
         /\ Cardinality(s \ {x}) = Cardinality(s) - 1
         /\ Cardinality(s) \in Nat /\ Cardinality(s \ {x}) \in Nat
BY FS_RemoveElement, FS_CardinalityType

(* The partial sums over a finite set exist.                               *)
LEMMA PartialSumsExist ==
  ASSUME NEW f, NEW S, IsFiniteSet(S)
  PROVE  \E g : AreSumsWithin(g, f, S)
<1> DEFINE UpTo(n) == {s \in SUBSET S : Cardinality(s) <= n}
           T == {n \in Nat : \E g : ArePartialSums(g, f, UpTo(n))}
<1>0. \A s \in SUBSET S : IsFiniteSet(s) /\ Cardinality(s) \in Nat
  BY FS_Subset, FS_CardinalityType
<1>1. 0 \in T
  <2> DEFINE g == [s \in UpTo(0) |-> 0]
  <2>1. \A s \in UpTo(0) : s = {}
    BY <1>0, FS_EmptySet
  <2>2. g = [s \in UpTo(0) |-> Step(g, f, s)]
    BY <2>1 DEF Step
  <2>3. ArePartialSums(g, f, UpTo(0))
    BY <2>2 DEF ArePartialSums
  <2> QED
    BY <2>3
<1>2. ASSUME NEW n \in T PROVE n + 1 \in T
  <2>1. PICK g : ArePartialSums(g, f, UpTo(n))
    BY <1>2
  <2> DEFINE h == [s \in UpTo(n + 1) |-> Step(g, f, s)]
  <2>2. ASSUME NEW s \in UpTo(n + 1), s # {}
        PROVE  h[s \ {First(s)}] = g[s \ {First(s)}]
    <3> DEFINE r == s \ {First(s)}
    <3>1. First(s) \in s
      BY <2>2, FirstIn
    <3>2. Cardinality(r) = Cardinality(s) - 1 /\ Cardinality(r) \in Nat
      BY <3>1, <1>0, SmallerWithout
    <3>3. r \in UpTo(n) /\ r \in UpTo(n + 1)
      BY <1>0, <3>2
    <3> HIDE DEF r, UpTo
    <3>4. g[r] = Step(g, f, r)
      BY <2>1, <3>3 DEF ArePartialSums
    <3>5. h[r] = Step(g, f, r)
      BY <3>3
    <3> QED
      BY <3>4, <3>5 DEF r
  <2>3. ASSUME NEW s \in UpTo(n + 1) PROVE Step(g, f, s) = Step(h, f, s)
    <3> HIDE DEF h, UpTo
    <3> QED
      BY <2>2 DEF Step
  <2>4. h = [s \in UpTo(n + 1) |-> Step(h, f, s)]
    <3>1. h = [s \in UpTo(n + 1) |-> Step(g, f, s)]
      OBVIOUS
    <3> HIDE DEF h, UpTo
    <3> QED
      BY <2>3, <3>1
  <2>5. ArePartialSums(h, f, UpTo(n + 1))
    BY <2>4 DEF ArePartialSums
  <2>6. \E q : ArePartialSums(q, f, UpTo(n + 1))
    <3> HIDE DEF UpTo, h
    <3> QED
      BY <2>5
  <2>7. n + 1 \in Nat
    OBVIOUS
  <2> HIDE DEF UpTo
  <2> QED
    BY <2>6, <2>7, Zenon
<1>3. T = Nat
  <2> HIDE DEF T
  <2>1. T \in SUBSET Nat
    BY DEF T
  <2> QED
    BY <1>1, <1>2, <2>1, AllNaturals
<1>4. PICK g : ArePartialSums(g, f, UpTo(Cardinality(S)))
  <2>1. Cardinality(S) \in Nat
    BY <1>0
  <2> QED
    BY <1>3, <2>1
<1>5. UpTo(Cardinality(S)) = SUBSET S
  BY FS_Subset
<1> QED
  BY <1>4, <1>5 DEF AreSumsWithin

(* ... and are what the sum is taken from: partial sums of one function    *)
(* agree wherever both are defined.                                        *)
LEMMA PartialSumsAgree ==
  ASSUME NEW f, NEW S, NEW R, NEW g, NEW h, IsFiniteSet(S), R \subseteq S,
         AreSumsWithin(g, f, S), AreSumsWithin(h, f, R)
  PROVE  \A s \in SUBSET R : g[s] = h[s]
<1> DEFINE T == {n \in Nat : \A s \in SUBSET R : Cardinality(s) = n => g[s] = h[s]}
<1>0. \A s \in SUBSET R : IsFiniteSet(s) /\ Cardinality(s) \in Nat
  BY FS_Subset, FS_CardinalityType
<1>1. ASSUME NEW s \in SUBSET R PROVE g[s] = Step(g, f, s) /\ h[s] = Step(h, f, s)
  BY DEF AreSumsWithin, ArePartialSums
<1>2. 0 \in T
  <2> SUFFICES ASSUME NEW s \in SUBSET R, Cardinality(s) = 0 PROVE g[s] = h[s]
    OBVIOUS
  <2>1. s = {}
    BY <1>0, FS_EmptySet
  <2> QED
    BY <2>1, <1>1 DEF Step
<1>3. ASSUME NEW n \in T PROVE n + 1 \in T
  <2> SUFFICES ASSUME NEW s \in SUBSET R, Cardinality(s) = n + 1 PROVE g[s] = h[s]
    OBVIOUS
  <2>1. s # {}
    BY <1>0, FS_EmptySet
  <2>2. First(s) \in s
    BY <2>1, FirstIn
  <2>3. Cardinality(s \ {First(s)}) = n
    BY <2>2, <1>0, SmallerWithout
  <2>4. g[s \ {First(s)}] = h[s \ {First(s)}]
    BY <2>3
  <2> QED
    BY <2>1, <2>4, <1>1 DEF Step
<1>4. T = Nat
  <2> HIDE DEF T
  <2>1. T \in SUBSET Nat
    BY DEF T
  <2> QED
    BY <1>2, <1>3, <2>1, AllNaturals
<1> QED
  BY <1>0, <1>4

LEMMA SumsArePartialSums ==
  ASSUME NEW f, NEW S, IsFiniteSet(S), NEW g, AreSumsWithin(g, f, S)
  PROVE  \A s \in SUBSET S : SumFunctionOnSet(f, s) = g[s]
<1> SUFFICES ASSUME NEW s \in SUBSET S PROVE SumFunctionOnSet(f, s) = g[s]
  OBVIOUS
<1>1. IsFiniteSet(s)
  BY FS_Subset
<1>2. PICK h : AreSumsWithin(h, f, s) /\ SumFunctionOnSet(f, s) = h[s]
  <2> DEFINE h == CHOOSE q : AreSumsWithin(q, f, s)
  <2>1. \E q : AreSumsWithin(q, f, s)
    BY <1>1, PartialSumsExist
  <2>2. AreSumsWithin(h, f, s)
    BY <2>1
  <2>3. SumFunctionOnSet(f, s) = h[s]
    BY SumIsChosen
  <2> HIDE DEF h
  <2> QED
    BY <2>2, <2>3
<1>3. g[s] = h[s]
  BY <1>2, s \subseteq S, PartialSumsAgree
<1> QED
  BY <1>2, <1>3

(* Taking out the first element.                                           *)
LEMMA SumFirst ==
  ASSUME NEW f, NEW S, IsFiniteSet(S), S # {}
  PROVE  SumFunctionOnSet(f, S)
           = f[First(S)] + SumFunctionOnSet(f, S \ {First(S)})
<1>1. PICK g : AreSumsWithin(g, f, S)
  BY PartialSumsExist
<1>2. \A s \in SUBSET S : SumFunctionOnSet(f, s) = g[s]
  BY <1>1, SumsArePartialSums
<1>3. g[S] = Step(g, f, S)
  BY <1>1 DEF AreSumsWithin, ArePartialSums
<1>4. S \in SUBSET S /\ S \ {First(S)} \in SUBSET S
  OBVIOUS
<1> QED
  BY <1>2, <1>3, <1>4 DEF Step

(* The sum over no elements is 0.                                          *)
LEMMA SumEmpty == ASSUME NEW f PROVE SumFunctionOnSet(f, {}) = 0
<1> DEFINE S == {}
<1>0. IsFiniteSet(S)
  BY FS_EmptySet
<1> HIDE DEF S
<1>1. PICK g : AreSumsWithin(g, f, S)
  BY <1>0, PartialSumsExist
<1> USE DEF S
<1>2. SumFunctionOnSet(f, {}) = g[{}]
  <2>1. \A s \in SUBSET S : SumFunctionOnSet(f, s) = g[s]
    <3> HIDE DEF S
    <3> QED
      BY <1>0, <1>1, SumsArePartialSums
  <2> QED
    BY <2>1
<1>3. g[{}] = Step(g, f, {})
  BY <1>1 DEF AreSumsWithin, ArePartialSums
<1> QED
  BY <1>2, <1>3 DEF Step

(* A sum of integers is an integer, and any element can be taken out first.*)
LEMMA SumTakeOut ==
  ASSUME NEW S, IsFiniteSet(S), NEW f, \A x \in S : f[x] \in Int
  PROVE  /\ SumFunctionOnSet(f, S) \in Int
         /\ \A x \in S : SumFunctionOnSet(f, S)
                           = f[x] + SumFunctionOnSet(f, S \ {x})
<1> DEFINE Sum(s) == SumFunctionOnSet(f, s)
           Good(s) == Sum(s) \in Int /\ \A x \in s : Sum(s) = f[x] + Sum(s \ {x})
           T == {n \in Nat : \A s \in SUBSET S : Cardinality(s) <= n => Good(s)}
<1>0. \A s \in SUBSET S : IsFiniteSet(s) /\ Cardinality(s) \in Nat
  BY FS_Subset, FS_CardinalityType
<1>1. 0 \in T
  <2> SUFFICES ASSUME NEW s \in SUBSET S, Cardinality(s) <= 0 PROVE Good(s)
    OBVIOUS
  <2>1. s = {}
    BY <1>0, FS_EmptySet
  <2> QED
    BY <2>1, SumEmpty
<1>2. ASSUME NEW n \in T PROVE n + 1 \in T
  <2> SUFFICES ASSUME NEW s \in SUBSET S, Cardinality(s) <= n + 1, s # {}
               PROVE  Good(s)
    BY SumEmpty
  <2> DEFINE c == First(s)
  <2>2. c \in s
    BY FirstIn
  <2>3. \A x \in s : Cardinality(s \ {x}) <= n /\ s \ {x} \in SUBSET S
    BY <1>0, SmallerWithout
  <2>4. \A x \in s : Good(s \ {x})
    <3> HIDE DEF Good
    <3> QED
      BY <2>3
  <2>5. Sum(s) = f[c] + Sum(s \ {c})
    BY <1>0, SumFirst
  <2>6. Sum(s) \in Int
    BY <2>2, <2>4, <2>5
  <2>7. ASSUME NEW x \in s, x # c PROVE Sum(s) = f[x] + Sum(s \ {x})
    <3> DEFINE r == s \ {c, x}
    <3>1. (s \ {c}) \ {x} = r /\ (s \ {x}) \ {c} = r
      OBVIOUS
    <3>2. Sum(s \ {c}) = f[x] + Sum(r)
      BY <2>2, <2>4, <2>7, <3>1
    <3>3. Sum(s \ {x}) = f[c] + Sum(r)
      BY <2>2, <2>4, <2>7, <3>1
    <3>4. r \in SUBSET S /\ Sum(r) \in Int
      <4>1. /\ Cardinality(r) <= n
            /\ r \in SUBSET S
        <5>1. /\ Cardinality(s \ {c}) <= n
              /\ Cardinality((s \ {c}) \ {x}) = Cardinality(s \ {c}) - 1
              /\ Cardinality(s \ {c}) \in Nat
          BY <1>0, <2>2, <2>3, <2>7, SmallerWithout
        <5> QED
          BY <3>1, <5>1
      <4> HIDE DEF r
      <4>2. Good(r)
        BY <4>1
      <4> QED
        BY <4>1, <4>2
    <3>5. f[c] \in Int /\ f[x] \in Int
      BY <2>2
    <3> HIDE DEF Sum, r, c
    <3> QED
      BY <2>5, <3>2, <3>3, <3>4, <3>5
  <2> QED
    BY <2>5, <2>6, <2>7
<1>3. T = Nat
  <2> HIDE DEF T
  <2>1. T \in SUBSET Nat
    BY DEF T
  <2> QED
    BY <1>1, <1>2, <2>1, AllNaturals
<1>4. Good(S)
  <2> HIDE DEF Good
  <2> QED
    BY <1>0, <1>3
<1> QED
  BY <1>4

(***************************************************************************)
(* Induction over the subsets of a finite set.                             *)
(***************************************************************************)
LEMMA AllSubsets ==
  ASSUME NEW S, IsFiniteSet(S), NEW T, {} \in T,
         \A s \in SUBSET S : \A x \in S \ s : s \in T => s \cup {x} \in T
  PROVE  S \in T
<1> DEFINE N == {n \in Nat : \A s \in SUBSET S : Cardinality(s) = n => s \in T}
<1>0. \A s \in SUBSET S : IsFiniteSet(s) /\ Cardinality(s) \in Nat
  BY FS_Subset, FS_CardinalityType
<1>1. 0 \in N
  <2>1. \A s \in SUBSET S : Cardinality(s) = 0 => s = {}
    BY <1>0, FS_EmptySet
  <2> QED
    BY <2>1
<1>2. ASSUME NEW n \in N PROVE n + 1 \in N
  <2> SUFFICES ASSUME NEW s \in SUBSET S, Cardinality(s) = n + 1 PROVE s \in T
    OBVIOUS
  <2>1. PICK x \in s : TRUE
    BY <1>0, FS_EmptySet
  <2>2. Cardinality(s \ {x}) = n
    BY <1>0, SmallerWithout
  <2>3. s \ {x} \in T
    BY <2>2
  <2>4. (s \ {x}) \cup {x} = s
    OBVIOUS
  <2> QED
    BY <2>3, <2>4, x \in S \ (s \ {x})
<1>3. N = Nat
  <2> HIDE DEF N
  <2>1. N \in SUBSET Nat
    BY DEF N
  <2> QED
    BY <1>1, <1>2, <2>1, AllNaturals
<1> QED
  BY <1>0, <1>3

(***************************************************************************)
(* What the proofs about the models use.                                   *)
(***************************************************************************)

(* One more element.                                                       *)
LEMMA SumAddElement ==
  ASSUME NEW S, IsFiniteSet(S), NEW x, x \notin S,
         NEW f, \A y \in S \cup {x} : f[y] \in Int
  PROVE  SumFunctionOnSet(f, S \cup {x}) = SumFunctionOnSet(f, S) + f[x]
<1>1. IsFiniteSet(S \cup {x})
  BY FS_AddElement
<1>2. (S \cup {x}) \ {x} = S
  OBVIOUS
<1>3. SumFunctionOnSet(f, S \cup {x}) = f[x] + SumFunctionOnSet(f, S)
  <2> DEFINE R == S \cup {x}
  <2>1. IsFiniteSet(R) /\ x \in R /\ \A y \in R : f[y] \in Int
    BY <1>1
  <2> HIDE DEF R
  <2>2. SumFunctionOnSet(f, R) = f[x] + SumFunctionOnSet(f, R \ {x})
    BY <2>1, SumTakeOut
  <2> QED
    BY <1>2, <2>2 DEF R
<1>4. SumFunctionOnSet(f, S) \in Int /\ f[x] \in Int
  BY SumTakeOut
<1> QED
  BY <1>3, <1>4

(* Equal summands.                                                         *)
LEMMA SumSame ==
  ASSUME NEW S, IsFiniteSet(S), NEW f, NEW g,
         \A x \in S : f[x] \in Int /\ g[x] = f[x]
  PROVE  SumFunctionOnSet(g, S) = SumFunctionOnSet(f, S)
<1> DEFINE T == {s \in SUBSET S : SumFunctionOnSet(g, s) = SumFunctionOnSet(f, s)}
<1>1. {} \in T
  BY SumEmpty
<1>2. ASSUME NEW s \in SUBSET S, NEW x \in S \ s, s \in T
      PROVE  s \cup {x} \in T
  <2>1. IsFiniteSet(s)
    BY FS_Subset
  <2>2. /\ SumFunctionOnSet(f, s \cup {x}) = SumFunctionOnSet(f, s) + f[x]
        /\ SumFunctionOnSet(g, s \cup {x}) = SumFunctionOnSet(g, s) + g[x]
    BY <2>1, SumAddElement
  <2> QED
    BY <1>2, <2>2
<1> HIDE DEF T
<1>3. S \in T
  BY <1>1, <1>2, AllSubsets
<1> QED
  BY <1>3 DEF T

(* Natural summands.                                                       *)
LEMMA SumNat ==
  ASSUME NEW S, IsFiniteSet(S), NEW f, \A x \in S : f[x] \in Nat
  PROVE  SumFunctionOnSet(f, S) \in Nat
<1> DEFINE T == {s \in SUBSET S : SumFunctionOnSet(f, s) \in Nat}
<1>1. {} \in T
  BY SumEmpty
<1>2. ASSUME NEW s \in SUBSET S, NEW x \in S \ s, s \in T
      PROVE  s \cup {x} \in T
  <2>1. IsFiniteSet(s)
    BY FS_Subset
  <2>2. SumFunctionOnSet(f, s \cup {x}) = SumFunctionOnSet(f, s) + f[x]
    BY <2>1, SumAddElement
  <2> QED
    BY <1>2, <2>2
<1> HIDE DEF T
<1>3. S \in T
  BY <1>1, <1>2, AllSubsets
<1> QED
  BY <1>3 DEF T

(* One summand changed.                                                    *)
LEMMA SumChange ==
  ASSUME NEW S, IsFiniteSet(S), NEW f, NEW g, NEW x \in S,
         g[x] \in Int, \A y \in S : f[y] \in Int,
         \A y \in S \ {x} : g[y] = f[y]
  PROVE  SumFunctionOnSet(g, S) = SumFunctionOnSet(f, S) - f[x] + g[x]
<1>1. IsFiniteSet(S \ {x})
  BY FS_RemoveElement
<1>2. SumFunctionOnSet(g, S \ {x}) = SumFunctionOnSet(f, S \ {x})
  BY <1>1, SumSame
<1>3. SumFunctionOnSet(f, S) = f[x] + SumFunctionOnSet(f, S \ {x})
  BY SumTakeOut
<1>4. SumFunctionOnSet(g, S) = g[x] + SumFunctionOnSet(g, S \ {x})
  BY SumTakeOut
<1>5. SumFunctionOnSet(f, S \ {x}) \in Int
  BY <1>1, SumTakeOut
<1> QED
  BY <1>2, <1>3, <1>4, <1>5

(* Two disjoint sets.                                                      *)
LEMMA SumUnion ==
  ASSUME NEW S, IsFiniteSet(S), NEW R, R \subseteq S,
         NEW f, \A x \in S : f[x] \in Int
  PROVE  SumFunctionOnSet(f, S)
           = SumFunctionOnSet(f, S \ R) + SumFunctionOnSet(f, R)
<1> DEFINE T == {s \in SUBSET R : SumFunctionOnSet(f, (S \ R) \cup s)
                   = SumFunctionOnSet(f, S \ R) + SumFunctionOnSet(f, s)}
<1>0. IsFiniteSet(S \ R) /\ IsFiniteSet(R)
  BY FS_Subset
<1>1. SumFunctionOnSet(f, S \ R) \in Int
  BY <1>0, SumTakeOut
<1>2. {} \in T
  <2>1. (S \ R) \cup {} = S \ R
    OBVIOUS
  <2> QED
    BY <1>1, <2>1, SumEmpty
<1>3. ASSUME NEW s \in SUBSET R, NEW x \in R \ s, s \in T
      PROVE  s \cup {x} \in T
  <2>1. IsFiniteSet(s) /\ IsFiniteSet((S \ R) \cup s)
    BY <1>0, FS_Subset, FS_Union
  <2>2. SumFunctionOnSet(f, s \cup {x}) = SumFunctionOnSet(f, s) + f[x]
    BY <2>1, SumAddElement
  <2>3. SumFunctionOnSet(f, ((S \ R) \cup s) \cup {x})
          = SumFunctionOnSet(f, (S \ R) \cup s) + f[x]
    BY <2>1, SumAddElement
  <2>4. (S \ R) \cup (s \cup {x}) = ((S \ R) \cup s) \cup {x}
    OBVIOUS
  <2>5. SumFunctionOnSet(f, s) \in Int /\ f[x] \in Int
    BY <2>1, SumTakeOut
  <2>6. SumFunctionOnSet(f, (S \ R) \cup s)
          = SumFunctionOnSet(f, S \ R) + SumFunctionOnSet(f, s)
    BY <1>3
  <2>7. SumFunctionOnSet(f, ((S \ R) \cup s) \cup {x})
          = SumFunctionOnSet(f, S \ R) + SumFunctionOnSet(f, s \cup {x})
    BY <1>1, <2>2, <2>3, <2>5, <2>6
  <2> QED
    BY <2>4, <2>7
<1> HIDE DEF T
<1>4. R \in T
  BY <1>0, <1>2, <1>3, AllSubsets
<1>5. (S \ R) \cup R = S
  OBVIOUS
<1> QED
  BY <1>4, <1>5 DEF T

(* Adding up the same numbers under other names: h renames them.           *)
LEMMA SumRenamed ==
  ASSUME NEW S, IsFiniteSet(S), NEW f, NEW g, NEW h,
         \A x \in S : f[h[x]] \in Int /\ g[x] = f[h[x]],
         \A x, y \in S : h[x] = h[y] => x = y
  PROVE  SumFunctionOnSet(g, S) = SumFunctionOnSet(f, {h[x] : x \in S})
<1> DEFINE Names(s) == {h[x] : x \in s}
           T == {s \in SUBSET S :
                   SumFunctionOnSet(g, s) = SumFunctionOnSet(f, Names(s))}
<1>1. {} \in T
  <2>1. Names({}) = {}
    OBVIOUS
  <2> QED
    BY <2>1, SumEmpty
<1>2. ASSUME NEW s \in SUBSET S, NEW x \in S \ s, s \in T PROVE s \cup {x} \in T
  <2>1. IsFiniteSet(s) /\ IsFiniteSet(Names(s))
    <3>1. IsFiniteSet(s)
      BY FS_Subset
    <3>2. [y \in s |-> h[y]] \in Surjection(s, Names(s))
      BY DEF Surjection
    <3> QED
      BY <3>1, <3>2, FS_Surjection
  <2>2. Names(s \cup {x}) = Names(s) \cup {h[x]} /\ h[x] \notin Names(s)
    OBVIOUS
  <2>3. \A z \in Names(s) \cup {h[x]} : f[z] \in Int
    OBVIOUS
  <2>4. SumFunctionOnSet(g, s) = SumFunctionOnSet(f, Names(s))
    BY <1>2
  <2>5. \A y \in s \cup {x} : g[y] \in Int
    OBVIOUS
  <2> HIDE DEF Names
  <2>6. SumFunctionOnSet(f, Names(s) \cup {h[x]})
          = SumFunctionOnSet(f, Names(s)) + f[h[x]]
    BY <2>1, <2>2, <2>3, SumAddElement
  <2>7. SumFunctionOnSet(g, s \cup {x}) = SumFunctionOnSet(g, s) + g[x]
    BY <2>1, <2>5, SumAddElement
  <2> QED
    BY <2>2, <2>4, <2>6, <2>7
<1> HIDE DEF T
<1>3. S \in T
  BY <1>1, <1>2, AllSubsets
<1> QED
  BY <1>3 DEF T

(* Taking the number at place i out of a list of n.                        *)
LEMMA SumWithoutPlace ==
  ASSUME NEW f, NEW g, NEW n \in Nat, NEW i \in 1..n,
         \A k \in 1..n : f[k] \in Int,
         \A k \in 1..(n - 1) : g[k] = IF k < i THEN f[k] ELSE f[k + 1]
  PROVE  SumFunctionOnSet(g, 1..(n - 1)) = SumFunctionOnSet(f, 1..n) - f[i]
<1> DEFINE low == 1..(i - 1)
           high == (i + 1)..n
           moved == i..(n - 1)
<1>1. /\ 1..n = (low \cup high) \cup {i} /\ i \notin low \cup high
      /\ 1..(n - 1) = low \cup moved
      /\ (low \cup high) \ high = low /\ (low \cup moved) \ moved = low
      /\ low \subseteq 1..n /\ high \subseteq 1..n
      /\ low \subseteq 1..(n - 1) /\ moved \subseteq 1..(n - 1)
  OBVIOUS
<1>2. IsFiniteSet(low) /\ IsFiniteSet(high) /\ IsFiniteSet(moved)
  BY FS_Interval
<1>3. IsFiniteSet(low \cup high) /\ IsFiniteSet(low \cup moved)
  BY <1>2, FS_Union
<1>4. /\ \A k \in low : g[k] = f[k]
      /\ \A k \in moved : f[k + 1] \in Int /\ g[k] = f[k + 1]
  OBVIOUS
<1>5. SumFunctionOnSet(g, moved) = SumFunctionOnSet(f, high)
  <2> DEFINE h == [k \in moved |-> k + 1]
  <2>1. high = {h[k] : k \in moved}
    <3>1. \A k \in high : k - 1 \in moved /\ h[k - 1] = k
      OBVIOUS
    <3>2. \A k \in moved : h[k] \in high
      OBVIOUS
    <3> QED
      BY <3>1, <3>2
  <2>2. \A k, l \in moved : h[k] = h[l] => k = l
    OBVIOUS
  <2>3. \A k \in moved : h[k] = k + 1
    OBVIOUS
  <2> HIDE DEF moved, high, h
  <2>4. \A k \in moved : f[h[k]] \in Int /\ g[k] = f[h[k]]
    BY <1>4, <2>3
  <2>5. SumFunctionOnSet(g, moved) = SumFunctionOnSet(f, {h[k] : k \in moved})
    BY <1>2, <2>2, <2>4, SumRenamed
  <2> QED
    BY <2>1, <2>5
<1> HIDE DEF low, high, moved
<1>6. SumFunctionOnSet(g, low) = SumFunctionOnSet(f, low)
  BY <1>1, <1>2, <1>4, SumSame
<1>7. \A k \in low \cup high : f[k] \in Int
  BY <1>1
<1>8. \A k \in low \cup moved : g[k] \in Int
  BY <1>1, <1>4
<1>9. SumFunctionOnSet(f, low \cup high) = SumFunctionOnSet(f, low) + SumFunctionOnSet(f, high)
  <2>1. high \subseteq low \cup high
    OBVIOUS
  <2> QED
    BY <1>1, <1>3, <1>7, <2>1, SumUnion
<1>10. SumFunctionOnSet(g, low \cup moved) = SumFunctionOnSet(g, low) + SumFunctionOnSet(g, moved)
  <2>1. moved \subseteq low \cup moved
    OBVIOUS
  <2> QED
    BY <1>1, <1>3, <1>8, <2>1, SumUnion
<1>11. SumFunctionOnSet(f, (low \cup high) \cup {i}) = SumFunctionOnSet(f, low \cup high) + f[i]
  BY <1>1, <1>3, <1>7, SumAddElement
<1>12. SumFunctionOnSet(f, low) \in Int /\ SumFunctionOnSet(f, high) \in Int
  BY <1>1, <1>2, SumTakeOut
<1>13. f[i] \in Int
  OBVIOUS
<1> QED
  <2> DEFINE all == SumFunctionOnSet(f, 1..n)
             less == SumFunctionOnSet(g, 1..(n - 1))
             l == SumFunctionOnSet(f, low)
             h == SumFunctionOnSet(f, high)
  <2>1. all = l + h + f[i]
    BY <1>1, <1>9, <1>11
  <2>2. less = l + h
    BY <1>1, <1>5, <1>6, <1>10
  <2>3. l \in Int /\ h \in Int
    BY <1>12
  <2> HIDE DEF all, less, l, h
  <2>4. less = all - f[i]
    BY <1>13, <2>1, <2>2, <2>3
  <2> QED
    BY <2>4 DEF all, less

-----------------------------------------------------------------------------
(* The number of elements kept up to a place grows by one at each of them, *)
LEMMA PlacesCount ==
  ASSUME NEW s, NEW K, NEW n \in Nat
  PROVE  /\ \A i \in 0..n : /\ IsFiniteSet(Kept(s, K, i))
                            /\ Cardinality(Kept(s, K, i)) \in Nat
         /\ Cardinality(Kept(s, K, 0)) = 0
         /\ \A i \in 0..n, j \in 0..n :
              i <= j => Cardinality(Kept(s, K, i)) <= Cardinality(Kept(s, K, j))
         /\ \A i \in 1..n : s[i] \in K =>
              Cardinality(Kept(s, K, i)) = Cardinality(Kept(s, K, i - 1)) + 1
         /\ \A i \in 1..n : s[i] \notin K =>
              Cardinality(Kept(s, K, i)) = Cardinality(Kept(s, K, i - 1))
<1>1. \A i \in 0..n : IsFiniteSet(Kept(s, K, i))
  <2> SUFFICES ASSUME NEW i \in 0..n PROVE IsFiniteSet(Kept(s, K, i))
    OBVIOUS
  <2>1. IsFiniteSet(1..i)
    BY FS_Interval
  <2>2. Kept(s, K, i) \subseteq 1..i
    BY DEF Kept
  <2> QED
    BY <2>1, <2>2, FS_Subset
<1>2. Kept(s, K, 0) = {}
  BY DEF Kept
<1>3. \A i \in 0..n, j \in 0..n :
        i <= j => Cardinality(Kept(s, K, i)) <= Cardinality(Kept(s, K, j))
  <2> SUFFICES ASSUME NEW i \in 0..n, NEW j \in 0..n, i <= j
               PROVE  Cardinality(Kept(s, K, i)) <= Cardinality(Kept(s, K, j))
    OBVIOUS
  <2>1. Kept(s, K, i) \subseteq Kept(s, K, j)
    BY DEF Kept
  <2> QED
    BY <1>1, <2>1, FS_Subset
<1>4. ASSUME NEW i \in 1..n
      PROVE  /\ s[i] \in K =>
                  Cardinality(Kept(s, K, i)) = Cardinality(Kept(s, K, i - 1)) + 1
             /\ s[i] \notin K =>
                  Cardinality(Kept(s, K, i)) = Cardinality(Kept(s, K, i - 1))
  <2> DEFINE last == Kept(s, K, i - 1)
  <2>1. IsFiniteSet(last) /\ Cardinality(last) \in Nat
    <3>1. i - 1 \in 0..n
      OBVIOUS
    <3> QED
      BY <1>1, <3>1, FS_CardinalityType
  <2>2. i \notin last
    BY DEF Kept
  <2>3. CASE s[i] \in K
    <3>1. Kept(s, K, i) = last \cup {i}
      BY <2>3 DEF Kept
    <3> HIDE DEF last
    <3>2. Cardinality(last \cup {i}) = Cardinality(last) + 1
      BY <2>1, <2>2, FS_AddElement
    <3> QED
      BY <2>3, <3>1, <3>2 DEF last
  <2>4. CASE s[i] \notin K
    <3>1. Kept(s, K, i) = last
      BY <2>4 DEF Kept
    <3> QED
      BY <2>1, <2>4, <3>1
  <2> QED
    BY <2>3, <2>4
<1> QED
  BY <1>1, <1>2, <1>3, <1>4, FS_CardinalityType, FS_EmptySet

(* ... so that every number up to the last one is that of a place ...      *)
LEMMA PlaceOf ==
  ASSUME NEW s, NEW K, NEW n \in Nat, NEW k \in 1..Cardinality(Kept(s, K, n))
  PROVE  \E i \in 1..n : s[i] \in K /\ Cardinality(Kept(s, K, i)) = k
<1> DEFINE C(i) == Cardinality(Kept(s, K, i))
           Reached(m) == \A l \in 1..C(m) : \E i \in 1..m : s[i] \in K /\ C(i) = l
           T == {m \in Nat : m <= n => Reached(m)}
<1>1. /\ \A i \in 0..n : C(i) \in Nat
      /\ C(0) = 0
      /\ \A i \in 1..n : s[i] \in K => C(i) = C(i - 1) + 1
      /\ \A i \in 1..n : s[i] \notin K => C(i) = C(i - 1)
  <2>1. \A i \in 0..n : C(i) \in Nat
    BY PlacesCount, Zenon
  <2>2. C(0) = 0
    BY PlacesCount, Zenon
  <2>3. \A i \in 1..n : s[i] \in K => C(i) = C(i - 1) + 1
    BY PlacesCount, Zenon
  <2>4. \A i \in 1..n : s[i] \notin K => C(i) = C(i - 1)
    BY PlacesCount, Zenon
  <2> QED
    BY <2>1, <2>2, <2>3, <2>4, Zenon
<1> HIDE DEF C
<1>2. 0 \in T
  <2>1. 1..C(0) = {}
    BY <1>1
  <2> QED
    BY <2>1
<1>3. ASSUME NEW m \in T PROVE m + 1 \in T
  <2> SUFFICES ASSUME m + 1 <= n, NEW l \in 1..C(m + 1)
               PROVE  \E i \in 1..(m + 1) : s[i] \in K /\ C(i) = l
    OBVIOUS
  <2>1. m \in Nat /\ m \in 0..n /\ m + 1 \in 1..n /\ (m + 1) - 1 = m /\ Reached(m)
    OBVIOUS
  <2> HIDE DEF T, Reached
  <2>2. /\ C(m) \in Nat
        /\ s[m + 1] \in K => C(m + 1) = C(m) + 1
        /\ s[m + 1] \notin K => C(m + 1) = C(m)
    BY <1>1, <2>1
  <2>3. CASE l \in 1..C(m)
    <3>1. PICK i \in 1..m : s[i] \in K /\ C(i) = l
      BY <2>1, <2>3 DEF Reached
    <3>2. i \in 1..(m + 1)
      BY <2>1
    <3> QED
      BY <3>1, <3>2
  <2>4. CASE l \notin 1..C(m)
    <3>1. s[m + 1] \in K /\ l = C(m + 1) /\ m + 1 \in 1..(m + 1)
      BY <2>1, <2>2, <2>4
    <3> QED
      BY <3>1
  <2> QED
    BY <2>3, <2>4
<1> HIDE DEF T
<1>4. T = Nat
  <2>1. T \in SUBSET Nat
    BY DEF T
  <2> QED
    BY <1>2, <1>3, <2>1, AllNaturals
<1>5. Reached(n)
  <2>1. n \in T
    BY <1>4
  <2> QED
    BY <2>1 DEF T
<1> QED
  BY <1>5 DEF C

(* The place that an element of a filtered list comes from.                *)
PlaceFrom(s, K, n) ==
  CHOOSE i \in DOMAIN s : s[i] \in K /\ Cardinality(Kept(s, K, i)) = n

(* ... and of one only.                                                    *)
LEMMA FilteredPlaces ==
  ASSUME NEW S, NEW s \in Seq(S), NEW K
  PROVE  /\ Filtered(s, K) \in Seq(S)
         /\ \A n \in DOMAIN Filtered(s, K) :
              /\ PlaceFrom(s, K, n) \in DOMAIN s
              /\ Filtered(s, K)[n] = s[PlaceFrom(s, K, n)]
              /\ s[PlaceFrom(s, K, n)] \in K
              /\ Cardinality(Kept(s, K, PlaceFrom(s, K, n))) = n
         /\ \A i \in DOMAIN s : s[i] \in K =>
              \E n \in DOMAIN Filtered(s, K) : PlaceFrom(s, K, n) = i
<1> DEFINE C(i) == Cardinality(Kept(s, K, i))
           len == Len(s)
           count == Cardinality(Kept(s, K, len))
<1>1. len \in Nat /\ DOMAIN s = 1..len /\ \A i \in 1..len : s[i] \in S
  OBVIOUS
<1>2. /\ \A i \in 0..len : C(i) \in Nat
      /\ \A i \in 0..len, j \in 0..len : i <= j => C(i) <= C(j)
      /\ \A i \in 1..len : s[i] \in K => C(i) = C(i - 1) + 1
  <2> HIDE DEF len
  <2>1. \A i \in 0..len : C(i) \in Nat
    BY <1>1, PlacesCount, Zenon
  <2>2. \A i \in 0..len, j \in 0..len : i <= j => C(i) <= C(j)
    BY <1>1, PlacesCount, Zenon
  <2>3. \A i \in 1..len : s[i] \in K => C(i) = C(i - 1) + 1
    BY <1>1, PlacesCount, Zenon
  <2> QED
    BY <2>1, <2>2, <2>3, Zenon
<1>3. count \in Nat /\ count = C(len)
  BY <1>1, <1>2
<1>4. Filtered(s, K) = [n \in 1..count |-> s[PlaceFrom(s, K, n)]]
  BY DEF Filtered, PlaceFrom
<1>5. ASSUME NEW n \in 1..count
      PROVE  /\ PlaceFrom(s, K, n) \in DOMAIN s /\ s[PlaceFrom(s, K, n)] \in K
             /\ C(PlaceFrom(s, K, n)) = n
  <2>1. \E i \in 1..len : s[i] \in K /\ C(i) = n
    BY <1>1, <1>3, PlaceOf
  <2> QED
    BY <1>1, <2>1 DEF PlaceFrom
<1> HIDE DEF C, count, len
<1>6. ASSUME NEW i \in 1..len, s[i] \in K
      PROVE  C(i) \in 1..count /\ PlaceFrom(s, K, C(i)) = i
  <2>1. C(i) \in 1..count
    <3>1. i \in 0..len /\ len \in 0..len /\ i - 1 \in 0..len /\ i <= len
      BY <1>1
    <3>2. C(i) = C(i - 1) + 1 /\ C(i - 1) \in Nat /\ C(i) <= C(len)
      BY <1>2, <1>6, <3>1
    <3> QED
      BY <1>3, <3>2
  <2> DEFINE k == PlaceFrom(s, K, C(i))
  <2>2. k \in 1..len /\ s[k] \in K /\ C(k) = C(i)
    BY <1>1, <1>5, <2>1
  <2> HIDE DEF k
  <2>3. ASSUME NEW a \in 1..len, NEW b \in 1..len, a < b, s[b] \in K PROVE C(a) < C(b)
    <3>1. b - 1 \in 0..len /\ a \in 0..len /\ a <= b - 1
      BY <1>1, <2>3
    <3>2. C(a) <= C(b - 1) /\ C(b) = C(b - 1) + 1 /\ C(a) \in Nat /\ C(b - 1) \in Nat
      BY <1>2, <2>3, <3>1
    <3> QED
      BY <3>2
  <2>4. i \in Int /\ k \in Int /\ C(i) \in Int
    BY <1>1, <2>1, <2>2
  <2>5. ~ (k < i) /\ ~ (i < k)
    BY <1>6, <2>2, <2>3, <2>4
  <2>6. k = i
    BY <2>4, <2>5
  <2> QED
    BY <2>1, <2>6 DEF k
<1>7. Filtered(s, K) \in Seq(S)
  <2>1. \A n \in 1..count : s[PlaceFrom(s, K, n)] \in S
    BY <1>1, <1>5
  <2> QED
    BY <1>3, <1>4, <2>1
<1>8. DOMAIN Filtered(s, K) = 1..count
  BY <1>4
<1>9. \A n \in DOMAIN Filtered(s, K) :
        /\ PlaceFrom(s, K, n) \in DOMAIN s
        /\ Filtered(s, K)[n] = s[PlaceFrom(s, K, n)]
        /\ s[PlaceFrom(s, K, n)] \in K
        /\ Cardinality(Kept(s, K, PlaceFrom(s, K, n))) = n
  BY <1>4, <1>5, <1>8 DEF C
<1>10. \A i \in DOMAIN s : s[i] \in K =>
         \E n \in DOMAIN Filtered(s, K) : PlaceFrom(s, K, n) = i
  BY <1>1, <1>6, <1>8
<1> QED
  BY <1>7, <1>9, <1>10

(* A filtered list has the elements of the list that are in K, no others,  *)
(* and no element twice that was there once.                               *)
LEMMA FilteredIs ==
  ASSUME NEW S, NEW s \in Seq(S), NEW K
  PROVE  /\ Filtered(s, K) \in Seq(S)
         /\ \A n \in DOMAIN Filtered(s, K) :
              /\ Filtered(s, K)[n] \in K
              /\ \E i \in DOMAIN s : Filtered(s, K)[n] = s[i]
         /\ \A i \in DOMAIN s : s[i] \in K =>
              \E n \in DOMAIN Filtered(s, K) : Filtered(s, K)[n] = s[i]
         /\ IsInjective(s) => IsInjective(Filtered(s, K))
<1>1. \A m, n \in DOMAIN Filtered(s, K) :
        PlaceFrom(s, K, m) = PlaceFrom(s, K, n) => m = n
  BY FilteredPlaces
<1>2. IsInjective(s) => IsInjective(Filtered(s, K))
  <2> SUFFICES ASSUME IsInjective(s), NEW m \in DOMAIN Filtered(s, K),
                      NEW n \in DOMAIN Filtered(s, K), Filtered(s, K)[m] = Filtered(s, K)[n]
               PROVE  m = n
    BY DEF IsInjective
  <2>1. PlaceFrom(s, K, m) = PlaceFrom(s, K, n)
    BY FilteredPlaces DEF IsInjective
  <2> QED
    BY <1>1, <2>1
<1> QED
  BY <1>2, FilteredPlaces

(* A filter makes no list longer, and one that drops an element shorter.   *)
LEMMA FilteredLength ==
  ASSUME NEW S, NEW s \in Seq(S), NEW K
  PROVE  /\ Len(Filtered(s, K)) <= Len(s)
         /\ (\E i \in DOMAIN s : s[i] \notin K) => Len(Filtered(s, K)) < Len(s)
<1> DEFINE len == Len(s)
           places == 1..len
           kept == Kept(s, K, len)
           count == Cardinality(kept)
<1>1. len \in Nat /\ DOMAIN s = places /\ kept \subseteq places
  BY DEF Kept
<1>2. IsFiniteSet(places) /\ Cardinality(places) = len
  <2>1. len \in Int /\ 1 \in Int
    BY <1>1
  <2> HIDE DEF len
  <2>2. IsFiniteSet(places) /\ Cardinality(places) = IF 1 > len THEN 0 ELSE len - 1 + 1
    BY <2>1, FS_Interval, Zenon
  <2> QED
    BY <1>1, <2>2
<1>3. Len(Filtered(s, K)) = count
  <2>1. len \in Nat /\ len \in 0..len
    BY <1>1
  <2> HIDE DEF len
  <2>2. count \in Nat
    BY <2>1, PlacesCount, Zenon
  <2> HIDE DEF count
  <2> QED
    BY <2>2 DEF Filtered, len, kept, count
<1>4. (\E i \in DOMAIN s : s[i] \notin K) => kept # places
  BY <1>1 DEF Kept
<1> HIDE DEF len, places, kept
<1>5. count <= len /\ (kept # places => count < len)
  <2>1. IsFiniteSet(kept) /\ count <= Cardinality(places)
        /\ (Cardinality(places) = count => kept = places)
    BY <1>1, <1>2, FS_Subset
  <2>2. count \in Nat
    BY <2>1, FS_CardinalityType
  <2> QED
    BY <1>1, <1>2, <2>1, <2>2
<1> QED
  BY <1>3, <1>4, <1>5 DEF len
=============================================================================
