----------------------------- MODULE FiniteSums -----------------------------
(***************************************************************************)
(* Lemmas for proofs that count: induction over the naturals and over the  *)
(* subsets of a finite set, the sum of a function over a finite set as the *)
(* specifications take it from FiniteSetsExt, and how a cardinality moves  *)
(* when one element comes or goes.                                         *)
(***************************************************************************)
EXTENDS Integers, FiniteSets, FiniteSetsExt, FiniteSetTheorems, WellFoundedInduction, TLAPS

(***************************************************************************)
(* Induction is over a set of values, since the rules of the library take  *)
(* a predicate as a parameter.                                             *)
(***************************************************************************)

LEMMA LessIsWellFounded == IsWellFoundedOn({p \in Nat \X Nat : p[1] < p[2]}, Nat)
BY NatLessThanWellFounded DEF OpToRel

LEMMA SetInduction ==
  ASSUME NEW S \in SUBSET Nat, 0 \in S, \A n \in S : n + 1 \in S
  PROVE  S = Nat
<1> DEFINE R == {p \in Nat \X Nat : p[1] < p[2]}
           T == Nat \ S
<1>1. SUFFICES ASSUME T # {} PROVE FALSE
  OBVIOUS
<1>2. PICK x \in T : \A y \in T : ~(<<y, x>> \in R)
  <2>1. IsWellFoundedOn(R, Nat)
    BY LessIsWellFounded
  <2> HIDE DEF R
  <2>2. T \subseteq Nat
    OBVIOUS
  <2> HIDE DEF T
  <2> QED
    BY <1>1, <2>1, <2>2, WFMin
<1>3. x - 1 \in Nat /\ x # 0
  OBVIOUS
<1>4. x - 1 \notin T
  <2>1. <<x - 1, x>> \in R
    BY <1>3
  <2> HIDE DEF R
  <2> QED
    BY <1>2, <2>1
<1> QED
  BY <1>3, <1>4

(* The element a sum takes first.                                          *)
Pick(s) == CHOOSE x \in s : TRUE

LEMMA PickIsMember == ASSUME NEW s, s # {} PROVE Pick(s) \in s
BY DEF Pick

LEMMA SubsetInduction ==
  ASSUME NEW S, IsFiniteSet(S), NEW C \in SUBSET (SUBSET S), {} \in C,
         \A s \in SUBSET S : s # {} /\ s \ {Pick(s)} \in C => s \in C
  PROVE  C = SUBSET S
<1> DEFINE R == StrictSubsetOrdering(S)
           T == (SUBSET S) \ C
<1>1. SUFFICES ASSUME T # {} PROVE FALSE
  OBVIOUS
<1>2. PICK s \in T : \A u \in T : ~(<<u, s>> \in R)
  <2>1. IsWellFoundedOn(R, SUBSET S)
    BY FS_StrictSubsetOrderingWellFounded, FS_FiniteSubsetsOfFinite
  <2> HIDE DEF R
  <2>2. T \subseteq SUBSET S
    OBVIOUS
  <2> HIDE DEF T
  <2> QED
    BY <1>1, <2>1, <2>2, WFMin
<1>3. s # {} /\ Pick(s) \in s /\ s \in SUBSET S
  BY PickIsMember
<1>4. <<s \ {Pick(s)}, s>> \in R /\ s \ {Pick(s)} \in SUBSET S
  BY <1>3 DEF StrictSubsetOrdering
<1>5. s \ {Pick(s)} \in C
  <2> HIDE DEF R
  <2> QED
    BY <1>2, <1>4
<1> QED
  BY <1>3, <1>5

(***************************************************************************)
(* The sum of a function over a finite set.                                *)
(***************************************************************************)

SumOf(f, S) == MapThenSumSet(LAMBDA x : f[x], S)

Partial(f, S) ==
  LET iter[s \in SUBSET S] ==
        IF s = {} THEN 0 ELSE LET x == Pick(s) IN f[x] + iter[s \ {x}]
  IN  iter

LEMMA SumIsPartial ==
  ASSUME NEW f, NEW S PROVE SumOf(f, S) = Partial(f, S)[S]
BY DEF SumOf, MapThenSumSet, MapThenFoldSet, Partial, Pick

(* t adds f up over the members of D, a family of subsets.                 *)
AddsUp(t, f, D) ==
  t = [s \in D |-> IF s = {} THEN 0 ELSE f[Pick(s)] + t[s \ {Pick(s)}]]

Upto(S, n) == {s \in SUBSET S : Cardinality(s) <= n}

LEMMA UptoFacts ==
  ASSUME NEW S, IsFiniteSet(S), NEW n \in Nat
  PROVE  /\ Upto(S, 0) = {{}}
         /\ \A s \in Upto(S, n + 1) : s # {} => s \ {Pick(s)} \in Upto(S, n)
         /\ Upto(S, n) \subseteq Upto(S, n + 1)
         /\ Upto(S, Cardinality(S)) = SUBSET S
<1>1. \A s \in SUBSET S : IsFiniteSet(s) /\ Cardinality(s) \in Nat /\ Cardinality(s) <= Cardinality(S)
  BY FS_Subset, FS_CardinalityType
<1>2. Upto(S, 0) = {{}}
  BY <1>1, FS_EmptySet DEF Upto
<1>3. ASSUME NEW s \in Upto(S, n + 1), s # {} PROVE s \ {Pick(s)} \in Upto(S, n)
  <2>1. s \in SUBSET S /\ Cardinality(s) <= n + 1 /\ Pick(s) \in s
    BY <1>3, PickIsMember DEF Upto
  <2>2. Cardinality(s \ {Pick(s)}) = Cardinality(s) - 1
    BY <1>1, <2>1, FS_RemoveElement
  <2> QED
    BY <1>1, <2>1, <2>2 DEF Upto
<1>4. Upto(S, n) \subseteq Upto(S, n + 1)
  BY <1>1 DEF Upto
<1>5. Upto(S, Cardinality(S)) = SUBSET S
  BY <1>1 DEF Upto
<1> QED
  BY <1>2, <1>3, <1>4, <1>5

(* The recursive definition has a value.                                   *)
LEMMA SumExists ==
  ASSUME NEW f, NEW S, IsFiniteSet(S) PROVE \E t : AddsUp(t, f, SUBSET S)
<1> DEFINE N == {n \in Nat : \E t : AddsUp(t, f, Upto(S, n))}
<1>1. 0 \in N
  <2>1. AddsUp([s \in Upto(S, 0) |-> 0], f, Upto(S, 0))
    BY UptoFacts DEF AddsUp
  <2> QED
    BY <2>1
<1>2. ASSUME NEW n \in N PROVE n + 1 \in N
  <2>1. PICK t : AddsUp(t, f, Upto(S, n))
    OBVIOUS
  <2> DEFINE D == Upto(S, n)
             E == Upto(S, n + 1)
             u == [s \in E |-> IF s \in D THEN t[s] ELSE f[Pick(s)] + t[s \ {Pick(s)}]]
  <2>2. /\ \A s \in E : s # {} => s \ {Pick(s)} \in D
        /\ D \subseteq E /\ n \in Nat
    BY UptoFacts
  <2>3. {} \in D
    BY FS_EmptySet DEF Upto
  <2> HIDE DEF D, E
  <2>4. ASSUME NEW s \in E
        PROVE  u[s] = IF s = {} THEN 0 ELSE f[Pick(s)] + u[s \ {Pick(s)}]
    <3>1. \A r \in D : t[r] = IF r = {} THEN 0 ELSE f[Pick(r)] + t[r \ {Pick(r)}]
      BY <2>1 DEF AddsUp, D
    <3>2. CASE s = {}
      BY <2>3, <3>1, <3>2
    <3>3. CASE s # {}
      <4>1. s \ {Pick(s)} \in D
        BY <2>2, <3>3
      <4>2. u[s \ {Pick(s)}] = t[s \ {Pick(s)}]
        BY <2>2, <4>1
      <4>3. u[s] = f[Pick(s)] + t[s \ {Pick(s)}]
        BY <3>1, <3>3
      <4> QED
        BY <3>3, <4>2, <4>3
    <3> QED
      BY <3>2, <3>3
  <2>5. AddsUp(u, f, E)
    BY <2>4 DEF AddsUp
  <2> QED
    BY <2>2, <2>5 DEF E
<1>3. N = Nat
  <2>1. N \in SUBSET Nat
    OBVIOUS
  <2> HIDE DEF N
  <2> QED
    BY <1>1, <1>2, <2>1, SetInduction
<1>4. Cardinality(S) \in N
  BY <1>3, FS_CardinalityType
<1>5. PICK t : AddsUp(t, f, Upto(S, Cardinality(S)))
  BY <1>4
<1>6. Upto(S, Cardinality(S)) = SUBSET S
  BY FS_CardinalityType, UptoFacts
<1> QED
  BY <1>5, <1>6

LEMMA PartialAddsUp ==
  ASSUME NEW f, NEW S, IsFiniteSet(S) PROVE AddsUp(Partial(f, S), f, SUBSET S)
<1>1. PICK t : AddsUp(t, f, SUBSET S)
  BY SumExists
<1> QED
  BY <1>1 DEF AddsUp, Partial

Steps(t, f, S) ==
  /\ t[{}] = 0
  /\ \A s \in SUBSET S : s # {} => t[s] = f[Pick(s)] + t[s \ {Pick(s)}]

LEMMA PartialSteps ==
  ASSUME NEW f, NEW S, IsFiniteSet(S) PROVE Steps(Partial(f, S), f, S)
<1> DEFINE t == Partial(f, S)
<1>1. AddsUp(t, f, SUBSET S)
  BY PartialAddsUp
<1> HIDE DEF t
<1>2. \A s \in SUBSET S : t[s] = IF s = {} THEN 0 ELSE f[Pick(s)] + t[s \ {Pick(s)}]
  BY <1>1 DEF AddsUp
<1>3. {} \in SUBSET S
  OBVIOUS
<1> QED
  BY <1>2, <1>3 DEF t, Steps

LEMMA SumIsInt ==
  ASSUME NEW f, NEW S, IsFiniteSet(S), \A x \in S : f[x] \in Int
  PROVE  SumOf(f, S) \in Int
<1> DEFINE t == Partial(f, S)
           C == {s \in SUBSET S : t[s] \in Int}
<1>0. Steps(t, f, S)
  BY PartialSteps
<1>1. {} \in C
  BY <1>0 DEF Steps
<1>2. ASSUME NEW s \in SUBSET S, s # {}, s \ {Pick(s)} \in C PROVE s \in C
  <2>1. f[Pick(s)] \in Int
    BY <1>2, PickIsMember
  <2>2. t[s] = f[Pick(s)] + t[s \ {Pick(s)}]
    BY <1>0, <1>2 DEF Steps
  <2> HIDE DEF t
  <2> QED
    BY <1>2, <2>1, <2>2
<1>3. C = SUBSET S
  <2>1. C \in SUBSET (SUBSET S)
    OBVIOUS
  <2> HIDE DEF C
  <2> QED
    BY <1>1, <1>2, <2>1, SubsetInduction
<1>4. S \in C
  BY <1>3
<1> QED
  BY <1>4, SumIsPartial

(* A sum of naturals is a natural, and at least each of its terms.         *)
LEMMA SumIsNat ==
  ASSUME NEW f, NEW S, IsFiniteSet(S), \A x \in S : f[x] \in Nat
  PROVE  SumOf(f, S) \in Nat /\ \A x \in S : f[x] <= SumOf(f, S)
<1> DEFINE t == Partial(f, S)
           C == {s \in SUBSET S : t[s] \in Nat /\ \A x \in s : f[x] <= t[s]}
<1>0. Steps(t, f, S)
  BY PartialSteps
<1>1. {} \in C
  BY <1>0 DEF Steps
<1>2. ASSUME NEW s \in SUBSET S, s # {}, s \ {Pick(s)} \in C PROVE s \in C
  <2> DEFINE r == s \ {Pick(s)}
  <2>1. Pick(s) \in s /\ f[Pick(s)] \in Nat
    BY <1>2, PickIsMember
  <2>2. t[s] = f[Pick(s)] + t[r]
    BY <1>0, <1>2 DEF Steps
  <2>3. t[r] \in Nat /\ \A x \in r : f[x] <= t[r]
    BY <1>2
  <2> HIDE DEF t
  <2>4. t[s] \in Nat /\ f[Pick(s)] <= t[s] /\ t[r] <= t[s]
    BY <2>1, <2>2, <2>3
  <2>5. ASSUME NEW x \in s PROVE f[x] <= t[s]
    <3>1. CASE x = Pick(s)
      BY <2>4, <3>1
    <3>2. CASE x # Pick(s)
      <4>1. x \in r /\ x \in S
        BY <3>2
      <4>2. f[x] \in Nat /\ f[x] <= t[r]
        BY <2>3, <4>1
      <4> QED
        BY <2>3, <2>4, <4>2
    <3> QED
      BY <3>1, <3>2
  <2> QED
    BY <2>4, <2>5
<1>3. C = SUBSET S
  <2>1. C \in SUBSET (SUBSET S)
    OBVIOUS
  <2> HIDE DEF C
  <2> QED
    BY <1>1, <1>2, <2>1, SubsetInduction
<1>4. S \in C
  BY <1>3
<1> QED
  BY <1>4, SumIsPartial

(* A function changed at one argument changes its sum by the difference.   *)
LEMMA SumChanges ==
  ASSUME NEW f, NEW g, NEW S, IsFiniteSet(S), NEW k \in S,
         \A x \in S : f[x] \in Int /\ g[x] \in Int,
         \A x \in S \ {k} : g[x] = f[x]
  PROVE  SumOf(g, S) = SumOf(f, S) + g[k] - f[k]
<1> DEFINE t == Partial(f, S)
           u == Partial(g, S)
           C == {s \in SUBSET S : /\ t[s] \in Int /\ u[s] \in Int
                                  /\ u[s] = t[s] + (IF k \in s THEN g[k] - f[k] ELSE 0)}
<1>0. Steps(t, f, S) /\ Steps(u, g, S)
  BY PartialSteps
<1>1. {} \in C
  BY <1>0 DEF Steps
<1>2. ASSUME NEW s \in SUBSET S, s # {}, s \ {Pick(s)} \in C PROVE s \in C
  <2> DEFINE x == Pick(s)
             r == s \ {x}
  <2>1. x \in s /\ x \in S
    BY <1>2, PickIsMember
  <2>2. t[s] = f[x] + t[r] /\ u[s] = g[x] + u[r]
    BY <1>0, <1>2 DEF Steps
  <2>3. t[r] \in Int /\ u[r] \in Int /\ u[r] = t[r] + (IF k \in r THEN g[k] - f[k] ELSE 0)
    BY <1>2
  <2> HIDE DEF t, u, x
  <2>4. CASE x = k
    <3>1. k \in s /\ k \notin r
      BY <2>1, <2>4
    <3> QED
      BY <2>1, <2>2, <2>3, <2>4, <3>1
  <2>5. CASE x # k
    <3>1. (k \in s <=> k \in r) /\ g[x] = f[x]
      BY <2>1, <2>5
    <3> QED
      BY <2>1, <2>2, <2>3, <3>1
  <2> QED
    BY <2>4, <2>5
<1>3. C = SUBSET S
  <2>1. C \in SUBSET (SUBSET S)
    OBVIOUS
  <2> HIDE DEF C
  <2> QED
    BY <1>1, <1>2, <2>1, SubsetInduction
<1>4. S \in C
  BY <1>3
<1> HIDE DEF t, u
<1>5. u[S] = t[S] + (g[k] - f[k]) /\ t[S] \in Int
  BY <1>4
<1> QED
  BY <1>5, SumIsPartial DEF t, u

LEMMA SumDepends ==
  ASSUME NEW f, NEW g, NEW S, IsFiniteSet(S), \A x \in S : g[x] = f[x]
  PROVE  SumOf(g, S) = SumOf(f, S)
<1> DEFINE t == Partial(f, S)
           u == Partial(g, S)
           C == {s \in SUBSET S : u[s] = t[s]}
<1>0. Steps(t, f, S) /\ Steps(u, g, S)
  BY PartialSteps
<1>1. {} \in C
  BY <1>0 DEF Steps
<1>2. ASSUME NEW s \in SUBSET S, s # {}, s \ {Pick(s)} \in C PROVE s \in C
  <2>1. Pick(s) \in S
    BY <1>2, PickIsMember
  <2>2. /\ t[s] = f[Pick(s)] + t[s \ {Pick(s)}]
        /\ u[s] = g[Pick(s)] + u[s \ {Pick(s)}]
    BY <1>0, <1>2 DEF Steps
  <2> HIDE DEF t, u
  <2> QED
    BY <1>2, <2>1, <2>2
<1>3. C = SUBSET S
  <2>1. C \in SUBSET (SUBSET S)
    OBVIOUS
  <2> HIDE DEF C
  <2> QED
    BY <1>1, <1>2, <2>1, SubsetInduction
<1>4. S \in C
  BY <1>3
<1> QED
  BY <1>4, SumIsPartial

LEMMA SumOfZeros ==
  ASSUME NEW f, NEW S, IsFiniteSet(S), \A x \in S : f[x] = 0
  PROVE  SumOf(f, S) = 0
<1> DEFINE t == Partial(f, S)
           C == {s \in SUBSET S : t[s] = 0}
<1>0. Steps(t, f, S)
  BY PartialSteps
<1>1. {} \in C
  BY <1>0 DEF Steps
<1>2. ASSUME NEW s \in SUBSET S, s # {}, s \ {Pick(s)} \in C PROVE s \in C
  <2>1. f[Pick(s)] = 0
    BY <1>2, PickIsMember
  <2>2. t[s] = f[Pick(s)] + t[s \ {Pick(s)}]
    BY <1>0, <1>2 DEF Steps
  <2> HIDE DEF t
  <2> QED
    BY <1>2, <2>1, <2>2
<1>3. C = SUBSET S
  <2>1. C \in SUBSET (SUBSET S)
    OBVIOUS
  <2> HIDE DEF C
  <2> QED
    BY <1>1, <1>2, <2>1, SubsetInduction
<1>4. S \in C
  BY <1>3
<1> QED
  BY <1>4, SumIsPartial

(***************************************************************************)
(* One element comes or goes.                                              *)
(***************************************************************************)

(* A partial sum is the sum over that part.                                *)
LEMMA PartialIsSum ==
  ASSUME NEW f, NEW S, IsFiniteSet(S), NEW P \in SUBSET S
  PROVE  Partial(f, S)[P] = SumOf(f, P)
<1> DEFINE t == Partial(f, S)
           u == Partial(f, P)
           C == {s \in SUBSET P : t[s] = u[s]}
<1>0. Steps(t, f, S) /\ Steps(u, f, P) /\ IsFiniteSet(P)
  BY PartialSteps, FS_Subset
<1>1. {} \in C
  BY <1>0 DEF Steps
<1>2. ASSUME NEW s \in SUBSET P, s # {}, s \ {Pick(s)} \in C PROVE s \in C
  <2>1. /\ t[s] = f[Pick(s)] + t[s \ {Pick(s)}]
        /\ u[s] = f[Pick(s)] + u[s \ {Pick(s)}]
    BY <1>0, <1>2 DEF Steps
  <2> HIDE DEF t, u
  <2> QED
    BY <1>2, <2>1
<1>3. C = SUBSET P
  <2>1. C \in SUBSET (SUBSET P)
    OBVIOUS
  <2> HIDE DEF C
  <2> QED
    BY <1>0, <1>1, <1>2, <2>1, SubsetInduction
<1>4. P \in C
  BY <1>3
<1> QED
  BY <1>4, SumIsPartial

(* Any element may be taken out of a sum, not only the one it takes first. *)
LEMMA SumTakes ==
  ASSUME NEW f, NEW S, IsFiniteSet(S), \A x \in S : f[x] \in Int, NEW k \in S
  PROVE  SumOf(f, S) = f[k] + SumOf(f, S \ {k})
<1> DEFINE t == Partial(f, S)
           Takes(s) == t[s] \in Int /\ \A x \in s : t[s] = f[x] + t[s \ {x}]
           N == {n \in Nat : \A s \in SUBSET S : Cardinality(s) <= n => Takes(s)}
<1>0. Steps(t, f, S)
  BY PartialSteps
<1> HIDE DEF t
<1>c. \A s \in SUBSET S : IsFiniteSet(s) /\ Cardinality(s) \in Nat /\ (Cardinality(s) = 0 <=> s = {})
  BY FS_Subset, FS_CardinalityType, FS_EmptySet
<1>r. \A s \in SUBSET S : \A x \in s : Cardinality(s \ {x}) = Cardinality(s) - 1
  BY <1>c, FS_RemoveElement
<1>1. 0 \in N
  <2>1. ASSUME NEW s \in SUBSET S, Cardinality(s) <= 0 PROVE Takes(s)
    <3>1. s = {}
      BY <1>c, <2>1
    <3> QED
      BY <1>0, <3>1 DEF Steps
  <2> QED
    BY <2>1
<1>2. ASSUME NEW n \in N PROVE n + 1 \in N
  <2>1. ASSUME NEW s \in SUBSET S, Cardinality(s) <= n + 1 PROVE Takes(s)
    <3>1. CASE s = {}
      BY <1>0, <3>1 DEF Steps
    <3>2. CASE s # {}
      <4>1. PICK p \in s : t[s] = f[p] + t[s \ {p}]
        BY <1>0, <3>2, PickIsMember DEF Steps
      <4>2. \A x \in s : s \ {x} \in SUBSET S /\ Cardinality(s \ {x}) <= n
        BY <1>c, <1>r, <2>1
      <4>3. \A x \in s : Takes(s \ {x})
        BY <1>2, <4>2
      <4>4. t[s] \in Int
        BY <4>1, <4>3
      <4>5. ASSUME NEW x \in s, x # p PROVE t[s] = f[x] + t[s \ {x}]
        <5>1. /\ t[s \ {p}] = f[x] + t[(s \ {p}) \ {x}]
              /\ t[s \ {x}] = f[p] + t[(s \ {x}) \ {p}]
          BY <4>3, <4>5
        <5>2. (s \ {p}) \ {x} = (s \ {x}) \ {p} /\ (s \ {p}) \ {x} \in SUBSET S
          OBVIOUS
        <5>3. t[(s \ {p}) \ {x}] \in Int
          <6>1. s \ {p} \in SUBSET S /\ x \in s \ {p} /\ Cardinality(s \ {p}) <= n
            BY <4>2, <4>5
          <6>2. /\ Cardinality((s \ {p}) \ {x}) = Cardinality(s \ {p}) - 1
                /\ Cardinality(s \ {p}) \in Nat
            BY <1>c, <1>r, <6>1
          <6>3. Cardinality((s \ {p}) \ {x}) <= n
            BY <6>1, <6>2
          <6> QED
            BY <1>2, <5>2, <6>3
        <5>4. f[x] \in Int /\ f[p] \in Int
          OBVIOUS
        <5>5. PICK rest \in Int : rest = t[(s \ {p}) \ {x}]
          BY <5>3
        <5>6. t[s \ {p}] = f[x] + rest /\ t[s \ {x}] = f[p] + rest
          BY <5>1, <5>2, <5>5
        <5> QED
          BY <4>1, <5>4, <5>6
      <4> QED
        BY <4>1, <4>4, <4>5
    <3> QED
      BY <3>1, <3>2
  <2> QED
    BY <2>1
<1>3. N = Nat
  <2>1. N \in SUBSET Nat
    OBVIOUS
  <2> HIDE DEF N
  <2> QED
    BY <1>1, <1>2, <2>1, SetInduction
<1>4. Takes(S)
  BY <1>3, <1>c
<1>5. t[S] = SumOf(f, S) /\ t[S \ {k}] = SumOf(f, S \ {k})
  BY PartialIsSum DEF t
<1> QED
  BY <1>4, <1>5

LEMMA OneComes ==
  ASSUME NEW A, NEW B, IsFiniteSet(A), NEW k, k \notin A, B = A \cup {k}
  PROVE  IsFiniteSet(B) /\ Cardinality(B) = Cardinality(A) + 1
BY FS_AddElement

LEMMA OneGoes ==
  ASSUME NEW A, NEW B, IsFiniteSet(A), NEW k \in A, B = A \ {k}
  PROVE  IsFiniteSet(B) /\ Cardinality(B) = Cardinality(A) - 1
BY FS_RemoveElement
=============================================================================
