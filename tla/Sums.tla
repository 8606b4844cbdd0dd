-------------------------------- MODULE Sums --------------------------------
(***************************************************************************)
(* Sums of the values of a function over a finite set: what SumFunction of *)
(* the community modules computes.  An induction is on a set of natural    *)
(* numbers and not on a predicate: the numbers that have the property are  *)
(* all there are, since there is no least one that has it not.             *)
(***************************************************************************)
EXTENDS Functions, FiniteSetTheorems, WellFoundedInduction, TLAPS

LEMMA Induction ==
  ASSUME NEW T \in SUBSET Nat, 0 \in T, \A n \in T : n + 1 \in T
  PROVE  T = Nat
<1> DEFINE Less == OpToRel(<, Nat)
           Rest == Nat \ T
<1>1. ASSUME Rest # {} PROVE FALSE
  <2>1. \E x \in Rest : \A y \in Rest : ~ (<<y, x>> \in Less)
    <3>1. IsWellFoundedOn(Less, Nat)
      BY NatLessThanWellFounded
    <3>2. Rest \subseteq Nat
      OBVIOUS
    <3> HIDE DEF Less, Rest
    <3> QED
      BY <1>1, <3>1, <3>2, WFMin
  <2>2. PICK x \in Rest : \A y \in Rest : ~ (<<y, x>> \in Less)
    BY <2>1
  <2>3. \A y \in Rest : ~(y < x)
    BY <2>2 DEF OpToRel
  <2>4. x \in Nat /\ x # 0 /\ x - 1 \in Nat
    OBVIOUS
  <2>5. x - 1 \in T
    BY <2>3, <2>4
  <2> QED
    BY <2>4, <2>5
<1> QED
  BY <1>1

\* The member that a fold takes first.
Chosen(s) == CHOOSE x \in s : TRUE

Body(f, g, s) == IF s = {} THEN 0 ELSE f[Chosen(s)] + g[s \ {Chosen(s)}]

\* g gives the sum over every part of S.
Solves(f, S, g) == g = [s \in SUBSET S |-> Body(f, g, s)]

\* The sets of at most n members of S.
Small(S, n) == {s \in SUBSET S : Cardinality(s) <= n}

LEMMA SumIsChosen ==
  ASSUME NEW f, NEW S
  PROVE  SumFunctionOnSet(f, S) = (CHOOSE g : Solves(f, S, g))[S]
  BY DEF SumFunctionOnSet, FoldFunctionOnSet, MapThenFoldSet, Solves, Body, Chosen

LEMMA ChosenIn == ASSUME NEW s, s # {} PROVE Chosen(s) \in s
  BY Zenon DEF Chosen

\* Sums of more and more members are defined in turn.
LEMMA SumsExist ==
  ASSUME NEW f, NEW S, IsFiniteSet(S)
  PROVE  \E g : Solves(f, S, g)
<1> DEFINE T == {n \in Nat : \E g : g = [s \in Small(S, n) |-> Body(f, g, s)]}
<1>1. \A s \in SUBSET S : IsFiniteSet(s) /\ Cardinality(s) \in Nat
  BY FS_Subset, FS_CardinalityType
<1>2. \A s \in SUBSET S : s # {} =>
        /\ s \ {Chosen(s)} \in SUBSET S
        /\ Cardinality(s \ {Chosen(s)}) = Cardinality(s) - 1
  BY <1>1, ChosenIn, FS_RemoveElement
<1>3. 0 \in T
  <2> DEFINE g == [s \in Small(S, 0) |-> 0]
  <2>1. \A s \in Small(S, 0) : s = {}
    BY <1>1, FS_EmptySet DEF Small
  <2>2. \A s \in Small(S, 0) : Body(f, g, s) = 0
    BY <2>1 DEF Body
  <2>3. g = [s \in Small(S, 0) |-> Body(f, g, s)]
    BY <2>2
  <2> QED
    BY <2>3
<1>4. ASSUME NEW n \in T PROVE n + 1 \in T
  <2>1. PICK g : g = [s \in Small(S, n) |-> Body(f, g, s)]
    BY <1>4
  <2> DEFINE h == [s \in Small(S, n + 1) |-> Body(f, g, s)]
  <2>2. ASSUME NEW s \in Small(S, n + 1), s # {}
        PROVE  s \ {Chosen(s)} \in Small(S, n) /\ s \ {Chosen(s)} \in Small(S, n + 1)
    BY <1>1, <1>2, <2>2 DEF Small
  <2>3. \A s \in Small(S, n) : s \in Small(S, n + 1) => h[s] = g[s]
    <3>1. \A s \in Small(S, n) : g[s] = Body(f, g, s)
      BY <2>1
    <3> HIDE DEF Body
    <3> QED
      BY <3>1
  <2>4. \A s \in Small(S, n + 1) : Body(f, h, s) = Body(f, g, s)
    <3> HIDE DEF h
    <3> QED
      BY <2>2, <2>3 DEF Body
  <2>5. h = [s \in Small(S, n + 1) |-> Body(f, h, s)]
    BY <2>4
  <2>6. n + 1 \in Nat
    OBVIOUS
  <2> HIDE DEF h
  <2> QED
    BY <2>5, <2>6
<1>5. T = Nat
  <2>1. T \in SUBSET Nat
    OBVIOUS
  <2> HIDE DEF T
  <2> QED
    BY <1>3, <1>4, <2>1, Induction
<1>6. Cardinality(S) \in Nat
  BY <1>1
<1>7. Small(S, Cardinality(S)) = SUBSET S
  BY FS_Subset DEF Small
<1>8. Cardinality(S) \in T
  BY <1>5, <1>6
<1> QED
  BY <1>7, <1>8 DEF Solves

LEMMA SumOnSubset ==
  ASSUME NEW f, NEW S, IsFiniteSet(S), NEW g, Solves(f, S, g),
         NEW U, IsFiniteSet(U), NEW h, Solves(f, U, h),
         NEW s \in SUBSET S, s \in SUBSET U
  PROVE  g[s] = h[s]
<1> DEFINE T == {n \in Nat : \A t \in SUBSET (S \cap U) : Cardinality(t) <= n => g[t] = h[t]}
<1>1. \A t \in SUBSET (S \cap U) :
        /\ IsFiniteSet(t) /\ Cardinality(t) \in Nat
        /\ t \in SUBSET S /\ t \in SUBSET U
        /\ g[t] = Body(f, g, t) /\ h[t] = Body(f, h, t)
  BY FS_Subset, FS_CardinalityType DEF Solves
<1>2. \A t \in SUBSET (S \cap U) : t # {} =>
        /\ t \ {Chosen(t)} \in SUBSET (S \cap U)
        /\ Cardinality(t \ {Chosen(t)}) = Cardinality(t) - 1
  BY <1>1, ChosenIn, FS_RemoveElement
<1>3. 0 \in T
  <2>1. ASSUME NEW t \in SUBSET (S \cap U), Cardinality(t) <= 0 PROVE g[t] = h[t]
    <3>1. t = {}
      <4>1. IsFiniteSet(t) /\ Cardinality(t) \in Nat
        BY <1>1
      <4>2. Cardinality(t) = 0
        BY <2>1, <4>1
      <4> QED
        BY <4>1, <4>2, FS_EmptySet
    <3> QED
      BY <1>1, <3>1 DEF Body
  <2> QED
    BY <2>1
<1>4. ASSUME NEW n \in T PROVE n + 1 \in T
  <2>1. ASSUME NEW t \in SUBSET (S \cap U), Cardinality(t) <= n + 1 PROVE g[t] = h[t]
    <3>1. CASE t = {}
      BY <1>1, <3>1 DEF Body
    <3>2. CASE t # {}
      <4>1. /\ t \ {Chosen(t)} \in SUBSET (S \cap U)
            /\ Cardinality(t \ {Chosen(t)}) <= n
        <5>1. Cardinality(t) \in Nat
          BY <1>1
        <5>2. /\ t \ {Chosen(t)} \in SUBSET (S \cap U)
              /\ Cardinality(t \ {Chosen(t)}) = Cardinality(t) - 1
          BY <1>2, <3>2
        <5> QED
          BY <2>1, <5>1, <5>2
      <4>2. g[t \ {Chosen(t)}] = h[t \ {Chosen(t)}]
        BY <4>1
      <4> QED
        BY <1>1, <3>2, <4>2 DEF Body
    <3> QED
      BY <3>1, <3>2
  <2>2. n + 1 \in Nat
    OBVIOUS
  <2>3. \A t \in SUBSET (S \cap U) : Cardinality(t) <= n + 1 => g[t] = h[t]
    BY <2>1
  <2> QED
    BY <2>2, <2>3
<1>5. T = Nat
  <2>1. T \in SUBSET Nat
    OBVIOUS
  <2> HIDE DEF T
  <2> QED
    BY <1>3, <1>4, <2>1, Induction
<1>6. s \in SUBSET (S \cap U)
  OBVIOUS
<1>7. Cardinality(s) \in Nat
  BY <1>1, <1>6
<1>8. Cardinality(s) \in T
  BY <1>5, <1>7
<1>9. \A t \in SUBSET (S \cap U) : Cardinality(t) <= Cardinality(s) => g[t] = h[t]
  BY <1>8
<1>10. Cardinality(s) <= Cardinality(s)
  BY <1>7
<1> QED
  BY <1>6, <1>9, <1>10, Zenon

\* The equation of the definition.
LEMMA SumEquation ==
  ASSUME NEW f, NEW S, IsFiniteSet(S)
  PROVE  SumFunctionOnSet(f, S) =
           IF S = {} THEN 0 ELSE f[Chosen(S)] + SumFunctionOnSet(f, S \ {Chosen(S)})
<1> DEFINE U == S \ {Chosen(S)}
           g == CHOOSE k : Solves(f, S, k)
           h == CHOOSE k : Solves(f, U, k)
<1>1. IsFiniteSet(U) /\ U \in SUBSET S /\ U \in SUBSET U /\ S \in SUBSET S
  BY FS_RemoveElement
<1>2. Solves(f, S, g)
  BY SumsExist, Zenon
<1>3. Solves(f, U, h)
  BY <1>1, SumsExist, Zenon
<1>4. SumFunctionOnSet(f, S) = g[S] /\ SumFunctionOnSet(f, U) = h[U]
  BY SumIsChosen, Zenon
<1> HIDE DEF g, h
<1>5. g[S] = Body(f, g, S)
  BY <1>1, <1>2 DEF Solves
<1>6. g[U] = h[U]
  <2> HIDE DEF U
  <2> QED
    BY <1>1, <1>2, <1>3, SumOnSubset
<1> QED
  BY <1>4, <1>5, <1>6 DEF Body

LEMMA SumEmpty == ASSUME NEW f PROVE SumFunctionOnSet(f, {}) = 0
  BY SumEquation, FS_EmptySet

\* Any member may be taken first.
LEMMA SumRemove ==
  ASSUME NEW S, IsFiniteSet(S), NEW f, \A i \in S : f[i] \in Nat
  PROVE  /\ SumFunctionOnSet(f, S) \in Nat
         /\ \A x \in S : SumFunctionOnSet(f, S) = f[x] + SumFunctionOnSet(f, S \ {x})
<1> DEFINE Sum(s) == SumFunctionOnSet(f, s)
           Fits(s) == Sum(s) \in Nat /\ \A x \in s : Sum(s) = f[x] + Sum(s \ {x})
           T == {n \in Nat : \A s \in SUBSET S : Cardinality(s) <= n => Fits(s)}
<1>1. \A s \in SUBSET S : IsFiniteSet(s) /\ Cardinality(s) \in Nat
  BY FS_Subset, FS_CardinalityType
<1>2. \A s \in SUBSET S : \A x \in s :
        s \ {x} \in SUBSET S /\ Cardinality(s \ {x}) = Cardinality(s) - 1
  BY <1>1, FS_RemoveElement
<1>3. \A s \in SUBSET S : s # {} =>
        Chosen(s) \in s /\ Sum(s) = f[Chosen(s)] + Sum(s \ {Chosen(s)})
  BY <1>1, ChosenIn, SumEquation, Zenon
<1>4. Fits({})
  BY SumEmpty
<1>5. 0 \in T
  <2>1. ASSUME NEW s \in SUBSET S, Cardinality(s) <= 0 PROVE Fits(s)
    <3>1. IsFiniteSet(s) /\ Cardinality(s) \in Nat
      BY <1>1
    <3>2. s = {}
      <4>1. Cardinality(s) = 0
        BY <2>1, <3>1
      <4> QED
        BY <3>1, <4>1, FS_EmptySet
    <3> QED
      BY <1>4, <3>2, Zenon
  <2> HIDE DEF Fits
  <2> QED
    BY <2>1
<1>6. ASSUME NEW n \in T PROVE n + 1 \in T
  <2>1. \A s \in SUBSET S : Cardinality(s) <= n => Fits(s)
    BY <1>6
  <2>2. ASSUME NEW s \in SUBSET S, Cardinality(s) <= n + 1, s # {} PROVE Fits(s)
    <3> DEFINE c == Chosen(s)
    <3>1. c \in s /\ Sum(s) = f[c] + Sum(s \ {c})
      BY <1>3, <2>2
    <3>2. ASSUME NEW x \in s PROVE s \ {x} \in SUBSET S /\ Fits(s \ {x})
      <4>1. s \ {x} \in SUBSET S /\ Cardinality(s \ {x}) = Cardinality(s) - 1
        BY <1>2
      <4>2. Cardinality(s) \in Nat
        BY <1>1
      <4>3. Cardinality(s \ {x}) <= n
        BY <2>2, <4>1, <4>2
      <4> QED
        BY <2>1, <4>1, <4>3
    <3>3. f[c] \in Nat /\ \A x \in s : f[x] \in Nat
      BY <3>1
    <3>4. Sum(s \ {c}) \in Nat
      BY <3>1, <3>2
    <3> HIDE DEF c, Sum
    <3>5. Sum(s) \in Nat
      BY <3>1, <3>3, <3>4
    <3>6. ASSUME NEW x \in s PROVE Sum(s) = f[x] + Sum(s \ {x})
      <4>1. CASE x = c
        BY <3>1, <4>1
      <4>2. CASE x # c
        <5> DEFINE rest == (s \ {c}) \ {x}
        <5>1. Sum(s \ {c}) = f[x] + Sum(rest)
          BY <3>1, <3>2, <4>2
        <5>2. rest = (s \ {x}) \ {c} /\ c \in s \ {x}
          BY <3>1, <4>2
        <5>3. Sum(s \ {x}) = f[c] + Sum(rest) /\ Sum(s \ {x}) \in Nat
          BY <3>2, <5>2
        <5>4. Sum(rest) \in Nat
          <6>1. s \ {c} \in SUBSET S /\ Cardinality(s \ {c}) = Cardinality(s) - 1
            BY <1>2, <3>1
          <6>2. rest \in SUBSET S /\ Cardinality(rest) = Cardinality(s \ {c}) - 1
            <7>1. x \in s \ {c}
              BY <4>2
            <7> QED
              BY <1>2, <6>1, <7>1
          <6>3. Cardinality(s) \in Nat
            BY <1>1
          <6>4. Cardinality(rest) <= n
            BY <2>2, <6>1, <6>2, <6>3
          <6> QED
            BY <2>1, <6>2, <6>4
        <5> HIDE DEF rest
        <5> QED
          BY <3>1, <3>3, <5>1, <5>3, <5>4
      <4> QED
        BY <4>1, <4>2
    <3> QED
      BY <3>5, <3>6
  <2>3. n + 1 \in Nat
    OBVIOUS
  <2> HIDE DEF Fits
  <2>4. \A s \in SUBSET S : Cardinality(s) <= n + 1 => Fits(s)
    BY <1>4, <2>2
  <2> QED
    BY <2>3, <2>4
<1>7. T = Nat
  <2>1. T \in SUBSET Nat
    OBVIOUS
  <2> HIDE DEF T
  <2> QED
    BY <1>5, <1>6, <2>1, Induction
<1>8. Cardinality(S) \in Nat /\ S \in SUBSET S
  BY <1>1
<1>9. Cardinality(S) \in T
  BY <1>7, <1>8
<1> HIDE DEF Fits
<1>10. \A s \in SUBSET S : Cardinality(s) <= Cardinality(S) => Fits(s)
  BY <1>9
<1>11. Fits(S)
  BY <1>8, <1>10
<1> QED
  BY <1>11 DEF Fits
=============================================================================
