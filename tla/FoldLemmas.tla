----------------------------- MODULE FoldLemmas -----------------------------
(***************************************************************************)
(* Facts about the folds of the community modules: what a fold over a      *)
(* finite set is, and sums.  An induction is stated over sets of subsets,  *)
(* and rests on strict inclusion of finite sets being well-founded.        *)
(***************************************************************************)
EXTENDS SequencesExt, FiniteSetTheorems, TLAPS

\* A set of subsets that has a set whenever it has all that lack one element
\* has every subset.
Inductive(D, T) == \A s \in SUBSET D : (\A x \in s : s \ {x} \in T) => s \in T
Subsets(D) == SUBSET D

LEMMA SubsetInduction ==
    ASSUME NEW D, IsFiniteSet(D), NEW T, Inductive(D, T)
    PROVE  Subsets(D) \subseteq T
<1> USE DEF Inductive, Subsets
<1> DEFINE B == (SUBSET D) \ T
<1> SUFFICES ASSUME B # {} PROVE FALSE OBVIOUS
<1>1. B \subseteq FiniteSubsetsOf(D) BY FS_Subset DEF FiniteSubsetsOf
<1>2. IsWellFoundedOn(StrictSubsetOrdering(D), FiniteSubsetsOf(D))
  BY FS_StrictSubsetOrderingWellFounded
<1>3. PICK s \in B : \A t \in B : <<t, s>> \notin StrictSubsetOrdering(D)
  <2> HIDE DEF B
  <2> QED BY <1>1, <1>2, WFMin
<1>4. ASSUME NEW x \in s PROVE s \ {x} \in T
  <2>1. s \in SUBSET D /\ s \ {x} \in SUBSET D /\ s \ {x} \subseteq s /\ s \ {x} # s BY <1>3, <1>4
  <2>2. <<s \ {x}, s>> \in StrictSubsetOrdering(D)
    <3> DEFINE t == s \ {x}
    <3>1. t \in SUBSET D /\ s \in SUBSET D /\ t \subseteq s /\ t # s BY <2>1
    <3> HIDE DEF t
    <3>2. <<t, s>> \in StrictSubsetOrdering(D) BY <3>1 DEF StrictSubsetOrdering
    <3> QED BY <3>2 DEF t
  <2> QED BY <1>3, <2>1, <2>2
<1> QED BY <1>3, <1>4

\* A fold is defined on every subset of a finite set.
FoldsTo(g, s, b, pick, st) == g[s] = IF s = {} THEN b ELSE st[<<pick[s], g[s \ {pick[s]}]>>]

LEMMA FoldExists ==
    ASSUME NEW D, IsFiniteSet(D), NEW V, NEW b \in V,
           NEW pick, \A s \in SUBSET D : s # {} => pick[s] \in s,
           NEW st, \A x \in D, v \in V : st[<<x, v>>] \in V
    PROVE  \E g \in [SUBSET D -> V] : \A s \in SUBSET D : FoldsTo(g, s, b, pick, st)
<1> DEFINE Upto(g, n) == \A s \in SUBSET D : Cardinality(s) <= n => FoldsTo(g, s, b, pick, st)
           T == {E \in SUBSET D : \E g \in [SUBSET D -> V] : Upto(g, Cardinality(E))}
<1>1. ASSUME NEW E \in SUBSET D, \A x \in E : E \ {x} \in T PROVE E \in T
  <2>1. CASE E = {}
    <3> DEFINE g == [s \in SUBSET D |-> b]
    <3>1. g \in [SUBSET D -> V] OBVIOUS
    <3>2. ASSUME NEW s \in SUBSET D, Cardinality(s) <= Cardinality(E) PROVE FoldsTo(g, s, b, pick, st)
      <4>1. IsFiniteSet(s) /\ Cardinality(s) \in Nat BY FS_Subset, FS_CardinalityType
      <4>2. s = {} BY <2>1, <3>2, <4>1, FS_EmptySet
      <4> QED BY <4>2 DEF FoldsTo
    <3> QED BY <3>1, <3>2
  <2>2. ASSUME NEW x \in E PROVE E \in T
    <3>1. IsFiniteSet(E) /\ Cardinality(E) \in Nat BY FS_Subset, FS_CardinalityType
    <3>2. Cardinality(E \ {x}) = Cardinality(E) - 1 BY <2>2, <3>1, FS_RemoveElement
    <3>3. PICK g \in [SUBSET D -> V] : Upto(g, Cardinality(E) - 1)
      <4>1. E \ {x} \in T BY <1>1, <2>2
      <4> QED BY <3>2, <4>1
    <3> DEFINE h == [s \in SUBSET D |-> IF s = {} THEN b ELSE st[<<pick[s], g[s \ {pick[s]}]>>]]
    <3>4. h \in [SUBSET D -> V]
      <4>1. ASSUME NEW s \in SUBSET D, s # {} PROVE st[<<pick[s], g[s \ {pick[s]}]>>] \in V
        <5>1. pick[s] \in D /\ s \ {pick[s]} \in SUBSET D BY <4>1
        <5>2. g[s \ {pick[s]}] \in V BY <5>1
        <5> QED BY <5>1, <5>2
      <4> QED BY <4>1
    <3>5. ASSUME NEW s \in SUBSET D, Cardinality(s) <= Cardinality(E) PROVE FoldsTo(h, s, b, pick, st)
      <4>1. CASE s = {} BY <4>1 DEF FoldsTo
      <4>2. CASE s # {}
        <5> DEFINE t == s \ {pick[s]}
        <5>1. pick[s] \in s /\ t \in SUBSET D BY <4>2
        <5>2. IsFiniteSet(s) /\ Cardinality(s) \in Nat BY FS_Subset, FS_CardinalityType
        <5>3. Cardinality(t) = Cardinality(s) - 1
          <6>1. \A y : Cardinality(s \ {y}) = IF y \in s THEN Cardinality(s) - 1 ELSE Cardinality(s)
            BY <5>2, FS_RemoveElement
          <6> QED BY <5>1, <6>1
        <5>4. Cardinality(t) <= Cardinality(E) - 1 BY <3>1, <3>5, <5>2, <5>3
        <5>5. FoldsTo(g, t, b, pick, st) BY <3>3, <5>1, <5>4
        <5>6. h[t] = g[t] BY <5>1, <5>5 DEF FoldsTo
        <5>7. h[s] = st[<<pick[s], g[t]>>] BY <4>2
        <5> QED BY <4>2, <5>6, <5>7 DEF FoldsTo
      <4> QED BY <4>1, <4>2
    <3> HIDE DEF h
    <3>6. Upto(h, Cardinality(E)) BY <3>5
    <3> QED BY <3>4, <3>6
  <2> QED BY <2>1, <2>2
<1>2. D \in T
  <2>1. D \in Subsets(D) BY DEF Subsets
  <2>2. Inductive(D, T) BY <1>1 DEF Inductive
  <2> HIDE DEF T
  <2> QED BY <2>1, <2>2, SubsetInduction
<1>3. PICK g \in [SUBSET D -> V] : Upto(g, Cardinality(D)) BY <1>2
<1>4. \A s \in SUBSET D : Cardinality(s) <= Cardinality(D) BY FS_Subset
<1> QED BY <1>3, <1>4

\* The sum, one element after the other.
Some(s) == CHOOSE x \in s : TRUE
SumsUp(g, F, D) == \A s \in Subsets(D) : g[s] = IF s = {} THEN 0 ELSE F[Some(s)] + g[s \ {Some(s)}]

LEMMA SubsetsAre ==
    ASSUME NEW D, NEW s \in Subsets(D)
    PROVE  /\ s \subseteq D /\ D \in Subsets(D) /\ {} \in Subsets(D)
           /\ s # {} => Some(s) \in s /\ Some(s) \in D
           /\ \A x : s \ {x} \in Subsets(D)
           /\ IsFiniteSet(D) => IsFiniteSet(s)
BY FS_Subset DEF Subsets, Some

LEMMA SumUnfolds ==
    ASSUME NEW S, IsFiniteSet(S), NEW F, \A x \in S : F[x] \in Nat
    PROVE  \E g \in [Subsets(S) -> Nat] : SumFunctionOnSet(F, S) = g[S] /\ SumsUp(g, F, S)
<1> DEFINE R(g) == [s \in Subsets(S) |-> IF s = {} THEN 0 ELSE F[Some(s)] + g[s \ {Some(s)}]]
           pick == [s \in Subsets(S) |-> Some(s)]
           st == [y \in S \X Nat |-> F[y[1]] + y[2]]
<1>1. \E g \in [Subsets(S) -> Nat] : \A s \in Subsets(S) : FoldsTo(g, s, 0, pick, st)
  <2>1. \A s \in Subsets(S) : s # {} => pick[s] \in s BY SubsetsAre
  <2>2. \A x \in S, v \in Nat : st[<<x, v>>] \in Nat OBVIOUS
  <2>3. 0 \in Nat OBVIOUS
  <2> HIDE DEF pick, st
  <2> QED BY <2>1, <2>2, <2>3, FoldExists DEF Subsets
<1>2. PICK g \in [Subsets(S) -> Nat] : \A s \in Subsets(S) : FoldsTo(g, s, 0, pick, st) BY <1>1
<1>3. ASSUME NEW s \in Subsets(S), s # {} PROVE g[s] = F[Some(s)] + g[s \ {Some(s)}]
  <2>1. pick[s] = Some(s) /\ Some(s) \in S /\ s \ {Some(s)} \in Subsets(S) BY <1>3, SubsetsAre
  <2>2. g[s] = st[<<Some(s), g[s \ {Some(s)}]>>] BY <1>2, <1>3, <2>1 DEF FoldsTo
  <2> QED BY <2>1, <2>2
<1>4. g[{}] = 0
  <2>1. {} \in Subsets(S) BY DEF Subsets
  <2> QED BY <1>2, <2>1 DEF FoldsTo
<1>5. g = R(g) BY <1>2, <1>3, <1>4
<1> HIDE DEF pick, st
<1> DEFINE k == CHOOSE h : h = R(h)
<1>6. k = R(k) BY <1>5
<1>7. k[S] = SumFunctionOnSet(F, S)
  BY DEF SumFunctionOnSet, FoldFunctionOnSet, MapThenFoldSet, Some, Subsets
<1>8. SumsUp(k, F, S)
  <2> HIDE DEF k
  <2> QED BY <1>6 DEF SumsUp
<1>9. k \in [Subsets(S) -> Nat]
  <2> DEFINE T == {s \in Subsets(S) : k[s] \in Nat}
  <2> HIDE DEF k
  <2>1. ASSUME NEW s \in Subsets(S), \A x \in s : s \ {x} \in T PROVE s \in T
    <3>0. k[s] = IF s = {} THEN 0 ELSE F[Some(s)] + k[s \ {Some(s)}] BY <1>8 DEF SumsUp
    <3>1. CASE s = {} BY <3>0, <3>1
    <3>2. CASE s # {}
      <4>1. Some(s) \in s /\ Some(s) \in S BY <3>2, SubsetsAre
      <4>2. k[s \ {Some(s)}] \in Nat BY <2>1, <4>1
      <4> QED BY <3>0, <3>2, <4>1, <4>2
    <3> QED BY <3>1, <3>2
  <2>2. Subsets(S) \subseteq T
    <3> HIDE DEF T
    <3>1. Inductive(S, T) BY <2>1 DEF Inductive, Subsets
    <3> QED BY <3>1, SubsetInduction
  <2>3. k = [s \in Subsets(S) |-> k[s]] BY <1>6
  <2> QED BY <2>2, <2>3
<1> HIDE DEF k
<1> QED BY <1>7, <1>8, <1>9

\* The sum over a set is that over the rest of it and one element more.
LEMMA SumFirst ==
    ASSUME NEW S, IsFiniteSet(S), NEW F, \A x \in S : F[x] \in Nat
    PROVE  /\ SumFunctionOnSet(F, S) \in Nat
           /\ SumFunctionOnSet(F, S) = IF S = {} THEN 0 ELSE F[Some(S)] + SumFunctionOnSet(F, S \ {Some(S)})
<1>0. S \in Subsets(S) BY DEF Subsets
<1>1. PICK g \in [Subsets(S) -> Nat] : SumFunctionOnSet(F, S) = g[S] /\ SumsUp(g, F, S)
  BY SumUnfolds
<1>2. CASE S = {} BY <1>0, <1>1, <1>2 DEF SumsUp
<1>3. CASE S # {}
  <2> DEFINE E == S \ {Some(S)}
  <2>1. IsFiniteSet(E) /\ (\A x \in E : F[x] \in Nat) /\ E \in Subsets(S) /\ E \in Subsets(E) /\ E \subseteq S
    BY FS_Subset DEF Subsets
  <2> HIDE DEF E
  <2>2. PICK h \in [Subsets(E) -> Nat] : SumFunctionOnSet(F, E) = h[E] /\ SumsUp(h, F, E)
    BY <2>1, SumUnfolds
  <2> DEFINE T == {s \in Subsets(E) : g[s] = h[s]}
  <2>3. ASSUME NEW s \in Subsets(E), \A x \in s : s \ {x} \in T PROVE s \in T
    <3>1. s \in Subsets(S) BY <2>1 DEF Subsets
    <3>2. /\ g[s] = IF s = {} THEN 0 ELSE F[Some(s)] + g[s \ {Some(s)}]
          /\ h[s] = IF s = {} THEN 0 ELSE F[Some(s)] + h[s \ {Some(s)}]
      BY <1>1, <2>2, <3>1 DEF SumsUp
    <3>3. s # {} => g[s \ {Some(s)}] = h[s \ {Some(s)}] BY <2>3, SubsetsAre
    <3> QED BY <3>2, <3>3
  <2>4. E \in T
    <3> HIDE DEF T
    <3>1. Inductive(E, T) BY <2>3 DEF Inductive, Subsets
    <3> QED BY <2>1, <3>1, SubsetInduction
  <2>5. g[S] = F[Some(S)] + g[E] BY <1>0, <1>1, <1>3 DEF E, SumsUp
  <2>6. SumFunctionOnSet(F, S) = F[Some(S)] + SumFunctionOnSet(F, E) BY <1>1, <2>2, <2>4, <2>5
  <2>7. SumFunctionOnSet(F, S) \in Nat BY <1>0, <1>1
  <2> QED BY <1>3, <2>6, <2>7 DEF E
<1> QED BY <1>2, <1>3

LEMMA SumRemove ==
    ASSUME NEW S, IsFiniteSet(S), NEW F, \A x \in S : F[x] \in Nat, NEW x \in S
    PROVE  SumFunctionOnSet(F, S) = F[x] + SumFunctionOnSet(F, S \ {x})
<1> DEFINE A(s) == SumFunctionOnSet(F, s)
           T == {s \in Subsets(S) : \A y \in s : A(s) = F[y] + A(s \ {y})}
<1>1. ASSUME NEW s \in Subsets(S), s # {}
      PROVE  A(s) = F[Some(s)] + A(s \ {Some(s)}) /\ Some(s) \in s
  <2>1. IsFiniteSet(s) /\ Some(s) \in s /\ \A y \in s : F[y] \in Nat BY <1>1, SubsetsAre
  <2> QED BY <1>1, <2>1, SumFirst
<1>2. ASSUME NEW s \in Subsets(S) PROVE A(s) \in Nat
  <2>1. IsFiniteSet(s) /\ \A y \in s : F[y] \in Nat BY SubsetsAre
  <2> QED BY <2>1, SumFirst
<1> HIDE DEF A
<1>3. ASSUME NEW s \in Subsets(S), \A y \in s : s \ {y} \in T PROVE s \in T
  <2> SUFFICES ASSUME NEW y \in s PROVE A(s) = F[y] + A(s \ {y}) OBVIOUS
  <2> DEFINE p == Some(s)
  <2>1. p \in s /\ A(s) = F[p] + A(s \ {p}) BY <1>1
  <2> HIDE DEF p
  <2>2. CASE y = p BY <2>1, <2>2
  <2>3. CASE y # p
    <3> DEFINE sy == s \ {y}
               sp == s \ {p}
               r == s \ {y, p}
    <3>1. sy \in T /\ sp \in T /\ p \in sy /\ y \in sp /\ sy \ {p} = r /\ sp \ {y} = r
      BY <1>3, <2>1, <2>3
    <3>2. A(sy) = F[p] + A(r) /\ A(sp) = F[y] + A(r) BY <3>1
    <3>3. r \in Subsets(S) /\ p \in S /\ y \in S BY <2>1 DEF Subsets
    <3>4. A(r) \in Nat /\ F[p] \in Nat /\ F[y] \in Nat BY <1>2, <3>3
    <3> HIDE DEF sy, sp, r
    <3>5. A(s) = F[p] + (F[y] + A(r)) BY <2>1, <3>2 DEF sp
    <3>6. A(s) = F[y] + A(sy) BY <3>2, <3>4, <3>5
    <3> QED BY <3>6 DEF sy
  <2> QED BY <2>2, <2>3
<1>4. S \in T
  <2>1. S \in Subsets(S) BY DEF Subsets
  <2> HIDE DEF T
  <2>2. Inductive(S, T) BY <1>3 DEF Inductive, Subsets
  <2> QED BY <2>1, <2>2, SubsetInduction
<1> QED BY <1>4 DEF A

\* Functions that agree on a set have the same sum over it.
LEMMA SumAgree ==
    ASSUME NEW S, IsFiniteSet(S), NEW F, NEW G, \A x \in S : F[x] \in Nat /\ G[x] = F[x]
    PROVE  SumFunctionOnSet(F, S) = SumFunctionOnSet(G, S)
<1> DEFINE T == {s \in Subsets(S) : SumFunctionOnSet(F, s) = SumFunctionOnSet(G, s)}
<1>1. ASSUME NEW s \in Subsets(S), \A x \in s : s \ {x} \in T PROVE s \in T
  <2>1. IsFiniteSet(s) /\ \A x \in s : F[x] \in Nat /\ G[x] = F[x] BY SubsetsAre
  <2>2. CASE s = {} BY <2>1, <2>2, SumFirst
  <2>3. CASE s # {}
    <3>1. Some(s) \in s BY <2>3, SubsetsAre
    <3>2. SumFunctionOnSet(F, s \ {Some(s)}) = SumFunctionOnSet(G, s \ {Some(s)}) BY <1>1, <3>1
    <3>3. SumFunctionOnSet(F, s) = F[Some(s)] + SumFunctionOnSet(F, s \ {Some(s)}) BY <2>1, <2>3, SumFirst
    <3>4. SumFunctionOnSet(G, s) = G[Some(s)] + SumFunctionOnSet(G, s \ {Some(s)}) BY <2>1, <2>3, SumFirst
    <3> QED BY <2>1, <3>1, <3>2, <3>3, <3>4
  <2> QED BY <2>2, <2>3
<1>2. S \in T
  <2>1. S \in Subsets(S) BY DEF Subsets
  <2> HIDE DEF T
  <2>2. Inductive(S, T) BY <1>1 DEF Inductive, Subsets
  <2> QED BY <2>1, <2>2, SubsetInduction
<1> QED BY <1>2

(***************************************************************************)
(* The ends of a set of numbers.                                           *)
(***************************************************************************)
LEMMA Greatest ==
    ASSUME NEW S \in SUBSET Nat, IsFiniteSet(S), S # {}
    PROVE  Max(S) \in S /\ \A j \in S : Max(S) >= j
<1> DEFINE T == {s \in Subsets(S) : s # {} => \E i \in s : \A j \in s : i >= j}
<1>1. ASSUME NEW s \in Subsets(S), \A x \in s : s \ {x} \in T PROVE s \in T
  <2> SUFFICES ASSUME NEW x \in s PROVE \E i \in s : \A j \in s : i >= j OBVIOUS
  <2> s \subseteq Nat BY DEF Subsets
  <2>1. CASE s \ {x} = {}
    <3>1. \A j \in s : j = x BY <2>1
    <3> QED BY <3>1
  <2>2. CASE s \ {x} # {}
    <3>1. PICK i \in s \ {x} : \A j \in s \ {x} : i >= j BY <1>1, <2>2
    <3>2. CASE i >= x BY <3>1, <3>2
    <3>3. CASE ~(i >= x)
      <4>1. \A j \in s : x >= j BY <3>1, <3>3
      <4> QED BY <4>1
    <3> QED BY <3>2, <3>3
  <2> QED BY <2>1, <2>2
<1>2. S \in T
  <2>1. S \in Subsets(S) BY DEF Subsets
  <2> HIDE DEF T
  <2>2. Inductive(S, T) BY <1>1 DEF Inductive, Subsets
  <2> QED BY <2>1, <2>2, SubsetInduction
<1>3. \E i \in S : \A j \in S : i >= j BY <1>2
<1> QED BY <1>3 DEF Max

LEMMA Least ==
    ASSUME NEW S \in SUBSET Nat, S # {}
    PROVE  \E i \in S : \A j \in S : i <= j
<1>1. PICK n \in S : TRUE OBVIOUS
<1> DEFINE U == {n - i : i \in S \cap (0..n)}
<1>2. U \in SUBSET Nat /\ (\A u \in U : u <= n) /\ n - n \in U BY <1>1
<1>3. IsFiniteSet(U)
  <2> HIDE DEF U
  <2> QED BY <1>1, <1>2, FS_BoundedSetOfNaturals
<1>4. Max(U) \in U /\ \A u \in U : Max(U) >= u
  <2> HIDE DEF U
  <2> QED BY <1>2, <1>3, Greatest
<1>5. PICK i \in S \cap (0..n) : Max(U) = n - i BY <1>4
<1>6. ASSUME NEW j \in S PROVE i <= j
  <2>0. i \in Nat /\ j \in Nat /\ n \in Nat /\ i <= n OBVIOUS
  <2>1. CASE j <= n
    <3>1. n - j \in U BY <2>1
    <3>2. n - i >= n - j BY <1>4, <1>5, <3>1
    <3> HIDE DEF U
    <3> QED BY <2>0, <3>2
  <2>2. CASE ~(j <= n) BY <2>0, <2>2
  <2> QED BY <2>1, <2>2
<1> QED BY <1>5, <1>6
=============================================================================
