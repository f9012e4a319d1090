----------------------------- MODULE SumTheorems -----------------------------
(***************************************************************************)
(* What a finite sum of integers is: facts about the community operator    *)
(* SumFunctionOnSet, proved by taking a smallest counterexample in the     *)
(* well-founded order of finite sets under strict inclusion.               *)
(***************************************************************************)
EXTENDS Integers, FiniteSets, Functions, FiniteSetTheorems, WellFoundedInduction, TLAPS

\* A family of subsets of a finite set that holds every subset all of whose
\* proper subsets it holds is the family of all subsets.
LEMMA SubsetInduction ==
    ASSUME NEW S, IsFiniteSet(S), NEW T,
           \A s \in SUBSET S : (\A t \in SUBSET s : t # s => t \in T) => s \in T
    PROVE  SUBSET S \subseteq T
<1>. DEFINE U == (SUBSET S) \ T
            R == StrictSubsetOrdering(S)
<1>. SUFFICES ASSUME U # {} PROVE FALSE
     OBVIOUS
<1>1. PICK s \in U : \A t \in U : <<t, s>> \notin R
  <2>1. IsWellFoundedOn(R, SUBSET S)
    <3>1. IsWellFoundedOn(R, FiniteSubsetsOf(S))
          BY FS_StrictSubsetOrderingWellFounded
    <3>2. FiniteSubsetsOf(S) = SUBSET S
          BY FS_FiniteSubsetsOfFinite
    <3>. HIDE DEF R
    <3>. QED BY <3>1, <3>2
  <2>2. U \subseteq SUBSET S
        OBVIOUS
  <2>. HIDE DEF U, R
  <2>. QED BY <2>1, <2>2, WFMin
<1>2. s \in SUBSET S /\ s \notin T
      OBVIOUS
<1>3. \A t \in SUBSET s : t # s => t \in T
      BY <1>1, <1>2 DEF StrictSubsetOrdering
<1>. QED BY <1>2, <1>3

-----------------------------------------------------------------------------
(* The recursion a sum unfolds into *)

Pick(s) == CHOOSE x \in s : TRUE

\* g maps every subset of S to its sum.
SumsUpTo(f, S, g) ==
    g = [s \in SUBSET S |->
            IF s = {} THEN 0 ELSE f[Pick(s)] + g[s \ {Pick(s)}]]

LEMMA SumIsChosen ==
    ASSUME NEW f, NEW S
    PROVE  SumFunctionOnSet(f, S) = (CHOOSE g : SumsUpTo(f, S, g))[S]
BY DEF SumFunctionOnSet, FoldFunctionOnSet, MapThenFoldSet, Pick, SumsUpTo

LEMMA PickIn == ASSUME NEW s, s # {} PROVE Pick(s) \in s
BY DEF Pick

\* Two such maps agree where both are defined.
LEMMA SumsAgree ==
    ASSUME NEW f, NEW A, NEW B, NEW g, NEW h, NEW S, IsFiniteSet(S),
           S \subseteq A, S \subseteq B, SumsUpTo(f, A, g), SumsUpTo(f, B, h)
    PROVE  g[S] = h[S]
<1>. DEFINE T == {s \in SUBSET S : g[s] = h[s]}
<1>1. ASSUME NEW s \in SUBSET S, \A t \in SUBSET s : t # s => t \in T
      PROVE  s \in T
  <2>1. CASE s = {}
        BY <2>1 DEF SumsUpTo
  <2>2. CASE s # {}
    <3>1. Pick(s) \in s
          BY <2>2, PickIn
    <3>2. s \ {Pick(s)} \in T
          BY <1>1, <3>1
    <3>3. g[s] = f[Pick(s)] + g[s \ {Pick(s)}]
          BY <2>2 DEF SumsUpTo
    <3>4. h[s] = f[Pick(s)] + h[s \ {Pick(s)}]
          BY <2>2 DEF SumsUpTo
    <3>. QED BY <3>2, <3>3, <3>4
  <2>. QED BY <2>1, <2>2
<1>2. SUBSET S \subseteq T
  <2>. HIDE DEF T
  <2>. QED BY <1>1, SubsetInduction
<1>. QED BY <1>2

\* Such a map exists for every finite set.
LEMMA SumsExist ==
    ASSUME NEW f, NEW S, IsFiniteSet(S)
    PROVE  \E g : SumsUpTo(f, S, g)
<1>. DEFINE T == {s \in SUBSET S : \E g : SumsUpTo(f, s, g)}
            G(s) == CHOOSE g : SumsUpTo(f, s, g)
<1>1. ASSUME NEW s \in SUBSET S, \A t \in SUBSET s : t # s => t \in T
      PROVE  s \in T
  <2>. DEFINE rest(t) == t \ {Pick(t)}
              g == [t \in SUBSET s |->
                       IF t = {} THEN 0 ELSE f[Pick(t)] + G(rest(t))[rest(t)]]
  <2>1. ASSUME NEW t \in SUBSET s, t # s
        PROVE  SumsUpTo(f, t, G(t))
        BY <1>1, <2>1
  <2>2. ASSUME NEW t \in SUBSET s, t # {}
        PROVE  /\ rest(t) \in SUBSET t /\ rest(t) # s
               /\ rest(t) \in SUBSET s
        BY <2>2, PickIn
  <2>3. ASSUME NEW t \in SUBSET s, t # s
        PROVE  g[t] = G(t)[t]
    <3>1. CASE t = {}
      <4>1. G(t)[t] = 0
        <5>1. SumsUpTo(f, t, G(t))
              BY <2>1, <2>3
        <5>. HIDE DEF G
        <5>. QED BY <3>1, <5>1 DEF SumsUpTo
      <4>2. g[t] = 0
            BY <3>1
      <4>. QED BY <4>1, <4>2
    <3>2. CASE t # {}
      <4>1. SumsUpTo(f, t, G(t)) /\ SumsUpTo(f, rest(t), G(rest(t)))
            BY <2>1, <2>2, <2>3, <3>2
      <4>2. IsFiniteSet(rest(t))
            BY <2>2, <3>2, FS_Subset
      <4>3. G(t)[rest(t)] = G(rest(t))[rest(t)]
        <5>1. rest(t) \subseteq t
              OBVIOUS
        <5>. HIDE DEF G, rest
        <5>. QED BY <4>1, <4>2, <5>1, SumsAgree
      <4>4. G(t)[t] = f[Pick(t)] + G(t)[rest(t)]
            BY <3>2, <4>1 DEF SumsUpTo
      <4>. QED BY <3>2, <4>3, <4>4
    <3>. QED BY <3>1, <3>2
  <2>4. SumsUpTo(f, s, g)
    <3>1. ASSUME NEW t \in SUBSET s, t # {}
          PROVE  G(rest(t))[rest(t)] = g[rest(t)]
          BY <2>2, <2>3, <3>1
    <3>2. g = [t \in SUBSET s |->
                  IF t = {} THEN 0 ELSE f[Pick(t)] + g[rest(t)]]
      <4>. HIDE DEF G, rest
      <4>. QED BY <3>1
    <3>. HIDE DEF g
    <3>. QED BY <3>2 DEF SumsUpTo
  <2>. HIDE DEF g
  <2>. QED BY <2>4
<1>2. SUBSET S \subseteq T
  <2>. HIDE DEF T
  <2>. QED BY <1>1, SubsetInduction
<1>. QED BY <1>2

-----------------------------------------------------------------------------
(* The facts a proof about a sum needs *)

\* The recursion itself: a sum is the value at some element plus the rest.
LEMMA SumUnfolds ==
    ASSUME NEW f, NEW S, IsFiniteSet(S)
    PROVE  /\ SumFunctionOnSet(f, {}) = 0
           /\ S # {} => SumFunctionOnSet(f, S) =
                  f[Pick(S)] + SumFunctionOnSet(f, S \ {Pick(S)})
<1>. DEFINE G(s) == CHOOSE g : SumsUpTo(f, s, g)
            R == S \ {Pick(S)}
<1>1. /\ IsFiniteSet(R) /\ R \subseteq S
      BY FS_Subset
<1>2. SumsUpTo(f, S, G(S)) /\ SumsUpTo(f, R, G(R)) /\ SumsUpTo(f, {}, G({}))
      BY <1>1, SumsExist, FS_EmptySet
<1>3. SumFunctionOnSet(f, {}) = G({})[{}]
      BY SumIsChosen
<1>4. SumFunctionOnSet(f, S) = G(S)[S] /\ SumFunctionOnSet(f, R) = G(R)[R]
      BY SumIsChosen
<1>. HIDE DEF G, R
<1>5. SumFunctionOnSet(f, {}) = 0
      BY <1>2, <1>3 DEF SumsUpTo
<1>6. ASSUME S # {}
      PROVE  SumFunctionOnSet(f, S) = f[Pick(S)] + SumFunctionOnSet(f, R)
  <2>1. G(S)[R] = G(R)[R]
    <3>1. PICK g, h : g = G(S) /\ h = G(R)
          OBVIOUS
    <3>2. SumsUpTo(f, S, g) /\ SumsUpTo(f, R, h) /\ R \subseteq R
          BY <1>2, <3>1
    <3>3. g[R] = h[R]
          BY <1>1, <3>2, SumsAgree
    <3>. QED BY <3>1, <3>3
  <2>2. G(S)[S] = f[Pick(S)] + G(S)[R]
        BY <1>2, <1>6 DEF SumsUpTo, R
  <2>. QED BY <1>4, <2>1, <2>2
<1>. QED BY <1>5, <1>6 DEF R

LEMMA SumEmpty == ASSUME NEW f PROVE SumFunctionOnSet(f, {}) = 0
BY SumUnfolds, FS_EmptySet

\* A sum of integers is one; and it does not depend on the order it is taken
\* in: adding an element adds its value.
LEMMA SumAdds ==
    ASSUME NEW f, NEW S, IsFiniteSet(S), \A x \in S : f[x] \in Int
    PROVE  /\ SumFunctionOnSet(f, S) \in Int
           /\ \A x \in S : SumFunctionOnSet(f, S) =
                              SumFunctionOnSet(f, S \ {x}) + f[x]
<1>. DEFINE Sum(s) == SumFunctionOnSet(f, s)
            T == {s \in SUBSET S : /\ Sum(s) \in Int
                                   /\ \A x \in s : Sum(s) = Sum(s \ {x}) + f[x]}
<1>1. ASSUME NEW s \in SUBSET S, \A t \in SUBSET s : t # s => t \in T
      PROVE  s \in T
  <2>1. CASE s = {}
        BY <2>1, SumEmpty
  <2>2. CASE s # {}
    <3>1. PICK p : p = Pick(s)
          OBVIOUS
    <3>2. p \in s /\ s \ {p} \in T /\ f[p] \in Int
          BY <1>1, <2>2, <3>1, PickIn
    <3>3. Sum(s) = f[p] + Sum(s \ {p})
          BY <2>2, <3>1, SumUnfolds, FS_Subset
    <3>4. Sum(s \ {p}) \in Int
          BY <3>2
    <3>5. ASSUME NEW x \in s
          PROVE  Sum(s) = Sum(s \ {x}) + f[x]
      <4>1. CASE x = p
        <5>. HIDE DEF Sum
        <5>. QED BY <3>2, <3>3, <3>4, <4>1
      <4>2. CASE x # p
        <5>1. x \in s \ {p} /\ p \in s \ {x} /\ f[x] \in Int
              BY <3>2, <4>2
        <5>2. s \ {x} \in T /\ (s \ {p}) \ {x} \in T
              BY <1>1, <5>1
        <5>3. Sum(s \ {p}) = Sum((s \ {p}) \ {x}) + f[x]
              BY <3>2, <5>1
        <5>4. Sum(s \ {x}) = Sum((s \ {x}) \ {p}) + f[p]
              BY <5>1, <5>2
        <5>5. (s \ {x}) \ {p} = (s \ {p}) \ {x}
              OBVIOUS
        <5>6. PICK rest \in Int : rest = Sum((s \ {p}) \ {x})
              BY <5>2
        <5>. HIDE DEF Sum, T
        <5>7. Sum(s) = f[p] + (rest + f[x])
              BY <3>3, <5>3, <5>6
        <5>8. Sum(s \ {x}) = rest + f[p]
              BY <5>4, <5>5, <5>6
        <5>. QED BY <3>2, <5>1, <5>6, <5>7, <5>8
      <4>. QED BY <4>1, <4>2
    <3>6. Sum(s) \in Int
      <4>. HIDE DEF Sum
      <4>. QED BY <3>2, <3>3, <3>4
    <3>. QED BY <3>5, <3>6
  <2>. QED BY <2>1, <2>2
<1>2. SUBSET S \subseteq T
  <2>. HIDE DEF T
  <2>. QED BY <1>1, SubsetInduction
<1>. QED BY <1>2

\* A sum depends on the values of the function on the set, and on nothing else.
LEMMA SumCongruent ==
    ASSUME NEW S, IsFiniteSet(S), NEW f, NEW g, \A x \in S : f[x] = g[x]
    PROVE  SumFunctionOnSet(f, S) = SumFunctionOnSet(g, S)
<1>. DEFINE T == {s \in SUBSET S : SumFunctionOnSet(f, s) = SumFunctionOnSet(g, s)}
<1>1. ASSUME NEW s \in SUBSET S, \A t \in SUBSET s : t # s => t \in T
      PROVE  s \in T
  <2>1. CASE s = {}
        BY <2>1, SumEmpty
  <2>2. CASE s # {}
    <3>1. Pick(s) \in s /\ IsFiniteSet(s)
          BY <2>2, PickIn, FS_Subset
    <3>2. s \ {Pick(s)} \in T
          BY <1>1, <3>1
    <3>3. SumFunctionOnSet(f, s) = f[Pick(s)] + SumFunctionOnSet(f, s \ {Pick(s)})
          BY <2>2, <3>1, SumUnfolds
    <3>4. SumFunctionOnSet(g, s) = g[Pick(s)] + SumFunctionOnSet(g, s \ {Pick(s)})
          BY <2>2, <3>1, SumUnfolds
    <3>. QED BY <3>1, <3>2, <3>3, <3>4
  <2>. QED BY <2>1, <2>2
<1>2. SUBSET S \subseteq T
  <2>. HIDE DEF T
  <2>. QED BY <1>1, SubsetInduction
<1>. QED BY <1>2

\* One more element.
LEMMA SumAddElement ==
    ASSUME NEW S, IsFiniteSet(S), NEW x, x \notin S, NEW f,
           \A y \in S \cup {x} : f[y] \in Int
    PROVE  SumFunctionOnSet(f, S \cup {x}) = SumFunctionOnSet(f, S) + f[x]
<1>1. IsFiniteSet(S \cup {x})
      BY FS_AddElement
<1>2. (S \cup {x}) \ {x} = S
      OBVIOUS
<1>. QED BY <1>1, <1>2, SumAdds

\* The function changes at one element by d: the sum changes by d.
LEMMA SumChanges ==
    ASSUME NEW S, IsFiniteSet(S), NEW x \in S, NEW f, NEW g, NEW d \in Int,
           \A y \in S : f[y] \in Int, g[x] = f[x] + d,
           \A y \in S \ {x} : g[y] = f[y]
    PROVE  SumFunctionOnSet(g, S) = SumFunctionOnSet(f, S) + d
<1>1. IsFiniteSet(S \ {x}) /\ \A y \in S : g[y] \in Int
      BY FS_Subset
<1>2. SumFunctionOnSet(g, S \ {x}) = SumFunctionOnSet(f, S \ {x})
      BY <1>1, SumCongruent
<1>3. SumFunctionOnSet(g, S) = SumFunctionOnSet(g, S \ {x}) + g[x]
      BY <1>1, SumAdds
<1>4. SumFunctionOnSet(f, S) = SumFunctionOnSet(f, S \ {x}) + f[x]
      BY SumAdds
<1>5. SumFunctionOnSet(f, S \ {x}) \in Int
      BY <1>1, SumAdds
<1>. QED BY <1>2, <1>3, <1>4, <1>5

\* A sum of nothing but zeros.
LEMMA SumZero ==
    ASSUME NEW S, IsFiniteSet(S), NEW f, \A x \in S : f[x] = 0
    PROVE  SumFunctionOnSet(f, S) = 0
<1>. DEFINE T == {s \in SUBSET S : SumFunctionOnSet(f, s) = 0}
<1>1. ASSUME NEW s \in SUBSET S, \A t \in SUBSET s : t # s => t \in T
      PROVE  s \in T
  <2>1. CASE s = {}
        BY <2>1, SumEmpty
  <2>2. CASE s # {}
    <3>1. Pick(s) \in s /\ IsFiniteSet(s)
          BY <2>2, PickIn, FS_Subset
    <3>2. s \ {Pick(s)} \in T
          BY <1>1, <3>1
    <3>3. SumFunctionOnSet(f, s) = f[Pick(s)] + SumFunctionOnSet(f, s \ {Pick(s)})
          BY <2>2, <3>1, SumUnfolds
    <3>4. f[Pick(s)] = 0
          BY <3>1
    <3>5. SumFunctionOnSet(f, s \ {Pick(s)}) = 0
          BY <3>2
    <3>. QED BY <3>3, <3>4, <3>5
  <2>. QED BY <2>1, <2>2
<1>2. SUBSET S \subseteq T
  <2>. HIDE DEF T
  <2>. QED BY <1>1, SubsetInduction
<1>. QED BY <1>2

\* The sum of what two functions add up to is the sum of their sums.
LEMMA SumPointwise ==
    ASSUME NEW S, IsFiniteSet(S), NEW f, NEW g, NEW h,
           \A x \in S : f[x] \in Int /\ g[x] \in Int /\ h[x] = f[x] + g[x]
    PROVE  SumFunctionOnSet(h, S) = SumFunctionOnSet(f, S) + SumFunctionOnSet(g, S)
<1>. DEFINE Sum(u, s) == SumFunctionOnSet(u, s)
            T == {s \in SUBSET S : Sum(h, s) = Sum(f, s) + Sum(g, s)}
<1>1. ASSUME NEW s \in SUBSET S, \A t \in SUBSET s : t # s => t \in T
      PROVE  s \in T
  <2>1. CASE s = {}
        BY <2>1, SumEmpty
  <2>2. CASE s # {}
    <3>1. PICK x \in s : x = Pick(s)
          BY <2>2, PickIn
    <3>2. PICK r : r = s \ {x}
          OBVIOUS
    <3>3. IsFiniteSet(s) /\ IsFiniteSet(r) /\ r \in T /\ x \in S
          BY <1>1, <3>1, <3>2, FS_Subset
    <3>4. /\ Sum(f, s) = f[x] + Sum(f, r) /\ Sum(g, s) = g[x] + Sum(g, r)
          /\ Sum(h, s) = h[x] + Sum(h, r)
          BY <2>2, <3>1, <3>2, <3>3, SumUnfolds
    <3>5. Sum(f, r) \in Int /\ Sum(g, r) \in Int
          BY <3>2, <3>3, SumAdds
    <3>6. Sum(h, r) = Sum(f, r) + Sum(g, r)
          BY <3>3
    <3>. HIDE DEF Sum
    <3>7. Sum(h, s) = Sum(f, s) + Sum(g, s)
          BY <3>3, <3>4, <3>5, <3>6
    <3>. QED BY <3>7
  <2>. QED BY <2>1, <2>2
<1>2. SUBSET S \subseteq T
  <2>. HIDE DEF T
  <2>. QED BY <1>1, SubsetInduction
<1>. QED BY <1>2
==============================================================================
