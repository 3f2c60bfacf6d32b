--------------------------- MODULE AnalysisProofs ---------------------------
(* That the preview of a preparation is what the rule selects from          *)
(* everything the providers have, for any rule, providers and data. First,  *)
(* what a ranking selects and how functions defined by recursion over the   *)
(* stages behave; then, stage by stage, what the resolver knows about the   *)
(* survivors on a date; and from this the invariants of the analysis.       *)
EXTENDS Analysis, FiniteSetTheorems, WellFoundedInduction, TLAPS

-----------------------------------------------------------------------------
(* Numbers, and functions defined by recursion.                             *)

\* A set of numbers has a least, and below a bound a greatest member.
LEMMA LeastMember ==
    ASSUME NEW T, T \subseteq Nat, T # {}
    PROVE  \E x \in T : \A y \in T : x <= y
  <1>1. \E R : IsWellFoundedOn(R, Nat) /\ \A x, y \in Nat : y < x => <<y, x>> \in R
    <2>1. \A x, y \in Nat : y < x => <<y, x>> \in OpToRel(<, Nat)
      BY DEF OpToRel
    <2> QED BY <2>1, NatLessThanWellFounded
  <1>2. PICK R : IsWellFoundedOn(R, Nat) /\ \A x, y \in Nat : y < x => <<y, x>> \in R
    BY <1>1
  <1>3. PICK x \in T : \A y \in T : ~ (<<y, x>> \in R)
    BY <1>2, WFMin
  <1>4. ASSUME NEW y \in T
        PROVE  x <= y
    <2>1. x \in Nat /\ y \in Nat
      OBVIOUS
    <2>2. ~ (y < x)
      BY <1>2, <1>3, <2>1, Zenon
    <2> QED BY <2>1, <2>2
  <1> QED BY <1>4

LEMMA GreatestMember ==
    ASSUME NEW T, NEW bound \in Nat, T \subseteq 0 .. bound, T # {}
    PROVE  \E x \in T : \A y \in T : y <= x
  <1> DEFINE back == {bound - t : t \in T}
  <1>1. PICK b \in back : \A c \in back : b <= c
    <2>1. back \subseteq Nat
      OBVIOUS
    <2>2. back # {}
      OBVIOUS
    <2> HIDE DEF back
    <2> QED BY <2>1, <2>2, LeastMember
  <1>2. PICK x \in T : b = bound - x
    BY <1>1
  <1>3. ASSUME NEW y \in T PROVE y <= x
    <2>1. b <= bound - y
      BY <1>1
    <2> QED BY <2>1, <1>2
  <1> QED BY <1>3

\* What holds of 0, and of each number if it holds of the one before.
LEMMA UpTo ==
    ASSUME NEW N \in Nat, NEW Good, 0 \in Good, \A n \in 1 .. N : n - 1 \in Good => n \in Good
    PROVE  0 .. N \subseteq Good
  <1> DEFINE bad == {n \in 0 .. N : n \notin Good}
  <1> SUFFICES ASSUME bad # {} PROVE FALSE
    OBVIOUS
  <1>1. PICK x \in bad : \A y \in bad : x <= y
    <2>1. bad \subseteq Nat
      OBVIOUS
    <2> HIDE DEF bad
    <2> QED BY <2>1, LeastMember
  <1>2. x \in 1 .. N /\ x \notin Good
    BY <1>1
  <1>3. x - 1 \notin bad
    BY <1>1, <1>2
  <1>4. x - 1 \in 0 .. N
    BY <1>2
  <1> QED BY <1>2, <1>3, <1>4

\* A recursion over 1 .. N that stays in D, and a function that follows it.
IsRecursion(G, N, D) == \A n \in 1 .. N : \A x \in D : G[n][x] \in D

Follows(f, N, D, x0, G) ==
    f \in [0 .. N -> D] /\ f[0] = x0 /\ \A n \in 1 .. N : f[n] = G[n][f[n - 1]]

\* Every recursion is followed by a function.
LEMMA Recursion ==
    ASSUME NEW N \in Nat, NEW D, NEW x0 \in D, NEW G, IsRecursion(G, N, D)
    PROVE  \E f : Follows(f, N, D, x0, G)
  <1> DEFINE Runs(m, f) == f[0] = x0 /\ \A n \in 1 .. m : f[n] = G[n][f[n - 1]]
             Good == {m \in 0 .. N : \E f \in [0 .. m -> D] : Runs(m, f)}
  <1>1. 0 \in Good
    <2>1. [n \in 0 .. 0 |-> x0] \in [0 .. 0 -> D]
      OBVIOUS
    <2>2. Runs(0, [n \in 0 .. 0 |-> x0])
      OBVIOUS
    <2> HIDE DEF Runs
    <2> QED BY <2>1, <2>2
  <1>2. ASSUME NEW n \in 1 .. N, n - 1 \in Good
        PROVE  n \in Good
    <2>1. PICK f \in [0 .. n - 1 -> D] : Runs(n - 1, f)
      BY <1>2
    <2>2. n - 1 \in 0 .. n - 1 /\ n \in 0 .. N
      OBVIOUS
    <2>3. G[n][f[n - 1]] \in D
      BY <2>1, <2>2 DEF IsRecursion
    <2> DEFINE g == [i \in 0 .. n |-> IF i = n THEN G[n][f[n - 1]] ELSE f[i]]
    <2>4. g \in [0 .. n -> D]
      <3>1. ASSUME NEW i \in 0 .. n
            PROVE  (IF i = n THEN G[n][f[n - 1]] ELSE f[i]) \in D
        <4>1. CASE i = n
          BY <2>3, <4>1
        <4>2. CASE i # n
          <5>1. i \in 0 .. n - 1
            BY <4>2
          <5> QED BY <2>1, <4>2, <5>1
        <4> QED BY <4>1, <4>2
      <3> QED BY <3>1
    <2>5. \A i \in 0 .. n - 1 : g[i] = f[i]
      OBVIOUS
    <2>6. g[n] = G[n][f[n - 1]]
      OBVIOUS
    <2> HIDE DEF g
    <2>7. g[0] = x0
      BY <2>1, <2>5
    <2>8. ASSUME NEW i \in 1 .. n
          PROVE  g[i] = G[i][g[i - 1]]
      <3>1. i - 1 \in 0 .. n - 1 /\ g[i - 1] = f[i - 1]
        BY <2>5
      <3>2. CASE i = n
        BY <2>6, <3>1, <3>2
      <3>3. CASE i # n
        <4>1. i \in 0 .. n - 1 /\ i \in 1 .. n - 1
          BY <3>3
        <4>2. g[i] = f[i] /\ f[i] = G[i][f[i - 1]]
          BY <2>1, <2>5, <4>1
        <4> QED BY <3>1, <4>2
      <3> QED BY <3>2, <3>3
    <2>9. Runs(n, g)
      BY <2>7, <2>8
    <2> HIDE DEF Runs
    <2> QED BY <2>2, <2>4, <2>9
  <1>3. N \in Good
    <2> HIDE DEF Good
    <2>1. 0 .. N \subseteq Good
      BY <1>1, <1>2, UpTo
    <2> QED BY <2>1
  <1> QED BY <1>3 DEF Follows


-----------------------------------------------------------------------------
(* Rankings.                                                                *)

Ahead(value, E, s) == {t \in E : Precedes(value, t, s)}

\* The limit best of E: as many as there are up to the limit, and nobody
\* outside precedes anybody inside.
Best(value, E, limit, T) ==
    /\ T \subseteq E
    /\ Cardinality(T) = (IF Cardinality(E) < limit THEN Cardinality(E) ELSE limit)
    /\ \A s \in T, t \in E \ T : Precedes(value, s, t)

LEMMA PrecedesIsAnOrder ==
    ASSUME NEW E, E \subseteq Nat, NEW value, \A s \in E : value[s] \in Nat
    PROVE  /\ \A s \in E : ~ Precedes(value, s, s)
           /\ \A s, t \in E : s # t => Precedes(value, s, t) \/ Precedes(value, t, s)
           /\ \A s, t, x \in E : Precedes(value, s, t) /\ Precedes(value, t, x) => Precedes(value, s, x)
           /\ \A s, t \in E : Precedes(value, s, t) => ~ Precedes(value, t, s)
  BY DEF Precedes

\* Who precedes another has fewer ahead.
LEMMA FewerAhead ==
    ASSUME NEW E, E \subseteq Nat, IsFiniteSet(E), NEW value, \A s \in E : value[s] \in Nat,
           NEW s \in E, NEW t \in E
    PROVE  /\ IsFiniteSet(Ahead(value, E, s)) /\ Cardinality(Ahead(value, E, s)) \in Nat
           /\ Precedes(value, s, t)
                => Cardinality(Ahead(value, E, s)) < Cardinality(Ahead(value, E, t))
  <1>1. /\ \A u \in E : ~ Precedes(value, u, u)
        /\ \A u, x, y \in E : Precedes(value, u, x) /\ Precedes(value, x, y) => Precedes(value, u, y)
    BY PrecedesIsAnOrder
  <1>2. Ahead(value, E, s) \in SUBSET E /\ Ahead(value, E, t) \in SUBSET E
    BY DEF Ahead
  <1>3. /\ IsFiniteSet(Ahead(value, E, s)) /\ Cardinality(Ahead(value, E, s)) \in Nat
        /\ IsFiniteSet(Ahead(value, E, t)) /\ Cardinality(Ahead(value, E, t)) \in Nat
    BY <1>2, FS_Subset, FS_CardinalityType
  <1>4. ASSUME Precedes(value, s, t)
        PROVE  Cardinality(Ahead(value, E, s)) < Cardinality(Ahead(value, E, t))
    <2>1. Ahead(value, E, s) \in SUBSET Ahead(value, E, t)
      BY <1>1, <1>4 DEF Ahead
    <2>2. s \in Ahead(value, E, t) /\ s \notin Ahead(value, E, s)
      BY <1>1, <1>4 DEF Ahead
    <2>3. Cardinality(Ahead(value, E, s)) <= Cardinality(Ahead(value, E, t))
          /\ Cardinality(Ahead(value, E, s)) # Cardinality(Ahead(value, E, t))
      BY <1>3, <2>1, <2>2, FS_Subset
    <2> QED BY <1>3, <2>3
  <1> QED BY <1>3, <1>4

\* Those with fewer than limit ahead are the limit best.
LEMMA FirstAreBest ==
    ASSUME NEW E, E \subseteq Nat, IsFiniteSet(E), NEW value, \A s \in E : value[s] \in Nat,
           NEW limit \in Nat \ {0},
           NEW T, T = {s \in E : Cardinality(Ahead(value, E, s)) < limit}
    PROVE  Best(value, E, limit, T)
  <1> DEFINE place == [s \in E |-> Cardinality(Ahead(value, E, s))]
  <1>1. place \in [E -> Nat]
    BY FewerAhead
  <1>2. \A s, t \in E : Precedes(value, s, t) => place[s] < place[t]
    BY FewerAhead
  <1>3. \A s, t \in E : s # t => Precedes(value, s, t) \/ Precedes(value, t, s)
    BY PrecedesIsAnOrder
  <1>4. T = {s \in E : place[s] < limit}
    OBVIOUS
  <1>5. \A s \in E : place[s] = Cardinality(Ahead(value, E, s)) /\ IsFiniteSet(Ahead(value, E, s))
    BY FewerAhead
  <1> HIDE DEF place
  <1>6. T \in SUBSET E
    BY <1>4
  <1>7. IsFiniteSet(T) /\ Cardinality(T) \in Nat /\ Cardinality(T) <= Cardinality(E)
        /\ Cardinality(E) \in Nat
    BY <1>6, FS_Subset, FS_CardinalityType
  <1>8. ASSUME NEW s \in T, NEW t \in E \ T
        PROVE  Precedes(value, s, t)
    <2>1. s \in E /\ t \in E /\ s # t /\ place[s] < limit /\ ~ (place[t] < limit)
      BY <1>4, <1>8
    <2>2. place[s] \in Nat /\ place[t] \in Nat
      BY <1>1, <2>1
    <2>3. ~ Precedes(value, t, s)
      BY <1>2, <2>1, <2>2
    <2> QED BY <1>3, <2>1, <2>3
  <1>9. Cardinality(T) <= limit
    <2>1. CASE T = {}
      <3>1. Cardinality(T) = 0
        BY <2>1, FS_EmptySet, Zenon
      <3> QED BY <3>1
    <2>2. CASE T # {}
      <3> DEFINE places == {place[s] : s \in T}
      <3>1. places \subseteq 0 .. limit /\ places # {}
        <4>1. \A s \in T : place[s] \in 0 .. limit
          BY <1>1, <1>4
        <4> QED BY <2>2, <4>1
      <3>2. PICK p \in places : \A q \in places : q <= p
        <4> HIDE DEF places
        <4> QED BY <3>1, GreatestMember
      <3>3. PICK m \in T : p = place[m]
        BY <3>2
      <3>4. m \in E /\ place[m] \in Nat /\ place[m] < limit
        BY <1>1, <1>4
      <3>5. \A s \in T : place[s] <= place[m]
        BY <3>2, <3>3
      <3>6. T \in SUBSET (Ahead(value, E, m) \cup {m})
        <4>1. ASSUME NEW s \in T, s # m
              PROVE  s \in Ahead(value, E, m)
          <5>1. s \in E /\ place[s] \in Nat
            BY <1>1, <1>4
          <5>2. ~ Precedes(value, m, s)
            BY <1>2, <3>4, <3>5, <5>1
          <5> QED BY <1>3, <3>4, <4>1, <5>1, <5>2 DEF Ahead
        <4> QED BY <4>1
      <3>7. IsFiniteSet(Ahead(value, E, m) \cup {m})
            /\ Cardinality(Ahead(value, E, m) \cup {m}) <= place[m] + 1
        <4>1. IsFiniteSet(Ahead(value, E, m)) /\ place[m] = Cardinality(Ahead(value, E, m))
          BY <1>5, <3>4
        <4>2. m \notin Ahead(value, E, m)
          BY <3>4, PrecedesIsAnOrder DEF Ahead
        <4>3. /\ IsFiniteSet(Ahead(value, E, m) \cup {m})
              /\ Cardinality(Ahead(value, E, m) \cup {m}) = Cardinality(Ahead(value, E, m)) + 1
          BY <4>1, <4>2, FS_AddElement
        <4> QED BY <3>4, <4>1, <4>3
      <3>8. Cardinality(Ahead(value, E, m) \cup {m}) \in Nat
        BY <3>7, FS_CardinalityType
      <3>9. Cardinality(T) <= Cardinality(Ahead(value, E, m) \cup {m})
        BY <3>6, <3>7, FS_Subset
      <3> QED BY <1>7, <3>4, <3>7, <3>8, <3>9
    <2> QED BY <2>1, <2>2
  <1>10. T # E => limit <= Cardinality(T)
    <2>1. SUFFICES ASSUME T # E PROVE limit <= Cardinality(T)
      OBVIOUS
    <2> DEFINE places == {place[s] : s \in E \ T}
    <2>2. places \subseteq Nat /\ places # {}
      BY <1>1, <1>6, <2>1
    <2>3. PICK p \in places : \A q \in places : p <= q
      <3> HIDE DEF places
      <3> QED BY <2>2, LeastMember
    <2>4. PICK m \in E \ T : p = place[m]
      BY <2>3
    <2>5. \A s \in E \ T : place[m] <= place[s]
      BY <2>3, <2>4
    <2>6. Ahead(value, E, m) \in SUBSET T
      <3>1. ASSUME NEW s \in Ahead(value, E, m), s \notin T
            PROVE  FALSE
        <4>1. s \in E /\ Precedes(value, s, m)
          BY DEF Ahead
        <4>2. place[s] < place[m] /\ place[m] <= place[s]
          BY <1>2, <2>5, <3>1, <4>1
        <4> QED BY <1>1, <4>1, <4>2
      <3> QED BY <3>1
    <2>7. place[m] <= Cardinality(T)
      BY <1>5, <1>7, <2>6, FS_Subset
    <2>8. ~ (place[m] < limit) /\ place[m] \in Nat
      BY <1>1, <1>4
    <2> QED BY <1>7, <2>7, <2>8
  <1>11. Cardinality(T) = (IF Cardinality(E) < limit THEN Cardinality(E) ELSE limit)
    BY <1>7, <1>9, <1>10
  <1> QED BY <1>6, <1>8, <1>11 DEF Best

\* There is one set of the limit best.
LEMMA BestIsUnique ==
    ASSUME NEW E, E \subseteq Nat, IsFiniteSet(E), NEW value, \A s \in E : value[s] \in Nat,
           NEW limit, NEW S, NEW T, Best(value, E, limit, S), Best(value, E, limit, T)
    PROVE  S = T
  <1>1. S \in SUBSET E /\ T \in SUBSET E /\ Cardinality(S) = Cardinality(T)
    BY DEF Best
  <1>2. IsFiniteSet(S) /\ IsFiniteSet(T)
    BY <1>1, FS_Subset
  <1>3. ASSUME NEW s \in S, s \notin T
        PROVE  FALSE
    <2>1. PICK t \in T : t \notin S
      <3>1. CASE T \in SUBSET S
        <4>1. S = T
          BY <1>1, <1>2, <3>1, FS_Subset
        <4> QED BY <1>3, <4>1
      <3> QED BY <3>1
    <2>2. Precedes(value, s, t) /\ Precedes(value, t, s)
      BY <1>1, <1>3, <2>1 DEF Best
    <2> QED BY <1>1, <2>1, <2>2, PrecedesIsAnOrder
  <1>4. S \in SUBSET T
    BY <1>3
  <1> QED BY <1>1, <1>2, <1>4, FS_Subset

-----------------------------------------------------------------------------
(* The survivors of the stages.                                             *)

Stages == [criterion : Criteria, limit : Nat \ {0}]

TrueValues(w, d, stage, C) == [s \in C |-> TrueValue(w, d, stage.criterion, s)]

\* What a stage leaves of the candidates C when everything is known.
Narrowed(w, d, stage, C) == Selected(TrueValues(w, d, stage, C), stage.limit)

LEMMA TrueValuesAreNumbers ==
    ASSUME NEW w \in World, NEW d \in Dates, NEW stage \in Stages, NEW C \in SUBSET Symbols
    PROVE  TrueValues(w, d, stage, C) \in [C -> Nat]
  <1> SUFFICES ASSUME NEW s \in C
               PROVE  TrueValue(w, d, stage.criterion, s) \in Nat
    BY DEF TrueValues
  <1>1. /\ w.cap[d][s] \in Nat /\ w.income[s] \in Nat /\ w.fall[s] \in Nat
    BY DEF World
  <1>2. stage.criterion \in {"MARKET_CAP", "TRADING_VALUE", "PER", "ROE", "DECLINE"}
    BY DEF Stages, Criteria
  <1>3. CASE stage.criterion \in {"MARKET_CAP", "TRADING_VALUE"}
    BY <1>1, <1>3 DEF TrueValue, IsKrx
  <1>4. CASE stage.criterion = "PER"
    <2>1. TrueValue(w, d, stage.criterion, s)
            = IF w.cap[d][s] = 0 THEN 0 ELSE (100 * w.income[s]) \div w.cap[d][s]
      BY <1>4 DEF TrueValue, IsKrx
    <2> DEFINE a == w.cap[d][s]
               b == 100 * w.income[s]
    <2>2. a \in Nat /\ b \in Nat
      BY <1>1
    <2> HIDE DEF a, b
    <2>3. a # 0 => b \div a \in Nat
      BY <2>2
    <2> QED BY <2>1, <2>3 DEF a, b
  <1>5. CASE stage.criterion = "ROE"
    BY <1>1, <1>5 DEF TrueValue, IsKrx
  <1>6. CASE stage.criterion = "DECLINE"
    BY <1>1, <1>6 DEF TrueValue, IsKrx
  <1> QED BY <1>2, <1>3, <1>4, <1>5, <1>6

\* rankUniverseStage selects the limit best of those with a value.
LEMMA SelectedIsBest ==
    ASSUME NEW C \in SUBSET Symbols, NEW value \in [C -> Nat], NEW limit \in Nat \ {0}
    PROVE  /\ Selected(value, limit) \in SUBSET C
           /\ Best(value, {s \in C : value[s] > 0}, limit, Selected(value, limit))
  <1> DEFINE E == {s \in C : value[s] > 0}
  <1>1. Selected(value, limit) = {s \in E : Cardinality(Ahead(value, E, s)) < limit}
    BY DEF Selected, Ahead
  <1>2. E \in SUBSET Symbols
    OBVIOUS
  <1>3. E \subseteq Nat /\ IsFiniteSet(E)
    BY <1>2, ResolverAssumption, FS_Subset
  <1>4. \A s \in E : value[s] \in Nat
    OBVIOUS
  <1>5. E \in SUBSET C
    OBVIOUS
  <1> HIDE DEF E
  <1>7. Best(value, E, limit, Selected(value, limit))
    <2>1. PICK T : T = Selected(value, limit)
      OBVIOUS
    <2>2. T = {s \in E : Cardinality(Ahead(value, E, s)) < limit}
      BY <1>1, <2>1
    <2>3. Best(value, E, limit, T)
      BY <1>3, <1>4, <2>2, FirstAreBest
    <2> QED BY <2>1, <2>3
  <1>8. Selected(value, limit) \in SUBSET C
    BY <1>1, <1>5
  <1> QED BY <1>7, <1>8 DEF E

\* There is one set of the best, which is the one that is selected.
LEMMA TheBestAreSelected ==
    ASSUME NEW w \in World, NEW d \in Dates, NEW stage \in Stages, NEW C \in SUBSET Symbols
    PROVE  (CHOOSE T \in SUBSET C : IsBest(T, C, w, d, stage)) = Narrowed(w, d, stage, C)
  <1> DEFINE value == TrueValues(w, d, stage, C)
             E == {s \in C : value[s] > 0}
             N == Narrowed(w, d, stage, C)
  <1>1. value \in [C -> Nat] /\ stage.limit \in Nat \ {0}
    BY TrueValuesAreNumbers DEF Stages
  <1>2. ASSUME NEW T \in SUBSET C
        PROVE  IsBest(T, C, w, d, stage) <=> Best(value, E, stage.limit, T)
    BY DEF IsBest, Best, Precedes, TrueValues
  <1>3. E \in SUBSET Symbols /\ \A s \in E : value[s] \in Nat
    BY <1>1
  <1>4. E \subseteq Nat /\ IsFiniteSet(E)
    BY <1>3, ResolverAssumption, FS_Subset
  <1>5. N \in SUBSET C /\ Best(value, E, stage.limit, N)
    BY <1>1, SelectedIsBest DEF Narrowed
  <1> HIDE DEF E, value, N
  <1>6. \A T \in SUBSET C : Best(value, E, stage.limit, T) => T = N
    BY <1>3, <1>4, <1>5, BestIsUnique
  <1>7. IsBest(N, C, w, d, stage)
    BY <1>2, <1>5
  <1>8. \A T \in SUBSET C : IsBest(T, C, w, d, stage) => T = N
    BY <1>2, <1>6
  <1>9. (CHOOSE T \in SUBSET C : IsBest(T, C, w, d, stage)) = N
    BY <1>5, <1>7, <1>8
  <1> QED BY <1>9 DEF N

LEMMA NarrowedIsASubset ==
    ASSUME NEW w \in World, NEW d \in Dates, NEW stage \in Stages, NEW C \in SUBSET Symbols
    PROVE  Narrowed(w, d, stage, C) \in SUBSET C
  <1>1. stage.limit \in Nat \ {0}
    BY DEF Stages
  <1>2. TrueValues(w, d, stage, C) \in [C -> Nat]
    BY TrueValuesAreNumbers
  <1> QED BY <1>1, <1>2, SelectedIsBest DEF Narrowed

\* The survivors of a stage are what it leaves of those of the stage before.
LEMMA SurvivorsOfAStage ==
    ASSUME NEW w \in World, NEW d \in Dates, NEW excluded, rule \in Seq(Stages)
    PROVE  /\ Survivors(w, d, excluded, 0) = w.listed[d] \ excluded
           /\ \A n \in 1 .. Len(rule) :
                 Survivors(w, d, excluded, n) = Narrowed(w, d, rule[n], Survivors(w, d, excluded, n - 1))
           /\ \A n \in 0 .. Len(rule) : Survivors(w, d, excluded, n) \in SUBSET Symbols
  <1> DEFINE N == Len(rule)
             D == SUBSET Symbols
             x0 == w.listed[d] \ excluded
             G == [n \in 1 .. N |-> [C \in D |-> Narrowed(w, d, rule[n], C)]]
             Step(f) == [k \in 0 .. N |->
                           IF k = 0 THEN w.listed[d] \ excluded
                           ELSE CHOOSE T \in SUBSET f[k - 1] : IsBest(T, f[k - 1], w, d, rule[k])]
  <1>1. N \in Nat /\ \A n \in 1 .. N : rule[n] \in Stages
    OBVIOUS
  <1>2. x0 \in D
    BY DEF World
  <1>3. ASSUME NEW n \in 1 .. N, NEW C \in D
        PROVE  G[n][C] \in D
    <2>1. Narrowed(w, d, rule[n], C) \in SUBSET C
      BY <1>1, NarrowedIsASubset
    <2> QED BY <2>1
  <1>4. PICK f : Follows(f, N, D, x0, G)
    <2>1. IsRecursion(G, N, D)
      BY <1>3 DEF IsRecursion
    <2> HIDE DEF N, D, x0, G, Step
    <2> QED BY <2>1, <1>1, <1>2, Recursion
  <1>  f \in [0 .. N -> D] /\ f[0] = x0 /\ \A n \in 1 .. N : f[n] = G[n][f[n - 1]]
    BY <1>4 DEF Follows
  <1>5. ASSUME NEW n \in 1 .. N
        PROVE  /\ n - 1 \in 0 .. N /\ f[n - 1] \in D
               /\ f[n] = Narrowed(w, d, rule[n], f[n - 1])
               /\ (CHOOSE T \in SUBSET f[n - 1] : IsBest(T, f[n - 1], w, d, rule[n]))
                     = Narrowed(w, d, rule[n], f[n - 1])
    <2>1. n - 1 \in 0 .. N /\ n \in 0 .. N /\ n # 0 /\ f[n - 1] \in D
      BY <1>1
    <2>2. f[n] = G[n][f[n - 1]]
      BY <1>4, <2>1
    <2>3. G[n][f[n - 1]] = Narrowed(w, d, rule[n], f[n - 1])
      BY <2>1
    <2>4. rule[n] \in Stages
      BY <1>1
    <2> HIDE DEF G
    <2> QED BY <2>1, <2>2, <2>3, <2>4, TheBestAreSelected
  <1>6. f = Step(f)
    <2>1. ASSUME NEW n \in 0 .. N
          PROVE  f[n] = Step(f)[n]
      <3>1. CASE n = 0
        BY <1>4, <3>1
      <3>2. CASE n # 0
        <4>1. n \in 1 .. N
          BY <1>1, <3>2
        <4> QED BY <1>5, <3>2, <4>1
      <3> QED BY <3>1, <3>2
    <2> QED BY <2>1
  <1>7. PICK g : g = CHOOSE h : h = Step(h)
    OBVIOUS
  <1>8. g = Step(g)
    <2> HIDE DEF Step
    <2> QED BY <1>6, <1>7, Zenon
  <1>9. \A n : Survivors(w, d, excluded, n) = g[n]
    BY <1>7 DEF Survivors
  <1>10. 0 .. N \subseteq {n \in 0 .. N : g[n] = f[n]}
    <2> DEFINE Good == {n \in 0 .. N : g[n] = f[n]}
    <2>1. 0 \in Good
      BY <1>1, <1>4, <1>8
    <2>2. ASSUME NEW n \in 1 .. N, n - 1 \in Good
          PROVE  n \in Good
      <3>1. g[n - 1] = f[n - 1]
        BY <2>2
      <3>2. n \in 0 .. N /\ n # 0
        BY <1>1
      <3>3. g[n] = Step(g)[n]
        BY <1>8, Zenon
      <3>4. Step(g)[n] = CHOOSE T \in SUBSET g[n - 1] : IsBest(T, g[n - 1], w, d, rule[n])
        BY <3>2, Zenon
      <3>5. (CHOOSE T \in SUBSET g[n - 1] : IsBest(T, g[n - 1], w, d, rule[n])) = f[n]
        <4>1. (CHOOSE T \in SUBSET f[n - 1] : IsBest(T, f[n - 1], w, d, rule[n])) = f[n]
          BY <1>5
        <4> QED BY <3>1, <4>1
      <3> HIDE DEF Step
      <3> QED BY <3>2, <3>3, <3>4, <3>5
    <2> HIDE DEF Good, N
    <2>3. 0 .. N \subseteq Good
      BY <1>1, <2>1, <2>2, UpTo
    <2> QED BY <2>3 DEF Good
  <1>11. \A n \in 0 .. N : Survivors(w, d, excluded, n) = f[n]
    BY <1>9, <1>10
  <1>12. f[0] = w.listed[d] \ excluded
    BY <1>1, <1>4
  <1>13. ASSUME NEW n \in 1 .. N
         PROVE  Survivors(w, d, excluded, n)
                  = Narrowed(w, d, rule[n], Survivors(w, d, excluded, n - 1))
    <2>1. n \in 0 .. N /\ n - 1 \in 0 .. N
      BY <1>1
    <2> QED BY <1>5, <1>11, <2>1, Zenon
  <1>14. \A n \in 0 .. N : Survivors(w, d, excluded, n) \in D
    BY <1>11
  <1>15. 0 \in 0 .. N
    BY <1>1
  <1>16. Survivors(w, d, excluded, 0) = w.listed[d] \ excluded
    BY <1>11, <1>12, <1>15, Zenon
  <1> QED BY <1>13, <1>14, <1>16

-----------------------------------------------------------------------------
(* What a stage knows.                                                      *)

Needs == ({"METRIC", "PRICE"} \X Dates) \cup ({"FINANCIAL", "ACTION"} \X Symbols)

\* What the outcome r of a stage over C may be.
Sound(r, stage, C, u, w, data, d) ==
    /\ r.ready \in BOOLEAN /\ r.failed \in BOOLEAN /\ r.value \in [C -> Nat]
    /\ r.needs \subseteq Needs \ data /\ r.out \subseteq C
    /\ r.failed => w.faulty # {}
    /\ ~ r.ready /\ ~ u => r.needs # {}
    /\ r.ready /\ (u \/ r.out = {}) => r.value = TrueValues(w, d, stage, C)
    /\ \A s : <<"FINANCIAL", s>> \in r.needs \/ <<"ACTION", s>> \in r.needs => s \in C
    /\ IsKrx(stage.criterion) =>
         /\ ~ r.failed /\ r.needs \subseteq {<<"METRIC", d>>}
         /\ IF r.ready THEN r.value = TrueValues(w, d, stage, C) ELSE <<"METRIC", d>> \in r.needs

LEMMA KrxStageIsSound ==
    ASSUME NEW w \in World, NEW d \in Dates, NEW stage \in Stages, IsKrx(stage.criterion),
           NEW C \in SUBSET Symbols, C # {}, NEW u \in BOOLEAN, NEW data
    PROVE  Sound(KrxStage(stage.criterion, C, u, w, data, d), stage, C, u, w, data, d)
  <1> DEFINE c == stage.criterion
             r == KrxStage(c, C, u, w, data, d)
             value == [s \in C |-> IF c = "MARKET_CAP" THEN Cap(w, data, d, s)
                                   ELSE Traded(w, data, d, s)]
             blank == {s \in C : value[s] = 0}
             ready == Ingested(data, d) \/ (c = "MARKET_CAP" /\ blank = {})
  <1>1. /\ r.ready = ready /\ r.failed = FALSE /\ r.value = value
        /\ r.needs = IF ready THEN {} ELSE {<<"METRIC", d>>}
        /\ r.out = IF ready /\ ~ u THEN blank ELSE {}
    BY DEF KrxStage
  <1>2. \A s \in C : w.cap[d][s] \in Nat
    BY DEF World
  <1>3. value \in [C -> Nat]
    BY <1>2 DEF Cap, Traded
  <1>4. ~ ready => <<"METRIC", d>> \in Needs \ data
    BY DEF Ingested, Needs
  <1>5. ready => value = TrueValues(w, d, stage, C)
    <2>. \A s \in C : TrueValue(w, d, c, s) = w.cap[d][s]
      BY DEF TrueValue, IsKrx
    <2>1. SUFFICES ASSUME ready, NEW s \in C PROVE value[s] = w.cap[d][s]
      <3> HIDE DEF ready
      <3> QED BY DEF TrueValues
    <2>2. CASE Ingested(data, d)
      BY <2>2 DEF Cap, Traded
    <2>3. CASE c = "MARKET_CAP" /\ blank = {}
      <3>1. value[s] = Cap(w, data, d, s) /\ value[s] # 0
        BY <2>3
      <3> HIDE DEF value
      <3> QED BY <3>1 DEF Cap
    <2> QED BY <2>1, <2>2, <2>3
  <1>6. blank \subseteq C /\ ready \in BOOLEAN
    OBVIOUS
  <1>7. \A s : <<"FINANCIAL", s>> # <<"METRIC", d>> /\ <<"ACTION", s>> # <<"METRIC", d>>
    OBVIOUS
  <1> HIDE DEF r, ready, value, blank
  <1>8. r.needs \subseteq Needs \ data /\ r.needs \subseteq {<<"METRIC", d>>}
        /\ (~ ready => <<"METRIC", d>> \in r.needs)
    BY <1>1, <1>4
  <1>9. \A s : <<"FINANCIAL", s>> \notin r.needs /\ <<"ACTION", s>> \notin r.needs
    BY <1>7, <1>8
  <1>10. Sound(r, stage, C, u, w, data, d)
    BY <1>1, <1>3, <1>5, <1>6, <1>8, <1>9 DEF Sound
  <1> QED BY <1>10 DEF r

LEMMA DartStageIsSound ==
    ASSUME NEW w \in World, NEW d \in Dates, NEW stage \in Stages, stage.criterion \in {"PER", "ROE"},
           NEW C \in SUBSET Symbols, C # {}, NEW u \in BOOLEAN, NEW data
    PROVE  Sound(DartStage(stage.criterion, C, u, w, data, d), stage, C, u, w, data, d)
  <1> DEFINE c == stage.criterion
             r == DartStage(c, C, u, w, data, d)
             missing == C \ With(data, "FINANCIAL")
             uncapped == {s \in C : c = "PER" /\ Cap(w, data, d, s) = 0}
             capNeed == uncapped # {} /\ ~ Ingested(data, d)
             ready == missing = {} /\ ~ capNeed
             value == [s \in C |-> IF s \in missing \cup uncapped THEN 0
                                   ELSE IF c = "ROE" THEN w.income[s]
                                   ELSE (100 * w.income[s]) \div Cap(w, data, d, s)]
  <1>1. /\ r.ready = ready /\ r.failed = ((C \ missing) \cap w.faulty # {}) /\ r.value = value
        /\ r.needs = {<<"FINANCIAL", s>> : s \in missing}
                     \cup (IF capNeed THEN {<<"METRIC", d>>} ELSE {})
        /\ r.out = IF ready /\ ~ u THEN uncapped ELSE {}
    BY DEF DartStage
  <1>2. \A s \in C : w.cap[d][s] \in Nat /\ w.income[s] \in Nat
    BY DEF World
  <1>3. \A s \in C : Cap(w, data, d, s) \in Nat
    BY <1>2 DEF Cap
  <1>4. value \in [C -> Nat]
    <2>1. SUFFICES ASSUME NEW s \in C, s \notin uncapped, c # "ROE"
                   PROVE  (100 * w.income[s]) \div Cap(w, data, d, s) \in Nat
      BY <1>2
    <2> DEFINE a == Cap(w, data, d, s)
               b == 100 * w.income[s]
    <2>2. a \in Nat /\ b \in Nat
      BY <1>2, <1>3
    <2>3. a # 0
      BY <2>1
    <2> HIDE DEF a, b
    <2>4. b \div a \in Nat
      BY <2>2, <2>3
    <2> QED BY <2>4 DEF a, b
  <1>5. capNeed => <<"METRIC", d>> \in Needs \ data
    BY DEF Ingested, Needs
  <1>6. \A s \in missing : <<"FINANCIAL", s>> \in Needs \ data
    BY DEF Needs, With
  <1>7. ready => value = TrueValues(w, d, stage, C)
    <2>1. SUFFICES ASSUME ready, NEW s \in C PROVE value[s] = TrueValue(w, d, c, s)
      BY DEF TrueValues
    <2>2. CASE c = "ROE"
      BY <2>1, <2>2 DEF TrueValue, IsKrx
    <2>3. CASE c = "PER"
      <3>1. TrueValue(w, d, c, s)
              = IF w.cap[d][s] = 0 THEN 0 ELSE (100 * w.income[s]) \div w.cap[d][s]
        BY <2>3 DEF TrueValue, IsKrx
      <3>2. value[s] = IF Cap(w, data, d, s) = 0 THEN 0
                       ELSE (100 * w.income[s]) \div Cap(w, data, d, s)
        BY <2>1, <2>3
      <3>3. Cap(w, data, d, s) = w.cap[d][s]
        <4>1. CASE Ingested(data, d)
          BY <4>1 DEF Cap
        <4>2. CASE ~ Ingested(data, d)
          <5>1. Cap(w, data, d, s) # 0
            BY <2>1, <2>3, <4>2
          <5> QED BY <5>1 DEF Cap
        <4> QED BY <4>1, <4>2
      <3> QED BY <3>1, <3>2, <3>3
    <2> QED BY <2>2, <2>3
  <1>8. uncapped \subseteq C /\ missing \subseteq C /\ ready \in BOOLEAN /\ capNeed \in BOOLEAN
        /\ (~ ready => missing # {} \/ capNeed)
    OBVIOUS
  <1>9. ~ IsKrx(c)
    BY DEF IsKrx
  <1> HIDE DEF r, missing, uncapped, capNeed, ready, value
  <1>10. r.needs \subseteq Needs \ data
    BY <1>1, <1>5, <1>6
  <1>11. \A s : <<"FINANCIAL", s>> \in r.needs \/ <<"ACTION", s>> \in r.needs => s \in C
    <2> SUFFICES ASSUME NEW s, <<"FINANCIAL", s>> \in r.needs \/ <<"ACTION", s>> \in r.needs
                 PROVE  s \in missing
      BY <1>8
    <2>1. <<"FINANCIAL", s>> # <<"METRIC", d>> /\ <<"ACTION", s>> # <<"METRIC", d>>
      OBVIOUS
    <2> QED BY <1>1, <2>1
  <1>12. ~ r.ready => r.needs # {}
    <2>1. CASE capNeed
      <3>1. <<"METRIC", d>> \in r.needs
        BY <1>1, <2>1
      <3> QED BY <3>1
    <2>2. CASE missing # {}
      <3>1. PICK s \in missing : TRUE
        BY <2>2
      <3>2. <<"FINANCIAL", s>> \in r.needs
        BY <1>1, <3>1
      <3> QED BY <3>2
    <2> QED BY <1>1, <1>8, <2>1, <2>2
  <1>13. r.failed \in BOOLEAN /\ (r.failed => w.faulty # {})
    BY <1>1
  <1>14. Sound(r, stage, C, u, w, data, d)
    BY <1>1, <1>4, <1>7, <1>8, <1>9, <1>10, <1>11, <1>12, <1>13 DEF Sound
  <1> QED BY <1>14 DEF r

LEMMA PriceStageIsSound ==
    ASSUME NEW w \in World, NEW d \in Dates, NEW stage \in Stages, stage.criterion = "DECLINE",
           NEW C \in SUBSET Symbols, C # {}, NEW u \in BOOLEAN, NEW data
    PROVE  Sound(PriceStage(C, u, w, data, d), stage, C, u, w, data, d)
  <1> DEFINE r == PriceStage(C, u, w, data, d)
             absent == Absent(C, w, data, d)
             fetch == absent # {} /\ <<"PRICE", d>> \notin data
             acting == IF fetch THEN C ELSE C \ absent
             needed == acting \ With(data, "ACTION")
             torn == (acting \ needed) \cap w.torn
             known == ~ fetch /\ needed = {}
             lost1 == IF known /\ ~ u THEN torn ELSE {}
  <1>1. /\ r.ready = (known /\ (torn = {} \/ ~ u)) /\ r.failed = FALSE
        /\ r.value = Declines(C, absent \cup lost1, w)
        /\ r.needs = {<<"ACTION", s>> : s \in needed}
                     \cup (IF fetch THEN {<<"PRICE", d>>} ELSE {})
        /\ r.out = lost1 \cup (IF ~ fetch /\ ~ u THEN absent ELSE {})
    BY DEF PriceStage
  <1>2. \A s \in C : w.fall[s] \in Nat
    BY DEF World
  <1>3. r.value \in [C -> Nat]
    BY <1>1, <1>2 DEF Declines
  <1>4. fetch => <<"PRICE", d>> \in Needs \ data
    BY DEF Needs
  <1>5. absent \subseteq C /\ acting \subseteq C
    BY DEF Absent
  <1>6. \A s \in needed : s \in C /\ <<"ACTION", s>> \in Needs \ data
    BY <1>5 DEF Needs, With
  <1>7. lost1 \subseteq C /\ (~ u /\ known => lost1 = torn)
    BY <1>5
  <1>8. ~ fetch => absent = C \cap w.short[d]
    BY DEF Absent
  <1>9. r.ready /\ (u \/ r.out = {}) => lost1 = {} /\ ~ fetch
    BY <1>1
  <1>10. r.ready /\ (u \/ r.out = {}) => r.value = TrueValues(w, d, stage, C)
    <2>1. SUFFICES ASSUME r.ready, u \/ r.out = {} PROVE r.value = TrueValues(w, d, stage, C)
      OBVIOUS
    <2>2. lost1 = {} /\ absent = C \cap w.short[d]
      BY <1>8, <1>9, <2>1
    <2> HIDE DEF lost1, absent, r
    <2>3. r.value = [s \in C |-> IF s \in absent THEN 0 ELSE w.fall[s]]
      BY <1>1, <2>2 DEF Declines
    <2>4. \A s \in C : TrueValue(w, d, stage.criterion, s)
                         = IF s \in w.short[d] THEN 0 ELSE w.fall[s]
      BY DEF TrueValue, IsKrx
    <2> QED BY <2>2, <2>3, <2>4 DEF TrueValues
  <1>11. ~ IsKrx(stage.criterion)
    BY DEF IsKrx
  <1>12. r.ready \in BOOLEAN /\ fetch \in BOOLEAN /\ known \in BOOLEAN
         /\ (~ known => fetch \/ needed # {})
    BY <1>1
  <1> HIDE DEF r, absent, fetch, acting, needed, torn, known, lost1
  <1>13. r.needs \subseteq Needs \ data
    BY <1>1, <1>4, <1>6
  <1>14. \A s : <<"FINANCIAL", s>> \in r.needs \/ <<"ACTION", s>> \in r.needs => s \in C
    <2> SUFFICES ASSUME NEW s, <<"FINANCIAL", s>> \in r.needs \/ <<"ACTION", s>> \in r.needs
                 PROVE  s \in needed
      BY <1>6
    <2>1. <<"FINANCIAL", s>> # <<"PRICE", d>> /\ <<"ACTION", s>> # <<"PRICE", d>>
      OBVIOUS
    <2> QED BY <1>1, <2>1
  <1>15. ~ r.ready /\ ~ u => r.needs # {}
    BY <1>1, <1>12
  <1>16. r.out \subseteq C
    BY <1>1, <1>5, <1>7
  <1>17. Sound(r, stage, C, u, w, data, d)
    BY <1>1, <1>3, <1>10, <1>11, <1>12, <1>13, <1>14, <1>15, <1>16 DEF Sound
  <1> QED BY <1>17 DEF r

LEMMA StageIsSound ==
    ASSUME NEW w \in World, NEW d \in Dates, NEW stage \in Stages,
           NEW C \in SUBSET Symbols, C # {}, NEW u \in BOOLEAN, NEW data
    PROVE  Sound(Stage(stage.criterion, C, u, w, data, d), stage, C, u, w, data, d)
  <1>1. stage.criterion \in {"MARKET_CAP", "TRADING_VALUE", "PER", "ROE", "DECLINE"}
    BY DEF Stages, Criteria
  <1>2. CASE IsKrx(stage.criterion)
    BY <1>2, KrxStageIsSound DEF Stage
  <1>3. CASE stage.criterion \in {"PER", "ROE"}
    <2>1. Stage(stage.criterion, C, u, w, data, d) = DartStage(stage.criterion, C, u, w, data, d)
      BY <1>3 DEF Stage, IsKrx
    <2> QED BY <1>3, <2>1, DartStageIsSound
  <1>4. CASE stage.criterion = "DECLINE"
    <2>1. Stage(stage.criterion, C, u, w, data, d) = PriceStage(C, u, w, data, d)
      BY <1>4 DEF Stage, IsKrx
    <2> QED BY <1>4, <2>1, PriceStageIsSound
  <1> QED BY <1>1, <1>2, <1>3, <1>4 DEF IsKrx

-----------------------------------------------------------------------------
(* What is known after a stage.                                             *)

States ==
    [candidates : SUBSET Symbols, unresolved : BOOLEAN, cut : BOOLEAN, failed : BOOLEAN,
     needs : SUBSET Needs, out : SUBSET Symbols]

Outcome(st, stage, w, data, d) == Stage(stage.criterion, st.candidates, st.unresolved, w, data, d)

Over(st) == st.candidates = {} \/ st.cut \/ st.failed

Passed(st, stage, w, data, d) ==
    IF Over(st) THEN st
    ELSE [candidates |-> Candidates(st, Outcome(st, stage, w, data, d), stage.limit),
          unresolved |-> st.unresolved \/ ~ Outcome(st, stage, w, data, d).ready,
          cut |-> IsCutOff(stage.criterion, Outcome(st, stage, w, data, d)),
          failed |-> Outcome(st, stage, w, data, d).failed,
          needs |-> st.needs \cup Outcome(st, stage, w, data, d).needs,
          out |-> st.out \cup Outcome(st, stage, w, data, d).out]

LEMMA OnePasses ==
    ASSUME NEW st, NEW stage, NEW w, NEW data, NEW d
    PROVE  AfterStage(st, stage, w, data, d) = {Passed(st, stage, w, data, d)}
  BY DEF AfterStage, Passed, Outcome, Over

\* Nothing is selected only where nobody has a value.
LEMMA NothingSelected ==
    ASSUME NEW C \in SUBSET Symbols, NEW value \in [C -> Nat], NEW limit \in Nat \ {0},
           Selected(value, limit) = {}
    PROVE  \A s \in C : value[s] = 0
  <1> DEFINE E == {s \in C : value[s] > 0}
  <1>1. Best(value, E, limit, {})
    BY SelectedIsBest
  <1>2. E \in SUBSET Symbols
    OBVIOUS
  <1> HIDE DEF E
  <1>3. IsFiniteSet(E) /\ Cardinality(E) \in Nat
    BY <1>2, ResolverAssumption, FS_Subset, FS_CardinalityType
  <1>4. Cardinality({}) = 0
    BY FS_EmptySet
  <1>5. Cardinality({}) = IF Cardinality(E) < limit THEN Cardinality(E) ELSE limit
    BY <1>1 DEF Best
  <1>6. Cardinality(E) = 0
    BY <1>3, <1>4, <1>5
  <1>7. E = {}
    BY <1>3, <1>6, FS_EmptySet
  <1> QED BY <1>7 DEF E

LEMMA NobodyHasAValue ==
    ASSUME NEW w \in World, NEW d \in Dates, NEW stage \in Stages, NEW C \in SUBSET Symbols,
           NEW T \in SUBSET C, Selected(TrueValues(w, d, stage, C), stage.limit) = {}
    PROVE  Narrowed(w, d, stage, T) = {}
  <1>1. stage.limit \in Nat \ {0} /\ TrueValues(w, d, stage, C) \in [C -> Nat]
    BY TrueValuesAreNumbers DEF Stages
  <1>2. \A s \in C : TrueValues(w, d, stage, C)[s] = 0
    BY <1>1, NothingSelected
  <1>3. \A s \in T : TrueValues(w, d, stage, T)[s] = 0
    BY <1>2 DEF TrueValues
  <1>4. \A s \in DOMAIN TrueValues(w, d, stage, T) : s \in T
    BY DEF TrueValues
  <1>5. {s \in DOMAIN TrueValues(w, d, stage, T) : TrueValues(w, d, stage, T)[s] > 0} = {}
    BY <1>3, <1>4
  <1> QED BY <1>5 DEF Narrowed, Selected

\* A stage adds to what is needed and excluded and takes from the candidates.
LEMMA StagesOnlyNarrow ==
    ASSUME NEW w \in World, NEW d \in Dates, NEW stage \in Stages, NEW data, NEW st \in States,
           NEW next, next = Passed(st, stage, w, data, d)
    PROVE  /\ next \in States
           /\ next.candidates \subseteq st.candidates
           /\ st.needs \subseteq next.needs /\ st.out \subseteq next.out
           /\ (st.failed => next.failed) /\ (st.unresolved => next.unresolved)
           /\ \A need \in next.needs \ st.needs : need \notin data
           /\ next.failed /\ ~ st.failed => w.faulty # {}
           /\ \A s : <<"FINANCIAL", s>> \in next.needs \ st.needs
                     \/ <<"ACTION", s>> \in next.needs \ st.needs => s \in st.candidates
  <1> DEFINE C == st.candidates
             u == st.unresolved
             r == Outcome(st, stage, w, data, d)
  <1>0. CASE Over(st)
    BY <1>0 DEF Passed
  <1> SUFFICES ASSUME ~ Over(st)
               PROVE  /\ next \in States
                      /\ next.candidates \subseteq st.candidates
                      /\ st.needs \subseteq next.needs /\ st.out \subseteq next.out
                      /\ (st.failed => next.failed) /\ (st.unresolved => next.unresolved)
                      /\ \A need \in next.needs \ st.needs : need \notin data
                      /\ next.failed /\ ~ st.failed => w.faulty # {}
                      /\ \A s : <<"FINANCIAL", s>> \in next.needs \ st.needs
                                \/ <<"ACTION", s>> \in next.needs \ st.needs => s \in st.candidates
    BY <1>0
  <1>1. C \in SUBSET Symbols /\ C # {} /\ u \in BOOLEAN /\ ~ st.failed
        /\ st.needs \in SUBSET Needs /\ st.out \in SUBSET Symbols
    BY DEF States, Over
  <1>2. Sound(r, stage, C, u, w, data, d)
    BY <1>1, StageIsSound DEF Outcome
  <1>3. stage.limit \in Nat \ {0}
    BY DEF Stages
  <1>4. /\ next.candidates = Candidates(st, r, stage.limit)
        /\ next.unresolved = (st.unresolved \/ ~ r.ready)
        /\ next.cut = IsCutOff(stage.criterion, r)
        /\ next.failed = r.failed
        /\ next.needs = st.needs \cup r.needs
        /\ next.out = st.out \cup r.out
    BY DEF Passed
  <1>5. /\ r.ready \in BOOLEAN /\ r.failed \in BOOLEAN /\ r.value \in [C -> Nat]
        /\ r.needs \subseteq Needs \ data /\ r.out \subseteq C
        /\ r.failed => w.faulty # {}
        /\ \A s : <<"FINANCIAL", s>> \in r.needs \/ <<"ACTION", s>> \in r.needs => s \in C
    BY <1>2 DEF Sound
  <1>6. Selected(r.value, stage.limit) \in SUBSET C
    <2> HIDE DEF r
    <2> QED BY <1>1, <1>3, <1>5, SelectedIsBest
  <1>7. Candidates(st, r, stage.limit) \in SUBSET C
    BY <1>6 DEF Candidates
  <1>8. next \in States
    <2>1. next = [candidates |-> Candidates(st, r, stage.limit),
                  unresolved |-> st.unresolved \/ ~ r.ready,
                  cut |-> IsCutOff(stage.criterion, r), failed |-> r.failed,
                  needs |-> st.needs \cup r.needs, out |-> st.out \cup r.out]
      BY DEF Passed
    <2>2. Candidates(st, r, stage.limit) \in SUBSET Symbols /\ st.needs \cup r.needs \in SUBSET Needs
          /\ st.out \cup r.out \in SUBSET Symbols /\ r.failed \in BOOLEAN
          /\ IsCutOff(stage.criterion, r) \in BOOLEAN /\ (st.unresolved \/ ~ r.ready) \in BOOLEAN
      BY <1>1, <1>5, <1>7 DEF IsCutOff, IsKrx
    <2> HIDE DEF r
    <2> QED BY <2>1, <2>2 DEF States
  <1> HIDE DEF r
  <1>9. \A need \in next.needs \ st.needs : need \in r.needs
    BY <1>4
  <1>10. \A need \in next.needs \ st.needs : need \notin data
    BY <1>5, <1>9
  <1>11. \A s : <<"FINANCIAL", s>> \in next.needs \ st.needs
                \/ <<"ACTION", s>> \in next.needs \ st.needs => s \in C
    BY <1>5, <1>9
  <1> QED BY <1>1, <1>4, <1>5, <1>7, <1>8, <1>10, <1>11

\* What the candidates are to the true survivors T: the same, or an upper bound.
Bounds(st, T) ==
    /\ T \subseteq st.candidates
    /\ ~ st.unresolved => T = st.candidates
    /\ st.cut => st.unresolved

\* KRX decides alone, or no candidate is to be excluded for good.
NobodyGoes(stage, st, next) ==
    IsKrx(stage.criterion) \/ \A s \in st.candidates : s \notin next.out

\* They stay that, unless a candidate is to be excluded for good.
LEMMA BoundsAreKept ==
    ASSUME NEW w \in World, NEW d \in Dates, NEW stage \in Stages, NEW data, NEW st \in States,
           NEW T \in SUBSET Symbols, Bounds(st, T), ~ st.failed,
           NEW next, next = Passed(st, stage, w, data, d),
           NobodyGoes(stage, st, next)
    PROVE  /\ Bounds(next, Narrowed(w, d, stage, T))
           /\ next.unresolved /\ ~ st.unresolved => next.needs # {}
           /\ IsKrx(stage.criterion) =>
                /\ ~ next.failed /\ next.needs \subseteq st.needs \cup {<<"METRIC", d>>}
                /\ next.unresolved /\ ~ st.unresolved => <<"METRIC", d>> \in next.needs
  <1> DEFINE C == st.candidates
             u == st.unresolved
             r == Outcome(st, stage, w, data, d)
             T2 == Narrowed(w, d, stage, T)
  <1>1. C \in SUBSET Symbols /\ u \in BOOLEAN
    BY DEF States
  <1>2. T2 \in SUBSET T
    BY NarrowedIsASubset
  <1>3. CASE Over(st)
    <2>1. next = st
      BY <1>3 DEF Passed
    <2>2. Bounds(st, T2)
      <3>1. CASE st.unresolved
        BY <1>2, <3>1 DEF Bounds
      <3>2. CASE ~ st.unresolved
        <4>1. C = {}
          BY <1>3, <3>2 DEF Over, Bounds
        <4> QED BY <1>2, <3>2, <4>1 DEF Bounds
      <3> QED BY <3>1, <3>2
    <2> QED BY <2>1, <2>2
  <1>4. CASE ~ Over(st)
    <2>1. C # {}
      BY <1>4 DEF Over
    <2>2. Sound(r, stage, C, u, w, data, d)
      BY <1>1, <2>1, StageIsSound DEF Outcome
    <2>3. /\ next.candidates = Candidates(st, r, stage.limit)
          /\ next.unresolved = (st.unresolved \/ ~ r.ready)
          /\ next.cut = IsCutOff(stage.criterion, r)
          /\ next.failed = r.failed
          /\ next.needs = st.needs \cup r.needs
          /\ next.out = st.out \cup r.out
      BY <1>4 DEF Passed
    <2>4. IsKrx(stage.criterion) \/ r.out = {}
      <3>1. r.out \subseteq C
        BY <2>2 DEF Sound
      <3>2. CASE \A s \in C : s \notin next.out
        BY <2>3, <3>1, <3>2
      <3> QED BY <3>2 DEF NobodyGoes
    <2>5. r.ready => r.value = TrueValues(w, d, stage, C)
      BY <2>2, <2>4 DEF Sound
    <2>6. r.ready \in BOOLEAN
      BY <2>2 DEF Sound
    <2>7. T \subseteq C /\ (~ u => T = C)
      BY DEF Bounds
    <2> HIDE DEF r
    <2>8. Bounds(next, T2)
      <3>1. CASE ~ r.ready
        BY <1>2, <2>3, <2>7, <3>1 DEF Bounds, Candidates
      <3>2. CASE r.ready /\ ~ u
        <4>1. next.candidates = Selected(r.value, stage.limit)
          BY <2>3, <3>2 DEF Candidates
        <4>2. T2 = Selected(r.value, stage.limit)
          BY <2>5, <2>7, <3>2 DEF Narrowed
        <4>3. ~ next.cut
          BY <2>3, <3>2 DEF IsCutOff
        <4> QED BY <4>1, <4>2, <4>3 DEF Bounds
      <3>3. CASE r.ready /\ u /\ Selected(r.value, stage.limit) # {}
        BY <1>2, <2>3, <2>7, <3>3 DEF Bounds, Candidates
      <3>4. CASE r.ready /\ u /\ Selected(r.value, stage.limit) = {}
        <4>1. T2 = {}
          BY <1>1, <2>5, <2>7, <3>4, NobodyHasAValue
        <4> QED BY <2>3, <3>4, <4>1 DEF Bounds
      <3> QED BY <2>6, <1>1, <3>1, <3>2, <3>3, <3>4
    <2>9. next.unresolved /\ ~ u => ~ r.ready
      BY <2>3
    <2>10. next.unresolved /\ ~ u => r.needs # {}
      BY <2>2, <2>9 DEF Sound
    <2>11. IsKrx(stage.criterion) =>
             /\ ~ next.failed /\ next.needs \subseteq st.needs \cup {<<"METRIC", d>>}
             /\ next.unresolved /\ ~ u => <<"METRIC", d>> \in next.needs
      BY <2>2, <2>3, <2>9 DEF Sound
    <2>12. next.unresolved /\ ~ u => next.needs # {}
      BY <2>3, <2>10
    <2> QED BY <2>8, <2>11, <2>12
  <1> QED BY <1>3, <1>4

-----------------------------------------------------------------------------
(* What is known after all stages of a date.                                *)

\* f[n] is the state after n stages of date d.
Passes(f, w, data, x, d) ==
    /\ f \in [0 .. Len(rule) -> States]
    /\ f[0] = Start(w, x, d)
    /\ \A n \in 1 .. Len(rule) : f[n] = Passed(f[n - 1], rule[n], w, data, d)
    /\ \A n \in 0 .. Len(rule) : AfterStages(rule, w, data, x, d)[n] = {f[n]}

LEMMA AfterStagesFollow ==
    ASSUME NEW w \in World, NEW d \in Dates, NEW x, NEW data, rule \in Seq(Stages)
    PROVE  \E f : Passes(f, w, data, x, d)
  <1> DEFINE N == Len(rule)
             x0 == Start(w, x, d)
             G == [n \in 1 .. N |-> [st \in States |-> Passed(st, rule[n], w, data, d)]]
             Step(h) == [n \in 0 .. N |->
                           IF n = 0 THEN {Start(w, x, d)}
                           ELSE UNION {AfterStage(st, rule[n], w, data, d) : st \in h[n - 1]}]
  <1>1. N \in Nat /\ \A n \in 1 .. N : rule[n] \in Stages
    OBVIOUS
  <1>2. x0 \in States
    BY DEF Start, States, World
  <1>3. ASSUME NEW n \in 1 .. N, NEW st \in States
        PROVE  G[n][st] \in States /\ G[n][st] = Passed(st, rule[n], w, data, d)
    <2>1. G[n][st] = Passed(st, rule[n], w, data, d)
      OBVIOUS
    <2> HIDE DEF G
    <2> QED BY <1>1, <2>1, StagesOnlyNarrow
  <1>4. PICK f : Follows(f, N, States, x0, G)
    <2>1. IsRecursion(G, N, States)
      BY <1>3 DEF IsRecursion
    <2> HIDE DEF N, x0, G, Step
    <2> QED BY <2>1, <1>1, <1>2, Recursion
  <1>5. f \in [0 .. N -> States] /\ f[0] = x0 /\ \A n \in 1 .. N : f[n] = G[n][f[n - 1]]
    BY <1>4 DEF Follows
  <1>6. ASSUME NEW n \in 1 .. N
        PROVE  /\ n - 1 \in 0 .. N /\ n \in 0 .. N /\ n # 0
               /\ f[n] = Passed(f[n - 1], rule[n], w, data, d)
    <2>1. n - 1 \in 0 .. N /\ n \in 0 .. N /\ n # 0
      BY <1>1
    <2>2. f[n - 1] \in States
      BY <1>5, <2>1
    <2>3. f[n] = G[n][f[n - 1]]
      BY <1>5
    <2> HIDE DEF G, N
    <2> QED BY <1>3, <2>1, <2>2, <2>3
  <1> DEFINE F == [n \in 0 .. N |-> {f[n]}]
  <1>7. F = Step(F)
    <2>1. ASSUME NEW n \in 0 .. N
          PROVE  {f[n]} = Step(F)[n]
      <3>1. CASE n = 0
        BY <1>5, <3>1
      <3>2. CASE n # 0
        <4>1. n \in 1 .. N
          BY <1>1, <3>2
        <4>2. F[n - 1] = {f[n - 1]}
          BY <1>6, <4>1
        <4>3. Step(F)[n] = UNION {AfterStage(st, rule[n], w, data, d) : st \in F[n - 1]}
          BY <3>2
        <4>4. AfterStage(f[n - 1], rule[n], w, data, d) = {f[n]}
          BY <1>6, <4>1, OnePasses
        <4> HIDE DEF F, Step
        <4> QED BY <4>2, <4>3, <4>4
      <3> QED BY <3>1, <3>2
    <2> QED BY <2>1
  <1>8. PICK g : g = CHOOSE h : h = Step(h)
    OBVIOUS
  <1>9. g = Step(g)
    <2> HIDE DEF Step, F
    <2> QED BY <1>7, <1>8, Zenon
  <1>10. AfterStages(rule, w, data, x, d) = g
    BY <1>8 DEF AfterStages
  <1>11. 0 .. N \subseteq {n \in 0 .. N : g[n] = {f[n]}}
    <2> DEFINE Good == {n \in 0 .. N : g[n] = {f[n]}}
    <2>1. 0 \in Good
      BY <1>1, <1>5, <1>9
    <2>2. ASSUME NEW n \in 1 .. N, n - 1 \in Good
          PROVE  n \in Good
      <3>1. g[n - 1] = {f[n - 1]}
        BY <2>2
      <3>2. n \in 0 .. N /\ n # 0
        BY <1>1
      <3>3. g[n] = Step(g)[n]
        BY <1>9, Zenon
      <3>4. Step(g)[n] = UNION {AfterStage(st, rule[n], w, data, d) : st \in g[n - 1]}
        BY <3>2, Zenon
      <3>5. AfterStage(f[n - 1], rule[n], w, data, d) = {f[n]}
        BY <1>6, OnePasses
      <3> HIDE DEF Step
      <3> QED BY <3>1, <3>2, <3>3, <3>4, <3>5
    <2> HIDE DEF Good, N
    <2>3. 0 .. N \subseteq Good
      BY <1>1, <2>1, <2>2, UpTo
    <2> QED BY <2>3 DEF Good
  <1>12. \A n \in 0 .. N : AfterStages(rule, w, data, x, d)[n] = {f[n]}
    BY <1>10, <1>11
  <1>13. Passes(f, w, data, x, d)
    BY <1>5, <1>6, <1>12 DEF Passes
  <1> QED BY <1>13

\* The first n stages are decided by KRX alone.
KrxAlone(n) == \A k \in 1 .. n : IsKrx(rule[k].criterion)

\* What is known after n stages.
Known(st, w, data, x, d, n) ==
    /\ \A need \in st.needs : need \notin data
    /\ st.failed => w.faulty # {}
    /\ st.candidates \cap x = {}
    /\ ~ st.failed /\ st.out \subseteq x =>
         Bounds(st, Survivors(w, d, x, n)) /\ (st.unresolved => st.needs # {})
    /\ KrxAlone(n) =>
         /\ ~ st.failed /\ Bounds(st, Survivors(w, d, x, n))
         /\ st.needs \subseteq {<<"METRIC", d>>}
         /\ st.unresolved => <<"METRIC", d>> \in st.needs

LEMMA KnownAfterStages ==
    ASSUME NEW w \in World, NEW d \in Dates, NEW x, NEW data, rule \in Seq(Stages),
           NEW f, Passes(f, w, data, x, d)
    PROVE  \A n \in 0 .. Len(rule) : Known(f[n], w, data, x, d, n)
  <1> DEFINE N == Len(rule)
             Good == {n \in 0 .. N : Known(f[n], w, data, x, d, n)}
             S(n) == Survivors(w, d, x, n)
  <1>1. N \in Nat /\ \A n \in 1 .. N : rule[n] \in Stages
    OBVIOUS
  <1>2. /\ S(0) = w.listed[d] \ x
        /\ \A n \in 1 .. N : S(n) = Narrowed(w, d, rule[n], S(n - 1))
        /\ \A n \in 0 .. N : S(n) \in SUBSET Symbols
    BY SurvivorsOfAStage
  <1> HIDE DEF S
  <1>3. 0 \in Good
    <2>1. /\ f[0].candidates = w.listed[d] \ x /\ f[0].unresolved = FALSE /\ f[0].cut = FALSE
          /\ f[0].failed = FALSE /\ f[0].needs = {}
      BY DEF Passes, Start
    <2>2. Known(f[0], w, data, x, d, 0)
      BY <1>2, <2>1 DEF Known, Bounds, S
    <2> QED BY <1>1, <2>2
  <1>4. ASSUME NEW n \in 1 .. N, n - 1 \in Good
        PROVE  n \in Good
    <2>1. n - 1 \in 0 .. N /\ n \in 0 .. N
      BY <1>1
    <2>2. f[n - 1] \in States /\ f[n] = Passed(f[n - 1], rule[n], w, data, d) /\ rule[n] \in Stages
      BY <1>1, <2>1 DEF Passes
    <2>3. PICK st, next, T, stage :
            st = f[n - 1] /\ next = f[n] /\ T = S(n - 1) /\ stage = rule[n]
      OBVIOUS
    <2>4. T \in SUBSET Symbols /\ S(n) = Narrowed(w, d, stage, T)
      BY <1>2, <2>1, <2>3
    <2>5. Known(st, w, data, x, d, n - 1)
      BY <1>4, <2>3
    <2>6. /\ next.candidates \subseteq st.candidates
          /\ st.needs \subseteq next.needs /\ st.out \subseteq next.out
          /\ (st.failed => next.failed) /\ (st.unresolved => next.unresolved)
          /\ \A need \in next.needs \ st.needs : need \notin data
          /\ next.failed /\ ~ st.failed => w.faulty # {}
      BY <2>2, <2>3, StagesOnlyNarrow
    <2>7. next \in States /\ st \in States /\ stage \in Stages
          /\ next = Passed(st, stage, w, data, d)
      BY <2>2, <2>3, StagesOnlyNarrow
    <2>8. ASSUME ~ next.failed, next.out \subseteq x
          PROVE  Bounds(next, S(n)) /\ (next.unresolved => next.needs # {})
      <3>1. ~ st.failed /\ st.out \subseteq x
        BY <2>6, <2>8
      <3>2. Bounds(st, T) /\ (st.unresolved => st.needs # {}) /\ st.candidates \cap x = {}
        BY <2>3, <2>5, <3>1 DEF Known, S
      <3>3. NobodyGoes(stage, st, next)
        BY <2>8, <3>2 DEF NobodyGoes
      <3>4. Bounds(next, S(n)) /\ (next.unresolved /\ ~ st.unresolved => next.needs # {})
        <4>1. Bounds(st, T) /\ ~ st.failed
          BY <3>1, <3>2
        <4> QED BY <2>4, <2>7, <3>3, <4>1, BoundsAreKept
      <3> QED BY <2>6, <2>7, <3>2, <3>4
    <2>9. ASSUME KrxAlone(n)
          PROVE  /\ ~ next.failed /\ Bounds(next, S(n))
                 /\ next.needs \subseteq {<<"METRIC", d>>}
                 /\ next.unresolved => <<"METRIC", d>> \in next.needs
      <3>1. KrxAlone(n - 1) /\ IsKrx(stage.criterion)
        BY <1>1, <2>3, <2>9 DEF KrxAlone
      <3>2. /\ ~ st.failed /\ Bounds(st, T) /\ st.needs \subseteq {<<"METRIC", d>>}
            /\ (st.unresolved => <<"METRIC", d>> \in st.needs)
        BY <2>3, <2>5, <3>1 DEF Known, S
      <3>3. /\ Bounds(next, S(n))
            /\ ~ next.failed /\ next.needs \subseteq st.needs \cup {<<"METRIC", d>>}
            /\ next.unresolved /\ ~ st.unresolved => <<"METRIC", d>> \in next.needs
        BY <2>4, <2>7, <3>1, <3>2, BoundsAreKept DEF NobodyGoes
      <3> QED BY <2>6, <3>2, <3>3
    <2>10. /\ \A need \in next.needs : need \notin data
           /\ next.failed => w.faulty # {}
           /\ next.candidates \cap x = {}
      BY <2>5, <2>6 DEF Known
    <2>11. Known(next, w, data, x, d, n)
      BY <2>8, <2>9, <2>10 DEF Known, S
    <2> QED BY <2>1, <2>3, <2>11
  <1>5. 0 .. N \subseteq Good
    <2> HIDE DEF Good, N
    <2> QED BY <1>1, <1>3, <1>4, UpTo
  <1> QED BY <1>5

\* Behind p stages only the candidates of these are asked for.
LEMMA BehindAStage ==
    ASSUME NEW w \in World, NEW d \in Dates, NEW x, NEW data, rule \in Seq(Stages),
           NEW f, Passes(f, w, data, x, d), NEW p \in 0 .. Len(rule)
    PROVE  \A n \in p .. Len(rule) :
             /\ f[n].candidates \subseteq f[p].candidates
             /\ f[p].needs \subseteq f[n].needs
             /\ \A s : <<"FINANCIAL", s>> \in f[n].needs \ f[p].needs
                       \/ <<"ACTION", s>> \in f[n].needs \ f[p].needs => s \in f[p].candidates
             /\ Survivors(w, d, x, n) \subseteq Survivors(w, d, x, p)
  <1> DEFINE N == Len(rule)
             S(n) == Survivors(w, d, x, n)
             Fits(n) == /\ f[n].candidates \subseteq f[p].candidates
                        /\ f[p].needs \subseteq f[n].needs
                        /\ \A s : <<"FINANCIAL", s>> \in f[n].needs \ f[p].needs
                                  \/ <<"ACTION", s>> \in f[n].needs \ f[p].needs
                                  => s \in f[p].candidates
                        /\ S(n) \subseteq S(p)
             Good == {n \in 0 .. N : p <= n => Fits(n)}
  <1>1. N \in Nat /\ \A n \in 1 .. N : rule[n] \in Stages
    OBVIOUS
  <1>2. /\ S(0) = w.listed[d] \ x
        /\ \A n \in 1 .. N : S(n) = Narrowed(w, d, rule[n], S(n - 1))
        /\ \A n \in 0 .. N : S(n) \in SUBSET Symbols
    BY SurvivorsOfAStage
  <1> HIDE DEF S
  <1>3. Fits(p)
    OBVIOUS
  <1>4. 0 \in Good
    <2>1. CASE p = 0
      BY <1>1, <1>3, <2>1
    <2>2. CASE p # 0
      BY <1>1, <2>2
    <2> QED BY <2>1, <2>2
  <1>5. ASSUME NEW n \in 1 .. N, n - 1 \in Good
        PROVE  n \in Good
    <2>1. n - 1 \in 0 .. N /\ n \in 0 .. N
      BY <1>1
    <2>2. CASE n = p
      BY <1>3, <2>1, <2>2
    <2>3. CASE n < p
      BY <2>1, <2>3
    <2>4. CASE p < n
      <3>1. Fits(n - 1)
        BY <1>5, <2>1, <2>4
      <3>2. f[n - 1] \in States /\ f[n] = Passed(f[n - 1], rule[n], w, data, d) /\ rule[n] \in Stages
        BY <1>1, <2>1 DEF Passes
      <3>3. PICK st, next : st = f[n - 1] /\ next = f[n]
        OBVIOUS
      <3>4. /\ next.candidates \subseteq st.candidates
            /\ st.needs \subseteq next.needs
            /\ \A s : <<"FINANCIAL", s>> \in next.needs \ st.needs
                      \/ <<"ACTION", s>> \in next.needs \ st.needs => s \in st.candidates
        BY <3>2, <3>3, StagesOnlyNarrow
      <3>5. S(n) \in SUBSET S(n - 1)
        <4>1. PICK T : T = S(n - 1)
          OBVIOUS
        <4>2. T \in SUBSET Symbols /\ S(n) = Narrowed(w, d, rule[n], T)
          BY <1>2, <2>1, <4>1
        <4> QED BY <3>2, <4>1, <4>2, NarrowedIsASubset
      <3>6. Fits(n)
        BY <3>1, <3>3, <3>4, <3>5
      <3> QED BY <2>1, <3>6
    <2> QED BY <2>1, <2>2, <2>3, <2>4
  <1>6. 0 .. N \subseteq Good
    <2> HIDE DEF Good, N
    <2> QED BY <1>1, <1>4, <1>5, UpTo
  <1>7. ASSUME NEW n \in p .. N
        PROVE  Fits(n)
    <2>1. n \in 0 .. N /\ p <= n
      BY <1>1
    <2> HIDE DEF Fits
    <2> QED BY <1>6, <2>1
  <1> QED BY <1>7 DEF S

-----------------------------------------------------------------------------
(* What the resolver answers.                                               *)

\* A need is for something missing; of a day without data the market is needed.
IsMissing(need, data) ==
    need \notin data \/ \E d \in Dates : need = <<"METRIC", d>> /\ <<"DAY", d>> \notin data

\* The needs are for reports or prices of s.
Asks(needs, s) == <<"FINANCIAL", s>> \in needs \/ <<"ACTION", s>> \in needs

LEMMA DateIsTrue ==
    ASSUME NEW w \in World, NEW d \in Dates, NEW x, NEW data, rule \in Seq(Stages),
           NEW at, at = AtDate(rule, w, data, x, d)
    PROVE  /\ at.failed \in BOOLEAN /\ (at.failed => w.faulty # {})
           /\ at.out \subseteq Symbols
           /\ at.needs \subseteq Needs /\ \A need \in at.needs : IsMissing(need, data)
           /\ at.needs = {} /\ ~ at.failed /\ at.out \subseteq x =>
                at.candidates = Survivors(w, d, x, Len(rule))
           /\ <<"METRIC", d>> \notin at.needs =>
                \A p \in 0 .. Len(rule) : \A s : KrxAlone(p) /\ Asks(at.needs, s) =>
                  s \in Survivors(w, d, x, p)
  <1> DEFINE N == Len(rule)
             S(n) == Survivors(w, d, x, n)
  <1>1. N \in Nat
    OBVIOUS
  <1>2. CASE <<"DAY", d>> \notin data
    <2>1. at.failed = FALSE /\ at.needs = {<<"METRIC", d>>} /\ at.out = {}
      BY <1>2 DEF AtDate
    <2>2. IsMissing(<<"METRIC", d>>, data) /\ <<"METRIC", d>> \in Needs
      BY <1>2 DEF IsMissing, Needs
    <2> QED BY <2>1, <2>2
  <1>3. CASE <<"DAY", d>> \in data
    <2>1. PICK f : Passes(f, w, data, x, d)
      BY AfterStagesFollow
    <2>2. PICK st : st = f[N]
      OBVIOUS
    <2>3. AfterStages(rule, w, data, x, d)[N] = {st}
      BY <1>1, <2>1, <2>2 DEF Passes
    <2>4. at = [candidates |-> st.candidates, failed |-> st.failed, out |-> st.out,
                needs |-> IF st.candidates = {} THEN {} ELSE st.needs]
      <3> DEFINE E(v) == [candidates |-> v.candidates, failed |-> v.failed, out |-> v.out,
                          needs |-> IF v.candidates = {} THEN {} ELSE v.needs]
      <3>1. at = CHOOSE end \in {E(v) : v \in AfterStages(rule, w, data, x, d)[N]} : TRUE
        BY <1>3 DEF AtDate
      <3> HIDE DEF E
      <3>2. {E(v) : v \in AfterStages(rule, w, data, x, d)[N]} = {E(st)}
        BY <2>3
      <3>3. at \in {E(st)}
        BY <3>1, <3>2
      <3> QED BY <3>3 DEF E
    <2>5. /\ at.candidates = st.candidates /\ at.failed = st.failed /\ at.out = st.out
          /\ at.needs = IF st.candidates = {} THEN {} ELSE st.needs
      BY <2>4
    <2>6. st \in States
      BY <1>1, <2>1, <2>2 DEF Passes
    <2>7. Known(st, w, data, x, d, N)
      <3>1. N \in 0 .. N
        BY <1>1
      <3> QED BY <2>1, <2>2, <3>1, KnownAfterStages
    <2>8. at.failed \in BOOLEAN /\ at.needs \subseteq Needs /\ at.out \subseteq Symbols
      BY <2>5, <2>6 DEF States
    <2>9. (at.failed => w.faulty # {}) /\ \A need \in at.needs : IsMissing(need, data)
      BY <2>5, <2>7 DEF Known, IsMissing
    <2>10. at.needs = {} /\ ~ at.failed /\ at.out \subseteq x => at.candidates = S(N)
      <3> SUFFICES ASSUME at.needs = {}, ~ at.failed, at.out \subseteq x
                   PROVE  st.candidates = S(N)
        BY <2>5
      <3>1. Bounds(st, S(N)) /\ (st.unresolved => st.needs # {})
        BY <2>5, <2>7 DEF Known
      <3>2. st.candidates = {} \/ ~ st.unresolved
        BY <2>5, <3>1
      <3> QED BY <3>1, <3>2 DEF Bounds
    <2>11. ASSUME <<"METRIC", d>> \notin at.needs, NEW p \in 0 .. N, NEW s,
                  KrxAlone(p), Asks(at.needs, s)
           PROVE  s \in S(p)
      <3>1. at.needs = st.needs /\ Asks(st.needs, s)
        BY <2>5, <2>11 DEF Asks
      <3>2. PICK sp : sp = f[p]
        OBVIOUS
      <3>3. Known(sp, w, data, x, d, p)
        BY <2>1, <3>2, KnownAfterStages
      <3>4. /\ Bounds(sp, S(p)) /\ sp.needs \subseteq {<<"METRIC", d>>}
            /\ sp.unresolved => <<"METRIC", d>> \in sp.needs
        BY <2>11, <3>3 DEF Known
      <3>5. N \in p .. N
        BY <1>1
      <3>6. /\ sp.needs \subseteq st.needs
            /\ \A t : <<"FINANCIAL", t>> \in st.needs \ sp.needs
                      \/ <<"ACTION", t>> \in st.needs \ sp.needs => t \in sp.candidates
        BY <2>1, <2>2, <3>2, <3>5, BehindAStage
      <3>7. ~ sp.unresolved
        BY <2>11, <3>1, <3>4, <3>6
      <3>8. <<"FINANCIAL", s>> \notin sp.needs /\ <<"ACTION", s>> \notin sp.needs
        BY <3>4
      <3>9. s \in sp.candidates
        BY <3>1, <3>6, <3>8 DEF Asks
      <3> QED BY <3>4, <3>7, <3>9 DEF Bounds
    <2> QED BY <2>8, <2>9, <2>10, <2>11
  <1> QED BY <1>2, <1>3

LEMMA ResolveIsTrue ==
    ASSUME NEW w \in World, NEW x, NEW data, rule \in Seq(Stages),
           NEW r, r = Resolve(rule, w, data, x)
    PROVE  /\ r.kind \in {"FAILED", "READY", "NEEDS_DATA"}
           /\ r.kind = "FAILED" => w.faulty # {}
           /\ r.kind = "NEEDS_DATA" => r.needs # {}
           /\ r.out \subseteq Symbols
           /\ r.needs \subseteq Needs /\ \A need \in r.needs : IsMissing(need, data)
           /\ r.kind = "READY" /\ r.out \subseteq x =>
                \A d \in Dates : r.schedule[d] = Survivors(w, d, x, Len(rule))
           /\ (\A d \in Dates : <<"METRIC", d>> \notin r.needs) =>
                \A p \in 0 .. Len(rule) : \A s : KrxAlone(p) /\ Asks(r.needs, s) =>
                  \E d \in Dates : s \in Survivors(w, d, x, p)
  <1> DEFINE at == [d \in Dates |-> AtDate(rule, w, data, x, d)]
             needs == UNION {at[d].needs : d \in Dates}
  <1>1. /\ r.kind = (IF \E d \in Dates : at[d].failed THEN "FAILED"
                     ELSE IF needs = {} THEN "READY" ELSE "NEEDS_DATA")
        /\ r.needs = needs /\ r.out = UNION {at[d].out : d \in Dates}
        /\ r.schedule = [d \in Dates |-> at[d].candidates]
    BY DEF Resolve
  <1>2. ASSUME NEW d \in Dates
        PROVE  /\ at[d].failed \in BOOLEAN /\ (at[d].failed => w.faulty # {})
               /\ at[d].out \subseteq Symbols
               /\ at[d].needs \subseteq Needs /\ \A need \in at[d].needs : IsMissing(need, data)
               /\ at[d].needs = {} /\ ~ at[d].failed /\ at[d].out \subseteq x =>
                    at[d].candidates = Survivors(w, d, x, Len(rule))
               /\ <<"METRIC", d>> \notin at[d].needs =>
                    \A p \in 0 .. Len(rule) : \A s : KrxAlone(p) /\ Asks(at[d].needs, s) =>
                      s \in Survivors(w, d, x, p)
    <2>1. at[d] = AtDate(rule, w, data, x, d)
      OBVIOUS
    <2> HIDE DEF at
    <2> QED BY <2>1, DateIsTrue
  <1> HIDE DEF at
  <1>3. r.needs \subseteq Needs /\ \A need \in r.needs : IsMissing(need, data)
    <2>1. ASSUME NEW need \in r.needs
          PROVE  need \in Needs /\ IsMissing(need, data)
      <3>1. PICK d \in Dates : need \in at[d].needs
        BY <1>1
      <3> QED BY <1>2, <3>1
    <2> QED BY <2>1
  <1>4. ASSUME r.kind = "READY", r.out \subseteq x, NEW d \in Dates
        PROVE  r.schedule[d] = Survivors(w, d, x, Len(rule))
    <2>1. ~ at[d].failed /\ needs = {}
      BY <1>1, <1>4
    <2>2. at[d].needs = {} /\ at[d].out \subseteq x
      BY <1>1, <1>4, <2>1
    <2>3. r.schedule[d] = at[d].candidates
      BY <1>1
    <2> QED BY <1>2, <2>1, <2>2, <2>3
  <1>5. ASSUME \A d \in Dates : <<"METRIC", d>> \notin r.needs,
               NEW p \in 0 .. Len(rule), NEW s, KrxAlone(p), Asks(r.needs, s)
        PROVE  \E d \in Dates : s \in Survivors(w, d, x, p)
    <2>1. PICK d \in Dates : Asks(at[d].needs, s)
      BY <1>1, <1>5 DEF Asks
    <2>2. <<"METRIC", d>> \notin at[d].needs
      BY <1>1, <1>5
    <2>3. s \in Survivors(w, d, x, p)
      BY <1>2, <1>5, <2>1, <2>2
    <2> QED BY <2>3
  <1>6. ASSUME NEW s \in r.out
        PROVE  s \in Symbols
    <2>1. PICK d \in Dates : s \in at[d].out
      BY <1>1
    <2> QED BY <1>2, <2>1
  <1> QED BY <1>1, <1>2, <1>3, <1>4, <1>5, <1>6

-----------------------------------------------------------------------------
(* What is asked for.                                                       *)

LEMMA FirstMissingIsMissing ==
    ASSUME NEW requests, DOMAIN requests \subseteq Nat, NEW data
    PROVE  /\ FirstMissing(requests, data) = {} =>
                \A i \in DOMAIN requests : requests[i] \subseteq data
           /\ \A q \in FirstMissing(requests, data) :
                q \notin data /\ \E i \in DOMAIN requests : q \in requests[i]
  <1> DEFINE open == {i \in DOMAIN requests : requests[i] \ data # {}}
  <1>1. CASE open = {}
    BY <1>1 DEF FirstMissing
  <1>2. CASE open # {}
    <2>1. FirstMissing(requests, data) = requests[Min(open)] \ data
      BY <1>2 DEF FirstMissing
    <2>2. open \subseteq Nat
      OBVIOUS
    <2>3. Min(open) \in open
      <3> HIDE DEF open
      <3>1. \E i \in open : \A j \in open : i <= j
        BY <1>2, <2>2, LeastMember
      <3> QED BY <3>1 DEF Min
    <2> QED BY <2>1, <2>3
  <1> QED BY <1>1, <1>2

LEMMA RequestIsFor ==
    ASSUME NEW needs, needs \subseteq Needs, NEW data,
           NEW request, request = Request(needs, data)
    PROVE  /\ needs # {} /\ (\A need \in needs : IsMissing(need, data)) => request # {}
           /\ \A s : Asks(request, s) =>
                Asks(needs, s) /\ \A d \in Dates : <<"METRIC", d>> \notin needs
           /\ request \subseteq Everything \ data
  <1> DEFINE metrics == {d \in Dates : <<"METRIC", d>> \in needs}
             prices == {d \in Dates : <<"PRICE", d>> \in needs}
             range == {d \in Dates : (\E e \in prices : e <= d) /\ (\E e \in prices : d <= e)}
             financial == {s \in Symbols : <<"FINANCIAL", s>> \in needs}
             actions == {s \in Symbols : <<"ACTION", s>> \in needs}
             market == <<Keyed("DAY", metrics) \cup Keyed("PRICE", range), Keyed("METRIC", metrics)>>
             reports == <<Registration(financial \cup actions, data),
                          Keyed("FINANCIAL", financial), Keyed("ACTION", actions)>>
  <1>1. request = IF metrics \cup prices # {} THEN FirstMissing(market, data)
                  ELSE FirstMissing(reports, data)
    BY DEF Request
  <1>2. DOMAIN market = {1, 2} /\ DOMAIN reports = {1, 2, 3}
    <2>1. DOMAIN market = 1 .. 2 /\ DOMAIN reports = 1 .. 3
      OBVIOUS
    <2> QED BY <2>1
  <1>3. /\ market[1] = Keyed("DAY", metrics) \cup Keyed("PRICE", range)
        /\ market[2] = Keyed("METRIC", metrics)
        /\ reports[1] = Registration(financial \cup actions, data)
        /\ reports[2] = Keyed("FINANCIAL", financial) /\ reports[3] = Keyed("ACTION", actions)
    OBVIOUS
  <1>4. prices \subseteq range
    <2>1. \A d \in Dates : d <= d
      BY ResolverAssumption
    <2> QED BY <2>1
  <1>5. /\ metrics \subseteq Dates /\ prices \subseteq Dates
        /\ \A d \in Dates : <<"METRIC", d>> \in needs <=> d \in metrics
        /\ \A d \in Dates : <<"PRICE", d>> \in needs <=> d \in prices
        /\ \A s \in financial : <<"FINANCIAL", s>> \in needs
        /\ \A s \in actions : <<"ACTION", s>> \in needs
        /\ \A s \in Symbols : <<"FINANCIAL", s>> \in needs => s \in financial
        /\ \A s \in Symbols : <<"ACTION", s>> \in needs => s \in actions
        /\ range \subseteq Dates /\ financial \subseteq Symbols /\ actions \subseteq Symbols
    OBVIOUS
  <1>6. \A need \in needs : \/ \E d \in Dates : need = <<"METRIC", d>> \/ need = <<"PRICE", d>>
                            \/ \E s \in Symbols : need = <<"FINANCIAL", s>> \/ need = <<"ACTION", s>>
    BY DEF Needs
  <1> HIDE DEF market, reports, metrics, prices, range, financial, actions
  <1>7. /\ \A q \in FirstMissing(market, data) : q \in market[1] \/ q \in market[2]
        /\ \A q \in FirstMissing(reports, data) :
             q \in reports[1] \/ q \in reports[2] \/ q \in reports[3]
        /\ FirstMissing(market, data) = {} => market[1] \subseteq data /\ market[2] \subseteq data
        /\ FirstMissing(reports, data) = {} =>
             reports[2] \subseteq data /\ reports[3] \subseteq data
        /\ \A q \in FirstMissing(market, data) \cup FirstMissing(reports, data) : q \notin data
    <2>1. DOMAIN market \subseteq Nat /\ DOMAIN reports \subseteq Nat
      BY <1>2
    <2> QED BY <1>2, <2>1, FirstMissingIsMissing
  <1>8. ASSUME needs # {}, \A need \in needs : IsMissing(need, data), request = {}
        PROVE  FALSE
    <2>1. PICK need \in needs : IsMissing(need, data)
      BY <1>8
    <2>2. CASE metrics \cup prices # {}
      <3>1. market[1] \subseteq data /\ market[2] \subseteq data
        BY <1>1, <1>7, <1>8, <2>2
      <3>2. CASE metrics # {}
        <4>1. PICK d \in metrics : TRUE
          BY <3>2
        <4>2. d \in Dates /\ <<"METRIC", d>> \in needs
          BY <1>5, <4>1
        <4>3. <<"DAY", d>> \in data /\ <<"METRIC", d>> \in data
          BY <1>3, <3>1, <4>1 DEF Keyed
        <4>4. IsMissing(<<"METRIC", d>>, data)
          BY <1>8, <4>2
        <4> QED BY <4>3, <4>4 DEF IsMissing
      <3>3. CASE prices # {}
        <4>1. PICK d \in prices : TRUE
          BY <3>3
        <4>2. d \in Dates /\ <<"PRICE", d>> \in needs /\ d \in range
          BY <1>4, <1>5, <4>1
        <4>3. <<"PRICE", d>> \in data
          BY <1>3, <3>1, <4>2 DEF Keyed
        <4>4. IsMissing(<<"PRICE", d>>, data)
          BY <1>8, <4>2
        <4> QED BY <4>3, <4>4 DEF IsMissing
      <3> QED BY <2>2, <3>2, <3>3
    <2>3. CASE metrics \cup prices = {}
      <3>1. reports[2] \subseteq data /\ reports[3] \subseteq data
        BY <1>1, <1>7, <1>8, <2>3
      <3>2. PICK s \in Symbols : need = <<"FINANCIAL", s>> \/ need = <<"ACTION", s>>
        <4>1. \A d \in Dates : need # <<"METRIC", d>> /\ need # <<"PRICE", d>>
          BY <1>5, <2>3
        <4> QED BY <1>6, <4>1
      <3>3. need \in data
        BY <1>3, <1>5, <3>1, <3>2 DEF Keyed
      <3>4. \A d \in Dates : need # <<"METRIC", d>>
        BY <3>2
      <3> QED BY <2>1, <3>3, <3>4 DEF IsMissing
    <2> QED BY <2>2, <2>3
  <1>9. ASSUME NEW s, Asks(request, s)
        PROVE  Asks(needs, s) /\ \A d \in Dates : <<"METRIC", d>> \notin needs
    <2>1. CASE metrics \cup prices # {}
      <3>1. PICK q \in request : q = <<"FINANCIAL", s>> \/ q = <<"ACTION", s>>
        BY <1>9 DEF Asks
      <3>2. q \in Keyed("DAY", metrics) \/ q \in Keyed("PRICE", range) \/ q \in Keyed("METRIC", metrics)
        BY <1>1, <1>3, <1>7, <2>1
      <3> QED BY <3>1, <3>2 DEF Keyed
    <2>2. CASE metrics \cup prices = {}
      <3>1. PICK q \in request : q = <<"FINANCIAL", s>> \/ q = <<"ACTION", s>>
        BY <1>9 DEF Asks
      <3>2. \/ q \in Keyed("REGISTER", (financial \cup actions) \ With(data, "REGISTER"))
            \/ q \in Keyed("FINANCIAL", financial) \/ q \in Keyed("ACTION", actions)
        BY <1>1, <1>3, <1>7, <2>2 DEF Registration
      <3>3. s \in financial \/ s \in actions
        BY <3>1, <3>2 DEF Keyed
      <3>4. Asks(needs, s)
        BY <1>5, <3>3 DEF Asks
      <3> QED BY <1>5, <2>2, <3>4
    <2> QED BY <2>1, <2>2
  <1>10. \A i \in {1, 2} : market[i] \subseteq Everything
    BY <1>3, <1>5 DEF Keyed, Everything
  <1>11. \A i \in {1, 2, 3} : reports[i] \subseteq Everything
    BY <1>3, <1>5 DEF Keyed, Registration, Everything
  <1>12. ASSUME NEW q \in request
         PROVE  q \in Everything /\ q \notin data
    <2>1. q \in FirstMissing(market, data) \/ q \in FirstMissing(reports, data)
      BY <1>1
    <2>2. q \notin data
      BY <1>7, <2>1
    <2>3. \/ q \in market[1] \/ q \in market[2]
          \/ q \in reports[1] \/ q \in reports[2] \/ q \in reports[3]
      BY <1>7, <2>1
    <2> QED BY <1>10, <1>11, <2>2, <2>3
  <1> QED BY <1>8, <1>9, <1>12

LEMMA FinalRequestIsFor ==
    ASSUME NEW schedule, NEW data
    PROVE  /\ \A s : Asks(FinalRequest(schedule, data), s) => s \in Members(schedule)
           /\ Members(schedule) \subseteq Symbols =>
                FinalRequest(schedule, data) \subseteq Everything \ data
  <1> DEFINE M == Members(schedule)
             last == <<Registration(M, data), {<<"PRICE", Period>>},
                       IF Strategy.financial THEN Keyed("FINANCIAL", M) ELSE {},
                       IF Strategy.actions THEN Keyed("ACTION", M) ELSE {}>>
  <1>1. FinalRequest(schedule, data) = FirstMissing(last, data)
    BY DEF FinalRequest
  <1>2. DOMAIN last = 1 .. 4
    OBVIOUS
  <1>3. /\ last[1] = Keyed("REGISTER", M \ With(data, "REGISTER")) /\ last[2] = {<<"PRICE", Period>>}
        /\ last[3] \subseteq Keyed("FINANCIAL", M) /\ last[4] \subseteq Keyed("ACTION", M)
    BY DEF Registration
  <1> HIDE DEF last, M
  <1>4. ASSUME NEW q \in FinalRequest(schedule, data)
        PROVE  q \notin data /\ (q \in last[1] \/ q \in last[2] \/ q \in last[3] \/ q \in last[4])
    <2>1. DOMAIN last \subseteq Nat
      BY <1>2
    <2>2. q \notin data /\ \E i \in 1 .. 4 : q \in last[i]
      BY <1>1, <1>2, <2>1, FirstMissingIsMissing
    <2> QED BY <2>2
  <1>5. ASSUME NEW s, Asks(FinalRequest(schedule, data), s)
        PROVE  s \in M
    <2>1. PICK q \in FinalRequest(schedule, data) : q = <<"FINANCIAL", s>> \/ q = <<"ACTION", s>>
      BY <1>5 DEF Asks
    <2>2. q \in last[1] \/ q \in last[2] \/ q \in last[3] \/ q \in last[4]
      BY <1>4
    <2> QED BY <1>3, <2>1, <2>2 DEF Keyed
  <1>6. ASSUME M \subseteq Symbols, NEW q \in FinalRequest(schedule, data)
        PROVE  q \in Everything
    <2>1. q \in last[1] \/ q \in last[2] \/ q \in last[3] \/ q \in last[4]
      BY <1>4
    <2>2. /\ Keyed("REGISTER", M \ With(data, "REGISTER")) \subseteq Everything
          /\ Keyed("FINANCIAL", M) \subseteq Everything /\ Keyed("ACTION", M) \subseteq Everything
      BY <1>6 DEF Keyed, Everything
    <2>3. <<"PRICE", Period>> \in Everything
      BY DEF Everything
    <2> QED BY <1>3, <2>1, <2>2, <2>3
  <1> QED BY <1>4, <1>5, <1>6 DEF M

-----------------------------------------------------------------------------
(* The invariant of an analysis.  The survivors are those of Survivors, with *)
(* the rule as a parameter: neither rule nor world ever change.             *)

SurvivorsOf(ru, w, d, x, n) ==
    LET f[k \in 0 .. Len(ru)] ==
          IF k = 0 THEN w.listed[d] \ x
          ELSE CHOOSE T \in SUBSET f[k - 1] : IsBest(T, f[k - 1], w, d, ru[k])
    IN  f[n]

IsJob(j) ==
    j = [at |-> j.at, data |-> j.data, excluded |-> j.excluded, schedule |-> j.schedule,
         request |-> j.request, why |-> j.why]

IsTrueSchedule(schedule, ru, w, x) ==
    \A d \in Dates : schedule[d] = SurvivorsOf(ru, w, d, x, Len(ru))

\* s survives what KRX alone decides.
SurvivesKrx(s, ru, w, x) ==
    \E d \in Dates : \E n \in 0 .. Len(ru) :
      /\ \A k \in 1 .. n : IsKrx(ru[k].criterion)
      /\ n < Len(ru) => ~ IsKrx(ru[n + 1].criterion)
      /\ s \in SurvivorsOf(ru, w, d, x, n)

AsksForSurvivors(j, ru, w) == \A s : Asks(j.request, s) => SurvivesKrx(s, ru, w, j.excluded)

HasAReason(j, ru, w) ==
    \/ \A d \in Dates : SurvivorsOf(ru, w, d, j.excluded, Len(ru)) = {}
    \/ j.why = "FAULT" /\ w.faulty # {}

\* A schedule that is final is the true one, a completed one can be run, what is waited
\* for is of survivors, and a failure has a reason.
JobInv(j, ru, w) ==
    /\ IsJob(j)
    /\ j.at \in {"FINISHING", "COMPLETED"} => IsTrueSchedule(j.schedule, ru, w, j.excluded)
    /\ j.at = "COMPLETED" => Unusable(w, j.schedule) = {}
    /\ j.at = "WAITING" => AsksForSurvivors(j, ru, w)
    /\ j.at = "FAILED" => HasAReason(j, ru, w)

AnalysisInv == rule \in Rules /\ world \in World /\ JobInv(job, rule, world)

LEMMA SameSurvivors ==
    \A w, d, x, n : Survivors(w, d, x, n) = SurvivorsOf(rule, w, d, x, n)
  BY DEF Survivors, SurvivorsOf

LEMMA RulesAreStages ==
    ASSUME rule \in Rules
    PROVE  rule \in Seq(Stages) /\ Len(rule) \in Nat
  <1>1. IsRule(rule)
    BY AnalysisAssumption
  <1>2. rule \in Seq(Stages)
    BY <1>1 DEF IsRule, Stages
  <1> QED BY <1>2

\* KRX decides the first stages of a rule, as far as they go.
LEMMA KrxGoesSomewhere ==
    ASSUME rule \in Seq(Stages)
    PROVE  \E p \in 0 .. Len(rule) :
             KrxAlone(p) /\ (p < Len(rule) => ~ IsKrx(rule[p + 1].criterion))
  <1> DEFINE N == Len(rule)
             alone == {n \in 0 .. N : KrxAlone(n)}
  <1>1. N \in Nat
    OBVIOUS
  <1>2. 0 \in alone
    BY <1>1 DEF KrxAlone
  <1>3. PICK p \in alone : \A n \in alone : n <= p
    <2>1. alone \subseteq 0 .. N /\ alone # {}
      BY <1>2
    <2> HIDE DEF alone, N
    <2> QED BY <1>1, <2>1, GreatestMember
  <1>4. p \in 0 .. N /\ KrxAlone(p)
    BY <1>3
  <1>5. ASSUME p < N, IsKrx(rule[p + 1].criterion)
        PROVE  FALSE
    <2>1. p + 1 \in 0 .. N /\ ~ (p + 1 <= p)
      BY <1>1, <1>4, <1>5
    <2>2. KrxAlone(p + 1)
      <3>1. ASSUME NEW k \in 1 .. p + 1
            PROVE  IsKrx(rule[k].criterion)
        <4>1. CASE k = p + 1
          BY <1>5, <4>1
        <4>2. CASE k # p + 1
          <5>1. k \in 1 .. p
            BY <1>4, <4>2
          <5> QED BY <1>4, <5>1 DEF KrxAlone
        <4> QED BY <4>1, <4>2
      <3> QED BY <3>1 DEF KrxAlone
    <2> QED BY <1>3, <2>1, <2>2
  <1> QED BY <1>4, <1>5

\* Who survives everything survives what KRX decides.
LEMMA SurvivorsSurviveKrx ==
    ASSUME rule \in Seq(Stages), world \in World, NEW x, NEW d \in Dates,
           NEW s \in Survivors(world, d, x, Len(rule))
    PROVE  SurvivesKrx(s, rule, world, x)
  <1>1. PICK p \in 0 .. Len(rule) :
          KrxAlone(p) /\ (p < Len(rule) => ~ IsKrx(rule[p + 1].criterion))
    BY KrxGoesSomewhere
  <1>2. PICK f : Passes(f, world, {}, x, d)
    BY AfterStagesFollow
  <1>3. Len(rule) \in p .. Len(rule)
    OBVIOUS
  <1>4. Survivors(world, d, x, Len(rule)) \subseteq Survivors(world, d, x, p)
    BY <1>2, <1>3, BehindAStage
  <1>5. s \in SurvivorsOf(rule, world, d, x, p)
    BY <1>4, SameSurvivors
  <1> QED BY <1>1, <1>5 DEF SurvivesKrx, KrxAlone

\* A member of a true schedule is a survivor, and was not excluded.
LEMMA MembersOfATrueSchedule ==
    ASSUME rule \in Seq(Stages), world \in World, NEW x, NEW schedule,
           IsTrueSchedule(schedule, rule, world, x), NEW s \in Members(schedule)
    PROVE  SurvivesKrx(s, rule, world, x) /\ s \notin x
  <1>1. PICK d \in Dates : s \in schedule[d]
    BY DEF Members
  <1>2. s \in Survivors(world, d, x, Len(rule))
    BY <1>1, SameSurvivors DEF IsTrueSchedule
  <1>3. SurvivesKrx(s, rule, world, x)
    BY <1>2, SurvivorsSurviveKrx
  <1>4. PICK f : Passes(f, world, {}, x, d)
    BY AfterStagesFollow
  <1>5. 0 \in 0 .. Len(rule) /\ Len(rule) \in 0 .. Len(rule)
    OBVIOUS
  <1>6. Survivors(world, d, x, Len(rule)) \subseteq Survivors(world, d, x, 0)
    BY <1>4, <1>5, BehindAStage
  <1>7. Survivors(world, d, x, 0) = world.listed[d] \ x
    BY SurvivorsOfAStage
  <1>8. s \notin x
    BY <1>2, <1>6, <1>7
  <1> QED BY <1>3, <1>8

LEMMA InitAnalysis == Init => AnalysisInv
  <1> SUFFICES ASSUME Init PROVE AnalysisInv
    OBVIOUS
  <1>1. job = [at |-> "QUEUED", data |-> {}, excluded |-> {}, schedule |-> NoSchedule,
               request |-> {}, why |-> "NONE"]
    BY DEF Init
  <1>2. IsJob(job) /\ job.at = "QUEUED"
    BY <1>1 DEF IsJob
  <1> QED BY <1>2, WorldsAssumption DEF Init, AnalysisInv, JobInv

\* A pass leaves a job that has answers to what the resolver says.
LEMMA ResolvePassKeepsAnalysis ==
    ASSUME AnalysisInv, ResolvePass
    PROVE  JobInv(job', rule, world)
  <1>1. /\ rule \in Seq(Stages) /\ Len(rule) \in Nat /\ world \in World /\ IsJob(job)
        /\ job.at = "RESOLVING"
    BY RulesAreStages DEF AnalysisInv, JobInv, ResolvePass
  <1>2. PICK r : /\ r = Resolve(rule, world, job.data, job.excluded)
                 /\ CASE r.kind = "FAILED" -> Fail("FAULT")
                      [] r.kind = "NEEDS_DATA" -> NeedsData(Request(r.needs, job.data))
                      [] r.kind = "READY" ->
                           job' = [job EXCEPT
                                     !.at = IF r.out \subseteq job.excluded THEN "FINISHING" ELSE @,
                                     !.excluded = @ \cup r.out, !.schedule = r.schedule]
    BY DEF ResolvePass
  <1>3. /\ r.kind \in {"FAILED", "READY", "NEEDS_DATA"}
        /\ r.kind = "FAILED" => world.faulty # {}
        /\ r.kind = "NEEDS_DATA" => r.needs # {}
        /\ r.needs \subseteq Needs /\ \A need \in r.needs : IsMissing(need, job.data)
        /\ r.kind = "READY" /\ r.out \subseteq job.excluded =>
             \A d \in Dates : r.schedule[d] = Survivors(world, d, job.excluded, Len(rule))
        /\ (\A d \in Dates : <<"METRIC", d>> \notin r.needs) =>
             \A p \in 0 .. Len(rule) : \A s : KrxAlone(p) /\ Asks(r.needs, s) =>
               \E d \in Dates : s \in Survivors(world, d, job.excluded, p)
    <2>1. PICK w, data, x : w = world /\ data = job.data /\ x = job.excluded
      OBVIOUS
    <2>2. w \in World /\ r = Resolve(rule, w, data, x)
      BY <1>1, <1>2, <2>1
    <2>3. /\ r.kind \in {"FAILED", "READY", "NEEDS_DATA"}
          /\ r.kind = "FAILED" => w.faulty # {}
          /\ r.kind = "NEEDS_DATA" => r.needs # {}
          /\ r.needs \subseteq Needs /\ \A need \in r.needs : IsMissing(need, data)
          /\ r.kind = "READY" /\ r.out \subseteq x =>
               \A d \in Dates : r.schedule[d] = Survivors(w, d, x, Len(rule))
          /\ (\A d \in Dates : <<"METRIC", d>> \notin r.needs) =>
               \A p \in 0 .. Len(rule) : \A s : KrxAlone(p) /\ Asks(r.needs, s) =>
                 \E d \in Dates : s \in Survivors(w, d, x, p)
      BY <1>1, <2>2, ResolveIsTrue
    <2> QED BY <2>1, <2>3
  <1>4. CASE r.kind = "FAILED"
    <2>1. job' = [job EXCEPT !.at = "FAILED", !.why = "FAULT"]
      BY <1>2, <1>4 DEF Fail
    <2>2. IsJob(job') /\ job'.at = "FAILED" /\ job'.why = "FAULT"
      BY <1>1, <2>1 DEF IsJob
    <2> QED BY <1>3, <1>4, <2>2 DEF JobInv, HasAReason
  <1>5. CASE r.kind = "NEEDS_DATA"
    <2>1. PICK request : request = Request(r.needs, job.data)
      OBVIOUS
    <2>2. request # {} /\ \A s : Asks(request, s) =>
            Asks(r.needs, s) /\ \A d \in Dates : <<"METRIC", d>> \notin r.needs
      <3>1. PICK needs, data : needs = r.needs /\ data = job.data
        OBVIOUS
      <3>2. needs \subseteq Needs /\ request = Request(needs, data) /\ needs # {}
            /\ \A need \in needs : IsMissing(need, data)
        BY <1>3, <1>5, <2>1, <3>1
      <3>3. request # {} /\ \A s : Asks(request, s) =>
              Asks(needs, s) /\ \A d \in Dates : <<"METRIC", d>> \notin needs
        BY <3>2, RequestIsFor
      <3> QED BY <3>1, <3>3
    <2>3. job' = [job EXCEPT !.at = "WAITING", !.request = request]
      BY <1>2, <1>5, <2>1, <2>2 DEF NeedsData
    <2>4. /\ IsJob(job') /\ job'.at = "WAITING" /\ job'.request = request
          /\ job'.excluded = job.excluded
      BY <1>1, <2>3 DEF IsJob
    <2>5. PICK p \in 0 .. Len(rule) :
            KrxAlone(p) /\ (p < Len(rule) => ~ IsKrx(rule[p + 1].criterion))
      BY <1>1, KrxGoesSomewhere
    <2>6. ASSUME NEW s, Asks(request, s)
          PROVE  SurvivesKrx(s, rule, world, job.excluded)
      <3>1. PICK d \in Dates : s \in Survivors(world, d, job.excluded, p)
        BY <1>3, <2>2, <2>5, <2>6
      <3>2. s \in SurvivorsOf(rule, world, d, job.excluded, p)
        BY <3>1, SameSurvivors
      <3> QED BY <2>5, <3>2 DEF SurvivesKrx, KrxAlone
    <2>7. AsksForSurvivors(job', rule, world)
      BY <2>4, <2>6 DEF AsksForSurvivors
    <2> QED BY <2>4, <2>7 DEF JobInv
  <1>6. CASE r.kind = "READY"
    <2>1. job' = [job EXCEPT !.at = IF r.out \subseteq job.excluded THEN "FINISHING" ELSE @,
                             !.excluded = @ \cup r.out, !.schedule = r.schedule]
      BY <1>2, <1>6
    <2>2. /\ IsJob(job') /\ job'.excluded = job.excluded \cup r.out /\ job'.schedule = r.schedule
          /\ job'.at = IF r.out \subseteq job.excluded THEN "FINISHING" ELSE "RESOLVING"
      BY <1>1, <2>1 DEF IsJob
    <2>3. CASE r.out \subseteq job.excluded
      <3>1. job'.excluded = job.excluded
        BY <2>2, <2>3
      <3>2. IsTrueSchedule(job'.schedule, rule, world, job'.excluded)
        BY <1>3, <1>6, <2>2, <2>3, <3>1, SameSurvivors DEF IsTrueSchedule
      <3> QED BY <2>2, <2>3, <3>2 DEF JobInv
    <2>4. CASE ~ (r.out \subseteq job.excluded)
      BY <2>2, <2>4 DEF JobInv
    <2> QED BY <2>3, <2>4
  <1> QED BY <1>3, <1>4, <1>5, <1>6

LEMMA FinishKeepsAnalysis ==
    ASSUME AnalysisInv, Finish
    PROVE  JobInv(job', rule, world)
  <1>1. /\ rule \in Seq(Stages) /\ Len(rule) \in Nat /\ world \in World /\ IsJob(job)
        /\ job.at = "FINISHING" /\ IsTrueSchedule(job.schedule, rule, world, job.excluded)
    BY RulesAreStages DEF AnalysisInv, JobInv, Finish
  <1> DEFINE M == Members(job.schedule)
  <1>2. \A s \in M : SurvivesKrx(s, rule, world, job.excluded) /\ s \notin job.excluded
    BY <1>1, MembersOfATrueSchedule
  <1>3. CASE M = {}
    <2>1. job' = [job EXCEPT !.at = "FAILED", !.why = "EMPTY"]
      BY <1>3 DEF Finish, Fail
    <2>2. IsJob(job') /\ job'.at = "FAILED" /\ job'.excluded = job.excluded
      BY <1>1, <2>1 DEF IsJob
    <2>3. \A d \in Dates : job.schedule[d] = {}
      BY <1>3 DEF Members
    <2>4. HasAReason(job', rule, world)
      BY <1>1, <2>2, <2>3 DEF HasAReason, IsTrueSchedule
    <2> QED BY <2>2, <2>4 DEF JobInv
  <1>4. CASE M # {}
    <2>1. PICK request, unusable :
            /\ request = FinalRequest(job.schedule, job.data)
            /\ unusable = Unusable(world, job.schedule)
            /\ IF request # {} THEN NeedsData(request)
               ELSE IF Strategy.fields /\ M \cap world.faulty # {} THEN Fail("FAULT")
               ELSE IF unusable = {} THEN job' = [job EXCEPT !.at = "COMPLETED"]
               ELSE IF unusable \subseteq job.excluded THEN Fail("EXCLUDED")
               ELSE job' = [job EXCEPT !.at = "RESOLVING", !.excluded = @ \cup unusable]
      BY <1>4 DEF Finish
    <2>2. CASE request # {}
      <3>1. job' = [job EXCEPT !.at = "WAITING", !.request = request]
        BY <2>1, <2>2 DEF NeedsData
      <3>2. /\ IsJob(job') /\ job'.at = "WAITING" /\ job'.request = request
            /\ job'.excluded = job.excluded
        BY <1>1, <3>1 DEF IsJob
      <3>3. \A s : Asks(request, s) => s \in M
        BY <2>1, FinalRequestIsFor
      <3>4. AsksForSurvivors(job', rule, world)
        BY <1>2, <3>2, <3>3 DEF AsksForSurvivors
      <3> QED BY <3>2, <3>4 DEF JobInv
    <2>3. CASE request = {} /\ Strategy.fields /\ M \cap world.faulty # {}
      <3>1. job' = [job EXCEPT !.at = "FAILED", !.why = "FAULT"]
        BY <2>1, <2>3 DEF Fail
      <3>2. IsJob(job') /\ job'.at = "FAILED" /\ job'.why = "FAULT"
        BY <1>1, <3>1 DEF IsJob
      <3> QED BY <2>3, <3>2 DEF JobInv, HasAReason
    <2>4. CASE /\ request = {} /\ ~ (Strategy.fields /\ M \cap world.faulty # {})
               /\ unusable = {}
      <3>1. job' = [job EXCEPT !.at = "COMPLETED"]
        BY <2>1, <2>4
      <3>2. /\ IsJob(job') /\ job'.at = "COMPLETED" /\ job'.schedule = job.schedule
            /\ job'.excluded = job.excluded
        BY <1>1, <3>1 DEF IsJob
      <3> QED BY <1>1, <2>1, <2>4, <3>2 DEF JobInv
    <2>5. CASE /\ request = {} /\ ~ (Strategy.fields /\ M \cap world.faulty # {})
               /\ unusable # {}
      <3>1. unusable \subseteq M
        BY <2>1 DEF Unusable
      <3>2. ~ (unusable \subseteq job.excluded)
        BY <1>2, <2>5, <3>1
      <3>3. job' = [job EXCEPT !.at = "RESOLVING", !.excluded = @ \cup unusable]
        BY <2>1, <2>5, <3>2
      <3>4. IsJob(job') /\ job'.at = "RESOLVING"
        BY <1>1, <3>3 DEF IsJob
      <3> QED BY <3>4 DEF JobInv
    <2> QED BY <2>2, <2>3, <2>4, <2>5
  <1> QED BY <1>3, <1>4

LEMMA NextKeepsAnalysis ==
    ASSUME AnalysisInv, [Next]_vars
    PROVE  AnalysisInv'
  <1>1. rule' = rule /\ world' = world
    BY DEF Next, vars, Claim, ResolvePass, Finish, LoseLease, Collect, CollectForOthers
  <1>2. JobInv(job, rule, world) /\ IsJob(job)
    BY DEF AnalysisInv, JobInv
  <1>3. JobInv(job', rule, world)
    <2>1. CASE Claim
      <3>1. job' = [job EXCEPT !.at = "RESOLVING", !.data = store, !.excluded = {},
                               !.schedule = NoSchedule, !.request = {}]
        BY <2>1 DEF Claim
      <3>2. IsJob(job') /\ job'.at = "RESOLVING"
        BY <1>2, <3>1 DEF IsJob
      <3> QED BY <3>2 DEF JobInv
    <2>2. CASE ResolvePass
      BY <2>2, ResolvePassKeepsAnalysis
    <2>3. CASE Finish
      BY <2>3, FinishKeepsAnalysis
    <2>4. CASE LoseLease \/ Collect
      <3>1. job' = [job EXCEPT !.at = "QUEUED"]
        BY <2>4 DEF LoseLease, Collect
      <3>2. IsJob(job') /\ job'.at = "QUEUED"
        BY <1>2, <3>1 DEF IsJob
      <3> QED BY <3>2 DEF JobInv
    <2>5. CASE CollectForOthers \/ UNCHANGED vars
      <3>1. job' = job
        BY <2>5 DEF CollectForOthers, vars
      <3> QED BY <1>2, <3>1
    <2> QED BY <2>1, <2>2, <2>3, <2>4, <2>5 DEF Next
  <1> QED BY <1>1, <1>3 DEF AnalysisInv

\* In every state of an analysis, a schedule that is final is the true one, what is
\* waited for concerns survivors and a failure has a reason (runClaimedJob and
\* resolveUntilReady of backtest-preparation-orchestrator.ts).
THEOREM AnalysisIsInvariant == Spec => []AnalysisInv
  <1>1. Init => AnalysisInv
    BY InitAnalysis
  <1>2. AnalysisInv /\ [Next]_vars => AnalysisInv'
    BY NextKeepsAnalysis
  <1> QED BY <1>1, <1>2, PTL DEF Spec

\* The preview of every completed preparation is what its rule selects from everything
\* the providers have, without the symbols it names as excluded (resolveUntilReady of
\* backtest-preparation-orchestrator.ts over resolveOrDescribeNeeds).
THEOREM PreviewsAlwaysTrue == Spec => []PreviewIsTrue
  <1>1. AnalysisInv => PreviewIsTrue
    BY SameSurvivors DEF AnalysisInv, JobInv, IsTrueSchedule, PreviewIsTrue
  <1> QED BY <1>1, AnalysisIsInvariant, PTL

\* Whatever the rule, reports and prices are only asked for of symbols that survive what
\* KRX alone decides (the order of resolveOrDescribeNeeds and resolveUntilReady).
THEOREM OnlySurvivorsAlwaysFetched == Spec => []OnlySurvivorsAreFetched
  <1>1. AnalysisInv => OnlySurvivorsAreFetched
    <2> SUFFICES ASSUME AnalysisInv, job.at = "WAITING", NEW s \in Symbols,
                        job.request \cap {<<"FINANCIAL", s>>, <<"ACTION", s>>} # {}
                 PROVE  \E d \in Dates : \E n \in 0..Len(rule) :
                          /\ \A k \in 1..n : IsKrx(rule[k].criterion)
                          /\ n < Len(rule) => ~ IsKrx(rule[n + 1].criterion)
                          /\ s \in Survivors(world, d, job.excluded, n)
      BY DEF OnlySurvivorsAreFetched
    <2>1. Asks(job.request, s)
      BY DEF Asks
    <2>2. SurvivesKrx(s, rule, world, job.excluded)
      BY <2>1 DEF AnalysisInv, JobInv, AsksForSurvivors
    <2> QED BY <2>2, SameSurvivors DEF SurvivesKrx
  <1> QED BY <1>1, AnalysisIsInvariant, PTL

\* No preparation fails because it asks again for what it has or excludes what it has
\* excluded: nothing can be selected, or a report is contradictory (the failures of
\* resolveUntilReady and of its final plan).
THEOREM FailuresAlwaysHaveAReason == Spec => []FailsForAReason
  <1>1. AnalysisInv => FailsForAReason
    BY SameSurvivors DEF AnalysisInv, JobInv, HasAReason, FailsForAReason
  <1> QED BY <1>1, AnalysisIsInvariant, PTL

-----------------------------------------------------------------------------
(* That an analysis goes forward.                                           *)

\* What is waited for is missing in the version of the lease, and in the store when
\* the job is queued again.
Forward ==
    /\ job.data \subseteq store /\ job.excluded \subseteq Symbols
    /\ job.request \subseteq Everything \ job.data
    /\ job.at = "QUEUED" => job.request \subseteq store
    /\ job.at = "WAITING" => job.request # {}
    /\ job.at \in {"RESOLVING", "FINISHING"} => job.request = {}

\* What a step of the job may be: a lease begins on all that the one before had and
\* waited for, a pass that does not end the analysis of the lease excludes one symbol
\* more, and what a lease waits for is something that its version has not.
GoesForward ==
    /\ job.at = "QUEUED" /\ job'.at = "RESOLVING" =>
         job.data \cup job.request \subseteq job'.data
    /\ job.at \in {"RESOLVING", "FINISHING"} /\ job'.at = "RESOLVING" /\ job' # job =>
         /\ job.excluded \subseteq job'.excluded /\ job'.excluded # job.excluded
         /\ job'.excluded \subseteq Symbols
    /\ job.at # "WAITING" /\ job'.at = "WAITING" =>
         job'.request # {} /\ job'.request \subseteq Everything \ job'.data

LEMMA ResolvePassGoesForward ==
    ASSUME AnalysisInv, Forward, ResolvePass
    PROVE  Forward' /\ GoesForward
  <1>1. /\ rule \in Seq(Stages) /\ world \in World /\ IsJob(job)
        /\ job.at = "RESOLVING" /\ store' = store
    BY RulesAreStages DEF AnalysisInv, JobInv, ResolvePass
  <1>2. PICK r : /\ r = Resolve(rule, world, job.data, job.excluded)
                 /\ CASE r.kind = "FAILED" -> Fail("FAULT")
                      [] r.kind = "NEEDS_DATA" -> NeedsData(Request(r.needs, job.data))
                      [] r.kind = "READY" ->
                           job' = [job EXCEPT
                                     !.at = IF r.out \subseteq job.excluded THEN "FINISHING" ELSE @,
                                     !.excluded = @ \cup r.out, !.schedule = r.schedule]
    BY DEF ResolvePass
  <1>3. /\ r.kind \in {"FAILED", "READY", "NEEDS_DATA"}
        /\ r.out \subseteq Symbols /\ r.needs \subseteq Needs
    <2>1. PICK w, data, x : w = world /\ data = job.data /\ x = job.excluded
      OBVIOUS
    <2>2. w \in World /\ r = Resolve(rule, w, data, x)
      BY <1>1, <1>2, <2>1
    <2> QED BY <1>1, <2>2, ResolveIsTrue
  <1>4. CASE r.kind = "FAILED"
    <2>1. job' = [job EXCEPT !.at = "FAILED", !.why = "FAULT"]
      BY <1>2, <1>4 DEF Fail
    <2>2. /\ job'.at = "FAILED" /\ job'.data = job.data /\ job'.excluded = job.excluded
          /\ job'.request = job.request
      BY <1>1, <2>1 DEF IsJob
    <2> QED BY <1>1, <2>2 DEF Forward, GoesForward
  <1>5. CASE r.kind = "NEEDS_DATA"
    <2>1. PICK request : request = Request(r.needs, job.data)
      OBVIOUS
    <2>2. request \subseteq Everything \ job.data
      <3>1. PICK needs, data : needs = r.needs /\ data = job.data
        OBVIOUS
      <3>2. needs \subseteq Needs /\ request = Request(needs, data)
        BY <1>3, <2>1, <3>1
      <3>3. request \subseteq Everything \ data
        <4>1. PICK other : other = Request(needs, data)
          OBVIOUS
        <4>2. other \subseteq Everything \ data
          <5>1. needs \subseteq Needs
            BY <3>2
          <5> QED BY <4>1, <5>1, RequestIsFor
        <4> QED BY <3>2, <4>1, <4>2
      <3> QED BY <3>1, <3>3
    <2>3. NeedsData(request)
      BY <1>2, <1>5, <2>1
    <2>4. /\ job'.data = job.data /\ job'.excluded = job.excluded
          /\ \/ job'.at = "FAILED" /\ job'.request = job.request
             \/ job'.at = "WAITING" /\ job'.request = request /\ request # {}
      BY <1>1, <2>3 DEF NeedsData, Fail, IsJob
    <2> QED BY <1>1, <2>2, <2>4 DEF Forward, GoesForward
  <1>6. CASE r.kind = "READY"
    <2>1. job' = [job EXCEPT !.at = IF r.out \subseteq job.excluded THEN "FINISHING" ELSE @,
                             !.excluded = @ \cup r.out, !.schedule = r.schedule]
      BY <1>2, <1>6
    <2>2. /\ job'.excluded = job.excluded \cup r.out
          /\ job'.data = job.data /\ job'.request = job.request
          /\ job'.at = IF r.out \subseteq job.excluded THEN "FINISHING" ELSE "RESOLVING"
      BY <1>1, <2>1 DEF IsJob
    <2>3. Forward'
      BY <1>1, <1>3, <2>2 DEF Forward
    <2>4. GoesForward
      BY <1>1, <1>3, <2>2 DEF Forward, GoesForward
    <2> QED BY <2>3, <2>4
  <1> QED BY <1>3, <1>4, <1>5, <1>6

LEMMA FinishGoesForward ==
    ASSUME AnalysisInv, Forward, Finish
    PROVE  Forward' /\ GoesForward
  <1>1. /\ rule \in Seq(Stages) /\ world \in World /\ IsJob(job) /\ store' = store
        /\ job.at = "FINISHING" /\ IsTrueSchedule(job.schedule, rule, world, job.excluded)
    BY RulesAreStages DEF AnalysisInv, JobInv, Finish
  <1> DEFINE M == Members(job.schedule)
  <1>2. M \subseteq Symbols
    <2>1. ASSUME NEW s \in M
          PROVE  s \in Symbols
      <3>1. PICK d \in Dates : s \in job.schedule[d]
        BY DEF Members
      <3>2. s \in Survivors(world, d, job.excluded, Len(rule))
        BY <1>1, <3>1, SameSurvivors DEF IsTrueSchedule
      <3>3. Len(rule) \in 0 .. Len(rule)
        BY <1>1
      <3>4. Survivors(world, d, job.excluded, Len(rule)) \in SUBSET Symbols
        BY <1>1, <3>3, SurvivorsOfAStage
      <3> QED BY <3>2, <3>4
    <2> QED BY <2>1
  <1>3. CASE M = {}
    <2>1. job' = [job EXCEPT !.at = "FAILED", !.why = "EMPTY"]
      BY <1>3 DEF Finish, Fail
    <2>2. /\ job'.at = "FAILED" /\ job'.data = job.data /\ job'.excluded = job.excluded
          /\ job'.request = job.request
      BY <1>1, <2>1 DEF IsJob
    <2> QED BY <1>1, <2>2 DEF Forward, GoesForward
  <1>4. CASE M # {}
    <2>1. PICK request, unusable :
            /\ request = FinalRequest(job.schedule, job.data)
            /\ unusable = Unusable(world, job.schedule)
            /\ IF request # {} THEN NeedsData(request)
               ELSE IF Strategy.fields /\ M \cap world.faulty # {} THEN Fail("FAULT")
               ELSE IF unusable = {} THEN job' = [job EXCEPT !.at = "COMPLETED"]
               ELSE IF unusable \subseteq job.excluded THEN Fail("EXCLUDED")
               ELSE job' = [job EXCEPT !.at = "RESOLVING", !.excluded = @ \cup unusable]
      BY <1>4 DEF Finish
    <2>2. request \subseteq Everything \ job.data
      BY <1>2, <2>1, FinalRequestIsFor
    <2>3. unusable \subseteq Symbols
      BY <1>2, <2>1 DEF Unusable
    <2>4. job'.data = job.data /\
          \/ /\ job'.at \in {"FAILED", "COMPLETED"} /\ job'.request = job.request
             /\ job'.excluded = job.excluded
          \/ /\ job'.at = "WAITING" /\ job'.request = request /\ request # {}
             /\ job'.excluded = job.excluded
          \/ /\ job'.at = "RESOLVING" /\ job'.request = job.request
             /\ job'.excluded = job.excluded \cup unusable /\ ~ (unusable \subseteq job.excluded)
      BY <1>1, <2>1 DEF NeedsData, Fail, IsJob
    <2>5. Forward'
      BY <1>1, <2>2, <2>3, <2>4 DEF Forward
    <2>6. GoesForward
      BY <1>1, <2>2, <2>3, <2>4 DEF Forward, GoesForward
    <2> QED BY <2>5, <2>6
  <1> QED BY <1>3, <1>4

LEMMA StepsGoForward ==
    ASSUME AnalysisInv, Forward, [Next]_vars
    PROVE  Forward' /\ GoesForward
  <1>1. IsJob(job)
    BY DEF AnalysisInv, JobInv
  <1>2. CASE Claim
    <2>1. /\ job.at = "QUEUED" /\ store' = store
          /\ job' = [job EXCEPT !.at = "RESOLVING", !.data = store, !.excluded = {},
                                !.schedule = NoSchedule, !.request = {}]
      BY <1>2 DEF Claim
    <2>2. job'.at = "RESOLVING" /\ job'.data = store /\ job'.excluded = {} /\ job'.request = {}
      BY <1>1, <2>1 DEF IsJob
    <2> QED BY <2>1, <2>2 DEF Forward, GoesForward
  <1>3. CASE LoseLease
    <2>1. /\ job.at \in {"RESOLVING", "FINISHING"} /\ store' = store
          /\ job' = [job EXCEPT !.at = "QUEUED"]
      BY <1>3 DEF LoseLease
    <2>2. /\ job'.at = "QUEUED" /\ job'.data = job.data /\ job'.excluded = job.excluded
          /\ job'.request = job.request
      BY <1>1, <2>1 DEF IsJob
    <2> QED BY <2>1, <2>2 DEF Forward, GoesForward
  <1>4. CASE Collect
    <2>1. /\ job.at = "WAITING" /\ store' = store \cup Collected(job.request)
          /\ job' = [job EXCEPT !.at = "QUEUED"]
      BY <1>4 DEF Collect
    <2>2. /\ job'.at = "QUEUED" /\ job'.data = job.data /\ job'.excluded = job.excluded
          /\ job'.request = job.request
      BY <1>1, <2>1 DEF IsJob
    <2>3. job.request \subseteq store' /\ store \subseteq store'
      BY <2>1 DEF Collected
    <2> QED BY <2>1, <2>2, <2>3 DEF Forward, GoesForward
  <1>5. CASE CollectForOthers \/ UNCHANGED vars
    <2>1. job' = job /\ store \subseteq store'
      BY <1>5 DEF CollectForOthers, vars
    <2> QED BY <2>1 DEF Forward, GoesForward
  <1> QED BY <1>2, <1>3, <1>4, <1>5, ResolvePassGoesForward, FinishGoesForward DEF Next

\* An analysis does not go round in circles: every pass that is followed by another
\* excludes a symbol more, what a lease waits for is missing in its version, and the
\* next lease has it (resolveUntilReady and runClaimedJob of
\* backtest-preparation-orchestrator.ts). As there are finitely many symbols and dates,
\* only lost leases can prolong it.
THEOREM AnalysisGoesForward == Spec => [][GoesForward]_vars
  <1>1. Init => Forward
    <2> SUFFICES ASSUME Init PROVE Forward
      OBVIOUS
    <2>1. job.at = "QUEUED" /\ job.data = {} /\ job.excluded = {} /\ job.request = {}
      BY DEF Init
    <2> QED BY <2>1 DEF Forward
  <1>2. AnalysisInv /\ Forward /\ [Next]_vars => Forward' /\ GoesForward
    BY StepsGoForward
  <1> QED BY <1>1, <1>2, AnalysisIsInvariant, PTL DEF Spec
=============================================================================
