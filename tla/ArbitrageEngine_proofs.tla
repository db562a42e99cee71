------------------------ MODULE ArbitrageEngine_proofs ------------------------
(***************************************************************************)
(* The walk of evaluate_direction, for every pair of books that are not    *)
(* crossed, every fee, every filter and every depth: what it fills can be  *)
(* traded, nothing pays better, and what is reported keeps within the      *)
(* spread at the top of the books.                                         *)
(***************************************************************************)
EXTENDS ArbitrageEngine, FiniteSetTheorems, WellFoundedInduction, TLAPS

-----------------------------------------------------------------------------
(* Induction over the natural numbers for sets, from the well-foundedness  *)
(* of < on Nat, as no rule with a predicate for parameter can be used.     *)

\* A set of natural numbers that is not empty has a least element.
LEMMA LeastElement ==
    ASSUME NEW T, T \subseteq Nat, T # {}
    PROVE  \E x \in T : \A y \in T : x <= y
<1>1. IsWellFoundedOn(OpToRel(<, Nat), Nat)
  BY NatLessThanWellFounded
<1>2. \E x \in T : \A y \in T : ~(<<y, x>> \in OpToRel(<, Nat))
  BY <1>1, WFMin
<1>3. PICK x \in T : \A y \in T : ~(<<y, x>> \in OpToRel(<, Nat))
  BY <1>2
<1>4. \A y \in T : ~(y < x)
  BY <1>3 DEF OpToRel
<1> QED BY <1>4

\* A set that holds 0, and n + 1 with every n, holds every natural number.
LEMMA SetInduction ==
    ASSUME NEW S, 0 \in S, \A n \in Nat : n \in S => n + 1 \in S
    PROVE  Nat \subseteq S
<1> SUFFICES ASSUME Nat \ S # {} PROVE FALSE
  OBVIOUS
<1>1. PICK x \in Nat \ S : \A y \in Nat \ S : x <= y
  BY LeastElement
<1>2. x # 0 /\ x - 1 \in Nat /\ x - 1 \in S
  BY <1>1
<1> QED BY <1>1, <1>2

-----------------------------------------------------------------------------
(* The levels of a side, best first.                                       *)

\* The elements of S whose key is smaller than that of p.
Under(S, key, p) == {q \in S : key[q] < key[p]}

\* In a finite set ordered by a key every rank is taken.
LEMMA RankExists ==
    ASSUME NEW T, IsFiniteSet(T), NEW key \in [T -> Int],
           \A p, q \in T : key[p] = key[q] => p = q,
           NEW S \in SUBSET T, NEW i \in Nat, i < Cardinality(S)
    PROVE  \E p \in S : Cardinality(Under(S, key, p)) = i
<1> DEFINE Ranked(A) == \A k \in Nat : k < Cardinality(A) =>
                            \E p \in A : Cardinality(Under(A, key, p)) = k
           Good == {n \in Nat : \A A \in SUBSET T : Cardinality(A) <= n => Ranked(A)}
<1>1. \A A \in SUBSET T : IsFiniteSet(A) /\ Cardinality(A) \in Nat
  BY FS_Subset, FS_CardinalityType
<1>2. 0 \in Good
  BY <1>1
<1>3. ASSUME NEW n \in Nat, n \in Good
      PROVE  n + 1 \in Good
  <2> SUFFICES ASSUME NEW A \in SUBSET T, Cardinality(A) <= n + 1, NEW k \in Nat,
                      k < Cardinality(A)
               PROVE  \E p \in A : Cardinality(Under(A, key, p)) = k
    OBVIOUS
  <2>1. PICK x \in A : TRUE
    <3>1. Cardinality(A) # 0
      BY <1>1
    <3> QED BY <3>1, FS_EmptySet
  <2> DEFINE L == Under(A, key, x)
             U == {q \in A : key[q] > key[x]}
             l == Cardinality(L)
             u == Cardinality(U)
  <2>2. /\ L \in SUBSET T /\ U \in SUBSET T /\ L \cup {x} \in SUBSET T
        /\ IsFiniteSet(L) /\ IsFiniteSet(U) /\ IsFiniteSet(L \cup {x}) /\ l \in Nat /\ u \in Nat
    BY <1>1, <2>1 DEF Under
  <2>3. x \notin L /\ Cardinality(L \cup {x}) = l + 1
    <3>1. x \notin L
      BY <2>1 DEF Under
    <3> QED BY <2>2, <3>1, FS_AddElement
  <2>4. Cardinality(A) = (l + 1) + u
    <3>1. A = (L \cup {x}) \cup U /\ (L \cup {x}) \cap U = {}
      <4>1. \A q \in A : key[q] \in Int /\ (key[q] < key[x] \/ key[q] > key[x] \/ q = x)
        BY <2>1
      <4> QED BY <2>1, <4>1 DEF Under
    <3>2. Cardinality((L \cup {x}) \cup U)
              = Cardinality(L \cup {x}) + Cardinality(U) - Cardinality((L \cup {x}) \cap U)
      BY <2>2, FS_Union
    <3>3. Cardinality((L \cup {x}) \cap U) = 0
      BY <3>1, FS_EmptySet
    <3>4. Cardinality(A) = (l + 1) + u - 0
      <4> HIDE DEF L, U
      <4> QED BY <2>3, <3>1, <3>2, <3>3
    <3> HIDE DEF l, u
    <3> QED BY <2>2, <3>4
  <2> HIDE DEF l, u
  <2>5. CASE k < l
    <3>1. l <= n
      BY <1>1, <2>2, <2>4
    <3>2. PICK p \in L : Cardinality(Under(L, key, p)) = k
      BY <1>3, <2>2, <2>5, <3>1 DEF l
    <3>3. Under(L, key, p) = Under(A, key, p)
      BY <2>1, <3>2 DEF Under
    <3> QED BY <3>2, <3>3 DEF Under
  <2>6. CASE k = l
    BY <2>1, <2>6 DEF l
  <2>7. CASE k > l
    <3>1. k - (l + 1) \in Nat /\ k - (l + 1) < u /\ u <= n
      BY <1>1, <2>2, <2>4, <2>7
    <3>2. PICK p \in U : Cardinality(Under(U, key, p)) = k - (l + 1)
      BY <1>3, <2>2, <3>1 DEF u
    <3> DEFINE V == Under(U, key, p)
    <3>3. Under(A, key, p) = (L \cup {x}) \cup V /\ (L \cup {x}) \cap V = {}
      <4>1. \A q \in A : key[q] \in Int /\ (key[q] < key[x] \/ key[q] > key[x] \/ q = x)
        BY <2>1
      <4> QED BY <2>1, <3>2, <4>1 DEF Under
    <3>4. IsFiniteSet(V)
      BY <2>2, FS_Subset DEF Under
    <3>5. Cardinality((L \cup {x}) \cup V)
              = Cardinality(L \cup {x}) + Cardinality(V) - Cardinality((L \cup {x}) \cap V)
      BY <2>2, <3>4, FS_Union
    <3>6. Cardinality((L \cup {x}) \cap V) = 0
      BY <3>3, FS_EmptySet
    <3>7. Cardinality(Under(A, key, p)) = (l + 1) + (k - (l + 1))
      <4> HIDE DEF V
      <4>1. Cardinality(V) = k - (l + 1)
        BY <3>2 DEF V
      <4> QED BY <2>2, <2>3, <3>1, <3>3, <3>5, <3>6, <4>1
    <3> QED BY <2>2, <3>2, <3>7
  <2> QED BY <2>2, <2>5, <2>6, <2>7
<1>4. Nat \subseteq Good
  <2> HIDE DEF Good
  <2> QED BY <1>2, <1>3, SetInduction
<1>5. Cardinality(S) \in Good /\ Cardinality(S) <= Cardinality(S)
  BY <1>1, <1>4
<1>6. Ranked(S)
  <2> HIDE DEF Ranked
  <2> QED BY <1>1, <1>5
<1> QED BY <1>6

\* The element of a rank, and how two of them compare.
LEMMA RankedLevels ==
    ASSUME NEW S \in SUBSET Price, NEW key \in [Price -> Int],
           \A p, q \in Price : key[p] = key[q] => p = q,
           NEW n \in Nat, n <= Cardinality(S), NEW list,
           \A i \in 1..n : (\E p \in S : Cardinality(Under(S, key, p)) = i - 1) =>
               list[i] \in S /\ Cardinality(Under(S, key, list[i])) = i - 1
    PROVE  /\ \A i \in 1..n : list[i] \in S
           /\ \A i, j \in 1..n : i < j => key[list[i]] < key[list[j]]
           /\ n > 0 => \A q \in S : key[list[1]] <= key[q]
<1>1. \A A \in SUBSET Price : IsFiniteSet(A) /\ Cardinality(A) \in Nat
  BY FiniteLevels, FS_Subset, FS_CardinalityType
<1>2. ASSUME NEW i \in 1..n
      PROVE  list[i] \in S /\ Cardinality(Under(S, key, list[i])) = i - 1
  <2>1. i - 1 \in Nat /\ i - 1 < Cardinality(S)
    BY <1>1
  <2>2. \E p \in S : Cardinality(Under(S, key, p)) = i - 1
    BY <2>1, FiniteLevels, RankExists
  <2> QED BY <2>2
<1>3. \A i \in 1..n : list[i] \in S
  BY <1>2
<1>4. ASSUME NEW i \in 1..n, NEW j \in 1..n, i < j
      PROVE  key[list[i]] < key[list[j]]
  <2> SUFFICES ASSUME key[list[j]] <= key[list[i]] PROVE FALSE
    BY <1>2
  <2>1. Under(S, key, list[j]) \subseteq Under(S, key, list[i])
    <3>1. ASSUME NEW a \in S, NEW b \in S, key[b] <= key[a]
          PROVE  Under(S, key, b) \subseteq Under(S, key, a)
      <4>1. key[a] \in Int /\ key[b] \in Int /\ \A q \in S : key[q] \in Int
        OBVIOUS
      <4>2. \A q \in S : key[q] < key[b] => key[q] < key[a]
        BY <3>1, <4>1
      <4> QED BY <4>2 DEF Under
    <3> QED BY <1>2, <3>1
  <2>2. Under(S, key, list[i]) \in SUBSET Price
    BY DEF Under
  <2>3. Cardinality(Under(S, key, list[j])) <= Cardinality(Under(S, key, list[i]))
    BY <1>1, <2>1, <2>2, FS_Subset
  <2>4. j - 1 <= i - 1
    BY <1>2, <2>3
  <2> QED BY <1>4, <2>4
<1>5. ASSUME n > 0, NEW q \in S
      PROVE  key[list[1]] <= key[q]
  <2>1. list[1] \in S /\ Cardinality(Under(S, key, list[1])) = 0
    BY <1>2, <1>5
  <2>2. Under(S, key, list[1]) = {}
    <3>1. Under(S, key, list[1]) \in SUBSET Price
      BY DEF Under
    <3> QED BY <1>1, <2>1, <3>1, FS_EmptySet
  <2>3. ~(key[q] < key[list[1]])
    BY <2>2 DEF Under
  <2> QED BY <2>1, <2>3
<1> QED BY <1>3, <1>4, <1>5

\* top_asks: the best asks in ascending order.
LEMMA AskLevels ==
    ASSUME NEW side \in Side, NEW list, list = TopAsks(side, MaxDepthLevels)
    PROVE  /\ list \in Seq(Quoted(side)) /\ list \in Seq(Price)
           /\ \A i, j \in 1..Len(list) : i < j => list[i] < list[j]
           /\ list # <<>> => list[1] \in BestAsk(side)
<1> DEFINE S == Quoted(side)
           key == [p \in Price |-> p]
           n == SmallerOf(MaxDepthLevels, Cardinality(S))
<1>1. S \in SUBSET Price /\ Cardinality(S) \in Nat
  BY FiniteLevels, FS_Subset, FS_CardinalityType DEF Quoted
<1>2. n \in Nat /\ n <= Cardinality(S)
  BY <1>1, SettingsAssumption DEF SmallerOf
<1>3. key \in [Price -> Int] /\ \A p, q \in Price : key[p] = key[q] => p = q
  BY PriceAssumption
<1>4. list = [i \in 1..n |-> CHOOSE p \in S : Cardinality({q \in S : q < p}) = i - 1]
  BY DEF TopAsks
<1>5. \A p \in S : Under(S, key, p) = {q \in S : q < p}
  BY <1>1 DEF Under
<1> HIDE DEF S, n
<1>6. list = [i \in 1..n |-> list[i]]
  BY <1>4
<1>7. ASSUME NEW i \in 1..n, \E p \in S : Cardinality(Under(S, key, p)) = i - 1
      PROVE  list[i] \in S /\ Cardinality(Under(S, key, list[i])) = i - 1
  <2>1. \E p \in S : Cardinality({q \in S : q < p}) = i - 1
    BY <1>5, <1>7
  <2>2. list[i] = CHOOSE p \in S : Cardinality({q \in S : q < p}) = i - 1
    BY <1>4
  <2>3. list[i] \in S /\ Cardinality({q \in S : q < list[i]}) = i - 1
    BY <2>1, <2>2
  <2> QED BY <1>5, <2>3
<1> HIDE DEF key
<1>8. /\ list \in Seq(S) /\ Len(list) = n
      /\ \A i, j \in 1..n : i < j => key[list[i]] < key[list[j]]
      /\ n > 0 => \A q \in S : key[list[1]] <= key[q]
  <2>1. \A i \in 1..n : (\E p \in S : Cardinality(Under(S, key, p)) = i - 1) =>
            list[i] \in S /\ Cardinality(Under(S, key, list[i])) = i - 1
    BY <1>7
  <2>2. /\ \A i \in 1..n : list[i] \in S
        /\ \A i, j \in 1..n : i < j => key[list[i]] < key[list[j]]
        /\ n > 0 => \A q \in S : key[list[1]] <= key[q]
    BY <1>1, <1>2, <1>3, <2>1, RankedLevels
  <2> QED BY <1>2, <1>6, <2>2
<1>9. \A i \in 1..n : list[i] \in S /\ list[i] \in Price /\ key[list[i]] = list[i]
  <2>1. \A i \in 1..n : list[i] \in S
    BY <1>8
  <2> QED BY <1>1, <2>1 DEF key
<1>10. \A q \in S : key[q] = q
  BY <1>1 DEF key
<1>11. list # <<>> => n > 0 /\ 1 \in 1..n
  BY <1>2, <1>8
<1>12. list \in Seq(Price)
  BY <1>1, <1>8
<1> QED BY <1>8, <1>9, <1>10, <1>11, <1>12 DEF S, BestAsk

\* top_bids: the best bids in descending order.
LEMMA BidLevels ==
    ASSUME NEW side \in Side, NEW list, list = TopBids(side, MaxDepthLevels)
    PROVE  /\ list \in Seq(Quoted(side)) /\ list \in Seq(Price)
           /\ \A i, j \in 1..Len(list) : i < j => list[i] > list[j]
           /\ list # <<>> => list[1] \in BestBid(side)
<1> DEFINE S == Quoted(side)
           key == [p \in Price |-> 0 - p]
           n == SmallerOf(MaxDepthLevels, Cardinality(S))
<1>1. S \in SUBSET Price /\ Cardinality(S) \in Nat
  BY FiniteLevels, FS_Subset, FS_CardinalityType DEF Quoted
<1>2. n \in Nat /\ n <= Cardinality(S)
  BY <1>1, SettingsAssumption DEF SmallerOf
<1>3. key \in [Price -> Int] /\ \A p, q \in Price : key[p] = key[q] => p = q
  BY PriceAssumption
<1>4. list = [i \in 1..n |-> CHOOSE p \in S : Cardinality({q \in S : q > p}) = i - 1]
  BY DEF TopBids
<1>5. \A p \in S : Under(S, key, p) = {q \in S : q > p}
  <2>1. \A p, q \in Int : (0 - q < 0 - p) <=> q > p
    OBVIOUS
  <2>2. \A p \in S : key[p] = 0 - p /\ p \in Int
    <3> HIDE DEF S
    <3> QED BY <1>1, PriceAssumption
  <2> HIDE DEF S, key
  <2>3. \A p, q \in S : key[q] < key[p] <=> q > p
    BY <2>1, <2>2
  <2> QED BY <2>3 DEF Under
<1> HIDE DEF S, n
<1>6. list = [i \in 1..n |-> list[i]]
  BY <1>4
<1>7. ASSUME NEW i \in 1..n, \E p \in S : Cardinality(Under(S, key, p)) = i - 1
      PROVE  list[i] \in S /\ Cardinality(Under(S, key, list[i])) = i - 1
  <2>1. \E p \in S : Cardinality({q \in S : q > p}) = i - 1
    BY <1>5, <1>7
  <2>2. list[i] = CHOOSE p \in S : Cardinality({q \in S : q > p}) = i - 1
    BY <1>4
  <2>3. list[i] \in S /\ Cardinality({q \in S : q > list[i]}) = i - 1
    BY <2>1, <2>2
  <2> QED BY <1>5, <2>3
<1> HIDE DEF key
<1>8. /\ list \in Seq(S) /\ Len(list) = n
      /\ \A i, j \in 1..n : i < j => key[list[i]] < key[list[j]]
      /\ n > 0 => \A q \in S : key[list[1]] <= key[q]
  <2>1. \A i \in 1..n : (\E p \in S : Cardinality(Under(S, key, p)) = i - 1) =>
            list[i] \in S /\ Cardinality(Under(S, key, list[i])) = i - 1
    BY <1>7
  <2>2. /\ \A i \in 1..n : list[i] \in S
        /\ \A i, j \in 1..n : i < j => key[list[i]] < key[list[j]]
        /\ n > 0 => \A q \in S : key[list[1]] <= key[q]
    BY <1>1, <1>2, <1>3, <2>1, RankedLevels
  <2> QED BY <1>2, <1>6, <2>2
<1>9. \A i \in 1..n : list[i] \in S /\ list[i] \in Int /\ key[list[i]] = 0 - list[i]
  <2>1. \A i \in 1..n : list[i] \in S
    BY <1>8
  <2> QED BY <1>1, <2>1, PriceAssumption DEF key
<1>10. \A q \in S : key[q] = 0 - q /\ q \in Int
  BY <1>1, PriceAssumption DEF key
<1>11. list # <<>> => n > 0 /\ 1 \in 1..n
  BY <1>2, <1>8
<1>12. list \in Seq(Price)
  BY <1>1, <1>8
<1>13. \A i, j \in 1..n : i < j => list[i] > list[j]
  BY <1>8, <1>9
<1>14. list # <<>> => list[1] \in S /\ \A q \in S : q <= list[1]
  BY <1>8, <1>9, <1>10, <1>11
<1> QED BY <1>8, <1>12, <1>13, <1>14 DEF S, BestBid

-----------------------------------------------------------------------------
(* What a quantity is worth.                                               *)

\* What a level takes of what is left, and one level of a trade.
Part(side, levels, before, i) == SmallerOf(before.left, side[levels[i]])

OneLevel(side, levels, before, i) ==
    [left |-> before.left - Part(side, levels, before, i),
     value |-> before.value + Part(side, levels, before, i) * levels[i]]

\* Traded is the function its recursion says it is.
LEMMA TradedDef ==
    ASSUME NEW side, NEW levels, Len(levels) \in Nat, NEW q
    PROVE  Traded(side, levels, q) =
               [i \in 0..Len(levels) |->
                   IF i = 0 THEN [left |-> q, value |-> 0]
                   ELSE OneLevel(side, levels, Traded(side, levels, q)[i - 1], i)]
<1> DEFINE L == Len(levels)
           start == [left |-> q, value |-> 0]
           After(x, i) == OneLevel(side, levels, x, i)
           Trace(f, n) == [i \in 0..n |-> IF i = 0 THEN start ELSE After(f[i - 1], i)]
           HasTrace(n) == \E f : f = Trace(f, n)
           Good == {n \in Nat : n <= L => HasTrace(n)}
<1> HIDE DEF After, start
<1>1. HasTrace(0)
  <2> DEFINE f == [i \in 0..0 |-> start]
  <2>1. f = Trace(f, 0)
    OBVIOUS
  <2> QED BY <2>1
<1>2. ASSUME NEW n \in Nat, HasTrace(n)
      PROVE  HasTrace(n + 1)
  <2>1. PICK f : f = Trace(f, n)
    BY <1>2
  <2> DEFINE g == [i \in 0..(n + 1) |-> IF i <= n THEN f[i] ELSE After(f[n], n + 1)]
  <2>2. ASSUME NEW i \in 0..(n + 1)
        PROVE  g[i] = IF i = 0 THEN start ELSE After(g[i - 1], i)
    <3>1. CASE i = n + 1
      BY <3>1
    <3>2. CASE i = 0
      BY <3>2, <2>1
    <3>3. CASE i \in 1..n
      BY <3>3, <2>1
    <3> QED BY <3>1, <3>2, <3>3
  <2>3. DOMAIN g = 0..(n + 1) /\ g = [i \in DOMAIN g |-> g[i]]
    OBVIOUS
  <2> HIDE DEF g
  <2>4. g = Trace(g, n + 1)
    BY <2>2, <2>3
  <2> QED BY <2>4
<1>3. HasTrace(L)
  <2> HIDE DEF HasTrace
  <2>1. 0 \in Good
    BY <1>1
  <2>2. \A n \in Nat : n \in Good => n + 1 \in Good
    BY <1>2
  <2>3. Nat \subseteq Good
    BY <2>1, <2>2, SetInduction
  <2> QED BY <2>3
<1> DEFINE h == Traded(side, levels, q)
<1>4. h = Trace(h, L)
  <2>1. PICK f : f = Trace(f, L)
    BY <1>3
  <2>2. h = CHOOSE g : g = Trace(g, L)
    BY DEF Traded, After, OneLevel, Part, start
  <2> HIDE DEF h
  <2> QED BY <2>1, <2>2
<1> QED BY <1>4 DEF After, start

\* What each level does to a trade of q, in turn.
Trading(side, levels, q, t) ==
    /\ t[0].left = q /\ t[0].value = 0
    /\ \A i \in 1..Len(levels) :
         /\ side[levels[i]] \in Nat /\ levels[i] \in Int
         /\ t[i].left = t[i - 1].left - Part(side, levels, t[i - 1], i)
         /\ t[i].value = t[i - 1].value + Part(side, levels, t[i - 1], i) * levels[i]
    /\ \A i \in 0..Len(levels) : t[i].left \in Nat /\ t[i].value \in Int

LEMMA TradedFacts ==
    ASSUME NEW side \in Side, NEW levels \in Seq(Price), NEW q \in Nat,
           NEW t, t = Traded(side, levels, q)
    PROVE  /\ Trading(side, levels, q, t)
           /\ \A i \in 0..Len(levels) : t[i] = [left |-> t[i].left, value |-> t[i].value]
<1> DEFINE L == Len(levels)
           Sound(x) == /\ x = [left |-> x.left, value |-> x.value]
                       /\ x.left \in Nat /\ x.value \in Int
           Good == {i \in Nat : i <= L => Sound(t[i])}
<1>1. L \in Nat /\ \A i \in 1..L : side[levels[i]] \in Nat /\ levels[i] \in Int
  BY PriceAssumption DEF Side, Qty
<1>2. t = [i \in 0..L |-> IF i = 0 THEN [left |-> q, value |-> 0]
                          ELSE OneLevel(side, levels, t[i - 1], i)]
  BY <1>1, TradedDef
<1> HIDE DEF L
<1>3. t[0] = [left |-> q, value |-> 0]
  BY <1>1, <1>2
<1>4. ASSUME NEW i \in 1..L
      PROVE  t[i] = OneLevel(side, levels, t[i - 1], i)
  <2>1. i \in 0..L /\ i # 0
    BY <1>1
  <2> QED BY <1>2, <2>1
<1>5. 0 \in Good
  BY <1>3
<1>6. ASSUME NEW i \in Nat, i \in Good
      PROVE  i + 1 \in Good
  <2> SUFFICES ASSUME i + 1 <= L PROVE Sound(t[i + 1])
    OBVIOUS
  <2> DEFINE x == t[i]
             s == side[levels[i + 1]]
             p == levels[i + 1]
             part == Part(side, levels, x, i + 1)
  <2>1. i + 1 \in 1..L /\ i <= L /\ (i + 1) - 1 = i
    BY <1>1
  <2>2. t[i + 1] = [left |-> x.left - part, value |-> x.value + part * p]
    BY <1>4, <2>1 DEF OneLevel
  <2>3. x.left \in Nat /\ x.value \in Int /\ s \in Nat /\ p \in Int
    BY <1>1, <1>6, <2>1
  <2> HIDE DEF x, s, p
  <2>4. part \in Nat /\ part <= x.left
    BY <2>3 DEF SmallerOf, Part, s
  <2> HIDE DEF part
  <2>5. part * p \in Int /\ x.left - part \in Nat /\ x.value + part * p \in Int
    BY <2>3, <2>4
  <2> QED BY <2>2, <2>5
<1>7. Nat \subseteq Good
  <2> HIDE DEF Good
  <2> QED BY <1>5, <1>6, SetInduction
<1>8. \A i \in 0..L : Sound(t[i])
  BY <1>1, <1>7
<1>9. ASSUME NEW i \in 1..L
      PROVE  /\ t[i].left = t[i - 1].left - Part(side, levels, t[i - 1], i)
             /\ t[i].value = t[i - 1].value + Part(side, levels, t[i - 1], i) * levels[i]
  <2>1. t[i] = OneLevel(side, levels, t[i - 1], i)
    BY <1>4
  <2>2. \A x : /\ OneLevel(side, levels, x, i).left = x.left - Part(side, levels, x, i)
               /\ OneLevel(side, levels, x, i).value
                      = x.value + Part(side, levels, x, i) * levels[i]
    BY DEF OneLevel
  <2> QED BY <2>1, <2>2
<1>10. t[0].left = q /\ t[0].value = 0
  BY <1>3
<1>11. Trading(side, levels, q, t)
  <2>1. \A i \in 0..L : t[i].left \in Nat /\ t[i].value \in Int
    BY <1>8
  <2> HIDE DEF Sound
  <2> QED BY <1>1, <1>9, <1>10, <2>1 DEF L, Trading
<1>12. \A i \in 0..L : t[i] = [left |-> t[i].left, value |-> t[i].value]
  BY <1>8
<1> QED BY <1>11, <1>12 DEF L

\* The walk stands on level k with r of it remaining when it has traded q: the levels
\* before are used up, and past the last one nothing is left to trade.
Sits(side, levels, q, k, r) ==
    LET t == Traded(side, levels, q)
    IN  /\ k \in 1..(Len(levels) + 1)
        /\ \A j \in 1..(k - 1) : side[levels[j]] <= t[j - 1].left
        /\ k <= Len(levels) => /\ r \in Nat /\ r > 0
                               /\ t[k - 1].left + r = side[levels[k]]
        /\ k = Len(levels) + 1 => t[Len(levels)].left = 0

\* Nothing left is nothing to take.
LEMMA SmallerOfNothing == \A size \in Nat : SmallerOf(0, size) = 0
BY DEF SmallerOf

\* Where nothing is left, nothing more is traded.
LEMMA ZeroStays ==
    ASSUME NEW side \in Side, NEW levels \in Seq(Price), NEW q \in Nat,
           NEW t, t = Traded(side, levels, q),
           NEW k \in 0..Len(levels), t[k].left = 0
    PROVE  \A i \in k..Len(levels) : t[i].left = 0 /\ t[i].value = t[k].value
<1> DEFINE L == Len(levels)
           Good == {i \in Nat : k + i <= L => t[k + i].left = 0 /\ t[k + i].value = t[k].value}
<1>1. /\ \A i \in 1..L :
            /\ side[levels[i]] \in Nat /\ levels[i] \in Int
            /\ t[i].left = t[i - 1].left - Part(side, levels, t[i - 1], i)
            /\ t[i].value = t[i - 1].value + Part(side, levels, t[i - 1], i) * levels[i]
      /\ \A i \in 0..L : t[i].left \in Nat /\ t[i].value \in Int
  <2>1. Trading(side, levels, q, t)
    BY TradedFacts
  <2> QED BY <2>1 DEF Trading
<1>2. k \in 0..L /\ L \in Nat /\ k \in Nat
  OBVIOUS
<1> HIDE DEF L
<1>3. 0 \in Good
  BY <1>2
<1>4. ASSUME NEW i \in Nat, i \in Good
      PROVE  i + 1 \in Good
  <2> SUFFICES ASSUME k + (i + 1) <= L
               PROVE  t[k + (i + 1)].left = 0 /\ t[k + (i + 1)].value = t[k].value
    OBVIOUS
  <2> DEFINE j == k + (i + 1)
  <2>1. /\ j \in 1..L /\ j - 1 = k + i /\ k + i \in 0..L /\ k + i <= L
        /\ j \in 0..L
    BY <1>2
  <2>2. t[j - 1].left = 0 /\ t[j - 1].value = t[k].value /\ t[k].value \in Int
    BY <1>1, <1>2, <1>4, <2>1
  <2> HIDE DEF j
  <2>3. side[levels[j]] \in Nat /\ levels[j] \in Int
    BY <1>1, <2>1
  <2>4. Part(side, levels, t[j - 1], j) = 0
    <3>1. PICK size : size = side[levels[j]]
      OBVIOUS
    <3>2. size \in Nat
      BY <2>3, <3>1
    <3>3. SmallerOf(0, size) = 0
      BY <3>2, SmallerOfNothing, Zenon
    <3> QED BY <2>2, <3>1, <3>3, Zenon DEF Part
  <2>5. t[j].left = 0 - 0 /\ t[j].value = t[k].value + 0 * levels[j]
    <3>1. /\ t[j].left = t[j - 1].left - Part(side, levels, t[j - 1], j)
          /\ t[j].value = t[j - 1].value + Part(side, levels, t[j - 1], j) * levels[j]
      BY <1>1, <2>1
    <3> QED BY <2>2, <2>4, <3>1, Zenon
  <2>6. 0 * levels[j] = 0
    BY <2>3
  <2>7. t[j].left = 0 /\ t[j].value = t[k].value
    BY <2>2, <2>5, <2>6
  <2> QED BY <2>7 DEF j
<1>5. Nat \subseteq Good
  <2> HIDE DEF Good
  <2> QED BY <1>3, <1>4, SetInduction
<1>6. ASSUME NEW i \in k..L
      PROVE  t[i].left = 0 /\ t[i].value = t[k].value
  <2>1. i - k \in Nat /\ k + (i - k) = i /\ i <= L
    BY <1>2
  <2>2. i - k \in Good
    BY <1>5, <2>1
  <2> QED BY <2>1, <2>2
<1> QED BY <1>6 DEF L

\* From the level it stands on, nothing is left to trade.
LEMMA NothingLeft ==
    ASSUME NEW side \in Side, NEW levels \in Seq(Price), NEW q \in Nat,
           NEW k, NEW r, Sits(side, levels, q, k, r), NEW t, t = Traded(side, levels, q)
    PROVE  /\ k <= Len(levels) => Part(side, levels, t[k - 1], k) = t[k - 1].left
           /\ \A i \in k..Len(levels) : t[i].left = 0 /\ t[i].value = t[k].value
           /\ Trade(side, levels, q) = [left |-> 0, value |-> t[Len(levels)].value]
<1> DEFINE L == Len(levels)
<1>1. /\ \A i \in 1..L :
            /\ side[levels[i]] \in Nat
            /\ t[i].left = t[i - 1].left - Part(side, levels, t[i - 1], i)
      /\ \A i \in 0..L : t[i].left \in Nat /\ t[i].value \in Int
  <2>1. Trading(side, levels, q, t)
    BY TradedFacts
  <2> QED BY <2>1 DEF Trading
<1>2. /\ k \in 1..(L + 1) /\ L \in Nat
      /\ k <= L => r \in Nat /\ r > 0 /\ t[k - 1].left + r = side[levels[k]]
      /\ k = L + 1 => t[L].left = 0
  BY DEF Sits
<1> HIDE DEF L
<1>3. ASSUME k <= L
      PROVE  Part(side, levels, t[k - 1], k) = t[k - 1].left /\ t[k].left = 0
  <2>1. k \in 1..L /\ k - 1 \in 0..L
    BY <1>2, <1>3
  <2>2. Part(side, levels, t[k - 1], k) = t[k - 1].left
    <3>1. \A a, s \in Nat : a <= s => SmallerOf(a, s) = a
      BY DEF SmallerOf
    <3>2. /\ t[k - 1].left \in Nat /\ side[levels[k]] \in Nat
          /\ t[k - 1].left + r = side[levels[k]] /\ r \in Nat
      BY <1>1, <1>2, <2>1
    <3> QED BY <3>1, <3>2 DEF Part
  <2>3. t[k].left = t[k - 1].left - Part(side, levels, t[k - 1], k) /\ t[k - 1].left \in Nat
    BY <1>1, <2>1
  <2> QED BY <2>2, <2>3
<1>4. ASSUME NEW i \in k..L
      PROVE  t[i].left = 0 /\ t[i].value = t[k].value
  <2>1. k \in 0..L /\ k <= L
    BY <1>2
  <2> QED BY <1>3, <2>1, ZeroStays DEF L
<1>5. t[L].left = 0
  <2>1. CASE k = L + 1
    BY <1>2, <2>1
  <2>2. CASE k <= L
    <3>1. L \in k..L
      BY <1>2, <2>2
    <3> QED BY <1>4, <3>1
  <2> QED BY <1>2, <2>1, <2>2
<1>6. Trade(side, levels, q) = t[L]
  BY DEF Trade, L
<1>7. t[L] = [left |-> t[L].left, value |-> t[L].value]
  <2>1. L \in 0..L
    BY <1>2
  <2> QED BY <2>1, TradedFacts DEF L
<1>8. Trade(side, levels, q) = [left |-> 0, value |-> t[L].value]
  BY <1>5, <1>6, <1>7
<1> QED BY <1>3, <1>4, <1>8 DEF L

\* A level is taken whole, out of what is left and out of more than that.
TakenWhole(left, size, more) ==
    /\ SmallerOf(left, size) = size /\ SmallerOf(left + more, size) = size
    /\ (left + more) - size = (left - size) + more

\* So is a level that holds no more than is left.
LEMMA SmallerOfMore ==
    ASSUME NEW left \in Nat, NEW size \in Nat, NEW more \in Nat, size <= left
    PROVE  TakenWhole(left, size, more)
BY DEF SmallerOf, TakenWhole

\* A larger quantity differs only from the level on that the smaller one stands on.
LEMMA BeforeLevel ==
    ASSUME NEW side \in Side, NEW levels \in Seq(Price), NEW q \in Nat,
           NEW k, NEW r, Sits(side, levels, q, k, r), NEW d \in Nat,
           NEW t, t = Traded(side, levels, q), NEW more, more = Traded(side, levels, q + d)
    PROVE  \A i \in 0..(k - 1) : more[i].left = t[i].left + d /\ more[i].value = t[i].value
<1> DEFINE L == Len(levels)
           Same(i) == more[i].left = t[i].left + d /\ more[i].value = t[i].value
           Good == {i \in Nat : i <= k - 1 => Same(i)}
<1>1. /\ t[0].left = q /\ t[0].value = 0
      /\ \A i \in 1..L :
            /\ side[levels[i]] \in Nat /\ levels[i] \in Int
            /\ t[i].left = t[i - 1].left - Part(side, levels, t[i - 1], i)
            /\ t[i].value = t[i - 1].value + Part(side, levels, t[i - 1], i) * levels[i]
      /\ \A i \in 0..L : t[i].left \in Nat /\ t[i].value \in Int
  <2>1. Trading(side, levels, q, t)
    BY TradedFacts
  <2> QED BY <2>1 DEF Trading
<1>2. /\ more[0].left = q + d /\ more[0].value = 0
      /\ \A i \in 1..L :
            /\ more[i].left = more[i - 1].left - Part(side, levels, more[i - 1], i)
            /\ more[i].value = more[i - 1].value + Part(side, levels, more[i - 1], i) * levels[i]
      /\ \A i \in 0..L : more[i].left \in Nat /\ more[i].value \in Int
  <2>1. q + d \in Nat
    OBVIOUS
  <2>2. Trading(side, levels, q + d, more)
    BY <2>1, TradedFacts
  <2> QED BY <2>2 DEF Trading
<1>3. /\ k \in 1..(L + 1) /\ L \in Nat
      /\ \A j \in 1..(k - 1) : side[levels[j]] <= t[j - 1].left
  BY DEF Sits
<1> HIDE DEF L
<1>4. 0 \in Good
  BY <1>1, <1>2
<1>5. ASSUME NEW i \in Nat, i \in Good
      PROVE  i + 1 \in Good
  <2> SUFFICES ASSUME i + 1 <= k - 1 PROVE Same(i + 1)
    OBVIOUS
  <2> DEFINE j == i + 1
  <2>1. j \in 1..L /\ j - 1 = i /\ i \in 0..L /\ j \in 1..(k - 1)
    BY <1>3
  <2>2. Same(i)
    BY <1>3, <1>5
  <2>3. side[levels[j]] <= t[i].left /\ side[levels[j]] \in Nat /\ t[i].left \in Nat
        /\ t[i].value \in Int /\ levels[j] \in Int
    BY <1>1, <1>3, <2>1
  <2>4. /\ SmallerOf(t[i].left, side[levels[j]]) = side[levels[j]]
        /\ SmallerOf(t[i].left + d, side[levels[j]]) = side[levels[j]]
        /\ (t[i].left + d) - side[levels[j]] = (t[i].left - side[levels[j]]) + d
    <3>1. PICK left, size : left = t[i].left /\ size = side[levels[j]]
      OBVIOUS
    <3> HIDE DEF j, Same
    <3>2. left \in Nat /\ size \in Nat /\ size <= left
      BY <2>3, <3>1
    <3>3. TakenWhole(left, size, d)
      BY <3>2, SmallerOfMore
    <3> QED BY <3>1, <3>3 DEF TakenWhole
  <2>5. Part(side, levels, t[i], j) = side[levels[j]]
        /\ Part(side, levels, more[i], j) = side[levels[j]]
    <3>1. more[i].left = t[i].left + d
      BY <2>2
    <3> HIDE DEF j, Same
    <3> QED BY <2>4, <3>1, Zenon DEF Part
  <2>6. /\ t[j].left = t[i].left - side[levels[j]]
        /\ t[j].value = t[i].value + side[levels[j]] * levels[j]
        /\ more[j].left = (t[i].left + d) - side[levels[j]]
        /\ more[j].value = t[i].value + side[levels[j]] * levels[j]
    <3>1. /\ t[j].left = t[i].left - Part(side, levels, t[i], j)
          /\ t[j].value = t[i].value + Part(side, levels, t[i], j) * levels[j]
      BY <1>1, <2>1
    <3>2. /\ more[j].left = more[i].left - Part(side, levels, more[i], j)
          /\ more[j].value = more[i].value + Part(side, levels, more[i], j) * levels[j]
      BY <1>2, <2>1
    <3>3. more[i].left = t[i].left + d /\ more[i].value = t[i].value
      BY <2>2
    <3> HIDE DEF j, Same
    <3> QED BY <2>5, <3>1, <3>2, <3>3
  <2> HIDE DEF j
  <2>7. Same(j)
    BY <2>4, <2>6
  <2> QED BY <2>7 DEF j
<1>6. Nat \subseteq Good
  <2> HIDE DEF Good
  <2> QED BY <1>4, <1>5, SetInduction
<1> QED BY <1>6

\* With nothing traded the walk stands on the first level, all of it remaining.
LEMMA StartSits ==
    ASSUME NEW side \in Side, NEW levels \in Seq(Price), levels # <<>>,
           side[levels[1]] > 0
    PROVE  /\ Sits(side, levels, 0, 1, side[levels[1]])
           /\ Trade(side, levels, 0) = [left |-> 0, value |-> 0]
<1> DEFINE t == Traded(side, levels, 0)
<1>1. Len(levels) \in Nat /\ Len(levels) >= 1 /\ 0 \in 0..Len(levels)
      /\ Len(levels) \in 0..Len(levels)
  OBVIOUS
<1>2. /\ t[0].left = 0 /\ t[0].value = 0
      /\ side[levels[1]] \in Nat
  <2>1. Trading(side, levels, 0, t)
    BY TradedFacts
  <2> QED BY <1>1, <2>1 DEF Trading
<1>3. Sits(side, levels, 0, 1, side[levels[1]])
  BY <1>1, <1>2 DEF Sits
<1>4. t[Len(levels)].left = 0 /\ t[Len(levels)].value = 0
  BY <1>1, <1>2, ZeroStays
<1>5. t[Len(levels)] = [left |-> t[Len(levels)].left, value |-> t[Len(levels)].value]
  BY <1>1, TradedFacts
<1> QED BY <1>3, <1>4, <1>5 DEF Trade

\* What one fill does: the level pays for it, and the walk stands on what remains of
\* the level, on the next one, or past the last.
LEMMA FillSits ==
    ASSUME NEW side \in Side, NEW levels \in Seq(Price), NEW q \in Nat,
           \A j \in 1..Len(levels) : side[levels[j]] > 0,
           NEW k, NEW r, Sits(side, levels, q, k, r), k <= Len(levels),
           NEW d \in Nat, d <= r
    PROVE  /\ Trade(side, levels, q + d) =
                  [left |-> 0, value |-> Trade(side, levels, q).value + d * levels[k]]
           /\ d < r => Sits(side, levels, q + d, k, r - d)
           /\ d = r /\ k < Len(levels) =>
                  Sits(side, levels, q + d, k + 1, side[levels[k + 1]])
           /\ d = r /\ k = Len(levels) => \A x : Sits(side, levels, q + d, k + 1, x)
<1> DEFINE L == Len(levels)
           t == Traded(side, levels, q)
           more == Traded(side, levels, q + d)
           a == t[k - 1].left
           p == levels[k]
<1>1. Trading(side, levels, q, t) /\ Trading(side, levels, q + d, more)
  <2>1. q + d \in Nat
    OBVIOUS
  <2> QED BY <2>1, TradedFacts
<1>2. /\ k \in 1..L /\ L \in Nat /\ k - 1 \in 0..L /\ k \in 0..L /\ L \in k..L
      /\ \A j \in 1..(k - 1) : side[levels[j]] <= t[j - 1].left
      /\ r \in Nat /\ r > 0 /\ a + r = side[levels[k]]
  BY DEF Sits
<1>3. \A i \in 0..(k - 1) : more[i].left = t[i].left + d /\ more[i].value = t[i].value
  BY BeforeLevel
<1>4. more[L] = [left |-> more[L].left, value |-> more[L].value]
  <2>1. q + d \in Nat /\ L \in 0..L
    BY <1>2
  <2> QED BY <2>1, TradedFacts
<1>5. Part(side, levels, t[k - 1], k) = a /\ t[L].value = t[k].value
      /\ Trade(side, levels, q) = [left |-> 0, value |-> t[L].value]
  BY <1>2, NothingLeft
<1> HIDE DEF L, t, more
<1>6. more[k - 1].left = a + d /\ more[k - 1].value = t[k - 1].value
  BY <1>2, <1>3
<1>7. a \in Nat /\ t[k - 1].value \in Int /\ p \in Int
  BY <1>1, <1>2 DEF Trading, L
<1> HIDE DEF a, p
<1>8. Part(side, levels, more[k - 1], k) = a + d
  <2>1. \A x, s \in Nat : x <= s => SmallerOf(x, s) = x
    BY DEF SmallerOf
  <2>2. a + d \in Nat /\ side[levels[k]] \in Nat /\ a + d <= side[levels[k]]
    BY <1>2, <1>7
  <2> QED BY <1>6, <2>1, <2>2 DEF Part
<1>9. more[k].left = 0 /\ more[k].value = t[k].value + d * p
  <2>1. /\ more[k].left = more[k - 1].left - Part(side, levels, more[k - 1], k)
        /\ more[k].value = more[k - 1].value + Part(side, levels, more[k - 1], k) * p
        /\ t[k].value = t[k - 1].value + Part(side, levels, t[k - 1], k) * p
    BY <1>1, <1>2 DEF Trading, L, p
  <2>2. more[k].left = (a + d) - (a + d)
        /\ more[k].value = t[k - 1].value + (a + d) * p
        /\ t[k].value = t[k - 1].value + a * p
    BY <1>5, <1>6, <1>8, <2>1
  <2>3. \A v, y \in Int : \A b, e \in Nat :
          (b + e) - (b + e) = 0 /\ v + (b + e) * y = (v + b * y) + e * y
    OBVIOUS
  <2>4. (a + d) - (a + d) = 0
        /\ t[k - 1].value + (a + d) * p = (t[k - 1].value + a * p) + d * p
    BY <1>7, <2>3
  <2> QED BY <2>2, <2>4
<1>10. more[L].left = 0 /\ more[L].value = more[k].value
  <2>1. q + d \in Nat
    OBVIOUS
  <2> QED BY <1>2, <1>9, <2>1, ZeroStays DEF L, more
<1>11. Trade(side, levels, q + d) =
           [left |-> 0, value |-> Trade(side, levels, q).value + d * levels[k]]
  <2>1. Trade(side, levels, q + d) = more[L]
    BY DEF Trade, more, L
  <2>2. Trade(side, levels, q).value = t[k].value
    BY <1>5
  <2> QED BY <1>4, <1>9, <1>10, <2>1, <2>2 DEF p
<1>12. \A j \in 1..(k - 1) : side[levels[j]] <= more[j - 1].left
  <2> SUFFICES ASSUME NEW j \in 1..(k - 1) PROVE side[levels[j]] <= more[j - 1].left
    OBVIOUS
  <2>1. j \in 1..L /\ j - 1 \in 0..L /\ j - 1 \in 0..(k - 1)
    BY <1>2
  <2>2. side[levels[j]] \in Nat /\ t[j - 1].left \in Nat
    BY <1>1, <2>1 DEF Trading, L
  <2>3. side[levels[j]] <= t[j - 1].left /\ more[j - 1].left = t[j - 1].left + d
    BY <1>2, <1>3, <2>1
  <2> QED BY <2>2, <2>3
<1>13. ASSUME d < r
       PROVE  Sits(side, levels, q + d, k, r - d)
  <2>1. r - d \in Nat /\ r - d > 0 /\ more[k - 1].left + (r - d) = side[levels[k]]
    <3>1. r - d \in Nat /\ r - d > 0
      BY <1>2, <1>13
    <3>2. (a + d) + (r - d) = a + r
      BY <1>2, <1>7
    <3> QED BY <1>2, <1>6, <3>1, <3>2
  <2>2. k \in 1..(L + 1) /\ k # L + 1
    BY <1>2
  <2> QED BY <1>12, <2>1, <2>2 DEF Sits, more, L
<1>14. ASSUME d = r
       PROVE  \A j \in 1..k : side[levels[j]] <= more[j - 1].left
  <2>1. side[levels[k]] <= more[k - 1].left
    BY <1>2, <1>6, <1>7, <1>14 DEF a
  <2>2. \A j \in 1..k : j \in 1..(k - 1) \/ j = k
    BY <1>2
  <2> QED BY <1>12, <2>1, <2>2
<1>15. ASSUME d = r, k < L
       PROVE  Sits(side, levels, q + d, k + 1, side[levels[k + 1]])
  <2>1. k + 1 \in 1..L /\ k + 1 \in 1..(L + 1) /\ (k + 1) - 1 = k /\ k + 1 # L + 1
    BY <1>2, <1>15
  <2>2. side[levels[k + 1]] \in Nat /\ side[levels[k + 1]] > 0
    BY <1>1, <2>1 DEF Trading, L
  <2>3. more[k].left + side[levels[k + 1]] = side[levels[k + 1]]
    BY <1>9, <2>2
  <2> QED BY <1>14, <1>15, <2>1, <2>2, <2>3 DEF Sits, more, L
<1>16. ASSUME d = r, k = L, NEW x
       PROVE  Sits(side, levels, q + d, k + 1, x)
  <2>1. k + 1 \in 1..(L + 1) /\ (k + 1) - 1 = k /\ k + 1 = L + 1 /\ ~(k + 1 <= L)
    BY <1>2, <1>16
  <2> QED BY <1>10, <1>14, <1>16, <2>1 DEF Sits, more, L
<1> QED BY <1>11, <1>13, <1>15, <1>16 DEF L

\* Past the last level there is no more to trade.
LEMMA Exhausted ==
    ASSUME NEW side \in Side, NEW levels \in Seq(Price), NEW q \in Nat,
           NEW r, Sits(side, levels, q, Len(levels) + 1, r),
           NEW d \in Nat, Trade(side, levels, q + d).left = 0
    PROVE  d = 0
<1> DEFINE t == Traded(side, levels, q)
           more == Traded(side, levels, q + d)
           L == Len(levels)
<1>1. L \in Nat /\ L \in 0..((L + 1) - 1)
  OBVIOUS
<1>2. t[L].left = 0
  BY DEF Sits
<1>3. more[L].left = t[L].left + d
  <2>1. PICK k : k = Len(levels) + 1
    OBVIOUS
  <2>2. Sits(side, levels, q, k, r)
    BY <2>1
  <2>3. \A i \in 0..(k - 1) : more[i].left = t[i].left + d
    BY <2>2, BeforeLevel
  <2>4. L \in 0..(k - 1)
    BY <1>1, <2>1
  <2> HIDE DEF L, t, more
  <2> QED BY <2>3, <2>4
<1> QED BY <1>2, <1>3 DEF Trade

\* A larger quantity costs at least, and brings at most, what the level pays on which
\* the walk stands: the levels after it are no better.
LEMMA Beyond ==
    ASSUME NEW side \in Side, NEW levels \in Seq(Price), NEW q \in Nat,
           NEW k, NEW r, Sits(side, levels, q, k, r), k <= Len(levels),
           NEW d \in Nat, Trade(side, levels, q + d).left = 0
    PROVE  /\ (\A j \in k..Len(levels) : levels[k] <= levels[j]) =>
                  Trade(side, levels, q + d).value
                      >= Trade(side, levels, q).value + d * levels[k]
           /\ (\A j \in k..Len(levels) : levels[j] <= levels[k]) =>
                  Trade(side, levels, q + d).value
                      <= Trade(side, levels, q).value + d * levels[k]
<1> DEFINE L == Len(levels)
           t == Traded(side, levels, q)
           more == Traded(side, levels, q + d)
           a == t[k - 1].left
           p == levels[k]
           Up == \A j \in k..L : p <= levels[j]
           Down == \A j \in k..L : levels[j] <= p
           Bound(i) ==
               /\ more[i].left <= d
               /\ Up => more[i].value >= t[k].value + (d - more[i].left) * p
               /\ Down => more[i].value <= t[k].value + (d - more[i].left) * p
           Good == {i \in Nat : k + i <= L => Bound(k + i)}
<1>1. Trading(side, levels, q, t) /\ Trading(side, levels, q + d, more)
  <2>1. q + d \in Nat
    OBVIOUS
  <2> QED BY <2>1, TradedFacts
<1>2. /\ k \in 1..L /\ L \in Nat /\ k - 1 \in 0..L /\ k \in 0..L /\ L \in k..L
      /\ r \in Nat /\ r > 0 /\ a + r = side[levels[k]]
  BY DEF Sits
<1>3. more[k - 1].left = a + d /\ more[k - 1].value = t[k - 1].value
  <2>1. \A i \in 0..(k - 1) : more[i].left = t[i].left + d /\ more[i].value = t[i].value
    BY BeforeLevel
  <2> QED BY <1>2, <2>1
<1>4. Part(side, levels, t[k - 1], k) = a /\ t[L].value = t[k].value
      /\ Trade(side, levels, q) = [left |-> 0, value |-> t[L].value]
  BY <1>2, NothingLeft
<1>5. Trade(side, levels, q + d) = more[L]
  BY DEF Trade
<1> HIDE DEF L, t, more
<1>6. /\ a \in Nat /\ t[k - 1].value \in Int /\ t[k].value \in Int /\ p \in Int
      /\ side[levels[k]] \in Nat
      /\ \A i \in 0..L : more[i].left \in Nat /\ more[i].value \in Int
  BY <1>1, <1>2 DEF Trading, L
<1> HIDE DEF a, p
<1>7. 0 \in Good
  <2> DEFINE x == Part(side, levels, more[k - 1], k)
  <2>1. x \in Nat /\ a <= x /\ x <= a + d
    <3>1. \A b, s \in Nat : /\ SmallerOf(b, s) \in Nat /\ SmallerOf(b, s) <= b
                            /\ SmallerOf(b, s) = b \/ SmallerOf(b, s) = s
      BY DEF SmallerOf
    <3>2. x = SmallerOf(a + d, side[levels[k]]) /\ a + d \in Nat
      BY <1>3, <1>6 DEF Part
    <3>3. a <= side[levels[k]] /\ a <= a + d
      BY <1>2, <1>6 DEF a
    <3> HIDE DEF x
    <3> QED BY <1>6, <3>1, <3>2, <3>3
  <2>2. /\ more[k].left = more[k - 1].left - x
        /\ more[k].value = more[k - 1].value + x * p
        /\ t[k].value = t[k - 1].value + a * p
    BY <1>1, <1>2, <1>4 DEF Trading, L, p
  <2> HIDE DEF x
  <2>3. more[k].left = (a + d) - x /\ more[k].value = t[k - 1].value + x * p
    BY <1>3, <2>2
  <2>4. \A v, y \in Int : \A b, e, s \in Nat :
            (v + b * y) + (e - ((b + e) - s)) * y = v + s * y
    OBVIOUS
  <2>5. t[k].value + (d - more[k].left) * p = more[k].value
    <3>1. PICK v, y, b, e, s : /\ v = t[k - 1].value /\ y = p /\ b = a /\ e = d /\ s = x
      OBVIOUS
    <3>2. v \in Int /\ y \in Int /\ b \in Nat /\ e \in Nat /\ s \in Nat
      BY <1>6, <2>1, <3>1
    <3>3. /\ t[k].value = v + b * y /\ more[k].left = (b + e) - s
          /\ more[k].value = v + s * y
      BY <2>2, <2>3, <3>1
    <3>4. (v + b * y) + (e - ((b + e) - s)) * y = v + s * y
      BY <2>4, <3>2
    <3> QED BY <3>1, <3>3, <3>4
  <2>6. more[k].left <= d
    BY <1>6, <2>1, <2>3
  <2>7. more[k].value \in Int /\ k + 0 = k
    BY <1>2, <1>6
  <2>8. Bound(k)
    BY <2>5, <2>6, <2>7
  <2> HIDE DEF Bound
  <2> QED BY <2>7, <2>8
<1>8. ASSUME NEW i \in Nat, i \in Good
      PROVE  i + 1 \in Good
  <2> SUFFICES ASSUME k + (i + 1) <= L PROVE Bound(k + (i + 1))
    OBVIOUS
  <2> DEFINE j == k + (i + 1)
             b == more[j - 1]
             x == Part(side, levels, b, j)
             y == levels[j]
  <2>1. /\ j \in 1..L /\ j \in 0..L /\ j \in k..L /\ j - 1 = k + i /\ k + i <= L
        /\ j - 1 \in 0..L
    BY <1>2
  <2>2. Bound(j - 1)
    <3>1. Bound(k + i)
      BY <1>8, <2>1
    <3> HIDE DEF Bound
    <3> QED BY <2>1, <3>1
  <2>3. b.left \in Nat /\ b.value \in Int /\ more[j].left \in Nat /\ more[j].value \in Int
    BY <1>6, <2>1
  <2>4. /\ side[levels[j]] \in Nat /\ y \in Int
        /\ more[j].left = b.left - x /\ more[j].value = b.value + x * y
    BY <1>1, <2>1 DEF Trading, L
  <2>5. x \in Nat /\ x <= b.left
    <3>1. \A c, s \in Nat : SmallerOf(c, s) \in Nat /\ SmallerOf(c, s) <= c
      BY DEF SmallerOf
    <3> QED BY <2>3, <2>4, <3>1 DEF Part
  <2>6. (Up => p <= y) /\ (Down => y <= p)
    BY <2>1
  <2>7. /\ b.left <= d
        /\ Up => b.value >= t[k].value + (d - b.left) * p
        /\ Down => b.value <= t[k].value + (d - b.left) * p
    BY <2>2
  <2> HIDE DEF j, b, x, y, Up, Down
  <2>8. /\ p <= y => x * p <= x * y
        /\ y <= p => x * y <= x * p
        /\ x * p \in Int /\ x * y \in Int /\ (d - b.left) * p \in Int
    <3>1. \A n \in Nat, u, v \in Int : u <= v => n * u <= n * v
      OBVIOUS
    <3>2. (p <= y => x * p <= x * y) /\ (y <= p => x * y <= x * p)
      BY <1>6, <2>4, <2>5, <3>1
    <3>3. \A n, u \in Int : n * u \in Int
      OBVIOUS
    <3>4. x \in Int /\ p \in Int /\ y \in Int /\ d - b.left \in Int
      BY <1>6, <2>3, <2>4, <2>5
    <3> QED BY <3>2, <3>3, <3>4
  <2>9. (d - more[j].left) * p = (d - b.left) * p + x * p
    <3>1. \A n, m, l, u \in Int : (n - (m - l)) * u = (n - m) * u + l * u
      OBVIOUS
    <3>2. x \in Int /\ b.left \in Int
      BY <2>3, <2>5
    <3> QED BY <1>6, <2>4, <3>1, <3>2
  <2>10. more[j].left <= d
    BY <2>3, <2>4, <2>5, <2>7
  <2>11. Up => more[j].value >= t[k].value + (d - more[j].left) * p
    <3> DEFINE xp == x * p
               xy == x * y
               dp == (d - b.left) * p
    <3> SUFFICES ASSUME Up PROVE more[j].value >= t[k].value + (d - more[j].left) * p
      OBVIOUS
    <3>1. /\ xp <= xy /\ xp \in Int /\ xy \in Int /\ dp \in Int
          /\ b.value >= t[k].value + dp
          /\ more[j].value = b.value + xy
          /\ (d - more[j].left) * p = dp + xp
      BY <2>4, <2>6, <2>7, <2>8, <2>9
    <3>2. \A u, v, l, m, n \in Int : m <= l /\ u >= v + n => u + l >= v + (n + m)
      OBVIOUS
    <3>3. b.value \in Int /\ t[k].value \in Int
      BY <1>6, <2>3
    <3> HIDE DEF xp, xy, dp
    <3>4. b.value + xy >= t[k].value + (dp + xp)
      BY <3>1, <3>2, <3>3
    <3> QED BY <3>1, <3>4
  <2>12. Down => more[j].value <= t[k].value + (d - more[j].left) * p
    <3> DEFINE xp == x * p
               xy == x * y
               dp == (d - b.left) * p
    <3> SUFFICES ASSUME Down PROVE more[j].value <= t[k].value + (d - more[j].left) * p
      OBVIOUS
    <3>1. /\ xy <= xp /\ xp \in Int /\ xy \in Int /\ dp \in Int
          /\ b.value <= t[k].value + dp
          /\ more[j].value = b.value + xy
          /\ (d - more[j].left) * p = dp + xp
      BY <2>4, <2>6, <2>7, <2>8, <2>9
    <3>2. \A u, v, l, m, n \in Int : l <= m /\ u <= v + n => u + l <= v + (n + m)
      OBVIOUS
    <3>3. b.value \in Int /\ t[k].value \in Int
      BY <1>6, <2>3
    <3> HIDE DEF xp, xy, dp
    <3>4. b.value + xy <= t[k].value + (dp + xp)
      BY <3>1, <3>2, <3>3
    <3> QED BY <3>1, <3>4
  <2>13. Bound(j)
    BY <2>10, <2>11, <2>12
  <2> HIDE DEF Bound
  <2> QED BY <2>13 DEF j
<1>9. Nat \subseteq Good
  <2> HIDE DEF Good
  <2> QED BY <1>7, <1>8, SetInduction
<1>10. Bound(L)
  <2>1. L - k \in Nat /\ k + (L - k) = L /\ L <= L
    BY <1>2
  <2>2. L - k \in Good
    BY <1>9, <2>1
  <2> HIDE DEF Bound
  <2> QED BY <2>1, <2>2
<1>11. more[L].left = 0 /\ (d - 0) * p = d * p
  BY <1>5, <1>6
<1>12. /\ Up => more[L].value >= t[k].value + d * p
       /\ Down => more[L].value <= t[k].value + d * p
  BY <1>10, <1>11
<1>13. Trade(side, levels, q).value = t[k].value
  BY <1>4
<1> QED BY <1>5, <1>12, <1>13 DEF L, p

-----------------------------------------------------------------------------
(* The walk over two sides.                                                *)

\* A level of its own for the walk once d more are filled at level k.
LEMMA LevelAfterSits ==
    ASSUME NEW side \in Side, NEW levels \in Seq(Price), NEW q \in Nat,
           \A j \in 1..Len(levels) : side[levels[j]] > 0,
           NEW k, NEW r, Sits(side, levels, q, k, r), k <= Len(levels),
           NEW d \in Nat, d <= r, NEW on, on = LevelAfter(side, levels, k, r - d)
    PROVE  Sits(side, levels, q + d, on[1], on[2]) /\ on[1] \in Nat /\ on[2] \in Nat
<1>1. k \in 1..Len(levels) /\ r \in Nat /\ Len(levels) \in Nat
  BY DEF Sits
<1>2. /\ d < r => Sits(side, levels, q + d, k, r - d)
      /\ d = r /\ k < Len(levels) => Sits(side, levels, q + d, k + 1, side[levels[k + 1]])
      /\ d = r /\ k = Len(levels) => \A x : Sits(side, levels, q + d, k + 1, x)
  BY FillSits
<1>3. CASE d < r
  <2>1. on = <<k, r - d>> /\ r - d \in Nat
    BY <1>1, <1>3 DEF LevelAfter
  <2> QED BY <1>1, <1>2, <1>3, <2>1
<1>4. CASE d = r /\ k < Len(levels)
  <2>1. on = <<k + 1, side[levels[k + 1]]>>
    BY <1>1, <1>4 DEF LevelAfter
  <2>2. side[levels[k + 1]] \in Nat
    BY <1>1, <1>4 DEF Side, Qty
  <2> QED BY <1>1, <1>2, <1>4, <2>1, <2>2
<1>5. CASE d = r /\ k = Len(levels)
  <2>1. on = <<k + 1, r - d>> /\ r - d \in Nat
    BY <1>1, <1>5 DEF LevelAfter
  <2> QED BY <1>1, <1>2, <1>5, <2>1
<1> QED BY <1>1, <1>3, <1>4, <1>5

\* One fill of d at level k adds d of the level's price to what has been traded so far.
TradesAt(side, levels, q, k, x, d) ==
    Trade(side, levels, q + d) = [left |-> 0, value |-> x + d * levels[k]]

LEMMA FillTrades ==
    ASSUME NEW side \in Side, NEW levels \in Seq(Price), NEW q \in Nat,
           \A j \in 1..Len(levels) : side[levels[j]] > 0,
           NEW k, NEW r, Sits(side, levels, q, k, r), k <= Len(levels),
           NEW d \in Nat, d <= r,
           NEW x, Trade(side, levels, q) = [left |-> 0, value |-> x]
    PROVE  TradesAt(side, levels, q, k, x, d)
<1>1. Trade(side, levels, q + d) =
          [left |-> 0, value |-> Trade(side, levels, q).value + d * levels[k]]
  BY FillSits
<1> QED BY <1>1 DEF TradesAt

\* What lies beyond m, up to k further, is reached from m.
LEMMA DistanceFrom ==
    ASSUME NEW m \in Nat, NEW k \in Nat, NEW n \in 0..(m + k), n > m
    PROVE  n - m \in Nat /\ n - m <= k /\ m + (n - m) = n
<1> QED OBVIOUS

\* Filling more at prices that pay pays more.
LEMMA MorePays ==
    ASSUME NEW x \in Nat, NEW y \in Nat, x <= y, NEW l \in Nat, NEW m \in Nat, l < m,
           NEW s \in Nat, NEW t \in Nat
    PROVE  (s + x * m) - (t + x * l) <= (s + y * m) - (t + y * l)
<1>1. \A n, i, j \in Nat : (s + n * m) - (t + n * l) = (s - t) + n * (m - l)
  OBVIOUS
<1>2. x * (m - l) <= y * (m - l) /\ x * (m - l) \in Int /\ y * (m - l) \in Int
  <2>1. \A n \in Nat : x * n <= y * n /\ x * n \in Int /\ y * n \in Int
    OBVIOUS
  <2>2. m - l \in Nat
    OBVIOUS
  <2> QED BY <2>1, <2>2
<1>3. (s + x * m) - (t + x * l) = (s - t) + x * (m - l)
      /\ (s + y * m) - (t + y * l) = (s - t) + y * (m - l)
  BY <1>1
<1>4. \A u, v, n \in Int : u <= v => n + u <= n + v
  OBVIOUS
<1>5. s - t \in Int
  OBVIOUS
<1>6. (s - t) + x * (m - l) <= (s - t) + y * (m - l)
  BY <1>2, <1>4, <1>5
<1> QED BY <1>3, <1>6

\* The gross profit of a quantity.
Gross(buys, sells, A, B, q) == Trade(sells, B, q).value - Trade(buys, A, q).value

\* What the walk has filled is a trade of its base quantity, it stands on the levels
\* that trade ends on, and no smaller quantity has a larger gross profit.
Reached(buys, sells, A, B, w) ==
    /\ Sits(buys, A, w.base, w.ask_index, w.ask_remaining)
    /\ Sits(sells, B, w.base, w.bid_index, w.bid_remaining)
    /\ Trade(buys, A, w.base) = [left |-> 0, value |-> w.buy]
    /\ Trade(sells, B, w.base) = [left |-> 0, value |-> w.sell]
    /\ w.cap = MaxNotional - w.buy
    /\ \A q \in 0..w.base : Gross(buys, sells, A, B, q) <= w.sell - w.buy

\* What of Filled there is to say without the variables.
AfterFill(buys, sells, A, B, w, d) ==
    LET on_ask == LevelAfter(buys, A, w.ask_index, w.ask_remaining - d)
        on_bid == LevelAfter(sells, B, w.bid_index, w.bid_remaining - d)
    IN  [ask_index |-> on_ask[1], ask_remaining |-> on_ask[2],
         bid_index |-> on_bid[1], bid_remaining |-> on_bid[2],
         cap |-> w.cap - d * A[w.ask_index],
         base |-> w.base + d,
         buy |-> w.buy + d * A[w.ask_index],
         sell |-> w.sell + d * B[w.bid_index]]

LEMMA FillReached ==
    ASSUME NEW buys \in Side, NEW sells \in Side, NEW A \in Seq(Price), NEW B \in Seq(Price),
           \A j \in 1..Len(A) : buys[A[j]] > 0, \A j \in 1..Len(B) : sells[B[j]] > 0,
           NEW w \in Walk, Reached(buys, sells, A, B, w),
           w.ask_index <= Len(A), w.bid_index <= Len(B),
           A[w.ask_index] > 0, A[w.ask_index] < B[w.bid_index],
           NEW d \in Nat, d <= w.ask_remaining, d <= w.bid_remaining,
           d * A[w.ask_index] <= w.cap,
           NEW v, v = AfterFill(buys, sells, A, B, w, d)
    PROVE  v \in Walk /\ Reached(buys, sells, A, B, v)
<1> DEFINE a == A[w.ask_index]
           b == B[w.bid_index]
           on_ask == LevelAfter(buys, A, w.ask_index, w.ask_remaining - d)
           on_bid == LevelAfter(sells, B, w.bid_index, w.bid_remaining - d)
<1>1. /\ w.base \in Nat /\ w.buy \in Nat /\ w.sell \in Nat /\ w.cap \in Nat
      /\ w.ask_index \in Nat /\ w.bid_index \in Nat
      /\ w.ask_remaining \in Nat /\ w.bid_remaining \in Nat
  BY DEF Walk
<1>2. /\ Sits(buys, A, w.base, w.ask_index, w.ask_remaining)
      /\ Sits(sells, B, w.base, w.bid_index, w.bid_remaining)
      /\ Trade(buys, A, w.base) = [left |-> 0, value |-> w.buy]
      /\ Trade(sells, B, w.base) = [left |-> 0, value |-> w.sell]
      /\ w.cap = MaxNotional - w.buy
      /\ \A q \in 0..w.base : Gross(buys, sells, A, B, q) <= w.sell - w.buy
  BY DEF Reached
<1>3. a \in Nat /\ b \in Nat /\ a < b
  <2>1. w.ask_index \in 1..Len(A) /\ w.bid_index \in 1..Len(B)
    BY <1>2 DEF Sits
  <2>2. A[w.ask_index] \in Price /\ B[w.bid_index] \in Price
    BY <2>1
  <2>3. a \in Int /\ b \in Int
    BY <2>2, PriceAssumption
  <2>4. a > 0 /\ a < b
    OBVIOUS
  <2> HIDE DEF a, b
  <2> QED BY <2>3, <2>4
<1>4. Sits(buys, A, w.base + d, on_ask[1], on_ask[2]) /\ on_ask[1] \in Nat /\ on_ask[2] \in Nat
  BY <1>1, <1>2, LevelAfterSits
<1>5. Sits(sells, B, w.base + d, on_bid[1], on_bid[2]) /\ on_bid[1] \in Nat /\ on_bid[2] \in Nat
  BY <1>1, <1>2, LevelAfterSits
<1>6. ASSUME NEW e \in Nat, e <= d
      PROVE  /\ Trade(buys, A, w.base + e) = [left |-> 0, value |-> w.buy + e * a]
             /\ Trade(sells, B, w.base + e) = [left |-> 0, value |-> w.sell + e * b]
  <2>1. e <= w.ask_remaining /\ e <= w.bid_remaining
    BY <1>1, <1>6
  <2>2. PICK q, k, r, x : q = w.base /\ k = w.ask_index /\ r = w.ask_remaining /\ x = w.buy
    OBVIOUS
  <2>3. Trade(buys, A, q + e) = [left |-> 0, value |-> x + e * A[k]]
    <3>1. /\ q \in Nat /\ Sits(buys, A, q, k, r) /\ k <= Len(A) /\ e \in Nat /\ e <= r
          /\ Trade(buys, A, q) = [left |-> 0, value |-> x]
      BY <1>1, <1>2, <2>1, <2>2
    <3>2. TradesAt(buys, A, q, k, x, e)
      BY <3>1, FillTrades
    <3> QED BY <3>2 DEF TradesAt
  <2>4. PICK j, l, y : j = w.bid_index /\ l = w.bid_remaining /\ y = w.sell
    OBVIOUS
  <2>5. Trade(sells, B, q + e) = [left |-> 0, value |-> y + e * B[j]]
    <3>1. /\ q \in Nat /\ Sits(sells, B, q, j, l) /\ j <= Len(B) /\ e \in Nat /\ e <= l
          /\ Trade(sells, B, q) = [left |-> 0, value |-> y]
      BY <1>1, <1>2, <2>1, <2>2, <2>4
    <3>2. TradesAt(sells, B, q, j, y, e)
      BY <3>1, FillTrades
    <3> QED BY <3>2 DEF TradesAt
  <2> QED BY <2>2, <2>3, <2>4, <2>5
<1> DEFINE da == d * a
           db == d * b
<1>7. v = [ask_index |-> on_ask[1], ask_remaining |-> on_ask[2],
           bid_index |-> on_bid[1], bid_remaining |-> on_bid[2],
           cap |-> w.cap - da, base |-> w.base + d,
           buy |-> w.buy + da, sell |-> w.sell + db]
  BY DEF AfterFill
<1>8. da \in Nat /\ db \in Nat /\ da <= db /\ da <= w.cap
  <2>1. \A x, y, z \in Nat : x * y \in Nat /\ (y < z => x * y <= x * z)
    OBVIOUS
  <2> QED BY <1>3, <2>1
<1>9. Trade(buys, A, w.base + d) = [left |-> 0, value |-> w.buy + da]
      /\ Trade(sells, B, w.base + d) = [left |-> 0, value |-> w.sell + db]
  BY <1>6
<1> HIDE DEF on_ask, on_bid
<1>10. ASSUME NEW q \in 0..(w.base + d)
       PROVE  Gross(buys, sells, A, B, q) <= (w.sell + db) - (w.buy + da)
  <2>1. CASE q <= w.base
    <3> DEFINE g == Gross(buys, sells, A, B, q)
    <3>1. g <= w.sell - w.buy
      BY <1>1, <1>2, <2>1
    <3>2. g \in Int
      <4>1. \A side \in Side, levels \in Seq(Price) : Trade(side, levels, q).value \in Int
        <5> SUFFICES ASSUME NEW side \in Side, NEW levels \in Seq(Price)
                     PROVE  Trade(side, levels, q).value \in Int
          OBVIOUS
        <5>1. q \in Nat
          BY <1>1
        <5>2. Trading(side, levels, q, Traded(side, levels, q))
          BY <5>1, TradedFacts
        <5>3. Len(levels) \in 0..Len(levels)
          OBVIOUS
        <5> QED BY <5>2, <5>3 DEF Trading, Trade
      <4> QED BY <4>1 DEF Gross
    <3> HIDE DEF g, da, db
    <3>3. g <= (w.sell + db) - (w.buy + da)
      BY <1>1, <1>8, <3>1, <3>2
    <3> QED BY <3>3 DEF g
  <2>2. CASE q > w.base
    <3> DEFINE e == q - w.base
    <3>1. e \in Nat /\ e <= d /\ w.base + e = q
      BY <1>1, <2>2, DistanceFrom
    <3> HIDE DEF e
    <3>2. /\ Trade(buys, A, q) = [left |-> 0, value |-> w.buy + e * a]
          /\ Trade(sells, B, q) = [left |-> 0, value |-> w.sell + e * b]
      <4>1. /\ Trade(buys, A, w.base + e) = [left |-> 0, value |-> w.buy + e * a]
            /\ Trade(sells, B, w.base + e) = [left |-> 0, value |-> w.sell + e * b]
        BY <1>6, <3>1
      <4> QED BY <3>1, <4>1
    <3>3. Gross(buys, sells, A, B, q) = (w.sell + e * b) - (w.buy + e * a)
      BY <3>2 DEF Gross
    <3>4. (w.sell + e * b) - (w.buy + e * a) <= (w.sell + d * b) - (w.buy + d * a)
      BY <1>1, <1>3, <3>1, MorePays
    <3> QED BY <3>3, <3>4
  <2> QED BY <1>1, <2>1, <2>2
<1> HIDE DEF da, db
<1>11. v \in Walk
  <2>1. \A x, y \in Nat : x + y \in Nat /\ (y <= x => x - y \in Nat)
    OBVIOUS
  <2>2. w.cap - da \in Nat /\ w.base + d \in Nat /\ w.buy + da \in Nat /\ w.sell + db \in Nat
    BY <1>1, <1>8, <2>1
  <2> QED BY <1>4, <1>5, <1>7, <2>2 DEF Walk
<1>12. v.cap = MaxNotional - v.buy
  <2>1. \A m, x, y \in Int : (m - x) - y = m - (x + y)
    OBVIOUS
  <2>2. (MaxNotional - w.buy) - da = MaxNotional - (w.buy + da)
    BY <1>1, <1>8, <2>1, SettingsAssumption
  <2> QED BY <1>2, <1>7, <2>2
<1>13. /\ v.base = w.base + d /\ v.buy = w.buy + da /\ v.sell = w.sell + db
       /\ v.ask_index = on_ask[1] /\ v.ask_remaining = on_ask[2]
       /\ v.bid_index = on_bid[1] /\ v.bid_remaining = on_bid[2]
  BY <1>7
<1>14. Reached(buys, sells, A, B, v)
  BY <1>4, <1>5, <1>9, <1>10, <1>12, <1>13 DEF Reached
<1> QED BY <1>11, <1>14

\* With nothing filled.
LEMMA StartReached ==
    ASSUME NEW buys \in Side, NEW sells \in Side, NEW A \in Seq(Price), NEW B \in Seq(Price),
           A # <<>>, B # <<>>, buys[A[1]] > 0, sells[B[1]] > 0,
           NEW w, w = [NoWalk EXCEPT !.ask_index = 1, !.bid_index = 1,
                                     !.ask_remaining = buys[A[1]],
                                     !.bid_remaining = sells[B[1]],
                                     !.cap = MaxNotional]
    PROVE  w \in Walk /\ Reached(buys, sells, A, B, w)
<1>1. buys[A[1]] \in Nat /\ sells[B[1]] \in Nat
  <2>1. A[1] \in Price /\ B[1] \in Price
    OBVIOUS
  <2> QED BY <2>1 DEF Side, Qty
<1>2. /\ w.ask_index = 1 /\ w.bid_index = 1 /\ w.ask_remaining = buys[A[1]]
      /\ w.bid_remaining = sells[B[1]] /\ w.cap = MaxNotional
      /\ w.base = 0 /\ w.buy = 0 /\ w.sell = 0
  BY DEF NoWalk
<1>3. w \in Walk
  BY <1>1, SettingsAssumption DEF NoWalk, Walk
<1>4. /\ Sits(buys, A, 0, 1, buys[A[1]]) /\ Trade(buys, A, 0) = [left |-> 0, value |-> 0]
      /\ Sits(sells, B, 0, 1, sells[B[1]]) /\ Trade(sells, B, 0) = [left |-> 0, value |-> 0]
  BY StartSits
<1>5. \A q \in 0..0 : Gross(buys, sells, A, B, q) <= 0 - 0
  BY <1>4 DEF Gross
<1>6. MaxNotional = MaxNotional - 0
  BY SettingsAssumption
<1> QED BY <1>2, <1>3, <1>4, <1>5, <1>6 DEF Reached

\* Levels are prices, and prices are numbers.
LEMMA LevelsAreNumbers ==
    ASSUME NEW levels \in Seq(Price)
    PROVE  \A j \in 1..Len(levels) : levels[j] \in Int
<1>1. \A j \in 1..Len(levels) : levels[j] \in Price
  OBVIOUS
<1>2. \A p \in Price : p \in Int
  BY PriceAssumption
<1> QED BY <1>1, <1>2

\* A quantity costs at least, and brings at most, what the best level pays for it.
LEMMA BestLevelBounds ==
    ASSUME NEW side \in Side, NEW levels \in Seq(Price), levels # <<>>,
           \A j \in 1..Len(levels) : side[levels[j]] > 0,
           NEW q \in Nat, Trade(side, levels, q).left = 0
    PROVE  /\ (\A i, j \in 1..Len(levels) : i < j => levels[i] < levels[j]) =>
                  Trade(side, levels, q).value >= q * levels[1]
           /\ (\A i, j \in 1..Len(levels) : i < j => levels[i] > levels[j]) =>
                  Trade(side, levels, q).value <= q * levels[1]
<1>1. 1 \in 1..Len(levels) /\ 1 <= Len(levels) /\ Len(levels) \in Nat
  OBVIOUS
<1>2. /\ Sits(side, levels, 0, 1, side[levels[1]])
      /\ Trade(side, levels, 0).value = 0
  BY <1>1, StartSits
<1>3. PICK z, k : z = 0 /\ k = 1
  OBVIOUS
<1>4. /\ z \in Nat /\ Sits(side, levels, z, k, side[levels[1]]) /\ k <= Len(levels)
      /\ z + q = q
  BY <1>1, <1>2, <1>3
<1>5. /\ (\A j \in k..Len(levels) : levels[k] <= levels[j]) =>
             Trade(side, levels, z + q).value >= Trade(side, levels, z).value + q * levels[k]
      /\ (\A j \in k..Len(levels) : levels[j] <= levels[k]) =>
             Trade(side, levels, z + q).value <= Trade(side, levels, z).value + q * levels[k]
  BY <1>4, Beyond
<1>6. \A j \in 1..Len(levels) : levels[j] \in Int
  BY LevelsAreNumbers
<1>7. q * levels[1] \in Int /\ 0 + q * levels[1] = q * levels[1]
  <2>1. levels[1] \in Int
    BY <1>1, <1>6
  <2> QED BY <2>1
<1>8. /\ (\A i, j \in 1..Len(levels) : i < j => levels[i] < levels[j]) =>
             \A j \in 1..Len(levels) : levels[1] <= levels[j]
      /\ (\A i, j \in 1..Len(levels) : i < j => levels[i] > levels[j]) =>
             \A j \in 1..Len(levels) : levels[j] <= levels[1]
  BY <1>1, <1>6
<1>9. Trade(side, levels, z + q).value = Trade(side, levels, q).value
      /\ Trade(side, levels, z).value + q * levels[k] = q * levels[1]
  BY <1>2, <1>3, <1>4, <1>7
<1>10. k..Len(levels) = 1..Len(levels) /\ levels[k] = levels[1]
  BY <1>3
<1> QED BY <1>5, <1>8, <1>9, <1>10

\* Where the walk cannot go on there is no better quantity.
LEMMA NothingBetter ==
    ASSUME NEW buys \in Side, NEW sells \in Side, NEW A \in Seq(Price), NEW B \in Seq(Price),
           \A i, j \in 1..Len(A) : i < j => A[i] < A[j],
           \A i, j \in 1..Len(B) : i < j => B[i] > B[j],
           \A j \in 1..Len(A) : A[j] > 0,
           NEW w \in Walk, Reached(buys, sells, A, B, w),
           w.ask_index <= Len(A) /\ w.bid_index <= Len(B) =>
               w.cap < A[w.ask_index] \/ B[w.bid_index] <= A[w.ask_index],
           NEW q \in Nat, Trade(buys, A, q).left = 0, Trade(sells, B, q).left = 0,
           Trade(buys, A, q).value <= MaxNotional
    PROVE  Gross(buys, sells, A, B, q) <= w.sell - w.buy
<1>1. PICK base, k, r, j, s :
          base = w.base /\ k = w.ask_index /\ r = w.ask_remaining
          /\ j = w.bid_index /\ s = w.bid_remaining
  OBVIOUS
<1>2. base \in Nat /\ w.buy \in Nat /\ w.sell \in Nat /\ w.cap \in Nat
  BY <1>1 DEF Walk
<1>3. /\ Sits(buys, A, base, k, r) /\ Sits(sells, B, base, j, s)
      /\ Trade(buys, A, base).value = w.buy /\ Trade(sells, B, base).value = w.sell
      /\ w.cap = MaxNotional - w.buy
      /\ \A n \in 0..base : Gross(buys, sells, A, B, n) <= w.sell - w.buy
  BY <1>1 DEF Reached
<1>4. CASE q <= base
  BY <1>2, <1>3, <1>4
<1>5. CASE q > base
  <2>1. PICK d \in Nat : base + d = q /\ d > 0
    <3>1. q - base \in Nat /\ base + (q - base) = q /\ q - base > 0
      BY <1>2, <1>5
    <3> QED BY <3>1
  <2>2. Trade(buys, A, base + d).left = 0 /\ Trade(sells, B, base + d).left = 0
    BY <2>1
  <2>3. k <= Len(A) /\ j <= Len(B)
    <3>1. k \in 1..(Len(A) + 1) /\ j \in 1..(Len(B) + 1)
      BY <1>3 DEF Sits
    <3>2. ASSUME k = Len(A) + 1 PROVE FALSE
      <4>1. Sits(buys, A, base, Len(A) + 1, r)
        BY <1>3, <3>2
      <4>2. d = 0
        BY <1>2, <2>2, <4>1, Exhausted
      <4> QED BY <2>1, <4>2
    <3>3. ASSUME j = Len(B) + 1 PROVE FALSE
      <4>1. Sits(sells, B, base, Len(B) + 1, s)
        BY <1>3, <3>3
      <4>2. d = 0
        BY <1>2, <2>2, <4>1, Exhausted
      <4> QED BY <2>1, <4>2
    <3> QED BY <3>1, <3>2, <3>3
  <2>4. /\ k \in 1..Len(A) /\ j \in 1..Len(B) /\ Len(A) \in Nat /\ Len(B) \in Nat
        /\ \A i \in 1..Len(A) : A[i] \in Int /\ \A n \in 1..Len(B) : B[n] \in Int
    <3>1. k \in 1..(Len(A) + 1) /\ j \in 1..(Len(B) + 1)
      BY <1>3 DEF Sits
    <3>2. (\A i \in 1..Len(A) : A[i] \in Int) /\ (\A n \in 1..Len(B) : B[n] \in Int)
      BY LevelsAreNumbers
    <3>3. Len(A) \in Nat /\ Len(B) \in Nat
      OBVIOUS
    <3> QED BY <2>3, <3>1, <3>2, <3>3
  <2>5. (\A i \in k..Len(A) : A[k] <= A[i]) /\ (\A n \in j..Len(B) : B[n] <= B[j])
    <3>1. \A i \in k..Len(A) : i \in 1..Len(A) /\ (i = k \/ k < i)
      BY <2>4
    <3>2. \A n \in j..Len(B) : n \in 1..Len(B) /\ (n = j \/ j < n)
      BY <2>4
    <3>3. \A i \in k..Len(A) : A[k] <= A[i]
      BY <2>4, <3>1
    <3>4. \A n \in j..Len(B) : B[n] <= B[j]
      BY <2>4, <3>2
    <3> QED BY <3>3, <3>4
  <2>6. Trade(buys, A, base + d).value >= Trade(buys, A, base).value + d * A[k]
    BY <1>2, <1>3, <2>2, <2>3, <2>5, Beyond
  <2>7. Trade(sells, B, base + d).value <= Trade(sells, B, base).value + d * B[j]
    BY <1>2, <1>3, <2>2, <2>3, <2>5, Beyond
  <2> DEFINE cost == Trade(buys, A, q).value
             gain == Trade(sells, B, q).value
             a == A[k]
             b == B[j]
  <2>8. cost \in Int /\ gain \in Int
    <3>1. Trading(buys, A, q, Traded(buys, A, q)) /\ Trading(sells, B, q, Traded(sells, B, q))
      BY TradedFacts
    <3>2. Len(A) \in 0..Len(A) /\ Len(B) \in 0..Len(B)
      OBVIOUS
    <3> QED BY <3>1, <3>2 DEF Trading, Trade
  <2>9. /\ a \in Nat /\ a > 0 /\ b \in Int /\ cost <= MaxNotional
        /\ cost >= w.buy + d * a /\ gain <= w.sell + d * b
        /\ w.cap < a \/ b <= a
    <3>1. a \in Int /\ a > 0 /\ b \in Int
      BY <2>4
    <3>2. cost >= w.buy + d * a /\ gain <= w.sell + d * b
      BY <1>3, <2>1, <2>6, <2>7
    <3>3. w.cap < a \/ b <= a
      BY <1>1, <2>3
    <3> HIDE DEF a, b
    <3> QED BY <3>1, <3>2, <3>3
  <2> HIDE DEF cost, gain, a, b
  <2>10. b <= a
    <3>1. \A x, y \in Nat : x > 0 => x * y >= y /\ x * y \in Nat
      OBVIOUS
    <3>2. d * a >= a /\ d * a \in Nat
      BY <2>1, <2>9, <3>1
    <3>3. \A c, m, u, x, y \in Int : c >= u + y /\ y >= x /\ c <= m => ~(m - u < x)
      OBVIOUS
    <3>4. MaxNotional \in Int /\ w.buy \in Int /\ a \in Int /\ d * a \in Int
      BY <1>2, <2>9, <3>2, SettingsAssumption
    <3>5. ~(MaxNotional - w.buy < a)
      BY <2>8, <2>9, <3>2, <3>3, <3>4
    <3> QED BY <1>3, <2>9, <3>5
  <2>11. d * b <= d * a /\ d * b \in Int /\ d * a \in Int
    <3>1. \A x \in Nat, y, z \in Int : x * y \in Int /\ (y <= z => x * y <= x * z)
      OBVIOUS
    <3> QED BY <2>9, <2>10, <3>1
  <2>12. gain - cost <= w.sell - w.buy
    <3> DEFINE m == d * a
               n == d * b
    <3>1. \A g, c, u, v, x, y \in Int :
              c >= v + x /\ g <= u + y /\ y <= x => g - c <= u - v
      OBVIOUS
    <3>2. /\ m \in Int /\ n \in Int /\ n <= m
          /\ cost >= w.buy + m /\ gain <= w.sell + n
      BY <2>9, <2>11
    <3>3. w.buy \in Int /\ w.sell \in Int
      BY <1>2
    <3> HIDE DEF m, n
    <3> QED BY <2>8, <3>1, <3>2, <3>3
  <2> QED BY <2>12 DEF Gross, cost, gain
<1> QED BY <1>2, <1>4, <1>5

-----------------------------------------------------------------------------
(* The inductive invariant.                                                *)

\* What a quotient of numbers above zero leaves.
LEMMA Quotient ==
    ASSUME NEW c \in Nat, NEW a \in Nat, a > 0
    PROVE  c \div a \in Nat /\ (c \div a) * a <= c /\ c - (c \div a) * a < a
OBVIOUS

\* WalksOn and Executable without the variables.
Fillable(A, w) ==
    SmallerOf(SmallerOf(w.ask_remaining, w.bid_remaining), w.cap \div A[w.ask_index])

GoesOn(A, B, w) ==
    /\ w.ask_index <= Len(A) /\ w.bid_index <= Len(B)
    /\ w.cap > 0
    /\ A[w.ask_index] > 0 /\ B[w.bid_index] > 0
    /\ B[w.bid_index] > A[w.ask_index]
    /\ Fillable(A, w) > 0

\* What one iteration fills is there on both levels, and the cap pays for it.  It fills
\* one of them, or leaves less of the cap than one more costs.
LEMMA IterationFits ==
    ASSUME NEW buys \in Side, NEW sells \in Side, NEW A \in Seq(Price), NEW B \in Seq(Price),
           NEW w \in Walk, Reached(buys, sells, A, B, w), GoesOn(A, B, w),
           NEW d, d = Fillable(A, w)
    PROVE  /\ A[w.ask_index] \in Nat /\ A[w.ask_index] > 0 /\ A[w.ask_index] < B[w.bid_index]
           /\ d \in Nat /\ d <= w.ask_remaining /\ d <= w.bid_remaining
           /\ d * A[w.ask_index] <= w.cap
           /\ \/ d = w.ask_remaining \/ d = w.bid_remaining
              \/ w.cap - d * A[w.ask_index] < A[w.ask_index]
<1>1. PICK a, b, r, s, c :
          a = A[w.ask_index] /\ b = B[w.bid_index] /\ r = w.ask_remaining
          /\ s = w.bid_remaining /\ c = w.cap
  OBVIOUS
<1>2. r \in Nat /\ s \in Nat /\ c \in Nat
  BY <1>1 DEF Walk
<1>3. a \in Nat /\ a > 0 /\ a < b
  <2>1. /\ Sits(buys, A, w.base, w.ask_index, w.ask_remaining)
        /\ Sits(sells, B, w.base, w.bid_index, w.bid_remaining)
    BY DEF Reached
  <2>2. w.ask_index \in 1..(Len(A) + 1) /\ w.bid_index \in 1..(Len(B) + 1)
    BY <2>1 DEF Sits
  <2>3. w.ask_index \in 1..Len(A) /\ w.bid_index \in 1..Len(B)
    BY <2>2 DEF GoesOn
  <2>4. a \in Int /\ b \in Int
    BY <1>1, <2>3, LevelsAreNumbers
  <2>5. a > 0 /\ b > a
    BY <1>1 DEF GoesOn
  <2> QED BY <2>4, <2>5
<1> DEFINE most == c \div a
<1>4. d = SmallerOf(SmallerOf(r, s), most)
  BY <1>1 DEF Fillable
<1>5. most \in Nat /\ most * a <= c /\ c - most * a < a
  BY <1>2, <1>3, Quotient
<1> HIDE DEF most
<1>6. /\ d \in Nat /\ d <= r /\ d <= s /\ d <= most
      /\ d = r \/ d = s \/ d = most
  BY <1>2, <1>4, <1>5 DEF SmallerOf
<1>7. d * a <= c
  <2>1. \A x, y, z \in Nat : x <= y => x * z <= y * z /\ x * z \in Nat /\ y * z \in Nat
    OBVIOUS
  <2>2. d * a <= most * a /\ d * a \in Nat /\ most * a \in Nat
    BY <1>3, <1>5, <1>6, <2>1
  <2> QED BY <1>2, <1>5, <2>2
<1> QED BY <1>1, <1>3, <1>5, <1>6, <1>7

\* An iteration keeps Reached, and it comes nearer to the end: it moves on to the next
\* level of one side, or it is the last.
LEMMA IterationReached ==
    ASSUME NEW buys \in Side, NEW sells \in Side, NEW A \in Seq(Price), NEW B \in Seq(Price),
           \A j \in 1..Len(A) : buys[A[j]] > 0, \A j \in 1..Len(B) : sells[B[j]] > 0,
           NEW w \in Walk, Reached(buys, sells, A, B, w), GoesOn(A, B, w),
           NEW v, v = AfterFill(buys, sells, A, B, w, Fillable(A, w))
    PROVE  /\ v \in Walk /\ Reached(buys, sells, A, B, v)
           /\ \/ v.ask_index + v.bid_index > w.ask_index + w.bid_index
              \/ ~GoesOn(A, B, v)
<1>1. PICK d : d = Fillable(A, w)
  OBVIOUS
<1>2. /\ A[w.ask_index] \in Nat /\ A[w.ask_index] > 0 /\ A[w.ask_index] < B[w.bid_index]
      /\ d \in Nat /\ d <= w.ask_remaining /\ d <= w.bid_remaining
      /\ d * A[w.ask_index] <= w.cap
      /\ \/ d = w.ask_remaining \/ d = w.bid_remaining
         \/ w.cap - d * A[w.ask_index] < A[w.ask_index]
  BY <1>1, IterationFits
<1>3. w.ask_index <= Len(A) /\ w.bid_index <= Len(B)
  BY DEF GoesOn
<1>4. v = AfterFill(buys, sells, A, B, w, d)
  BY <1>1
<1>5. v \in Walk /\ Reached(buys, sells, A, B, v)
  BY <1>2, <1>3, <1>4, FillReached
<1>6. PICK i, k, r, s, c : /\ i = w.ask_index /\ k = w.bid_index /\ r = w.ask_remaining
                           /\ s = w.bid_remaining /\ c = w.cap
  OBVIOUS
<1>7. i \in Nat /\ k \in Nat /\ r \in Nat /\ s \in Nat /\ c \in Nat
  BY <1>6 DEF Walk
<1>8. PICK on_ask, on_bid : /\ on_ask = LevelAfter(buys, A, i, r - d)
                            /\ on_bid = LevelAfter(sells, B, k, s - d)
  OBVIOUS
<1>9. /\ v.ask_index = on_ask[1] /\ v.bid_index = on_bid[1]
      /\ v.cap = c - d * A[i]
  BY <1>4, <1>6, <1>8 DEF AfterFill
<1>10. /\ on_ask[1] = IF r - d > 0 THEN i ELSE i + 1
       /\ on_bid[1] = IF s - d > 0 THEN k ELSE k + 1
  BY <1>8 DEF LevelAfter
<1>11. CASE d = r \/ d = s
  <2>1. on_ask[1] \in {i, i + 1} /\ on_bid[1] \in {k, k + 1}
    BY <1>10
  <2>2. on_ask[1] = i + 1 \/ on_bid[1] = k + 1
    BY <1>2, <1>6, <1>7, <1>10, <1>11
  <2>3. on_ask[1] + on_bid[1] > i + k
    BY <1>7, <2>1, <2>2
  <2> QED BY <1>5, <1>6, <1>9, <2>3
<1>12. CASE d # r /\ d # s
  <2>1. PICK a, l : a = A[i] /\ l = v.cap
    OBVIOUS
  <2>2. a \in Nat /\ a > 0 /\ l \in Nat /\ l < a
    <3>1. l < a
      BY <1>2, <1>6, <1>9, <1>12, <2>1
    <3>2. l \in Nat
      BY <1>5, <2>1 DEF Walk
    <3> QED BY <1>2, <1>6, <2>1, <3>1, <3>2
  <2>3. v.ask_index = i
    BY <1>2, <1>6, <1>7, <1>9, <1>10, <1>12
  <2>4. l \div a = 0
    BY <2>2
  <2>5. Fillable(A, v) = SmallerOf(SmallerOf(v.ask_remaining, v.bid_remaining), 0)
    BY <2>1, <2>3, <2>4 DEF Fillable
  <2>6. v.ask_remaining \in Nat /\ v.bid_remaining \in Nat
    BY <1>5 DEF Walk
  <2>7. ~(Fillable(A, v) > 0)
    BY <2>5, <2>6 DEF SmallerOf
  <2> QED BY <1>5, <2>7 DEF GoesOn
<1> QED BY <1>11, <1>12

\* What a walk has filled costs at least, and brings at most, what the best levels pay
\* for it, and does not bring less than it costs.
LEMMA ReachedBounds ==
    ASSUME NEW buys \in Side, NEW sells \in Side, NEW A \in Seq(Price), NEW B \in Seq(Price),
           A # <<>>, B # <<>>,
           \A j \in 1..Len(A) : buys[A[j]] > 0, \A j \in 1..Len(B) : sells[B[j]] > 0,
           \A i, j \in 1..Len(A) : i < j => A[i] < A[j],
           \A i, j \in 1..Len(B) : i < j => B[i] > B[j],
           NEW w \in Walk, Reached(buys, sells, A, B, w)
    PROVE  w.buy >= w.base * A[1] /\ w.sell <= w.base * B[1] /\ w.sell >= w.buy
<1>1. /\ w.base \in Nat /\ w.buy \in Nat /\ w.sell \in Nat
      /\ Trade(buys, A, w.base) = [left |-> 0, value |-> w.buy]
      /\ Trade(sells, B, w.base) = [left |-> 0, value |-> w.sell]
      /\ \A q \in 0..w.base : Gross(buys, sells, A, B, q) <= w.sell - w.buy
  BY DEF Walk, Reached
<1>2. PICK q \in Nat : q = w.base
  BY <1>1
<1>3. Trade(buys, A, q).value >= q * A[1]
  <2>1. Trade(buys, A, q).left = 0
    BY <1>1, <1>2
  <2> QED BY <2>1, BestLevelBounds
<1>4. Trade(sells, B, q).value <= q * B[1]
  <2>1. Trade(sells, B, q).left = 0
    BY <1>1, <1>2
  <2> QED BY <2>1, BestLevelBounds
<1>5. w.sell >= w.buy
  <2>1. 1 \in 1..Len(A) /\ 1 \in 1..Len(B)
    OBVIOUS
  <2>2. Trade(buys, A, 0).value = 0 /\ Trade(sells, B, 0).value = 0
    BY <2>1, StartSits
  <2>3. Gross(buys, sells, A, B, 0) = 0
    BY <2>2 DEF Gross
  <2> QED BY <1>1, <2>3
<1> QED BY <1>1, <1>2, <1>3, <1>4, <1>5

\* The two sides under evaluation and their levels.
LEMMA CurrentSides ==
    ASSUME books \in BookPairs, buy_exchange \in Exchanges
    PROVE  /\ books[buy_exchange] \in Book /\ books[Other(buy_exchange)] \in Book
           /\ buy_side \in Side /\ sell_side \in Side
           /\ asks \in Seq(Price) /\ bids \in Seq(Price)
           /\ \A j \in 1..Len(asks) : asks[j] \in Quoted(buy_side) /\ buy_side[asks[j]] > 0
           /\ \A j \in 1..Len(bids) : bids[j] \in Quoted(sell_side) /\ sell_side[bids[j]] > 0
           /\ \A i, j \in 1..Len(asks) : i < j => asks[i] < asks[j]
           /\ \A i, j \in 1..Len(bids) : i < j => bids[i] > bids[j]
           /\ asks # <<>> => asks[1] \in BestAsk(buy_side)
           /\ bids # <<>> => bids[1] \in BestBid(sell_side)
<1>1. Other(buy_exchange) \in Exchanges
  BY DEF Other, Exchanges
<1>2. books[buy_exchange] \in Book /\ books[Other(buy_exchange)] \in Book
  BY <1>1, BookPairsAssumption
<1>3. buy_side \in Side /\ sell_side \in Side
  BY <1>2 DEF buy_side, sell_side, Book
<1>4. PICK buys, sells, A, B :
          buys = buy_side /\ sells = sell_side /\ A = asks /\ B = bids
  OBVIOUS
<1>5. A = TopAsks(buys, MaxDepthLevels) /\ B = TopBids(sells, MaxDepthLevels)
  BY <1>4 DEF asks, bids
<1>6. /\ A \in Seq(Quoted(buys)) /\ A \in Seq(Price)
      /\ \A i, j \in 1..Len(A) : i < j => A[i] < A[j]
      /\ A # <<>> => A[1] \in BestAsk(buys)
  BY <1>3, <1>4, <1>5, AskLevels
<1>7. /\ B \in Seq(Quoted(sells)) /\ B \in Seq(Price)
      /\ \A i, j \in 1..Len(B) : i < j => B[i] > B[j]
      /\ B # <<>> => B[1] \in BestBid(sells)
  BY <1>3, <1>4, <1>5, BidLevels
<1>8. \A j \in 1..Len(A) : A[j] \in Quoted(buys) /\ buys[A[j]] > 0
  <2>1. \A j \in 1..Len(A) : A[j] \in Quoted(buys)
    BY <1>6
  <2> QED BY <2>1 DEF Quoted
<1>9. \A j \in 1..Len(B) : B[j] \in Quoted(sells) /\ sells[B[j]] > 0
  <2>1. \A j \in 1..Len(B) : B[j] \in Quoted(sells)
    BY <1>7
  <2> QED BY <2>1 DEF Quoted
<1> QED BY <1>2, <1>3, <1>4, <1>6, <1>7, <1>8, <1>9

\* The walk stands where what it has filled ends.
WalkStands ==
    pc = "walk" =>
        /\ asks # <<>> /\ bids # <<>>
        /\ Reached(buy_side, sell_side, asks, bids, walk)

\* An opportunity bought no cheaper and sold no dearer than at the best levels, did not
\* sell below what it paid, and passed the filters.
Bounded(pair, o) ==
    LET e == o.buy_exchange
    IN  /\ o.net = NetProfit(e, o.buy, o.sell)
        /\ o.base > 0 /\ o.buy > 0 /\ o.sell >= o.buy
        /\ \E a \in BestAsk(pair[e].asks), b \in BestBid(pair[Other(e)].bids) :
              o.buy >= o.base * a /\ o.sell <= o.base * b
        /\ o.buy \in MinNotional..MaxNotional
        /\ o.net >= MinNetSpreadBps * o.buy

OpportunitiesBounded == \A i \in DOMAIN opportunities : Bounded(books, opportunities[i])

IInv == TypeOK /\ WalkStands /\ OpportunitiesBounded

AnOpportunity == [buy_exchange : Exchanges, base : Nat, buy : Nat, sell : Nat, net : Int]

\* The sort only puts the opportunities in another order.
LEMMA SortedFound ==
    ASSUME NEW S, NEW found \in Seq(S)
    PROVE  /\ Sorted(found) \in Seq(S)
           /\ \A i \in DOMAIN Sorted(found) :
                 \E j \in DOMAIN found : Sorted(found)[i] = found[j]
<1>1. CASE Len(found) = 2 /\ Better(found[2], found[1])
  <2>1. Sorted(found) = <<found[2], found[1]>>
    BY <1>1 DEF Sorted
  <2>2. 1 \in DOMAIN found /\ 2 \in DOMAIN found /\ found[1] \in S /\ found[2] \in S
    BY <1>1
  <2>3. DOMAIN <<found[2], found[1]>> = {1, 2}
    OBVIOUS
  <2>4. <<found[2], found[1]>> \in Seq(S)
    BY <2>2
  <2> QED BY <2>1, <2>2, <2>3, <2>4
<1>2. CASE ~(Len(found) = 2 /\ Better(found[2], found[1]))
  <2>1. Sorted(found) = found
    BY <1>2 DEF Sorted
  <2> QED BY <2>1
<1> QED BY <1>1, <1>2

\* On to the other direction, or to the end, with what was found.
LEMMA NextDirectionKeeps ==
    ASSUME TypeOK, NEW found \in Seq(AnOpportunity),
           \A i \in DOMAIN found : Bounded(books, found[i]),
           NextDirection(found), UNCHANGED <<books, walk>>
    PROVE  IInv'
<1>1. /\ books' = books /\ walk' = walk /\ books \in BookPairs /\ walk \in Walk
      /\ buy_exchange \in Exchanges
  BY DEF TypeOK
<1>2. /\ pc' \in {"begin", "done"} /\ buy_exchange' \in Exchanges
      /\ opportunities' = found \/ opportunities' = Sorted(found)
  BY <1>1 DEF NextDirection, Exchanges
<1>3. opportunities' \in Seq(AnOpportunity)
      /\ \A i \in DOMAIN opportunities' :
            \E j \in DOMAIN found : opportunities'[i] = found[j]
  <2>1. /\ Sorted(found) \in Seq(AnOpportunity)
        /\ \A i \in DOMAIN Sorted(found) :
              \E j \in DOMAIN found : Sorted(found)[i] = found[j]
    BY SortedFound
  <2>2. CASE opportunities' = found
    BY <2>2
  <2>3. CASE opportunities' = Sorted(found)
    BY <2>1, <2>3
  <2> QED BY <1>2, <2>2, <2>3
<1>4. TypeOK'
  BY <1>1, <1>2, <1>3 DEF TypeOK, AnOpportunity
<1>5. WalkStands'
  BY <1>2 DEF WalkStands
<1>6. OpportunitiesBounded'
  <2>1. \A i \in DOMAIN opportunities' : Bounded(books, opportunities'[i])
    BY <1>3
  <2> QED BY <1>1, <2>1 DEF OpportunitiesBounded
<1> QED BY <1>4, <1>5, <1>6 DEF IInv

LEMMA InitIInv == Init => IInv
<1> SUFFICES ASSUME Init PROVE IInv
  OBVIOUS
<1>1. NoWalk \in Walk
  BY DEF NoWalk, Walk
<1>2. pc \in {"begin", "done"}
  BY DEF Init
<1>3. TypeOK
  BY <1>1, <1>2 DEF Init, TypeOK, Exchanges
<1>4. OpportunitiesBounded
  BY DEF Init, OpportunitiesBounded
<1> QED BY <1>2, <1>3, <1>4 DEF IInv, WalkStands

LEMMA BeginsWalkKeeps ==
    ASSUME IInv, BeginsWalk
    PROVE  IInv'
<1>1. TypeOK /\ books \in BookPairs /\ buy_exchange \in Exchanges
  BY DEF IInv, TypeOK
<1>2. /\ pc' = "walk" /\ walk' = Begun /\ asks # <<>> /\ bids # <<>>
      /\ books' = books /\ buy_exchange' = buy_exchange /\ opportunities' = opportunities
  BY DEF BeginsWalk
<1>3. buy_side' = buy_side /\ sell_side' = sell_side /\ asks' = asks /\ bids' = bids
  BY <1>2 DEF buy_side, sell_side, asks, bids
<1>4. PICK buys, sells, A, B, w :
          buys = buy_side /\ sells = sell_side /\ A = asks /\ B = bids /\ w = Begun
  OBVIOUS
<1>5. /\ buys \in Side /\ sells \in Side /\ A \in Seq(Price) /\ B \in Seq(Price)
      /\ A # <<>> /\ B # <<>> /\ buys[A[1]] > 0 /\ sells[B[1]] > 0
  <2>1. /\ buys \in Side /\ sells \in Side /\ A \in Seq(Price) /\ B \in Seq(Price)
        /\ \A j \in 1..Len(A) : buys[A[j]] > 0
        /\ \A j \in 1..Len(B) : sells[B[j]] > 0
    BY <1>1, <1>4, CurrentSides
  <2>2. A # <<>> /\ B # <<>>
    BY <1>2, <1>4
  <2>3. 1 \in 1..Len(A) /\ 1 \in 1..Len(B)
    BY <2>1, <2>2
  <2> QED BY <2>1, <2>2, <2>3
<1>6. w = [NoWalk EXCEPT !.ask_index = 1, !.bid_index = 1,
                         !.ask_remaining = buys[A[1]],
                         !.bid_remaining = sells[B[1]],
                         !.cap = MaxNotional]
  BY <1>4 DEF Begun
<1>7. w \in Walk /\ Reached(buys, sells, A, B, w)
  BY <1>5, <1>6, StartReached
<1>8. TypeOK'
  BY <1>1, <1>2, <1>4, <1>7 DEF TypeOK
<1>9. WalkStands'
  <2>1. asks' = A /\ bids' = B /\ buy_side' = buys /\ sell_side' = sells /\ walk' = w
    BY <1>2, <1>3, <1>4
  <2> QED BY <1>5, <1>7, <2>1 DEF WalkStands
<1>10. OpportunitiesBounded'
  BY <1>2 DEF IInv, OpportunitiesBounded
<1> QED BY <1>8, <1>9, <1>10 DEF IInv

LEMMA FillsKeeps ==
    ASSUME IInv, Fills
    PROVE  IInv'
<1>1. TypeOK /\ WalkStands /\ books \in BookPairs /\ buy_exchange \in Exchanges /\ walk \in Walk
  BY DEF IInv, TypeOK
<1>2. /\ pc = "walk" /\ pc' = "walk" /\ WalksOn /\ walk' = Filled
      /\ books' = books /\ buy_exchange' = buy_exchange /\ opportunities' = opportunities
  BY DEF Fills
<1>3. buy_side' = buy_side /\ sell_side' = sell_side /\ asks' = asks /\ bids' = bids
  BY <1>2 DEF buy_side, sell_side, asks, bids
<1>4. PICK buys, sells, A, B, w, d :
          buys = buy_side /\ sells = sell_side /\ A = asks /\ B = bids /\ w = walk
          /\ d = Executable
  OBVIOUS
<1>5. /\ buys \in Side /\ sells \in Side /\ A \in Seq(Price) /\ B \in Seq(Price)
      /\ \A j \in 1..Len(A) : buys[A[j]] > 0
      /\ \A j \in 1..Len(B) : sells[B[j]] > 0
  BY <1>1, <1>4, CurrentSides
<1>6. /\ A # <<>> /\ B # <<>> /\ Reached(buys, sells, A, B, w) /\ w \in Walk
  BY <1>1, <1>2, <1>4 DEF WalkStands
<1>7. GoesOn(A, B, w) /\ d = Fillable(A, w)
  BY <1>2, <1>4 DEF WalksOn, GoesOn, Executable, Fillable
<1>8. PICK v : v = AfterFill(buys, sells, A, B, w, Fillable(A, w))
  OBVIOUS
<1>9. Filled = v
  BY <1>4, <1>7, <1>8 DEF Filled, AfterFill
<1>10. v \in Walk /\ Reached(buys, sells, A, B, v)
  BY <1>5, <1>6, <1>7, <1>8, IterationReached
<1>11. TypeOK'
  BY <1>1, <1>2, <1>9, <1>10 DEF TypeOK
<1>12. WalkStands'
  <2>1. asks' = A /\ bids' = B /\ buy_side' = buys /\ sell_side' = sells /\ walk' = v
    BY <1>2, <1>3, <1>4, <1>9
  <2> QED BY <1>6, <1>10, <2>1 DEF WalkStands
<1>13. OpportunitiesBounded'
  BY <1>2 DEF IInv, OpportunitiesBounded
<1> QED BY <1>11, <1>12, <1>13 DEF IInv

\* What the walk comes to is bounded by the best levels.
LEMMA ConcludedBounded ==
    ASSUME TypeOK, WalkStands, pc = "walk"
    PROVE  /\ Concluded \in Seq(AnOpportunity)
           /\ \A i \in DOMAIN Concluded : Bounded(books, Concluded[i])
<1>1. CASE ~Passes
  <2>1. Concluded = <<>>
    BY <1>1 DEF Concluded
  <2> QED BY <2>1
<1>2. CASE Passes
  <2>1. Concluded = <<Opportunity>>
    BY <1>2 DEF Concluded
  <2>2. PICK e, buys, sells, A, B, w, o :
            e = buy_exchange /\ buys = buy_side /\ sells = sell_side /\ A = asks /\ B = bids
            /\ w = walk /\ o = Opportunity
    OBVIOUS
  <2>3. /\ e \in Exchanges /\ Other(e) \in Exchanges /\ w \in Walk
        /\ w.base \in Nat /\ w.buy \in Nat /\ w.sell \in Nat /\ w.cap \in Nat
    BY <2>2 DEF TypeOK, Walk, Other, Exchanges
  <2>4. /\ buys \in Side /\ sells \in Side /\ A \in Seq(Price) /\ B \in Seq(Price)
        /\ \A j \in 1..Len(A) : buys[A[j]] > 0
        /\ \A j \in 1..Len(B) : sells[B[j]] > 0
        /\ \A i, j \in 1..Len(A) : i < j => A[i] < A[j]
        /\ \A i, j \in 1..Len(B) : i < j => B[i] > B[j]
        /\ A # <<>> => A[1] \in BestAsk(buys)
        /\ B # <<>> => B[1] \in BestBid(sells)
    BY <2>2, CurrentSides DEF TypeOK
  <2>5. A # <<>> /\ B # <<>> /\ Reached(buys, sells, A, B, w)
    BY <2>2 DEF WalkStands
  <2>6. w.cap = MaxNotional - w.buy
    BY <2>5 DEF Reached
  <2>7. w.buy >= w.base * A[1] /\ w.sell <= w.base * B[1] /\ w.sell >= w.buy
    BY <2>3, <2>4, <2>5, ReachedBounds
  <2>10. /\ w.base > 0 /\ w.buy > 0 /\ w.buy >= MinNotional
         /\ NetProfit(e, w.buy, w.sell) >= MinNetSpreadBps * w.buy
    BY <1>2, <2>2 DEF Passes
  <2>11. o = [buy_exchange |-> e, base |-> w.base, buy |-> w.buy, sell |-> w.sell,
              net |-> NetProfit(e, w.buy, w.sell)]
    BY <2>2 DEF Opportunity
  <2>12. NetProfit(e, w.buy, w.sell) \in Int
    <3>1. TakerFeeBps[e] \in Nat /\ TakerFeeBps[Other(e)] \in Nat
      BY <2>3, SettingsAssumption
    <3>2. \A b, s, f, g \in Nat : (s - b) * 10000 - (b * f + s * g) \in Int
      OBVIOUS
    <3> QED BY <2>3, <3>1, <3>2 DEF NetProfit, BpsMultiplier
  <2>13. o \in AnOpportunity
    BY <2>3, <2>11, <2>12 DEF AnOpportunity
  <2>14. w.buy \in MinNotional..MaxNotional
    BY <2>3, <2>6, <2>10, SettingsAssumption
  <2>15. buys = books[e].asks /\ sells = books[Other(e)].bids
    BY <2>2 DEF buy_side, sell_side
  <2>16. Bounded(books, o)
    BY <2>4, <2>5, <2>7, <2>10, <2>11, <2>14, <2>15 DEF Bounded
  <2>17. Concluded = <<o>>
    BY <2>1, <2>2
  <2> QED BY <2>13, <2>16, <2>17
<1> QED BY <1>1, <1>2

LEMMA NextIInv == IInv /\ [Next]_vars => IInv'
<1> SUFFICES ASSUME IInv, [Next]_vars PROVE IInv'
  OBVIOUS
<1>1. TypeOK /\ WalkStands /\ OpportunitiesBounded /\ opportunities \in Seq(AnOpportunity)
  BY DEF IInv, TypeOK, AnOpportunity
<1>2. CASE FindsNothing
  <2>1. NextDirection(opportunities) /\ UNCHANGED <<books, walk>>
    BY <1>2 DEF FindsNothing
  <2>2. \A i \in DOMAIN opportunities : Bounded(books, opportunities[i])
    BY <1>1 DEF OpportunitiesBounded
  <2> QED BY <1>1, <2>1, <2>2, NextDirectionKeeps
<1>3. CASE BeginsWalk
  BY <1>3, BeginsWalkKeeps
<1>4. CASE Fills
  BY <1>4, FillsKeeps
<1>5. CASE Concludes
  <2> DEFINE found == opportunities \o Concluded
  <2>1. NextDirection(found) /\ UNCHANGED <<books, walk>> /\ pc = "walk"
    BY <1>5 DEF Concludes
  <2>2. /\ Concluded \in Seq(AnOpportunity)
        /\ \A i \in DOMAIN Concluded : Bounded(books, Concluded[i])
    BY <1>1, <2>1, ConcludedBounded
  <2>3. found \in Seq(AnOpportunity)
    BY <1>1, <2>2
  <2>4. ASSUME NEW i \in DOMAIN found
        PROVE  Bounded(books, found[i])
    <3>1. found[i] \in {opportunities[j] : j \in DOMAIN opportunities}
                       \cup {Concluded[j] : j \in DOMAIN Concluded}
      <4>1. i \in 1..(Len(opportunities) + Len(Concluded))
        BY <1>1, <2>2
      <4>2. CASE i <= Len(opportunities)
        <5>1. found[i] = opportunities[i] /\ i \in DOMAIN opportunities
          BY <1>1, <2>2, <4>1, <4>2
        <5> QED BY <5>1
      <4>3. CASE i > Len(opportunities)
        <5>1. /\ found[i] = Concluded[i - Len(opportunities)]
              /\ i - Len(opportunities) \in DOMAIN Concluded
          BY <1>1, <2>2, <4>1, <4>3
        <5> QED BY <5>1
      <4> QED BY <1>1, <4>1, <4>2, <4>3
    <3> QED BY <1>1, <2>2, <3>1 DEF OpportunitiesBounded
  <2> HIDE DEF found
  <2> QED BY <1>1, <2>1, <2>3, <2>4, NextDirectionKeeps
<1>6. CASE Done \/ UNCHANGED vars
  <2>1. UNCHANGED vars
    BY <1>6 DEF Done
  <2> QED BY <1>1, <2>1
       DEF vars, IInv, TypeOK, WalkStands, OpportunitiesBounded, asks, bids, buy_side, sell_side
<1> QED BY <1>2, <1>3, <1>4, <1>5, <1>6 DEF Next

LEMMA Inductive == Spec => []IInv
<1>1. Init => IInv
  BY InitIInv
<1>2. IInv /\ [Next]_vars => IInv'
  BY NextIInv
<1> QED BY <1>1, <1>2, PTL DEF Spec

-----------------------------------------------------------------------------
(* The properties.                                                         *)

\* Every variable has the type its declaration gives it (evaluate_direction).
THEOREM TypeCorrect == Spec => []TypeOK
<1>1. IInv => TypeOK
  BY DEF IInv
<1> QED BY <1>1, Inductive, PTL

\* Both books hold what the walk has filled, at the prices it says, within the depth
\* limit and the notional cap (evaluate_direction).
THEOREM FillsAreExecutable == Spec => []WalkIsExecutable
<1>1. IInv => WalkIsExecutable
  <2> SUFFICES ASSUME IInv, pc = "walk"
               PROVE  /\ Trade(buy_side, asks, walk.base) = [left |-> 0, value |-> walk.buy]
                      /\ Trade(sell_side, bids, walk.base) = [left |-> 0, value |-> walk.sell]
                      /\ walk.cap = MaxNotional - walk.buy /\ walk.cap >= 0
    BY DEF WalkIsExecutable
  <2>1. Reached(buy_side, sell_side, asks, bids, walk)
    BY DEF IInv, WalkStands
  <2>2. walk.cap \in Nat
    BY DEF IInv, TypeOK, Walk
  <2> QED BY <2>1, <2>2 DEF Reached
<1> QED BY <1>1, Inductive, PTL

\* What is reported passed every filter of the configuration (scan_symbol).
THEOREM ReportedPassFilters == Spec => []FiltersHold
<1>1. IInv => FiltersHold
  BY DEF IInv, OpportunitiesBounded, Bounded, FiltersHold
<1> QED BY <1>1, Inductive, PTL

\* What the exchanges ask is above 0: the walk of the code ends at an ask that is not,
\* though buying more there would pay.
AsksPositive ==
    \A pair \in BookPairs : \A e \in Exchanges : \A p \in Quoted(pair[e].asks) : p > 0

\* Where the walk stops, no quantity the cap and the depth allow has a larger gross
\* profit (evaluate_direction).
THEOREM NothingPaysMore ==
    ASSUME AsksPositive
    PROVE  Spec => []WalkIsOptimal
<1>1. IInv => WalkIsOptimal
  <2> SUFFICES ASSUME IInv, pc = "walk", ~WalksOn, NEW q \in 0..MaxNotional,
                      Trade(buy_side, asks, q).left = 0, Trade(sell_side, bids, q).left = 0,
                      Trade(buy_side, asks, q).value <= MaxNotional
               PROVE  Trade(sell_side, bids, q).value - Trade(buy_side, asks, q).value
                          <= walk.sell - walk.buy
    BY DEF WalkIsOptimal
  <2>1. TypeOK /\ WalkStands /\ books \in BookPairs /\ buy_exchange \in Exchanges
        /\ walk \in Walk
    BY DEF IInv, TypeOK
  <2>2. PICK buys, sells, A, B, w :
            buys = buy_side /\ sells = sell_side /\ A = asks /\ B = bids /\ w = walk
    OBVIOUS
  <2>3. /\ buys \in Side /\ sells \in Side /\ A \in Seq(Price) /\ B \in Seq(Price)
        /\ \A j \in 1..Len(A) : A[j] \in Quoted(buys)
        /\ \A i, j \in 1..Len(A) : i < j => A[i] < A[j]
        /\ \A i, j \in 1..Len(B) : i < j => B[i] > B[j]
    BY <2>1, <2>2, CurrentSides
  <2>4. \A j \in 1..Len(A) : A[j] > 0
    <3>1. buys = books[buy_exchange].asks
      BY <2>2 DEF buy_side
    <3> QED BY <2>1, <2>3, <3>1 DEF AsksPositive
  <2>5. Reached(buys, sells, A, B, w) /\ w \in Walk
    BY <2>1, <2>2 DEF WalkStands
  <2>6. ASSUME w.ask_index <= Len(A), w.bid_index <= Len(B)
        PROVE  w.cap < A[w.ask_index] \/ B[w.bid_index] <= A[w.ask_index]
    <3> DEFINE a == A[w.ask_index]
               b == B[w.bid_index]
    <3>1. /\ w.ask_index \in 1..Len(A) /\ w.bid_index \in 1..Len(B)
          /\ w.ask_remaining > 0 /\ w.ask_remaining \in Nat
          /\ w.bid_remaining > 0 /\ w.bid_remaining \in Nat
      <4>1. /\ Sits(buys, A, w.base, w.ask_index, w.ask_remaining)
            /\ Sits(sells, B, w.base, w.bid_index, w.bid_remaining)
        BY <2>5 DEF Reached
      <4>2. w.ask_index \in 1..(Len(A) + 1) /\ w.bid_index \in 1..(Len(B) + 1)
        BY <4>1 DEF Sits
      <4>3. /\ w.ask_remaining > 0 /\ w.ask_remaining \in Nat
            /\ w.bid_remaining > 0 /\ w.bid_remaining \in Nat
        BY <2>6, <4>1 DEF Sits
      <4> QED BY <2>6, <4>2, <4>3
    <3>2. a \in Int /\ b \in Int /\ a > 0 /\ w.cap \in Nat
      <4>1. a \in Int /\ b \in Int
        BY <2>3, <3>1, LevelsAreNumbers
      <4>2. a > 0
        BY <2>4, <3>1
      <4>3. w.cap \in Nat
        BY <2>5 DEF Walk
      <4> QED BY <4>1, <4>2, <4>3
    <3>3. ~(/\ w.cap > 0 /\ a > 0 /\ b > 0 /\ b > a
            /\ SmallerOf(SmallerOf(w.ask_remaining, w.bid_remaining), w.cap \div a) > 0)
      BY <2>2, <2>6 DEF WalksOn, Executable
    <3> HIDE DEF a, b
    <3> SUFFICES ASSUME b > a PROVE w.cap < a
      BY <3>2 DEF a, b
    <3>4. CASE w.cap = 0
      BY <3>2, <3>4
    <3>5. CASE w.cap > 0
      <4>1. ~(SmallerOf(SmallerOf(w.ask_remaining, w.bid_remaining), w.cap \div a) > 0)
        BY <3>2, <3>3, <3>5
      <4>2. a \in Nat
        BY <3>2
      <4>3. w.cap \div a \in Nat /\ (w.cap \div a = 0 => w.cap < a)
        BY <3>2, <4>2, Quotient
      <4> DEFINE most == w.cap \div a
      <4> HIDE DEF most
      <4>4. most \in Nat
            /\ ~(SmallerOf(SmallerOf(w.ask_remaining, w.bid_remaining), most) > 0)
        BY <4>1, <4>3 DEF most
      <4>5. most = 0
        BY <3>1, <4>4 DEF SmallerOf
      <4> QED BY <4>3, <4>5 DEF most
    <3> QED BY <3>2, <3>4, <3>5
  <2>7. /\ q \in Nat /\ Trade(buys, A, q).left = 0 /\ Trade(sells, B, q).left = 0
        /\ Trade(buys, A, q).value <= MaxNotional
    BY <2>2, SettingsAssumption
  <2>8. Gross(buys, sells, A, B, q) <= w.sell - w.buy
    BY <2>3, <2>4, <2>5, <2>6, <2>7, NothingBetter
  <2> QED BY <2>2, <2>8 DEF Gross
<1> QED BY <1>1, Inductive, PTL

\* The loop of evaluate_direction ends, for all books and settings: there are finitely
\* many levels, and every iteration moves on to the next one of a side, or is the last.
THEOREM EachFillAdvances == Spec => WalkAdvances
<1>1. IInv /\ [Next]_vars =>
        [Fills => \/ walk'.ask_index + walk'.bid_index > walk.ask_index + walk.bid_index
                  \/ ~WalksOn']_vars
  <2> SUFFICES ASSUME IInv, Fills
               PROVE  \/ walk'.ask_index + walk'.bid_index > walk.ask_index + walk.bid_index
                      \/ ~WalksOn'
    OBVIOUS
  <2>1. TypeOK /\ WalkStands /\ books \in BookPairs /\ buy_exchange \in Exchanges /\ walk \in Walk
    BY DEF IInv, TypeOK
  <2>2. pc = "walk" /\ WalksOn /\ walk' = Filled /\ books' = books /\ buy_exchange' = buy_exchange
    BY DEF Fills
  <2>3. PICK buys, sells, A, B, w, v :
            /\ buys = buy_side /\ sells = sell_side /\ A = asks /\ B = bids /\ w = walk
            /\ v = AfterFill(buys, sells, A, B, w, Fillable(A, w))
    OBVIOUS
  <2>4. /\ buys \in Side /\ sells \in Side /\ A \in Seq(Price) /\ B \in Seq(Price)
        /\ \A j \in 1..Len(A) : buys[A[j]] > 0
        /\ \A j \in 1..Len(B) : sells[B[j]] > 0
    BY <2>1, <2>3, CurrentSides
  <2>5. w \in Walk /\ Reached(buys, sells, A, B, w) /\ GoesOn(A, B, w)
    BY <2>1, <2>2, <2>3 DEF WalkStands, WalksOn, GoesOn, Executable, Fillable
  <2>6. \/ v.ask_index + v.bid_index > w.ask_index + w.bid_index
        \/ ~GoesOn(A, B, v)
    BY <2>3, <2>4, <2>5, IterationReached
  <2>7. walk' = v /\ asks' = A /\ bids' = B
    BY <2>2, <2>3 DEF Filled, AfterFill, Executable, Fillable, asks, bids, buy_side, sell_side
  <2>8. WalksOn' => GoesOn(A, B, v)
    BY <2>7 DEF WalksOn, GoesOn, Executable, Fillable
  <2> QED BY <2>3, <2>6, <2>7, <2>8
<1> QED BY <1>1, Inductive, PTL DEF Spec, WalkAdvances

\* There is but one best price.
LEMMA OneBest ==
    ASSUME NEW side, NEW p, NEW q
    PROVE  /\ p \in BestAsk(side) /\ q \in BestAsk(side) => p = q
           /\ p \in BestBid(side) /\ q \in BestBid(side) => p = q
<1>1. \A x \in Quoted(side) : x \in Int
  BY PriceAssumption DEF Quoted
<1> QED BY <1>1 DEF BestAsk, BestBid

\* A trade that costs at least the best ask and brings at most the best bid has no more
\* of a net spread than they have.
LEMMA SpreadAtTheTop ==
    ASSUME NEW base \in Nat, NEW buy \in Nat, NEW sell \in Nat, base > 0, sell >= buy,
           NEW a \in Nat, NEW b \in Nat, buy >= base * a, sell <= base * b,
           NEW f \in Nat, NEW g \in Nat
    PROVE  /\ a <= b
           /\ ((sell - buy) * 10000 - (buy * f + sell * g)) * a
                  <= ((b - a) * 10000 - (f + g) * a) * buy
<1>1. a <= b
  <2> SUFFICES ASSUME b < a PROVE FALSE
    OBVIOUS
  <2>1. \A x, y, z \in Nat : x > 0 /\ y < z => x * y < x * z /\ x * y \in Nat /\ x * z \in Nat
    OBVIOUS
  <2>2. base * b < base * a /\ base * b \in Nat /\ base * a \in Nat
    BY <2>1
  <2> QED BY <2>2
<1> DEFINE X == sell * a
           Y == b * buy
           Z == buy * a
<1>2. X \in Nat /\ Y \in Nat /\ Z \in Nat
  OBVIOUS
<1>3. X <= Y
  <2>1. \A x, y, z \in Nat : x <= y => x * z <= y * z /\ z * x <= z * y
    OBVIOUS
  <2>2. base * b \in Nat /\ base * a \in Nat
    OBVIOUS
  <2>3. sell * a <= (base * b) * a /\ b * (base * a) <= b * buy
    BY <2>1, <2>2
  <2>4. (base * b) * a = b * (base * a)
    OBVIOUS
  <2>5. b * (base * a) \in Nat
    BY <2>2
  <2> DEFINE M == b * (base * a)
  <2>6. X <= M /\ M <= Y /\ M \in Nat
    BY <2>3, <2>4, <2>5
  <2> HIDE DEF M, X, Y
  <2> QED BY <1>2, <2>6
<1>4. Z <= X
  <2>1. \A x, y, z \in Nat : x <= y => x * z <= y * z
    OBVIOUS
  <2> QED BY <2>1
<1>5. ((sell - buy) * 10000 - (buy * f + sell * g)) * a = (X - Z) * 10000 - (Z * f + X * g)
  <2>1. \A s, t, x, y, z \in Int :
            ((s - t) * 10000 - (t * x + s * y)) * z
                = (s * z - t * z) * 10000 - ((t * z) * x + (s * z) * y)
    OBVIOUS
  <2> QED BY <2>1
<1>6. ((b - a) * 10000 - (f + g) * a) * buy = (Y - Z) * 10000 - (Z * f + Z * g)
  <2>1. \A s, t, x, y, z \in Int :
            ((s - t) * 10000 - (x + y) * t) * z
                = (s * z - z * t) * 10000 - ((z * t) * x + (z * t) * y)
    OBVIOUS
  <2> QED BY <2>1
<1> HIDE DEF X, Y, Z
<1>7. (X - Z) * 10000 - (Z * f + X * g) <= (Y - Z) * 10000 - (Z * f + Z * g)
  <2> DEFINE zf == Z * f
             xg == X * g
             zg == Z * g
  <2>1. zf \in Nat /\ xg \in Nat /\ zg \in Nat /\ zg <= xg
    <3>1. \A x, y, z \in Nat : x * z \in Nat /\ (x <= y => x * z <= y * z)
      OBVIOUS
    <3> QED BY <1>2, <1>4, <3>1
  <2> HIDE DEF zf, xg, zg
  <2>2. (X - Z) * 10000 - (zf + xg) <= (Y - Z) * 10000 - (zf + zg)
    BY <1>2, <1>3, <2>1
  <2> QED BY <2>2 DEF zf, xg, zg
<1> QED BY <1>1, <1>5, <1>6, <1>7

\* An opportunity is one in the direction of the top-of-book spread, with no more of a
\* net spread (compute_top_of_book_spread beside scan_symbol).
THEOREM OpportunitiesWithinTop == Spec => []TopSpreadBounds
<1>1. IInv => TopSpreadBounds
  <2> DEFINE first == books["binance"]
             second == books["mexc"]
             top == TopSpread(first, second)
             fees == TakerFeeBps["binance"] + TakerFeeBps["mexc"]
  <2> SUFFICES ASSUME IInv, HasTopSpread(first, second), NEW i \in DOMAIN opportunities
               PROVE  /\ opportunities[i].buy_exchange = top.buy_exchange
                      /\ opportunities[i].net * top.ask
                            <= ((top.bid - top.ask) * BpsMultiplier - fees * top.ask)
                                   * opportunities[i].buy
    BY DEF TopSpreadBounds
  <2>1. PICK o : o = opportunities[i]
    OBVIOUS
  <2>2. /\ o \in AnOpportunity /\ Bounded(books, o) /\ books \in BookPairs
    <3>1. opportunities \in Seq(AnOpportunity) /\ books \in BookPairs
      BY DEF IInv, TypeOK, AnOpportunity
    <3>2. opportunities[i] \in AnOpportunity
      BY <3>1
    <3>3. Bounded(books, opportunities[i])
      BY DEF IInv, OpportunitiesBounded
    <3> QED BY <2>1, <3>1, <3>2, <3>3
  <2>3. PICK e, f : e = o.buy_exchange /\ f = Other(e)
    OBVIOUS
  <2>4. /\ e \in Exchanges /\ f \in Exchanges
        /\ (e = "binance" /\ f = "mexc") \/ (e = "mexc" /\ f = "binance")
        /\ o.base \in Nat /\ o.buy \in Nat /\ o.sell \in Nat
    BY <2>2, <2>3 DEF AnOpportunity, Exchanges, Other
  <2>5. /\ o.net = NetProfit(e, o.buy, o.sell)
        /\ o.base > 0 /\ o.buy > 0 /\ o.sell >= o.buy
    BY <2>2, <2>3 DEF Bounded
  <2>6. PICK a \in BestAsk(books[e].asks), b \in BestBid(books[f].bids) :
            o.buy >= o.base * a /\ o.sell <= o.base * b
    BY <2>2, <2>3 DEF Bounded
  \* The best prices of the other direction.
  <2>7. \A x \in Exchanges :
            /\ BestBid(books[x].bids) # {} /\ BestAsk(books[x].asks) # {}
            /\ \A p \in BestAsk(books[x].asks) : p > 0
    BY DEF HasTopSpread, Exchanges
  <2>8. PICK c \in BestAsk(books[f].asks), d \in BestBid(books[e].bids) : TRUE
    BY <2>4, <2>7
  <2>9. a \in Int /\ b \in Int /\ c \in Int /\ d \in Int
    <3>1. \A side : \A p \in BestAsk(side) \cup BestBid(side) : p \in Quoted(side) /\ p \in Price
      BY DEF BestAsk, BestBid, Quoted
    <3>2. a \in Price /\ b \in Price /\ c \in Price /\ d \in Price
      BY <3>1
    <3> QED BY <3>2, PriceAssumption
  <2>10. a > 0 /\ c > 0 /\ d < a /\ b < c
    <3>1. a > 0 /\ c > 0
      BY <2>4, <2>7
    <3>2. /\ a \in Quoted(books[e].asks) /\ d \in Quoted(books[e].bids)
          /\ c \in Quoted(books[f].asks) /\ b \in Quoted(books[f].bids)
      BY DEF BestAsk, BestBid
    <3> QED BY <2>2, <2>4, <3>1, <3>2, BooksNotCrossed
  <2>11. b \in Nat /\ a \in Nat
    <3>1. ASSUME b < 0 PROVE FALSE
      <4>1. \A x \in Nat, y \in Int : y < 0 /\ x > 0 => x * y < 0 /\ x * y \in Int
        OBVIOUS
      <4>2. o.base * b < 0 /\ o.base * b \in Int
        BY <2>4, <2>5, <2>9, <3>1, <4>1
      <4> QED BY <2>4, <2>6, <4>2
    <3> QED BY <2>9, <2>10, <3>1
  <2>12. /\ TakerFeeBps[e] \in Nat /\ TakerFeeBps[f] \in Nat
         /\ fees = TakerFeeBps[e] + TakerFeeBps[f]
    <3>1. TakerFeeBps["binance"] \in Nat /\ TakerFeeBps["mexc"] \in Nat
      BY SettingsAssumption DEF Exchanges
    <3> QED BY <2>4, <3>1
  <2>13. /\ a <= b
         /\ ((o.sell - o.buy) * 10000 - (o.buy * TakerFeeBps[e] + o.sell * TakerFeeBps[f])) * a
                <= ((b - a) * 10000 - (TakerFeeBps[e] + TakerFeeBps[f]) * a) * o.buy
    BY <2>4, <2>5, <2>6, <2>11, <2>12, SpreadAtTheTop
  <2>14. o.net * a <= ((b - a) * BpsMultiplier - fees * a) * o.buy
    BY <2>3, <2>5, <2>12, <2>13 DEF NetProfit, BpsMultiplier
  <2>15. top = [buy_exchange |-> e, ask |-> a, bid |-> b]
    <3> DEFINE bid(book) == CHOOSE p \in BestBid(book.bids) : TRUE
               ask(book) == CHOOSE p \in BestAsk(book.asks) : TRUE
    <3>1. /\ ask(books[e]) = a /\ bid(books[f]) = b /\ ask(books[f]) = c /\ bid(books[e]) = d
      <4>1. /\ ask(books[e]) \in BestAsk(books[e].asks) /\ bid(books[f]) \in BestBid(books[f].bids)
            /\ ask(books[f]) \in BestAsk(books[f].asks) /\ bid(books[e]) \in BestBid(books[e].bids)
        BY <2>6, <2>8
      <4> QED BY <4>1, OneBest
    <3>2. top = IF (bid(first) - ask(second)) * ask(first) > (bid(second) - ask(first)) * ask(second)
                THEN [buy_exchange |-> "mexc", ask |-> ask(second), bid |-> bid(first)]
                ELSE [buy_exchange |-> "binance", ask |-> ask(first), bid |-> bid(second)]
      BY DEF TopSpread
    <3> HIDE DEF ask, bid, top
    <3>3. (d - c) * a < 0 /\ (b - a) * c >= 0 /\ (d - c) * a \in Int /\ (b - a) * c \in Int
      <4>1. \A x, y \in Int : y > 0 => /\ x * y \in Int
                                       /\ x < 0 => x * y < 0
                                       /\ x >= 0 => x * y >= 0
        OBVIOUS
      <4>2. d - c \in Int /\ b - a \in Int /\ d - c < 0 /\ b - a >= 0
        BY <2>9, <2>10, <2>13
      <4> QED BY <2>9, <2>10, <4>1, <4>2
    <3>4. CASE e = "binance" /\ f = "mexc"
      <4>1. /\ ask(first) = a /\ bid(second) = b /\ ask(second) = c /\ bid(first) = d
        BY <3>1, <3>4
      <4>2. ~((d - c) * a > (b - a) * c)
        BY <3>3
      <4> QED BY <3>2, <3>4, <4>1, <4>2
    <3>5. CASE e = "mexc" /\ f = "binance"
      <4>1. /\ ask(second) = a /\ bid(first) = b /\ ask(first) = c /\ bid(second) = d
        BY <3>1, <3>5
      <4>2. (b - a) * c > (d - c) * a
        BY <3>3
      <4> QED BY <3>2, <3>5, <4>1, <4>2
    <3> QED BY <2>4, <3>4, <3>5
  <2> HIDE DEF top, fees
  <2> QED BY <2>1, <2>3, <2>14, <2>15
<1> QED BY <1>1, Inductive, PTL
=============================================================================
