-------------------------- MODULE LocalBook_proofs --------------------------
(***************************************************************************)
(* Lemmas about the operators of OrderBook, ExchangeFeed and LocalBook:    *)
(* what a depth update, a snapshot and the replay of a buffer do to a      *)
(* book that agrees with the exchange.                                     *)
(***************************************************************************)
EXTENDS LocalBook, FiniteSetTheorems, WellFoundedInduction, TLAPS

-----------------------------------------------------------------------------
(* Induction over the natural numbers for sets, from the well-foundedness  *)
(* of < on Nat, as no rule with a predicate for parameter can be used.     *)

\* A set of natural numbers that is not empty has a least element.
LEMMA LeastElement ==
    ASSUME NEW T, T \subseteq Nat, T # {}
    PROVE  \E x \in T : \A y \in T : x <= y
<1>1. IsWellFoundedOn(OpToRel(<, Nat), Nat)
  BY NatLessThanWellFounded
<1>2. \E x \in T : \A y \in T : ~(<<y, x>> \in OpToRel(<, Nat))
  BY <1>1, WFMin
<1>3. PICK x \in T : \A y \in T : ~(<<y, x>> \in OpToRel(<, Nat))
  BY <1>2
<1>4. \A y \in T : ~(y < x)
  BY <1>3 DEF OpToRel
<1> QED BY <1>4

\* A set that holds 0, and n + 1 with every n, holds every natural number.
LEMMA SetInduction ==
    ASSUME NEW S, 0 \in S, \A n \in Nat : n \in S => n + 1 \in S
    PROVE  Nat \subseteq S
<1> SUFFICES ASSUME Nat \ S # {} PROVE FALSE
  OBVIOUS
<1>1. PICK x \in Nat \ S : \A y \in Nat \ S : x <= y
  BY LeastElement
<1>2. x # 0 /\ x - 1 \in Nat /\ x - 1 \in S
  BY <1>1
<1> QED BY <1>1, <1>2

\* A function that does not change from any v - 1 to v, for v in first..final, has
\* one value on all of first-1..final.
LEMMA ConstantOnInterval ==
    ASSUME NEW h, NEW first \in Nat \ {0}, NEW final \in Nat,
           \A v \in first..final : h[v] = h[v - 1]
    PROVE  \A l \in (first - 1)..final : h[l] = h[final]
<1> DEFINE Good == {k \in Nat : k <= final - first + 1 => h[final - k] = h[final]}
<1>1. 0 \in Good
  OBVIOUS
<1>2. \A k \in Nat : k \in Good => k + 1 \in Good
  <2> SUFFICES ASSUME NEW k \in Nat, k \in Good, k + 1 <= final - first + 1
               PROVE  h[final - (k + 1)] = h[final]
    OBVIOUS
  <2>1. final - k \in first..final /\ (final - k) - 1 = final - (k + 1)
    OBVIOUS
  <2> QED BY <2>1
<1>3. Nat \subseteq Good
  BY <1>1, <1>2, SetInduction
<1> SUFFICES ASSUME NEW l \in (first - 1)..final PROVE h[l] = h[final]
  OBVIOUS
<1>4. final - l \in Nat /\ final - l <= final - first + 1 /\ final - (final - l) = l
  OBVIOUS
<1>5. final - l \in Good
  BY <1>3, <1>4
<1> QED BY <1>4, <1>5

-----------------------------------------------------------------------------
(* Updates and snapshots of the exchange.                                  *)

LEMMA UpdateFields ==
    ASSUME NEW u \in Update
    PROVE  /\ u.feed \in Feeds
           /\ u.first_update_id \in 1..MaxId
           /\ u.final_update_id \in 1..MaxId
           /\ u.first_update_id <= u.final_update_id
           /\ u.bids = [p \in TouchedBids(u.first_update_id, u.final_update_id)
                           |-> Truth[u.final_update_id].bids[p]]
           /\ u.asks = [p \in TouchedAsks(u.first_update_id, u.final_update_id)
                           |-> Truth[u.final_update_id].asks[p]]
<1>1. PICK f \in Feeds, r \in UpdateRange : u = DepthUpdate(f, r[1], r[2])
  BY DEF Update
<1>2. r[1] \in 1..MaxId /\ r[2] \in 1..MaxId /\ r[1] <= r[2]
  BY DEF UpdateRange
<1> QED BY <1>1, <1>2 DEF DepthUpdate

LEMMA UpdateIds ==
    ASSUME NEW u \in Update
    PROVE  /\ u.first_update_id \in 1..MaxId /\ u.first_update_id \in Nat
           /\ u.final_update_id \in 1..MaxId /\ u.final_update_id \in Nat
           /\ u.final_update_id \in 0..MaxId
<1>1. u.first_update_id \in 1..MaxId /\ u.final_update_id \in 1..MaxId
  BY UpdateFields
<1> QED BY <1>1, MaxIdAssumption

LEMMA TruthFields ==
    ASSUME NEW v \in 0..MaxId
    PROVE  Truth[v].bids \in Side /\ Truth[v].asks \in Side
BY TruthAssumption

\* A level that the changes first..final did not touch has one quantity from
\* before the first to the last.
LEMMA UntouchedBids ==
    ASSUME NEW first \in 1..MaxId, NEW final \in 1..MaxId,
           NEW p \in Price, p \notin TouchedBids(first, final),
           NEW l \in (first - 1)..final
    PROVE  Truth[l].bids[p] = Truth[final].bids[p]
<1> DEFINE h == [v \in 0..MaxId |-> Truth[v].bids[p]]
<1>1. \A v \in first..final : h[v] = h[v - 1]
  BY MaxIdAssumption DEF TouchedBids
<1>2. first \in Nat \ {0} /\ final \in Nat /\ l \in 0..MaxId /\ final \in 0..MaxId
  BY MaxIdAssumption
<1> HIDE DEF h
<1>3. h[l] = h[final]
  BY <1>1, <1>2, ConstantOnInterval
<1> QED BY <1>2, <1>3 DEF h

LEMMA UntouchedAsks ==
    ASSUME NEW first \in 1..MaxId, NEW final \in 1..MaxId,
           NEW p \in Price, p \notin TouchedAsks(first, final),
           NEW l \in (first - 1)..final
    PROVE  Truth[l].asks[p] = Truth[final].asks[p]
<1> DEFINE h == [v \in 0..MaxId |-> Truth[v].asks[p]]
<1>1. \A v \in first..final : h[v] = h[v - 1]
  BY MaxIdAssumption DEF TouchedAsks
<1>2. first \in Nat \ {0} /\ final \in Nat /\ l \in 0..MaxId /\ final \in 0..MaxId
  BY MaxIdAssumption
<1> HIDE DEF h
<1>3. h[l] = h[final]
  BY <1>1, <1>2, ConstantOnInterval
<1> QED BY <1>2, <1>3 DEF h

-----------------------------------------------------------------------------
(* The book.                                                               *)

LEMMA EmptyBookType == EmptyBook \in Book
BY DEF EmptyBook, Book, EmptySide, Side, Qty

LEMMA ApplyLevelsType ==
    ASSUME NEW side \in Side, NEW levels,
           \A p \in Price \cap DOMAIN levels : levels[p] \in Nat
    PROVE  ApplyLevels(side, levels) \in Side
BY DEF ApplyLevels, Side, Qty

LEMMA UpdateLevels ==
    ASSUME NEW u \in Update
    PROVE  /\ \A p \in Price \cap DOMAIN u.bids : u.bids[p] \in Nat
           /\ \A p \in Price \cap DOMAIN u.asks : u.asks[p] \in Nat
<1>1. u.final_update_id \in 0..MaxId
  BY UpdateIds
<1>2. Truth[u.final_update_id].bids \in Side /\ Truth[u.final_update_id].asks \in Side
  BY <1>1, TruthFields
<1> QED BY <1>2, UpdateFields DEF Side, Qty

LEMMA BookApplyUpdateType ==
    ASSUME NEW book \in Book, NEW u \in Update
    PROVE  /\ BookApplyUpdate(book, u) \in Book
           /\ BookApplyUpdate(book, u).initialized = book.initialized
           /\ ApplyUpdateResult(book, u) \in
                  {"Applied", "IgnoredStale", "GapDetected", "NotInitialized"}
           /\ ApplyUpdateResult(book, u) = "NotInitialized" <=> ~book.initialized
           /\ ApplyUpdateResult(book, u) = "Applied" =>
                  /\ BookApplyUpdate(book, u).last_update_id > book.last_update_id
                  /\ BookApplyUpdate(book, u).last_update_id = u.final_update_id
           /\ ApplyUpdateResult(book, u) = "IgnoredStale" =>
                  book.last_update_id >= u.final_update_id
<1>1. ApplyLevels(book.bids, u.bids) \in Side /\ ApplyLevels(book.asks, u.asks) \in Side
  <2>1. book.bids \in Side /\ book.asks \in Side
    BY DEF Book
  <2> QED BY <2>1, ApplyLevelsType, UpdateLevels
<1>2. u.final_update_id \in Nat /\ u.first_update_id \in Nat
  BY UpdateIds
<1>3. book.last_update_id \in Nat /\ book.initialized \in BOOLEAN
  BY DEF Book
<1>4. /\ ApplyUpdateResult(book, u) \in
             {"Applied", "IgnoredStale", "GapDetected", "NotInitialized"}
      /\ ApplyUpdateResult(book, u) = "NotInitialized" <=> ~book.initialized
      /\ ApplyUpdateResult(book, u) = "Applied" =>
             u.final_update_id > book.last_update_id
      /\ ApplyUpdateResult(book, u) = "IgnoredStale" =>
             book.last_update_id >= u.final_update_id
  BY <1>2, <1>3 DEF ApplyUpdateResult
<1> HIDE DEF Book
<1>5. CASE ApplyUpdateResult(book, u) # "Applied"
  BY <1>4, <1>5 DEF BookApplyUpdate
<1>6. CASE ApplyUpdateResult(book, u) = "Applied"
  BY <1>1, <1>2, <1>4, <1>6 DEF BookApplyUpdate, Book
<1> QED BY <1>5, <1>6

\* One side: the levels of an update that covers the changes from at most last + 1
\* to final take a side that agrees at last to one that agrees at final.
LEMMA BidsMatch ==
    ASSUME NEW side \in Side, NEW covered, NEW last \in 0..MaxId,
           NEW u \in Update, u.first_update_id <= last + 1, u.final_update_id > last,
           SideMatches(side, Truth[last].bids, covered)
    PROVE  SideMatches(ApplyLevels(side, u.bids), Truth[u.final_update_id].bids, covered)
<1> DEFINE first == u.first_update_id
           final == u.final_update_id
<1> SUFFICES ASSUME NEW p \in Price
             PROVE  \/ ApplyLevels(side, u.bids)[p] = Truth[final].bids[p]
                    \/ ApplyLevels(side, u.bids)[p] = 0 /\ p \notin covered
  BY DEF SideMatches
<1>1. first \in 1..MaxId /\ final \in 1..MaxId /\ final \in 0..MaxId
  BY UpdateIds
<1>2. u.bids = [q \in TouchedBids(first, final) |-> Truth[final].bids[q]]
  BY UpdateFields
<1>3. CASE p \in TouchedBids(first, final)
  <2>1. Truth[final].bids[p] \in Nat
    BY <1>1, TruthFields DEF Side, Qty
  <2>2. p \in DOMAIN u.bids /\ u.bids[p] = Truth[final].bids[p]
    BY <1>2, <1>3
  <2> QED BY <2>1, <2>2 DEF ApplyLevels
<1>4. CASE p \notin TouchedBids(first, final)
  <2>1. last \in (first - 1)..final
    BY <1>1, MaxIdAssumption
  <2>2. Truth[last].bids[p] = Truth[final].bids[p]
    BY <1>1, <1>4, <2>1, UntouchedBids
  <2>3. p \notin DOMAIN u.bids
    BY <1>2, <1>4
  <2>4. ApplyLevels(side, u.bids)[p] = side[p]
    BY <2>3 DEF ApplyLevels
  <2> QED BY <2>2, <2>4 DEF SideMatches
<1> QED BY <1>3, <1>4

LEMMA AsksMatch ==
    ASSUME NEW side \in Side, NEW covered, NEW last \in 0..MaxId,
           NEW u \in Update, u.first_update_id <= last + 1, u.final_update_id > last,
           SideMatches(side, Truth[last].asks, covered)
    PROVE  SideMatches(ApplyLevels(side, u.asks), Truth[u.final_update_id].asks, covered)
<1> DEFINE first == u.first_update_id
           final == u.final_update_id
<1> SUFFICES ASSUME NEW p \in Price
             PROVE  \/ ApplyLevels(side, u.asks)[p] = Truth[final].asks[p]
                    \/ ApplyLevels(side, u.asks)[p] = 0 /\ p \notin covered
  BY DEF SideMatches
<1>1. first \in 1..MaxId /\ final \in 1..MaxId /\ final \in 0..MaxId
  BY UpdateIds
<1>2. u.asks = [q \in TouchedAsks(first, final) |-> Truth[final].asks[q]]
  BY UpdateFields
<1>3. CASE p \in TouchedAsks(first, final)
  <2>1. Truth[final].asks[p] \in Nat
    BY <1>1, TruthFields DEF Side, Qty
  <2>2. p \in DOMAIN u.asks /\ u.asks[p] = Truth[final].asks[p]
    BY <1>2, <1>3
  <2> QED BY <2>1, <2>2 DEF ApplyLevels
<1>4. CASE p \notin TouchedAsks(first, final)
  <2>1. last \in (first - 1)..final
    BY <1>1, MaxIdAssumption
  <2>2. Truth[last].asks[p] = Truth[final].asks[p]
    BY <1>1, <1>4, <2>1, UntouchedAsks
  <2>3. p \notin DOMAIN u.asks
    BY <1>2, <1>4
  <2>4. ApplyLevels(side, u.asks)[p] = side[p]
    BY <2>3 DEF ApplyLevels
  <2> QED BY <2>2, <2>4 DEF SideMatches
<1> QED BY <1>3, <1>4

\* apply_update keeps a book in agreement with the exchange, whichever update comes.
LEMMA UpdateKeepsMatch ==
    ASSUME NEW book \in Book, NEW v, NEW u \in Update, BookMatches(book, v)
    PROVE  BookMatches(BookApplyUpdate(book, u), v)
<1>1. CASE ApplyUpdateResult(book, u) # "Applied"
  BY <1>1 DEF BookApplyUpdate
<1>2. CASE ApplyUpdateResult(book, u) = "Applied"
  <2> DEFINE last == book.last_update_id
             final == u.final_update_id
             next == BookApplyUpdate(book, u)
  <2>1. last \in 0..MaxId /\ book.bids \in Side /\ book.asks \in Side
    BY DEF BookMatches, Book
  <2>2. final \in 0..MaxId /\ final \in Nat /\ u.first_update_id \in Nat
    BY UpdateIds
  <2>3. u.first_update_id <= last + 1 /\ final > last
    BY <1>2, <2>1, <2>2 DEF ApplyUpdateResult
  <2>4. /\ SideMatches(ApplyLevels(book.bids, u.bids), Truth[final].bids, CoveredBids(v))
        /\ SideMatches(ApplyLevels(book.asks, u.asks), Truth[final].asks, CoveredAsks(v))
    BY <2>1, <2>3, BidsMatch, AsksMatch DEF BookMatches
  <2>5. /\ next.bids = ApplyLevels(book.bids, u.bids)
        /\ next.asks = ApplyLevels(book.asks, u.asks)
        /\ next.last_update_id = final
    BY <1>2 DEF BookApplyUpdate, Book
  <2> QED BY <2>2, <2>4, <2>5 DEF BookMatches
<1> QED BY <1>1, <1>2

\* A snapshot gives an initialized book that agrees with the exchange.
LEMMA SnapshotMatches ==
    ASSUME NEW f, NEW v \in 0..MaxId
    PROVE  /\ BookApplySnapshot(DepthSnapshot(f, v)) \in Book
           /\ BookApplySnapshot(DepthSnapshot(f, v)).initialized
           /\ BookMatches(BookApplySnapshot(DepthSnapshot(f, v)), v)
<1> DEFINE s == DepthSnapshot(f, v)
           book == BookApplySnapshot(s)
<1>1. /\ s.last_update_id = v
      /\ s.bids = [p \in CoveredBids(v) \cap Quoted(Truth[v].bids) |-> Truth[v].bids[p]]
      /\ s.asks = [p \in CoveredAsks(v) \cap Quoted(Truth[v].asks) |-> Truth[v].asks[p]]
  BY DEF DepthSnapshot
<1>2. \A p \in Price : Truth[v].bids[p] \in Nat /\ Truth[v].asks[p] \in Nat
  BY TruthFields DEF Side, Qty
<1>3. SideMatches(ApplyLevels(EmptySide, s.bids), Truth[v].bids, CoveredBids(v))
  <2> SUFFICES ASSUME NEW p \in Price
               PROVE  \/ ApplyLevels(EmptySide, s.bids)[p] = Truth[v].bids[p]
                      \/ ApplyLevels(EmptySide, s.bids)[p] = 0 /\ p \notin CoveredBids(v)
    BY DEF SideMatches
  <2>1. CASE p \in CoveredBids(v) \cap Quoted(Truth[v].bids)
    <3>1. p \in DOMAIN s.bids /\ s.bids[p] = Truth[v].bids[p]
      BY <1>1, <2>1
    <3> QED BY <1>2, <3>1 DEF ApplyLevels
  <2>2. CASE p \notin CoveredBids(v) \cap Quoted(Truth[v].bids)
    <3>1. p \notin DOMAIN s.bids
      BY <1>1, <2>2
    <3>2. ApplyLevels(EmptySide, s.bids)[p] = 0
      BY <3>1 DEF ApplyLevels, EmptySide
    <3> QED BY <1>2, <2>2, <3>2 DEF Quoted
  <2> QED BY <2>1, <2>2
<1>4. SideMatches(ApplyLevels(EmptySide, s.asks), Truth[v].asks, CoveredAsks(v))
  <2> SUFFICES ASSUME NEW p \in Price
               PROVE  \/ ApplyLevels(EmptySide, s.asks)[p] = Truth[v].asks[p]
                      \/ ApplyLevels(EmptySide, s.asks)[p] = 0 /\ p \notin CoveredAsks(v)
    BY DEF SideMatches
  <2>1. CASE p \in CoveredAsks(v) \cap Quoted(Truth[v].asks)
    <3>1. p \in DOMAIN s.asks /\ s.asks[p] = Truth[v].asks[p]
      BY <1>1, <2>1
    <3> QED BY <1>2, <3>1 DEF ApplyLevels
  <2>2. CASE p \notin CoveredAsks(v) \cap Quoted(Truth[v].asks)
    <3>1. p \notin DOMAIN s.asks
      BY <1>1, <2>2
    <3>2. ApplyLevels(EmptySide, s.asks)[p] = 0
      BY <3>1 DEF ApplyLevels, EmptySide
    <3> QED BY <1>2, <2>2, <3>2 DEF Quoted
  <2> QED BY <2>1, <2>2
<1>5. ApplyLevels(EmptySide, s.bids) \in Side /\ ApplyLevels(EmptySide, s.asks) \in Side
  <2>1. EmptySide \in Side
    BY DEF EmptySide, Side, Qty
  <2> QED BY <2>1, <1>1, <1>2, ApplyLevelsType
<1>6. /\ book.bids = ApplyLevels(EmptySide, s.bids)
      /\ book.asks = ApplyLevels(EmptySide, s.asks)
      /\ book.last_update_id = v
      /\ book.initialized
  BY <1>1 DEF BookApplySnapshot
<1>7. book \in Book
  BY <1>1, <1>5, MaxIdAssumption DEF BookApplySnapshot, Book
<1> HIDE DEF book
<1>8. BookMatches(book, v)
  BY <1>3, <1>4, <1>6 DEF BookMatches
<1> QED BY <1>6, <1>7, <1>8 DEF book

\* A snapshot that speaks for a bid speaks for every better one, and likewise for
\* the asks.
LEMMA CoveredBidsUpward ==
    ASSUME NEW v, NEW p \in CoveredBids(v), NEW b \in Price, p <= b
    PROVE  b \in CoveredBids(v)
<1> DEFINE Better(x) == {q \in Quoted(Truth[v].bids) : q > x}
<1>1. IsFiniteSet(Better(p))
  BY FinitePrices, FS_Subset DEF Quoted
<1>2. Better(b) \subseteq Better(p)
  <2>1. p \in Int /\ b \in Int /\ \A q \in Quoted(Truth[v].bids) : q \in Int
    BY PriceAssumption DEF CoveredBids, Quoted
  <2>2. \A q \in Quoted(Truth[v].bids) : q > b => q > p
    BY <2>1
  <2> QED BY <2>2
<1>3. /\ Cardinality(Better(b)) <= Cardinality(Better(p))
      /\ Cardinality(Better(b)) \in Nat /\ Cardinality(Better(p)) \in Nat
  <2>1. IsFiniteSet(Better(b)) /\ Cardinality(Better(b)) <= Cardinality(Better(p))
    BY <1>1, <1>2, FS_Subset
  <2> QED BY <1>1, <2>1, FS_CardinalityType
<1>4. Cardinality(Better(p)) < SnapshotLimit
  BY DEF CoveredBids
<1> HIDE DEF Better
<1>5. Cardinality(Better(b)) < SnapshotLimit
  BY <1>3, <1>4, SnapshotLimitAssumption
<1> QED BY <1>5 DEF CoveredBids, Better

LEMMA CoveredAsksDownward ==
    ASSUME NEW v, NEW p \in CoveredAsks(v), NEW a \in Price, a <= p
    PROVE  a \in CoveredAsks(v)
<1> DEFINE Better(x) == {q \in Quoted(Truth[v].asks) : q < x}
<1>1. IsFiniteSet(Better(p))
  BY FinitePrices, FS_Subset DEF Quoted
<1>2. Better(a) \subseteq Better(p)
  <2>1. p \in Int /\ a \in Int /\ \A q \in Quoted(Truth[v].asks) : q \in Int
    BY PriceAssumption DEF CoveredAsks, Quoted
  <2>2. \A q \in Quoted(Truth[v].asks) : q < a => q < p
    BY <2>1
  <2> QED BY <2>2
<1>3. /\ Cardinality(Better(a)) <= Cardinality(Better(p))
      /\ Cardinality(Better(a)) \in Nat /\ Cardinality(Better(p)) \in Nat
  <2>1. IsFiniteSet(Better(a)) /\ Cardinality(Better(a)) <= Cardinality(Better(p))
    BY <1>1, <1>2, FS_Subset
  <2> QED BY <1>1, <2>1, FS_CardinalityType
<1>4. Cardinality(Better(p)) < SnapshotLimit
  BY DEF CoveredAsks
<1> HIDE DEF Better
<1>5. Cardinality(Better(a)) < SnapshotLimit
  BY <1>3, <1>4, SnapshotLimitAssumption
<1> QED BY <1>5 DEF CoveredAsks, Better

-----------------------------------------------------------------------------
(* The manager.                                                            *)

LEMMA NewManagerType == NewManager \in Manager
BY EmptyBookType DEF NewManager, Manager, Status, Stats, NoStats

LEMMA UnstatedType ==
    ASSUME NEW m \in Manager
    PROVE  /\ Unstated(m) \in Manager
           /\ Unstated(m).book = m.book
           /\ Unstated(m).buffer = m.buffer
           /\ Unstated(m).status = m.status
BY DEF Unstated, Manager, Stats, NoStats

LEMMA NewManagerFields ==
    /\ NewManager \in Manager
    /\ NewManager.status = "WaitingForSnapshot"
    /\ NewManager.buffer = <<>>
    /\ ~NewManager.book.initialized
BY NewManagerType DEF NewManager, EmptyBook

LEMMA ClearBufferType ==
    ASSUME NEW m \in Manager
    PROVE  /\ ClearBuffer(m) \in Manager
           /\ ClearBuffer(m).book = m.book
           /\ ClearBuffer(m).buffer = <<>>
           /\ ClearBuffer(m).status = m.status
<1> DEFINE stats == [m.stats EXCEPT !.buffered_updates = 0]
<1>1. stats \in Stats
  BY DEF Manager, Stats
<1>2. ClearBuffer(m) = [m EXCEPT !.buffer = <<>>, !.stats = stats]
  BY DEF ClearBuffer, Manager
<1> HIDE DEF stats
<1>3. <<>> \in Seq(Update)
  OBVIOUS
<1> QED BY <1>1, <1>2, <1>3 DEF Manager

\* The while loop that drops stale updates has one place to stop.
LEMMA StalePrefixDef ==
    ASSUME NEW buffer \in Seq(Update), NEW id \in Nat
    PROVE  LET n == StalePrefix(buffer, id)
           IN  /\ n \in 0..Len(buffer)
               /\ \A i \in 1..n : buffer[i].final_update_id <= id
               /\ n < Len(buffer) => buffer[n + 1].final_update_id > id
<1> DEFINE Stops(n) == n < Len(buffer) => buffer[n + 1].final_update_id > id
           T == {n \in 0..Len(buffer) : Stops(n)}
<1>1. T \subseteq Nat /\ Len(buffer) \in T
  OBVIOUS
<1>2. PICK n \in T : \A k \in T : n <= k
  BY <1>1, LeastElement
<1>3. \A i \in 1..n : buffer[i].final_update_id <= id
  <2> SUFFICES ASSUME NEW i \in 1..n PROVE buffer[i].final_update_id <= id
    OBVIOUS
  <2>1. i \in 1..Len(buffer) /\ buffer[i] \in Update
    OBVIOUS
  <2>2. i - 1 \in 0..Len(buffer) /\ i - 1 < Len(buffer) /\ (i - 1) + 1 = i /\ ~(n <= i - 1)
    BY <1>1
  <2>3. ~Stops(i - 1)
    BY <1>2, <2>2
  <2>4. ~(buffer[i].final_update_id > id)
    BY <2>2, <2>3
  <2> QED BY <2>1, <2>4, UpdateIds
<1>4. \E k \in 0..Len(buffer) :
        /\ \A i \in 1..k : buffer[i].final_update_id <= id
        /\ k < Len(buffer) => buffer[k + 1].final_update_id > id
  BY <1>2, <1>3
<1> QED BY <1>4 DEF StalePrefix

\* The manager that just took a snapshot: its book is the snapshot's, and what is
\* left of the buffer are updates.
LEMMA TakeSnapshotType ==
    ASSUME NEW m \in Manager, NEW f, NEW v \in 0..MaxId
    PROVE  LET taken == TakeSnapshot(m, DepthSnapshot(f, v))
           IN  /\ taken \in Manager
               /\ taken.book = BookApplySnapshot(DepthSnapshot(f, v))
               /\ taken.status = m.status
               /\ m.buffer = <<>> => taken.buffer = <<>>
               /\ taken.buffer # <<>> =>
                      taken.buffer[Len(taken.buffer)] = m.buffer[Len(m.buffer)]
               /\ taken.buffer = <<>> /\ m.buffer # <<>> =>
                      m.buffer[Len(m.buffer)].final_update_id <= v
<1> DEFINE s == DepthSnapshot(f, v)
           n == StalePrefix(m.buffer, s.last_update_id)
           pending == SubSeq(m.buffer, n + 1, Len(m.buffer))
           book == BookApplySnapshot(s)
<1>1. s.last_update_id = v /\ v \in Nat
  BY MaxIdAssumption DEF DepthSnapshot
<1>2. m.buffer \in Seq(Update) /\ m.stats \in Stats
  BY DEF Manager
<1>3. /\ n \in 0..Len(m.buffer) /\ n \in Nat
      /\ \A i \in 1..n : m.buffer[i].final_update_id <= v
  <2>1. n = StalePrefix(m.buffer, v)
    BY <1>1
  <2> HIDE DEF n
  <2>2. /\ n \in 0..Len(m.buffer)
        /\ \A i \in 1..n : m.buffer[i].final_update_id <= v
    BY <1>1, <1>2, <2>1, StalePrefixDef, Zenon
  <2>3. Len(m.buffer) \in Nat
    BY <1>2
  <2> QED BY <2>2, <2>3
<1> HIDE DEF n
<1>4. pending \in Seq(Update) /\ Len(pending) \in Nat /\ (m.buffer = <<>> => pending = <<>>)
  BY <1>2, <1>3
<1>9. /\ pending # <<>> => pending[Len(pending)] = m.buffer[Len(m.buffer)]
      /\ pending = <<>> => n = Len(m.buffer)
  <2>1. Len(m.buffer) \in Nat /\ Len(pending) = Len(m.buffer) - n
    BY <1>2, <1>3
  <2>2. \A i \in 1..Len(pending) : pending[i] = m.buffer[n + i]
    BY <1>2, <1>3, <2>1
  <2> HIDE DEF pending
  <2>3. pending = <<>> <=> Len(pending) = 0
    BY <1>4
  <2>4. pending # <<>> => Len(pending) \in 1..Len(pending) /\ n + Len(pending) = Len(m.buffer)
    BY <1>3, <1>4, <2>1, <2>3
  <2>5. pending # <<>> => pending[Len(pending)] = m.buffer[Len(m.buffer)]
    BY <2>2, <2>4
  <2>6. pending = <<>> => n = Len(m.buffer)
    BY <1>3, <2>1, <2>3
  <2> QED BY <2>5, <2>6
<1>10. m.buffer # <<>> => Len(m.buffer) \in 1..Len(m.buffer)
  BY <1>2
<1>5. book \in Book
  BY SnapshotMatches
<1> HIDE DEF pending, book
<1> DEFINE stats == [m.stats EXCEPT !.ignored_stale_updates = @ + n,
                                    !.buffered_updates = Len(pending)]
<1>6. TakeSnapshot(m, s) = [m EXCEPT !.book = book, !.buffer = pending, !.stats = stats]
  BY DEF TakeSnapshot, n, pending, book, Manager
<1>7. stats \in Stats
  <2> DEFINE k == Len(pending)
  <2>1. k \in Nat
    BY <1>4
  <2>2. m.stats.ignored_stale_updates + n \in Nat
    BY <1>2, <1>3 DEF Stats
  <2> HIDE DEF k
  <2>3. [m.stats EXCEPT !.ignored_stale_updates = m.stats.ignored_stale_updates + n,
                        !.buffered_updates = k] \in Stats
    BY <1>2, <2>1, <2>2 DEF Stats
  <2> QED BY <2>3 DEF k
<1> HIDE DEF stats
<1>8. TakeSnapshot(m, s) \in Manager
  BY <1>4, <1>5, <1>6, <1>7 DEF Manager
<1>11. TakeSnapshot(m, s).buffer = pending
  BY <1>6 DEF Manager
<1> QED BY <1>3, <1>4, <1>6, <1>8, <1>9, <1>10, <1>11 DEF book, Manager

\* The manager that took a snapshot, member by member.
LEMMA TakeSnapshotFields ==
    ASSUME NEW m \in Manager, NEW f, NEW v \in 0..MaxId
    PROVE  LET taken == TakeSnapshot(m, DepthSnapshot(f, v))
               n     == StalePrefix(m.buffer, v)
           IN  /\ n \in 0..Len(m.buffer) /\ n \in Nat
               /\ \A i \in 1..n : m.buffer[i].final_update_id <= v
               /\ n < Len(m.buffer) => m.buffer[n + 1].final_update_id > v
               /\ taken.buffer \in Seq(Update)
               /\ Len(taken.buffer) = Len(m.buffer) - n
               /\ \A i \in 1..Len(taken.buffer) : taken.buffer[i] = m.buffer[n + i]
               /\ taken.stats \in Stats
               /\ taken.stats.applied_updates = m.stats.applied_updates
               /\ taken.stats.ignored_stale_updates = m.stats.ignored_stale_updates + n
               /\ taken.stats.gaps_detected = m.stats.gaps_detected
               /\ taken.stats.buffered_updates = Len(taken.buffer)
<1> DEFINE s == DepthSnapshot(f, v)
           n == StalePrefix(m.buffer, v)
           pending == SubSeq(m.buffer, n + 1, Len(m.buffer))
           taken == TakeSnapshot(m, s)
<1>1. s.last_update_id = v /\ v \in Nat
  BY MaxIdAssumption DEF DepthSnapshot
<1>2. m.buffer \in Seq(Update) /\ m.stats \in Stats /\ Len(m.buffer) \in Nat
  BY DEF Manager
<1>3. /\ n \in 0..Len(m.buffer)
      /\ \A i \in 1..n : m.buffer[i].final_update_id <= v
      /\ n < Len(m.buffer) => m.buffer[n + 1].final_update_id > v
  BY <1>1, <1>2, StalePrefixDef, Zenon
<1>4. taken.buffer = pending /\ taken.stats = [m.stats EXCEPT !.ignored_stale_updates = @ + n,
                                                             !.buffered_updates = Len(pending)]
  BY <1>1 DEF TakeSnapshot, Manager
<1>5. taken \in Manager
  BY TakeSnapshotType
<1> HIDE DEF n, taken
<1>6. /\ Len(pending) = Len(m.buffer) - n
      /\ \A i \in 1..Len(pending) : pending[i] = m.buffer[n + i]
  BY <1>2, <1>3
<1> HIDE DEF pending
<1>7. /\ taken.stats.applied_updates = m.stats.applied_updates
      /\ taken.stats.ignored_stale_updates = m.stats.ignored_stale_updates + n
      /\ taken.stats.gaps_detected = m.stats.gaps_detected
      /\ taken.stats.buffered_updates = Len(taken.buffer)
  BY <1>2, <1>4 DEF Stats
<1>8. n \in Nat /\ taken.buffer \in Seq(Update) /\ taken.stats \in Stats
  BY <1>2, <1>3, <1>5 DEF Manager
<1> QED BY <1>3, <1>4, <1>6, <1>7, <1>8 DEF n, taken

\* One update on a manager whose book is initialized, member by member.
LEMMA ApplyToReadyBookFields ==
    ASSUME NEW m \in Manager, m.book.initialized, NEW u \in Update
    PROVE  LET r   == ApplyUpdateResult(m.book, u)
               out == ApplyUpdateToReadyBook(m, u)
           IN  /\ r \in {"Applied", "IgnoredStale", "GapDetected"}
               /\ r = "Applied" =>
                      out = [m |-> [m EXCEPT !.book = BookApplyUpdate(m.book, u),
                                             !.status = "Ready",
                                             !.stats = [m.stats EXCEPT !.applied_updates = @ + 1]],
                             result |-> "Applied"]
               /\ r = "IgnoredStale" =>
                      out = [m |-> [m EXCEPT !.stats =
                                        [m.stats EXCEPT !.ignored_stale_updates = @ + 1]],
                             result |-> "IgnoredStale"]
               /\ r = "GapDetected" =>
                      out = [m |-> [m EXCEPT !.status = "NeedResync",
                                             !.stats = [m.stats EXCEPT !.gaps_detected = @ + 1]],
                             result |-> "GapDetected"]
<1>1. ApplyUpdateResult(m.book, u) \in {"Applied", "IgnoredStale", "GapDetected"}
  BY DEF ApplyUpdateResult
<1>2. ApplyUpdateResult(m.book, u) = "Applied" =>
        ApplyUpdateToReadyBook(m, u) =
            [m |-> [m EXCEPT !.book = BookApplyUpdate(m.book, u),
                             !.status = "Ready",
                             !.stats = [m.stats EXCEPT !.applied_updates = @ + 1]],
             result |-> "Applied"]
  BY DEF ApplyUpdateToReadyBook, Manager
<1>3. ApplyUpdateResult(m.book, u) = "IgnoredStale" =>
        ApplyUpdateToReadyBook(m, u) =
            [m |-> [m EXCEPT !.stats = [m.stats EXCEPT !.ignored_stale_updates = @ + 1]],
             result |-> "IgnoredStale"]
  BY DEF ApplyUpdateToReadyBook, Manager
<1>4. ApplyUpdateResult(m.book, u) = "GapDetected" =>
        ApplyUpdateToReadyBook(m, u) =
            [m |-> [m EXCEPT !.status = "NeedResync",
                             !.stats = [m.stats EXCEPT !.gaps_detected = @ + 1]],
             result |-> "GapDetected"]
  BY DEF ApplyUpdateToReadyBook, Manager
<1> QED BY <1>1, <1>2, <1>3, <1>4

\* One update on a manager whose book is initialized: the result tells the status.
LEMMA ApplyToReadyBookType ==
    ASSUME NEW m \in Manager, m.book.initialized, NEW u \in Update,
           NEW out, out = ApplyUpdateToReadyBook(m, u)
    PROVE  /\ out.m \in Manager
           /\ out.result \in {"Applied", "IgnoredStale", "GapDetected"}
           /\ out.m.book = BookApplyUpdate(m.book, u)
           /\ out.m.book.initialized
           /\ out.m.buffer = m.buffer
           /\ out.result = "Applied" =>
                  /\ out.m.status = "Ready"
                  /\ out.m.book.last_update_id > m.book.last_update_id
           /\ out.result = "IgnoredStale" =>
                  out.m.status = m.status /\ out.m.book = m.book
           /\ out.result = "GapDetected" =>
                  out.m.status = "NeedResync" /\ out.m.book = m.book
           /\ out.result # "GapDetected" =>
                  out.m.book.last_update_id >= u.final_update_id
<1> DEFINE r == ApplyUpdateResult(m.book, u)
           next == BookApplyUpdate(m.book, u)
           applied == [m.stats EXCEPT !.applied_updates = @ + 1]
           ignored == [m.stats EXCEPT !.ignored_stale_updates = @ + 1]
           gaps == [m.stats EXCEPT !.gaps_detected = @ + 1]
<1>1. m.book \in Book /\ m.stats \in Stats
  BY DEF Manager
<1>2. /\ r \in {"Applied", "IgnoredStale", "GapDetected"}
      /\ next \in Book /\ next.initialized
      /\ r = "Applied" => next.last_update_id > m.book.last_update_id
      /\ r # "Applied" => next = m.book
      /\ r # "GapDetected" => next.last_update_id >= u.final_update_id
  <2>1. u.final_update_id \in Nat
    BY UpdateIds
  <2>2. r # "Applied" => next = m.book
    BY DEF BookApplyUpdate
  <2> QED BY <1>1, <2>1, <2>2, BookApplyUpdateType
<1>3. applied \in Stats /\ ignored \in Stats /\ gaps \in Stats
  BY <1>1 DEF Stats
<1>4. r = "Applied" =>
        out = [m |-> [m EXCEPT !.book = next, !.status = "Ready", !.stats = applied],
               result |-> "Applied"]
  BY DEF ApplyUpdateToReadyBook, Manager
<1>5. r = "IgnoredStale" =>
        out = [m |-> [m EXCEPT !.stats = ignored], result |-> "IgnoredStale"]
  BY DEF ApplyUpdateToReadyBook, Manager
<1>6. r = "GapDetected" =>
        out = [m |-> [m EXCEPT !.status = "NeedResync", !.stats = gaps],
               result |-> "GapDetected"]
  BY DEF ApplyUpdateToReadyBook, Manager
<1> SUFFICES /\ out.m \in Manager
             /\ out.result = r
             /\ out.m.book = next
             /\ out.m.buffer = m.buffer
             /\ r = "Applied" => out.m.status = "Ready"
             /\ r = "IgnoredStale" => out.m.status = m.status
             /\ r = "GapDetected" => out.m.status = "NeedResync"
  BY <1>2
<1> HIDE DEF r, next, applied, ignored, gaps
<1>7. CASE r = "Applied"
  <2>1. out.m = [m EXCEPT !.book = next, !.status = "Ready", !.stats = applied]
    BY <1>4, <1>7
  <2>2. out.m \in Manager
    BY <1>2, <1>3, <2>1 DEF Manager, Status
  <2>3. out.result = r
    BY <1>4, <1>7
  <2>4. out.m.book = next /\ out.m.buffer = m.buffer /\ out.m.status = "Ready"
    BY <2>1 DEF Manager
  <2> QED BY <1>7, <2>2, <2>3, <2>4
<1>8. CASE r = "IgnoredStale"
  BY <1>2, <1>3, <1>5, <1>8 DEF Manager, Status
<1>9. CASE r = "GapDetected"
  <2>1. out.m = [m EXCEPT !.status = "NeedResync", !.stats = gaps]
    BY <1>6, <1>9
  <2>2. out.m \in Manager
    BY <1>3, <2>1 DEF Manager, Status
  <2>3. out.result = r
    BY <1>6, <1>9
  <2>4. out.m.book = next /\ out.m.buffer = m.buffer /\ out.m.status = "NeedResync"
    BY <1>2, <1>9, <2>1 DEF Manager
  <2> QED BY <1>9, <2>2, <2>3, <2>4
<1> QED BY <1>2, <1>7, <1>8, <1>9

\* The step of Replay: the i-th buffered update on what the one before it left.
ReplayStep(before, update) ==
    IF before.result = "GapDetected" THEN before
    ELSE ApplyUpdateToReadyBook(before.m, update)

\* Replay is the function its recursion says it is.
LEMMA ReplayDef ==
    ASSUME NEW m \in Manager
    PROVE  Replay(m) = [i \in 0..Len(m.buffer) |->
                           IF i = 0 THEN [m |-> m, result |-> "SnapshotApplied"]
                           ELSE ReplayStep(Replay(m)[i - 1], m.buffer[i])]
<1> DEFINE start == [m |-> m, result |-> "SnapshotApplied"]
           buf == m.buffer
           Trace(f, n) == [i \in 0..n |-> IF i = 0 THEN start
                                          ELSE ReplayStep(f[i - 1], buf[i])]
           HasTrace(n) == \E f : f = Trace(f, n)
           Good == {n \in Nat : n <= Len(buf) => HasTrace(n)}
<1>1. buf \in Seq(Update) /\ Len(buf) \in Nat
  BY DEF Manager
<1> HIDE DEF buf, start
<1>2. HasTrace(0)
  <2> DEFINE f == [i \in 0..0 |-> start]
  <2>1. f = Trace(f, 0)
    OBVIOUS
  <2> QED BY <2>1
<1>3. ASSUME NEW n \in Nat, n + 1 <= Len(buf), HasTrace(n)
      PROVE  HasTrace(n + 1)
  <2>1. PICK f : f = Trace(f, n)
    BY <1>3
  <2> DEFINE g == [i \in 0..(n + 1) |-> IF i <= n THEN f[i] ELSE ReplayStep(f[n], buf[n + 1])]
  <2>2. ASSUME NEW i \in 0..(n + 1)
        PROVE  g[i] = IF i = 0 THEN start ELSE ReplayStep(g[i - 1], buf[i])
    <3>1. CASE i = n + 1
      BY <3>1
    <3>2. CASE i = 0
      BY <3>2, <2>1
    <3>3. CASE i \in 1..n
      BY <3>3, <2>1
    <3> QED BY <3>1, <3>2, <3>3
  <2>3. DOMAIN g = 0..(n + 1) /\ g = [i \in DOMAIN g |-> g[i]]
    OBVIOUS
  <2> HIDE DEF g
  <2>4. g = Trace(g, n + 1)
    BY <2>2, <2>3
  <2> QED BY <2>4
<1>4. HasTrace(Len(buf))
  <2> HIDE DEF HasTrace
  <2>1. 0 \in Good
    BY <1>2
  <2>2. \A n \in Nat : n \in Good => n + 1 \in Good
    BY <1>1, <1>3
  <2>3. Nat \subseteq Good
    BY <2>1, <2>2, SetInduction
  <2> QED BY <1>1, <2>3
<1> DEFINE h == Replay(m)
<1>5. h = Trace(h, Len(buf))
  <2>1. PICK f : f = Trace(f, Len(buf))
    BY <1>4
  <2>2. h = CHOOSE g : g = Trace(g, Len(buf))
    BY DEF Replay, ReplayStep, start, buf
  <2> HIDE DEF h
  <2> QED BY <2>1, <2>2
<1> QED BY <1>5 DEF start, buf

\* Replay stays in every set that holds its start and is closed under its step.
LEMMA ReplayInvariant ==
    ASSUME NEW m \in Manager, NEW S,
           [m |-> m, result |-> "SnapshotApplied"] \in S,
           \A x \in S, u \in Update : ReplayStep(x, u) \in S
    PROVE  Replay(m) \in [0..Len(m.buffer) -> S]
<1> DEFINE buf == m.buffer
           h == Replay(m)
           In == {i \in Nat : i <= Len(buf) => h[i] \in S}
<1>1. buf \in Seq(Update) /\ Len(buf) \in Nat
  BY DEF Manager
<1>2. h = [i \in 0..Len(buf) |-> IF i = 0 THEN [m |-> m, result |-> "SnapshotApplied"]
                                  ELSE ReplayStep(h[i - 1], buf[i])]
  BY ReplayDef
<1> HIDE DEF h, buf
<1>3. 0 \in In
  BY <1>1, <1>2
<1>4. ASSUME NEW i \in Nat, i \in In
      PROVE  i + 1 \in In
  <2> SUFFICES ASSUME i + 1 <= Len(buf) PROVE h[i + 1] \in S
    OBVIOUS
  <2>1. buf[i + 1] \in Update /\ h[i] \in S
    BY <1>1, <1>4
  <2>2. h[i + 1] = ReplayStep(h[i], buf[i + 1])
    BY <1>1, <1>2
  <2> QED BY <2>1, <2>2
<1>5. Nat \subseteq In
  <2> HIDE DEF In
  <2> QED BY <1>3, <1>4, SetInduction
<1>6. \A i \in 0..Len(buf) : h[i] \in S
  BY <1>1, <1>5
<1> QED BY <1>2, <1>6 DEF h, buf

\* What the replay of the buffered updates leaves: a book that still agrees with the
\* exchange, and a status that needs a resync if the replay met a gap.
LEMMA ReplayMatches ==
    ASSUME NEW m \in Manager, NEW v, m.book.initialized, BookMatches(m.book, v),
           NEW last, last = Replay(m)[Len(m.buffer)]
    PROVE  /\ last.m \in Manager
           /\ last.m.book.initialized
           /\ BookMatches(last.m.book, v)
           /\ last.m.book.last_update_id >= m.book.last_update_id
           /\ last.result = "GapDetected" => last.m.status = "NeedResync"
           /\ m.buffer # <<>> /\ last.result # "GapDetected" =>
                  last.m.book.last_update_id >= m.buffer[Len(m.buffer)].final_update_id
<1> DEFINE S == {x \in [m : Manager, result : UpdateResult] :
                    /\ x.m.book.initialized
                    /\ BookMatches(x.m.book, v)
                    /\ x.m.book.last_update_id >= m.book.last_update_id
                    /\ x.result = "GapDetected" => x.m.status = "NeedResync"}
<1>0. m.book.last_update_id \in Nat
  BY DEF Manager, Book
<1>1. [m |-> m, result |-> "SnapshotApplied"] \in S
  BY <1>0 DEF UpdateResult
<1>2. ASSUME NEW x \in S, NEW u \in Update
      PROVE  /\ ReplayStep(x, u) \in S
             /\ ReplayStep(x, u).result # "GapDetected" =>
                    ReplayStep(x, u).m.book.last_update_id >= u.final_update_id
  <2>1. CASE x.result = "GapDetected"
    BY <2>1 DEF ReplayStep
  <2>2. CASE x.result # "GapDetected"
    <3> DEFINE out == ApplyUpdateToReadyBook(x.m, u)
    <3>1. x.m \in Manager /\ x.m.book.initialized /\ BookMatches(x.m.book, v)
      OBVIOUS
    <3>2. /\ out.m \in Manager
          /\ out.result \in {"Applied", "IgnoredStale", "GapDetected"}
          /\ out.m.book = BookApplyUpdate(x.m.book, u)
          /\ out.m.book.initialized
          /\ out.m.book = x.m.book \/ out.m.book.last_update_id > x.m.book.last_update_id
          /\ out.result = "GapDetected" => out.m.status = "NeedResync"
          /\ out.result # "GapDetected" => out.m.book.last_update_id >= u.final_update_id
      BY <3>1, ApplyToReadyBookType
    <3>3. BookMatches(out.m.book, v)
      <4>1. x.m.book \in Book
        BY <3>1 DEF Manager
      <4> QED BY <3>1, <3>2, <4>1, UpdateKeepsMatch
    <3>4. out = [m |-> out.m, result |-> out.result]
      BY <3>1, BookApplyUpdateType DEF ApplyUpdateToReadyBook, Manager
    <3>5. ReplayStep(x, u) = out
      BY <2>2 DEF ReplayStep
    <3> HIDE DEF out
    <3>6. out.m.book.last_update_id >= m.book.last_update_id
      <4>1. /\ x.m.book.last_update_id \in Nat /\ out.m.book.last_update_id \in Nat
            /\ x.m.book.last_update_id >= m.book.last_update_id
        BY <3>2 DEF Manager, Book
      <4> QED BY <1>0, <3>2, <4>1
    <3> QED BY <3>2, <3>3, <3>4, <3>5, <3>6 DEF UpdateResult
  <2> QED BY <2>1, <2>2
<1> HIDE DEF S
<1>3. Replay(m) \in [0..Len(m.buffer) -> S]
  BY <1>1, <1>2, ReplayInvariant
<1>4. Len(m.buffer) \in 0..Len(m.buffer)
  BY DEF Manager
<1>5. last \in S
  BY <1>3, <1>4
<1>6. ASSUME m.buffer # <<>>, last.result # "GapDetected"
      PROVE  last.m.book.last_update_id >= m.buffer[Len(m.buffer)].final_update_id
  <2> DEFINE n == Len(m.buffer)
             h == Replay(m)
  <2>1. n \in Nat /\ n > 0 /\ m.buffer[n] \in Update
    BY <1>6 DEF Manager
  <2>2. last = ReplayStep(h[n - 1], m.buffer[n])
    <3>1. h = [i \in 0..n |-> IF i = 0 THEN [m |-> m, result |-> "SnapshotApplied"]
                              ELSE ReplayStep(h[i - 1], m.buffer[i])]
      BY ReplayDef
    <3>2. last = h[n]
      OBVIOUS
    <3>3. n \in 0..n /\ n # 0
      BY <2>1
    <3> HIDE DEF h, n
    <3> QED BY <3>1, <3>2, <3>3
  <2>3. h[n - 1] \in S
    BY <1>3, <2>1
  <2> QED BY <1>2, <1>6, <2>1, <2>2, <2>3
<1> QED BY <1>5, <1>6 DEF S

\* apply_snapshot on a snapshot of the manager's own feed, whatever was buffered.
LEMMA ApplySnapshotType ==
    ASSUME NEW m \in Manager, NEW f, NEW v \in 0..MaxId,
           NEW out, out = ApplySnapshot(f, m, DepthSnapshot(f, v))
    PROVE  /\ out.m \in Manager
           /\ out.result \in {"SnapshotApplied", "SnapshotRejected", "GapDetected"}
           /\ out.m.status \in {"Ready", "NeedResync"}
           /\ out.m.buffer = <<>>
           /\ out.m.book.initialized
           /\ BookMatches(out.m.book, v)
           /\ out.m.book.last_update_id >= v
           /\ out.result = "SnapshotApplied" <=> out.m.status = "Ready"
           /\ m.buffer # <<>> /\ out.m.status = "Ready" =>
                  out.m.book.last_update_id >= m.buffer[Len(m.buffer)].final_update_id
<1> DEFINE s == DepthSnapshot(f, v)
           taken == TakeSnapshot(m, s)
           last == Replay(taken)[Len(taken.buffer)]
<1>1. /\ taken \in Manager /\ taken.book.initialized /\ BookMatches(taken.book, v)
      /\ taken.buffer # <<>> => taken.buffer[Len(taken.buffer)] = m.buffer[Len(m.buffer)]
      /\ taken.buffer = <<>> /\ m.buffer # <<>> =>
             m.buffer[Len(m.buffer)].final_update_id <= v
  BY TakeSnapshotType, SnapshotMatches
<1>10. taken.book.last_update_id = v /\ v \in Nat /\ v >= v
  <2>1. taken.book = BookApplySnapshot(s)
    BY TakeSnapshotType
  <2>2. BookApplySnapshot(s).last_update_id = v
    BY DEF BookApplySnapshot, DepthSnapshot
  <2> QED BY <2>1, <2>2, MaxIdAssumption
<1> HIDE DEF taken
<1>2. /\ last.m \in Manager /\ last.m.book.initialized /\ BookMatches(last.m.book, v)
      /\ last.result = "GapDetected" => last.m.status = "NeedResync"
      /\ last.m.book.last_update_id >= v
      /\ taken.buffer # <<>> /\ last.result # "GapDetected" =>
             last.m.book.last_update_id >= m.buffer[Len(m.buffer)].final_update_id
  BY <1>1, <1>10, ReplayMatches
<1> HIDE DEF last
<1> DEFINE rejected == ClearBuffer(taken)
           replayed == ClearBuffer(last.m)
           counted == [rejected EXCEPT !.status = "NeedResync", !.stats.gaps_detected = @ + 1]
<1>3. /\ rejected \in Manager /\ rejected.book = taken.book /\ rejected.buffer = <<>>
      /\ replayed \in Manager /\ replayed.book = last.m.book /\ replayed.buffer = <<>>
      /\ replayed.status = last.m.status
  BY <1>1, <1>2, ClearBufferType
<1>4. /\ counted \in Manager /\ counted.book = taken.book
      /\ counted.status = "NeedResync" /\ counted.buffer = <<>>
  <2> HIDE DEF rejected
  <2> DEFINE stats == [rejected.stats EXCEPT !.gaps_detected = @ + 1]
  <2>0. rejected.stats \in Stats
    BY <1>3 DEF Manager
  <2>1. stats \in Stats
    BY <2>0 DEF Stats
  <2>2. counted = [rejected EXCEPT !.status = "NeedResync", !.stats = stats]
    BY <1>3 DEF Manager
  <2> HIDE DEF stats, counted
  <2>3. counted \in Manager
    BY <1>3, <2>1, <2>2 DEF Manager, Status
  <2> QED BY <1>3, <2>2, <2>3 DEF Manager
<1>5. s.feed = f
  BY DEF DepthSnapshot
<1>6. CASE taken.buffer = <<>>
  <2>1. out = [m |-> [taken EXCEPT !.status = "Ready"], result |-> "SnapshotApplied"]
    BY <1>5, <1>6 DEF ApplySnapshot, taken
  <2>2. out.m = [taken EXCEPT !.status = "Ready"] /\ out.result = "SnapshotApplied"
    BY <2>1
  <2>3. m.buffer # <<>> => v >= m.buffer[Len(m.buffer)].final_update_id
    <3>1. m.buffer # <<>> => m.buffer[Len(m.buffer)] \in Update
      BY DEF Manager
    <3> QED BY <1>1, <1>6, <1>10, <3>1, UpdateIds
  <2> QED BY <1>1, <1>6, <1>10, <2>2, <2>3 DEF Manager, Status
<1>7. CASE taken.buffer # <<>> /\ ~Bridges(taken.buffer[1], s.last_update_id)
  <2>1. out = [m |-> counted, result |-> "SnapshotRejected"]
    BY <1>5, <1>7 DEF ApplySnapshot, taken
  <2> HIDE DEF counted
  <2> QED BY <1>1, <1>4, <1>10, <2>1
<1>8. CASE /\ taken.buffer # <<>> /\ Bridges(taken.buffer[1], s.last_update_id)
           /\ last.result = "GapDetected"
  <2>1. out = [m |-> replayed, result |-> "GapDetected"]
    BY <1>5, <1>8 DEF ApplySnapshot, taken, last
  <2> HIDE DEF replayed
  <2> QED BY <1>2, <1>3, <1>8, <2>1
<1>9. CASE /\ taken.buffer # <<>> /\ Bridges(taken.buffer[1], s.last_update_id)
           /\ last.result # "GapDetected"
  <2>1. out = [m |-> [replayed EXCEPT !.status = "Ready"], result |-> "SnapshotApplied"]
    BY <1>5, <1>9 DEF ApplySnapshot, taken, last
  <2> HIDE DEF replayed
  <2>2. out.m = [replayed EXCEPT !.status = "Ready"] /\ out.result = "SnapshotApplied"
    BY <2>1
  <2>3. /\ out.m \in Manager /\ out.m.status = "Ready" /\ out.m.buffer = <<>>
        /\ out.m.book = last.m.book
    BY <1>3, <2>2 DEF Manager, Status
  <2> QED BY <1>2, <1>9, <2>2, <2>3
<1> QED BY <1>6, <1>7, <1>8, <1>9

\* Buffering touches neither book nor status, and respects the bound.
LEMMA BufferUpdateType ==
    ASSUME NEW m \in Manager, Len(m.buffer) <= MaxBufferedUpdates, NEW u \in Update
    PROVE  /\ BufferUpdate(m, u) \in Manager
           /\ BufferUpdate(m, u).book = m.book
           /\ BufferUpdate(m, u).status = m.status
           /\ Len(BufferUpdate(m, u).buffer) <= MaxBufferedUpdates
           /\ MaxBufferedUpdates > 0 =>
                  LET buffer == BufferUpdate(m, u).buffer
                  IN  buffer # <<>> /\ buffer[Len(buffer)] = u
           /\ MaxBufferedUpdates = 0 => BufferUpdate(m, u).buffer = <<>>
<1> DEFINE grown == Append(m.buffer, u)
           kept == IF Len(grown) > MaxBufferedUpdates THEN Tail(grown) ELSE grown
           stats == [m.stats EXCEPT !.buffered_updates = Len(kept)]
<1>1. m.buffer \in Seq(Update) /\ m.stats \in Stats
  BY DEF Manager
<1>2. grown \in Seq(Update) /\ Len(grown) = Len(m.buffer) + 1 /\ grown # <<>>
  BY <1>1
<1>3. Tail(grown) \in Seq(Update) /\ Len(Tail(grown)) = Len(grown) - 1
  BY <1>2
<1>4. kept \in Seq(Update) /\ Len(kept) \in Nat /\ Len(kept) <= MaxBufferedUpdates
  BY <1>1, <1>2, <1>3, BufferAssumption
<1>5. BufferUpdate(m, u) = [m EXCEPT !.buffer = kept, !.stats = stats]
  BY DEF BufferUpdate, Manager
<1>7. MaxBufferedUpdates > 0 => kept # <<>> /\ kept[Len(kept)] = u
  <2>1. grown[Len(grown)] = u
    BY <1>1
  <2>2. Len(grown) >= 2 => Tail(grown) # <<>> /\ Tail(grown)[Len(Tail(grown))] = grown[Len(grown)]
    BY <1>2, <1>3
  <2>3. CASE Len(grown) > MaxBufferedUpdates
    <3>1. kept = Tail(grown)
      BY <2>3
    <3>2. MaxBufferedUpdates > 0 => Len(grown) >= 2
      BY <1>2, <2>3, BufferAssumption
    <3> HIDE DEF kept, grown
    <3> QED BY <2>1, <2>2, <3>1, <3>2
  <2>4. CASE ~(Len(grown) > MaxBufferedUpdates)
    <3>1. kept = grown
      BY <2>4
    <3> HIDE DEF kept, grown
    <3> QED BY <1>2, <2>1, <3>1
  <2> QED BY <2>3, <2>4
<1> HIDE DEF kept
<1>6. stats \in Stats
  BY <1>1, <1>4 DEF Stats
<1> HIDE DEF stats
<1>8. BufferUpdate(m, u).buffer = kept
  BY <1>5 DEF Manager
<1>9. MaxBufferedUpdates = 0 => kept = <<>>
  BY <1>4
<1> QED BY <1>4, <1>5, <1>6, <1>7, <1>8, <1>9 DEF Manager

\* on_update, by the status it finds.
LEMMA OnUpdateType ==
    ASSUME NEW m \in Manager, NEW f, NEW u \in Update,
           Len(m.buffer) <= MaxBufferedUpdates,
           Ready(m) => m.book.initialized,
           NEW out, out = OnUpdate(f, m, u)
    PROVE  /\ out.m \in Manager
           /\ out.result \in UpdateResult
           /\ Len(out.m.buffer) <= MaxBufferedUpdates
           /\ ~Ready(m) => out.m.book = m.book /\ out.m.status = m.status
           /\ NeedResync(m) => out.m = m
           /\ Ready(m) => /\ out.m.status \in {"Ready", "NeedResync"}
                          /\ out.m.buffer = m.buffer
                          /\ out.m.book \in {m.book, BookApplyUpdate(m.book, u)}
                          /\ out.m.book.initialized
                          /\ \/ out.m.book = m.book
                             \/ /\ out.m.status = "Ready"
                                /\ out.m.book.last_update_id > m.book.last_update_id
<1>1. m.status \in Status
  BY DEF Manager
<1>2. CASE u.feed # f
  BY <1>1, <1>2 DEF OnUpdate, UpdateResult, Ready, Status
<1>3. CASE u.feed = f /\ NeedResync(m)
  BY <1>3 DEF OnUpdate, UpdateResult, Ready, NeedResync
<1>4. CASE u.feed = f /\ m.status = "WaitingForSnapshot"
  <2>1. out = [m |-> BufferUpdate(m, u), result |-> "Buffered"]
    BY <1>4 DEF OnUpdate, NeedResync
  <2> QED BY <1>4, <2>1, BufferUpdateType DEF UpdateResult, Ready, NeedResync
<1>5. CASE u.feed = f /\ Ready(m)
  <2>1. out = ApplyUpdateToReadyBook(m, u)
    BY <1>5 DEF OnUpdate, NeedResync, Ready
  <2>2. m.book.initialized
    BY <1>5
  <2> QED BY <1>5, <2>1, <2>2, ApplyToReadyBookType DEF UpdateResult, Ready, NeedResync
<1> QED BY <1>1, <1>2, <1>3, <1>4, <1>5 DEF Status, Ready, NeedResync

\* on_update on an update of its own feed, by the result it returns.
LEMMA OnOwnUpdate ==
    ASSUME NEW m \in Manager, NEW f, NEW u \in Update, u.feed = f,
           Ready(m) => m.book.initialized,
           NEW out, out = OnUpdate(f, m, u)
    PROVE  /\ m.status = "WaitingForSnapshot" =>
                  out.m = BufferUpdate(m, u) /\ out.result = "Buffered"
           /\ NeedResync(m) => out.m = m /\ out.result = "GapDetected"
           /\ Ready(m) =>
                  /\ out.result \in {"Applied", "IgnoredStale", "GapDetected"}
                  /\ out.result = "GapDetected" <=> NeedResync(out.m)
                  /\ Ready(out.m) => out.m.book.last_update_id >= u.final_update_id
                  /\ u.first_update_id > m.book.last_update_id + 1 => NeedResync(out.m)
<1>1. CASE m.status = "WaitingForSnapshot"
  BY <1>1 DEF OnUpdate, Ready, NeedResync
<1>2. CASE NeedResync(m)
  BY <1>2 DEF OnUpdate, Ready, NeedResync
<1>3. CASE Ready(m)
  <2>1. out = ApplyUpdateToReadyBook(m, u) /\ m.book.initialized
    BY <1>3 DEF OnUpdate, Ready, NeedResync
  <2>2. /\ out.result \in {"Applied", "IgnoredStale", "GapDetected"}
        /\ out.result = "GapDetected" <=> NeedResync(out.m)
        /\ Ready(out.m) => out.m.book.last_update_id >= u.final_update_id
    BY <1>3, <2>1, ApplyToReadyBookType DEF Ready, NeedResync
  <2>3. ASSUME u.first_update_id > m.book.last_update_id + 1
        PROVE  NeedResync(out.m)
    <3>1. /\ m.book.last_update_id \in Nat
          /\ u.final_update_id \in Nat /\ u.first_update_id \in Nat
          /\ u.first_update_id <= u.final_update_id
      BY UpdateIds, UpdateFields DEF Manager, Book
    <3>2. ApplyUpdateResult(m.book, u) = "GapDetected"
      BY <2>1, <2>3, <3>1 DEF ApplyUpdateResult
    <3>3. out.m = [m EXCEPT !.status = "NeedResync", !.stats.gaps_detected = @ + 1]
      BY <2>1, <3>2 DEF ApplyUpdateToReadyBook
    <3> QED BY <3>3 DEF NeedResync, Manager
  <2> QED BY <1>3, <2>2, <2>3 DEF Ready, NeedResync
<1> QED BY <1>1, <1>2, <1>3 DEF Manager, Status, Ready, NeedResync

\* A depth update is one of its feed, with the ids it was made of.
LEMMA DepthUpdateIsUpdate ==
    ASSUME NEW f \in Feeds, NEW r \in UpdateRange
    PROVE  LET u == DepthUpdate(f, r[1], r[2])
           IN  /\ u \in Update /\ u.feed = f
               /\ u.first_update_id = r[1] /\ u.final_update_id = r[2]
               /\ r[1] \in 1..MaxId /\ r[2] \in 1..MaxId /\ r[1] <= r[2]
<1>1. DepthUpdate(f, r[1], r[2]) \in Update
  BY DEF Update
<1> QED BY <1>1 DEF DepthUpdate, UpdateRange
-----------------------------------------------------------------------------
(* A manager as the modes drive it: what it holds by its status, and how   *)
(* far it is behind its connection.                                        *)

ManagerSound(m) ==
    /\ m \in Manager
    /\ Len(m.buffer) <= MaxBufferedUpdates
    /\ m.book.initialized <=> m.status # "WaitingForSnapshot"
    /\ m.status # "WaitingForSnapshot" => m.buffer = <<>>

\* The connection has delivered the changes up to delivered: the buffer ends with the
\* last of them, and a ready book is past it and agrees with the exchange.
CurrentAt(m, delivered) ==
    /\ m.buffer # <<>> => m.buffer[Len(m.buffer)].final_update_id = delivered
    /\ Ready(m) => /\ m.book.last_update_id >= delivered
                   /\ \E base \in 0..MaxId : /\ base <= m.book.last_update_id
                                              /\ BookMatches(m.book, base)

LEMMA SoundNew ==
    /\ ManagerSound(NewManager)
    /\ \A delivered : CurrentAt(NewManager, delivered)
    /\ NewManager.status = "WaitingForSnapshot"
    /\ NewManager.buffer = <<>>
    /\ ~NewManager.book.initialized
<1>1. /\ NewManager.status = "WaitingForSnapshot" /\ NewManager.buffer = <<>>
      /\ ~NewManager.book.initialized
  BY DEF NewManager, EmptyBook
<1> QED BY <1>1, NewManagerType, BufferAssumption DEF ManagerSound, CurrentAt, Ready

LEMMA SoundUnstated ==
    ASSUME NEW m, ManagerSound(m)
    PROVE  /\ ManagerSound(Unstated(m))
           /\ \A d : CurrentAt(m, d) => CurrentAt(Unstated(m), d)
           /\ Unstated(m).book = m.book
           /\ Unstated(m).buffer = m.buffer
           /\ Unstated(m).status = m.status
           /\ Ready(Unstated(m)) <=> Ready(m)
           /\ NeedResync(Unstated(m)) <=> NeedResync(m)
BY UnstatedType DEF ManagerSound, CurrentAt, Ready, NeedResync

\* on_update on an update of the manager's own feed.
LEMMA SoundUpdate ==
    ASSUME NEW m, ManagerSound(m), NEW f, NEW u \in Update, u.feed = f,
           NEW out, out = OnUpdate(f, m, u)
    PROVE  /\ ManagerSound(out.m)
           /\ m.status = "WaitingForSnapshot" =>
                  /\ out.m.status = "WaitingForSnapshot" /\ out.result = "Buffered"
                  /\ out.m.book = m.book
                  /\ m.buffer # <<>> => out.m.buffer # <<>>
           /\ NeedResync(m) => out.m = m /\ out.result = "GapDetected"
           /\ Ready(m) =>
                  /\ out.m.status \in {"Ready", "NeedResync"}
                  /\ out.result \in {"Applied", "IgnoredStale", "GapDetected"}
                  /\ out.result = "GapDetected" <=> NeedResync(out.m)
                  /\ u.first_update_id > m.book.last_update_id + 1 => NeedResync(out.m)
                  /\ \/ out.m.book = m.book
                     \/ out.m.book.last_update_id > m.book.last_update_id
<1>1. /\ m \in Manager /\ Len(m.buffer) <= MaxBufferedUpdates /\ m.status \in Status
      /\ m.book.initialized <=> m.status # "WaitingForSnapshot"
      /\ Ready(m) => m.book.initialized
      /\ m.status # "WaitingForSnapshot" => m.buffer = <<>>
  BY DEF ManagerSound, Ready, Manager
<1>2. out.m \in Manager /\ Len(out.m.buffer) <= MaxBufferedUpdates
  BY <1>1, OnUpdateType
<1>3. CASE m.status = "WaitingForSnapshot"
  <2>1. out.m = BufferUpdate(m, u) /\ out.result = "Buffered"
    BY <1>1, <1>3, OnOwnUpdate
  <2>2. /\ out.m.book = m.book /\ out.m.status = m.status
        /\ MaxBufferedUpdates > 0 => out.m.buffer # <<>>
    BY <1>1, <2>1, BufferUpdateType
  <2>3. m.buffer # <<>> => MaxBufferedUpdates > 0
    BY <1>1, BufferAssumption DEF Manager
  <2> QED BY <1>1, <1>2, <1>3, <2>1, <2>2, <2>3 DEF ManagerSound, NeedResync, Ready
<1>4. CASE NeedResync(m)
  BY <1>1, <1>4, OnOwnUpdate DEF NeedResync, Ready
<1>5. CASE Ready(m)
  <2>1. /\ out.result \in {"Applied", "IgnoredStale", "GapDetected"}
        /\ out.result = "GapDetected" <=> NeedResync(out.m)
        /\ u.first_update_id > m.book.last_update_id + 1 => NeedResync(out.m)
    BY <1>1, <1>5, OnOwnUpdate
  <2>2. /\ out.m.status \in {"Ready", "NeedResync"} /\ out.m.book.initialized
        /\ out.m.buffer = m.buffer
        /\ \/ out.m.book = m.book
           \/ out.m.book.last_update_id > m.book.last_update_id
    BY <1>1, <1>5, OnUpdateType
  <2> QED BY <1>1, <1>2, <1>5, <2>1, <2>2 DEF ManagerSound, NeedResync, Ready
<1> QED BY <1>1, <1>3, <1>4, <1>5 DEF Status, NeedResync, Ready

\* The manager stays as far as its connection when the next update comes.
LEMMA CurrentUpdate ==
    ASSUME NEW m, NEW d, ManagerSound(m), CurrentAt(m, d),
           NEW f, NEW u \in Update, u.feed = f,
           NEW out, out = OnUpdate(f, m, u)
    PROVE  CurrentAt(out.m, u.final_update_id)
<1>1. /\ m \in Manager /\ Len(m.buffer) <= MaxBufferedUpdates /\ m.status \in Status
      /\ m.book.initialized <=> m.status # "WaitingForSnapshot"
      /\ Ready(m) => m.book.initialized
      /\ m.status # "WaitingForSnapshot" => m.buffer = <<>>
  BY DEF ManagerSound, Ready, Manager
<1>2. CASE m.status = "WaitingForSnapshot"
  <2>1. out.m = BufferUpdate(m, u)
    BY <1>1, <1>2, OnOwnUpdate
  <2>2. out.m.status = "WaitingForSnapshot"
    BY <1>1, <1>2, <2>1, BufferUpdateType
  <2>3. CASE MaxBufferedUpdates > 0
    <3>1. out.m.buffer[Len(out.m.buffer)] = u
      BY <1>1, <2>1, <2>3, BufferUpdateType
    <3> QED BY <2>2, <3>1 DEF CurrentAt, Ready
  <2>4. CASE MaxBufferedUpdates = 0
    <3>1. out.m.buffer = <<>>
      BY <1>1, <2>1, <2>4, BufferUpdateType
    <3> QED BY <2>2, <3>1 DEF CurrentAt, Ready
  <2> QED BY <2>3, <2>4, BufferAssumption
<1>3. CASE NeedResync(m)
  <2>1. out.m = m
    BY <1>1, <1>3, OnOwnUpdate
  <2> QED BY <1>1, <1>3, <2>1 DEF NeedResync, Ready, CurrentAt
<1>4. CASE Ready(m)
  <2>1. Ready(out.m) => out.m.book.last_update_id >= u.final_update_id
    BY <1>1, <1>4, OnOwnUpdate
  <2>2. /\ out.m \in Manager /\ out.m.buffer = m.buffer
        /\ out.m.book \in {m.book, BookApplyUpdate(m.book, u)}
        /\ \/ out.m.book = m.book
           \/ out.m.book.last_update_id > m.book.last_update_id
    BY <1>1, <1>4, OnUpdateType
  <2>3. PICK base \in 0..MaxId : base <= m.book.last_update_id /\ BookMatches(m.book, base)
    BY <1>4 DEF CurrentAt
  <2>4. BookMatches(BookApplyUpdate(m.book, u), base)
    BY <1>1, <2>3, UpdateKeepsMatch DEF Manager
  <2>5. BookMatches(out.m.book, base)
    BY <2>2, <2>3, <2>4
  <2>6. base <= out.m.book.last_update_id
    <3>1. /\ m.book.last_update_id \in Nat /\ out.m.book.last_update_id \in Nat
          /\ base \in Nat
      BY <1>1, <2>2, MaxIdAssumption DEF Manager, Book
    <3> QED BY <2>2, <2>3, <3>1
  <2>7. out.m.buffer = <<>>
    BY <1>1, <1>4, <2>2 DEF Ready
  <2> QED BY <2>1, <2>5, <2>6, <2>7 DEF CurrentAt
<1> QED BY <1>1, <1>2, <1>3, <1>4 DEF Status, NeedResync, Ready

\* apply_snapshot on a snapshot of the manager's own feed; if updates wait for it, a book
\* that becomes ready is not behind the last of them.
LEMMA SoundSnapshot ==
    ASSUME NEW m, ManagerSound(m), NEW f, NEW v \in 0..MaxId,
           NEW out, out = ApplySnapshot(f, m, DepthSnapshot(f, v))
    PROVE  /\ ManagerSound(out.m)
           /\ out.m.status \in {"Ready", "NeedResync"}
           /\ out.result = "SnapshotApplied" <=> Ready(out.m)
           /\ \A d : m.buffer # <<>> /\ CurrentAt(m, d) => CurrentAt(out.m, d)
<1>1. m \in Manager
  BY DEF ManagerSound
<1>2. /\ out.m \in Manager
      /\ out.m.status \in {"Ready", "NeedResync"}
      /\ out.m.buffer = <<>> /\ out.m.book.initialized
      /\ BookMatches(out.m.book, v) /\ out.m.book.last_update_id >= v
      /\ out.result = "SnapshotApplied" <=> out.m.status = "Ready"
      /\ m.buffer # <<>> /\ out.m.status = "Ready" =>
             out.m.book.last_update_id >= m.buffer[Len(m.buffer)].final_update_id
  BY <1>1, ApplySnapshotType
<1>3. ManagerSound(out.m)
  BY <1>2, BufferAssumption DEF ManagerSound
<1>4. ASSUME NEW d, m.buffer # <<>>, CurrentAt(m, d)
      PROVE  CurrentAt(out.m, d)
  BY <1>2, <1>4 DEF CurrentAt, Ready
<1> QED BY <1>2, <1>3, <1>4 DEF Ready
=============================================================================
