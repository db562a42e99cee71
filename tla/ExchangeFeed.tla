---------------------------- MODULE ExchangeFeed ----------------------------
(***************************************************************************)
(* The exchange as src/ uses it (external: no code of it is in src/).      *)
(*                                                                         *)
(* An exchange numbers the changes of a symbol's book 1, 2, 3, ...; after   *)
(* change v the book is Truth[v].  A depth message covers the changes      *)
(* first_update_id to final_update_id: it names every level that one of    *)
(* them touched, with the quantity it has after the last.  A REST snapshot *)
(* holds the book at its last_update_id, cut to the SnapshotLimit best     *)
(* levels of each side (book_snapshot_limit in the requests of             *)
(* src/main.cpp).                                                          *)
(***************************************************************************)
EXTENDS OrderBook, FiniteSets

CONSTANTS
    MaxId,              \* bound: the last change of the exchange's book
    Truth,              \* Truth[v]: both sides of the book after change v
    SnapshotLimit       \* levels per side of a snapshot

ASSUME FinitePrices == IsFiniteSet(Price)
ASSUME MaxIdAssumption == MaxId \in Nat
ASSUME TruthAssumption == Truth \in [0..MaxId -> [bids : Side, asks : Side]]
ASSUME SnapshotLimitAssumption == SnapshotLimit \in Nat

\* An exchange matches crossing orders: its own book is never crossed.
ASSUME TruthNotCrossed ==
    \A v \in 0..MaxId :
        \A b \in Quoted(Truth[v].bids), a \in Quoted(Truth[v].asks) : b < a

\* The ranges of changes a depth message can cover.
UpdateRange == {r \in (1..MaxId) \X (1..MaxId) : r[1] <= r[2]}

TouchedBids(first, final) ==
    {p \in Price : \E v \in first..final : Truth[v].bids[p] # Truth[v - 1].bids[p]}
TouchedAsks(first, final) ==
    {p \in Price : \E v \in first..final : Truth[v].asks[p] # Truth[v - 1].asks[p]}

DepthUpdate(feed, first, final) ==
    [feed |-> feed,
     first_update_id |-> first,
     final_update_id |-> final,
     bids |-> [p \in TouchedBids(first, final) |-> Truth[final].bids[p]],
     asks |-> [p \in TouchedAsks(first, final) |-> Truth[final].asks[p]]]

\* The prices a snapshot of change v speaks for: those with fewer than
\* SnapshotLimit better levels.
CoveredBids(v) ==
    {p \in Price : Cardinality({q \in Quoted(Truth[v].bids) : q > p}) < SnapshotLimit}
CoveredAsks(v) ==
    {p \in Price : Cardinality({q \in Quoted(Truth[v].asks) : q < p}) < SnapshotLimit}

DepthSnapshot(feed, v) ==
    [feed |-> feed,
     last_update_id |-> v,
     bids |-> [p \in CoveredBids(v) \cap Quoted(Truth[v].bids) |-> Truth[v].bids[p]],
     asks |-> [p \in CoveredAsks(v) \cap Quoted(Truth[v].asks) |-> Truth[v].asks[p]]]

\* A side agrees with the exchange's: no level of it is wrong, and none is
\* missing that the snapshot spoke for.
SideMatches(side, true, covered) ==
    \A p \in Price : side[p] = true[p] \/ (side[p] = 0 /\ p \notin covered)

\* A book agrees with the exchange's as of its last_update_id, v being the change its
\* last snapshot was taken at.
BookMatches(book, v) ==
    /\ book.last_update_id \in 0..MaxId
    /\ SideMatches(book.bids, Truth[book.last_update_id].bids, CoveredBids(v))
    /\ SideMatches(book.asks, Truth[book.last_update_id].asks, CoveredAsks(v))

\* The bids and asks of a book after change v: some snapshot, of change v or earlier,
\* did not reach down to the levels that are missing.
SidesMatch(sides, v) ==
    /\ sides \in [bids : Side, asks : Side]
    /\ \E base \in 0..v :
        /\ SideMatches(sides.bids, Truth[v].bids, CoveredBids(base))
        /\ SideMatches(sides.asks, Truth[v].asks, CoveredAsks(base))
=============================================================================
