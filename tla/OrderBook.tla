----------------------------- MODULE OrderBook -----------------------------
(***************************************************************************)
(* The order book of src/core/OrderBook.cpp, as operators on book records. *)
(*                                                                         *)
(* A side of the book is a std::map from price to quantity that only holds *)
(* quantities above zero.  Here it is the function that gives every price  *)
(* its quantity, 0 where the map has no entry.  Prices and quantities are  *)
(* integers: the code only compares prices, and stores quantities.         *)
(***************************************************************************)
EXTENDS Integers

CONSTANT Price          \* the price levels of the instrument

ASSUME PriceAssumption == Price \subseteq Int

Qty == Nat
Side == [Price -> Qty]
EmptySide == [p \in Price |-> 0]

Book == [bids : Side, asks : Side, last_update_id : Nat, initialized : BOOLEAN]

\* A book as its constructor, or clear(), leaves it.
EmptyBook == [bids |-> EmptySide, asks |-> EmptySide,
              last_update_id |-> 0, initialized |-> FALSE]

\* Mutant: a level with quantity 0 is skipped, not erased.
ApplyLevelsNoErase(side, levels) ==
    [p \in Price |->
        IF p \in DOMAIN levels /\ levels[p] > 0 THEN levels[p] ELSE side[p]]

\* The levels of a message are a partial function from prices to quantities; a
\* quantity of 0 or less erases the level, any other replaces it.
ApplyLevels(side, levels) ==
    [p \in Price |->
        IF p \notin DOMAIN levels THEN side[p]
        ELSE IF levels[p] <= 0 THEN 0 ELSE levels[p]]

\* A snapshot replaces the whole book, whatever it held.
BookApplySnapshot(snapshot) ==
    [bids |-> ApplyLevels(EmptySide, snapshot.bids),
     asks |-> ApplyLevels(EmptySide, snapshot.asks),
     last_update_id |-> snapshot.last_update_id,
     initialized |-> TRUE]

\* Mutant: the gap check accepts one missing change.
ApplyUpdateResultLateGap(book, update) ==
    IF ~book.initialized THEN "NotInitialized"
    ELSE IF update.final_update_id <= book.last_update_id THEN "IgnoredStale"
    ELSE IF update.first_update_id > book.last_update_id + 2 THEN "GapDetected"
    ELSE "Applied"

\* Mutant: no check for stale updates.
ApplyUpdateResultNoStale(book, update) ==
    IF ~book.initialized THEN "NotInitialized"
    ELSE IF update.first_update_id > book.last_update_id + 1 THEN "GapDetected"
    ELSE "Applied"

\* What apply_update returns ...
ApplyUpdateResult(book, update) ==
    IF ~book.initialized THEN "NotInitialized"
    ELSE IF update.final_update_id <= book.last_update_id THEN "IgnoredStale"
    ELSE IF update.first_update_id > book.last_update_id + 1 THEN "GapDetected"
    ELSE "Applied"

\* Mutant: the asks of the message are forgotten.
BookApplyUpdateBidsOnly(book, update) ==
    IF ApplyUpdateResult(book, update) # "Applied" THEN book
    ELSE [book EXCEPT !.bids = ApplyLevels(@, update.bids),
                      !.last_update_id = update.final_update_id]

\* ... and the book it leaves: changed only when the update was applied.
BookApplyUpdate(book, update) ==
    IF ApplyUpdateResult(book, update) # "Applied" THEN book
    ELSE [book EXCEPT !.bids = ApplyLevels(@, update.bids),
                      !.asks = ApplyLevels(@, update.asks),
                      !.last_update_id = update.final_update_id]

Quoted(side) == {p \in Price : side[p] > 0}

\* best_bid() and best_ask(), as the set of the one best price: empty when the
\* side is (std::nullopt).
BestBid(side) == {p \in Quoted(side) : \A q \in Quoted(side) : q <= p}
BestAsk(side) == {p \in Quoted(side) : \A q \in Quoted(side) : p <= q}
=============================================================================
