--------------------------- MODULE ArbitrageEngine ---------------------------
(***************************************************************************)
(* The depth-aware engine of src/engine/ArbitrageEngine.cpp on the books   *)
(* of one symbol, and the top-of-book spread of src/main.cpp it is         *)
(* reported beside.  One iteration of the walk over the asks of one        *)
(* exchange and the bids of the other is one step.                         *)
(*                                                                         *)
(* Numbers are integers: quantities are counted in a unit fine enough for  *)
(* the division by a price to be exact, and a quotient is kept as its      *)
(* numerator and denominator.  The rounding of doubles is left out, so     *)
(* "at most kEpsilon" is "at most 0".                                      *)
(***************************************************************************)
EXTENDS OrderBook, FiniteSets, Sequences

CONSTANTS
    BookPairs,              \* the pairs of books there are to scan
    TakerFeeBps,            \* taker fee of each exchange
    MinNetSpreadBps, MinNotional, MaxNotional, MaxDepthLevels

Exchanges == {"binance", "mexc"}
BpsMultiplier == 10000

ASSUME BookPairsAssumption == BookPairs \subseteq [Exchanges -> Book]
ASSUME BooksNotCrossed ==
    \A books \in BookPairs, e \in Exchanges :
        \A b \in Quoted(books[e].bids), a \in Quoted(books[e].asks) : b < a
ASSUME FiniteLevels == IsFiniteSet(Price)
ASSUME SettingsAssumption ==
    /\ TakerFeeBps \in [Exchanges -> Nat]
    /\ MinNetSpreadBps \in Int /\ MinNotional \in Nat /\ MaxNotional \in Nat
    /\ MaxDepthLevels \in Nat

VARIABLES
    books,                  \* the book of each exchange
    buy_exchange,           \* the direction under evaluation
    pc,                     \* "begin", "walk" or "done"
    walk,                   \* the local variables of evaluate_direction
    opportunities           \* what scan_symbol returns

vars == <<books, buy_exchange, pc, walk, opportunities>>

SmallerOf(a, b) == IF a <= b THEN a ELSE b
Other(e) == IF e = "binance" THEN "mexc" ELSE "binance"

\* top_bids and top_asks: the best prices, best first, at most limit of them.
TopBids(side, limit) ==
    [i \in 1..SmallerOf(limit, Cardinality(Quoted(side))) |->
        CHOOSE p \in Quoted(side) : Cardinality({q \in Quoted(side) : q > p}) = i - 1]
TopAsks(side, limit) ==
    [i \in 1..SmallerOf(limit, Cardinality(Quoted(side))) |->
        CHOOSE p \in Quoted(side) : Cardinality({q \in Quoted(side) : q < p}) = i - 1]

buy_side == books[buy_exchange].asks
sell_side == books[Other(buy_exchange)].bids
asks == TopAsks(buy_side, MaxDepthLevels)
bids == TopBids(sell_side, MaxDepthLevels)

NoWalk == [ask_index |-> 0, bid_index |-> 0, ask_remaining |-> 0, bid_remaining |-> 0,
           cap |-> 0, base |-> 0, buy |-> 0, sell |-> 0]

Init ==
    /\ books \in BookPairs
    /\ buy_exchange = "binance"
    /\ pc = IF \A e \in Exchanges : books[e].initialized THEN "begin" ELSE "done"
    /\ walk = NoWalk
    /\ opportunities = <<>>

-----------------------------------------------------------------------------
\* Mutant: the fee of the sale is forgotten.
NetProfitNoSellFee(buyer, buy, sell) ==
    (sell - buy) * BpsMultiplier - buy * TakerFeeBps[buyer]

\* Net profit of a trade, times BpsMultiplier.
NetProfit(buyer, buy, sell) ==
    (sell - buy) * BpsMultiplier
        - (buy * TakerFeeBps[buyer] + sell * TakerFeeBps[Other(buyer)])

\* left.net_spread_bps > right.net_spread_bps, of opportunities.
Better(left, right) == left.net * right.buy > right.net * left.buy

Sorted(found) ==
    IF Len(found) = 2 /\ Better(found[2], found[1]) THEN <<found[2], found[1]>> ELSE found

\* The other direction, and after it the sort and the end.
NextDirection(found) ==
    IF buy_exchange = "binance"
    THEN buy_exchange' = "mexc" /\ pc' = "begin" /\ opportunities' = found
    ELSE pc' = "done" /\ opportunities' = Sorted(found) /\ UNCHANGED buy_exchange

FindsNothing ==
    /\ pc = "begin"
    /\ asks = <<>> \/ bids = <<>>
    /\ NextDirection(opportunities)
    /\ UNCHANGED <<books, walk>>

\* The walk at the best levels, with nothing filled.
Begun ==
    [NoWalk EXCEPT !.ask_index = 1, !.bid_index = 1,
                   !.ask_remaining = buy_side[asks[1]],
                   !.bid_remaining = sell_side[bids[1]],
                   !.cap = MaxNotional]

BeginsWalk ==
    /\ pc = "begin"
    /\ asks # <<>> /\ bids # <<>>
    /\ walk' = Begun
    /\ pc' = "walk"
    /\ UNCHANGED <<books, buy_exchange, opportunities>>

\* Mutant: the notional cap is not applied to the quantity.
ExecutableUncapped == SmallerOf(walk.ask_remaining, walk.bid_remaining)

Executable ==
    SmallerOf(SmallerOf(walk.ask_remaining, walk.bid_remaining),
              walk.cap \div asks[walk.ask_index])

\* Mutant: the walk stops where the fees eat up the margin of a level.
WalksOnAboveFees ==
    /\ walk.ask_index <= Len(asks) /\ walk.bid_index <= Len(bids)
    /\ walk.cap > 0
    /\ asks[walk.ask_index] > 0 /\ bids[walk.bid_index] > 0
    /\ NetProfit(buy_exchange, asks[walk.ask_index], bids[walk.bid_index]) > 0
    /\ Executable > 0

\* The loop condition and the breaks in front of the fill.
WalksOn ==
    /\ walk.ask_index <= Len(asks) /\ walk.bid_index <= Len(bids)
    /\ walk.cap > 0
    /\ asks[walk.ask_index] > 0 /\ bids[walk.bid_index] > 0
    /\ bids[walk.bid_index] > asks[walk.ask_index]
    /\ Executable > 0

\* Mutant: a used-up level is left, but what remains of the next is not loaded.
LevelAfterNotLoaded(side, levels, index, remaining) ==
    IF remaining > 0 THEN <<index, remaining>> ELSE <<index + 1, side[levels[index]]>>

\* The level the walk stands on and what remains of it, once remaining is left.
LevelAfter(side, levels, index, remaining) ==
    IF remaining > 0 THEN <<index, remaining>>
    ELSE IF index = Len(levels) THEN <<index + 1, remaining>>
    ELSE <<index + 1, side[levels[index + 1]]>>

\* Mutant: the cap is not lowered by what a fill costs.
FilledCapKept ==
    LET qty == Executable
        on_ask == LevelAfter(buy_side, asks, walk.ask_index, walk.ask_remaining - qty)
        on_bid == LevelAfter(sell_side, bids, walk.bid_index, walk.bid_remaining - qty)
    IN  [ask_index |-> on_ask[1], ask_remaining |-> on_ask[2],
         bid_index |-> on_bid[1], bid_remaining |-> on_bid[2],
         cap |-> walk.cap, base |-> walk.base + qty,
         buy |-> walk.buy + qty * asks[walk.ask_index],
         sell |-> walk.sell + qty * bids[walk.bid_index]]

\* The walk after one more fill.
Filled ==
    LET ask == asks[walk.ask_index]
        bid == bids[walk.bid_index]
        qty == Executable
        on_ask == LevelAfter(buy_side, asks, walk.ask_index, walk.ask_remaining - qty)
        on_bid == LevelAfter(sell_side, bids, walk.bid_index, walk.bid_remaining - qty)
    IN  [ask_index |-> on_ask[1], ask_remaining |-> on_ask[2],
         bid_index |-> on_bid[1], bid_remaining |-> on_bid[2],
         cap |-> walk.cap - qty * ask,
         base |-> walk.base + qty,
         buy |-> walk.buy + qty * ask,
         sell |-> walk.sell + qty * bid]

Fills ==
    /\ pc = "walk"
    /\ WalksOn
    /\ walk' = Filled
    /\ UNCHANGED <<books, buy_exchange, pc, opportunities>>

\* Mutant: the minimum notional is not checked.
PassesAnyNotional ==
    /\ walk.base > 0 /\ walk.buy > 0
    /\ NetProfit(buy_exchange, walk.buy, walk.sell) >= MinNetSpreadBps * walk.buy

\* Something was executable, enough of it, and with enough of a spread.
Passes ==
    /\ walk.base > 0 /\ walk.buy > 0
    /\ walk.buy >= MinNotional
    /\ NetProfit(buy_exchange, walk.buy, walk.sell) >= MinNetSpreadBps * walk.buy

Opportunity ==
    [buy_exchange |-> buy_exchange, base |-> walk.base, buy |-> walk.buy, sell |-> walk.sell,
     net |-> NetProfit(buy_exchange, walk.buy, walk.sell)]

\* What the walk comes to: one opportunity or none.
Concluded == IF Passes THEN <<Opportunity>> ELSE <<>>

Concludes ==
    /\ pc = "walk"
    /\ ~WalksOn
    /\ NextDirection(opportunities \o Concluded)
    /\ UNCHANGED <<books, walk>>

Done == pc = "done" /\ UNCHANGED vars

Next == FindsNothing \/ BeginsWalk \/ Fills \/ Concludes \/ Done

Spec == Init /\ [][Next]_vars

-----------------------------------------------------------------------------
(* The top-of-book spread.                                                 *)

\* compute_top_of_book_spread: the direction whose spread is larger, Binance first
\* when they are equal.  There is a spread when both books have both sides.
TopSpread(b, m) ==
    LET bid(book) == CHOOSE p \in BestBid(book.bids) : TRUE
        ask(book) == CHOOSE p \in BestAsk(book.asks) : TRUE
        at_binance == [buy_exchange |-> "binance", ask |-> ask(b), bid |-> bid(m)]
        at_mexc == [buy_exchange |-> "mexc", ask |-> ask(m), bid |-> bid(b)]
    IN  IF (at_mexc.bid - at_mexc.ask) * at_binance.ask
             > (at_binance.bid - at_binance.ask) * at_mexc.ask
        THEN at_mexc ELSE at_binance

HasTopSpread(b, m) ==
    /\ \A book \in {b, m} : BestBid(book.bids) # {} /\ BestAsk(book.asks) # {}
    /\ \A book \in {b, m} : \A p \in BestAsk(book.asks) : p > 0

-----------------------------------------------------------------------------
Walk == [ask_index : Nat, bid_index : Nat, ask_remaining : Nat, bid_remaining : Nat,
         cap : Nat, base : Nat, buy : Nat, sell : Nat]

TypeOK ==
    /\ books \in BookPairs
    /\ buy_exchange \in Exchanges
    /\ pc \in {"begin", "walk", "done"}
    /\ walk \in Walk
    /\ opportunities \in Seq([buy_exchange : Exchanges, base : Nat, buy : Nat, sell : Nat,
                              net : Int])

\* A quantity traded from the best level on, level by level: what of it is left for
\* the next levels, and what the rest is worth ...
Traded(side, levels, quantity) ==
    LET after[i \in 0..Len(levels)] ==
            IF i = 0 THEN [left |-> quantity, value |-> 0]
            ELSE LET before == after[i - 1]
                     part == SmallerOf(before.left, side[levels[i]])
                 IN  [left |-> before.left - part, value |-> before.value + part * levels[i]]
    IN  after

\* ... and after the last level: written without the walk, for the walk to be held
\* against.
Trade(side, levels, quantity) == Traded(side, levels, quantity)[Len(levels)]

\* Whatever the walk has filled so far can be traded: both books hold the quantity
\* within the depth limit, it costs and brings what the walk says, and the cap went
\* down by just its cost and is not exceeded (evaluate_direction).
WalkIsExecutable ==
    pc = "walk" =>
        /\ Trade(buy_side, asks, walk.base) = [left |-> 0, value |-> walk.buy]
        /\ Trade(sell_side, bids, walk.base) = [left |-> 0, value |-> walk.sell]
        /\ walk.cap = MaxNotional - walk.buy /\ walk.cap >= 0

\* The loop of evaluate_direction ends: an iteration moves on to the next level of one
\* side, or it is the last, so that there are no more of them than levels.
WalkAdvances ==
    [][Fills => \/ walk'.ask_index + walk'.bid_index > walk.ask_index + walk.bid_index
                \/ ~WalksOn']_vars

\* Where the walk stops, no other quantity the cap and the depth allow has a larger
\* gross profit: neither does it stop early, nor go past the last level that pays.
WalkIsOptimal ==
    pc = "walk" /\ ~WalksOn =>
        \A quantity \in 0..MaxNotional :
            LET bought == Trade(buy_side, asks, quantity)
                sold == Trade(sell_side, bids, quantity)
            IN  bought.left = 0 /\ sold.left = 0 /\ bought.value <= MaxNotional
                    => sold.value - bought.value <= walk.sell - walk.buy

\* An opportunity is one in the direction of the top-of-book spread that is logged
\* beside it, and the net spread over its depth is no larger than the one at the top,
\* although the two are computed apart, with the fees counted differently.  So never
\* are both directions of a pair of books reported.
TopSpreadBounds ==
    HasTopSpread(books["binance"], books["mexc"]) =>
        LET top == TopSpread(books["binance"], books["mexc"])
            fees == TakerFeeBps["binance"] + TakerFeeBps["mexc"]
        IN  \A i \in DOMAIN opportunities :
                /\ opportunities[i].buy_exchange = top.buy_exchange
                /\ opportunities[i].net * top.ask
                     <= ((top.bid - top.ask) * BpsMultiplier - fees * top.ask)
                            * opportunities[i].buy

\* What is reported passed every filter of the configuration: the notional lies
\* between the two bounds, although the code checks but one of them at the end.
FiltersHold ==
    \A i \in DOMAIN opportunities :
        /\ opportunities[i].buy \in MinNotional..MaxNotional
        /\ opportunities[i].net >= MinNetSpreadBps * opportunities[i].buy
=============================================================================
