------------------------------ MODULE MarketScan ------------------------------
(***************************************************************************)
(* The scans of src/main.cpp over a MarketDataStore, by mode:              *)
(*   "snapshots"  run_snapshot_arbitrage_scan                              *)
(*   "top"        run_snapshot_top_spread_scan                             *)
(*   "live"       scan_live_store_once, of a round of the live scanner     *)
(* The first two load the store with one REST request per exchange and     *)
(* symbol.  What a symbol's books come to is computed by ArbitrageEngine.  *)
(***************************************************************************)
EXTENDS MarketDataStore, Parsers

CONSTANTS
    SymbolLists,            \* values of config.symbols
    Bodies,                 \* what the exchanges may answer
    LiveStores,             \* what build_live_store_from_managers may return
    SpreadsToPrint, OpportunitiesToPrint,   \* what a live scan prints at most: 3 and 10
    TakerFeeBps, MinNetSpreadBps, MinNotional, MaxNotional, MaxDepthLevels

Exchanges == {"binance", "mexc"}
Modes == {"snapshots", "top", "live"}
MaxAttempts == 3

SymbolsOf(list) == {list[i] : i \in DOMAIN list}
FeedsOf(list) == Exchanges \X SymbolsOf(list)

ASSUME ListAssumption == SymbolLists \subseteq Seq(STRING) \ {<<>>}
ASSUME BodiesAssumption == Bodies \subseteq Body
ASSUME LiveAssumption ==
    \A store \in LiveStores : \A f \in DOMAIN store : store[f] \in Book /\ store[f].initialized
ASSUME PrintAssumption == SpreadsToPrint \in Nat \ {0} /\ OpportunitiesToPrint \in Nat
ASSUME FiniteLevels == IsFiniteSet(Price)
ASSUME SettingsAssumption ==
    /\ TakerFeeBps \in [Exchanges -> Nat]
    /\ MinNetSpreadBps \in Int /\ MinNotional \in Nat /\ MaxNotional \in Nat
    /\ MaxDepthLevels \in Nat

VARIABLES
    mode, symbols,          \* the command line and the configuration
    pc,                     \* "load", "scan", "report" or "done"
    request, attempt,       \* the request of the loading loop, its current attempt
    store,
    loaded,                 \* binance_loaded and mexc_loaded
    index,                  \* symbols scanned
    ready_pairs, spreads, opportunities,
    printed,                \* the lines of spreads and opportunities in the log
    answers,                \* history: the answer to each request that had one
    failures                \* history: the failed attempts of each that had none

loadVars == <<request, attempt, store, loaded, answers, failures>>
scanVars == <<index, ready_pairs, spreads, opportunities>>
vars == <<mode, symbols, pc, loadVars, scanVars, printed>>

Init ==
    /\ mode \in Modes
    /\ symbols \in SymbolLists
    /\ store \in IF mode = "live" THEN {s \in LiveStores : DOMAIN s \subseteq FeedsOf(symbols)}
                ELSE {EmptyStore}
    /\ pc = IF mode = "live" THEN "scan" ELSE "load"
    /\ request = 1 /\ attempt = 1
    /\ loaded = [e \in Exchanges |-> 0]
    /\ index = 0 /\ ready_pairs = 0
    /\ spreads = <<>> /\ opportunities = <<>>
    /\ printed = [spreads |-> <<>>, opportunities |-> <<>>]
    /\ answers = <<>> /\ failures = <<>>

-----------------------------------------------------------------------------
(* Loading: Binance and MEXC in turn, symbol by symbol.                    *)

Asked(r) == <<IF r % 2 = 1 THEN "binance" ELSE "mexc", symbols[(r + 1) \div 2]>>

NextRequest ==
    /\ attempt' = 1
    /\ IF request < 2 * Len(symbols)
       THEN request' = request + 1 /\ UNCHANGED pc
       ELSE pc' = "scan" /\ UNCHANGED request

Loads(body) ==
    LET feed == Asked(request)
        snapshot == Snapshot(body)
    IN  /\ pc = "load"
        /\ SnapshotParses(body)
        /\ store' = SetBook(store, feed[1], feed[2], BookApplySnapshot(snapshot))
        /\ loaded' = [loaded EXCEPT ![feed[1]] = @ + 1]
        /\ answers' = Put(answers, request, snapshot)
        /\ failures' = [r \in DOMAIN failures \ {request} |-> failures[r]]
        /\ NextRequest
        /\ UNCHANGED <<mode, symbols, scanVars, printed>>

\* Mutant: the first request that is given up ends the loading.
FailsEndsLoading ==
    /\ pc = "load"
    /\ IF attempt < MaxAttempts
       THEN attempt' = attempt + 1 /\ UNCHANGED <<pc, request>>
       ELSE pc' = "scan" /\ UNCHANGED <<attempt, request>>
    /\ failures' = Put(failures, request, attempt)
    /\ UNCHANGED <<mode, symbols, store, loaded, answers, scanVars, printed>>

\* The request or its parsing throws.  The last attempt throws it on, to the loop,
\* which logs it and goes on with the next request.
Fails ==
    /\ pc = "load"
    /\ IF attempt < MaxAttempts
       THEN attempt' = attempt + 1 /\ UNCHANGED <<pc, request>>
       ELSE NextRequest
    /\ failures' = Put(failures, request, attempt)
    /\ UNCHANGED <<mode, symbols, store, loaded, answers, scanVars, printed>>

-----------------------------------------------------------------------------
(* What the books of one symbol come to.                                   *)

Books(symbol) == [e \in Exchanges |-> GetBook(store, e, symbol)]

\* evaluate_direction at a state of its walk.
Engine(books, buy_exchange, walk) ==
    INSTANCE ArbitrageEngine WITH BookPairs <- {}, pc <- "walk", opportunities <- <<>>

\* evaluate_direction, from the beginning of the walk to its end.  Each iteration uses up
\* a level or is the last one, so there are no more of them than levels.
Direction(books, buyer) ==
    LET asks == Engine(books, buyer, <<>>)!asks
        bids == Engine(books, buyer, <<>>)!bids
        levels == Len(asks) + Len(bids)
        after[n \in 0..levels] ==
            IF n = 0 THEN Engine(books, buyer, <<>>)!Begun
            ELSE IF Engine(books, buyer, after[n - 1])!WalksOn
            THEN Engine(books, buyer, after[n - 1])!Filled
            ELSE after[n - 1]
    IN  IF asks = <<>> \/ bids = <<>> THEN <<>>
        ELSE Engine(books, buyer, after[levels])!Concluded

\* scan_symbol.
ScanSymbol(symbol) ==
    LET found == Engine(Books(symbol), "binance", <<>>)!Sorted(
                    Direction(Books(symbol), "binance") \o Direction(Books(symbol), "mexc"))
    IN  [i \in DOMAIN found |-> [symbol |-> symbol, buy_exchange |-> found[i].buy_exchange,
                                 net |-> found[i].net, buy |-> found[i].buy]]

HasSpread(symbol) ==
    LET books == Books(symbol)
    IN  Engine(books, "binance", <<>>)!HasTopSpread(books["binance"], books["mexc"])

\* Mutant: only the purchase on Binance is looked at.
SpreadAtBinance(symbol) ==
    LET ask == CHOOSE p \in BestAsk(Books(symbol)["binance"].asks) : TRUE
        bid == CHOOSE p \in BestBid(Books(symbol)["mexc"].bids) : TRUE
    IN  [symbol |-> symbol, buy_exchange |-> "binance", buy |-> ask,
         net |-> (bid - ask) * 10000
                    - (TakerFeeBps["binance"] + TakerFeeBps["mexc"]) * ask]

\* compute_top_of_book_spread; net / buy is net_spread_bps, as of an opportunity.
Spread(symbol) ==
    LET books == Books(symbol)
        top == Engine(books, "binance", <<>>)!TopSpread(books["binance"], books["mexc"])
    IN  [symbol |-> symbol, buy_exchange |-> top.buy_exchange, buy |-> top.ask,
         net |-> (top.bid - top.ask) * 10000
                    - (TakerFeeBps["binance"] + TakerFeeBps["mexc"]) * top.ask]

-----------------------------------------------------------------------------
(* Scanning: one symbol after the other.                                   *)

HasPair(symbol) == \A e \in Exchanges : HasBook(store, e, symbol)
BothInitialized(symbol) == \A e \in Exchanges : GetBook(store, e, symbol).initialized

\* The symbols each mode does not skip.
Scanned(symbol) ==
    CASE mode = "snapshots" -> \A e \in Exchanges : HasReadyBook(store, e, symbol)
      [] mode = "top"       -> HasPair(symbol) /\ BothInitialized(symbol) /\ HasSpread(symbol)
      [] mode = "live"      -> HasPair(symbol) /\ BothInitialized(symbol)

SkipsSymbol ==
    /\ pc = "scan"
    /\ index < Len(symbols) /\ ~Scanned(symbols[index + 1])
    /\ index' = index + 1
    /\ UNCHANGED <<mode, symbols, pc, loadVars, ready_pairs, spreads, opportunities, printed>>

ScansSymbol ==
    LET symbol == symbols[index + 1]
    IN  /\ pc = "scan"
        /\ index < Len(symbols) /\ Scanned(symbol)
        /\ index' = index + 1
        /\ ready_pairs' = ready_pairs + 1
        /\ spreads' = IF mode # "snapshots" /\ HasSpread(symbol)
                      THEN Append(spreads, Spread(symbol)) ELSE spreads
        /\ opportunities' = IF mode # "top" THEN opportunities \o ScanSymbol(symbol)
                            ELSE opportunities
        /\ UNCHANGED <<mode, symbols, pc, loadVars, printed>>

\* left.net_spread_bps > right.net_spread_bps
Better(left, right) == left.net * right.buy > right.net * left.buy

\* The elements of a list in any order.
Reorderings(list) ==
    {[i \in DOMAIN list |-> list[q[i]]] :
        q \in {p \in [DOMAIN list -> DOMAIN list] :
                \A k \in DOMAIN list : \E i \in DOMAIN list : p[i] = k}}

\* std::sort with that order: equal elements end up in any order.
SortedLists(list) ==
    {sorted \in Reorderings(list) :
        \A i, j \in DOMAIN list : i < j => ~Better(sorted[j], sorted[i])}

Sorts ==
    /\ pc = "scan"
    /\ index = Len(symbols)
    /\ spreads' \in SortedLists(spreads)
    /\ opportunities' \in SortedLists(opportunities)
    /\ pc' = "report"
    /\ UNCHANGED <<mode, symbols, loadVars, index, ready_pairs, printed>>

First(list, limit) == SubSeq(list, 1, IF limit < Len(list) THEN limit ELSE Len(list))

\* Mutant: the last lines are printed in place of the first.
ReportsLast ==
    LET last(list, limit) == SubSeq(list, IF limit < Len(list) THEN Len(list) - limit + 1 ELSE 1, Len(list))
    IN  /\ pc = "report"
        /\ printed' = IF mode = "live"
                      THEN [spreads |-> last(spreads, SpreadsToPrint),
                            opportunities |-> last(opportunities, OpportunitiesToPrint)]
                      ELSE [spreads |-> spreads, opportunities |-> opportunities]
        /\ pc' = "done"
        /\ UNCHANGED <<mode, symbols, loadVars, scanVars>>

\* Only a live scan limits what it prints.
Reports ==
    /\ pc = "report"
    /\ printed' = IF mode = "live"
                  THEN [spreads |-> First(spreads, SpreadsToPrint),
                        opportunities |-> First(opportunities, OpportunitiesToPrint)]
                  ELSE [spreads |-> spreads, opportunities |-> opportunities]
    /\ pc' = "done"
    /\ UNCHANGED <<mode, symbols, loadVars, scanVars>>

Stays == pc = "done" /\ UNCHANGED vars

Next ==
    \/ \E body \in Bodies : Loads(body)
    \/ Fails \/ SkipsSymbol \/ ScansSymbol \/ Sorts \/ Reports
    \/ Stays

Spec == Init /\ [][Next]_vars

-----------------------------------------------------------------------------
NoSymbolTwice == \A i, j \in DOMAIN symbols : symbols[i] = symbols[j] => i = j

\* A request that fails costs its own book and nothing else: every request is made,
\* until it is answered or has failed three times, and each book is the last answer
\* to its feed, also where a later request for the same feed is given up.
FailureCostsOneBook ==
    mode # "live" /\ pc # "load" =>
        /\ \A r \in 1..(2 * Len(symbols)) :
                r \in DOMAIN answers \/ (r \in DOMAIN failures /\ failures[r] = MaxAttempts)
        /\ \A f \in FeedsOf(symbols) :
                LET mine == {r \in DOMAIN answers : Asked(r) = f}
                IN  IF mine = {} THEN ~HasBook(store, f[1], f[2])
                    ELSE \E r \in mine :
                            /\ \A q \in mine : q <= r
                            /\ GetBook(store, f[1], f[2]) = BookApplySnapshot(answers[r])

\* Two summaries are logged, of the store when it is loaded and of the scan at its
\* end; for distinct symbols they agree on the books loaded and on the pairs that are
\* ready, although each mode tests for a ready pair in its own way.
SummariesAgree ==
    mode # "live" /\ pc = "done" /\ NoSymbolTwice =>
        /\ \A e \in Exchanges : loaded[e] = BookCount(store, e)
        /\ ready_pairs =
                Cardinality(ReadySymbols(store, "binance") \cap ReadySymbols(store, "mexc"))

\* No line of all that is left out of kept is better than one that is in it.
BestAreKept(kept, all) ==
    \A i \in DOMAIN kept, j \in DOMAIN all :
        all[j] \in {kept[k] : k \in DOMAIN kept} \/ ~Better(all[j], kept[i])

\* Of the report: both of its lists hold the best lines there are.
PrintedAreBest ==
    pc = "done" =>
        /\ BestAreKept(printed.spreads, spreads)
        /\ BestAreKept(printed.opportunities, opportunities)

\* The first spread a live scan prints is an upper bound for every opportunity of
\* every symbol that has a spread: spreads and opportunities are computed and sorted
\* apart, over different depths.
FirstSpreadBoundsAll ==
    pc = "done" /\ mode = "live" =>
        \A i \in DOMAIN opportunities :
            HasSpread(opportunities[i].symbol) =>
                printed.spreads # <<>> /\ ~Better(opportunities[i], printed.spreads[1])

\* The report of a scan holds the best of what the books come to.
ReportIsBest == PrintedAreBest /\ FirstSpreadBoundsAll
=============================================================================
