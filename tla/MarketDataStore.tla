--------------------------- MODULE MarketDataStore ---------------------------
(***************************************************************************)
(* The store of src/market/MarketDataStore.cpp, as operators on functions  *)
(* from <<exchange, symbol>> to books: binance_books_ and mexc_books_ in   *)
(* one.                                                                    *)
(***************************************************************************)
EXTENDS OrderBook, FiniteSets

\* The constructor, and clear().
EmptyStore == <<>>

\* A map with the value of one key set, whether the key is new or not.
Put(map, key, value) ==
    [k \in DOMAIN map \cup {key} |-> IF k = key THEN value ELSE map[k]]

\* Mutant: a book that is already there is kept.
SetBookOnce(store, exchange, symbol, book) ==
    IF <<exchange, symbol>> \in DOMAIN store THEN store
    ELSE Put(store, <<exchange, symbol>>, book)

SetBook(store, exchange, symbol, book) == Put(store, <<exchange, symbol>>, book)

HasBook(store, exchange, symbol) == <<exchange, symbol>> \in DOMAIN store

\* get_book, where there is one.
GetBook(store, exchange, symbol) == store[<<exchange, symbol>>]

TwoSided(book) == book.initialized /\ BestBid(book.bids) # {} /\ BestAsk(book.asks) # {}

\* Mutant: a book without bids is ready.
HasReadyBookOneSided(store, exchange, symbol) ==
    /\ HasBook(store, exchange, symbol)
    /\ GetBook(store, exchange, symbol).initialized
    /\ BestAsk(GetBook(store, exchange, symbol).asks) # {}

HasReadyBook(store, exchange, symbol) ==
    HasBook(store, exchange, symbol) /\ TwoSided(GetBook(store, exchange, symbol))

ReadySymbols(store, exchange) ==
    {f[2] : f \in {g \in DOMAIN store : g[1] = exchange /\ TwoSided(store[g])}}

BookCount(store, exchange) == Cardinality({f \in DOMAIN store : f[1] = exchange})
=============================================================================
