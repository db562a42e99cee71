-------------------------- MODULE MarketScan_proofs --------------------------
(***************************************************************************)
(* The loading and the report of the scans, for every list of symbols,     *)
(* every answer of the exchanges and every failure: a request that fails   *)
(* costs its own book, the two summaries agree, what is printed is the     *)
(* best there is, and the first spread printed bounds all opportunities,   *)
(* by the lemmas about the walk of the engine.                             *)
(***************************************************************************)
EXTENDS MarketScan, FiniteSetTheorems, TLAPS

\* How many requests were made to their end.
RequestsMade == IF pc = "load" THEN request - 1 ELSE 2 * Len(symbols)

\* The requests for a feed that were answered.
Answered(f) == {r \in DOMAIN answers : Asked(r) = f}

\* The symbols the scan is past, and those whose books are both ready.
Past == {symbols[i] : i \in 1..index}
ReadyPairs == ReadySymbols(store, "binance") \cap ReadySymbols(store, "mexc")

\* Where the loops are.
LoopsSound ==
    /\ mode \in Modes
    /\ symbols \in SymbolLists
    /\ pc \in {"load", "scan", "report", "done"}
    /\ request \in 1..(2 * Len(symbols))
    /\ attempt \in 1..MaxAttempts
    /\ index \in 0..Len(symbols)
    /\ pc = "load" => mode # "live" /\ index = 0
    /\ pc \in {"report", "done"} => index = Len(symbols)

\* Each request made was answered, or has failed as often as it may.
RequestsSound ==
    mode # "live" =>
        /\ DOMAIN answers \subseteq 1..RequestsMade
        /\ \A r \in 1..RequestsMade :
              r \in DOMAIN answers \/ (r \in DOMAIN failures /\ failures[r] = MaxAttempts)

\* Each book in the store is the last answer to its feed.
BooksSound ==
    /\ DOMAIN store \subseteq FeedsOf(symbols)
    /\ \A f \in DOMAIN store : store[f].initialized
    /\ mode # "live" =>
          \A f \in FeedsOf(symbols) :
              IF Answered(f) = {} THEN f \notin DOMAIN store
              ELSE /\ f \in DOMAIN store
                   /\ \E r \in Answered(f) :
                         /\ \A q \in Answered(f) : q <= r
                         /\ store[f] = BookApplySnapshot(answers[r])

\* The counters of the two summaries.
LoadedSound ==
    /\ loaded \in [Exchanges -> Nat]
    /\ mode # "live" /\ NoSymbolTwice => \A e \in Exchanges : loaded[e] = BookCount(store, e)

PricesPositive == \A p \in Price : p > 0

PairsSound ==
    PricesPositive /\ mode # "live" /\ NoSymbolTwice =>
        ready_pairs = Cardinality(Past \cap ReadyPairs)

IInv == LoopsSound /\ RequestsSound /\ BooksSound /\ LoadedSound /\ PairsSound

-----------------------------------------------------------------------------
(* Requests and feeds.                                                     *)

LEMMA ListFacts ==
    ASSUME symbols \in SymbolLists
    PROVE  /\ Len(symbols) \in Nat \ {0} /\ DOMAIN symbols = 1..Len(symbols)
           /\ IsFiniteSet(SymbolsOf(symbols))
<1>1. symbols \in Seq(STRING) /\ symbols # <<>>
  BY ListAssumption
<1>2. Len(symbols) \in Nat \ {0} /\ DOMAIN symbols = 1..Len(symbols)
  BY <1>1
<1>3. IsFiniteSet(SymbolsOf(symbols))
  <2>1. IsFiniteSet(1..Len(symbols))
    BY <1>2, FS_Interval
  <2> DEFINE S == SymbolsOf(symbols)
             nth == [i \in 1..Len(symbols) |-> symbols[i]]
  <2>2. nth \in Surjection(1..Len(symbols), S)
    BY <1>2 DEF SymbolsOf, Surjection
  <2> HIDE DEF nth, S
  <2>3. IsFiniteSet(S)
    BY <2>1, <2>2, FS_Surjection
  <2> QED BY <2>3 DEF S
<1> QED BY <1>2, <1>3

\* Every request asks for a feed of the list.
LEMMA AskedIsFeed ==
    ASSUME symbols \in SymbolLists, NEW r \in 1..(2 * Len(symbols))
    PROVE  /\ Asked(r) \in FeedsOf(symbols)
           /\ Asked(r) = <<Asked(r)[1], Asked(r)[2]>>
           /\ Asked(r)[1] \in Exchanges
<1> DEFINE k == (r + 1) \div 2
           e == IF r % 2 = 1 THEN "binance" ELSE "mexc"
<1>1. Len(symbols) \in Nat \ {0} /\ DOMAIN symbols = 1..Len(symbols)
  BY ListFacts
<1>2. k \in 1..Len(symbols)
  BY <1>1
<1>3. symbols[k] \in SymbolsOf(symbols)
  BY <1>1, <1>2 DEF SymbolsOf
<1>4. e \in Exchanges
  BY DEF Exchanges
<1>5. Asked(r) = <<e, symbols[k]>>
  BY DEF Asked
<1> QED BY <1>3, <1>4, <1>5 DEF FeedsOf

\* With distinct symbols no two requests ask for the same.
LEMMA AskedOnce ==
    ASSUME symbols \in SymbolLists, NoSymbolTwice,
           NEW r \in 1..(2 * Len(symbols)), NEW q \in 1..(2 * Len(symbols)),
           Asked(r) = Asked(q)
    PROVE  r = q
<1>1. Len(symbols) \in Nat \ {0} /\ DOMAIN symbols = 1..Len(symbols)
  BY ListFacts
<1> DEFINE k == (r + 1) \div 2
           l == (q + 1) \div 2
<1>2. k \in 1..Len(symbols) /\ l \in 1..Len(symbols)
  BY <1>1
<1>3. symbols[k] = symbols[l] /\ (r % 2 = 1 <=> q % 2 = 1)
  BY DEF Asked
<1>4. k = l
  <2> HIDE DEF k, l
  <2> QED BY <1>1, <1>2, <1>3 DEF NoSymbolTwice
<1>5. \A x, y \in Nat : (x + 1) \div 2 = (y + 1) \div 2 /\ (x % 2 = 1 <=> y % 2 = 1) => x = y
  OBVIOUS
<1>6. r \in Nat /\ q \in Nat
  BY <1>1
<1> QED BY <1>3, <1>4, <1>5, <1>6

-----------------------------------------------------------------------------
LEMMA InitIInv == Init => IInv
<1> SUFFICES ASSUME Init PROVE IInv
  OBVIOUS
<1>1. symbols \in SymbolLists /\ Len(symbols) \in Nat \ {0} /\ mode \in Modes
  BY ListFacts DEF Init
<1>2. /\ mode = "live" => store \in LiveStores /\ DOMAIN store \subseteq FeedsOf(symbols)
      /\ mode # "live" => store = EmptyStore
  BY DEF Init
<1>3. DOMAIN EmptyStore = {} /\ DOMAIN answers = {}
  BY DEF Init, EmptyStore
<1>4. LoopsSound
  BY <1>1 DEF Init, LoopsSound, Modes, MaxAttempts
<1>5. RequestsSound
  <2> SUFFICES ASSUME mode # "live" PROVE RequestsSound
    BY DEF RequestsSound
  <2>1. pc = "load" /\ request = 1
    BY DEF Init
  <2>2. RequestsMade = 0
    BY <2>1 DEF RequestsMade
  <2> QED BY <1>3, <2>2 DEF RequestsSound
<1>6. BooksSound
  <2>1. \A f : Answered(f) = {}
    BY <1>3 DEF Answered
  <2>2. DOMAIN store \subseteq FeedsOf(symbols)
    BY <1>2, <1>3
  <2>3. \A f \in DOMAIN store : store[f].initialized
    BY <1>2, <1>3, LiveAssumption
  <2> QED BY <1>2, <1>3, <2>1, <2>2, <2>3 DEF BooksSound
<1>7. LoadedSound
  <2> SUFFICES ASSUME mode # "live", NEW e \in Exchanges PROVE loaded[e] = BookCount(store, e)
    BY DEF LoadedSound, Init
  <2>1. {f \in DOMAIN store : f[1] = e} = {}
    BY <1>2, <1>3
  <2>2. BookCount(store, e) = 0
    BY <2>1, FS_EmptySet DEF BookCount
  <2> QED BY <2>2 DEF Init
<1>8. PairsSound
  <2>1. Past = {}
    BY DEF Init, Past
  <2>2. Past \cap ReadyPairs = {}
    BY <2>1
  <2> QED BY <2>2, FS_EmptySet DEF Init, PairsSound
<1> QED BY <1>4, <1>5, <1>6, <1>7, <1>8 DEF IInv

-----------------------------------------------------------------------------
(* Loading.                                                                *)

\* On to the next request, or past the last one.
LEMMA NextRequestMoves ==
    ASSUME LoopsSound, pc = "load", NextRequest, UNCHANGED <<mode, symbols, index>>
    PROVE  LoopsSound' /\ RequestsMade' = request /\ RequestsMade = request - 1
<1>1. Len(symbols) \in Nat \ {0} /\ symbols' = symbols /\ request \in 1..(2 * Len(symbols))
  BY ListFacts DEF LoopsSound
<1>2. CASE request < 2 * Len(symbols)
  <2>1. attempt' = 1 /\ request' = request + 1 /\ pc' = pc
    BY <1>2 DEF NextRequest
  <2> QED BY <1>1, <1>2, <2>1 DEF LoopsSound, RequestsMade, MaxAttempts
<1>3. CASE ~(request < 2 * Len(symbols))
  <2>1. attempt' = 1 /\ request' = request /\ pc' = "scan"
    BY <1>3 DEF NextRequest
  <2> QED BY <1>1, <1>3, <2>1 DEF LoopsSound, RequestsMade, MaxAttempts
<1> QED BY <1>2, <1>3

\* Before the scan no pair is counted.
LEMMA NothingScanned ==
    ASSUME PairsSound, index = 0, index' = 0,
           UNCHANGED <<mode, symbols, ready_pairs>>
    PROVE  PairsSound'
<1>1. Past \cap ReadyPairs = {} /\ Past' \cap ReadyPairs' = {}
  BY DEF Past
<1>2. NoSymbolTwice' <=> NoSymbolTwice
  BY DEF NoSymbolTwice
<1> QED BY <1>1, <1>2 DEF PairsSound

\* What a store of feeds holds can be counted.
LEMMA FeedsFinite ==
    ASSUME symbols \in SymbolLists, NEW s, DOMAIN s \subseteq FeedsOf(symbols), NEW e
    PROVE  /\ IsFiniteSet({f \in DOMAIN s : f[1] = e})
           /\ BookCount(s, e) \in Nat
<1>1. IsFiniteSet(Exchanges)
  <2>1. IsFiniteSet({"binance"} \cup {"mexc"})
    BY FS_Singleton, FS_Union
  <2>2. Exchanges = {"binance"} \cup {"mexc"}
    BY DEF Exchanges
  <2> QED BY <2>1, <2>2
<1>2. IsFiniteSet(FeedsOf(symbols))
  BY <1>1, ListFacts, FS_Product DEF FeedsOf
<1>3. {f \in DOMAIN s : f[1] = e} \in SUBSET FeedsOf(symbols)
  OBVIOUS
<1>4. IsFiniteSet({f \in DOMAIN s : f[1] = e})
  BY <1>2, <1>3, FS_Subset
<1> QED BY <1>4, FS_CardinalityType DEF BookCount

LEMMA LoadsKeeps ==
    ASSUME IInv, NEW body, Loads(body)
    PROVE  IInv'
<1>1. /\ LoopsSound /\ RequestsSound /\ BooksSound /\ LoadedSound /\ PairsSound
      /\ pc = "load" /\ mode # "live" /\ symbols \in SymbolLists /\ index = 0
  BY DEF IInv, Loads, LoopsSound
<1>2. PICK r, f, s : r = request /\ f = Asked(request) /\ s = Snapshot(body)
  OBVIOUS
<1>3. /\ store' = Put(store, f, BookApplySnapshot(s))
      /\ loaded' = [loaded EXCEPT ![f[1]] = @ + 1]
      /\ answers' = Put(answers, r, s)
      /\ failures' = [q \in DOMAIN failures \ {r} |-> failures[q]]
      /\ NextRequest
      /\ UNCHANGED <<mode, symbols, index, ready_pairs>>
  <2>1. f = <<f[1], f[2]>>
    BY <1>1, <1>2, AskedIsFeed DEF LoopsSound
  <2> QED BY <1>2, <2>1 DEF Loads, SetBook, scanVars
<1>4. LoopsSound' /\ RequestsMade' = r /\ RequestsMade = r - 1
  BY <1>1, <1>2, <1>3, NextRequestMoves
<1>5. /\ r \in 1..(2 * Len(symbols)) /\ Len(symbols) \in Nat /\ r \in Nat /\ r >= 1
      /\ f \in FeedsOf(symbols) /\ f[1] \in Exchanges /\ f = Asked(r)
  BY <1>1, <1>2, AskedIsFeed, ListFacts DEF LoopsSound
<1>6. /\ DOMAIN answers \subseteq 1..(r - 1)
      /\ \A q \in 1..(r - 1) :
            q \in DOMAIN answers \/ (q \in DOMAIN failures /\ failures[q] = MaxAttempts)
  BY <1>1, <1>4 DEF RequestsSound
<1>7. /\ DOMAIN answers' = DOMAIN answers \cup {r} /\ answers'[r] = s
      /\ \A q \in DOMAIN answers : q # r /\ answers'[q] = answers[q]
      /\ DOMAIN store' = DOMAIN store \cup {f} /\ store'[f] = BookApplySnapshot(s)
      /\ \A g \in DOMAIN store : g # f => store'[g] = store[g]
  BY <1>3, <1>5, <1>6 DEF Put
<1>8. RequestsSound'
  <2>1. DOMAIN answers' \subseteq 1..r
    BY <1>5, <1>6, <1>7
  <2>2. ASSUME NEW q \in 1..r
        PROVE  q \in DOMAIN answers' \/ (q \in DOMAIN failures' /\ failures'[q] = MaxAttempts)
    <3>1. CASE q = r
      BY <1>7, <3>1
    <3>2. CASE q # r
      <4>1. q \in 1..(r - 1)
        BY <1>5, <3>2
      <4> QED BY <1>3, <1>6, <1>7, <3>2, <4>1
    <3> QED BY <3>1, <3>2
  <2> QED BY <1>4, <2>1, <2>2 DEF RequestsSound, MaxAttempts
<1>9. \A q : Asked(q)' = Asked(q)
  BY <1>3 DEF Asked
<1>10. BooksSound'
  <2>1. DOMAIN store' \subseteq FeedsOf(symbols)' /\ FeedsOf(symbols)' = FeedsOf(symbols)
    BY <1>1, <1>3, <1>5, <1>7 DEF BooksSound, FeedsOf, SymbolsOf
  <2>2. \A g \in DOMAIN store' : store'[g].initialized
    <3>1. BookApplySnapshot(s).initialized
      BY DEF BookApplySnapshot
    <3> QED BY <1>1, <1>7, <3>1 DEF BooksSound
  <2>3. ASSUME NEW g \in FeedsOf(symbols)
        PROVE  IF Answered(g)' = {} THEN g \notin DOMAIN store'
               ELSE /\ g \in DOMAIN store'
                    /\ \E q \in Answered(g)' :
                          /\ \A p \in Answered(g)' : p <= q
                          /\ store'[g] = BookApplySnapshot(answers'[q])
    <3>1. Answered(g)' = {q \in DOMAIN answers \cup {r} : Asked(q) = g}
      BY <1>7, <1>9 DEF Answered
    <3>2. CASE g = f
      <4>1. r \in Answered(g)'
        BY <1>5, <3>1, <3>2
      <4>2. \A p \in Answered(g)' : p <= r
        BY <1>5, <1>6, <3>1
      <4> QED BY <1>7, <3>2, <4>1, <4>2
    <3>3. CASE g # f
      <4>1. Answered(g)' = Answered(g)
        BY <1>5, <3>1, <3>3 DEF Answered
      <4>2. IF Answered(g) = {} THEN g \notin DOMAIN store
            ELSE /\ g \in DOMAIN store
                 /\ \E q \in Answered(g) :
                       /\ \A p \in Answered(g) : p <= q
                       /\ store[g] = BookApplySnapshot(answers[q])
        BY <1>1 DEF BooksSound
      <4>3. \A q \in Answered(g) : answers'[q] = answers[q]
        BY <1>7 DEF Answered
      <4>4. (g \in DOMAIN store' <=> g \in DOMAIN store)
            /\ (g \in DOMAIN store => store'[g] = store[g])
        BY <1>7, <3>3
      <4> QED BY <4>1, <4>2, <4>3, <4>4
    <3> QED BY <3>2, <3>3
  <2> QED BY <2>1, <2>2, <2>3 DEF BooksSound
<1>11. LoadedSound'
  <2>1. loaded' \in [Exchanges -> Nat]
    BY <1>1, <1>3, <1>5 DEF LoadedSound
  <2>2. ASSUME NoSymbolTwice, NEW e \in Exchanges
        PROVE  loaded'[e] = BookCount(store', e)
    <3> DEFINE Old == {g \in DOMAIN store : g[1] = e}
               New == {g \in DOMAIN store' : g[1] = e}
    <3>1. f \notin DOMAIN store
      <4>1. Answered(f) = {}
        <5>1. ASSUME NEW q \in DOMAIN answers, Asked(q) = f PROVE FALSE
          <6>1. q \in 1..(2 * Len(symbols)) /\ q # r
            BY <1>5, <1>6
          <6> QED BY <1>1, <1>5, <2>2, <5>1, <6>1, AskedOnce
        <5> QED BY <5>1 DEF Answered
      <4> QED BY <1>1, <1>5, <4>1 DEF BooksSound
    <3>2. loaded[e] = Cardinality(Old) /\ IsFiniteSet(Old) /\ Cardinality(Old) \in Nat
      <4>1. loaded[e] = BookCount(store, e)
        BY <1>1, <2>2 DEF LoadedSound
      <4>2. DOMAIN store \subseteq FeedsOf(symbols)
        BY <1>1 DEF BooksSound
      <4> QED BY <1>1, <4>1, <4>2, FeedsFinite DEF BookCount
    <3>3. CASE f[1] = e
      <4>1. New = Old \cup {f} /\ f \notin Old
        BY <1>7, <3>1, <3>3
      <4>2. Cardinality(Old \cup {f}) = Cardinality(Old) + 1
        <5> HIDE DEF Old
        <5> QED BY <3>2, <4>1, FS_AddElement
      <4>3. loaded'[e] = loaded[e] + 1
        BY <1>1, <1>3, <1>5, <3>3 DEF LoadedSound
      <4> QED BY <3>2, <4>1, <4>2, <4>3 DEF BookCount
    <3>4. CASE f[1] # e
      <4>1. New = Old
        BY <1>7, <3>4
      <4>2. loaded'[e] = loaded[e]
        BY <1>1, <1>3, <1>5, <3>4 DEF LoadedSound
      <4> QED BY <3>2, <4>1, <4>2 DEF BookCount
    <3> QED BY <3>3, <3>4
  <2>3. NoSymbolTwice' <=> NoSymbolTwice
    BY <1>3 DEF NoSymbolTwice
  <2> QED BY <2>1, <2>2, <2>3 DEF LoadedSound
<1>12. PairsSound'
  BY <1>1, <1>3, NothingScanned
<1> QED BY <1>4, <1>8, <1>10, <1>11, <1>12 DEF IInv

LEMMA FailsKeeps ==
    ASSUME IInv, Fails
    PROVE  IInv'
<1>1. /\ LoopsSound /\ RequestsSound /\ BooksSound /\ LoadedSound /\ PairsSound
      /\ pc = "load" /\ mode # "live" /\ symbols \in SymbolLists /\ index = 0
      /\ request \in 1..(2 * Len(symbols)) /\ Len(symbols) \in Nat /\ attempt \in 1..MaxAttempts
  BY ListFacts DEF IInv, Fails, LoopsSound
<1>2. /\ failures' = Put(failures, request, attempt)
      /\ UNCHANGED <<mode, symbols, store, loaded, answers, index, ready_pairs>>
  BY DEF Fails, scanVars
<1>3. /\ DOMAIN failures' = DOMAIN failures \cup {request} /\ failures'[request] = attempt
      /\ \A q \in DOMAIN failures : q # request => failures'[q] = failures[q]
  BY <1>2 DEF Put
<1>4. LoopsSound' /\ RequestsSound'
  <2>1. /\ DOMAIN answers \subseteq 1..(request - 1)
        /\ \A q \in 1..(request - 1) :
              q \in DOMAIN answers \/ (q \in DOMAIN failures /\ failures[q] = MaxAttempts)
    BY <1>1 DEF RequestsSound, RequestsMade
  <2>2. \A q \in 1..(request - 1) :
            q \in DOMAIN answers \/ (q \in DOMAIN failures' /\ failures'[q] = MaxAttempts)
    BY <1>1, <1>3, <2>1
  <2>3. CASE attempt < MaxAttempts
    <3>1. attempt' = attempt + 1 /\ pc' = pc /\ request' = request
      BY <2>3 DEF Fails
    <3>2. RequestsMade' = request - 1
      BY <1>1, <3>1 DEF RequestsMade
    <3>3. LoopsSound'
      BY <1>1, <1>2, <2>3, <3>1 DEF LoopsSound, MaxAttempts
    <3> QED BY <1>2, <2>1, <2>2, <3>2, <3>3 DEF RequestsSound, MaxAttempts
  <2>4. CASE ~(attempt < MaxAttempts)
    <3>1. attempt = MaxAttempts /\ NextRequest
      BY <1>1, <2>4 DEF Fails, MaxAttempts
    <3>2. LoopsSound' /\ RequestsMade' = request
      BY <1>1, <1>2, <3>1, NextRequestMoves
    <3>3. \A q \in 1..request : q \in 1..(request - 1) \/ q = request
      BY <1>1
    <3>4. DOMAIN answers \subseteq 1..request
      BY <1>1, <2>1
    <3> QED BY <1>2, <1>3, <2>2, <3>1, <3>2, <3>3, <3>4 DEF RequestsSound, MaxAttempts
  <2> QED BY <2>3, <2>4
<1>5. BooksSound' /\ LoadedSound'
  BY <1>1, <1>2 DEF BooksSound, LoadedSound, Answered, Asked, NoSymbolTwice
<1>6. PairsSound'
  BY <1>1, <1>2, NothingScanned
<1> QED BY <1>4, <1>5, <1>6 DEF IInv

-----------------------------------------------------------------------------
(* Scanning.                                                               *)

\* What each mode that loads the store tests for comes to: both books are ready.
LEMMA ScannedArePairs ==
    ASSUME BooksSound, PricesPositive, mode \in {"snapshots", "top"}, NEW symbol
    PROVE  Scanned(symbol) <=> symbol \in ReadyPairs
<1> DEFINE Ready(e) == <<e, symbol>> \in DOMAIN store /\ TwoSided(store[<<e, symbol>>])
<1>1. \A f \in DOMAIN store : f = <<f[1], f[2]>> /\ store[f].initialized
  BY DEF BooksSound, FeedsOf
<1>2. ASSUME NEW e PROVE symbol \in ReadySymbols(store, e) <=> Ready(e)
  <2>1. ASSUME symbol \in ReadySymbols(store, e) PROVE Ready(e)
    <3>1. PICK f \in DOMAIN store : f[1] = e /\ TwoSided(store[f]) /\ symbol = f[2]
      BY <2>1 DEF ReadySymbols
    <3>2. f = <<e, symbol>>
      BY <1>1, <3>1
    <3> QED BY <3>1, <3>2
  <2>2. ASSUME Ready(e) PROVE symbol \in ReadySymbols(store, e)
    <3>1. <<e, symbol>>[1] = e /\ <<e, symbol>>[2] = symbol
      OBVIOUS
    <3> QED BY <2>2, <3>1 DEF ReadySymbols
  <2> QED BY <2>1, <2>2
<1>3. symbol \in ReadyPairs <=> Ready("binance") /\ Ready("mexc")
  BY <1>2 DEF ReadyPairs
<1>4. CASE mode = "snapshots"
  BY <1>3, <1>4 DEF Scanned, HasReadyBook, HasBook, GetBook, Exchanges
<1>5. CASE mode = "top"
  <2> DEFINE b == store[<<"binance", symbol>>]
             m == store[<<"mexc", symbol>>]
  <2>1. Scanned(symbol) <=> HasPair(symbol) /\ BothInitialized(symbol) /\ HasSpread(symbol)
    BY <1>5 DEF Scanned
  <2>2. HasPair(symbol) <=> <<"binance", symbol>> \in DOMAIN store /\ <<"mexc", symbol>> \in DOMAIN store
    BY DEF HasPair, HasBook, Exchanges
  <2>3. HasPair(symbol) => BothInitialized(symbol) /\ b.initialized /\ m.initialized
    BY <1>1, <2>2 DEF BothInitialized, GetBook, Exchanges
  <2>4. Books(symbol)["binance"] = b /\ Books(symbol)["mexc"] = m
    BY DEF Books, GetBook, Exchanges
  <2>5. ASSUME NEW x, NEW y
        PROVE  Engine(Books(symbol), "binance", <<>>)!HasTopSpread(x, y)
                 <=> /\ BestBid(x.bids) # {} /\ BestAsk(x.asks) # {}
                     /\ BestBid(y.bids) # {} /\ BestAsk(y.asks) # {}
    <3>1. \A book : \A p \in BestAsk(book.asks) : p > 0
      BY DEF PricesPositive, BestAsk, Quoted
    <3> QED BY <3>1 DEF Engine!HasTopSpread, Engine!BestBid, Engine!BestAsk, Engine!Quoted,
                        BestBid, BestAsk, Quoted
  <2>6. HasSpread(symbol) <=> /\ BestBid(b.bids) # {} /\ BestAsk(b.asks) # {}
                              /\ BestBid(m.bids) # {} /\ BestAsk(m.asks) # {}
    <3>1. HasSpread(symbol) <=> Engine(Books(symbol), "binance", <<>>)!HasTopSpread(
                                    Books(symbol)["binance"], Books(symbol)["mexc"])
      BY DEF HasSpread
    <3> QED BY <2>4, <2>5, <3>1
  <2> QED BY <1>3, <2>1, <2>2, <2>3, <2>6 DEF TwoSided
<1> QED BY <1>4, <1>5

\* One symbol more: it is counted if both its books are ready.
LEMMA PastGrows ==
    ASSUME IInv, index < Len(symbols), index' = index + 1, UNCHANGED <<symbols, store>>,
           PricesPositive, NoSymbolTwice
    PROVE  /\ symbols[index + 1] \notin ReadyPairs =>
                Past' \cap ReadyPairs' = Past \cap ReadyPairs
           /\ symbols[index + 1] \in ReadyPairs =>
                Cardinality(Past' \cap ReadyPairs') = Cardinality(Past \cap ReadyPairs) + 1
<1>1. /\ Len(symbols) \in Nat /\ DOMAIN symbols = 1..Len(symbols) /\ index \in 0..Len(symbols)
      /\ IsFiniteSet(SymbolsOf(symbols))
  BY ListFacts DEF IInv, LoopsSound
<1> DEFINE s == symbols[index + 1]
<1>2. 1..(index + 1) = (1..index) \cup {index + 1} /\ 1..(index + 1) \subseteq DOMAIN symbols
  BY <1>1
<1>3. Past' = Past \cup {s}
  BY <1>2 DEF Past
<1>4. s \notin Past
  BY <1>1, <1>2 DEF Past, NoSymbolTwice
<1>5. ReadyPairs' = ReadyPairs
  BY DEF ReadyPairs, ReadySymbols
<1>6. Past \subseteq SymbolsOf(symbols)
  BY <1>2 DEF Past, SymbolsOf
<1>7. IsFiniteSet(Past \cap ReadyPairs)
  <2>1. Past \cap ReadyPairs \in SUBSET SymbolsOf(symbols)
    BY <1>6
  <2> QED BY <1>1, <2>1, FS_Subset
<1>8. CASE s \in ReadyPairs
  <2>1. Past' \cap ReadyPairs' = (Past \cap ReadyPairs) \cup {s} /\ s \notin Past \cap ReadyPairs
    BY <1>3, <1>4, <1>5, <1>8
  <2> QED BY <1>7, <1>8, <2>1, FS_AddElement
<1>9. CASE s \notin ReadyPairs
  BY <1>3, <1>5, <1>9
<1> QED BY <1>8, <1>9

\* What loading left is not touched any more.
LEMMA LoadedStays ==
    ASSUME IInv, pc # "load", pc' # "load",
           UNCHANGED <<mode, symbols, store, loaded, answers, failures>>
    PROVE  RequestsSound' /\ BooksSound' /\ LoadedSound'
<1>1. RequestsMade' = RequestsMade
  BY DEF RequestsMade
<1> QED BY <1>1 DEF IInv, RequestsSound, BooksSound, LoadedSound, Answered, Asked, NoSymbolTwice

LEMMA SkipsKeeps ==
    ASSUME IInv, SkipsSymbol
    PROVE  IInv'
<1>1. /\ pc = "scan" /\ index < Len(symbols) /\ index' = index + 1 /\ ~Scanned(symbols[index + 1])
      /\ UNCHANGED <<mode, symbols, pc, request, attempt, store, loaded, answers, failures,
                     ready_pairs>>
  BY DEF SkipsSymbol, loadVars
<1>2. LoopsSound'
  BY <1>1, ListFacts DEF IInv, LoopsSound
<1>3. RequestsSound' /\ BooksSound' /\ LoadedSound'
  BY <1>1, LoadedStays
<1>4. PairsSound'
  <2> SUFFICES ASSUME PricesPositive, mode # "live", NoSymbolTwice
               PROVE  ready_pairs = Cardinality(Past' \cap ReadyPairs')
    BY <1>1 DEF PairsSound, NoSymbolTwice
  <2>1. mode \in {"snapshots", "top"}
    BY DEF IInv, LoopsSound, Modes
  <2>2. symbols[index + 1] \notin ReadyPairs
    BY <1>1, <2>1, ScannedArePairs DEF IInv
  <2>3. Past' \cap ReadyPairs' = Past \cap ReadyPairs
    BY <1>1, <2>2, PastGrows
  <2> QED BY <2>3 DEF IInv, PairsSound
<1> QED BY <1>2, <1>3, <1>4 DEF IInv

LEMMA ScansKeeps ==
    ASSUME IInv, ScansSymbol
    PROVE  IInv'
<1>1. /\ pc = "scan" /\ index < Len(symbols) /\ index' = index + 1 /\ Scanned(symbols[index + 1])
      /\ ready_pairs' = ready_pairs + 1
      /\ UNCHANGED <<mode, symbols, pc, request, attempt, store, loaded, answers, failures>>
  BY DEF ScansSymbol, loadVars
<1>2. LoopsSound'
  BY <1>1, ListFacts DEF IInv, LoopsSound
<1>3. RequestsSound' /\ BooksSound' /\ LoadedSound'
  BY <1>1, LoadedStays
<1>4. PairsSound'
  <2> SUFFICES ASSUME PricesPositive, mode # "live", NoSymbolTwice
               PROVE  ready_pairs + 1 = Cardinality(Past' \cap ReadyPairs')
    BY <1>1 DEF PairsSound, NoSymbolTwice
  <2>1. mode \in {"snapshots", "top"}
    BY DEF IInv, LoopsSound, Modes
  <2>2. symbols[index + 1] \in ReadyPairs
    BY <1>1, <2>1, ScannedArePairs DEF IInv
  <2>3. Cardinality(Past' \cap ReadyPairs') = Cardinality(Past \cap ReadyPairs) + 1
    BY <1>1, <2>2, PastGrows
  <2> QED BY <2>3 DEF IInv, PairsSound
<1> QED BY <1>2, <1>3, <1>4 DEF IInv

\* At the end of the scan the store and the counters stay as they are.
LEMMA EndKeeps ==
    ASSUME IInv, pc # "load", pc' \in {"scan", "report", "done"},
           pc' # "scan" => index = Len(symbols),
           UNCHANGED <<mode, symbols, request, attempt, store, loaded, answers, failures,
                       index, ready_pairs>>
    PROVE  IInv'
<1>1. LoopsSound'
  BY DEF IInv, LoopsSound
<1>2. RequestsSound' /\ BooksSound' /\ LoadedSound'
  BY LoadedStays
<1>3. PairsSound'
  BY DEF IInv, PairsSound, Past, ReadyPairs, ReadySymbols, NoSymbolTwice
<1> QED BY <1>1, <1>2, <1>3 DEF IInv

LEMMA NextIInv == IInv /\ [Next]_vars => IInv'
<1> SUFFICES ASSUME IInv, [Next]_vars PROVE IInv'
  OBVIOUS
<1>1. CASE \E body \in Bodies : Loads(body)
  BY <1>1, LoadsKeeps
<1>2. CASE Fails
  BY <1>2, FailsKeeps
<1>3. CASE SkipsSymbol
  BY <1>3, SkipsKeeps
<1>4. CASE ScansSymbol
  BY <1>4, ScansKeeps
<1>5. CASE Sorts
  BY <1>5, EndKeeps DEF Sorts, loadVars
<1>6. CASE Reports
  <2>1. /\ pc # "load" /\ pc' = "done" /\ index = Len(symbols)
        /\ UNCHANGED <<mode, symbols, request, attempt, store, loaded, answers, failures,
                       index, ready_pairs>>
    BY <1>6 DEF Reports, loadVars, scanVars, IInv, LoopsSound
  <2> QED BY <2>1, EndKeeps
<1>7. CASE Stays \/ UNCHANGED vars
  <2>1. UNCHANGED vars
    BY <1>7 DEF Stays
  <2>2. UNCHANGED <<mode, symbols, pc, request, attempt, store, loaded, answers, failures,
                    index, ready_pairs>>
    BY <2>1 DEF vars, loadVars, scanVars
  <2>3. LoopsSound'
    BY <2>2 DEF IInv, LoopsSound
  <2>4. RequestsSound' /\ BooksSound'
    BY <2>2 DEF IInv, RequestsSound, RequestsMade, BooksSound, Answered, Asked
  <2>5. LoadedSound'
    BY <2>2 DEF IInv, LoadedSound, NoSymbolTwice
  <2>6. PairsSound'
    BY <2>2 DEF IInv, PairsSound, Past, ReadyPairs, ReadySymbols, NoSymbolTwice
  <2> QED BY <2>3, <2>4, <2>5, <2>6 DEF IInv
<1> QED BY <1>1, <1>2, <1>3, <1>4, <1>5, <1>6, <1>7 DEF Next

THEOREM Inductive == Spec => []IInv
<1> QED BY InitIInv, NextIInv, PTL DEF Spec

\* run_snapshot_arbitrage_scan and run_snapshot_top_spread_scan: a request that is given
\* up costs its own book and nothing else, whatever the exchanges answer and in whatever
\* order requests fail.
THEOREM OneBookLost == Spec => []FailureCostsOneBook
<1>1. IInv => FailureCostsOneBook
  <2> SUFFICES ASSUME IInv, mode # "live", pc # "load" PROVE FailureCostsOneBook
    BY DEF FailureCostsOneBook
  <2>1. RequestsMade = 2 * Len(symbols)
    BY DEF RequestsMade
  <2>2. \A f \in FeedsOf(symbols) : <<f[1], f[2]>> = f
    BY DEF FeedsOf
  <2>3. \A f \in FeedsOf(symbols) :
            IF Answered(f) = {} THEN ~HasBook(store, f[1], f[2])
            ELSE \E r \in Answered(f) :
                    /\ \A q \in Answered(f) : q <= r
                    /\ GetBook(store, f[1], f[2]) = BookApplySnapshot(answers[r])
    BY <2>2 DEF IInv, BooksSound, HasBook, GetBook
  <2> QED BY <2>1, <2>3 DEF IInv, RequestsSound, FailureCostsOneBook, Answered
<1> QED BY <1>1, Inductive, PTL

\* The summary of the loading and that of the scan agree, when no exchange quotes a
\* price of 0: the test of the top spread would pass such a pair over.
THEOREM TheSummariesAgree ==
    ASSUME PricesPositive
    PROVE  Spec => []SummariesAgree
<1>1. IInv => SummariesAgree
  <2> SUFFICES ASSUME IInv, mode # "live", pc = "done", NoSymbolTwice PROVE SummariesAgree
    BY DEF SummariesAgree
  <2>1. index = Len(symbols) /\ DOMAIN symbols = 1..Len(symbols)
    BY ListFacts DEF IInv, LoopsSound
  <2>2. Past = SymbolsOf(symbols)
    BY <2>1 DEF Past, SymbolsOf
  <2>3. ReadyPairs \subseteq SymbolsOf(symbols)
    BY DEF IInv, BooksSound, ReadyPairs, ReadySymbols, FeedsOf
  <2>4. Past \cap ReadyPairs = ReadyPairs
    BY <2>2, <2>3
  <2> QED BY <2>4 DEF IInv, LoadedSound, PairsSound, SummariesAgree, ReadyPairs
<1> QED BY <1>1, Inductive, PTL

-----------------------------------------------------------------------------
(* The report.                                                             *)

IsList(list) == \E S : list \in Seq(S)
IsSorted(list) ==
    IsList(list) /\ \A i, j \in DOMAIN list : i < j => ~Better(list[j], list[i])

\* The two lists on their way to the log.
ListsSound ==
    /\ pc \in {"load", "scan"} => IsList(spreads) /\ IsList(opportunities)
    /\ pc \in {"report", "done"} => IsSorted(spreads) /\ IsSorted(opportunities)
    /\ PrintedAreBest

\* What a function on 1..n makes is a list.
LEMMA ListOf ==
    ASSUME NEW list, NEW n \in Nat, list = [i \in 1..n |-> list[i]]
    PROVE  IsList(list)
<1>1. list \in Seq({list[i] : i \in 1..n})
  OBVIOUS
<1> QED BY <1>1 DEF IsList

LEMMA Appended ==
    ASSUME NEW list, IsList(list)
    PROVE  /\ \A x : IsList(Append(list, x))
           /\ \A other : IsList(other) => IsList(list \o other)
<1>1. PICK S : list \in Seq(S)
  BY DEF IsList
<1>2. ASSUME NEW x PROVE IsList(Append(list, x))
  <2>1. list \in Seq(S \cup {x}) /\ x \in S \cup {x}
    BY <1>1
  <2>2. Append(list, x) \in Seq(S \cup {x})
    BY <2>1
  <2> QED BY <2>2 DEF IsList
<1>3. ASSUME NEW other, IsList(other) PROVE IsList(list \o other)
  <2>1. PICK T : other \in Seq(T)
    BY <1>3 DEF IsList
  <2>2. list \in Seq(S \cup T) /\ other \in Seq(S \cup T)
    BY <1>1, <2>1
  <2>3. list \o other \in Seq(S \cup T)
    BY <2>2
  <2> QED BY <2>3 DEF IsList
<1> QED BY <1>2, <1>3

\* Sorting a list makes a sorted one.
LEMMA SortingSorts ==
    ASSUME NEW list, IsList(list), NEW sorted \in SortedLists(list)
    PROVE  IsSorted(sorted)
<1>1. PICK S : list \in Seq(S)
  BY DEF IsList
<1>2. PICK q : sorted = [i \in DOMAIN list |-> list[q[i]]]
  BY DEF SortedLists, Reorderings
<1>3. Len(list) \in Nat /\ DOMAIN list = 1..Len(list)
  BY <1>1
<1>4. sorted = [i \in 1..Len(list) |-> sorted[i]]
  BY <1>2, <1>3
<1>5. IsList(sorted)
  <2> DEFINE n == Len(list)
  <2>1. n \in Nat /\ sorted = [i \in 1..n |-> sorted[i]]
    BY <1>3, <1>4
  <2> HIDE DEF n
  <2> QED BY <2>1, ListOf
<1> QED BY <1>2, <1>5 DEF IsSorted, SortedLists

\* The first lines of a sorted list, however many, are its best, and so is all of it.
LEMMA FirstAreBest ==
    ASSUME NEW list, IsSorted(list), NEW limit \in Nat
    PROVE  BestAreKept(First(list, limit), list) /\ BestAreKept(list, list)
<1>1. PICK S : list \in Seq(S)
  BY DEF IsSorted, IsList
<1>2. PICK n \in Nat : n = Len(list) /\ DOMAIN list = 1..n
  BY <1>1
<1>3. PICK m \in 0..n : m = IF limit < n THEN limit ELSE n
  BY <1>2
<1>4. First(list, limit) = SubSeq(list, 1, m)
  BY <1>2, <1>3 DEF First
<1>5. PICK kept : kept = SubSeq(list, 1, m)
  OBVIOUS
<1>6. DOMAIN kept = 1..m /\ \A k \in 1..m : kept[k] = list[k]
  BY <1>1, <1>2, <1>3, <1>5
<1>7. ASSUME NEW i \in DOMAIN kept, NEW j \in DOMAIN list
      PROVE  list[j] \in {kept[k] : k \in DOMAIN kept} \/ ~Better(list[j], kept[i])
  <2>1. CASE j <= m
    BY <1>2, <1>6, <2>1
  <2>2. CASE j > m
    <3>1. i \in DOMAIN list /\ i < j /\ kept[i] = list[i]
      BY <1>2, <1>3, <1>6, <2>2
    <3>2. ~Better(list[j], list[i])
      BY <3>1 DEF IsSorted
    <3> QED BY <3>1, <3>2
  <2> QED BY <1>2, <1>3, <2>1, <2>2
<1>8. BestAreKept(kept, list)
  BY <1>7 DEF BestAreKept
<1>9. BestAreKept(list, list)
  BY DEF BestAreKept
<1> QED BY <1>4, <1>5, <1>8, <1>9

\* A scan of a symbol comes to a list.
LEMMA ScanIsList ==
    ASSUME NEW symbol
    PROVE  IsList(ScanSymbol(symbol))
<1>1. ASSUME NEW buyer PROVE IsList(Direction(Books(symbol), buyer))
  <2>1. IsList(<<>>)
    <3>1. <<>> \in Seq({})
      OBVIOUS
    <3> QED BY <3>1 DEF IsList
  <2>2. \A x : IsList(<<x>>)
    <3>1. \A x : <<x>> \in Seq({x})
      OBVIOUS
    <3> QED BY <3>1 DEF IsList
  <2>3. ASSUME NEW walk PROVE IsList(Engine(Books(symbol), buyer, walk)!Concluded)
    BY <2>1, <2>2 DEF Engine!Concluded
  <2> QED BY <2>1, <2>3 DEF Direction
<1> DEFINE both == Direction(Books(symbol), "binance") \o Direction(Books(symbol), "mexc")
           found == Engine(Books(symbol), "binance", <<>>)!Sorted(both)
<1>2. IsList(both)
  <2>1. IsList(Direction(Books(symbol), "binance")) /\ IsList(Direction(Books(symbol), "mexc"))
    BY <1>1
  <2> QED BY <2>1, Appended
<1> HIDE DEF both
<1>3. IsList(found)
  <2>1. \A x, y : IsList(<<x, y>>)
    <3>1. \A x, y : <<x, y>> \in Seq({x, y})
      OBVIOUS
    <3> QED BY <3>1 DEF IsList
  <2> QED BY <1>2, <2>1 DEF Engine!Sorted
<1>4. ScanSymbol(symbol) =
        [i \in DOMAIN found |-> [symbol |-> symbol, buy_exchange |-> found[i].buy_exchange,
                                 net |-> found[i].net, buy |-> found[i].buy]]
  BY DEF ScanSymbol, both
<1> HIDE DEF found
<1>5. PICK n \in Nat : DOMAIN found = 1..n
  <2>1. PICK S : found \in Seq(S)
    BY <1>3 DEF IsList
  <2> QED BY <2>1
<1> DEFINE list == ScanSymbol(symbol)
<1>6. list = [i \in 1..n |-> list[i]]
  BY <1>4, <1>5
<1> HIDE DEF list
<1>7. IsList(list)
  BY <1>6, ListOf
<1> QED BY <1>7 DEF list

LEMMA ListsInductive == Spec => []ListsSound
<1>1. Init => ListsSound
  <2> SUFFICES ASSUME Init PROVE ListsSound
    OBVIOUS
  <2>1. pc \in {"load", "scan"} /\ spreads = <<>> /\ opportunities = <<>>
    BY DEF Init
  <2>2. IsList(<<>>)
    <3>1. <<>> \in Seq({})
      OBVIOUS
    <3> QED BY <3>1 DEF IsList
  <2> QED BY <2>1, <2>2 DEF ListsSound, PrintedAreBest
<1>2. ListsSound /\ [Next]_vars => ListsSound'
  <2> SUFFICES ASSUME ListsSound, [Next]_vars PROVE ListsSound'
    OBVIOUS
  <2>1. ASSUME pc \in {"load", "scan"}, pc' \in {"load", "scan"}, UNCHANGED <<spreads, opportunities>>
        PROVE  ListsSound'
    BY <2>1 DEF ListsSound, PrintedAreBest
  <2>2. CASE \E body \in Bodies : Loads(body)
    BY <2>1, <2>2 DEF Loads, NextRequest, scanVars
  <2>3. CASE Fails
    BY <2>1, <2>3 DEF Fails, NextRequest, scanVars
  <2>4. CASE SkipsSymbol
    BY <2>1, <2>4 DEF SkipsSymbol
  <2>5. CASE ScansSymbol
    <3>1. pc = "scan" /\ pc' = pc /\ IsList(spreads) /\ IsList(opportunities)
      BY <2>5 DEF ScansSymbol, ListsSound
    <3>2. IsList(spreads')
      BY <2>5, <3>1, Appended DEF ScansSymbol
    <3>3. IsList(opportunities')
      BY <2>5, <3>1, Appended, ScanIsList DEF ScansSymbol
    <3> QED BY <3>1, <3>2, <3>3 DEF ListsSound, PrintedAreBest
  <2>6. CASE Sorts
    <3>1. /\ IsList(spreads) /\ IsList(opportunities) /\ pc' = "report"
          /\ spreads' \in SortedLists(spreads) /\ opportunities' \in SortedLists(opportunities)
      BY <2>6 DEF Sorts, ListsSound
    <3>2. IsSorted(spreads') /\ IsSorted(opportunities')
      BY <3>1, SortingSorts
    <3> QED BY <3>1, <3>2 DEF ListsSound, PrintedAreBest
  <2>7. CASE Reports
    <3>1. /\ IsSorted(spreads) /\ IsSorted(opportunities) /\ pc' = "done"
          /\ UNCHANGED <<spreads, opportunities>>
      BY <2>7 DEF Reports, ListsSound, scanVars
    <3>2. \A limit \in Nat :
              /\ BestAreKept(First(spreads, limit), spreads) /\ BestAreKept(spreads, spreads)
              /\ BestAreKept(First(opportunities, limit), opportunities)
              /\ BestAreKept(opportunities, opportunities)
      BY <3>1, FirstAreBest
    <3>3. /\ BestAreKept(printed'.spreads, spreads)
          /\ BestAreKept(printed'.opportunities, opportunities)
      <4>1. CASE mode = "live"
        BY <2>7, <3>2, <4>1, PrintAssumption DEF Reports
      <4>2. CASE mode # "live"
        <5>1. 0 \in Nat /\ printed' = [spreads |-> spreads, opportunities |-> opportunities]
          BY <2>7, <4>2 DEF Reports
        <5> QED BY <3>2, <5>1
      <4> QED BY <4>1, <4>2
    <3> QED BY <3>1, <3>3 DEF ListsSound, PrintedAreBest
  <2>8. CASE Stays \/ UNCHANGED vars
    <3>1. UNCHANGED vars
      BY <2>8 DEF Stays
    <3> QED BY <3>1 DEF vars, scanVars, ListsSound, PrintedAreBest
  <2> QED BY <2>2, <2>3, <2>4, <2>5, <2>6, <2>7, <2>8 DEF Next
<1> QED BY <1>1, <1>2, PTL DEF Spec

\* What the log shows of both lists is the best there is, in whatever order the sort
\* leaves equals, and wherever a live scan cuts the lists.
THEOREM ReportOfTheBest == Spec => []PrintedAreBest
<1>1. ListsSound => PrintedAreBest
  BY DEF ListsSound
<1> QED BY <1>1, ListsInductive, PTL

-----------------------------------------------------------------------------
(* The walk of evaluate_direction, as Direction makes it.                  *)

\* The lemmas about the walk, which do not depend on the variables of the engine.
Walks == INSTANCE ArbitrageEngine_proofs WITH
    BookPairs <- {}, books <- <<>>, buy_exchange <- <<>>, pc <- "walk", walk <- <<>>,
    opportunities <- <<>>

\* What they take for granted.
LEMMA WalksAssumptions ==
    /\ TakerFeeBps \in [Walks!Exchanges -> Nat]
    /\ MinNetSpreadBps \in Int /\ MinNotional \in Nat /\ MaxNotional \in Nat
    /\ MaxDepthLevels \in Nat
    /\ Walks!IsFiniteSet(Price)
    /\ Price \subseteq Int
<1>1. TakerFeeBps \in [Walks!Exchanges -> Nat]
  BY SettingsAssumption DEF Walks!Exchanges, Exchanges
<1>2. Walks!IsFiniteSet(Price)
  BY FiniteLevels DEF Walks!IsFiniteSet, IsFiniteSet
<1> QED BY <1>1, <1>2, SettingsAssumption, PriceAssumption

\* The sides a buyer trades on, and their levels.
OtherExchange(e) == IF e = "binance" THEN "mexc" ELSE "binance"
Buys(books, buyer) == books[buyer].asks
Sells(books, buyer) == books[OtherExchange(buyer)].bids
Asks(books, buyer) == Walks!TopAsks(Buys(books, buyer), MaxDepthLevels)
Bids(books, buyer) == Walks!TopBids(Sells(books, buyer), MaxDepthLevels)
BothBooks(books) == \A e \in Exchanges : books[e] \in Book

LEMMA LevelsOfSides ==
    ASSUME NEW books, BothBooks(books), NEW buyer \in Exchanges,
           NEW buys, NEW sells, NEW A, NEW B,
           buys = Buys(books, buyer), sells = Sells(books, buyer),
           A = Asks(books, buyer), B = Bids(books, buyer)
    PROVE  /\ buys \in Walks!Side /\ sells \in Walks!Side
           /\ A \in Seq(Price) /\ B \in Seq(Price)
           /\ \A j \in 1..Len(A) : buys[A[j]] > 0
           /\ \A j \in 1..Len(B) : sells[B[j]] > 0
           /\ \A i, j \in 1..Len(A) : i < j => A[i] < A[j]
           /\ \A i, j \in 1..Len(B) : i < j => B[i] > B[j]
           /\ A # <<>> => A[1] \in BestAsk(buys)
           /\ B # <<>> => B[1] \in BestBid(sells)
<1>1. buys \in Side /\ sells \in Side
  BY DEF BothBooks, Buys, Sells, OtherExchange, Exchanges, Book
<1>2. buys \in Walks!Side /\ sells \in Walks!Side
  BY <1>1 DEF Walks!Side, Walks!Qty, Side, Qty
<1>3. /\ A \in Seq(Walks!Quoted(buys)) /\ A \in Seq(Price)
      /\ \A i, j \in 1..Len(A) : i < j => A[i] < A[j]
      /\ A # <<>> => A[1] \in Walks!BestAsk(buys)
  <2>1. A = Walks!TopAsks(buys, MaxDepthLevels)
    BY DEF Asks
  <2> QED BY <1>2, <2>1, WalksAssumptions, Walks!AskLevels
<1>4. /\ B \in Seq(Walks!Quoted(sells)) /\ B \in Seq(Price)
      /\ \A i, j \in 1..Len(B) : i < j => B[i] > B[j]
      /\ B # <<>> => B[1] \in Walks!BestBid(sells)
  <2>1. B = Walks!TopBids(sells, MaxDepthLevels)
    BY DEF Bids
  <2> QED BY <1>2, <2>1, WalksAssumptions, Walks!BidLevels
<1>5. \A j \in 1..Len(A) : buys[A[j]] > 0
  <2>1. \A j \in 1..Len(A) : A[j] \in Walks!Quoted(buys)
    BY <1>3
  <2> QED BY <2>1 DEF Walks!Quoted
<1>6. \A j \in 1..Len(B) : sells[B[j]] > 0
  <2>1. \A j \in 1..Len(B) : B[j] \in Walks!Quoted(sells)
    BY <1>4
  <2> QED BY <2>1 DEF Walks!Quoted
<1>7. \A side : Walks!BestAsk(side) = BestAsk(side) /\ Walks!BestBid(side) = BestBid(side)
  BY DEF Walks!BestAsk, Walks!BestBid, Walks!Quoted, BestAsk, BestBid, Quoted
<1> QED BY <1>2, <1>3, <1>4, <1>5, <1>6, <1>7

\* The walk at the best levels, and after one more iteration, if there is one.
Beginning(buys, sells, A, B) ==
    [Walks!NoWalk EXCEPT !.ask_index = 1, !.bid_index = 1,
                         !.ask_remaining = buys[A[1]], !.bid_remaining = sells[B[1]],
                         !.cap = MaxNotional]
Onward(buys, sells, A, B, w) ==
    IF Walks!GoesOn(A, B, w)
    THEN Walks!AfterFill(buys, sells, A, B, w, Walks!Fillable(A, w)) ELSE w

\* The engine of MarketScan at a walk, in the terms of these lemmas.
LEMMA EngineAtWalk ==
    ASSUME NEW books, NEW buyer, NEW w, NEW buys, NEW sells, NEW A, NEW B,
           buys = Buys(books, buyer), sells = Sells(books, buyer),
           A = Asks(books, buyer), B = Bids(books, buyer)
    PROVE  /\ Engine(books, buyer, w)!asks = A
           /\ Engine(books, buyer, w)!bids = B
           /\ Engine(books, buyer, w)!Begun = Beginning(buys, sells, A, B)
           /\ Onward(buys, sells, A, B, w) =
                  IF Engine(books, buyer, w)!WalksOn THEN Engine(books, buyer, w)!Filled ELSE w
<1>1. \A a, b : Engine(books, buyer, w)!SmallerOf(a, b) = Walks!SmallerOf(a, b)
  BY DEF Engine!SmallerOf, Walks!SmallerOf
<1>2. \A side, limit :
          /\ Engine(books, buyer, w)!TopAsks(side, limit) = Walks!TopAsks(side, limit)
          /\ Engine(books, buyer, w)!TopBids(side, limit) = Walks!TopBids(side, limit)
  BY <1>1 DEF Engine!TopAsks, Engine!TopBids, Walks!TopAsks, Walks!TopBids,
              Engine!Quoted, Walks!Quoted, Engine!Cardinality, Walks!Cardinality
<1>3. Engine(books, buyer, w)!buy_side = buys /\ Engine(books, buyer, w)!sell_side = sells
  BY DEF Engine!buy_side, Engine!sell_side, Engine!Other, Buys, Sells, OtherExchange
<1>4. Engine(books, buyer, w)!asks = A /\ Engine(books, buyer, w)!bids = B
  BY <1>2, <1>3 DEF Engine!asks, Engine!bids, Asks, Bids
<1>5. Engine(books, buyer, w)!Executable = Walks!Fillable(A, w)
  BY <1>1, <1>4 DEF Engine!Executable, Walks!Fillable
<1>6. Engine(books, buyer, w)!WalksOn <=> Walks!GoesOn(A, B, w)
  BY <1>4, <1>5 DEF Engine!WalksOn, Walks!GoesOn
<1>7. \A side, levels, k, r :
          Engine(books, buyer, w)!LevelAfter(side, levels, k, r) = Walks!LevelAfter(side, levels, k, r)
  BY DEF Engine!LevelAfter, Walks!LevelAfter
<1>8. Engine(books, buyer, w)!Filled = Walks!AfterFill(buys, sells, A, B, w, Walks!Fillable(A, w))
  BY <1>3, <1>4, <1>5, <1>7 DEF Engine!Filled, Walks!AfterFill
<1>9. Engine(books, buyer, w)!Begun = Beginning(buys, sells, A, B)
  BY <1>3, <1>4 DEF Beginning, Engine!Begun, Engine!NoWalk, Walks!NoWalk
<1> QED BY <1>4, <1>6, <1>8, <1>9 DEF Onward

\* Where the loop of evaluate_direction ends: after as many iterations as there are
\* levels, the walk goes on no more, for each moves on to the next level of one side.
LEMMA DirectionEnds ==
    ASSUME NEW books, BothBooks(books), NEW buyer \in Exchanges,
           NEW buys, NEW sells, NEW A, NEW B,
           buys = Buys(books, buyer), sells = Sells(books, buyer),
           A = Asks(books, buyer), B = Bids(books, buyer), A # <<>>, B # <<>>
    PROVE  \E w \in Walks!Walk :
              /\ Walks!Reached(buys, sells, A, B, w) /\ ~Walks!GoesOn(A, B, w)
              /\ Direction(books, buyer) = Engine(books, buyer, w)!Concluded
<1>1. /\ buys \in Walks!Side /\ sells \in Walks!Side
      /\ A \in Seq(Price) /\ B \in Seq(Price)
      /\ \A j \in 1..Len(A) : buys[A[j]] > 0
      /\ \A j \in 1..Len(B) : sells[B[j]] > 0
  BY LevelsOfSides
<1> DEFINE L == Len(A) + Len(B)
           start == Beginning(buys, sells, A, B)
           After(w) == Onward(buys, sells, A, B, w)
           Trace(f, n) == [i \in 0..n |-> IF i = 0 THEN start ELSE After(f[i - 1])]
           HasTrace(n) == \E f : f = Trace(f, n)
           Iterated == {n \in Nat : HasTrace(n)}
           walked == CHOOSE f : f =
                        [n \in 0..(Len(Engine(books, buyer, <<>>)!asks)
                                      + Len(Engine(books, buyer, <<>>)!bids)) |->
                            IF n = 0 THEN Engine(books, buyer, <<>>)!Begun
                            ELSE IF Engine(books, buyer, f[n - 1])!WalksOn
                            THEN Engine(books, buyer, f[n - 1])!Filled
                            ELSE f[n - 1]]
<1>2. L \in Nat /\ Len(A) \in Nat /\ Len(B) \in Nat
  BY <1>1
<1> HIDE DEF After, start
<1>3. /\ Engine(books, buyer, <<>>)!asks = A /\ Engine(books, buyer, <<>>)!bids = B
      /\ Engine(books, buyer, <<>>)!Begun = start
  BY EngineAtWalk DEF start
<1>4. Direction(books, buyer) = Engine(books, buyer, walked[L])!Concluded
  BY <1>3 DEF Direction
<1>5. \A w : After(w) = IF Engine(books, buyer, w)!WalksOn THEN Engine(books, buyer, w)!Filled ELSE w
  BY EngineAtWalk DEF After
<1> HIDE DEF L
<1>6. start \in Walks!Walk /\ Walks!Reached(buys, sells, A, B, start)
      /\ start.ask_index = 1 /\ start.bid_index = 1
  <2>1. 1 \in 1..Len(A) /\ 1 \in 1..Len(B)
    BY <1>1, <1>2
  <2>2. buys[A[1]] > 0 /\ sells[B[1]] > 0
    BY <1>1, <2>1
  <2>3. PICK s : s = start
    OBVIOUS
  <2>4. s \in Walks!Walk /\ Walks!Reached(buys, sells, A, B, s)
    BY <1>1, <2>2, <2>3, WalksAssumptions, Walks!StartReached DEF start, Beginning
  <2>5. start.ask_index = 1 /\ start.bid_index = 1
    BY DEF start, Beginning, Walks!NoWalk
  <2> QED BY <2>3, <2>4, <2>5
<1>7. HasTrace(L)
  <2>1. HasTrace(0)
    <3> DEFINE f == [i \in 0..0 |-> start]
    <3>1. f = Trace(f, 0)
      OBVIOUS
    <3> QED BY <3>1
  <2>2. ASSUME NEW n \in Nat, HasTrace(n)
        PROVE  HasTrace(n + 1)
    <3>1. PICK f : f = Trace(f, n)
      BY <2>2
    <3> DEFINE g == [i \in 0..(n + 1) |-> IF i <= n THEN f[i] ELSE After(f[n])]
    <3>2. ASSUME NEW i \in 0..(n + 1)
          PROVE  g[i] = IF i = 0 THEN start ELSE After(g[i - 1])
      <4>1. CASE i = n + 1
        BY <4>1
      <4>2. CASE i = 0
        BY <4>2, <3>1
      <4>3. CASE i \in 1..n
        BY <4>3, <3>1
      <4> QED BY <4>1, <4>2, <4>3
    <3>3. DOMAIN g = 0..(n + 1) /\ g = [i \in DOMAIN g |-> g[i]]
      OBVIOUS
    <3> HIDE DEF g
    <3>4. g = Trace(g, n + 1)
      BY <3>2, <3>3
    <3> QED BY <3>4
  <2> HIDE DEF HasTrace
  <2>3. 0 \in Iterated /\ \A n \in Nat : n \in Iterated => n + 1 \in Iterated
    BY <2>1, <2>2
  <2> HIDE DEF Iterated
  <2>4. Nat \subseteq Iterated
    BY <2>3, WalksAssumptions, Walks!SetInduction
  <2> QED BY <1>2, <2>4 DEF Iterated
<1>8. walked = Trace(walked, L)
  <2>1. \A f : Trace(f, L) = [n \in 0..(Len(Engine(books, buyer, <<>>)!asks)
                                      + Len(Engine(books, buyer, <<>>)!bids)) |->
                            IF n = 0 THEN Engine(books, buyer, <<>>)!Begun
                            ELSE IF Engine(books, buyer, f[n - 1])!WalksOn
                            THEN Engine(books, buyer, f[n - 1])!Filled
                            ELSE f[n - 1]]
    BY <1>3, <1>5 DEF L
  <2>2. \E f : f = [n \in 0..(Len(Engine(books, buyer, <<>>)!asks)
                                      + Len(Engine(books, buyer, <<>>)!bids)) |->
                            IF n = 0 THEN Engine(books, buyer, <<>>)!Begun
                            ELSE IF Engine(books, buyer, f[n - 1])!WalksOn
                            THEN Engine(books, buyer, f[n - 1])!Filled
                            ELSE f[n - 1]]
    <3> HIDE DEF Trace
    <3> QED BY <1>7, <2>1
  <2>3. walked = [n \in 0..(Len(Engine(books, buyer, <<>>)!asks)
                                      + Len(Engine(books, buyer, <<>>)!bids)) |->
                            IF n = 0 THEN Engine(books, buyer, <<>>)!Begun
                            ELSE IF Engine(books, buyer, walked[n - 1])!WalksOn
                            THEN Engine(books, buyer, walked[n - 1])!Filled
                            ELSE walked[n - 1]]
    BY <2>2
  <2> HIDE DEF walked, Trace
  <2> QED BY <2>1, <2>3
<1> HIDE DEF walked
<1>9. walked[0] = start /\ \A n \in 0..(L - 1) : walked[n + 1] = After(walked[n])
  BY <1>2, <1>8
<1> DEFINE Comes(n) ==
              /\ walked[n] \in Walks!Walk /\ Walks!Reached(buys, sells, A, B, walked[n])
              /\ \/ ~Walks!GoesOn(A, B, walked[n])
                 \/ walked[n].ask_index + walked[n].bid_index >= n + 2
           Coming == {n \in Nat : n <= L => Comes(n)}
<1>10. Comes(0)
  BY <1>6, <1>9
<1>11. ASSUME NEW n \in 0..(L - 1), Comes(n) PROVE Comes(n + 1)
  <2>1. PICK w, v : w = walked[n] /\ v = walked[n + 1]
    OBVIOUS
  <2>2. /\ w \in Walks!Walk /\ Walks!Reached(buys, sells, A, B, w) /\ v = After(w)
        /\ ~Walks!GoesOn(A, B, w) \/ w.ask_index + w.bid_index >= n + 2
    BY <1>9, <1>11, <2>1
  <2>3. CASE ~Walks!GoesOn(A, B, w)
    <3>1. v = w
      BY <2>2, <2>3 DEF After, Onward
    <3> QED BY <2>1, <2>2, <2>3, <3>1
  <2>4. CASE Walks!GoesOn(A, B, w)
    <3>1. v = Walks!AfterFill(buys, sells, A, B, w, Walks!Fillable(A, w))
      BY <2>2, <2>4 DEF After, Onward
    <3>2. /\ v \in Walks!Walk /\ Walks!Reached(buys, sells, A, B, v)
          /\ \/ v.ask_index + v.bid_index > w.ask_index + w.bid_index
             \/ ~Walks!GoesOn(A, B, v)
      BY <1>1, <2>2, <2>4, <3>1, WalksAssumptions, Walks!IterationReached
    <3>3. PICK i, j, k, l : /\ i = w.ask_index /\ j = w.bid_index
                            /\ k = v.ask_index /\ l = v.bid_index
      OBVIOUS
    <3>4. i \in Nat /\ j \in Nat /\ k \in Nat /\ l \in Nat
      BY <2>2, <3>2, <3>3 DEF Walks!Walk
    <3>5. k + l >= n + 3 \/ ~Walks!GoesOn(A, B, v)
      BY <1>2, <2>2, <2>4, <3>2, <3>3, <3>4
    <3> QED BY <1>2, <2>1, <3>2, <3>3, <3>5
  <2> QED BY <2>3, <2>4
<1>12. Comes(L)
  <2> HIDE DEF Comes
  <2>1. 0 \in Coming /\ \A n \in Nat : n \in Coming => n + 1 \in Coming
    BY <1>2, <1>10, <1>11
  <2> HIDE DEF Coming
  <2>2. Nat \subseteq Coming
    BY <2>1, WalksAssumptions, Walks!SetInduction
  <2> QED BY <1>2, <2>2 DEF Coming
<1>13. ~Walks!GoesOn(A, B, walked[L])
  <2>1. PICK w : w = walked[L]
    OBVIOUS
  <2>2. SUFFICES ASSUME Walks!GoesOn(A, B, w) PROVE FALSE
    BY <2>1
  <2>3. w \in Walks!Walk /\ w.ask_index + w.bid_index >= L + 2
    BY <1>12, <2>1, <2>2
  <2>4. w.ask_index <= Len(A) /\ w.bid_index <= Len(B)
    BY <2>2 DEF Walks!GoesOn
  <2>5. PICK i, j : i = w.ask_index /\ j = w.bid_index
    OBVIOUS
  <2>6. i \in Nat /\ j \in Nat
    BY <2>3, <2>5 DEF Walks!Walk
  <2> QED BY <1>2, <2>3, <2>4, <2>5, <2>6 DEF L
<1> QED BY <1>4, <1>12, <1>13

-----------------------------------------------------------------------------
(* What the spread at the top bounds.                                      *)

\* Fractions with denominators above zero are ordered.
LEMMA FractionOrder ==
    ASSUME NEW i \in Int, NEW j \in Int, NEW k \in Int,
           NEW l \in Nat \ {0}, NEW m \in Nat \ {0}, NEW n \in Nat \ {0},
           i * m <= j * l, j * n <= k * m
    PROVE  i * n <= k * l
<1> DEFINE in == i * n
           kl == k * l
           im == i * m
           jl == j * l
           jn == j * n
           km == k * m
<1>1. \A x, y \in Int : x * y \in Int
  OBVIOUS
<1>2. in \in Int /\ kl \in Int /\ im \in Int /\ jl \in Int /\ jn \in Int /\ km \in Int
  BY <1>1
<1>3. \A x, y \in Int, z \in Nat : x <= y => x * z <= y * z
  OBVIOUS
<1>4. \A x, y \in Int, z \in Nat : z > 0 /\ x * z <= y * z => x <= y
  OBVIOUS
<1>5. im * n <= jl * n /\ jn * l <= km * l
  <2>1. im <= jl /\ jn <= km
    OBVIOUS
  <2> HIDE DEF im, jl, jn, km
  <2> QED BY <1>2, <1>3, <2>1
<1>6. im * n = in * m /\ jl * n = jn * l /\ km * l = kl * m
  <2>1. \A x, y, z \in Int : (x * y) * z = (x * z) * y
    OBVIOUS
  <2> QED BY <2>1
<1> HIDE DEF in, kl, im, jl, jn, km
<1>7. in * m <= kl * m
  <2>1. in * m \in Int /\ jn * l \in Int /\ kl * m \in Int
    BY <1>1, <1>2
  <2> QED BY <1>5, <1>6, <2>1
<1>8. in <= kl
  BY <1>2, <1>4, <1>7
<1> QED BY <1>8 DEF in, kl

\* What is bought and sold is a whole number of something, and not at a gross loss.
GrossGain(o) ==
    /\ o.base \in Nat \ {0} /\ o.buy \in Nat \ {0} /\ o.sell \in Nat
    /\ o.sell >= o.buy

\* It is bought at the best ask or above it, and sold at the best bid or below it.
WithinTops(books, buyer, o) ==
    \E a \in BestAsk(Buys(books, buyer)), b \in BestBid(Sells(books, buyer)) :
        o.buy >= o.base * a /\ o.sell <= o.base * b

\* The fees of both exchanges are taken off.
FeesTaken(buyer, o) ==
    o.net = (o.sell - o.buy) * 10000
              - (o.buy * TakerFeeBps[buyer] + o.sell * TakerFeeBps[OtherExchange(buyer)])

\* A trade of a buyer.
Trades(books, buyer, o) ==
    /\ o.buy_exchange = buyer
    /\ GrossGain(o)
    /\ WithinTops(books, buyer, o)
    /\ FeesTaken(buyer, o)

\* A direction comes to a trade or to nothing.
LEMMA DirectionTrades ==
    ASSUME NEW books, BothBooks(books), NEW buyer \in Exchanges
    PROVE  \/ Direction(books, buyer) = <<>>
           \/ \E o : Direction(books, buyer) = <<o>> /\ Trades(books, buyer, o)
<1>1. PICK buys, sells, A, B : buys = Buys(books, buyer) /\ sells = Sells(books, buyer)
                               /\ A = Asks(books, buyer) /\ B = Bids(books, buyer)
  OBVIOUS
<1>2. CASE A = <<>> \/ B = <<>>
  <2>1. Engine(books, buyer, <<>>)!asks = A /\ Engine(books, buyer, <<>>)!bids = B
    BY <1>1, EngineAtWalk
  <2> QED BY <1>2, <2>1 DEF Direction
<1>3. CASE A # <<>> /\ B # <<>>
  <2>1. PICK w \in Walks!Walk :
            /\ Walks!Reached(buys, sells, A, B, w)
            /\ Direction(books, buyer) = Engine(books, buyer, w)!Concluded
    BY <1>1, <1>3, DirectionEnds
  <2>2. CASE ~Engine(books, buyer, w)!Passes
    BY <2>1, <2>2 DEF Engine!Concluded
  <2>3. CASE Engine(books, buyer, w)!Passes
    <3>1. PICK o : o = Engine(books, buyer, w)!Opportunity
      OBVIOUS
    <3>2. Direction(books, buyer) = <<o>>
      BY <2>1, <2>3, <3>1 DEF Engine!Concluded
    <3>3. /\ o.buy_exchange = buyer /\ o.base = w.base /\ o.buy = w.buy /\ o.sell = w.sell
          /\ o.net = (w.sell - w.buy) * 10000
                        - (w.buy * TakerFeeBps[buyer]
                              + w.sell * TakerFeeBps[OtherExchange(buyer)])
      BY <3>1 DEF Engine!Opportunity, Engine!NetProfit, Engine!BpsMultiplier, Engine!Other,
                  OtherExchange
    <3>4. w.base > 0 /\ w.buy > 0
      BY <2>3 DEF Engine!Passes
    <3>5. w.base \in Nat /\ w.buy \in Nat /\ w.sell \in Nat
      BY <2>1 DEF Walks!Walk
    <3>6. /\ buys \in Walks!Side /\ sells \in Walks!Side
          /\ A \in Seq(Price) /\ B \in Seq(Price)
          /\ \A j \in 1..Len(A) : buys[A[j]] > 0
          /\ \A j \in 1..Len(B) : sells[B[j]] > 0
          /\ \A i, j \in 1..Len(A) : i < j => A[i] < A[j]
          /\ \A i, j \in 1..Len(B) : i < j => B[i] > B[j]
          /\ A[1] \in BestAsk(buys) /\ B[1] \in BestBid(sells)
      BY <1>1, <1>3, LevelsOfSides
    <3>7. w.buy >= w.base * A[1] /\ w.sell <= w.base * B[1] /\ w.sell >= w.buy
      BY <1>3, <2>1, <3>6, WalksAssumptions, Walks!ReachedBounds
    <3>8. PICK a, b : a = A[1] /\ b = B[1]
      OBVIOUS
    <3>9. a \in BestAsk(Buys(books, buyer)) /\ b \in BestBid(Sells(books, buyer))
      BY <1>1, <3>6, <3>8
    <3>10. o.buy >= o.base * a /\ o.sell <= o.base * b
      BY <3>3, <3>7, <3>8
    <3>11. GrossGain(o)
      <4>1. w.base \in Nat \ {0} /\ w.buy \in Nat \ {0}
        BY <3>4, <3>5
      <4>2. w.sell >= w.buy
        BY <3>7
      <4> QED BY <3>3, <3>5, <4>1, <4>2 DEF GrossGain
    <3>12. WithinTops(books, buyer, o)
      BY <3>9, <3>10, Zenon DEF WithinTops
    <3>13. FeesTaken(buyer, o)
      BY <3>3 DEF FeesTaken
    <3>14. Trades(books, buyer, o)
      BY <3>3, <3>11, <3>12, <3>13 DEF Trades
    <3> QED BY <3>2, <3>14
  <2> QED BY <2>2, <2>3
<1> QED BY <1>2, <1>3

\* The net spread, times the price, of a bid over an ask.
Margin(ask, bid) ==
    (bid - ask) * 10000 - (TakerFeeBps["binance"] + TakerFeeBps["mexc"]) * ask

\* Where one bid and ask have no less of a gross spread than others, they have no less of
\* a net one: the fees are the same for both.
LEMMA LargerMargin ==
    ASSUME NEW a \in Nat \ {0}, NEW b \in Int, NEW c \in Nat \ {0}, NEW d \in Int,
           (b - a) * c <= (d - c) * a
    PROVE  Margin(a, b) * c <= Margin(c, d) * a
<1> DEFINE g == (b - a) * c
           h == (d - c) * a
           fees == TakerFeeBps["binance"] + TakerFeeBps["mexc"]
           p == fees * (a * c)
<1>1. fees \in Int
  <2>1. TakerFeeBps["binance"] \in Nat /\ TakerFeeBps["mexc"] \in Nat
    BY SettingsAssumption DEF Exchanges
  <2> QED BY <2>1
<1>2. g \in Int /\ h \in Int /\ p \in Int
  <2>1. \A x, y \in Int : x * y \in Int
    OBVIOUS
  <2>2. b - a \in Int /\ d - c \in Int /\ a * c \in Int
    BY <2>1
  <2> HIDE DEF fees
  <2> QED BY <1>1, <2>1, <2>2
<1>3. \A x, y, z, f \in Int : (x * 10000 - f * y) * z = (x * z) * 10000 - f * (y * z)
  OBVIOUS
<1> HIDE DEF fees
<1>4. Margin(a, b) * c = g * 10000 - p
  <2>1. Margin(a, b) = (b - a) * 10000 - fees * a /\ b - a \in Int
    BY DEF Margin, fees
  <2> QED BY <1>1, <1>3, <2>1
<1>5. Margin(c, d) * a = h * 10000 - p
  <2>1. Margin(c, d) = (d - c) * 10000 - fees * c /\ d - c \in Int
    BY DEF Margin, fees
  <2>2. Margin(c, d) * a = h * 10000 - fees * (c * a)
    BY <1>1, <1>3, <2>1
  <2>3. c * a = a * c
    OBVIOUS
  <2> QED BY <2>2, <2>3
<1>6. g <= h
  OBVIOUS
<1> HIDE DEF g, h, p
<1> QED BY <1>2, <1>4, <1>5, <1>6

\* The spread at the top is of one of the directions, and of no smaller one.
LEMMA SpreadIsLarger ==
    ASSUME NEW symbol, NEW e \in Exchanges, HasSpread(symbol),
           NEW a \in BestAsk(Buys(Books(symbol), e)), NEW b \in BestBid(Sells(Books(symbol), e))
    PROVE  /\ a \in Nat \ {0} /\ b \in Int
           /\ Spread(symbol).symbol = symbol
           /\ Spread(symbol).buy \in Nat \ {0} /\ Spread(symbol).net \in Int
           /\ Margin(a, b) * Spread(symbol).buy <= Spread(symbol).net * a
<1> DEFINE books == Books(symbol)
           f == OtherExchange(e)
           bid(x) == CHOOSE p \in BestBid(books[x].bids) : TRUE
           ask(x) == CHOOSE p \in BestAsk(books[x].asks) : TRUE
           top == Engine(books, "binance", <<>>)!TopSpread(books["binance"], books["mexc"])
<1>1. /\ f \in Exchanges
      /\ (e = "binance" /\ f = "mexc") \/ (e = "mexc" /\ f = "binance")
  BY DEF Exchanges, OtherExchange
<1>2. \A side : /\ Engine(books, "binance", <<>>)!BestAsk(side) = BestAsk(side)
                /\ Engine(books, "binance", <<>>)!BestBid(side) = BestBid(side)
  BY DEF Engine!BestAsk, Engine!BestBid, Engine!Quoted, BestAsk, BestBid, Quoted
<1>3. \A x \in Exchanges :
          /\ BestBid(books[x].bids) # {} /\ BestAsk(books[x].asks) # {}
          /\ \A p \in BestAsk(books[x].asks) : p > 0
  BY <1>2 DEF HasSpread, Engine!HasTopSpread, Exchanges
<1>4. top = IF (bid("binance") - ask("mexc")) * ask("binance")
                  > (bid("mexc") - ask("binance")) * ask("mexc")
            THEN [buy_exchange |-> "mexc", ask |-> ask("mexc"), bid |-> bid("binance")]
            ELSE [buy_exchange |-> "binance", ask |-> ask("binance"), bid |-> bid("mexc")]
  BY DEF Engine!TopSpread, Engine!BestAsk, Engine!BestBid, Engine!Quoted,
         BestAsk, BestBid, Quoted
<1>5. /\ Spread(symbol).symbol = symbol
      /\ Spread(symbol).buy = top.ask /\ Spread(symbol).net = Margin(top.ask, top.bid)
  BY DEF Spread, Margin
<1> HIDE DEF top
<1>6. ASSUME NEW x \in Exchanges
      PROVE  /\ bid(x) \in BestBid(books[x].bids) /\ bid(x) \in Int
             /\ ask(x) \in BestAsk(books[x].asks) /\ ask(x) \in Nat \ {0}
  <2>1. bid(x) \in BestBid(books[x].bids) /\ ask(x) \in BestAsk(books[x].asks)
    BY <1>3
  <2> HIDE DEF bid, ask
  <2>2. bid(x) \in Price /\ ask(x) \in Price
    BY <2>1 DEF BestAsk, BestBid, Quoted
  <2>3. bid(x) \in Int /\ ask(x) \in Int
    BY <2>2, PriceAssumption
  <2>4. ask(x) > 0
    BY <1>3, <2>1
  <2> QED BY <2>1, <2>3, <2>4
<1>7. ask(e) = a /\ bid(f) = b
  <2>1. a \in BestAsk(books[e].asks) /\ b \in BestBid(books[f].bids)
    BY DEF Buys, Sells
  <2>2. \A side : \A p, q \in BestAsk(side) : p = q
    <3>1. \A side : \A x \in Quoted(side) : x \in Int
      BY PriceAssumption DEF Quoted
    <3> QED BY <3>1 DEF BestAsk
  <2>3. \A side : \A p, q \in BestBid(side) : p = q
    <3>1. \A side : \A x \in Quoted(side) : x \in Int
      BY PriceAssumption DEF Quoted
    <3> QED BY <3>1 DEF BestBid
  <2>4. ask(e) \in BestAsk(books[e].asks) /\ bid(f) \in BestBid(books[f].bids)
    BY <1>1, <1>6
  <2> QED BY <2>1, <2>2, <2>3, <2>4
<1>8. PICK c, d : c = ask(f) /\ d = bid(e)
  OBVIOUS
<1>9. a \in Nat \ {0} /\ b \in Int /\ c \in Nat \ {0} /\ d \in Int
  BY <1>1, <1>6, <1>7, <1>8
<1> HIDE DEF ask, bid, f, books
<1>10. \A x \in Nat \ {0}, y \in Int : Margin(x, y) \in Int
  <2>1. TakerFeeBps["binance"] \in Nat /\ TakerFeeBps["mexc"] \in Nat
    BY SettingsAssumption DEF Exchanges
  <2>2. \A x, y, p, q \in Int : (y - x) * 10000 - (p + q) * x \in Int
    OBVIOUS
  <2>3. \A x \in Nat \ {0} : x \in Int
    OBVIOUS
  <2> QED BY <2>1, <2>2, <2>3 DEF Margin
<1>11. \/ top.ask = a /\ top.bid = b
       \/ top.ask = c /\ top.bid = d /\ (b - a) * c <= (d - c) * a
  <2>1. (b - a) * c \in Int /\ (d - c) * a \in Int
    <3>1. \A x, y, z \in Int : (x - y) * z \in Int
      OBVIOUS
    <3> QED BY <1>9, <3>1
  <2>2. CASE e = "binance" /\ f = "mexc"
    <3>1. top = IF (d - c) * a > (b - a) * c
                THEN [buy_exchange |-> "mexc", ask |-> c, bid |-> d]
                ELSE [buy_exchange |-> "binance", ask |-> a, bid |-> b]
      BY <1>4, <1>7, <1>8, <2>2
    <3> QED BY <2>1, <3>1
  <2>3. CASE e = "mexc" /\ f = "binance"
    <3>1. top = IF (b - a) * c > (d - c) * a
                THEN [buy_exchange |-> "mexc", ask |-> a, bid |-> b]
                ELSE [buy_exchange |-> "binance", ask |-> c, bid |-> d]
      BY <1>4, <1>7, <1>8, <2>3
    <3> QED BY <2>1, <3>1
  <2> QED BY <1>1, <2>2, <2>3
<1>12. Margin(a, b) * a <= Margin(a, b) * a
  <2>1. \A x, y \in Int : x * y <= x * y
    OBVIOUS
  <2> QED BY <1>9, <1>10, <2>1
<1>13. CASE top.ask = a /\ top.bid = b
  BY <1>5, <1>9, <1>10, <1>12, <1>13
<1>14. CASE top.ask = c /\ top.bid = d /\ (b - a) * c <= (d - c) * a
  <2>1. Margin(a, b) * c <= Margin(c, d) * a
    BY <1>9, <1>14, LargerMargin
  <2> QED BY <1>5, <1>9, <1>10, <1>14, <2>1
<1> QED BY <1>11, <1>13, <1>14

\* So no trade of a symbol has more of a net spread than its spread at the top.
LEMMA SpreadBounds ==
    ASSUME NEW symbol, HasSpread(symbol), NEW e \in Exchanges,
           NEW o, Trades(Books(symbol), e, o)
    PROVE  /\ Spread(symbol).buy \in Nat \ {0} /\ Spread(symbol).net \in Int
           /\ o.net * Spread(symbol).buy <= Spread(symbol).net * o.buy
<1>1. PICK base, buy, sell, net, f, g :
          /\ base = o.base /\ buy = o.buy /\ sell = o.sell /\ net = o.net
          /\ f = TakerFeeBps[e] /\ g = TakerFeeBps[OtherExchange(e)]
  OBVIOUS
<1>2. /\ base \in Nat \ {0} /\ buy \in Nat \ {0} /\ sell \in Nat /\ sell >= buy
      /\ net = (sell - buy) * 10000 - (buy * f + sell * g)
  BY <1>1 DEF Trades, GrossGain, WithinTops, FeesTaken
<1>3. PICK a \in BestAsk(Buys(Books(symbol), e)), b \in BestBid(Sells(Books(symbol), e)) :
          buy >= base * a /\ sell <= base * b
  BY <1>1 DEF Trades, GrossGain, WithinTops, FeesTaken
<1>4. PICK p, n : p = Spread(symbol).buy /\ n = Spread(symbol).net
  OBVIOUS
<1>5. /\ a \in Nat \ {0} /\ b \in Int /\ p \in Nat \ {0} /\ n \in Int
      /\ Margin(a, b) * p <= n * a
  BY <1>4, SpreadIsLarger
<1>6. /\ f \in Nat /\ g \in Nat
      /\ f + g = TakerFeeBps["binance"] + TakerFeeBps["mexc"]
  <2>1. TakerFeeBps["binance"] \in Nat /\ TakerFeeBps["mexc"] \in Nat
    BY SettingsAssumption DEF Exchanges
  <2> QED BY <1>1, <2>1 DEF OtherExchange, Exchanges
<1>7. b \in Nat
  <2> SUFFICES ASSUME b < 0 PROVE FALSE
    BY <1>5
  <2>1. \A x \in Nat, y \in Int : y < 0 /\ x > 0 => x * y < 0 /\ x * y \in Int
    OBVIOUS
  <2>2. base * b < 0 /\ base * b \in Int
    BY <1>2, <1>5, <2>1
  <2> QED BY <1>2, <1>3, <2>2
<1>8. net * a <= ((b - a) * 10000 - (f + g) * a) * buy
  <2>1. base \in Nat /\ base > 0 /\ buy \in Nat /\ a \in Nat
    BY <1>2, <1>5
  <2>2. ((sell - buy) * 10000 - (buy * f + sell * g)) * a
            <= ((b - a) * 10000 - (f + g) * a) * buy
    BY <1>2, <1>3, <1>6, <1>7, <2>1, WalksAssumptions, Walks!SpreadAtTheTop
  <2> QED BY <1>2, <2>2
<1>9. net \in Int
  <2>1. \A s, t, x, y \in Nat : (s - t) * 10000 - (t * x + s * y) \in Int
    OBVIOUS
  <2> QED BY <1>2, <1>6, <2>1
<1>10. PICK m : m = Margin(a, b)
  OBVIOUS
<1>11. m = (b - a) * 10000 - (f + g) * a
  BY <1>6, <1>10 DEF Margin
<1>12. m \in Int
  <2>1. \A x, y, z \in Int : (y - x) * 10000 - z * x \in Int
    OBVIOUS
  <2>2. f + g \in Int /\ a \in Int
    BY <1>5, <1>6
  <2> QED BY <1>5, <1>11, <2>1, <2>2
<1>13. net * a <= m * buy /\ m * p <= n * a
  BY <1>5, <1>8, <1>10, <1>11
<1>14. net * p <= n * buy
  BY <1>2, <1>5, <1>9, <1>12, <1>13, FractionOrder
<1> QED BY <1>1, <1>4, <1>5, <1>14

\* A line of the report.
Line(o) == o.net \in Int /\ o.buy \in Nat \ {0}

LEMMA ScanBounded ==
    ASSUME NEW symbol, BothBooks(Books(symbol)), NEW i \in DOMAIN ScanSymbol(symbol)
    PROVE  /\ Line(ScanSymbol(symbol)[i]) /\ ScanSymbol(symbol)[i].symbol = symbol
           /\ HasSpread(symbol) => Line(Spread(symbol))
                                   /\ ~Better(ScanSymbol(symbol)[i], Spread(symbol))
<1> DEFINE both == Direction(Books(symbol), "binance") \o Direction(Books(symbol), "mexc")
           found == Engine(Books(symbol), "binance", <<>>)!Sorted(both)
           ATrade(o) == \E e \in Exchanges : Trades(Books(symbol), e, o)
<1>1. ScanSymbol(symbol) =
        [k \in DOMAIN found |-> [symbol |-> symbol, buy_exchange |-> found[k].buy_exchange,
                                 net |-> found[k].net, buy |-> found[k].buy]]
  BY DEF ScanSymbol
<1>2. \A k \in DOMAIN found : ATrade(found[k])
  <2>1. "binance" \in Exchanges /\ "mexc" \in Exchanges
    BY DEF Exchanges
  <2>2. PICK first, second : /\ first = Direction(Books(symbol), "binance")
                             /\ second = Direction(Books(symbol), "mexc")
    OBVIOUS
  <2>3. first = <<>> \/ \E o : first = <<o>> /\ ATrade(o)
    BY <2>1, <2>2, DirectionTrades
  <2>4. second = <<>> \/ \E o : second = <<o>> /\ ATrade(o)
    BY <2>1, <2>2, DirectionTrades
  <2> DEFINE S == {o \in {first[1], second[1]} : ATrade(o)}
  <2> HIDE DEF ATrade
  <2>5. first \in Seq(S) /\ second \in Seq(S)
    <3>1. ASSUME NEW list, list = <<>> \/ \E o : list = <<o>> /\ ATrade(o),
                 list[1] \in {first[1], second[1]}
          PROVE  list \in Seq(S)
      <4>1. CASE list = <<>>
        BY <4>1
      <4>2. ASSUME NEW o, list = <<o>>, ATrade(o) PROVE list \in Seq(S)
        <5>1. o \in S
          BY <3>1, <4>2
        <5> HIDE DEF S
        <5> QED BY <4>2, <5>1
      <4> QED BY <3>1, <4>1, <4>2
    <3> QED BY <2>3, <2>4, <3>1
  <2>6. \A o \in S : ATrade(o)
    OBVIOUS
  <2> HIDE DEF S
  <2>7. both \in Seq(S)
    BY <2>2, <2>5
  <2> HIDE DEF both
  <2>8. found \in Seq(S)
    <3>1. found = both \/ (Len(both) = 2 /\ found = <<both[2], both[1]>>)
      BY DEF Engine!Sorted
    <3> HIDE DEF found
    <3>2. CASE Len(both) = 2 /\ found = <<both[2], both[1]>>
      <4>1. both[1] \in S /\ both[2] \in S
        <5>1. \A q \in Seq(S) : Len(q) = 2 => q[1] \in S /\ q[2] \in S
          OBVIOUS
        <5> QED BY <2>7, <3>2, <5>1
      <4> QED BY <3>2, <4>1
    <3> QED BY <2>7, <3>1, <3>2
  <2> HIDE DEF found
  <2>9. \A k \in DOMAIN found : found[k] \in S
    BY <2>8
  <2> QED BY <2>6, <2>9
<1> HIDE DEF found, both
<1>3. PICK o : o = found[i]
  OBVIOUS
<1>4. PICK e \in Exchanges : Trades(Books(symbol), e, o)
  BY <1>1, <1>2, <1>3
<1>5. PICK line : line = ScanSymbol(symbol)[i]
  OBVIOUS
<1>6. line.net = o.net /\ line.buy = o.buy /\ line.symbol = symbol
  BY <1>1, <1>3, <1>5
<1>7. o.net \in Int /\ o.buy \in Nat \ {0}
  <2>1. PICK buy, sell, f, g :
            /\ buy = o.buy /\ sell = o.sell
            /\ f = TakerFeeBps[e] /\ g = TakerFeeBps[OtherExchange(e)]
    OBVIOUS
  <2>2. f \in Nat /\ g \in Nat
    BY <2>1, SettingsAssumption DEF OtherExchange, Exchanges
  <2>3. /\ buy \in Nat \ {0} /\ sell \in Nat
        /\ o.net = (sell - buy) * 10000 - (buy * f + sell * g)
    BY <1>4, <2>1 DEF Trades, GrossGain, WithinTops, FeesTaken
  <2>4. \A s, t, x, y \in Nat : (s - t) * 10000 - (t * x + s * y) \in Int
    OBVIOUS
  <2> QED BY <2>1, <2>2, <2>3, <2>4
<1>8. ASSUME HasSpread(symbol)
      PROVE  Line(Spread(symbol)) /\ ~Better(line, Spread(symbol))
  <2>1. PICK s : s = Spread(symbol)
    OBVIOUS
  <2>2. s.buy \in Nat \ {0} /\ s.net \in Int /\ o.net * s.buy <= s.net * o.buy
    BY <1>4, <1>8, <2>1, SpreadBounds
  <2>3. o.net * s.buy \in Int /\ s.net * o.buy \in Int
    <3>1. \A x, y \in Int : x * y \in Int
      OBVIOUS
    <3> QED BY <1>7, <2>2, <3>1
  <2>4. ~(o.net * s.buy > s.net * o.buy)
    BY <2>2, <2>3
  <2> QED BY <1>6, <2>1, <2>2, <2>4 DEF Line, Better
<1> QED BY <1>5, <1>6, <1>7, <1>8 DEF Line

\* HasSpread, of any store.
Priced(books_of, symbol) ==
    LET books == [e \in Exchanges |-> GetBook(books_of, e, symbol)]
    IN  Engine(books, "binance", <<>>)!HasTopSpread(books["binance"], books["mexc"])

LEMMA PricedNow == \A symbol : HasSpread(symbol) <=> Priced(store, symbol)
BY DEF HasSpread, Priced, Books

\* Each opportunity of a symbol with a spread is no better than some spread.
Covered(books_of, lines, bounds) ==
    \A i \in DOMAIN lines :
        /\ Line(lines[i])
        /\ Priced(books_of, lines[i].symbol) =>
              \E j \in DOMAIN bounds : Line(bounds[j]) /\ ~Better(lines[i], bounds[j])

\* A live scan.
LiveSound ==
    mode = "live" =>
        /\ store \in LiveStores /\ pc # "load"
        /\ \A j \in DOMAIN spreads : Line(spreads[j])
        /\ Covered(store, opportunities, spreads)
        /\ pc = "done" => printed.spreads = First(spreads, SpreadsToPrint)

\* What a longer list of both keeps.
LEMMA CoveredAppended ==
    ASSUME NEW books_of, NEW lines, IsList(lines), NEW bounds, IsList(bounds),
           Covered(books_of, lines, bounds),
           NEW more, IsList(more), NEW longer,
           longer = bounds \/ \E x : longer = Append(bounds, x),
           \A i \in DOMAIN more :
               /\ Line(more[i])
               /\ Priced(books_of, more[i].symbol) =>
                     \E j \in DOMAIN longer : Line(longer[j]) /\ ~Better(more[i], longer[j])
    PROVE  Covered(books_of, lines \o more, longer)
<1>1. PICK S : lines \in Seq(S)
  BY DEF IsList
<1>2. PICK T : more \in Seq(T)
  BY DEF IsList
<1>3. PICK U : bounds \in Seq(U)
  BY DEF IsList
<1>4. \A j \in DOMAIN bounds : j \in DOMAIN longer /\ longer[j] = bounds[j]
  <2>1. ASSUME NEW x, longer = Append(bounds, x), NEW j \in DOMAIN bounds
        PROVE  j \in DOMAIN longer /\ longer[j] = bounds[j]
    <3>1. bounds \in Seq(U \cup {x})
      BY <1>3
    <3> QED BY <2>1, <3>1
  <2> QED BY <2>1
<1>5. PICK all : all = lines \o more
  OBVIOUS
<1>6. \A i \in DOMAIN all :
          \/ i \in DOMAIN lines /\ all[i] = lines[i]
          \/ \E k \in DOMAIN more : all[i] = more[k]
  <2> TAKE i \in DOMAIN all
  <2>1. lines \in Seq(S \cup T) /\ more \in Seq(S \cup T)
    BY <1>1, <1>2
  <2>2. PICK m \in Nat, n \in Nat : m = Len(lines) /\ n = Len(more)
    BY <2>1
  <2>3. DOMAIN all = 1..(m + n) /\ DOMAIN lines = 1..m /\ DOMAIN more = 1..n
    BY <1>5, <2>1, <2>2
  <2>4. CASE i <= m
    BY <1>5, <2>1, <2>2, <2>3, <2>4
  <2>5. CASE i > m
    <3>1. i - m \in DOMAIN more /\ all[i] = more[i - m]
      BY <1>5, <2>1, <2>2, <2>3, <2>5
    <3> QED BY <3>1
  <2> QED BY <2>2, <2>3, <2>4, <2>5
<1>7. ASSUME NEW i \in DOMAIN all
      PROVE  /\ Line(all[i])
             /\ Priced(books_of, all[i].symbol) =>
                   \E j \in DOMAIN longer : Line(longer[j]) /\ ~Better(all[i], longer[j])
  <2>1. PICK o : o = all[i]
    OBVIOUS
  <2>2. CASE i \in DOMAIN lines /\ o = lines[i]
    <3>1. /\ Line(o)
          /\ Priced(books_of, o.symbol) =>
                \E j \in DOMAIN bounds : Line(bounds[j]) /\ ~Better(o, bounds[j])
      BY <2>2 DEF Covered
    <3> QED BY <1>4, <2>1, <3>1
  <2>3. ASSUME NEW k \in DOMAIN more, o = more[k]
        PROVE  /\ Line(o)
               /\ Priced(books_of, o.symbol) =>
                     \E j \in DOMAIN longer : Line(longer[j]) /\ ~Better(o, longer[j])
    BY <2>3
  <2> QED BY <1>6, <2>1, <2>2, <2>3
<1> QED BY <1>5, <1>7 DEF Covered

\* What sorting both lists keeps.
LEMMA CoveredSorted ==
    ASSUME NEW books_of, NEW lines, NEW bounds, Covered(books_of, lines, bounds),
           \A j \in DOMAIN bounds : Line(bounds[j]),
           NEW l \in SortedLists(lines), NEW b \in SortedLists(bounds)
    PROVE  Covered(books_of, l, b) /\ \A j \in DOMAIN b : Line(b[j])
<1>1. PICK p \in [DOMAIN lines -> DOMAIN lines] : l = [i \in DOMAIN lines |-> lines[p[i]]]
  BY DEF SortedLists, Reorderings
<1>2. PICK q \in [DOMAIN bounds -> DOMAIN bounds] :
          /\ b = [i \in DOMAIN bounds |-> bounds[q[i]]]
          /\ \A k \in DOMAIN bounds : \E i \in DOMAIN bounds : q[i] = k
  BY DEF SortedLists, Reorderings
<1>3. \A j \in DOMAIN b : Line(b[j])
  BY <1>2
<1>4. \A k \in DOMAIN bounds : \E j \in DOMAIN b : b[j] = bounds[k]
  BY <1>2
<1>5. ASSUME NEW i \in DOMAIN l
      PROVE  /\ Line(l[i])
             /\ Priced(books_of, l[i].symbol) =>
                   \E j \in DOMAIN b : Line(b[j]) /\ ~Better(l[i], b[j])
  <2>1. PICK k \in DOMAIN lines : l[i] = lines[k]
    BY <1>1
  <2>2. PICK o : o = lines[k]
    OBVIOUS
  <2>3. /\ Line(o)
        /\ Priced(books_of, o.symbol) =>
              \E j \in DOMAIN bounds : Line(bounds[j]) /\ ~Better(o, bounds[j])
    BY <2>2 DEF Covered
  <2> QED BY <1>4, <2>1, <2>2, <2>3
<1> QED BY <1>3, <1>5 DEF Covered

\* No line is better than one that is no worse than another it is not better than.
LEMMA BetterOrder ==
    ASSUME NEW o, NEW s, NEW t, Line(o), Line(s), Line(t), ~Better(o, s), ~Better(s, t)
    PROVE  ~Better(o, t)
<1>1. PICK i, j, k, l, m, n : /\ i = o.net /\ j = s.net /\ k = t.net
                              /\ l = o.buy /\ m = s.buy /\ n = t.buy
  OBVIOUS
<1>2. /\ i \in Int /\ j \in Int /\ k \in Int
      /\ l \in Nat \ {0} /\ m \in Nat \ {0} /\ n \in Nat \ {0}
  BY <1>1 DEF Line
<1>3. \A x, y \in Int : x * y \in Int
  OBVIOUS
<1>4. i * m \in Int /\ j * l \in Int /\ j * n \in Int /\ k * m \in Int /\ i * n \in Int /\ k * l \in Int
  BY <1>2, <1>3
<1>5. ~(i * m > j * l) /\ ~(j * n > k * m)
  BY <1>1 DEF Better
<1>6. i * m <= j * l /\ j * n <= k * m
  BY <1>4, <1>5
<1>7. i * n <= k * l
  BY <1>2, <1>6, FractionOrder
<1>8. ~(i * n > k * l)
  BY <1>4, <1>7
<1> QED BY <1>1, <1>8 DEF Better

\* What a live scan finds for one symbol: lines, each no better than the spread of the
\* symbol where it has one.
LEMMA LiveScanFinds ==
    ASSUME store \in LiveStores, NEW symbol, HasPair(symbol)
    PROVE  /\ HasSpread(symbol) => Line(Spread(symbol))
           /\ \A i \in DOMAIN ScanSymbol(symbol) :
                 /\ Line(ScanSymbol(symbol)[i]) /\ ScanSymbol(symbol)[i].symbol = symbol
                 /\ HasSpread(symbol) => ~Better(ScanSymbol(symbol)[i], Spread(symbol))
<1>1. BothBooks(Books(symbol))
  <2>1. \A e \in Exchanges : <<e, symbol>> \in DOMAIN store
    BY DEF HasPair, HasBook
  <2>2. \A e \in Exchanges : Books(symbol)[e] = store[<<e, symbol>>]
    BY DEF Books, GetBook
  <2> QED BY <2>1, <2>2, LiveAssumption DEF BothBooks
<1>2. ASSUME HasSpread(symbol) PROVE Line(Spread(symbol))
  <2>1. "binance" \in Exchanges
    BY DEF Exchanges
  <2>2. PICK a \in BestAsk(Buys(Books(symbol), "binance")),
             b \in BestBid(Sells(Books(symbol), "binance")) : TRUE
    BY <1>2 DEF HasSpread, Engine!HasTopSpread, Engine!BestAsk, Engine!BestBid, Engine!Quoted,
                BestAsk, BestBid, Quoted, Buys, Sells, OtherExchange
  <2>3. Spread(symbol).buy \in Nat \ {0} /\ Spread(symbol).net \in Int
    BY <1>2, <2>1, <2>2, SpreadIsLarger
  <2> QED BY <2>3 DEF Line
<1>3. ASSUME NEW i \in DOMAIN ScanSymbol(symbol)
      PROVE  /\ Line(ScanSymbol(symbol)[i]) /\ ScanSymbol(symbol)[i].symbol = symbol
             /\ HasSpread(symbol) => ~Better(ScanSymbol(symbol)[i], Spread(symbol))
  BY <1>1, ScanBounded
<1> QED BY <1>2, <1>3

LEMMA LiveScansSymbol ==
    ASSUME LiveSound, mode = "live", IsList(spreads), IsList(opportunities), ScansSymbol
    PROVE  LiveSound'
<1>1. PICK symbol, found, spread :
          /\ symbol = symbols[index + 1] /\ found = ScanSymbol(symbol) /\ spread = Spread(symbol)
  OBVIOUS
<1>2. /\ pc = "scan" /\ pc' = "scan" /\ mode' = mode /\ store' = store /\ HasPair(symbol)
      /\ store \in LiveStores
  BY <1>1 DEF ScansSymbol, loadVars, LiveSound, Scanned
<1>3. PICK lines, bounds, longer, books_of :
          /\ lines = opportunities /\ bounds = spreads /\ longer = spreads' /\ books_of = store
  OBVIOUS
<1>4. /\ longer = IF HasSpread(symbol) THEN Append(bounds, spread) ELSE bounds
      /\ opportunities' = lines \o found
  BY <1>1, <1>3 DEF ScansSymbol
<1>5. /\ HasSpread(symbol) => Line(spread)
      /\ \A i \in DOMAIN found :
            /\ Line(found[i]) /\ found[i].symbol = symbol
            /\ HasSpread(symbol) => ~Better(found[i], spread)
  BY <1>1, <1>2, LiveScanFinds
<1>6. /\ IsList(lines) /\ IsList(bounds) /\ IsList(found) /\ Covered(books_of, lines, bounds)
      /\ \A j \in DOMAIN bounds : Line(bounds[j])
      /\ HasSpread(symbol) <=> Priced(books_of, symbol)
  BY <1>1, <1>3, ScanIsList, PricedNow DEF LiveSound
<1>7. PICK S : bounds \in Seq(S)
  BY <1>6 DEF IsList
<1>8. PICK n \in Nat : n = Len(bounds) /\ DOMAIN bounds = 1..n
  BY <1>7
<1>9. ASSUME HasSpread(symbol)
      PROVE  /\ n + 1 \in DOMAIN longer /\ longer[n + 1] = spread
             /\ \A j \in DOMAIN longer :
                   j = n + 1 \/ (j \in DOMAIN bounds /\ longer[j] = bounds[j])
  <2>1. bounds \in Seq(S \cup {spread}) /\ longer = Append(bounds, spread)
    BY <1>4, <1>7, <1>9
  <2>2. DOMAIN longer = 1..(n + 1)
    BY <1>8, <2>1
  <2>3. longer[n + 1] = spread /\ \A j \in 1..n : longer[j] = bounds[j]
    BY <1>8, <2>1
  <2>4. n + 1 \in 1..(n + 1) /\ \A j \in 1..(n + 1) : j = n + 1 \/ j \in 1..n
    OBVIOUS
  <2> QED BY <1>8, <2>2, <2>3, <2>4
<1>10. \A j \in DOMAIN longer : Line(longer[j])
  BY <1>4, <1>5, <1>6, <1>9
<1>11. \A i \in DOMAIN found :
          /\ Line(found[i])
          /\ Priced(books_of, found[i].symbol) =>
                \E j \in DOMAIN longer : Line(longer[j]) /\ ~Better(found[i], longer[j])
  BY <1>5, <1>6, <1>9, <1>10
<1>12. longer = bounds \/ \E x : longer = Append(bounds, x)
  BY <1>4
<1>13. Covered(books_of, lines \o found, longer)
  BY <1>6, <1>11, <1>12, CoveredAppended
<1>14. Covered(store', opportunities', spreads')
  BY <1>2, <1>3, <1>4, <1>13
<1> QED BY <1>2, <1>3, <1>10, <1>14 DEF LiveSound

\* The first spread that is printed is the best of them.
LEMMA FirstOfSorted ==
    ASSUME NEW list, IsSorted(list), NEW limit \in Nat \ {0}, NEW j \in DOMAIN list,
           NEW o, Line(o), Line(list[j]), Line(list[1]), ~Better(o, list[j])
    PROVE  First(list, limit) # <<>> /\ ~Better(o, First(list, limit)[1])
<1>1. PICK S : list \in Seq(S)
  BY DEF IsSorted, IsList
<1>2. PICK n \in Nat : n = Len(list) /\ DOMAIN list = 1..n
  BY <1>1
<1>3. PICK m \in 1..n : First(list, limit) = SubSeq(list, 1, m)
  BY <1>2 DEF First
<1>4. First(list, limit)[1] = list[1] /\ First(list, limit) # <<>>
  BY <1>1, <1>2, <1>3
<1>5. ~Better(o, list[1])
  <2>1. CASE j = 1
    BY <2>1
  <2>2. CASE j # 1
    <3>1. 1 \in DOMAIN list /\ 1 < j
      BY <1>2, <2>2
    <3>2. ~Better(list[j], list[1])
      BY <3>1 DEF IsSorted
    <3> QED BY <3>2, BetterOrder
  <2> QED BY <2>1, <2>2
<1> QED BY <1>4, <1>5

LEMMA LiveInductive == Spec => []LiveSound
<1>1. Init => LiveSound
  <2> SUFFICES ASSUME Init, mode = "live" PROVE LiveSound
    BY DEF LiveSound
  <2>1. pc = "scan" /\ spreads = <<>> /\ opportunities = <<>> /\ store \in LiveStores
    BY DEF Init
  <2>2. Covered(store, opportunities, spreads) /\ \A j \in DOMAIN spreads : Line(spreads[j])
    BY <2>1 DEF Covered
  <2> QED BY <2>1, <2>2 DEF LiveSound
<1>2. ListsSound /\ LiveSound /\ [Next]_vars => LiveSound'
  <2> SUFFICES ASSUME ListsSound, LiveSound, [Next]_vars PROVE LiveSound'
    OBVIOUS
  <2>1. mode' = mode
    BY DEF Next, Loads, Fails, SkipsSymbol, ScansSymbol, Sorts, Reports, Stays, vars
  <2> SUFFICES ASSUME mode = "live" PROVE LiveSound'
    BY <2>1 DEF LiveSound
  <2>2. /\ store \in LiveStores /\ pc # "load" /\ \A j \in DOMAIN spreads : Line(spreads[j])
        /\ Covered(store, opportunities, spreads)
        /\ pc = "done" => printed.spreads = First(spreads, SpreadsToPrint)
    BY DEF LiveSound
  <2>3. ASSUME UNCHANGED <<store, spreads, opportunities>>, pc' # "load",
               pc' = "done" => printed'.spreads = First(spreads', SpreadsToPrint)
        PROVE  LiveSound'
    BY <2>2, <2>3 DEF LiveSound
  <2>4. CASE \E body \in Bodies : Loads(body)
    BY <2>2, <2>4 DEF Loads
  <2>5. CASE Fails
    BY <2>2, <2>5 DEF Fails
  <2>6. CASE SkipsSymbol
    BY <2>2, <2>3, <2>6 DEF SkipsSymbol, loadVars
  <2>7. CASE ScansSymbol
    <3>1. IsList(spreads) /\ IsList(opportunities)
      BY <2>7 DEF ScansSymbol, ListsSound
    <3> QED BY <2>7, <3>1, LiveScansSymbol
  <2>8. CASE Sorts
    <3>1. /\ spreads' \in SortedLists(spreads) /\ opportunities' \in SortedLists(opportunities)
          /\ pc' = "report" /\ store' = store
      BY <2>8 DEF Sorts, loadVars
    <3>2. Covered(store, opportunities', spreads') /\ \A j \in DOMAIN spreads' : Line(spreads'[j])
      BY <2>2, <3>1, CoveredSorted
    <3> QED BY <2>1, <2>2, <3>1, <3>2 DEF LiveSound
  <2>9. CASE Reports
    <3>1. pc' = "done" /\ UNCHANGED <<store, spreads, opportunities>>
      BY <2>9 DEF Reports, loadVars, scanVars
    <3>2. printed'.spreads = First(spreads, SpreadsToPrint)
      BY <2>9 DEF Reports
    <3> QED BY <2>3, <3>1, <3>2
  <2>10. CASE Stays \/ UNCHANGED vars
    <3>1. UNCHANGED vars
      BY <2>10 DEF Stays
    <3>2. UNCHANGED <<store, spreads, opportunities, pc, printed>>
      BY <3>1 DEF vars, loadVars, scanVars
    <3> QED BY <2>2, <2>3, <3>2
  <2> QED BY <2>4, <2>5, <2>6, <2>7, <2>8, <2>9, <2>10 DEF Next
<1> QED BY <1>1, <1>2, ListsInductive, PTL DEF Spec

\* The report of a scan holds the best of what the books come to, and the first spread a
\* live scan prints is an upper bound for every opportunity of every symbol that has a
\* spread, whatever the books, the fees and the depth: no book needs to be uncrossed.
THEOREM ReportIsTheBest == Spec => []ReportIsBest
<1>1. ListsSound /\ LiveSound => FirstSpreadBoundsAll
  <2> SUFFICES ASSUME ListsSound, LiveSound, pc = "done", mode = "live",
                      NEW i \in DOMAIN opportunities, HasSpread(opportunities[i].symbol)
               PROVE  printed.spreads # <<>> /\ ~Better(opportunities[i], printed.spreads[1])
    BY DEF FirstSpreadBoundsAll
  <2>1. PICK o, list : o = opportunities[i] /\ list = spreads
    OBVIOUS
  <2>2. /\ \A j \in DOMAIN list : Line(list[j])
        /\ printed.spreads = First(list, SpreadsToPrint)
        /\ Covered(store, opportunities, list)
    BY <2>1 DEF LiveSound
  <2>3. IsSorted(list)
    BY <2>1 DEF ListsSound
  <2>4. PICK j \in DOMAIN list : ~Better(o, list[j])
    BY <2>1, <2>2, PricedNow DEF Covered
  <2>5. Line(o)
    BY <2>1, <2>2 DEF Covered
  <2>6. Line(list[j]) /\ Line(list[1])
    <3>1. PICK S : list \in Seq(S)
      BY <2>3 DEF IsSorted, IsList
    <3>2. 1 \in DOMAIN list
      BY <3>1
    <3> QED BY <2>2, <3>2
  <2>7. First(list, SpreadsToPrint) # <<>> /\ ~Better(o, First(list, SpreadsToPrint)[1])
    BY <2>3, <2>4, <2>5, <2>6, PrintAssumption, FirstOfSorted
  <2> QED BY <2>1, <2>2, <2>7
<1>2. ListsSound /\ LiveSound => ReportIsBest
  BY <1>1 DEF ListsSound, ReportIsBest
<1> QED BY <1>2, ListsInductive, LiveInductive, PTL
=============================================================================
