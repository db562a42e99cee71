# A verification project for the arbitrage engine

This directory holds TLA+ models of the arbitrage engine, the TLC runs that check them on small
instances, and proofs for TLAPS that hold for every value of the constants. The program keeps
local copies of the order books of two exchanges, Binance and MEXC, in step with them, and looks
for trades that buy on one and sell on the other. What can go wrong is that a local book is not
the exchange's book and nobody notices, or that what is computed from two right books is wrong.
The project is about these two.

## The system

| Component | State | Operations | Interaction |
| --- | --- | --- | --- |
| `core/OrderBook` | both sides of a book, `last_update_id`, `initialized` | apply a snapshot, apply an update, clear, best and top levels | owned by a manager; copied into the store |
| `exchanges/*LocalBookManager` | a book, a bounded buffer of updates, a status, statistics | `on_update`, `apply_snapshot`, `reset` | called by the threads of `main.cpp` under its mutex |
| `exchanges/*DepthParser`, `*SnapshotParser` | none | JSON and protobuf to `BookUpdate` and `BookSnapshot`, or an exception | called by the threads, before they lock |
| `net/WebSocketClient` | a connection and a message count | connect, subscribe, read until `max_messages` | runs in a thread of its own, calls the handler per message |
| `net/HttpsClient` | none | one blocking request | called by the main thread, outside the mutex |
| `planner/SubscriptionPlanner` | none | groups symbols into connections | its groups become the threads |
| `market/MarketDataStore` | books by exchange and symbol | set, get, count, ready symbols | built from the ready managers, read by a scan |
| `engine/ArbitrageEngine` | its settings | `scan_symbol` | called on the books of the store |
| `main.cpp`, live scanner | managers, threads, counters, sync attempts | `run_live_arbitrage_scan` | the whole pipeline |
| `main.cpp`, local live modes | the same, for one exchange, or one symbol | `run_*_local_live_all`, `run_*_local_live` | books without a scan |
| `main.cpp`, snapshot modes | books of one round of requests | `run_snapshot_*`, `run_*_snapshot` | engine and spread on snapshots |
| `config/Config` | settings | read a file | read once at the start |

What each has to get right:

* **Order book and manager.** A book is the exchange's book at its `last_update_id`, whatever was
  lost, repeated, delayed or buffered; a break of the sequence is noticed; only a snapshot mends it.
* **Threads and main thread.** A snapshot is fetched without the mutex while updates go on
  arriving: the book that comes of it must not miss what was delivered. Attempts are bounded and
  waits have deadlines, so synchronization ends. The failure of one connection must be reported,
  and the program must end when its connections have.
* **Engine and spread.** What is reported can be traded from the books, within the filters, and is
  the best trade there is; the two computations that are logged beside each other agree.

The hard behaviours are the interleaving of the connection threads with synchronization and scan,
messages that are lost or overlap, snapshots that lag behind the feed, retries after a reset, a full
buffer, and threads that fail one by one. Nothing is persisted and nothing is sent twice by the
program: there is no crash recovery to model. `PROJECT.json` lists the hazards line by line.

## Modules

| Module | Models | Correspondence |
| --- | --- | --- |
| `OrderBook` | `core/OrderBook.cpp` | operators on book records; a side is a function from price to quantity, 0 where the map has no entry |
| `ExchangeFeed` | the exchanges (external) | `Truth[v]` is the exchange's book after change `v`; an update covers a range of changes, a snapshot is `Truth[v]` cut to `SnapshotLimit` levels a side |
| `LocalBook` | both managers, which differ in nothing but the exchange | one operator per member function, giving the manager left and the result returned |
| `LocalBookManager` | one manager under every client and every feed | `ReceiveUpdate`, `ReceiveSnapshot`, `ResetManager`: any call, in any order |
| `LiveScanner` | `run_live_arbitrage_scan` | one action per block the code runs under its mutex, per atomic it reads or writes, and per request; `pc`, `task` and `attempt` are the main thread's place in its loops |
| `FeedView` | abstract specification of one feed | syncing, then live at ever later changes, then lost for good |
| `LocalLiveAll` | `run_binance_local_live_all`, `run_mexc_local_live_all` | as `LiveScanner`; the shared flags `ws_started` and `ws_finished`, one wait per symbol, retries without a wait |
| `LocalLive` | `run_binance_local_live`, `run_mexc_local_live` | one thread and one book; every attempt waits for its buffer; the one request outside any `try` ends in `terminated` when it fails |
| `SubscriptionPlanner` | `planner/SubscriptionPlanner.cpp` | one iteration of the outer loop is `AddsGroup`; sums are taken modulo `WordSize` |
| `Startup` | `main()`, `config/Config.cpp`, `net/WsEndpoint.hpp` | reading the arguments and the file, planning for each exchange in turn (the actions of `SubscriptionPlanner`), choosing the mode, opening its connections one by one |
| `PlainFeed` | `run_binance_live`, `run_mexc_live`, the depth parsers, the message loop of `net/WebSocketClient.cpp` | extends `Startup`: the modes that run on the main thread, to their end |
| `MarketDataStore` | `market/MarketDataStore.cpp` | operators on a function from exchange and symbol to book |
| `Parsers` | the snapshot parsers | operators on abstract answers: what is taken, passed over, refused |
| `MarketScan` | `run_snapshot_arbitrage_scan`, `run_snapshot_top_spread_scan`, `scan_live_store_once` | requests with their three attempts, the scan symbol by symbol, the sort, the report; a symbol's spread and opportunities come from the operators of `ArbitrageEngine` |
| `ArbitrageEngine` | `engine/ArbitrageEngine.cpp`, `compute_top_of_book_spread` | one iteration of the walk is the action `Fills`; `BeginsWalk`, `Concludes` and `FindsNothing` are the rest of `evaluate_direction` |
| `MC*` | instances for TLC | |
| `LocalBook_proofs`, `LocalBookManager_proofs`, `LocalLive_proofs`, `LiveScanner_proofs`, `LocalLiveAll_proofs`, `MarketScan_proofs`, `ArbitrageEngine_proofs`, `Startup_proofs` | proofs | see below |

How they are composed: `LiveScanner`, `LocalLive` and `LocalLiveAll` extend `LocalBook`, which extends
`ExchangeFeed` and `OrderBook`. `PlainFeed` extends `Startup`, and `Startup` extends
`SubscriptionPlanner`: `main()` calls the planner twice, and what it opens are the connections the
other modes take for granted (`GroupAssumption`). `MarketScan` extends `MarketDataStore` and
`Parsers`, and instantiates `ArbitrageEngine` once per pair of books.

`LiveScanner`, `LocalLive` and `LocalLiveAll` use the operators of `LocalBook` that `LocalBookManager` drives
freely. So what is proved of `LocalBookManager` needs no client discipline, and the modules of the
modes are left with the properties that do need it: which calls, when, under which lock.

Definitions named as a mutant in their comment are plausible bugs of the definition that follows
them. No specification uses them: each property is checked to fail when one is put in place.

### Abstractions

* Prices and quantities are integers; the code compares and stores doubles. The engine's one
  division is exact because quantities are counted in a unit that every price divides. Rounding and
  `kEpsilon` are therefore not covered, nor is the wrap of 64-bit update ids.
* Printing and formatting are left out; in the modes that keep books an exception of a parser, a
  connection or a request is a step (`Throws`, `FetchFails`). There the retries inside
  `fetch_*_with_retries` are one success or one failure, since no other thread sees the difference;
  `MarketScan` models them one by one.
* Parsers: `Parsers` keeps the structure of a snapshot's levels (short ones are passed over, a text
  that is no number throws). Of a depth message `PlainFeed` keeps what the parsers tell apart: whether
  it can be read, is a depth message, is complete.
* Files: one that is not readable stands for all that make `yaml-cpp` throw, a missing file and a
  value of the wrong kind included. The address of an exchange is empty, malformed or a `wss` address;
  `make_ws_endpoint` refuses the first two. A symbol is its spelling, and `Fold` its upper case.
* `Startup` follows the live scanner, the local live modes and the snapshot modes to the point where
  they run; `at = "running"` is where the module of the mode goes on.
* Deadlines: a wait may give up at any poll, early or late (`WaitGivesUp`). This includes every real
  timing, and the ends of a wait that the flags cause.
* The modes do not read a manager's statistics; there they are kept at zero. `LocalBookManager`
  models them.
* In the modes a connection delivers in order but may skip changes. In `LocalBookManager` updates
  may also repeat, overlap and go back.
* With `MaxMessages = 0` (run for ever) the number of messages is not counted, as nothing reads it.

## Runs

| Run | Instance | Shows |
| --- | --- | --- |
| `manager` | 4 changes, snapshots of one level a side, a buffer of 2, 5 updates between resets | the manager under every order of calls: the book is the exchange's up to the snapshot's cut and exact above it, its best prices are the exchange's above the cut and nowhere better, it is never crossed, the status means what the modes take it for, every update is accounted for, replaying the buffer is the same as receiving it after the snapshot, updates only move forward and never resynchronize |
| `live` | one symbol on two exchanges, 3 changes, 3 messages a connection, a buffer of 2 | ready books miss nothing that was delivered, scans get current books, a stop without an exception read everything, every feed implements `FeedView` |
| `live_fair` | a symbol configured twice, connections without a limit of messages, 2 changes | the second synchronization of a ready book does no harm; no feed synchronizes for ever; the program stops once its connections have ended |
| `engine` | all 88,804 pairs of uncrossed books over 4 prices with 3 quantities, or without a snapshot | the walk can be traded and is optimal, each iteration brings it nearer to its end, agreement with the top-of-book spread, filters |
| `local_live` | 4 changes, 4 messages, a buffer of 2 | a ready book misses nothing delivered; the fate of the book that is reported is its state, and a stop without an exception read everything (`SummaryIsRight`); the book implements `FeedView`; the attempts end, and the mode after its connection (`ModeEnds`) |
| `local_live_all` | two symbols on two connections, 3 changes, 2 messages, a buffer of 1 | the summary counts every symbol and every update once and keeps a failure; a lagging book is found out by its next update; the initial sync ends, and the mode after its connections |
| `startup` | five spellings of four symbols, six lists, words of 3 bits, limits 0, 1, 2, 3 and 7, every combination of sections for two exchanges, every mode, 3 messages of 4 kinds | every configured symbol is on one connection of the exchanges whose books a mode keeps; the planner puts each stream on one connection and each group brings it past more symbols; errors of a one-exchange mode reach `main()`'s handler; a plain feed counts every message |
| `market_scan` | two symbols, or one twice, 6 answers, failures at every attempt | a failure costs one book and nothing else; the two summaries agree; the report holds the best lines, and its first spread bounds every opportunity |
| `gap_counters` (violation) | 3 changes, 2 messages | counters at zero do not mean that no gap was detected |
| `book_age` (violation) | 2 changes, 2 messages | no book is ever too old to be scanned |
| `lagging_book` (violation) | one symbol, 3 changes, 3 messages | a retry of the all-symbols local live modes makes a book ready that misses delivered updates |
| `request_failure` (violation) | as `local_live` | a request that fails in a one-symbol local live mode ends the process past the handler of `main()` |

A run of a mode states safety and liveness of one instance together, and one property joins what is
said of one thing: `SummaryIsRight` and `ReportIsBest` are conjunctions of named parts, `ModeEnds` of
two promises about the end of a mode.

**Why the bounds are enough.** The logic compares update ids only with `last_update_id`,
`last_update_id + 1` and each other. With 4 changes there is room for an update that is stale, one
that bridges, one that follows, and one beyond a gap, and for a buffer whose front is stale, whose
middle bridges and whose end leaves a gap. A buffer of 2 is filled and overflows. Snapshots of one
level leave a level of the exchange's book unknown that later becomes the best. The histories have
levels that appear, change and vanish on both sides, next to each other, so a change that is missed
or applied twice shows. In `local_live` a bid comes and goes, so that the refinement sees levels
vanish; in the other modes the books have one level whose quantity grows: that levels are right is
the subject of `manager`. One symbol on both exchanges already has the main thread work on one book
while the other is live; three messages are enough to buffer, discard and deliver anew. In `engine`,
the depth limit of 2 cuts books of up to 4 levels, the cap of 60 binds in part of the books, and
fees of 15 % and 20 % make levels that pay before fees and not after. In `startup` the limits lie
below, at and above the length of the list, up to the last number of a word of 3 bits, the smallest
whose half holds a list of 4 symbols; groups are full, cut short, or the only one. Both exchanges
have every section on their own, so that one is disabled, missing or malformed while the other is
not. In `market_scan` each request fails up to three times, one answer lacks a side and one of its
levels is too short or repeated; two symbols make two lines to sort, of which a live scan prints
one.

**Fairness.** `FairSpec` of the three modes with threads assumes weak fairness of the main thread's
next step, and of the steps with which a thread starts and leaves (`++started_ws_threads`,
`++finished_ws_threads`): they block on nothing but the scheduler and a mutex that is never held
across a blocking call. Every wait of the main thread has a deadline. That a request ends, by
success or failure, is an assumption: `HttpsClient` sets `expires_after`, but Beast applies it to
asynchronous calls and these are synchronous, so a server that stays silent could block the main
thread. No fairness is given to reading, closing or failing: a connection may stay silent for ever.
Therefore `StopsAfterFeeds` and `ModeEnds` start from connections that have ended. `Startup`,
`PlainFeed`, `ArbitrageEngine` and `MarketScan` are sequential and stated without fairness.

**Refinement.** `FeedsAreViews` maps each feed of the scanner to a `FeedView`: a ready book is a live
view of its bids and asks at its update id, a book that is not ready once its turn is over is lost.
`FeedView` knows of what a live view must show only the relation `Agrees`; both instances take
`SidesMatch` of `ExchangeFeed` for it: every level of the book is one of the exchange's at that change.
It states the initial condition and every step of the abstract specification for all feeds at once,
and `FeedsSettle` (run `live_fair`) states its liveness. `FeedIsView` states the same of `LocalLive`,
where a view is lost when the thread meets a gap or the last attempt fails. `LocalLiveAll` does not
implement `FeedView`: the violation run `lagging_book` shows why.

## What the violation runs show

1. *Gap counters.* `binance_gaps` and `mexc_gaps` count updates that arrive while a book needs a
   resync. A gap that `apply_snapshot` detects is not counted if the next attempt resets the manager
   before another update arrives. README.md of the repository reads zero counters as "no sequence
   gaps were detected during the run".
2. *Book age.* `max_book_age_ms` is read from the configuration, among the arbitrage filters, and
   used nowhere.
3. *Lagging book.* The all-symbols local live modes reset a manager whose snapshot was refused, and
   fetch the next one at once; the documented order is to buffer first. A snapshot older than the
   discarded updates then makes the book ready. `LaggingBookIsFoundOut` shows what limits the harm:
   the next update of the symbol reveals the gap; the book then stays out of sequence. The live
   scanner waits for the buffer in every attempt and does not have this: `ReadyBookIsCurrent` is an
   invariant there.

4. *Request failure.* `run_*_local_live` fetch their snapshot outside any `try`, with a thread that is
   joinable. The request is a single call with no retry: when it fails once, the stack unwinds past the
   thread, `std::terminate` is called, and neither "Fatal error" nor the summary of the mode is
   printed.

`Startup` has two more steps of this kind, which no run singles out. The live scan opens the
connections of MEXC when the threads of Binance run, and a malformed address of MEXC terminates the
process (`EndpointThrows`); `FailsCleanly` therefore speaks of the modes of one exchange. And
`--max-messages` with a value that is no number throws before the `try` of `main()`
(`RefusesArguments`).

## Proofs

`LocalBookManager_proofs` proves, for every set of prices, history of the exchange, snapshot depth,
buffer bound and set of feeds:

| Theorem | Property |
| --- | --- |
| `TypeCorrect` | `TypeOK` |
| `StatusSound` | `StatusMatchesBook` |
| `BooksMatch` | `BookMatchesExchange` |
| `NoneCrossed` | `NeverCrossed` |
| `BestIsBest` | `TopOfBookExact` |
| `AllAccounted` | `EveryUpdateAccounted` |
| `BufferingTransparent` | `BufferingIsTransparent` |
| `MovesForward` | `UpdatesMoveForward` |

The assumptions are those the modules name: prices are integers and finitely many, the exchange's
history consists of books and is never crossed, bounds are natural numbers.

The inductive invariant `IInv` joins the type invariant, the status property, `BookMatchesExchange`
and `EveryUpdateAccounted` with what they need and do not say: a book that is not initialized is
empty (`NoBookIsEmpty`), and the buffer holds updates of the manager's own feed (`BufferIsOwn`).
`TypeOK` is more than typing here: the buffer holds real depth updates, so that
replaying them keeps the book the exchange's. The step that matters is an applied update: it
covers the changes from at most `last_update_id + 1` to its last, so a price that it does not name
was not touched by any change in between (`ConstantOnInterval`, proved from the
natural numbers' least element), and one that it names has the exchange's quantity. `apply_snapshot`
replays a buffer of any length; `LocalBook_proofs` carries the book's invariant through the recursive
function `Replay` by the same induction (`SetInduction`). `NeverCrossed` and `TopOfBookExact` follow
from `BookMatchesExchange`: levels of the local book are levels of the exchange's, which is not
crossed. `BufferingIsTransparent` compares two recursions over the buffer, `Replay` and what
`on_update` makes of the updates one by one: up to the first update that is not stale both leave the
book alone (`StaleFront`), and from the one that bridges the snapshot on they take the same steps
(`ReplayShown`, `UnbridgedShown`).

The modes are proved for any number of symbols, connections, attempts and messages, every history
of the exchange and every snapshot an exchange may answer with, late ones included:

| Module | Theorem | Property |
| --- | --- | --- |
| `LocalLive_proofs` | `TypeCorrect` | `TypeOK` |
| | `BookCurrent` | `ReadyBookIsCurrent` |
| | `SummaryRight` | `SummaryIsRight` |
| | `Refinement` | `FeedIsView` |
| `LiveScanner_proofs` | `TypeCorrect` | `TypeOK` |
| | `BooksCurrent` | `ReadyBookIsCurrent` |
| | `CopiesCurrent` | `ScannedBooksCurrent` |
| | `CleanStop` | `CleanStopReadEverything` |
| | `Refinement` | `FeedsAreViews`, if no symbol is configured twice |
| `LocalLiveAll_proofs` | `TypeCorrect` | `TypeOK` |
| | `SummaryRight` | `SummaryIsRight` |
| | `LagFoundOut` | `LaggingBookIsFoundOut` |

The first question of these proofs is why a book is current although an attempt threw updates away.
Whatever was discarded, a buffer that is not empty ends with what the connection delivered last
(`BookSound`, `CurrentAt`), and an attempt of `LocalLive` and `LiveScanner` fetches only when its
buffer is not empty (`AttemptSound`). So a snapshot that is taken either is past the last update of
the buffer, or is followed by all of it up to that update; any other is refused. `LocalLiveAll` fetches
again with an empty buffer after a reset: there a book may lag, and what is proved is
`LaggingBookIsFoundOut`, because an update that follows on what was delivered does not follow on a
book that lags. The other parts count: no more books are counted than had their turn
(`SyncedSound`), the symbols counted are the turns and the books counted those that are there
(`BooksCounted`), and a thread that ended without an exception has read all its messages (`EndSound`).

For the refinements each step of a mode is mapped to a step of `FeedView` or to none: the attempt of
the feed at turn takes it live or leaves it hidden, an update moves a live view forward or loses it,
the end of the turn loses a view that is still hidden. `LiveScanner` needs for this that a symbol is not
configured twice: with one that is, the second turn's later attempts reset a book that is live, and
a live view would be hidden again. All other theorems hold for lists with repetitions as well, as
long as one connection carries the symbol (`GroupAssumption`: each feed is read by one thread). A
symbol that is repeated far enough apart for the planner to put it on two connections is outside the
models of the modes. Two connections deliver the same changes twice, one behind the other; what
`LocalBookManager_proofs` says of a manager holds for that too, since it takes updates in any order,
repeated and overlapping. What may fail to hold then is what the modes add: that a ready book is
current.

`ArbitrageEngine_proofs` proves the engine right for every finite set of prices, pair of books that
are not crossed, fee, filter and depth limit:

| Theorem | Property |
| --- | --- |
| `TypeCorrect` | `TypeOK` |
| `FillsAreExecutable` | `WalkIsExecutable` |
| `NothingPaysMore` | `WalkIsOptimal`, if asks are positive |
| `OpportunitiesWithinTop` | `TopSpreadBounds` |
| `ReportedPassFilters` | `FiltersHold` |
| `EachFillAdvances` | `WalkAdvances` |

The lists of levels are strictly sorted and start with the best price (`AskLevels`, `BidLevels`, from
the fact that every rank of a finite set is taken, `RankExists`). The walk's state is held against
`Trade`, which says what a quantity is worth without walking: the walk stands on the level on which the
trade of its base quantity ends, and what remains of the level is what that trade left (`Sits`). One
fill then adds its quantity at the price of that level (`FillSits`, `IterationFits`), and any larger
quantity costs at least, and brings at most, the price of the level the walk stands on (`Beyond`). The
invariant adds to this that no smaller quantity pays more (`Reached`). Where the walk stops, one side is
used up (`Exhausted`), or the next unit exceeds the cap, or it does not pay: so no larger quantity pays
more either (`NothingBetter`). An ask of 0 or less ends the walk of the code though buying more would
pay, hence the hypothesis `AsksPositive`; exchanges quote no such price. An iteration either uses up the
level of a side, or it leaves less of the cap than one more unit costs and is the last
(`IterationReached`), whence `WalkAdvances`: the loop ends after at most as many iterations as there are
levels. Of each opportunity the invariant keeps what the best levels bound (`Bounded`, from
`ReachedBounds`); as books are not crossed, only one direction can then have an opportunity, and its net
spread is at most the one at the top (`SpreadAtTheTop`).

`MarketScan_proofs` proves of the scans, for every list of symbols, every answer of the exchanges and
every failure:

| Theorem | Property |
| --- | --- |
| `OneBookLost` | `FailureCostsOneBook` |
| `TheSummariesAgree` | `SummariesAgree`, if prices are positive |
| `ReportOfTheBest` | `PrintedAreBest`, the first half of `ReportIsBest` |
| `ReportIsTheBest` | `ReportIsBest` |

The invariant `IInv` counts the requests that were made to their end (`RequestsMade`): each was answered
or has failed three times (`RequestsSound`), and each book is the last answer to its feed
(`BooksSound`), which holds with repeated symbols as well. With distinct symbols no two requests ask for
the same feed (`AskedOnce`), so a request loads a book that was not there and the counters are right
(`LoadedSound`). The tests that the modes make for a ready pair come to the same set
(`ScannedArePairs`), except that a spread needs positive asks, hence the hypothesis `PricesPositive`: a
book quoted at 0 is ready in the summary of the store and passed over by the top-spread scan. The
report needs an invariant of its own: what a sort leaves in any order is sorted (`SortingSorts`), and
the first lines of a sorted list are its best (`FirstAreBest`).

The other half of `ReportIsBest`, `FirstSpreadBoundsAll`, relates what the engine computes to what
`compute_top_of_book_spread` does. `MarketScan_proofs` takes the lemmas about the walk from
`ArbitrageEngine_proofs` (`Walks`, an instance: they do not mention the engine's variables, and what
they assume is proved as `WalksAssumptions`). `Direction` of `MarketScan` walks as many iterations as
there are levels; by `IterationReached` the walk does not go on after that, and by `ReachedBounds` what
it comes to is a trade at the best levels or worse (`DirectionEnds`, `DirectionTrades`). Such a trade
has no larger a net spread than the bid and ask it started from (`SpreadAtTheTop`), nor, as the fees of
both directions are the same, than the better of the two directions (`LargerMargin`, `SpreadIsLarger`).
`LiveSound` keeps this while the lists grow and are sorted, and the order of net spreads, which compares
fractions, is transitive (`FractionOrder`, `BetterOrder`), so that the first spread bounds them all. Unlike
`TopSpreadBounds`, this needs no book to be uncrossed. Of the settings it needs that a live scan prints
at least one spread (`PrintAssumption`; the code prints three).

`Startup_proofs` proves first of one call of `plan()`, for every list of symbols, limit and word
size:

| Theorem | Property |
| --- | --- |
| `OnlyZeroThrows` | `OnlyZeroIsRefused` |
| `OneConnectionEach` | `EveryStreamOnOneConnection` |
| `AlwaysAdvances` | `LoopAdvances` |

(and `TypeCorrect`, which they need). The one assumption on sizes is that a list is at most half as
long as the word counts (`ListAssumption`): a vector of strings of more than 2^63 entries cannot
exist. Under it the sums of the loop never wrap around, so the modulus is there because the code's
type has it and nothing rests on it: in the loop either `i = 0`, where the sum is the limit, or
`max_streams <= i` (`IndexBound`), where it is below twice the length of the list (`NoWrap`). So
every group is that of the next symbols: the streams so far are those of the symbols the loop is
past (`StreamsOfPast`, `PastIsCovered`), and no stream is on two connections (`ConnectionsDisjoint`)
because a symbol of a new group has a greater index than one of an old group.

`Startup_proofs` carries this through `main()`. For every file, list, limit, word size, set of flags
and sequence of messages, `FeedSpec` implies each property of the run `startup`:

| Theorem | Property |
| --- | --- |
| `SymbolsConnected` | `EverySymbolConnected` |
| `StreamsPlanned` | `EveryStreamOnOneConnection` |
| `PlanningAdvances` | `LoopAdvances` |
| `ErrorsReported` | `FailsCleanly` |
| `MessagesCounted` | `EveryMessageCounted` |
| `FeedTypeCorrect` | `FeedTypeOK` |

Its invariant `MainInv` holds the planner's `IInv` and what a phase hands to the next one: the
configuration is in upper case and its limits can be planned (`ConfigSound`), the call in progress is
for the exchange `main()` has come to (`CallSound`), what was returned is a plan for every symbol, and
a disabled exchange has no groups (`PlansSound`), and the connections opened are the first ones of
those the mode needs (`Launched`). From `PlansSound` and `Launched`, `EverySymbolConnected` follows:
each connection carries the streams of its group, a stream names its exchange, so in a live scan the
connections of the other exchange carry none of this one's. `FailsCleanly` follows as well: a limit
of zero does not get past `load_config`, and a mode of one exchange that has opened a connection has
an address that is accepted for all of them. The counters of a plain feed have an invariant of their
own, `CountInv`. The assumptions are those named in the modules; `UpperAssumption` says that folding
a symbol twice does what folding it once does.

Only model-checked: everything under fairness (`ModeEnds`, `StopsAfterFeeds`, `FeedsSettle`), which is
out of the prover's reach, as ENABLED is. Every other property of the passing runs is a theorem, some
under the hypotheses named above (positive prices, distinct symbols). The violation runs show what
does not hold; there is nothing of them to prove.

## Not modelled

* TLS, HTTP, sockets and time: input and output. A request succeeds or fails, a connection delivers,
  closes or throws.
* `run_binance_snapshot` and `run_mexc_snapshot`: one request whose answer is printed. The request, the
  parser and `apply_snapshot` that they use are modelled elsewhere.
* The texts of messages, targets, log lines and numbers, the time stamps of updates, the numbers a
  configuration passes on (fees, limits and speeds are constants of the models), and the log level.
* Rounding of doubles, `kEpsilon`, and the wrap of 64-bit update ids.
* A spread between two exchanges needs both sides of both books; an opportunity needs only the asks of
  one and the bids of the other, so it may be reported for a pair that has no spread. `ReportIsBest`
  bounds only the opportunities of symbols that have a spread.

## Plan

Done: models, runs and proofs of the book and its managers, the modes with threads and their abstract
view, the store and the scans, the engine, the planner, the start of the program and the plain feeds.
Every invariant and every action property of the runs is proved. What is left is what the provers
cannot do: liveness, and the rounding of doubles, for which the model would have to compute with them.
