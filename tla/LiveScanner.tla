----------------------------- MODULE LiveScanner -----------------------------
(***************************************************************************)
(* run_live_arbitrage_scan of src/main.cpp: one thread per subscription    *)
(* group reads depth messages into the local book managers of both         *)
(* exchanges, while the main thread synchronizes one book after the other  *)
(* with a REST snapshot and then scans copies of the ready books.  Each    *)
(* block the code runs under its mutex is one action.                      *)
(*                                                                         *)
(* The function never reads the managers' stats(), so they stay at zero    *)
(* here; the gaps it reports are counters of its own.                      *)
(***************************************************************************)
EXTENDS LocalBook

CONSTANTS
    SymbolList,     \* config.symbols
    Threads,        \* the WebSocket threads, one per subscription group
    Group,          \* Group[t]: the feeds thread t is subscribed to
    MaxMessages,    \* messages after which a connection is closed, 0 for never
    NoThread        \* no exception was caught

Exchanges == {"binance", "mexc"}
MaxSyncAttempts == 3

ASSUME SymbolAssumption == SymbolList \in Seq(STRING) /\ SymbolList # <<>>
ASSUME FeedsAssumption ==
    Feeds = {<<e, SymbolList[i]>> : e \in Exchanges, i \in DOMAIN SymbolList}
ASSUME GroupAssumption ==
    /\ Group \in [Threads -> SUBSET Feeds]
    /\ \A f \in Feeds : \E t \in Threads : f \in Group[t] /\ \A u \in Threads \ {t} : f \notin Group[u]
ASSUME MaxMessagesAssumption == MaxMessages \in Nat
ASSUME NoThreadAssumption == NoThread \notin Threads

VARIABLES
    managers,       \* binance_managers and mexc_managers, by feed
    thread,         \* what each WebSocket thread is doing
    messages,       \* messages each thread has handled
    ws_exception,   \* the thread whose exception was caught first
    gaps,           \* binance_gaps and mexc_gaps
    pc,             \* where the main thread is
    task,           \* the book it synchronizes, an index of Tasks
    attempt,        \* the attempt it makes on it
    snapshot,       \* the change the snapshot it fetched was taken at
    synced,         \* binance_synced and mexc_synced
    store,          \* the books of the scan at hand, by feed
    delivered,      \* environment: the last change sent to each feed
    touched,        \* history: books that changed since the main thread slept
    gap_found       \* history: exchanges of which a manager found a gap

threadVars == <<thread, messages, ws_exception, gaps, delivered>>
mainVars == <<pc, task, attempt, snapshot, synced, store>>
vars == <<managers, threadVars, mainVars, touched, gap_found>>

\* Every Binance symbol is synchronized before the first MEXC symbol.
Tasks == [i \in 1..(2 * Len(SymbolList)) |->
            IF i <= Len(SymbolList) THEN <<"binance", SymbolList[i]>>
            ELSE <<"mexc", SymbolList[i - Len(SymbolList)]>>]

Current == Tasks[task]

Init ==
    /\ managers = [f \in Feeds |-> NewManager]
    /\ thread = [t \in Threads |-> "new"]
    /\ messages = [t \in Threads |-> 0]
    /\ ws_exception = NoThread
    /\ gaps = [e \in Exchanges |-> 0]
    /\ pc = "start"
    /\ task = 1
    /\ attempt = 1
    /\ snapshot = 0
    /\ synced = [e \in Exchanges |-> 0]
    /\ store = <<>>
    /\ delivered = [f \in Feeds |-> 0]
    /\ touched = {}
    /\ gap_found = {}

\* The manager of feed f took part in an operation that left out.
ManagerBecomes(f, out) ==
    /\ managers' = [managers EXCEPT ![f] = Unstated(out.m)]
    /\ touched' = IF pc = "sleep" /\ out.m.book # managers[f].book
                  THEN touched \cup {f} ELSE touched
    /\ gap_found' = IF out.m.stats.gaps_detected > 0
                    THEN gap_found \cup {f[1]} ELSE gap_found

-----------------------------------------------------------------------------
(* The WebSocket threads.                                                  *)

Starts(t) ==
    /\ thread[t] = "new"
    /\ thread' = [thread EXCEPT ![t] = "reading"]
    /\ UNCHANGED <<managers, messages, ws_exception, gaps, delivered, mainVars,
                   touched, gap_found>>

\* One more message, while the limit allows it.
Reads(t) ==
    /\ thread[t] = "reading"
    /\ MaxMessages = 0 \/ messages[t] < MaxMessages
    /\ messages' = [messages EXCEPT ![t] = IF MaxMessages = 0 THEN 0 ELSE @ + 1]
    /\ UNCHANGED <<thread, ws_exception, mainVars>>

\* A depth update of a book; the connection delivers in order, but may have skipped
\* changes.  The counter counts every update after which the book needs a resync.
ReadsUpdate(t, f, first, final) ==
    /\ Reads(t)
    /\ f \in Group[t]
    /\ first > delivered[f]
    /\ delivered' = [delivered EXCEPT ![f] = final]
    /\ LET out == OnUpdate(f, managers[f], DepthUpdate(f, first, final))
       IN  /\ ManagerBecomes(f, out)
           /\ gaps' = [gaps EXCEPT ![f[1]] = IF NeedResync(out.m) THEN @ + 1 ELSE @]

\* A message that is no depth update, or one of an unknown symbol.
ReadsOther(t) ==
    /\ Reads(t)
    /\ UNCHANGED <<managers, gaps, delivered, touched, gap_found>>

\* The connection closes after MaxMessages messages.
Returns(t) ==
    /\ thread[t] = "reading"
    /\ MaxMessages > 0 /\ messages[t] = MaxMessages
    /\ thread' = [thread EXCEPT ![t] = "ended"]
    /\ UNCHANGED <<managers, messages, ws_exception, gaps, delivered, mainVars,
                   touched, gap_found>>

\* Mutant: the exception is caught and dropped.
ThrowsUnrecorded(t) ==
    /\ thread[t] = "reading"
    /\ thread' = [thread EXCEPT ![t] = "ended"]
    /\ UNCHANGED <<managers, messages, ws_exception, gaps, delivered, mainVars,
                   touched, gap_found>>

\* Connecting, reading or parsing throws; the first exception is kept.
Throws(t) ==
    /\ thread[t] = "reading"
    /\ thread' = [thread EXCEPT ![t] = "ended"]
    /\ ws_exception' = IF ws_exception = NoThread THEN t ELSE ws_exception
    /\ UNCHANGED <<managers, messages, gaps, delivered, mainVars, touched, gap_found>>

\* Mutant: the count of finished threads misses one that threw.
FinishesUnlessThrown(t) ==
    /\ thread[t] = "ended"
    /\ ws_exception # t
    /\ thread' = [thread EXCEPT ![t] = "finished"]
    /\ UNCHANGED <<managers, messages, ws_exception, gaps, delivered, mainVars,
                   touched, gap_found>>

Finishes(t) ==
    /\ thread[t] = "ended"
    /\ thread' = [thread EXCEPT ![t] = "finished"]
    /\ UNCHANGED <<managers, messages, ws_exception, gaps, delivered, mainVars,
                   touched, gap_found>>

AllFinished == \A t \in Threads : thread[t] = "finished"

-----------------------------------------------------------------------------
(* The main thread: synchronization.                                       *)

\* Mutant: one task too many.
NextTaskPastEnd ==
    /\ attempt' = 1
    /\ IF task <= Len(Tasks) THEN task' = task + 1 /\ pc' = "reset"
       ELSE task' = task /\ pc' = "loop"

\* The next book, or the scan loop after the last one.
NextTask ==
    /\ attempt' = 1
    /\ IF task < Len(Tasks) THEN task' = task + 1 /\ pc' = "reset"
       ELSE task' = task /\ pc' = "loop"

NextAttempt ==
    IF attempt < MaxSyncAttempts
    THEN attempt' = attempt + 1 /\ pc' = "reset" /\ task' = task
    ELSE NextTask

AwaitsStart ==
    /\ pc = "start"
    /\ \A t \in Threads : thread[t] # "new"
    /\ pc' = "reset"
    /\ UNCHANGED <<managers, threadVars, task, attempt, snapshot, synced, store,
                   touched, gap_found>>

\* Every attempt but the first starts over.
ResetsForAttempt ==
    /\ pc = "reset"
    /\ managers' = [managers EXCEPT ![Current] = IF attempt > 1 THEN Reset ELSE @]
    /\ pc' = "wait"
    /\ UNCHANGED <<threadVars, task, attempt, snapshot, synced, store, touched, gap_found>>

\* Mutant: the snapshot is fetched without waiting for an update.
WaitSeesNothing ==
    /\ pc = "wait"
    /\ pc' = "fetch"
    /\ UNCHANGED <<managers, threadVars, task, attempt, snapshot, synced, store,
                   touched, gap_found>>

WaitSeesBuffer ==
    /\ pc = "wait"
    /\ managers[Current].buffer # <<>>
    /\ pc' = "fetch"
    /\ UNCHANGED <<managers, threadVars, task, attempt, snapshot, synced, store,
                   touched, gap_found>>

\* Mutant: the wait has no deadline.
WaitGivesUpAtEnd ==
    /\ pc = "wait"
    /\ AllFinished
    /\ NextAttempt
    /\ UNCHANGED <<managers, threadVars, snapshot, synced, store, touched, gap_found>>

\* The deadline of 15 seconds may pass at any poll; the wait also ends once every
\* thread has finished, which changes nothing else.
WaitGivesUp ==
    /\ pc = "wait"
    /\ NextAttempt
    /\ UNCHANGED <<managers, threadVars, snapshot, synced, store, touched, gap_found>>

\* The request runs outside the mutex; the snapshot is of any age the exchange serves.
Fetches(v) ==
    /\ pc = "fetch"
    /\ snapshot' = v
    /\ pc' = "apply"
    /\ UNCHANGED <<managers, threadVars, task, attempt, synced, store, touched, gap_found>>

\* All retries of the request failed.
FetchFails ==
    /\ pc = "fetch"
    /\ NextAttempt
    /\ UNCHANGED <<managers, threadVars, snapshot, synced, store, touched, gap_found>>

AppliesSnapshot ==
    /\ pc = "apply"
    /\ \E received \in {DepthSnapshot(Current, snapshot)} :
        \E out \in {ApplySnapshot(Current, managers[Current], received)} :
            /\ ManagerBecomes(Current, out)
            /\ IF Ready(out.m)
               THEN NextTask /\ synced' = [synced EXCEPT ![Current[1]] = @ + 1]
               ELSE NextAttempt /\ UNCHANGED synced
    /\ snapshot' = 0
    /\ UNCHANGED <<threadVars, store>>

-----------------------------------------------------------------------------
(* The main thread: the scan loop.                                         *)

\* While a thread still runs: sleep two seconds, copy, scan.
EntersRound ==
    /\ pc = "loop"
    /\ pc' = IF AllFinished THEN "join" ELSE "sleep"
    /\ touched' = {}
    /\ UNCHANGED <<managers, threadVars, task, attempt, snapshot, synced, store, gap_found>>

\* Mutant: books that need a resync are copied as well.
InitializedBooks ==
    [f \in {g \in Feeds : managers[g].book.initialized} |-> managers[f].book]

\* build_live_store_from_managers: the ready books of both exchanges, at one moment.
ReadyBooks == [f \in {g \in Feeds : Ready(managers[g])} |-> managers[f].book]

CopiesBooks ==
    /\ pc = "sleep"
    /\ store' = ReadyBooks
    /\ pc' = "scan"
    /\ UNCHANGED <<managers, threadVars, task, attempt, snapshot, synced, touched, gap_found>>

\* scan_live_store_once reads the copies only; then they are gone.
Scans ==
    /\ pc = "scan"
    /\ store' = <<>>
    /\ touched' = {}
    /\ pc' = "loop"
    /\ UNCHANGED <<managers, threadVars, task, attempt, snapshot, synced, gap_found>>

\* After the join the first exception is thrown again; without one, the final
\* summary is printed.
Joins ==
    /\ pc = "join"
    /\ AllFinished
    /\ pc' = IF ws_exception = NoThread THEN "stopped" ELSE "threw"
    /\ UNCHANGED <<managers, threadVars, task, attempt, snapshot, synced, store,
                   touched, gap_found>>

-----------------------------------------------------------------------------
ThreadStep(t) ==
    \/ Starts(t)
    \/ \E f \in Feeds, r \in UpdateRange : ReadsUpdate(t, f, r[1], r[2])
    \/ ReadsOther(t)
    \/ Returns(t)
    \/ Throws(t)
    \/ Finishes(t)

MainStep ==
    \/ AwaitsStart
    \/ ResetsForAttempt
    \/ WaitSeesBuffer
    \/ WaitGivesUp
    \/ \E v \in 0..MaxId : Fetches(v)
    \/ FetchFails
    \/ AppliesSnapshot
    \/ EntersRound
    \/ CopiesBooks
    \/ Scans
    \/ Joins

Done == pc \in {"stopped", "threw"}
Stays == Done /\ UNCHANGED vars

Next == MainStep \/ (\E t \in Threads : ThreadStep(t)) \/ Stays

Spec == Init /\ [][Next]_vars

\* The main thread keeps running, and so does a thread that starts or leaves; that a
\* message arrives or a connection breaks is never assumed.
Fairness ==
    /\ WF_vars(MainStep)
    /\ \A t \in Threads : WF_vars(Starts(t)) /\ WF_vars(Finishes(t))

FairSpec == Spec /\ Fairness

-----------------------------------------------------------------------------
PcValues == {"start", "reset", "wait", "fetch", "apply", "loop", "sleep", "scan",
             "join", "stopped", "threw"}
Scanning == pc \in {"loop", "sleep", "scan", "join", "stopped", "threw"}

TypeOK ==
    /\ managers \in [Feeds -> Manager]
    /\ thread \in [Threads -> {"new", "reading", "ended", "finished"}]
    /\ messages \in [Threads -> 0..MaxMessages]
    /\ ws_exception \in Threads \cup {NoThread}
    /\ gaps \in [Exchanges -> Nat]
    /\ pc \in PcValues
    /\ task \in 1..Len(Tasks)
    /\ attempt \in 1..MaxSyncAttempts
    /\ snapshot \in 0..MaxId
    /\ synced \in [Exchanges -> 0..Len(SymbolList)]
    /\ DOMAIN store \subseteq Feeds /\ \A f \in DOMAIN store : store[f] \in Book
    /\ delivered \in [Feeds -> 0..MaxId]
    /\ touched \subseteq Feeds
    /\ gap_found \subseteq Exchanges

\* A ready book misses no update its connection ever delivered, also not one that an
\* earlier attempt threw away: resetting, then waiting for a new update before the
\* snapshot is fetched, is what makes a snapshot that lags behind the feed be refused
\* (sync_binance_symbol and sync_mexc_symbol).
ReadyBookIsCurrent ==
    \A f \in Feeds : Ready(managers[f]) => managers[f].book.last_update_id >= delivered[f]

\* What is scanned outside the mutex was ready and up to date with every received
\* message of both exchanges at the moment of the copy.
ScannedBooksCurrent ==
    [][CopiesBooks =>
        \A f \in DOMAIN store' : store'[f].last_update_id >= delivered[f]]_vars

\* A scan that returns normally read its full number of messages on every connection:
\* one failed connection among many is never lost, however late it is reported.
CleanStopReadEverything ==
    pc = "stopped" => MaxMessages > 0 /\ \A t \in Threads : messages[t] = MaxMessages

\* Once every connection has ended the program leaves its loop, joins and stops.
StopsAfterFeeds == (\A t \in Threads : thread[t] \in {"ended", "finished"}) ~> Done

\* The gap counters of the final summary: README.md reads counters at zero, with every
\* book ready and none in need of a resync, as "no sequence gaps were detected during
\* the run".  (A gap that apply_snapshot finds is counted only if an update of the book
\* arrives before the next attempt resets it.)
NoGapUnreported ==
    pc = "stopped" /\ (\A f \in Feeds : Ready(managers[f])) =>
        \A e \in Exchanges : gaps[e] = 0 => e \notin gap_found

\* max_book_age_ms is one of the arbitrage filters the scanner is configured with, and
\* is less than the two seconds a round sleeps: a book that did not change during the
\* sleep is too old for the scan that follows it.
OldBooksNotScanned == [][CopiesBooks => DOMAIN store' \subseteq touched]_vars

-----------------------------------------------------------------------------
(* Every feed implements FeedView: ready is live, and a book that is not   *)
(* ready is lost once its turn to be synchronized is over.                 *)

SyncOver(f) == Scanning \/ \A i \in DOMAIN Tasks : Tasks[i] = f => i < task

View(f) ==
    INSTANCE FeedView WITH
        Agrees  <- SidesMatch,
        phase   <- IF Ready(managers[f]) THEN "live"
                   ELSE IF SyncOver(f) THEN "lost" ELSE "syncing",
        version <- IF Ready(managers[f]) THEN managers[f].book.last_update_id ELSE 0,
        sides   <- IF Ready(managers[f])
                   THEN [bids |-> managers[f].book.bids, asks |-> managers[f].book.asks]
                   ELSE [bids |-> <<>>, asks |-> <<>>]

\* Each feed of the scanner, with both exchanges and the main thread interleaved,
\* behaves as the abstract view: hidden, then live and only forward, then lost.
FeedsAreViews ==
    /\ \A f \in Feeds : View(f)!Init
    /\ [][\A f \in Feeds : [View(f)!Next]_(View(f)!vars)]_vars

\* And none synchronizes for ever, whatever the feeds and the snapshots are: no
\* connection has to deliver, and no snapshot has to be right.
FeedsSettle == \A f \in Feeds : View(f)!Liveness
=============================================================================
