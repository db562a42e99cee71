------------------------------ MODULE LocalLive ------------------------------
(***************************************************************************)
(* run_binance_local_live and run_mexc_local_live of src/main.cpp, which   *)
(* do the same for their exchange: one WebSocket thread reads the depth    *)
(* messages of one symbol into a local book, while the main thread         *)
(* synchronizes the book and then waits for the thread.                    *)
(* Every attempt resets the manager and waits for its buffer, as in the    *)
(* live scanner.  But the snapshot is requested once, and outside any try: *)
(* a request that fails unwinds past a thread that was not joined, and the *)
(* destructor of std::thread ends the program.                             *)
(***************************************************************************)
EXTENDS LocalBook

CONSTANTS
    Feed,           \* the exchange and symbol of the mode
    MaxMessages     \* messages after which the connection is closed, 0 for never

MaxSyncAttempts == 3

ASSUME FeedAssumption == Feed \in Feeds
ASSUME MaxMessagesAssumption == MaxMessages \in Nat

VARIABLES
    manager,        \* the local book
    thread,         \* what the WebSocket thread is doing
    counts,         \* the counters of the final summary
    gap_logged,     \* whether the loss of the book is in the log
    ws_exception,   \* whether the thread caught an exception
    pc,             \* where the main thread is
    attempt,
    snapshot,       \* the change the snapshot it fetched was taken at
    synced,
    delivered       \* environment: the last change the connection sent

threadVars == <<thread, counts, ws_exception, delivered>>
mainVars == <<pc, attempt, snapshot, synced>>
vars == <<manager, gap_logged, threadVars, mainVars>>

\* The atomic flags, which the thread sets on its way in and on its way out.
ws_started == thread # "new"
ws_finished == thread = "finished"

Init ==
    /\ manager = NewManager
    /\ thread = "new"
    /\ counts = [raw |-> 0, parsed |-> 0, buffered |-> 0, applied |-> 0]
    /\ gap_logged = FALSE
    /\ ws_exception = FALSE
    /\ pc = "start"
    /\ attempt = 1
    /\ snapshot = 0
    /\ synced = FALSE
    /\ delivered = 0

Done == pc \in {"stopped", "threw", "terminated"}

-----------------------------------------------------------------------------
(* The WebSocket thread.                                                   *)

Starts ==
    /\ thread = "new"
    /\ thread' = "reading"
    /\ UNCHANGED <<manager, gap_logged, counts, ws_exception, delivered, mainVars>>

Reads ==
    /\ thread = "reading"
    /\ MaxMessages = 0 \/ counts.raw < MaxMessages
    /\ UNCHANGED <<thread, ws_exception, mainVars>>

\* The counters after one more message, result being what on_update returned.  Without
\* a limit on the messages nothing is counted.
Counted(result) ==
    IF MaxMessages = 0 THEN counts
    ELSE [raw |-> counts.raw + 1, parsed |-> counts.parsed + 1,
          buffered |-> counts.buffered + IF result = "Buffered" THEN 1 ELSE 0,
          applied |-> counts.applied + IF result = "Applied" THEN 1 ELSE 0]

\* A depth update; the connection delivers in order, but may have skipped changes.
ReadsUpdate(first, final) ==
    LET out == OnUpdate(Feed, manager, DepthUpdate(Feed, first, final))
    IN  /\ Reads
        /\ first > delivered
        /\ delivered' = final
        /\ manager' = Unstated(out.m)
        /\ counts' = Counted(out.result)
        /\ gap_logged' = (gap_logged \/ out.result = "GapDetected")

\* A message that is no depth update, or one of another symbol.
ReadsOther ==
    /\ Reads
    /\ counts' \in {Counted("NotForSymbol"),
                    [Counted("NotForSymbol") EXCEPT !.parsed = counts.parsed]}
    /\ UNCHANGED <<manager, gap_logged, delivered>>

Returns ==
    /\ thread = "reading"
    /\ MaxMessages > 0 /\ counts.raw = MaxMessages
    /\ thread' = "ended"
    /\ UNCHANGED <<manager, gap_logged, counts, ws_exception, delivered, mainVars>>

\* Mutant: the exception is caught and dropped.
ThrowsUnrecorded ==
    /\ thread = "reading"
    /\ thread' = "ended"
    /\ UNCHANGED <<manager, gap_logged, counts, ws_exception, delivered, mainVars>>

\* Connecting, reading or parsing throws.
Throws ==
    /\ thread = "reading"
    /\ thread' = "ended"
    /\ ws_exception' = TRUE
    /\ UNCHANGED <<manager, gap_logged, counts, delivered, mainVars>>

\* Mutant: the thread connects again after an exception.
FinishesUnlessThrown ==
    /\ thread = "ended"
    /\ thread' = IF ws_exception THEN "reading" ELSE "finished"
    /\ UNCHANGED <<manager, gap_logged, counts, ws_exception, delivered, mainVars>>

Finishes ==
    /\ thread = "ended"
    /\ thread' = "finished"
    /\ UNCHANGED <<manager, gap_logged, counts, ws_exception, delivered, mainVars>>

-----------------------------------------------------------------------------
(* The main thread.                                                        *)

AwaitsStart ==
    /\ pc = "start"
    /\ ws_started
    /\ pc' = "reset"
    /\ UNCHANGED <<manager, gap_logged, threadVars, attempt, snapshot, synced>>

\* Every attempt but the first starts over, and the first if the book is lost already.
ResetsForAttempt ==
    /\ pc = "reset"
    /\ pc' = "wait"
    /\ IF attempt > 1 \/ NeedResync(manager)
       THEN manager' = Reset /\ gap_logged' = FALSE
       ELSE UNCHANGED <<manager, gap_logged>>
    /\ UNCHANGED <<threadVars, attempt, snapshot, synced>>

\* Mutant: one attempt too many.
NextAttemptPastEnd ==
    IF attempt <= MaxSyncAttempts
    THEN attempt' = attempt + 1 /\ pc' = "reset"
    ELSE pc' = "join" /\ UNCHANGED attempt

NextAttempt ==
    IF attempt < MaxSyncAttempts
    THEN attempt' = attempt + 1 /\ pc' = "reset"
    ELSE pc' = "join" /\ UNCHANGED attempt

\* Mutant: the snapshot is fetched without waiting for an update.
WaitSeesNothing ==
    /\ pc = "wait"
    /\ pc' = "fetch"
    /\ UNCHANGED <<manager, gap_logged, threadVars, attempt, snapshot, synced>>

WaitSeesBuffer ==
    /\ pc = "wait"
    /\ manager.buffer # <<>>
    /\ pc' = "fetch"
    /\ UNCHANGED <<manager, gap_logged, threadVars, attempt, snapshot, synced>>

\* Mutant: the wait has no deadline.
WaitGivesUpAtEnd ==
    /\ pc = "wait"
    /\ ws_finished
    /\ NextAttempt
    /\ UNCHANGED <<manager, gap_logged, threadVars, snapshot, synced>>

\* The deadline, 5 or 10 seconds, may pass at any poll; the wait also ends once the
\* thread has finished, which changes nothing else.
WaitGivesUp ==
    /\ pc = "wait"
    /\ NextAttempt
    /\ UNCHANGED <<manager, gap_logged, threadVars, snapshot, synced>>

Fetches(v) ==
    /\ pc = "fetch"
    /\ snapshot' = v
    /\ pc' = "apply"
    /\ UNCHANGED <<manager, gap_logged, threadVars, attempt, synced>>

\* The exception leaves the function, and std::terminate is called for ws_thread: it is
\* joinable, running or not.
FetchFails ==
    /\ pc = "fetch"
    /\ pc' = "terminated"
    /\ UNCHANGED <<manager, gap_logged, threadVars, attempt, snapshot, synced>>

\* Mutant: a manager that refused the snapshot is not reset.
AppliesSnapshotNoReset ==
    /\ pc = "apply"
    /\ \E received \in {DepthSnapshot(Feed, snapshot)} :
        \E out \in {ApplySnapshot(Feed, manager, received)} :
            /\ manager' = Unstated(out.m)
            /\ IF out.result = "SnapshotApplied"
               THEN synced' = TRUE /\ pc' = "join" /\ UNCHANGED <<attempt, gap_logged>>
               ELSE NextAttempt /\ gap_logged' = FALSE /\ UNCHANGED synced
    /\ snapshot' = 0
    /\ UNCHANGED threadVars

\* A manager that refused the snapshot is reset at once, and again by the next attempt.
AppliesSnapshot ==
    /\ pc = "apply"
    /\ \E received \in {DepthSnapshot(Feed, snapshot)} :
        \E out \in {ApplySnapshot(Feed, manager, received)} :
            IF out.result = "SnapshotApplied"
            THEN /\ manager' = Unstated(out.m)
                 /\ synced' = TRUE
                 /\ pc' = "join"
                 /\ UNCHANGED <<attempt, gap_logged>>
            ELSE /\ manager' = Reset
                 /\ gap_logged' = FALSE
                 /\ NextAttempt
                 /\ UNCHANGED synced
    /\ snapshot' = 0
    /\ UNCHANGED threadVars

\* After the join the exception of the thread is thrown again, or the summary is printed.
Joins ==
    /\ pc = "join"
    /\ ws_finished
    /\ pc' = IF ws_exception THEN "threw" ELSE "stopped"
    /\ UNCHANGED <<manager, gap_logged, threadVars, attempt, snapshot, synced>>

-----------------------------------------------------------------------------
\* Nothing runs on once the process has been terminated.
ThreadStep ==
    /\ pc # "terminated"
    /\ \/ Starts
       \/ \E r \in UpdateRange : ReadsUpdate(r[1], r[2])
       \/ ReadsOther
       \/ Returns
       \/ Throws
       \/ Finishes

MainStep ==
    \/ AwaitsStart
    \/ ResetsForAttempt
    \/ WaitSeesBuffer
    \/ WaitGivesUp
    \/ \E v \in 0..MaxId : Fetches(v)
    \/ FetchFails
    \/ AppliesSnapshot
    \/ Joins

Stays == Done /\ UNCHANGED vars

Next == MainStep \/ ThreadStep \/ Stays

Spec == Init /\ [][Next]_vars

\* As in the other modes: that a message arrives or the connection breaks is never
\* assumed.
Fairness == WF_vars(MainStep) /\ WF_vars(Starts) /\ WF_vars(Finishes)

FairSpec == Spec /\ Fairness

-----------------------------------------------------------------------------
TypeOK ==
    /\ manager \in Manager
    /\ thread \in {"new", "reading", "ended", "finished"}
    /\ counts \in [raw : 0..MaxMessages, parsed : 0..MaxMessages,
                   buffered : 0..MaxMessages, applied : 0..MaxMessages]
    /\ gap_logged \in BOOLEAN /\ ws_exception \in BOOLEAN /\ synced \in BOOLEAN
    /\ pc \in {"start", "reset", "wait", "fetch", "apply", "join",
               "stopped", "threw", "terminated"}
    /\ attempt \in 1..MaxSyncAttempts
    /\ snapshot \in 0..MaxId
    /\ delivered \in 0..MaxId

\* A ready book misses no update its connection ever delivered, whatever the attempts
\* before it threw away and however far its snapshot lags (the attempts of
\* run_binance_local_live).
ReadyBookIsCurrent == Ready(manager) => manager.book.last_update_id >= delivered

\* At rest the three signs of a book's fate agree: there is a book exactly if an attempt
\* reported success, and it is lost exactly if the log says so.  A refused snapshot,
\* or a wait that gave up, leaves nothing of its attempt behind.
FateIsReported ==
    /\ synced <=> manager.book.initialized
    /\ gap_logged <=> NeedResync(manager)

\* A stop without an exception means that the connection read its full number of
\* messages.
CleanStopReadEverything == pc = "stopped" => MaxMessages > 0 /\ counts.raw = MaxMessages

\* What the log and the last lines say of the run is right, of the book and of the
\* connection.
SummaryIsRight == FateIsReported /\ CleanStopReadEverything

\* The sync ends, whatever the connection does or fails to do, ...
SyncEnds == <>(pc = "join" \/ Done)

\* ... and once the connection has ended the program stops, one way or another.
StopsAfterFeed == (thread \in {"ended", "finished"}) ~> Done

\* The mode waits for nothing for ever but for a connection that goes on.
ModeEnds == SyncEnds /\ StopsAfterFeed

\* main() catches what a mode throws, reports it as "Fatal error" and returns 1; a mode
\* tries three times before it reports that it could not synchronize.  (A request that
\* fails is neither: it ends the process.)
FailuresReachMain == pc # "terminated"

-----------------------------------------------------------------------------
(* The book implements FeedView, as the feeds of the live scanner do, with *)
(* a book that is not ready lost once its attempts are over.               *)

View ==
    INSTANCE FeedView WITH
        Agrees  <- SidesMatch,
        phase   <- IF Ready(manager) THEN "live"
                   ELSE IF pc = "join" \/ Done THEN "lost" ELSE "syncing",
        version <- IF Ready(manager) THEN manager.book.last_update_id ELSE 0,
        sides   <- IF Ready(manager)
                   THEN [bids |-> manager.book.bids, asks |-> manager.book.asks]
                   ELSE [bids |-> <<>>, asks |-> <<>>]

\* The one-symbol modes keep the promise of FeedView too: hidden, then live and only
\* forward, then lost, and never hidden again.
FeedIsView == View!Init /\ [][View!Next]_(View!vars)
=============================================================================
