---------------------------- MODULE LocalLiveAll ----------------------------
(***************************************************************************)
(* run_binance_local_live_all and run_mexc_local_live_all of src/main.cpp, *)
(* which do the same for their exchange: the threads of all subscription   *)
(* groups read depth messages into one local book per symbol, while the    *)
(* main thread synchronizes the books and then waits for the threads.      *)
(* Unlike the live scanner, the groups share one ws_started and one        *)
(* ws_finished flag, a symbol waits for its first update only once, and a  *)
(* new attempt does not wait for the buffer to fill again.                 *)
(***************************************************************************)
EXTENDS LocalBook

CONSTANTS
    SymbolList,     \* config.symbols
    Threads,        \* the WebSocket threads, one per subscription group
    Group,          \* Group[t]: the symbols thread t is subscribed to
    MaxMessages,    \* messages after which a connection is closed, 0 for never
    NoThread        \* no exception was caught

MaxSyncAttempts == 3

ASSUME SymbolAssumption == SymbolList \in Seq(Feeds) /\ SymbolList # <<>>
ASSUME FeedsAssumption == Feeds = {SymbolList[i] : i \in DOMAIN SymbolList}
ASSUME GroupAssumption ==
    /\ Group \in [Threads -> SUBSET Feeds]
    /\ \A f \in Feeds : \E t \in Threads : f \in Group[t] /\ \A u \in Threads \ {t} : f \notin Group[u]
ASSUME MaxMessagesAssumption == MaxMessages \in Nat
ASSUME NoThreadAssumption == NoThread \notin Threads

VARIABLES
    managers,       \* the local book of each symbol
    thread,         \* what each WebSocket thread is doing
    messages,       \* messages each thread has handled
    ws_started, ws_finished,
    ws_exception,   \* the thread whose exception was caught first
    counts,         \* the counters of the final summary
    pc,             \* where the main thread is
    task,           \* the symbol it synchronizes, an index of SymbolList
    attempt,        \* the attempt it makes on it
    snapshot,       \* the change the snapshot it fetched was taken at
    synced_books, failed_books,
    delivered       \* environment: the last change sent of each symbol

threadVars == <<thread, messages, ws_started, ws_finished, ws_exception, counts, delivered>>
mainVars == <<pc, task, attempt, snapshot, synced_books, failed_books>>
vars == <<managers, threadVars, mainVars>>

Current == SymbolList[task]

Init ==
    /\ managers = [f \in Feeds |-> NewManager]
    /\ thread = [t \in Threads |-> "new"]
    /\ messages = [t \in Threads |-> 0]
    /\ ws_started = FALSE
    /\ ws_finished = FALSE
    /\ ws_exception = NoThread
    /\ counts = [parsed |-> 0, buffered |-> 0, applied |-> 0, ignored |-> 0, gaps |-> 0]
    /\ pc = "start"
    /\ task = 1
    /\ attempt = 1
    /\ snapshot = 0
    /\ synced_books = 0
    /\ failed_books = 0
    /\ delivered = [f \in Feeds |-> 0]

-----------------------------------------------------------------------------
(* The WebSocket threads.                                                  *)

Starts(t) ==
    /\ thread[t] = "new"
    /\ thread' = [thread EXCEPT ![t] = "reading"]
    /\ ws_started' = TRUE
    /\ UNCHANGED <<managers, messages, ws_finished, ws_exception, counts, delivered, mainVars>>

Reads(t) ==
    /\ thread[t] = "reading"
    /\ MaxMessages = 0 \/ messages[t] < MaxMessages
    /\ messages' = [messages EXCEPT ![t] = IF MaxMessages = 0 THEN 0 ELSE @ + 1]
    /\ UNCHANGED <<thread, ws_started, ws_finished, ws_exception, mainVars>>

\* Mutant: the updates a lost book refuses are not counted.
CountedOnlyOnce(result) ==
    [counts EXCEPT !.parsed = @ + 1,
                   !.buffered = IF result = "Buffered" THEN @ + 1 ELSE @,
                   !.applied = IF result = "Applied" THEN @ + 1 ELSE @,
                   !.ignored = IF result = "IgnoredStale" THEN @ + 1 ELSE @,
                   !.gaps = IF result = "GapDetected" /\ @ = 0 THEN 1 ELSE @]

\* The counters after an update on which on_update returned result.
Counted(result) ==
    [counts EXCEPT !.parsed = @ + 1,
                   !.buffered = IF result = "Buffered" THEN @ + 1 ELSE @,
                   !.applied = IF result = "Applied" THEN @ + 1 ELSE @,
                   !.ignored = IF result = "IgnoredStale" THEN @ + 1 ELSE @,
                   !.gaps = IF result = "GapDetected" THEN @ + 1 ELSE @]

\* A depth update of a symbol; the connection delivers in order, but may have skipped
\* changes.
ReadsUpdate(t, f, first, final) ==
    LET out == OnUpdate(f, managers[f], DepthUpdate(f, first, final))
    IN  /\ Reads(t)
        /\ f \in Group[t]
        /\ first > delivered[f]
        /\ delivered' = [delivered EXCEPT ![f] = final]
        /\ managers' = [managers EXCEPT ![f] = Unstated(out.m)]
        /\ counts' = Counted(out.result)

\* A message that is no depth update, or one of an unknown symbol.
ReadsOther(t) ==
    /\ Reads(t)
    /\ counts' \in {counts, [counts EXCEPT !.parsed = @ + 1, !.ignored = @ + 1]}
    /\ UNCHANGED <<managers, delivered>>

Returns(t) ==
    /\ thread[t] = "reading"
    /\ MaxMessages > 0 /\ messages[t] = MaxMessages
    /\ thread' = [thread EXCEPT ![t] = "ended"]
    /\ UNCHANGED <<managers, messages, ws_started, ws_finished, ws_exception, counts,
                   delivered, mainVars>>

\* Mutant: the exception is caught and dropped.
ThrowsUnrecorded(t) ==
    /\ thread[t] = "reading"
    /\ thread' = [thread EXCEPT ![t] = "ended"]
    /\ UNCHANGED <<managers, messages, ws_started, ws_finished, ws_exception, counts,
                   delivered, mainVars>>

\* Connecting, reading or parsing throws; the first exception is kept.
Throws(t) ==
    /\ thread[t] = "reading"
    /\ thread' = [thread EXCEPT ![t] = "ended"]
    /\ ws_exception' = IF ws_exception = NoThread THEN t ELSE ws_exception
    /\ UNCHANGED <<managers, messages, ws_started, ws_finished, counts, delivered, mainVars>>

\* One finished group sets the flag of all.
Finishes(t) ==
    /\ thread[t] = "ended"
    /\ thread' = [thread EXCEPT ![t] = "finished"]
    /\ ws_finished' = TRUE
    /\ UNCHANGED <<managers, messages, ws_started, ws_exception, counts, delivered, mainVars>>

-----------------------------------------------------------------------------
(* The main thread.                                                        *)

AwaitsStart ==
    /\ pc = "start"
    /\ ws_started
    /\ pc' = "wait"
    /\ UNCHANGED <<managers, threadVars, task, attempt, snapshot, synced_books, failed_books>>

\* Mutant: one symbol too many.
NextSymbolPastEnd ==
    /\ attempt' = 1
    /\ IF task <= Len(SymbolList) THEN task' = task + 1 /\ pc' = "wait"
       ELSE task' = task /\ pc' = "join"

NextSymbol ==
    /\ attempt' = 1
    /\ IF task < Len(SymbolList) THEN task' = task + 1 /\ pc' = "wait"
       ELSE task' = task /\ pc' = "join"

WaitSeesBuffer ==
    /\ pc = "wait"
    /\ managers[Current].buffer # <<>>
    /\ pc' = "fetch"
    /\ UNCHANGED <<managers, threadVars, task, attempt, snapshot, synced_books, failed_books>>

\* Mutant: the wait has no deadline.
WaitGivesUpAtEnd ==
    /\ pc = "wait"
    /\ ws_finished
    /\ failed_books' = failed_books + 1
    /\ NextSymbol
    /\ UNCHANGED <<managers, threadVars, snapshot, synced_books>>

\* The deadline of 10 seconds may pass at any poll; the wait also ends once any group
\* has finished, which changes nothing else.
WaitGivesUp ==
    /\ pc = "wait"
    /\ failed_books' = failed_books + 1
    /\ NextSymbol
    /\ UNCHANGED <<managers, threadVars, snapshot, synced_books>>

\* The attempt failed: another one, without a new wait, or the next symbol.
NextAttempt ==
    /\ IF attempt < MaxSyncAttempts
       THEN attempt' = attempt + 1 /\ pc' = "fetch" /\ UNCHANGED <<task, failed_books>>
       ELSE NextSymbol /\ failed_books' = failed_books + 1
    /\ UNCHANGED synced_books

Fetches(v) ==
    /\ pc = "fetch"
    /\ snapshot' = v
    /\ pc' = "apply"
    /\ UNCHANGED <<managers, threadVars, task, attempt, synced_books, failed_books>>

FetchFails ==
    /\ pc = "fetch"
    /\ NextAttempt
    /\ UNCHANGED <<managers, threadVars, snapshot>>

\* Mutant: a manager that refused the snapshot is not reset.
AppliesSnapshotNoReset ==
    /\ pc = "apply"
    /\ \E received \in {DepthSnapshot(Current, snapshot)} :
        \E out \in {ApplySnapshot(Current, managers[Current], received)} :
            /\ managers' = [managers EXCEPT ![Current] = Unstated(out.m)]
            /\ IF out.result = "SnapshotApplied"
               THEN synced_books' = synced_books + 1 /\ NextSymbol /\ UNCHANGED failed_books
               ELSE NextAttempt
    /\ snapshot' = 0
    /\ UNCHANGED threadVars

\* A manager that refused the snapshot is reset at once.
AppliesSnapshot ==
    /\ pc = "apply"
    /\ \E received \in {DepthSnapshot(Current, snapshot)} :
        \E out \in {ApplySnapshot(Current, managers[Current], received)} :
            IF out.result = "SnapshotApplied"
            THEN /\ managers' = [managers EXCEPT ![Current] = Unstated(out.m)]
                 /\ synced_books' = synced_books + 1
                 /\ NextSymbol
                 /\ UNCHANGED failed_books
            ELSE /\ managers' = [managers EXCEPT ![Current] = Reset]
                 /\ NextAttempt
    /\ snapshot' = 0
    /\ UNCHANGED threadVars

\* After the join the first exception is thrown again, or the summary is printed.
Joins ==
    /\ pc = "join"
    /\ \A t \in Threads : thread[t] = "finished"
    /\ pc' = IF ws_exception = NoThread THEN "stopped" ELSE "threw"
    /\ UNCHANGED <<managers, threadVars, task, attempt, snapshot, synced_books, failed_books>>

-----------------------------------------------------------------------------
ThreadStep(t) ==
    \/ Starts(t)
    \/ \E f \in Feeds, r \in UpdateRange : ReadsUpdate(t, f, r[1], r[2])
    \/ ReadsOther(t)
    \/ Returns(t)
    \/ Throws(t)
    \/ Finishes(t)

MainStep ==
    \/ AwaitsStart
    \/ WaitSeesBuffer
    \/ WaitGivesUp
    \/ \E v \in 0..MaxId : Fetches(v)
    \/ FetchFails
    \/ AppliesSnapshot
    \/ Joins

Done == pc \in {"stopped", "threw"}
Stays == Done /\ UNCHANGED vars

Next == MainStep \/ (\E t \in Threads : ThreadStep(t)) \/ Stays

Spec == Init /\ [][Next]_vars

\* As in the live scanner: that a message arrives or a connection breaks is never assumed.
Fairness ==
    /\ WF_vars(MainStep)
    /\ \A t \in Threads : WF_vars(Starts(t)) /\ WF_vars(Finishes(t))

FairSpec == Spec /\ Fairness

-----------------------------------------------------------------------------
TypeOK ==
    /\ managers \in [Feeds -> Manager]
    /\ thread \in [Threads -> {"new", "reading", "ended", "finished"}]
    /\ messages \in [Threads -> 0..MaxMessages]
    /\ ws_started \in BOOLEAN /\ ws_finished \in BOOLEAN
    /\ ws_exception \in Threads \cup {NoThread}
    /\ counts \in [parsed : Nat, buffered : Nat, applied : Nat, ignored : Nat, gaps : Nat]
    /\ pc \in {"start", "wait", "fetch", "apply", "join", "stopped", "threw"}
    /\ task \in DOMAIN SymbolList
    /\ attempt \in 1..MaxSyncAttempts
    /\ snapshot \in 0..MaxId
    /\ synced_books \in 0..Len(SymbolList) /\ failed_books \in 0..Len(SymbolList)
    /\ delivered \in [Feeds -> 0..MaxId]

\* Of the summary: the initial sync counts every symbol once, and synced_books is the number of books
\* there are, whether ready or since out of sequence: what a failed attempt left
\* behind is not among them.
EverySymbolCounted ==
    /\ pc \in {"join", "stopped", "threw"} => synced_books + failed_books = Len(SymbolList)
    /\ synced_books = Cardinality({f \in Feeds : managers[f].book.initialized})

\* Every parsed update is in exactly one of the counters of the final summary, also
\* those a book refuses after a gap.
EveryUpdateCounted ==
    counts.parsed = counts.buffered + counts.applied + counts.ignored + counts.gaps

\* A ready book may lag behind what its connection delivered (an attempt's reset threw
\* the updates away, and the next snapshot was older): then the very next update of
\* the symbol finds it out.
LaggingBookIsFoundOut ==
    [][\A f \in Feeds :
        /\ Ready(managers[f]) /\ managers[f].book.last_update_id < delivered[f]
        /\ delivered'[f] # delivered[f]
        => NeedResync(managers'[f])]_vars

\* A stop without an exception means that every connection read its full number of
\* messages, though the groups share their flags.
CleanStopReadEverything ==
    pc = "stopped" => MaxMessages > 0 /\ \A t \in Threads : messages[t] = MaxMessages

\* What the mode prints at its end is right: the books, the updates and the connections
\* add up, whatever was interleaved, failed or thrown away on the way.
SummaryIsRight ==
    /\ EverySymbolCounted
    /\ EveryUpdateCounted
    /\ CleanStopReadEverything

\* The initial sync ends, whatever the connections do or fail to do, and the program
\* stops once every connection has ended: it comes to rest only where it has stopped, or
\* where it waits for a thread that is still at its connection.
ModeEnds ==
    []<>(Done \/ (pc = "join" /\ \E t \in Threads : thread[t] \notin {"ended", "finished"}))

\* README.md has updates buffered before the snapshot is fetched, so that "WebSocket
\* updates keep the books current": a ready book misses no update its connection
\* delivered.  (After a reset the next attempt fetches at once, with nothing buffered.)
ReadyBookIsCurrent ==
    \A f \in Feeds : Ready(managers[f]) => managers[f].book.last_update_id >= delivered[f]
=============================================================================
