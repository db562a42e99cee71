----------------------------- MODULE LocalBook -----------------------------
(***************************************************************************)
(* The local book manager: src/exchanges/BinanceLocalBookManager.cpp and   *)
(* src/exchanges/MexcLocalBookManager.cpp, which differ in nothing but the *)
(* exchange they belong to.  A manager is a record; an operation gives     *)
(* [m |-> the manager it leaves, result |-> what it returns].              *)
(***************************************************************************)
EXTENDS ExchangeFeed, Sequences

CONSTANTS
    Feeds,                  \* pairs of exchange and symbol
    MaxBufferedUpdates      \* max_buffered_updates of the constructor

ASSUME BufferAssumption == MaxBufferedUpdates \in Nat

Status == {"WaitingForSnapshot", "Ready", "NeedResync"}
UpdateResult == {"Applied", "Buffered", "SnapshotApplied", "SnapshotRejected",
                 "IgnoredStale", "GapDetected", "NotForSymbol"}

Update == {DepthUpdate(f, r[1], r[2]) : f \in Feeds, r \in UpdateRange}

Stats == [applied_updates : Nat, buffered_updates : Nat,
          ignored_stale_updates : Nat, gaps_detected : Nat]
NoStats == [applied_updates |-> 0, buffered_updates |-> 0,
            ignored_stale_updates |-> 0, gaps_detected |-> 0]

Manager == [book : Book, buffer : Seq(Update), status : Status, stats : Stats]

NewManager == [book |-> EmptyBook, buffer |-> <<>>,
               status |-> "WaitingForSnapshot", stats |-> NoStats]

\* reset() leaves the manager as it was constructed.
Reset == NewManager

\* The modes of src/main.cpp print a manager's statistics, if that, and decide nothing
\* by them: in their models the statistics stay at zero.
Unstated(m) == [m EXCEPT !.stats = NoStats]

Ready(m) == m.status = "Ready"
NeedResync(m) == m.status = "NeedResync"

\* Mutant: only the statistic is reset.
ClearBufferStatOnly(m) == [m EXCEPT !.stats.buffered_updates = 0]

\* The buffer empties and the statistic says so.
ClearBuffer(m) == [m EXCEPT !.buffer = <<>>, !.stats.buffered_updates = 0]

ApplyUpdateToReadyBook(m, update) ==
    LET applied == ApplyUpdateResult(m.book, update) IN
    CASE applied = "Applied" ->
            [m |-> [m EXCEPT !.book = BookApplyUpdate(@, update),
                             !.status = "Ready",
                             !.stats.applied_updates = @ + 1],
             result |-> "Applied"]
      [] applied = "IgnoredStale" ->
            [m |-> [m EXCEPT !.stats.ignored_stale_updates = @ + 1],
             result |-> "IgnoredStale"]
      [] applied = "GapDetected" ->
            [m |-> [m EXCEPT !.status = "NeedResync", !.stats.gaps_detected = @ + 1],
             result |-> "GapDetected"]
      [] applied = "NotInitialized" ->
            [m |-> [m EXCEPT !.status = "WaitingForSnapshot"],
             result |-> "SnapshotRejected"]

\* Buffering keeps the newest MaxBufferedUpdates updates.
BufferUpdate(m, update) ==
    LET grown == Append(m.buffer, update)
        kept  == IF Len(grown) > MaxBufferedUpdates THEN Tail(grown) ELSE grown
    IN  [m EXCEPT !.buffer = kept, !.stats.buffered_updates = Len(kept)]

\* Mutant: nothing is buffered, and the book's own result is passed on.
OnUpdateUnbuffered(feed, m, update) ==
    IF update.feed # feed THEN [m |-> m, result |-> "NotForSymbol"]
    ELSE IF NeedResync(m) THEN [m |-> m, result |-> "GapDetected"]
    ELSE [m |-> ApplyUpdateToReadyBook(m, update).m,
          result |-> ApplyUpdateResult(m.book, update)]

\* Mutant: a manager that needs a resync still applies updates.
OnUpdateWhileLost(feed, m, update) ==
    IF update.feed # feed THEN [m |-> m, result |-> "NotForSymbol"]
    ELSE IF m.status = "WaitingForSnapshot"
         THEN [m |-> BufferUpdate(m, update), result |-> "Buffered"]
    ELSE ApplyUpdateToReadyBook(m, update)

OnUpdate(feed, m, update) ==
    IF update.feed # feed THEN [m |-> m, result |-> "NotForSymbol"]
    ELSE IF NeedResync(m) THEN [m |-> m, result |-> "GapDetected"]
    ELSE IF m.status = "WaitingForSnapshot"
         THEN [m |-> BufferUpdate(m, update), result |-> "Buffered"]
    ELSE ApplyUpdateToReadyBook(m, update)

\* How many updates at the front of the buffer a snapshot makes stale.
StalePrefix(buffer, id) ==
    CHOOSE n \in 0..Len(buffer) :
        /\ \A i \in 1..n : buffer[i].final_update_id <= id
        /\ n < Len(buffer) => buffer[n + 1].final_update_id > id

\* Mutant: the updates a snapshot makes stale are dropped without being counted.
TakeSnapshotUncounted(m, snapshot) ==
    LET n       == StalePrefix(m.buffer, snapshot.last_update_id)
        pending == SubSeq(m.buffer, n + 1, Len(m.buffer))
    IN  [m EXCEPT !.book = BookApplySnapshot(snapshot),
                  !.buffer = pending,
                  !.stats.buffered_updates = Len(pending)]

\* The book takes the snapshot and the stale front of the buffer goes.
TakeSnapshot(m, snapshot) ==
    LET n       == StalePrefix(m.buffer, snapshot.last_update_id)
        pending == SubSeq(m.buffer, n + 1, Len(m.buffer))
    IN  [m EXCEPT !.book = BookApplySnapshot(snapshot),
                  !.buffer = pending,
                  !.stats.ignored_stale_updates = @ + n,
                  !.stats.buffered_updates = Len(pending)]

\* The buffered updates in turn, up to the first that leaves a gap: Replay(m)[i]
\* is what applying the i-th left and returned.
Replay(m) ==
    LET after[i \in 0..Len(m.buffer)] ==
            IF i = 0 THEN [m |-> m, result |-> "SnapshotApplied"]
            ELSE LET before == after[i - 1]
                 IN  IF before.result = "GapDetected" THEN before
                     ELSE ApplyUpdateToReadyBook(before.m, m.buffer[i])
    IN  after

\* Mutant: an update that starts right after the snapshot does not bridge it.
BridgesStrictly(update, id) ==
    update.first_update_id <= id /\ update.final_update_id >= id + 1

Bridges(update, id) ==
    update.first_update_id <= id + 1 /\ update.final_update_id >= id + 1

ApplySnapshot(feed, m, snapshot) ==
    IF snapshot.feed # feed THEN [m |-> m, result |-> "NotForSymbol"]
    ELSE
    LET taken    == TakeSnapshot(m, snapshot)
        replayed == Replay(taken)[Len(taken.buffer)]
    IN  IF taken.buffer = <<>>
        THEN [m |-> [taken EXCEPT !.status = "Ready"], result |-> "SnapshotApplied"]
        ELSE IF ~Bridges(taken.buffer[1], snapshot.last_update_id)
        THEN [m |-> [ClearBuffer(taken) EXCEPT !.status = "NeedResync",
                                               !.stats.gaps_detected = @ + 1],
              result |-> "SnapshotRejected"]
        ELSE IF replayed.result = "GapDetected"
        THEN [m |-> ClearBuffer(replayed.m), result |-> "GapDetected"]
        ELSE [m |-> [ClearBuffer(replayed.m) EXCEPT !.status = "Ready"],
              result |-> "SnapshotApplied"]
=============================================================================
