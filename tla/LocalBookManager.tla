-------------------------- MODULE LocalBookManager --------------------------
(***************************************************************************)
(* One local book manager with every client and every feed there could be: *)
(* depth messages arrive in any order, get lost, repeat, overlap or belong *)
(* to other feeds; snapshots of any age are applied and the manager is     *)
(* reset at any moment.  What holds here holds in every mode of            *)
(* src/main.cpp, each of which only orders these calls.                    *)
(***************************************************************************)
EXTENDS LocalBook

CONSTANTS
    Feed,           \* the exchange and symbol of this manager
    MaxReceived     \* bound: updates taken in between two resets

ASSUME FeedAssumption == Feed \in Feeds
ASSUME MaxReceivedAssumption == MaxReceived \in Nat

VARIABLES
    manager,        \* the manager's members
    result,         \* what the last operation returned
    base,           \* history: the change its last snapshot was taken at
    received,       \* history: updates of its feed it took in since the reset
    overflowed      \* history: updates a full buffer pushed out since the reset

vars == <<manager, result, base, received, overflowed>>

Init ==
    /\ manager = NewManager
    /\ result = "None"
    /\ base = 0
    /\ received = 0
    /\ overflowed = 0

\* Updates of its own feed count as received unless NeedResync refuses them.
ReceiveUpdate(feed, first, final) ==
    LET out == OnUpdate(Feed, manager, DepthUpdate(feed, first, final))
    IN  /\ received < MaxReceived
        /\ manager' = out.m
        /\ result' = out.result
        /\ received' = IF feed = Feed /\ ~NeedResync(manager)
                       THEN received + 1 ELSE received
        /\ overflowed' = IF out.result = "Buffered"
                            /\ Len(manager.buffer) = MaxBufferedUpdates
                         THEN overflowed + 1 ELSE overflowed
        /\ UNCHANGED base

ReceiveSnapshot(feed, v) ==
    LET out == ApplySnapshot(Feed, manager, DepthSnapshot(feed, v))
    IN  /\ manager' = out.m
        /\ result' = out.result
        /\ base' = IF feed = Feed THEN v ELSE base
        /\ UNCHANGED <<received, overflowed>>

ResetManager ==
    /\ manager' = Reset
    /\ result' = "None"
    /\ base' = 0
    /\ received' = 0
    /\ overflowed' = 0

SomeUpdate == \E f \in Feeds, r \in UpdateRange : ReceiveUpdate(f, r[1], r[2])
SomeSnapshot == \E f \in Feeds, v \in 0..MaxId : ReceiveSnapshot(f, v)

Next == SomeUpdate \/ SomeSnapshot \/ ResetManager

Spec == Init /\ [][Next]_vars

-----------------------------------------------------------------------------
TypeOK ==
    /\ manager \in Manager
    /\ result \in UpdateResult \cup {"None"}
    /\ base \in 0..MaxId
    /\ received \in Nat
    /\ overflowed \in Nat

\* Whatever was lost, repeated, reordered or buffered on the way, an initialized
\* book is the exchange's own book as of last_update_id: the levels it holds have
\* the exchange's quantities, and only levels below the cut of the last snapshot
\* can be missing (apply_snapshot and apply_update of OrderBook.cpp, driven by
\* BinanceLocalBookManager.cpp).
BookMatchesExchange == manager.book.initialized => BookMatches(manager.book, base)

\* The three statuses mean what the modes of main.cpp take them for: before a
\* snapshot there is no book and updates wait in a bounded buffer; once there is a
\* book, ready or out of sequence, nothing is left in the buffer.
StatusMatchesBook ==
    /\ manager.book.initialized <=> manager.status # "WaitingForSnapshot"
    /\ manager.status # "WaitingForSnapshot" => manager.buffer = <<>>
    /\ Len(manager.buffer) <= MaxBufferedUpdates

\* Above the cut of the last snapshot, the best bid and ask of a ready book are the
\* exchange's at last_update_id, and it shows them wherever the exchange has them.  A
\* best price beyond the cut may miss a better one that no update named since, but
\* never claims more than the exchange offers: what scan_live_store_once compares
\* across the exchanges are quotes that were really there.
TopOfBookExact ==
    Ready(manager) =>
        LET book == manager.book
            true == Truth[book.last_update_id]
        IN  /\ BestBid(book.bids) \cap CoveredBids(base) = BestBid(true.bids) \cap CoveredBids(base)
            /\ BestAsk(book.asks) \cap CoveredAsks(base) = BestAsk(true.asks) \cap CoveredAsks(base)
            /\ \A p \in BestBid(book.bids), q \in BestBid(true.bids) : p <= q
            /\ \A p \in BestAsk(book.asks), q \in BestAsk(true.asks) : p >= q

\* No local book is ever crossed: a bid at or above an ask would be a level that
\* an update should have erased.
NeverCrossed ==
    \A b \in Quoted(manager.book.bids), a \in Quoted(manager.book.asks) : b < a

\* Until a gap is counted, every update taken in is accounted for once: applied,
\* ignored as stale, still buffered, or pushed out of the full buffer; and a
\* manager that needs a resync has counted a gap.
EveryUpdateAccounted ==
    LET s == manager.stats
    IN  /\ s.buffered_updates = Len(manager.buffer)
        /\ s.gaps_detected = 0 =>
              received = s.applied_updates + s.ignored_stale_updates
                         + s.buffered_updates + overflowed
        /\ NeedResync(manager) => s.gaps_detected > 0

\* What the updates leave of a manager, one by one through on_update.
AfterUpdates(m, updates) ==
    LET after[i \in 0..Len(updates)] ==
            IF i = 0 THEN m ELSE OnUpdate(Feed, after[i - 1], updates[i]).m
    IN  after

\* The manager to which the snapshot came first and the buffered updates after it.
SnapshotFirst(m, v) ==
    LET start == [ClearBuffer(m) EXCEPT
                     !.book = BookApplySnapshot(DepthSnapshot(Feed, v)),
                     !.status = "Ready"]
    IN  AfterUpdates(start, m.buffer)[Len(m.buffer)]

\* Buffering is transparent: apply_snapshot, which drops, bridges and replays the
\* buffer, leaves the book, status and statistics that the same updates would have
\* left had they all arrived after the snapshot.
BufferingIsTransparent ==
    manager.status = "WaitingForSnapshot" =>
        \A v \in 0..MaxId :
            ApplySnapshot(Feed, manager, DepthSnapshot(Feed, v)).m
                = SnapshotFirst(manager, v)

\* Only a snapshot or a reset takes the book back: a step on an update leaves the book as
\* it is, or moves a ready book to a later update id and keeps it ready.  And only they
\* make a manager ready that lost its sequence or waits.
UpdatesMoveForward ==
    [][SomeUpdate =>
        /\ \/ manager'.book = manager.book
           \/ /\ Ready(manager) /\ Ready(manager')
              /\ manager'.book.last_update_id > manager.book.last_update_id
        /\ ~Ready(manager) => ~Ready(manager')]_vars
=============================================================================
