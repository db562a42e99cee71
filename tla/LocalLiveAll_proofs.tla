------------------------- MODULE LocalLiveAll_proofs -------------------------
(***************************************************************************)
(* The safety of the all-symbol local live modes, for every list of        *)
(* symbols, also one with duplicates, every grouping into connections,     *)
(* every buffer and every snapshot: the summary adds up, and a book that   *)
(* lags behind its connection is found out by the next update.             *)
(***************************************************************************)
EXTENDS LocalLiveAll, LocalBook_proofs

Synchronized == pc \in {"join", "stopped", "threw"}

\* How many symbols have had their turn.
Turns == IF Synchronized THEN Len(SymbolList) ELSE task - 1

Booked == {f \in Feeds : managers[f].book.initialized}

FeedsSound == \A f \in Feeds : ManagerSound(managers[f])

\* Between the end of a wait and the end of the last attempt there is no book.
AttemptSound ==
    pc \in {"fetch", "apply"} => managers[Current].status = "WaitingForSnapshot"

\* Every turn is counted once, and the books are those that were synchronized.
BooksCounted ==
    /\ synced_books + failed_books = Turns
    /\ synced_books = Cardinality(Booked)

\* A thread that left without an exception had read its full number of messages.
EndSound ==
    /\ \A t \in Threads : thread[t] \in {"ended", "finished"} /\ ws_exception = NoThread =>
           MaxMessages > 0 /\ messages[t] = MaxMessages
    /\ pc = "stopped" =>
           (\A t \in Threads : thread[t] = "finished") /\ ws_exception = NoThread

\* The inductive invariant.
IInv ==
    /\ TypeOK
    /\ FeedsSound
    /\ AttemptSound
    /\ BooksCounted
    /\ EveryUpdateCounted
    /\ EndSound

-----------------------------------------------------------------------------
(* The turns.                                                              *)

LEMMA ListType ==
    /\ Len(SymbolList) \in Nat \ {0}
    /\ DOMAIN SymbolList = 1..Len(SymbolList)
    /\ \A i \in DOMAIN SymbolList : SymbolList[i] \in Feeds
BY SymbolAssumption

LEMMA FeedsFinite == IsFiniteSet(Feeds)
<1> DEFINE Names == 1..Len(SymbolList)
<1>1. IsFiniteSet(Names)
  BY ListType, FS_Interval
<1>2. SymbolList \in Surjection(Names, Feeds)
  BY ListType, SymbolAssumption, FeedsAssumption DEF Surjection
<1> QED BY <1>1, <1>2, FS_Surjection

LEMMA CurrentType ==
    ASSUME IInv
    PROVE  /\ Current \in Feeds /\ managers[Current] \in Manager
           /\ task \in 1..Len(SymbolList) /\ Len(SymbolList) \in Nat
           /\ attempt \in 1..MaxSyncAttempts
           /\ synced_books \in Nat /\ failed_books \in Nat
BY ListType DEF IInv, TypeOK, Current

\* The end of a turn, with one more book synchronized or failed.
LEMMA NextSymbolType ==
    ASSUME IInv, ~Synchronized, NextSymbol,
           \/ synced_books' = synced_books + 1 /\ failed_books' = failed_books
           \/ synced_books' = synced_books /\ failed_books' = failed_books + 1
    PROVE  /\ task' \in DOMAIN SymbolList /\ attempt' \in 1..MaxSyncAttempts
           /\ pc' \in {"wait", "join"}
           /\ synced_books' + failed_books' = Turns'
           /\ synced_books' \in 0..Len(SymbolList) /\ failed_books' \in 0..Len(SymbolList)
<1>1. /\ task \in 1..Len(SymbolList) /\ Len(SymbolList) \in Nat
      /\ DOMAIN SymbolList = 1..Len(SymbolList)
      /\ synced_books + failed_books = task - 1
      /\ synced_books \in Nat /\ failed_books \in Nat
  BY CurrentType, ListType DEF IInv, BooksCounted, Turns
<1>2. attempt' \in 1..MaxSyncAttempts
  BY DEF NextSymbol, MaxSyncAttempts
<1>3. /\ task' \in DOMAIN SymbolList /\ pc' \in {"wait", "join"} /\ Turns' = task
  <2>1. CASE task < Len(SymbolList)
    BY <1>1, <2>1 DEF NextSymbol, Turns, Synchronized
  <2>2. CASE ~(task < Len(SymbolList))
    <3>1. task = Len(SymbolList)
      <4>1. task \in 1..Len(SymbolList) /\ Len(SymbolList) \in Nat
        BY <1>1
      <4>2. \A n \in Nat : \A i \in 1..n : ~(i < n) => i = n
        OBVIOUS
      <4> QED BY <2>2, <4>1, <4>2
    <3>2. task' = task /\ pc' = "join"
      BY <2>2 DEF NextSymbol
    <3> QED BY <1>1, <3>1, <3>2 DEF Turns, Synchronized
  <2> QED BY <2>1, <2>2
<1>4. synced_books' + failed_books' = task
  BY <1>1
<1>5. synced_books' \in 0..Len(SymbolList) /\ failed_books' \in 0..Len(SymbolList)
  BY <1>1, <1>4
<1> QED BY <1>2, <1>3, <1>4, <1>5

LEMMA NextAttemptType ==
    ASSUME IInv, ~Synchronized, NextAttempt
    PROVE  /\ task' \in DOMAIN SymbolList /\ attempt' \in 1..MaxSyncAttempts
           /\ pc' \in {"wait", "fetch", "join"}
           /\ pc' = "fetch" => task' = task
           /\ synced_books' = synced_books
           /\ synced_books' + failed_books' = Turns'
           /\ synced_books' \in 0..Len(SymbolList) /\ failed_books' \in 0..Len(SymbolList)
<1>1. CASE attempt < MaxSyncAttempts
  BY <1>1, CurrentType DEF NextAttempt, IInv, TypeOK, BooksCounted, Turns, Synchronized,
                           MaxSyncAttempts
<1>2. CASE ~(attempt < MaxSyncAttempts)
  <2>1. NextSymbol /\ failed_books' = failed_books + 1 /\ synced_books' = synced_books
    BY <1>2 DEF NextAttempt
  <2>2. synced_books \in Nat /\ failed_books \in Nat
    BY CurrentType
  <2> QED BY <2>1, <2>2, NextSymbolType
<1> QED BY <1>1, <1>2

-----------------------------------------------------------------------------
LEMMA InitIInv == Init => IInv
<1> SUFFICES ASSUME Init PROVE IInv
  OBVIOUS
<1>1. \A f \in Feeds : managers[f] = NewManager
  BY DEF Init
<1>2. TypeOK
  <2>1. 0 \in 0..MaxMessages /\ 0 \in 0..MaxId /\ 1 \in 1..MaxSyncAttempts
    BY MaxIdAssumption, MaxMessagesAssumption DEF MaxSyncAttempts
  <2>2. 1 \in DOMAIN SymbolList /\ 0 \in 0..Len(SymbolList)
    BY ListType
  <2> QED BY NewManagerType, <2>1, <2>2 DEF Init, TypeOK
<1>3. FeedsSound
  BY <1>1, SoundNew DEF FeedsSound
<1>4. BooksCounted
  <2>1. Booked = {}
    BY <1>1, SoundNew DEF Booked
  <2> QED BY <2>1, FS_EmptySet, ListType DEF Init, BooksCounted, Turns, Synchronized
<1>5. AttemptSound /\ EveryUpdateCounted /\ EndSound
  BY DEF Init, AttemptSound, EveryUpdateCounted, EndSound
<1> QED BY <1>2, <1>3, <1>4, <1>5 DEF IInv

-----------------------------------------------------------------------------
(* The WebSocket threads.                                                  *)

LEMMA MessagesType ==
    ASSUME IInv, NEW t \in Threads, Reads(t)
    PROVE  messages' \in [Threads -> 0..MaxMessages]
<1>1. messages[t] \in 0..MaxMessages /\ MaxMessages \in Nat
  BY MaxMessagesAssumption DEF IInv, TypeOK
<1>2. (IF MaxMessages = 0 THEN 0 ELSE messages[t] + 1) \in 0..MaxMessages
  BY <1>1 DEF Reads
<1> QED BY <1>2 DEF IInv, TypeOK, Reads

Counts == [parsed : Nat, buffered : Nat, applied : Nat, ignored : Nat, gaps : Nat]
AddsUp(c) == c.parsed = c.buffered + c.applied + c.ignored + c.gaps

\* One more update, in one of the counters.
LEMMA OneMore ==
    ASSUME NEW c \in Counts, AddsUp(c),
           NEW d \in {[c EXCEPT !.parsed = @ + 1, !.buffered = @ + 1],
                      [c EXCEPT !.parsed = @ + 1, !.applied = @ + 1],
                      [c EXCEPT !.parsed = @ + 1, !.ignored = @ + 1],
                      [c EXCEPT !.parsed = @ + 1, !.gaps = @ + 1]}
    PROVE  d \in Counts /\ AddsUp(d)
<1>1. /\ c.parsed \in Nat /\ c.buffered \in Nat /\ c.applied \in Nat
      /\ c.ignored \in Nat /\ c.gaps \in Nat
  BY DEF Counts
<1>2. ASSUME d = [c EXCEPT !.parsed = @ + 1, !.buffered = @ + 1]
      PROVE  d \in Counts /\ AddsUp(d)
  <2>1. c.parsed + 1 \in Nat /\ c.buffered + 1 \in Nat
    BY <1>1
  <2>2. d \in Counts
    BY <1>2, <2>1 DEF Counts
  <2>3. /\ d.parsed = c.parsed + 1 /\ d.buffered = c.buffered + 1
        /\ d.applied = c.applied /\ d.ignored = c.ignored /\ d.gaps = c.gaps
    BY <1>2 DEF Counts
  <2>4. d.parsed = d.buffered + d.applied + d.ignored + d.gaps
    BY <1>1, <2>3 DEF AddsUp
  <2> QED BY <2>2, <2>4 DEF AddsUp
<1>3. ASSUME d = [c EXCEPT !.parsed = @ + 1, !.applied = @ + 1]
      PROVE  d \in Counts /\ AddsUp(d)
  <2>1. c.parsed + 1 \in Nat /\ c.applied + 1 \in Nat
    BY <1>1
  <2>2. d \in Counts
    BY <1>3, <2>1 DEF Counts
  <2>3. /\ d.parsed = c.parsed + 1 /\ d.applied = c.applied + 1
        /\ d.buffered = c.buffered /\ d.ignored = c.ignored /\ d.gaps = c.gaps
    BY <1>3 DEF Counts
  <2>4. d.parsed = d.buffered + d.applied + d.ignored + d.gaps
    BY <1>1, <2>3 DEF AddsUp
  <2> QED BY <2>2, <2>4 DEF AddsUp
<1>4. ASSUME d = [c EXCEPT !.parsed = @ + 1, !.ignored = @ + 1]
      PROVE  d \in Counts /\ AddsUp(d)
  <2>1. c.parsed + 1 \in Nat /\ c.ignored + 1 \in Nat
    BY <1>1
  <2>2. d \in Counts
    BY <1>4, <2>1 DEF Counts
  <2>3. /\ d.parsed = c.parsed + 1 /\ d.ignored = c.ignored + 1
        /\ d.buffered = c.buffered /\ d.applied = c.applied /\ d.gaps = c.gaps
    BY <1>4 DEF Counts
  <2>4. d.parsed = d.buffered + d.applied + d.ignored + d.gaps
    BY <1>1, <2>3 DEF AddsUp
  <2> QED BY <2>2, <2>4 DEF AddsUp
<1>5. ASSUME d = [c EXCEPT !.parsed = @ + 1, !.gaps = @ + 1]
      PROVE  d \in Counts /\ AddsUp(d)
  <2>1. c.parsed + 1 \in Nat /\ c.gaps + 1 \in Nat
    BY <1>1
  <2>2. d \in Counts
    BY <1>5, <2>1 DEF Counts
  <2>3. /\ d.parsed = c.parsed + 1 /\ d.gaps = c.gaps + 1
        /\ d.buffered = c.buffered /\ d.applied = c.applied /\ d.ignored = c.ignored
    BY <1>5 DEF Counts
  <2>4. d.parsed = d.buffered + d.applied + d.ignored + d.gaps
    <3>1. \A p, n, g \in Nat : p = n + g => p + 1 = n + (g + 1)
      OBVIOUS
    <3>2. c.parsed = (c.buffered + c.applied + c.ignored) + c.gaps
      BY <1>1 DEF AddsUp
    <3>3. c.buffered + c.applied + c.ignored \in Nat
      BY <1>1
    <3>4. c.parsed + 1 = (c.buffered + c.applied + c.ignored) + (c.gaps + 1)
      BY <1>1, <3>1, <3>2, <3>3
    <3> QED BY <2>3, <3>4
  <2> QED BY <2>2, <2>4 DEF AddsUp
<1> QED BY <1>2, <1>3, <1>4, <1>5

LEMMA CountedType ==
    ASSUME IInv, NEW result \in {"Buffered", "Applied", "IgnoredStale", "GapDetected"},
           counts' = Counted(result)
    PROVE  counts' \in Counts /\ EveryUpdateCounted'
<1>1. counts \in Counts /\ AddsUp(counts)
  BY DEF IInv, TypeOK, EveryUpdateCounted, Counts, AddsUp
<1>2. counts' \in {[counts EXCEPT !.parsed = @ + 1, !.buffered = @ + 1],
                   [counts EXCEPT !.parsed = @ + 1, !.applied = @ + 1],
                   [counts EXCEPT !.parsed = @ + 1, !.ignored = @ + 1],
                   [counts EXCEPT !.parsed = @ + 1, !.gaps = @ + 1]}
  BY <1>1 DEF Counted, Counts
<1>3. counts' \in Counts /\ AddsUp(counts')
  BY <1>1, <1>2, OneMore
<1> QED BY <1>3 DEF AddsUp, EveryUpdateCounted

\* A thread starts, leaves its read with or without an exception, finishes, or reads a
\* message that is of no symbol.
LEMMA LifeStep ==
    ASSUME IInv, NEW t \in Threads,
           Starts(t) \/ Returns(t) \/ Throws(t) \/ Finishes(t) \/ ReadsOther(t)
    PROVE  IInv' /\ UNCHANGED delivered
<1>1. UNCHANGED <<managers, delivered, pc, task, attempt, snapshot, synced_books, failed_books>>
  BY DEF Starts, Returns, Throws, Finishes, ReadsOther, Reads, mainVars
<1>2. counts' \in Counts /\ EveryUpdateCounted'
  <2>1. counts \in Counts /\ AddsUp(counts)
    BY DEF IInv, TypeOK, EveryUpdateCounted, Counts, AddsUp
  <2>2. CASE UNCHANGED counts
    BY <2>1, <2>2 DEF EveryUpdateCounted, AddsUp
  <2>3. CASE counts' = [counts EXCEPT !.parsed = @ + 1, !.ignored = @ + 1]
    <3>1. counts' \in Counts /\ AddsUp(counts')
      BY <2>1, <2>3, OneMore
    <3> QED BY <3>1 DEF EveryUpdateCounted, AddsUp
  <2> QED BY <2>2, <2>3 DEF Starts, Returns, Throws, Finishes, ReadsOther
<1>3. TypeOK'
  <2>1. messages' \in [Threads -> 0..MaxMessages]
    <3>1. CASE UNCHANGED messages
      BY <3>1 DEF IInv, TypeOK
    <3> QED BY <3>1, MessagesType DEF Starts, Returns, Throws, Finishes, ReadsOther
  <2>2. /\ thread' \in [Threads -> {"new", "reading", "ended", "finished"}]
        /\ ws_exception' \in Threads \cup {NoThread}
        /\ ws_started' \in BOOLEAN /\ ws_finished' \in BOOLEAN
    BY DEF IInv, TypeOK, Starts, Returns, Throws, Finishes, ReadsOther, Reads
  <2> QED BY <1>1, <1>2, <2>1, <2>2 DEF IInv, TypeOK, Counts
<1>4. FeedsSound' /\ AttemptSound' /\ BooksCounted'
  BY <1>1 DEF IInv, FeedsSound, AttemptSound, Current, BooksCounted, Booked, Turns, Synchronized
<1>5. EndSound'
  <2>1. pc' = pc
    BY <1>1
  <2>2. CASE Starts(t)
    BY <2>1, <2>2 DEF IInv, TypeOK, EndSound, Starts
  <2>3. CASE Returns(t)
    BY <2>1, <2>3 DEF IInv, TypeOK, EndSound, Returns
  <2>4. CASE Throws(t)
    BY <2>1, <2>4, NoThreadAssumption DEF IInv, TypeOK, EndSound, Throws
  <2>5. CASE Finishes(t)
    BY <2>1, <2>5 DEF IInv, TypeOK, EndSound, Finishes
  <2>6. CASE ReadsOther(t)
    BY <2>1, <2>6 DEF IInv, TypeOK, EndSound, ReadsOther, Reads
  <2> QED BY <2>2, <2>3, <2>4, <2>5, <2>6
<1> QED BY <1>1, <1>2, <1>3, <1>4, <1>5 DEF IInv

\* A message of a symbol: it goes to the manager of the symbol.  No update makes a book
\* or takes one away.
LEMMA UpdateStep ==
    ASSUME IInv, NEW t \in Threads, NEW f \in Feeds, NEW r \in UpdateRange,
           ReadsUpdate(t, f, r[1], r[2])
    PROVE  /\ IInv'
           /\ \A g \in Feeds : g # f => delivered'[g] = delivered[g]
           /\ Ready(managers[f]) /\ managers[f].book.last_update_id < delivered[f] =>
                  NeedResync(managers'[f])
<1> DEFINE u == DepthUpdate(f, r[1], r[2])
<1>1. /\ u \in Update /\ u.feed = f /\ u.first_update_id = r[1]
      /\ r[1] \in Nat /\ r[2] \in 0..MaxId
  BY DepthUpdateIsUpdate, MaxIdAssumption
<1> HIDE DEF u
<1>2. PICK out : out = OnUpdate(f, managers[f], u)
  OBVIOUS
<1>3. /\ Reads(t)
      /\ r[1] > delivered[f]
      /\ delivered' = [delivered EXCEPT ![f] = r[2]]
      /\ managers' = [managers EXCEPT ![f] = Unstated(out.m)]
      /\ counts' = Counted(out.result)
      /\ thread[t] = "reading"
      /\ UNCHANGED <<thread, ws_started, ws_finished, ws_exception, pc, task, attempt,
                     snapshot, synced_books, failed_books>>
  BY <1>2 DEF ReadsUpdate, Reads, u, mainVars
<1>4. /\ ManagerSound(managers[f]) /\ managers[f].status \in Status
      /\ managers \in [Feeds -> Manager] /\ delivered \in [Feeds -> 0..MaxId]
      /\ managers[f].book.last_update_id \in Nat /\ delivered[f] \in Nat
  <2>1. managers \in [Feeds -> Manager] /\ delivered \in [Feeds -> 0..MaxId]
    BY DEF IInv, TypeOK
  <2>2. ManagerSound(managers[f])
    BY DEF IInv, FeedsSound
  <2>3. managers[f] \in Manager /\ delivered[f] \in 0..MaxId
    BY <2>1
  <2>4. managers[f].status \in Status /\ managers[f].book \in Book
    BY <2>3 DEF Manager
  <2>5. managers[f].book.last_update_id \in Nat
    BY <2>4 DEF Book
  <2>6. delivered[f] \in Nat
    BY <2>3, MaxIdAssumption
  <2> QED BY <2>1, <2>2, <2>4, <2>5, <2>6
<1>5. ManagerSound(out.m)
  BY <1>1, <1>2, <1>4, SoundUpdate
<1>6. /\ ManagerSound(managers'[f]) /\ managers'[f].status = out.m.status
      /\ managers'[f].book = out.m.book
      /\ NeedResync(managers'[f]) <=> NeedResync(out.m)
  BY <1>3, <1>4, <1>5, SoundUnstated
<1>7. \A g \in Feeds \ {f} : managers'[g] = managers[g] /\ delivered'[g] = delivered[g]
  BY <1>3, <1>4
<1>8. /\ out.result \in {"Buffered", "Applied", "IgnoredStale", "GapDetected"}
      /\ managers[f].status = "WaitingForSnapshot" <=> out.m.status = "WaitingForSnapshot"
  <2>1. CASE managers[f].status = "WaitingForSnapshot"
    BY <1>1, <1>2, <1>4, <2>1, SoundUpdate
  <2>2. CASE NeedResync(managers[f])
    BY <1>1, <1>2, <1>4, <2>2, SoundUpdate DEF NeedResync
  <2>3. CASE Ready(managers[f])
    BY <1>1, <1>2, <1>4, <2>3, SoundUpdate DEF Ready
  <2> QED BY <1>4, <2>1, <2>2, <2>3 DEF Status, NeedResync, Ready
<1>9. counts' \in Counts /\ EveryUpdateCounted'
  BY <1>3, <1>8, CountedType
<1>10. TypeOK'
  <2>1. managers' \in [Feeds -> Manager] /\ delivered' \in [Feeds -> 0..MaxId]
    BY <1>1, <1>3, <1>4, <1>6 DEF ManagerSound
  <2>2. messages' \in [Threads -> 0..MaxMessages]
    BY <1>3, MessagesType
  <2> QED BY <1>3, <1>9, <2>1, <2>2 DEF IInv, TypeOK, Counts
<1>11. FeedsSound'
  BY <1>6, <1>7 DEF IInv, FeedsSound
<1>12. AttemptSound'
  BY <1>3, <1>6, <1>7, <1>8, CurrentType DEF IInv, AttemptSound, Current
<1>13. BooksCounted'
  <2>1. managers'[f].book.initialized <=> managers[f].book.initialized
    BY <1>4, <1>6, <1>8 DEF ManagerSound
  <2>2. Booked' = Booked
    BY <1>7, <2>1 DEF Booked
  <2> QED BY <1>3, <2>2 DEF IInv, BooksCounted, Turns, Synchronized
<1>14. EndSound'
  BY <1>3 DEF IInv, TypeOK, EndSound, Reads
<1>15. ASSUME Ready(managers[f]), managers[f].book.last_update_id < delivered[f]
       PROVE  NeedResync(managers'[f])
  <2>1. u.first_update_id > managers[f].book.last_update_id + 1
    BY <1>1, <1>3, <1>4, <1>15
  <2>2. NeedResync(out.m)
    BY <1>1, <1>2, <1>4, <1>15, <2>1, SoundUpdate
  <2> QED BY <1>6, <2>2
<1> QED BY <1>7, <1>9, <1>10, <1>11, <1>12, <1>13, <1>14, <1>15 DEF IInv

-----------------------------------------------------------------------------
(* The main thread.                                                        *)

\* The steps that leave every manager alone.
LEMMA MoveStep ==
    ASSUME IInv,
           \/ AwaitsStart \/ WaitSeesBuffer \/ WaitGivesUp
           \/ (\E v \in 0..MaxId : Fetches(v)) \/ FetchFails \/ Joins
    PROVE  IInv' /\ UNCHANGED delivered
<1>1. UNCHANGED <<managers, threadVars, synced_books>>
  BY DEF AwaitsStart, WaitSeesBuffer, WaitGivesUp, Fetches, FetchFails, Joins, NextAttempt
<1>2. /\ task \in DOMAIN SymbolList /\ attempt \in 1..MaxSyncAttempts
      /\ synced_books \in 0..Len(SymbolList) /\ failed_books \in 0..Len(SymbolList)
      /\ synced_books \in Nat /\ failed_books \in Nat
  BY CurrentType DEF IInv, TypeOK
<1>3. /\ task' \in DOMAIN SymbolList /\ attempt' \in 1..MaxSyncAttempts
      /\ pc' \in {"wait", "fetch", "apply", "join", "stopped", "threw"}
      /\ synced_books' + failed_books' = Turns'
      /\ failed_books' \in 0..Len(SymbolList)
      /\ snapshot' \in 0..MaxId
  <2>1. CASE WaitGivesUp
    BY <1>1, <1>2, <2>1, NextSymbolType DEF WaitGivesUp, Synchronized, IInv, TypeOK
  <2>2. CASE FetchFails
    BY <2>2, NextAttemptType DEF FetchFails, Synchronized, IInv, TypeOK
  <2>3. CASE AwaitsStart \/ WaitSeesBuffer \/ (\E v \in 0..MaxId : Fetches(v)) \/ Joins
    BY <1>2, <2>3 DEF AwaitsStart, WaitSeesBuffer, Fetches, Joins, Synchronized, Turns, IInv,
                      TypeOK, BooksCounted
  <2> QED BY <2>1, <2>2, <2>3
<1>4. TypeOK'
  BY <1>1, <1>3 DEF IInv, TypeOK, threadVars
<1>5. FeedsSound' /\ EveryUpdateCounted'
  BY <1>1 DEF IInv, FeedsSound, EveryUpdateCounted, threadVars
<1>6. BooksCounted'
  BY <1>1, <1>3 DEF IInv, BooksCounted, Booked
<1>7. AttemptSound'
  <2>1. CASE WaitSeesBuffer
    <3>1. ManagerSound(managers[Current]) /\ managers[Current].buffer # <<>>
      BY <2>1, CurrentType DEF IInv, FeedsSound, WaitSeesBuffer
    <3> QED BY <2>1, <3>1 DEF WaitSeesBuffer, AttemptSound, Current, ManagerSound
  <2>2. CASE \E v \in 0..MaxId : Fetches(v)
    BY <1>1, <2>2 DEF Fetches, IInv, AttemptSound, Current
  <2>3. CASE FetchFails
    BY <1>1, <2>3, NextAttemptType DEF FetchFails, Synchronized, IInv, AttemptSound, Current
  <2>4. CASE WaitGivesUp
    BY <2>4 DEF WaitGivesUp, NextSymbol, AttemptSound
  <2> QED BY <2>1, <2>2, <2>3, <2>4 DEF AwaitsStart, Joins, AttemptSound
<1>8. EndSound'
  <2>1. pc' = "stopped" => (\A t \in Threads : thread[t] = "finished") /\ ws_exception = NoThread
    <3>1. CASE FetchFails
      BY <3>1, NextAttemptType DEF FetchFails, Synchronized
    <3> QED BY <3>1 DEF AwaitsStart, WaitSeesBuffer, WaitGivesUp, NextSymbol, Fetches, Joins
  <2> QED BY <1>1, <2>1 DEF IInv, EndSound, threadVars
<1> QED BY <1>1, <1>4, <1>5, <1>6, <1>7, <1>8 DEF IInv, threadVars

\* The snapshot makes a book, which is counted, or the manager starts over.
LEMMA SnapshotStep ==
    ASSUME IInv, AppliesSnapshot
    PROVE  IInv' /\ UNCHANGED delivered
<1>1. PICK out :
         /\ out = ApplySnapshot(Current, managers[Current], DepthSnapshot(Current, snapshot))
         /\ IF out.result = "SnapshotApplied"
            THEN /\ managers' = [managers EXCEPT ![Current] = Unstated(out.m)]
                 /\ synced_books' = synced_books + 1
                 /\ NextSymbol
                 /\ UNCHANGED failed_books
            ELSE /\ managers' = [managers EXCEPT ![Current] = Reset]
                 /\ NextAttempt
  BY DEF AppliesSnapshot
<1>2. /\ pc = "apply" /\ snapshot' = 0 /\ UNCHANGED threadVars
      /\ ~Synchronized /\ 0 \in 0..MaxId
  BY MaxIdAssumption DEF AppliesSnapshot, Synchronized
<1>3. /\ Current \in Feeds /\ managers \in [Feeds -> Manager] /\ snapshot \in 0..MaxId
      /\ ManagerSound(managers[Current])
      /\ managers[Current].status = "WaitingForSnapshot"
      /\ ~managers[Current].book.initialized
      /\ synced_books \in Nat /\ failed_books \in Nat
  BY <1>2, CurrentType DEF IInv, TypeOK, FeedsSound, AttemptSound, ManagerSound
<1>4. /\ ManagerSound(out.m) /\ out.m.status \in {"Ready", "NeedResync"}
  BY <1>1, <1>3, SoundSnapshot
<1>5. EveryUpdateCounted' /\ UNCHANGED delivered
  BY <1>2 DEF IInv, EveryUpdateCounted, threadVars
<1>6. IsFiniteSet(Booked) /\ Current \notin Booked
  BY <1>3, FeedsFinite, FS_Subset DEF Booked
<1>7. CASE out.result = "SnapshotApplied"
  <2>1. /\ managers' = [managers EXCEPT ![Current] = Unstated(out.m)]
        /\ synced_books' = synced_books + 1 /\ failed_books' = failed_books
        /\ NextSymbol
    BY <1>1, <1>7
  <2>2. /\ task' \in DOMAIN SymbolList /\ attempt' \in 1..MaxSyncAttempts
        /\ pc' \in {"wait", "join"}
        /\ synced_books' + failed_books' = Turns'
        /\ synced_books' \in 0..Len(SymbolList) /\ failed_books' \in 0..Len(SymbolList)
    BY <1>2, <1>3, <2>1, NextSymbolType
  <2>3. ManagerSound(managers'[Current]) /\ managers'[Current].book.initialized
    BY <1>3, <1>4, <2>1, SoundUnstated DEF ManagerSound
  <2>4. \A g \in Feeds \ {Current} : managers'[g] = managers[g]
    BY <1>3, <2>1
  <2>5. TypeOK'
    <3>1. managers' \in [Feeds -> Manager]
      BY <1>3, <2>1, <2>3 DEF ManagerSound
    <3> QED BY <1>2, <2>2, <3>1 DEF IInv, TypeOK, threadVars
  <2>6. FeedsSound'
    BY <2>3, <2>4 DEF IInv, FeedsSound
  <2>7. BooksCounted'
    <3>1. Booked' = Booked \cup {Current}
      BY <1>3, <2>3, <2>4 DEF Booked
    <3>2. Cardinality(Booked') = Cardinality(Booked) + 1
      BY <1>6, <3>1, FS_AddElement
    <3> QED BY <2>1, <2>2, <3>2 DEF IInv, BooksCounted
  <2>8. AttemptSound' /\ EndSound'
    BY <1>2, <2>2 DEF IInv, AttemptSound, EndSound, threadVars
  <2> QED BY <1>5, <2>5, <2>6, <2>7, <2>8 DEF IInv
<1>8. CASE out.result # "SnapshotApplied"
  <2>1. managers' = [managers EXCEPT ![Current] = NewManager] /\ NextAttempt
    BY <1>1, <1>8 DEF Reset
  <2>2. /\ task' \in DOMAIN SymbolList /\ attempt' \in 1..MaxSyncAttempts
        /\ pc' \in {"wait", "fetch", "join"}
        /\ pc' = "fetch" => task' = task
        /\ synced_books' = synced_books
        /\ synced_books' + failed_books' = Turns'
        /\ synced_books' \in 0..Len(SymbolList) /\ failed_books' \in 0..Len(SymbolList)
    BY <1>2, <2>1, NextAttemptType
  <2>3. /\ ManagerSound(managers'[Current]) /\ ~managers'[Current].book.initialized
        /\ managers'[Current].status = "WaitingForSnapshot"
    BY <1>3, <2>1, SoundNew
  <2>4. \A g \in Feeds \ {Current} : managers'[g] = managers[g]
    BY <1>3, <2>1
  <2>5. TypeOK'
    <3>1. managers' \in [Feeds -> Manager]
      BY <1>3, <2>1, NewManagerType
    <3> QED BY <1>2, <2>2, <3>1 DEF IInv, TypeOK, threadVars
  <2>6. FeedsSound'
    BY <2>3, <2>4 DEF IInv, FeedsSound
  <2>7. BooksCounted'
    <3>1. Booked' = Booked
      BY <1>3, <2>3, <2>4 DEF Booked
    <3> QED BY <2>2, <3>1 DEF IInv, BooksCounted
  <2>8. AttemptSound' /\ EndSound'
    BY <1>2, <2>2, <2>3 DEF IInv, AttemptSound, Current, EndSound, threadVars
  <2> QED BY <1>5, <2>5, <2>6, <2>7, <2>8 DEF IInv
<1> QED BY <1>7, <1>8

-----------------------------------------------------------------------------
(* Every step.                                                             *)

\* A ready book that lags behind is found out when its connection delivers more.
FindsOut ==
    \A f \in Feeds :
        /\ Ready(managers[f]) /\ managers[f].book.last_update_id < delivered[f]
        /\ delivered'[f] # delivered[f]
        => NeedResync(managers'[f])

LEMMA UnchangedStep ==
    ASSUME IInv, UNCHANGED vars
    PROVE  IInv' /\ UNCHANGED delivered
<1>1. UNCHANGED <<managers, threadVars, mainVars>>
  BY DEF vars
<1>2. TypeOK'
  BY <1>1 DEF IInv, TypeOK, threadVars, mainVars
<1>3. FeedsSound' /\ AttemptSound' /\ BooksCounted' /\ EveryUpdateCounted' /\ EndSound'
  BY <1>1 DEF IInv, FeedsSound, AttemptSound, Current, BooksCounted, Booked, Turns,
              Synchronized, EveryUpdateCounted, EndSound, threadVars, mainVars
<1> QED BY <1>1, <1>2, <1>3 DEF IInv, threadVars

LEMMA NextIInv ==
    ASSUME IInv, [Next]_vars
    PROVE  IInv' /\ FindsOut
<1>1. UNCHANGED delivered => FindsOut
  BY DEF FindsOut
<1>2. CASE \E t \in Threads : \E f \in Feeds, r \in UpdateRange : ReadsUpdate(t, f, r[1], r[2])
  BY <1>2, UpdateStep DEF FindsOut
<1>3. CASE \E t \in Threads :
              Starts(t) \/ Returns(t) \/ Throws(t) \/ Finishes(t) \/ ReadsOther(t)
  BY <1>1, <1>3, LifeStep
<1>4. CASE \/ AwaitsStart \/ WaitSeesBuffer \/ WaitGivesUp
           \/ (\E v \in 0..MaxId : Fetches(v)) \/ FetchFails \/ Joins
  BY <1>1, <1>4, MoveStep
<1>5. CASE AppliesSnapshot
  BY <1>1, <1>5, SnapshotStep
<1>6. CASE UNCHANGED vars
  BY <1>1, <1>6, UnchangedStep
<1> QED BY <1>2, <1>3, <1>4, <1>5, <1>6 DEF Next, MainStep, ThreadStep, Stays

LEMMA Inductive == Spec => []IInv
<1>1. IInv /\ [Next]_vars => IInv'
  BY NextIInv
<1> QED BY InitIInv, <1>1, PTL DEF Spec

\* The state of the mode keeps its types; no more symbols are ever counted than listed.
THEOREM TypeCorrect == Spec => []TypeOK
<1>1. IInv => TypeOK
  BY DEF IInv
<1> QED BY <1>1, Inductive, PTL

\* The final summary adds up: the symbols, the updates and the connections.
THEOREM SummaryRight == Spec => []SummaryIsRight
<1>1. IInv => SummaryIsRight
  <2> SUFFICES ASSUME IInv PROVE SummaryIsRight
    OBVIOUS
  <2>1. EverySymbolCounted
    BY DEF IInv, BooksCounted, Booked, Turns, Synchronized, EverySymbolCounted
  <2>2. CleanStopReadEverything
    <3>1. Threads # {}
      <4>1. SymbolList[1] \in Feeds
        BY ListType
      <4> QED BY <4>1, GroupAssumption
    <3> QED BY <3>1 DEF IInv, EndSound, CleanStopReadEverything
  <2> QED BY <2>1, <2>2 DEF IInv, SummaryIsRight
<1> QED BY <1>1, Inductive, PTL

\* A ready book that lags behind its connection needs a resync from the next update on.
THEOREM LagFoundOut == Spec => LaggingBookIsFoundOut
<1>1. IInv /\ [Next]_vars =>
        [\A f \in Feeds :
            /\ Ready(managers[f]) /\ managers[f].book.last_update_id < delivered[f]
            /\ delivered'[f] # delivered[f]
            => NeedResync(managers'[f])]_vars
  BY NextIInv DEF FindsOut
<1> QED BY <1>1, Inductive, PTL DEF Spec, LaggingBookIsFoundOut
=============================================================================
