-------------------------- MODULE LiveScanner_proofs --------------------------
(***************************************************************************)
(* The safety of the live scanner, for every list of symbols, every        *)
(* grouping of the feeds into connections, every buffer and every          *)
(* snapshot: ready books are current, so are the copies it scans, a        *)
(* failed connection is reported, and every feed implements FeedView.      *)
(***************************************************************************)
EXTENDS LiveScanner, LocalBook_proofs

\* How many books have had their turn to be synchronized.
Turns == IF Scanning THEN Len(Tasks) ELSE task - 1

\* Every manager is sound and as far as its connection.
FeedsSound ==
    \A f \in Feeds : ManagerSound(managers[f]) /\ CurrentAt(managers[f], delivered[f])

\* Between the end of a wait and the snapshot the buffer is not empty.
AttemptSound == pc \in {"fetch", "apply"} => managers[Current].buffer # <<>>

\* No more books are counted as synchronized than had their turn.
SyncedSound ==
    /\ synced["binance"] <= Turns
    /\ synced["mexc"] <= IF Turns <= Len(SymbolList) THEN 0 ELSE Turns - Len(SymbolList)

\* A thread that left without an exception had read its full number of messages.
EndSound ==
    /\ \A t \in Threads : thread[t] \in {"ended", "finished"} /\ ws_exception = NoThread =>
           MaxMessages > 0 /\ messages[t] = MaxMessages
    /\ pc = "stopped" => AllFinished /\ ws_exception = NoThread

\* The inductive invariant.
IInv ==
    /\ TypeOK
    /\ FeedsSound
    /\ AttemptSound
    /\ SyncedSound
    /\ EndSound

\* What a step may do to the book of feed f: a ready book stays, moves on, or is lost;
\* one that is not ready becomes ready by the snapshot of its turn.
BookMoves(f) ==
    /\ Ready(managers[f]) /\ Ready(managers'[f]) =>
           \/ managers'[f].book = managers[f].book
           \/ managers'[f].book.last_update_id > managers[f].book.last_update_id
    /\ ~Ready(managers[f]) /\ Ready(managers'[f]) =>
           pc = "apply" /\ f = Current /\ NextTask

\* The turns only go on.
TurnsMove ==
    /\ task' \in 1..Len(Tasks) /\ task <= task'
    /\ Scanning => Scanning'

-----------------------------------------------------------------------------
(* The turns.                                                              *)

LEMMA FeedType ==
    ASSUME NEW f \in Feeds
    PROVE  f[1] \in Exchanges
BY FeedsAssumption

LEMMA TasksType ==
    /\ Len(SymbolList) \in Nat \ {0}
    /\ DOMAIN Tasks = 1..(2 * Len(SymbolList))
    /\ Len(Tasks) = 2 * Len(SymbolList)
    /\ \A i \in 1..Len(Tasks) :
           /\ Tasks[i] \in Feeds
           /\ Tasks[i][1] = IF i <= Len(SymbolList) THEN "binance" ELSE "mexc"
<1>1. Len(SymbolList) \in Nat \ {0} /\ DOMAIN SymbolList = 1..Len(SymbolList)
  BY SymbolAssumption
<1>2. DOMAIN Tasks = 1..(2 * Len(SymbolList))
  BY DEF Tasks
<1>3. \A i \in 1..(2 * Len(SymbolList)) :
          /\ Tasks[i] \in Feeds
          /\ Tasks[i][1] = IF i <= Len(SymbolList) THEN "binance" ELSE "mexc"
  <2> SUFFICES ASSUME NEW i \in 1..(2 * Len(SymbolList))
               PROVE  /\ Tasks[i] \in Feeds
                      /\ Tasks[i][1] = IF i <= Len(SymbolList) THEN "binance" ELSE "mexc"
    OBVIOUS
  <2>1. CASE i <= Len(SymbolList)
    BY <1>1, <2>1, FeedsAssumption DEF Tasks, Exchanges
  <2>2. CASE ~(i <= Len(SymbolList))
    <3>1. i - Len(SymbolList) \in 1..Len(SymbolList)
      BY <1>1, <2>2
    <3> QED BY <1>1, <2>2, <3>1, FeedsAssumption DEF Tasks, Exchanges
  <2> QED BY <2>1, <2>2
<1>4. Tasks \in Seq(Feeds)
  <2>1. Tasks \in [1..(2 * Len(SymbolList)) -> Feeds]
    BY <1>3 DEF Tasks
  <2>2. 2 * Len(SymbolList) \in Nat
    BY <1>1
  <2> QED BY <2>1, <2>2
<1>5. Len(Tasks) = 2 * Len(SymbolList)
  BY <1>1, <1>2, <1>4
<1> QED BY <1>1, <1>2, <1>3, <1>5

LEMMA CurrentType ==
    ASSUME IInv
    PROVE  /\ Current \in Feeds /\ Current[1] \in Exchanges
           /\ managers[Current] \in Manager
           /\ task \in 1..Len(Tasks) /\ attempt \in 1..MaxSyncAttempts
<1>1. task \in 1..Len(Tasks) /\ attempt \in 1..MaxSyncAttempts
  BY DEF IInv, TypeOK
<1>2. Current \in Feeds
  BY <1>1, TasksType DEF Current
<1> QED BY <1>1, <1>2, FeedType DEF IInv, TypeOK

\* The end of a turn, from a step of the synchronization.
LEMMA NextTaskType ==
    ASSUME IInv, ~Scanning, NextTask
    PROVE  /\ TurnsMove
           /\ attempt' \in 1..MaxSyncAttempts /\ pc' \in {"reset", "loop"}
           /\ Turns = task - 1 /\ Turns' = task
<1>1. task \in 1..Len(Tasks) /\ Len(Tasks) \in Nat
  BY CurrentType, TasksType
<1>2. attempt' \in 1..MaxSyncAttempts
  BY DEF NextTask, MaxSyncAttempts
<1>3. CASE task < Len(Tasks)
  BY <1>1, <1>2, <1>3 DEF NextTask, TurnsMove, Turns, Scanning
<1>4. CASE ~(task < Len(Tasks))
  BY <1>1, <1>2, <1>4 DEF NextTask, TurnsMove, Turns, Scanning
<1> QED BY <1>3, <1>4

LEMMA NextAttemptType ==
    ASSUME IInv, ~Scanning, NextAttempt
    PROVE  /\ TurnsMove
           /\ attempt' \in 1..MaxSyncAttempts /\ pc' \in {"reset", "loop"}
           /\ Turns \in Int /\ Turns' \in {Turns, Turns + 1}
<1>1. task \in 1..Len(Tasks) /\ attempt \in 1..MaxSyncAttempts /\ Len(Tasks) \in Nat
  BY CurrentType, TasksType
<1>2. CASE attempt < MaxSyncAttempts
  BY <1>1, <1>2 DEF NextAttempt, TurnsMove, Turns, Scanning, MaxSyncAttempts
<1>3. CASE ~(attempt < MaxSyncAttempts)
  BY <1>1, <1>3, NextTaskType DEF NextAttempt
<1> QED BY <1>2, <1>3

\* More turns leave the counters bounded.
LEMMA SyncedStays ==
    ASSUME IInv, UNCHANGED synced, Turns \in Int, Turns' \in {Turns, Turns + 1}
    PROVE  SyncedSound'
<1>1. synced["binance"] \in Int /\ synced["mexc"] \in Int /\ Len(SymbolList) \in Nat
  BY TasksType DEF IInv, TypeOK, Exchanges
<1> QED BY <1>1 DEF IInv, SyncedSound

LEMMA TurnsType ==
    ASSUME IInv
    PROVE  Turns \in Int
BY TasksType DEF IInv, TypeOK, Turns

-----------------------------------------------------------------------------
LEMMA InitIInv == Init => IInv
<1> SUFFICES ASSUME Init PROVE IInv
  OBVIOUS
<1>1. \A f \in Feeds : managers[f] = NewManager
  BY DEF Init
<1>2. NewManager \in Manager
  BY NewManagerType
<1>3. TypeOK
  <2>1. 0 \in 0..MaxMessages /\ 0 \in 0..MaxId /\ 1 \in 1..MaxSyncAttempts
    BY MaxIdAssumption, MaxMessagesAssumption DEF MaxSyncAttempts
  <2>2. 1 \in 1..Len(Tasks) /\ 0 \in 0..Len(SymbolList)
    BY TasksType
  <2> QED BY <1>2, <2>1, <2>2 DEF Init, TypeOK, PcValues
<1>4. FeedsSound
  BY <1>1, SoundNew DEF FeedsSound
<1>5. SyncedSound
  BY TasksType DEF Init, SyncedSound, Turns, Scanning, Exchanges
<1>6. AttemptSound /\ EndSound
  BY DEF Init, AttemptSound, EndSound
<1> QED BY <1>3, <1>4, <1>5, <1>6 DEF IInv

-----------------------------------------------------------------------------
(* The WebSocket threads.                                                  *)

\* A step of a thread leaves the turns alone.
LEMMA SameTurns ==
    ASSUME IInv, UNCHANGED mainVars
    PROVE  TurnsMove /\ SyncedSound' /\ (pc' = "apply" <=> pc = "apply")
<1>1. Turns' = Turns /\ (Scanning' <=> Scanning)
  BY DEF mainVars, Turns, Scanning
<1>2. TurnsMove
  BY <1>1, TasksType DEF IInv, TypeOK, TurnsMove, mainVars
<1>3. SyncedSound'
  BY <1>1, TurnsType, SyncedStays DEF mainVars
<1> QED BY <1>2, <1>3 DEF mainVars

\* A thread starts, leaves its read with or without an exception, finishes, or reads a
\* message that is of no book.
LEMMA LifeStep ==
    ASSUME IInv, NEW t \in Threads,
           Starts(t) \/ Returns(t) \/ Throws(t) \/ Finishes(t) \/ ReadsOther(t)
    PROVE  IInv' /\ UNCHANGED managers /\ TurnsMove
<1>1. UNCHANGED <<managers, gaps, delivered, mainVars, touched, gap_found>>
  BY DEF Starts, Returns, Throws, Finishes, ReadsOther, Reads
<1>2. TurnsMove /\ SyncedSound'
  BY <1>1, SameTurns
<1>3. messages' \in [Threads -> 0..MaxMessages]
  <2>1. CASE Reads(t)
    <3>1. messages[t] \in 0..MaxMessages /\ MaxMessages \in Nat
      BY MaxMessagesAssumption DEF IInv, TypeOK
    <3>2. (IF MaxMessages = 0 THEN 0 ELSE messages[t] + 1) \in 0..MaxMessages
      BY <2>1, <3>1 DEF Reads
    <3> QED BY <2>1, <3>2 DEF IInv, TypeOK, Reads
  <2>2. CASE UNCHANGED messages
    BY <2>2 DEF IInv, TypeOK
  <2> QED BY <2>1, <2>2 DEF Starts, Returns, Throws, Finishes, ReadsOther
<1>4. TypeOK'
  <2>1. thread' \in [Threads -> {"new", "reading", "ended", "finished"}]
    BY DEF IInv, TypeOK, Starts, Returns, Throws, Finishes, ReadsOther, Reads
  <2>2. ws_exception' \in Threads \cup {NoThread}
    BY DEF IInv, TypeOK, Starts, Returns, Throws, Finishes, ReadsOther, Reads
  <2> QED BY <1>1, <1>3, <2>1, <2>2 DEF IInv, TypeOK, mainVars
<1>5. FeedsSound' /\ AttemptSound'
  BY <1>1 DEF IInv, FeedsSound, AttemptSound, Current, mainVars
<1>6. EndSound'
  <2>1. pc' = pc
    BY <1>1 DEF mainVars
  <2>2. CASE Starts(t)
    BY <2>1, <2>2 DEF IInv, TypeOK, EndSound, AllFinished, Starts
  <2>3. CASE Returns(t)
    BY <2>1, <2>3 DEF IInv, TypeOK, EndSound, AllFinished, Returns
  <2>4. CASE Throws(t)
    BY <2>1, <2>4, NoThreadAssumption DEF IInv, TypeOK, EndSound, AllFinished, Throws
  <2>5. CASE Finishes(t)
    BY <2>1, <2>5 DEF IInv, TypeOK, EndSound, AllFinished, Finishes
  <2>6. CASE ReadsOther(t)
    BY <2>1, <2>6 DEF IInv, TypeOK, EndSound, AllFinished, ReadsOther, Reads
  <2> QED BY <2>2, <2>3, <2>4, <2>5, <2>6
<1> QED BY <1>1, <1>2, <1>4, <1>5, <1>6 DEF IInv

\* A message of a book: it goes to the manager of its feed.
LEMMA UpdateStep ==
    ASSUME IInv, NEW t \in Threads, NEW f \in Feeds, NEW r \in UpdateRange,
           ReadsUpdate(t, f, r[1], r[2])
    PROVE  IInv' /\ (\A g \in Feeds : BookMoves(g)) /\ TurnsMove
<1> DEFINE u == DepthUpdate(f, r[1], r[2])
<1>1. /\ u \in Update /\ u.feed = f /\ u.final_update_id = r[2] /\ r[2] \in 0..MaxId
  BY DepthUpdateIsUpdate, MaxIdAssumption
<1> HIDE DEF u
<1>2. PICK out : out = OnUpdate(f, managers[f], u)
  OBVIOUS
<1>3. /\ Reads(t)
      /\ delivered' = [delivered EXCEPT ![f] = r[2]]
      /\ managers' = [managers EXCEPT ![f] = Unstated(out.m)]
      /\ touched' \in {touched, touched \cup {f}}
      /\ gap_found' \in {gap_found, gap_found \cup {f[1]}}
      /\ gaps' = [gaps EXCEPT ![f[1]] = IF NeedResync(out.m) THEN @ + 1 ELSE @]
      /\ thread[t] = "reading"
      /\ UNCHANGED <<thread, ws_exception, mainVars>>
  BY <1>2 DEF ReadsUpdate, Reads, ManagerBecomes, u
<1>4. TurnsMove /\ SyncedSound'
  BY <1>3, SameTurns
<1>5. ManagerSound(managers[f]) /\ CurrentAt(managers[f], delivered[f])
      /\ managers \in [Feeds -> Manager] /\ delivered \in [Feeds -> 0..MaxId]
  BY DEF IInv, FeedsSound, TypeOK
<1>6. ManagerSound(out.m) /\ CurrentAt(out.m, r[2])
  BY <1>1, <1>2, <1>5, SoundUpdate, CurrentUpdate
<1>7. /\ ManagerSound(managers'[f]) /\ CurrentAt(managers'[f], r[2])
      /\ managers'[f].book = out.m.book /\ managers'[f].buffer = out.m.buffer
      /\ Ready(managers'[f]) <=> Ready(out.m)
  BY <1>3, <1>5, <1>6, SoundUnstated
<1>8. \A g \in Feeds \ {f} : managers'[g] = managers[g] /\ delivered'[g] = delivered[g]
  BY <1>3, <1>5
<1>9. FeedsSound'
  <2> SUFFICES ASSUME NEW g \in Feeds
               PROVE  ManagerSound(managers'[g]) /\ CurrentAt(managers'[g], delivered'[g])
    BY DEF FeedsSound
  <2>1. CASE g = f
    BY <1>3, <1>5, <1>7, <2>1
  <2>2. CASE g # f
    BY <1>8, <2>2 DEF IInv, FeedsSound
  <2> QED BY <2>1, <2>2
<1>10. AttemptSound'
  <2> SUFFICES ASSUME pc \in {"fetch", "apply"}
               PROVE  managers'[Current].buffer # <<>>
    BY <1>3 DEF AttemptSound, Current, mainVars
  <2>1. managers[Current].buffer # <<>>
    BY DEF IInv, AttemptSound
  <2>2. CASE Current = f
    <3>1. managers[f].status = "WaitingForSnapshot"
      BY <1>5, <2>1, <2>2 DEF ManagerSound
    <3>2. out.m.buffer # <<>>
      BY <1>1, <1>2, <1>5, <2>1, <2>2, <3>1, SoundUpdate
    <3> QED BY <1>7, <2>2, <3>2
  <2>3. CASE Current # f
    BY <1>8, <2>1, <2>3, CurrentType
  <2> QED BY <2>2, <2>3
<1>11. TypeOK'
  <2>1. managers' \in [Feeds -> Manager] /\ delivered' \in [Feeds -> 0..MaxId]
    BY <1>1, <1>3, <1>5, <1>7 DEF ManagerSound
  <2>2. messages' \in [Threads -> 0..MaxMessages]
    <3>1. messages[t] \in 0..MaxMessages /\ MaxMessages \in Nat
      BY MaxMessagesAssumption DEF IInv, TypeOK
    <3>2. (IF MaxMessages = 0 THEN 0 ELSE messages[t] + 1) \in 0..MaxMessages
      BY <1>3, <3>1 DEF Reads
    <3> QED BY <1>3, <3>2 DEF IInv, TypeOK, Reads
  <2>3. gaps' \in [Exchanges -> Nat]
    <3>1. gaps \in [Exchanges -> Nat] /\ f[1] \in Exchanges
      BY FeedType DEF IInv, TypeOK
    <3> QED BY <1>3, <3>1
  <2>4. touched' \subseteq Feeds /\ gap_found' \subseteq Exchanges
    BY <1>3, FeedType DEF IInv, TypeOK
  <2> QED BY <1>3, <2>1, <2>2, <2>3, <2>4 DEF IInv, TypeOK, mainVars
<1>12. EndSound'
  BY <1>3 DEF IInv, TypeOK, EndSound, AllFinished, Reads, mainVars
<1>13. ASSUME NEW g \in Feeds
       PROVE  BookMoves(g)
  <2>1. CASE g # f
    BY <1>8, <2>1 DEF BookMoves, Ready
  <2>2. CASE g = f
    <3>1. Ready(out.m) => Ready(managers[f])
      <4>1. managers[f].status \in Status
        BY <1>5 DEF Manager
      <4>2. managers[f].status = "WaitingForSnapshot" => ~Ready(out.m)
        BY <1>1, <1>2, <1>5, SoundUpdate DEF Ready
      <4>3. NeedResync(managers[f]) => ~Ready(out.m)
        BY <1>1, <1>2, <1>5, SoundUpdate DEF Ready, NeedResync
      <4> QED BY <4>1, <4>2, <4>3 DEF Status, Ready, NeedResync
    <3>2. Ready(managers[f]) => \/ out.m.book = managers[f].book
                                \/ out.m.book.last_update_id > managers[f].book.last_update_id
      BY <1>1, <1>2, <1>5, SoundUpdate
    <3> QED BY <1>7, <2>2, <3>1, <3>2 DEF BookMoves
  <2> QED BY <2>1, <2>2
<1> QED BY <1>4, <1>9, <1>10, <1>11, <1>12, <1>13 DEF IInv

-----------------------------------------------------------------------------
(* The main thread.                                                        *)

\* The steps that leave every manager alone.
LEMMA MoveStep ==
    ASSUME IInv,
           \/ AwaitsStart \/ WaitSeesBuffer \/ WaitGivesUp
           \/ (\E v \in 0..MaxId : Fetches(v)) \/ FetchFails
           \/ EntersRound \/ CopiesBooks \/ Scans \/ Joins
    PROVE  IInv' /\ UNCHANGED managers /\ TurnsMove
<1>1. UNCHANGED <<managers, threadVars, synced, gap_found>>
  BY DEF AwaitsStart, WaitSeesBuffer, WaitGivesUp, Fetches, FetchFails, EntersRound,
         CopiesBooks, Scans, Joins
<1>2. task \in 1..Len(Tasks) /\ attempt \in 1..MaxSyncAttempts /\ Len(Tasks) \in Nat
      /\ Turns \in Int
  BY CurrentType, TasksType, TurnsType
<1>3. /\ TurnsMove
      /\ attempt' \in 1..MaxSyncAttempts
      /\ Turns' \in {Turns, Turns + 1}
      /\ pc' \in PcValues
  <2>1. CASE WaitGivesUp \/ FetchFails
    <3>1. NextAttempt /\ ~Scanning
      BY <2>1 DEF WaitGivesUp, FetchFails, Scanning
    <3> QED BY <3>1, NextAttemptType DEF PcValues
  <2>2. CASE AwaitsStart \/ WaitSeesBuffer \/ (\E v \in 0..MaxId : Fetches(v))
    BY <1>2, <2>2 DEF AwaitsStart, WaitSeesBuffer, Fetches, Scanning, Turns, TurnsMove, PcValues
  <2>3. CASE EntersRound \/ CopiesBooks \/ Scans \/ Joins
    BY <1>2, <2>3 DEF EntersRound, CopiesBooks, Scans, Joins, Scanning, Turns, TurnsMove, PcValues
  <2> QED BY <2>1, <2>2, <2>3
<1>4. SyncedSound'
  BY <1>1, <1>2, <1>3, SyncedStays
<1>5. TypeOK'
  <2>1. snapshot' \in 0..MaxId
    BY DEF IInv, TypeOK, AwaitsStart, WaitSeesBuffer, WaitGivesUp, Fetches, FetchFails,
           EntersRound, CopiesBooks, Scans, Joins
  <2>2. touched' \subseteq Feeds
    BY DEF IInv, TypeOK, AwaitsStart, WaitSeesBuffer, WaitGivesUp, Fetches, FetchFails,
           EntersRound, CopiesBooks, Scans, Joins
  <2>3. DOMAIN store' \subseteq Feeds /\ \A f \in DOMAIN store' : store'[f] \in Book
    <3>1. CASE CopiesBooks
      BY <3>1 DEF IInv, TypeOK, CopiesBooks, ReadyBooks, Manager
    <3>2. CASE Scans
      BY <3>2 DEF Scans
    <3>3. CASE UNCHANGED store
      BY <3>3 DEF IInv, TypeOK
    <3> QED BY <3>1, <3>2, <3>3
         DEF AwaitsStart, WaitSeesBuffer, WaitGivesUp, Fetches, FetchFails, EntersRound, Joins
  <2> QED BY <1>1, <1>3, <2>1, <2>2, <2>3 DEF IInv, TypeOK, threadVars, TurnsMove
<1>6. FeedsSound'
  BY <1>1 DEF IInv, FeedsSound, threadVars
<1>7. AttemptSound'
  <2>1. CASE WaitSeesBuffer
    BY <1>1, <2>1 DEF WaitSeesBuffer, AttemptSound, Current
  <2>2. CASE \E v \in 0..MaxId : Fetches(v)
    BY <1>1, <2>2 DEF Fetches, IInv, AttemptSound, Current
  <2>3. CASE WaitGivesUp \/ FetchFails
    <3>1. NextAttempt /\ ~Scanning
      BY <2>3 DEF WaitGivesUp, FetchFails, Scanning
    <3> QED BY <3>1, NextAttemptType DEF AttemptSound
  <2> QED BY <2>1, <2>2, <2>3
       DEF AwaitsStart, EntersRound, CopiesBooks, Scans, Joins, AttemptSound
<1>8. EndSound'
  <2>1. pc' = "stopped" => AllFinished /\ ws_exception = NoThread
    <3>1. CASE WaitGivesUp \/ FetchFails
      <4>1. NextAttempt /\ ~Scanning
        BY <3>1 DEF WaitGivesUp, FetchFails, Scanning
      <4> QED BY <4>1, NextAttemptType
    <3> QED BY <3>1 DEF AwaitsStart, WaitSeesBuffer, Fetches, EntersRound, CopiesBooks,
                        Scans, Joins
  <2> QED BY <1>1, <2>1 DEF IInv, EndSound, AllFinished, threadVars
<1> QED BY <1>1, <1>3, <1>4, <1>5, <1>6, <1>7, <1>8 DEF IInv

\* A new attempt at a book drops what the ones before it left.
LEMMA ResetStep ==
    ASSUME IInv, ResetsForAttempt
    PROVE  IInv' /\ (\A g \in Feeds : BookMoves(g)) /\ TurnsMove
<1>1. /\ pc = "reset" /\ pc' = "wait"
      /\ managers' = [managers EXCEPT ![Current] = IF attempt > 1 THEN Reset ELSE @]
      /\ UNCHANGED <<threadVars, task, attempt, snapshot, synced, store, touched, gap_found>>
  BY DEF ResetsForAttempt
<1>2. /\ Current \in Feeds /\ task \in 1..Len(Tasks) /\ Len(Tasks) \in Nat
      /\ managers \in [Feeds -> Manager]
  BY CurrentType, TasksType DEF IInv, TypeOK
<1>3. \A g \in Feeds : managers'[g] \in {managers[g], NewManager}
  BY <1>1, <1>2 DEF Reset
<1>4. TurnsMove /\ Turns' = Turns
  BY <1>1, <1>2 DEF TurnsMove, Turns, Scanning
<1>5. SyncedSound'
  BY <1>1, <1>4, TurnsType, SyncedStays
<1>6. TypeOK'
  <2>1. managers' \in [Feeds -> Manager]
    BY <1>1, <1>2, NewManagerType DEF Reset
  <2> QED BY <1>1, <2>1 DEF IInv, TypeOK, threadVars, PcValues
<1>7. FeedsSound'
  BY <1>1, <1>3, SoundNew DEF IInv, FeedsSound, threadVars
<1>8. AttemptSound' /\ EndSound'
  BY <1>1 DEF IInv, AttemptSound, EndSound, AllFinished, threadVars
<1>9. ASSUME NEW g \in Feeds
      PROVE  BookMoves(g)
  <2>1. ~Ready(NewManager)
    BY SoundNew DEF Ready
  <2> QED BY <1>3, <2>1 DEF BookMoves, Ready
<1> QED BY <1>4, <1>5, <1>6, <1>7, <1>8, <1>9 DEF IInv

\* The snapshot: the updates that wait for it end with the last one delivered, so that
\* a book it makes ready is current.
LEMMA SnapshotStep ==
    ASSUME IInv, AppliesSnapshot
    PROVE  IInv' /\ (\A g \in Feeds : BookMoves(g)) /\ TurnsMove
<1>1. PICK out :
         /\ out = ApplySnapshot(Current, managers[Current], DepthSnapshot(Current, snapshot))
         /\ ManagerBecomes(Current, out)
         /\ IF Ready(out.m)
            THEN NextTask /\ synced' = [synced EXCEPT ![Current[1]] = @ + 1]
            ELSE NextAttempt /\ UNCHANGED synced
  BY DEF AppliesSnapshot
<1>2. /\ pc = "apply" /\ snapshot' = 0 /\ UNCHANGED <<threadVars, store>>
      /\ ~Scanning /\ 0 \in 0..MaxId
      /\ managers' = [managers EXCEPT ![Current] = Unstated(out.m)]
      /\ touched' \in {touched, touched \cup {Current}}
      /\ gap_found' \in {gap_found, gap_found \cup {Current[1]}}
  BY <1>1, MaxIdAssumption DEF AppliesSnapshot, Scanning, ManagerBecomes
<1>3. /\ Current \in Feeds /\ Current[1] \in Exchanges /\ task \in 1..Len(Tasks)
      /\ managers \in [Feeds -> Manager] /\ snapshot \in 0..MaxId
      /\ ManagerSound(managers[Current])
      /\ CurrentAt(managers[Current], delivered[Current])
      /\ managers[Current].buffer # <<>>
      /\ ~Ready(managers[Current])
  <2>1. /\ Current \in Feeds /\ Current[1] \in Exchanges /\ task \in 1..Len(Tasks)
    BY CurrentType
  <2>2. ManagerSound(managers[Current]) /\ managers[Current].buffer # <<>>
    BY <1>2, <2>1 DEF IInv, FeedsSound, AttemptSound
  <2> QED BY <2>1, <2>2 DEF IInv, TypeOK, FeedsSound, ManagerSound, Ready
<1>4. ManagerSound(out.m) /\ CurrentAt(out.m, delivered[Current])
  BY <1>1, <1>3, SoundSnapshot
<1>5. /\ ManagerSound(managers'[Current])
      /\ CurrentAt(managers'[Current], delivered[Current])
      /\ Ready(managers'[Current]) <=> Ready(out.m)
  BY <1>2, <1>3, <1>4, SoundUnstated
<1>6. \A g \in Feeds \ {Current} : managers'[g] = managers[g]
  BY <1>2, <1>3
<1>7. /\ TurnsMove
      /\ attempt' \in 1..MaxSyncAttempts /\ pc' \in {"reset", "loop"}
      /\ Turns \in Int /\ Turns' \in {Turns, Turns + 1}
  <2>1. CASE Ready(out.m)
    BY <1>1, <1>2, <1>3, <2>1, NextTaskType, TurnsType, TasksType
  <2>2. CASE ~Ready(out.m)
    BY <1>1, <1>2, <2>2, NextAttemptType
  <2> QED BY <2>1, <2>2
<1>8. synced' \in [Exchanges -> 0..Len(SymbolList)] /\ SyncedSound'
  <2>1. CASE Ready(out.m)
    <3>1. /\ NextTask /\ synced' = [synced EXCEPT ![Current[1]] = @ + 1]
          /\ Turns = task - 1 /\ Turns' = task
      BY <1>1, <1>2, <2>1, NextTaskType
    <3>2. /\ Len(SymbolList) \in Nat /\ task \in 1..(2 * Len(SymbolList))
          /\ Current[1] = IF task <= Len(SymbolList) THEN "binance" ELSE "mexc"
      BY <1>3, TasksType DEF Current
    <3>3. /\ synced \in [Exchanges -> 0..Len(SymbolList)]
          /\ synced["binance"] <= task - 1
          /\ synced["mexc"] <= IF task - 1 <= Len(SymbolList) THEN 0
                               ELSE task - 1 - Len(SymbolList)
      BY <3>1 DEF IInv, TypeOK, SyncedSound
    <3>4. synced["binance"] \in 0..Len(SymbolList) /\ synced["mexc"] \in 0..Len(SymbolList)
      BY <3>3 DEF Exchanges
    <3>5. CASE task <= Len(SymbolList)
      <4>1. /\ synced' = [synced EXCEPT !["binance"] = @ + 1]
            /\ synced["binance"] + 1 \in 0..Len(SymbolList)
        BY <3>1, <3>2, <3>3, <3>4, <3>5
      <4>2. synced'["binance"] = synced["binance"] + 1 /\ synced'["mexc"] = synced["mexc"]
        BY <3>3, <4>1 DEF Exchanges
      <4>3. synced' \in [Exchanges -> 0..Len(SymbolList)]
        BY <3>3, <4>1 DEF Exchanges
      <4>4. synced'["binance"] <= task /\ synced'["mexc"] <= 0
        BY <3>2, <3>3, <3>4, <3>5, <4>2
      <4> QED BY <3>1, <3>5, <4>3, <4>4 DEF SyncedSound
    <3>6. CASE ~(task <= Len(SymbolList))
      <4>1. synced["mexc"] + 1 <= task - Len(SymbolList)
        BY <3>2, <3>3, <3>4, <3>6
      <4>2. /\ synced' = [synced EXCEPT !["mexc"] = @ + 1]
            /\ synced["mexc"] + 1 \in 0..Len(SymbolList)
        BY <3>1, <3>2, <3>4, <3>6, <4>1
      <4>3. synced'["mexc"] = synced["mexc"] + 1 /\ synced'["binance"] = synced["binance"]
        BY <3>3, <4>2 DEF Exchanges
      <4>4. synced' \in [Exchanges -> 0..Len(SymbolList)]
        BY <3>3, <4>2 DEF Exchanges
      <4>5. synced'["binance"] <= task
        BY <3>2, <3>3, <3>4, <4>3
      <4> QED BY <3>1, <3>6, <4>1, <4>3, <4>4, <4>5 DEF SyncedSound
    <3> QED BY <3>5, <3>6
  <2>2. CASE ~Ready(out.m)
    BY <1>1, <1>7, <2>2, SyncedStays DEF IInv, TypeOK
  <2> QED BY <2>1, <2>2
<1>9. TypeOK'
  <2>1. managers' \in [Feeds -> Manager]
    BY <1>2, <1>3, <1>5 DEF ManagerSound
  <2>2. touched' \subseteq Feeds /\ gap_found' \subseteq Exchanges
    BY <1>2, <1>3 DEF IInv, TypeOK
  <2> QED BY <1>2, <1>7, <1>8, <2>1, <2>2 DEF IInv, TypeOK, threadVars, TurnsMove, PcValues
<1>10. FeedsSound'
  <2> SUFFICES ASSUME NEW g \in Feeds
               PROVE  ManagerSound(managers'[g]) /\ CurrentAt(managers'[g], delivered[g])
    BY <1>2 DEF FeedsSound, threadVars
  <2>1. CASE g = Current
    BY <1>5, <2>1
  <2>2. CASE g # Current
    BY <1>6, <2>2 DEF IInv, FeedsSound
  <2> QED BY <2>1, <2>2
<1>11. AttemptSound' /\ EndSound'
  BY <1>2, <1>7 DEF IInv, AttemptSound, EndSound, AllFinished, threadVars
<1>12. ASSUME NEW g \in Feeds
       PROVE  BookMoves(g)
  <2>1. CASE g = Current
    BY <1>1, <1>2, <1>3, <1>5, <2>1 DEF BookMoves
  <2>2. CASE g # Current
    BY <1>6, <2>2 DEF BookMoves, Ready
  <2> QED BY <2>1, <2>2
<1> QED BY <1>7, <1>8, <1>9, <1>10, <1>11, <1>12 DEF IInv

-----------------------------------------------------------------------------
(* Every step.                                                             *)

LEMMA UnchangedStep ==
    ASSUME IInv, UNCHANGED vars
    PROVE  IInv' /\ UNCHANGED managers /\ TurnsMove
<1>1. UNCHANGED <<managers, threadVars, mainVars, touched, gap_found>>
  BY DEF vars
<1>2. TurnsMove /\ SyncedSound'
  BY <1>1, SameTurns
<1>3. TypeOK'
  BY <1>1 DEF IInv, TypeOK, threadVars, mainVars
<1>4. FeedsSound' /\ AttemptSound' /\ EndSound'
  BY <1>1 DEF IInv, FeedsSound, AttemptSound, Current, EndSound, AllFinished,
              threadVars, mainVars
<1> QED BY <1>1, <1>2, <1>3, <1>4 DEF IInv

LEMMA NextIInv ==
    ASSUME IInv, [Next]_vars
    PROVE  IInv' /\ (\A g \in Feeds : BookMoves(g)) /\ TurnsMove
<1>1. UNCHANGED managers => \A g \in Feeds : BookMoves(g)
  BY DEF BookMoves, Ready
<1>2. CASE \E t \in Threads : \E f \in Feeds, r \in UpdateRange : ReadsUpdate(t, f, r[1], r[2])
  BY <1>2, UpdateStep
<1>3. CASE \E t \in Threads :
              Starts(t) \/ Returns(t) \/ Throws(t) \/ Finishes(t) \/ ReadsOther(t)
  BY <1>1, <1>3, LifeStep
<1>4. CASE \/ AwaitsStart \/ WaitSeesBuffer \/ WaitGivesUp
           \/ (\E v \in 0..MaxId : Fetches(v)) \/ FetchFails
           \/ EntersRound \/ CopiesBooks \/ Scans \/ Joins
  BY <1>1, <1>4, MoveStep
<1>5. CASE ResetsForAttempt
  BY <1>5, ResetStep
<1>6. CASE AppliesSnapshot
  BY <1>6, SnapshotStep
<1>7. CASE UNCHANGED vars
  BY <1>1, <1>7, UnchangedStep
<1> QED BY <1>2, <1>3, <1>4, <1>5, <1>6, <1>7 DEF Next, MainStep, ThreadStep, Stays

LEMMA Inductive == Spec => []IInv
<1>1. IInv /\ [Next]_vars => IInv'
  BY NextIInv
<1> QED BY InitIInv, <1>1, PTL DEF Spec

\* The state of the scanner keeps its types; no more books are ever counted as
\* synchronized than there are symbols.
THEOREM TypeCorrect == Spec => []TypeOK
<1>1. IInv => TypeOK
  BY DEF IInv
<1> QED BY <1>1, Inductive, PTL

LEMMA CurrentIfSound ==
    ASSUME IInv
    PROVE  ReadyBookIsCurrent
BY DEF IInv, FeedsSound, CurrentAt, ReadyBookIsCurrent

\* A ready book misses no update its connection delivered, whatever earlier attempts
\* threw away and however the threads interleave.
THEOREM BooksCurrent == Spec => []ReadyBookIsCurrent
<1>1. IInv => ReadyBookIsCurrent
  BY CurrentIfSound
<1> QED BY <1>1, Inductive, PTL

\* The copies the scan works on were current when they were made.
THEOREM CopiesCurrent == Spec => ScannedBooksCurrent
<1>1. IInv /\ [Next]_vars =>
        [CopiesBooks =>
            \A f \in DOMAIN store' : store'[f].last_update_id >= delivered[f]]_vars
  <2> SUFFICES ASSUME IInv, CopiesBooks, NEW f \in DOMAIN store'
               PROVE  store'[f].last_update_id >= delivered[f]
    OBVIOUS
  <2>1. f \in Feeds /\ Ready(managers[f]) /\ store'[f] = managers[f].book
    BY DEF CopiesBooks, ReadyBooks
  <2> QED BY <2>1, CurrentIfSound DEF ReadyBookIsCurrent
<1> QED BY <1>1, Inductive, PTL DEF Spec, ScannedBooksCurrent

\* A scan that returns normally read its full number of messages on every connection.
THEOREM CleanStop == Spec => []CleanStopReadEverything
<1>1. IInv => CleanStopReadEverything
  <2> SUFFICES ASSUME IInv, pc = "stopped"
               PROVE  MaxMessages > 0 /\ \A t \in Threads : messages[t] = MaxMessages
    BY DEF CleanStopReadEverything
  <2>1. AllFinished /\ ws_exception = NoThread
    BY DEF IInv, EndSound
  <2>2. \A t \in Threads : MaxMessages > 0 /\ messages[t] = MaxMessages
    BY <2>1 DEF IInv, EndSound, AllFinished
  <2>3. Threads # {}
    <3>1. <<"binance", SymbolList[1]>> \in Feeds
      BY SymbolAssumption, FeedsAssumption DEF Exchanges
    <3> QED BY <3>1, GroupAssumption
  <2> QED BY <2>2, <2>3
<1> QED BY <1>1, Inductive, PTL

-----------------------------------------------------------------------------
(* The refinement, for a list without duplicates: the second turn of a     *)
(* symbol that is listed twice would start over with a book that is live.  *)

DistinctSymbols ==
    \A i, j \in DOMAIN SymbolList : SymbolList[i] = SymbolList[j] => i = j

LEMMA DistinctTasks ==
    ASSUME DistinctSymbols, NEW i \in DOMAIN Tasks, NEW j \in DOMAIN Tasks,
           Tasks[i] = Tasks[j]
    PROVE  i = j
<1>1. /\ Len(SymbolList) \in Nat /\ DOMAIN SymbolList = 1..Len(SymbolList)
      /\ i \in 1..(2 * Len(SymbolList)) /\ j \in 1..(2 * Len(SymbolList))
  BY SymbolAssumption, TasksType
<1>2. CASE i <= Len(SymbolList) /\ j <= Len(SymbolList)
  <2>1. SymbolList[i] = SymbolList[j]
    BY <1>1, <1>2 DEF Tasks
  <2> QED BY <1>1, <1>2, <2>1 DEF DistinctSymbols
<1>3. CASE ~(i <= Len(SymbolList)) /\ ~(j <= Len(SymbolList))
  <2>1. SymbolList[i - Len(SymbolList)] = SymbolList[j - Len(SymbolList)]
    BY <1>1, <1>3 DEF Tasks
  <2>2. i - Len(SymbolList) \in 1..Len(SymbolList) /\ j - Len(SymbolList) \in 1..Len(SymbolList)
    BY <1>1, <1>3
  <2>3. i - Len(SymbolList) = j - Len(SymbolList)
    BY <1>1, <2>1, <2>2 DEF DistinctSymbols
  <2> QED BY <1>1, <2>3
<1>4. CASE i <= Len(SymbolList) /\ ~(j <= Len(SymbolList))
  BY <1>1, <1>4 DEF Tasks
<1>5. CASE ~(i <= Len(SymbolList)) /\ j <= Len(SymbolList)
  BY <1>1, <1>5 DEF Tasks
<1> QED BY <1>2, <1>3, <1>4, <1>5

\* A ready book has had its turn.
TurnSound == \A f \in Feeds : Ready(managers[f]) => SyncOver(f)

LEMMA SyncStaysOver ==
    ASSUME IInv, TurnsMove, NEW f \in Feeds, SyncOver(f)
    PROVE  SyncOver(f)'
<1>1. task \in 1..Len(Tasks) /\ DOMAIN Tasks = 1..Len(Tasks) /\ Len(Tasks) \in Nat
  BY TasksType, CurrentType
<1>2. CASE Scanning
  BY <1>2 DEF SyncOver, TurnsMove
<1>3. CASE \A i \in DOMAIN Tasks : Tasks[i] = f => i < task
  <2>1. \A i \in DOMAIN Tasks : Tasks[i] = f => i < task'
    BY <1>1, <1>3 DEF TurnsMove
  <2> QED BY <2>1 DEF SyncOver
<1> QED BY <1>2, <1>3 DEF SyncOver

\* The turn of a book ends when it becomes ready.
LEMMA ReadyAtTurn ==
    ASSUME DistinctSymbols, IInv, ~Scanning, NextTask, NEW f \in Feeds, f = Current
    PROVE  ~SyncOver(f) /\ SyncOver(f)'
<1>1. task \in 1..Len(Tasks) /\ DOMAIN Tasks = 1..Len(Tasks) /\ Len(Tasks) \in Nat
  BY TasksType, CurrentType
<1>2. \A i \in DOMAIN Tasks : Tasks[i] = f => i = task
  BY <1>1, DistinctTasks DEF Current
<1>3. ~SyncOver(f)
  BY <1>1 DEF SyncOver, Current
<1>4. CASE task < Len(Tasks)
  <2>1. task' = task + 1
    BY <1>4 DEF NextTask
  <2>2. \A i \in DOMAIN Tasks : Tasks[i] = f => i < task'
    BY <1>1, <1>2, <2>1
  <2> QED BY <1>3, <2>2 DEF SyncOver
<1>5. CASE ~(task < Len(Tasks))
  <2>1. Scanning'
    BY <1>5 DEF NextTask, Scanning
  <2> QED BY <1>3, <2>1 DEF SyncOver
<1> QED BY <1>4, <1>5

LEMMA NextTurnSound ==
    ASSUME DistinctSymbols, IInv, TurnSound, [Next]_vars
    PROVE  TurnSound'
<1> SUFFICES ASSUME NEW f \in Feeds, Ready(managers'[f])
             PROVE  SyncOver(f)'
  BY DEF TurnSound
<1>1. BookMoves(f) /\ TurnsMove
  BY NextIInv
<1>2. CASE Ready(managers[f])
  BY <1>1, <1>2, SyncStaysOver DEF TurnSound
<1>3. CASE ~Ready(managers[f])
  <2>1. pc = "apply" /\ f = Current /\ NextTask
    BY <1>1, <1>3 DEF BookMoves
  <2>2. ~Scanning
    BY <2>1 DEF Scanning
  <2> QED BY <2>1, <2>2, ReadyAtTurn
<1> QED BY <1>2, <1>3

LEMMA InitView ==
    ASSUME Init, NEW f \in Feeds
    PROVE  View(f)!Init
<1>1. ~Ready(managers[f]) /\ ~Scanning
  BY SoundNew DEF Init, Ready, Scanning
<1>2. PICK i \in DOMAIN Tasks : Tasks[i] = f
  <2>1. PICK e \in Exchanges, k \in DOMAIN SymbolList : f = <<e, SymbolList[k]>>
    BY FeedsAssumption
  <2>2. k \in 1..Len(SymbolList) /\ Len(SymbolList) \in Nat
    BY <2>1, SymbolAssumption
  <2>3. CASE e = "binance"
    <3>1. k \in DOMAIN Tasks /\ k <= Len(SymbolList)
      BY <2>2, TasksType
    <3>2. Tasks[k] = f
      BY <2>1, <2>3, <3>1, TasksType DEF Tasks
    <3> QED BY <3>1, <3>2
  <2>4. CASE e = "mexc"
    <3>1. k + Len(SymbolList) \in DOMAIN Tasks /\ ~(k + Len(SymbolList) <= Len(SymbolList))
          /\ (k + Len(SymbolList)) - Len(SymbolList) = k
      BY <2>2, TasksType
    <3>2. Tasks[k + Len(SymbolList)] = f
      BY <2>1, <2>4, <3>1, TasksType DEF Tasks
    <3> QED BY <3>1, <3>2
  <2> QED BY <2>1, <2>3, <2>4 DEF Exchanges
<1>3. ~SyncOver(f)
  <2>1. ~(i < 1)
    BY <1>2, TasksType
  <2> QED BY <1>1, <1>2, <2>1 DEF Init, SyncOver
<1> QED BY <1>1, <1>3 DEF View!Init, View!NoSides

\* What a ready book shows is what the abstract view shows.
LEMMA ReadyShows ==
    ASSUME IInv', NEW f \in Feeds, Ready(managers'[f])
    PROVE  /\ View(f)!Shows(managers'[f].book.last_update_id)
           /\ managers'[f].book.last_update_id \in 0..MaxId
<1>1. PICK base \in 0..MaxId : /\ base <= managers'[f].book.last_update_id
                               /\ BookMatches(managers'[f].book, base)
  BY DEF IInv, FeedsSound, CurrentAt
<1>2. /\ managers'[f].book.bids \in Side /\ managers'[f].book.asks \in Side
      /\ managers'[f].book.last_update_id \in 0..MaxId
  BY <1>1 DEF IInv, TypeOK, Manager, Book, BookMatches
<1>3. base \in 0..(managers'[f].book.last_update_id)
  BY <1>1, <1>2, MaxIdAssumption
<1>4. SidesMatch([bids |-> managers'[f].book.bids, asks |-> managers'[f].book.asks],
                 managers'[f].book.last_update_id)
  BY <1>1, <1>2, <1>3 DEF SidesMatch, BookMatches
<1> QED BY <1>2, <1>4 DEF View!Shows

LEMMA StepView ==
    ASSUME DistinctSymbols, IInv, TurnSound, [Next]_vars, NEW f \in Feeds
    PROVE  [View(f)!Next]_(View(f)!vars)
<1>1. IInv' /\ BookMoves(f) /\ TurnsMove
  BY NextIInv
<1>2. CASE Ready(managers[f]) /\ Ready(managers'[f])
  <2>1. CASE managers'[f].book = managers[f].book
    BY <1>2, <2>1 DEF View!vars
  <2>2. CASE managers'[f].book.last_update_id > managers[f].book.last_update_id
    <3>1. View(f)!Advances
      BY <1>1, <1>2, <2>2, ReadyShows DEF View!Advances
    <3> QED BY <3>1 DEF View!Next
  <2> QED BY <1>1, <1>2, <2>1, <2>2 DEF BookMoves
<1>3. CASE ~Ready(managers[f]) /\ Ready(managers'[f])
  <2>1. pc = "apply" /\ f = Current /\ NextTask /\ ~Scanning
    BY <1>1, <1>3 DEF BookMoves, Scanning
  <2>2. ~SyncOver(f)
    BY <2>1, ReadyAtTurn
  <2>3. View(f)!GoesLive
    BY <1>1, <1>3, <2>2, ReadyShows DEF View!GoesLive
  <2> QED BY <2>3 DEF View!Next
<1>4. CASE Ready(managers[f]) /\ ~Ready(managers'[f])
  <2>1. SyncOver(f)'
    BY <1>1, <1>4, SyncStaysOver DEF TurnSound
  <2>2. View(f)!IsLost
    BY <1>4, <2>1 DEF View!IsLost, View!NoSides
  <2> QED BY <2>2 DEF View!Next
<1>5. CASE ~Ready(managers[f]) /\ ~Ready(managers'[f])
  <2>1. CASE SyncOver(f) <=> SyncOver(f)'
    BY <1>5, <2>1 DEF View!vars
  <2>2. CASE ~SyncOver(f) /\ SyncOver(f)'
    <3>1. View(f)!IsLost
      BY <1>5, <2>2 DEF View!IsLost, View!NoSides
    <3> QED BY <3>1 DEF View!Next
  <2> QED BY <1>1, <2>1, <2>2, SyncStaysOver
<1> QED BY <1>2, <1>3, <1>4, <1>5

\* Every feed of the scanner implements the abstract view, if no symbol is listed twice:
\* initial states map to initial states, and every step to a step of the view or to none.
THEOREM Refinement ==
    ASSUME DistinctSymbols
    PROVE  Spec => FeedsAreViews
<1>1. Init => TurnSound
  BY SoundNew DEF Init, TurnSound, Ready
<1>2. IInv /\ TurnSound /\ [Next]_vars => TurnSound'
  BY NextTurnSound
<1>3. Init => \A f \in Feeds : View(f)!Init
  BY InitView
<1>4. IInv /\ TurnSound /\ [Next]_vars =>
        [\A f \in Feeds : [View(f)!Next]_(View(f)!vars)]_vars
  BY StepView
<1> QED BY <1>1, <1>2, <1>3, <1>4, Inductive, PTL DEF Spec, FeedsAreViews
=============================================================================
