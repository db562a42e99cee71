--------------------------- MODULE LocalLive_proofs ---------------------------
(***************************************************************************)
(* The safety of the one-symbol local live modes, for every exchange,      *)
(* every connection, every size of the buffer and every snapshot: the book *)
(* is current when it is ready, its fate is the one reported, and it       *)
(* implements FeedView.                                                    *)
(***************************************************************************)
EXTENDS LocalLive, LocalBook_proofs

\* Where the main thread still has an attempt to make, and where it has none.
Syncing == pc \in {"start", "reset", "wait", "fetch", "apply"}
Over == pc = "join" \/ Done

LastBuffered == manager.buffer[Len(manager.buffer)]

\* While an attempt is under way there is no book, and between the end of its wait and
\* the snapshot the buffer is not empty.
AttemptSound ==
    /\ Syncing => manager.status = "WaitingForSnapshot"
    /\ pc \in {"fetch", "apply"} => manager.buffer # <<>>

\* What a manager holds by its status; what the buffer ends with is what was delivered
\* last, whatever earlier attempts threw away.
BookSound ==
    /\ Len(manager.buffer) <= MaxBufferedUpdates
    /\ manager.book.initialized <=> manager.status # "WaitingForSnapshot"
    /\ manager.status # "WaitingForSnapshot" => manager.buffer = <<>>
    /\ manager.buffer # <<>> => LastBuffered.final_update_id = delivered
    /\ Ready(manager) =>
           \E base \in 0..MaxId : /\ base <= manager.book.last_update_id
                                  /\ BookMatches(manager.book, base)

\* The counters of a limited run never exceed the messages read.
CountsSound ==
    /\ counts.parsed <= counts.raw
    /\ counts.buffered <= counts.raw
    /\ counts.applied <= counts.raw

\* A thread that left without an exception had read its full number of messages.
EndSound ==
    /\ thread \in {"ended", "finished"} /\ ~ws_exception =>
           MaxMessages > 0 /\ counts.raw = MaxMessages
    /\ pc = "stopped" => thread = "finished" /\ ~ws_exception

\* The inductive invariant.
IInv ==
    /\ TypeOK
    /\ AttemptSound
    /\ BookSound
    /\ ReadyBookIsCurrent
    /\ FateIsReported
    /\ CountsSound
    /\ EndSound

-----------------------------------------------------------------------------
LEMMA InitIInv == Init => IInv
<1> SUFFICES ASSUME Init PROVE IInv
  OBVIOUS
<1>1. /\ manager \in Manager /\ manager.status = "WaitingForSnapshot"
      /\ manager.buffer = <<>> /\ ~manager.book.initialized
  BY NewManagerFields DEF Init
<1>2. TypeOK
  <2>1. 0 \in 0..MaxMessages /\ 0 \in 0..MaxId /\ 1 \in 1..MaxSyncAttempts
    BY MaxIdAssumption, MaxMessagesAssumption DEF MaxSyncAttempts
  <2> QED BY <1>1, <2>1 DEF Init, TypeOK
<1>3. AttemptSound /\ BookSound /\ ReadyBookIsCurrent
  BY <1>1, BufferAssumption DEF Init, AttemptSound, BookSound, ReadyBookIsCurrent, Ready
<1>4. FateIsReported /\ CountsSound /\ EndSound
  BY <1>1 DEF Init, FateIsReported, CountsSound, EndSound, NeedResync
<1> QED BY <1>2, <1>3, <1>4 DEF IInv

-----------------------------------------------------------------------------
(* The WebSocket thread.                                                   *)

\* One more message that is counted with some result.
LEMMA CountedType ==
    ASSUME IInv, Reads, NEW r, NEW c,
           c \in {Counted(r), [Counted(r) EXCEPT !.parsed = counts.parsed]}
    PROVE  /\ c \in [raw : 0..MaxMessages, parsed : 0..MaxMessages,
                     buffered : 0..MaxMessages, applied : 0..MaxMessages]
           /\ c.parsed <= c.raw /\ c.buffered <= c.raw /\ c.applied <= c.raw
<1>1. /\ counts \in [raw : 0..MaxMessages, parsed : 0..MaxMessages,
                     buffered : 0..MaxMessages, applied : 0..MaxMessages]
      /\ counts.parsed <= counts.raw /\ counts.buffered <= counts.raw
      /\ counts.applied <= counts.raw
      /\ MaxMessages = 0 \/ counts.raw < MaxMessages
  BY DEF IInv, TypeOK, CountsSound, Reads
<1>2. CASE MaxMessages = 0
  BY <1>1, <1>2 DEF Counted
<1>3. CASE MaxMessages # 0
  BY <1>1, <1>3, MaxMessagesAssumption DEF Counted
<1> QED BY <1>2, <1>3

\* A depth update: the invariant, and what becomes of the book.
LEMMA UpdateStep ==
    ASSUME IInv, NEW r \in UpdateRange, ReadsUpdate(r[1], r[2])
    PROVE  /\ IInv'
           /\ UNCHANGED pc
           /\ ~Ready(manager) => ~Ready(manager')
           /\ Ready(manager) /\ Ready(manager') =>
                  \/ manager'.book = manager.book
                  \/ manager'.book.last_update_id > manager.book.last_update_id
<1> DEFINE u == DepthUpdate(Feed, r[1], r[2])
<1>1. /\ u \in Update /\ u.feed = Feed
      /\ u.first_update_id = r[1] /\ u.final_update_id = r[2]
      /\ r[1] \in 1..MaxId /\ r[2] \in 1..MaxId /\ r[1] <= r[2]
  BY DepthUpdateIsUpdate, FeedAssumption
<1> HIDE DEF u
<1>2. PICK out : out = OnUpdate(Feed, manager, u)
  OBVIOUS
<1>3. /\ Reads
      /\ r[1] > delivered /\ delivered' = r[2]
      /\ manager' = Unstated(out.m)
      /\ counts' = Counted(out.result)
      /\ gap_logged' = (gap_logged \/ out.result = "GapDetected")
      /\ thread = "reading"
      /\ UNCHANGED <<thread, ws_exception, pc, attempt, snapshot, synced>>
  BY <1>2 DEF ReadsUpdate, Reads, u, mainVars
<1>4. /\ manager \in Manager /\ manager.status \in Status
      /\ Len(manager.buffer) <= MaxBufferedUpdates
      /\ manager.book.initialized <=> manager.status # "WaitingForSnapshot"
      /\ Ready(manager) => manager.book.initialized
      /\ delivered \in Nat /\ manager.book.last_update_id \in Nat /\ manager.book \in Book
      /\ gap_logged \in BOOLEAN
  BY MaxIdAssumption DEF IInv, TypeOK, BookSound, Manager, Ready, Book
<1>5. /\ manager' \in Manager
      /\ manager'.book = out.m.book /\ manager'.buffer = out.m.buffer
      /\ manager'.status = out.m.status
      /\ Len(manager'.buffer) <= MaxBufferedUpdates
  BY <1>1, <1>2, <1>3, <1>4, OnUpdateType, UnstatedType
<1>6. TypeOK' /\ CountsSound'
  <2>1. /\ counts' \in [raw : 0..MaxMessages, parsed : 0..MaxMessages,
                        buffered : 0..MaxMessages, applied : 0..MaxMessages]
        /\ CountsSound'
    BY <1>3, CountedType DEF CountsSound
  <2>2. delivered' \in 0..MaxId /\ gap_logged' \in BOOLEAN
    BY <1>1, <1>3, <1>4, MaxIdAssumption
  <2> QED BY <1>3, <1>5, <2>1, <2>2 DEF IInv, TypeOK
<1>7. EndSound'
  BY <1>3 DEF IInv, EndSound
<1>8. CASE manager.status = "WaitingForSnapshot"
  <2>1. out.m = BufferUpdate(manager, u) /\ out.result = "Buffered"
    BY <1>1, <1>2, <1>4, <1>8, OnOwnUpdate
  <2>2. /\ manager'.book = manager.book
        /\ manager'.status = "WaitingForSnapshot"
        /\ MaxBufferedUpdates > 0 => manager'.buffer # <<>> /\ LastBuffered' = u
        /\ MaxBufferedUpdates = 0 => manager'.buffer = <<>>
    BY <1>1, <1>4, <1>5, <1>8, <2>1, BufferUpdateType DEF LastBuffered
  <2>3. manager.buffer # <<>> => MaxBufferedUpdates > 0
    BY <1>4, BufferAssumption DEF Manager
  <2>4. AttemptSound'
    BY <1>3, <2>2, <2>3 DEF IInv, AttemptSound, Syncing
  <2>5. BookSound' /\ ReadyBookIsCurrent'
    BY <1>1, <1>3, <1>4, <1>5, <1>8, <2>2, BufferAssumption
       DEF BookSound, ReadyBookIsCurrent, Ready, LastBuffered
  <2>6. FateIsReported'
    BY <1>3, <1>8, <2>1, <2>2 DEF IInv, FateIsReported, NeedResync
  <2> QED BY <1>3, <1>6, <1>7, <1>8, <2>2, <2>4, <2>5, <2>6 DEF IInv, Ready
<1>9. CASE NeedResync(manager)
  <2>1. out.m = manager /\ out.result = "GapDetected"
    BY <1>1, <1>2, <1>4, <1>9, OnOwnUpdate
  <2>2. /\ manager'.book = manager.book /\ manager'.status = "NeedResync"
        /\ manager'.buffer = manager.buffer /\ manager.buffer = <<>>
    BY <1>5, <1>9, <2>1 DEF IInv, BookSound, NeedResync
  <2>3. AttemptSound'
    BY <1>3, <1>9, <2>2 DEF IInv, AttemptSound, NeedResync, Syncing
  <2>4. BookSound' /\ ReadyBookIsCurrent'
    BY <1>4, <1>5, <1>9, <2>2 DEF BookSound, ReadyBookIsCurrent, Ready, NeedResync
  <2>5. FateIsReported'
    BY <1>3, <1>9, <2>1, <2>2 DEF IInv, FateIsReported, NeedResync
  <2> QED BY <1>3, <1>6, <1>7, <1>9, <2>2, <2>3, <2>4, <2>5 DEF IInv, Ready, NeedResync
<1>10. CASE Ready(manager)
  <2>1. /\ out.result \in {"Applied", "IgnoredStale", "GapDetected"}
        /\ out.result = "GapDetected" <=> NeedResync(out.m)
        /\ Ready(out.m) => out.m.book.last_update_id >= u.final_update_id
    BY <1>1, <1>2, <1>4, <1>10, OnOwnUpdate
  <2>2. /\ manager'.status \in {"Ready", "NeedResync"}
        /\ manager'.buffer = manager.buffer
        /\ manager'.book \in {manager.book, BookApplyUpdate(manager.book, u)}
        /\ manager'.book.initialized
        /\ \/ manager'.book = manager.book
           \/ /\ manager'.status = "Ready"
              /\ manager'.book.last_update_id > manager.book.last_update_id
    BY <1>1, <1>2, <1>4, <1>5, <1>10, OnUpdateType
  <2>3. manager.buffer = <<>> /\ ~Syncing
    BY <1>10 DEF IInv, BookSound, AttemptSound, Ready
  <2>4. AttemptSound'
    BY <1>3, <2>3 DEF IInv, AttemptSound, Syncing
  <2>5. ReadyBookIsCurrent'
    BY <1>1, <1>3, <1>5, <2>1 DEF ReadyBookIsCurrent, Ready
  <2>6. BookSound'
    <3>1. PICK base \in 0..MaxId : /\ base <= manager.book.last_update_id
                                   /\ BookMatches(manager.book, base)
      BY <1>10 DEF IInv, BookSound
    <3>2. BookMatches(BookApplyUpdate(manager.book, u), base)
      BY <1>1, <1>4, <3>1, UpdateKeepsMatch
    <3>3. BookMatches(manager'.book, base)
      BY <2>2, <3>1, <3>2
    <3>4. base <= manager'.book.last_update_id
      <4>1. manager'.book.last_update_id \in Nat /\ base \in Nat
        BY <1>5, MaxIdAssumption DEF Manager, Book
      <4> QED BY <1>4, <2>2, <3>1, <4>1
    <3> QED BY <1>5, <2>2, <2>3, <3>3, <3>4 DEF BookSound
  <2>7. FateIsReported'
    BY <1>3, <1>4, <1>5, <1>10, <2>1, <2>2 DEF IInv, FateIsReported, NeedResync, Ready
  <2> QED BY <1>3, <1>6, <1>7, <1>10, <2>2, <2>4, <2>5, <2>6, <2>7 DEF IInv
<1> QED BY <1>4, <1>8, <1>9, <1>10 DEF Status, NeedResync, Ready

\* A message that leaves the book alone.
LEMMA OtherStep ==
    ASSUME IInv, ReadsOther
    PROVE  IInv' /\ UNCHANGED <<manager, pc>>
<1>1. /\ Reads
      /\ thread = "reading"
      /\ counts' \in {Counted("NotForSymbol"),
                      [Counted("NotForSymbol") EXCEPT !.parsed = counts.parsed]}
      /\ UNCHANGED <<manager, gap_logged, delivered, thread, ws_exception,
                     pc, attempt, snapshot, synced>>
  BY DEF ReadsOther, Reads, mainVars
<1>2. /\ counts' \in [raw : 0..MaxMessages, parsed : 0..MaxMessages,
                      buffered : 0..MaxMessages, applied : 0..MaxMessages]
      /\ CountsSound'
  BY <1>1, CountedType DEF CountsSound
<1>3. TypeOK'
  BY <1>1, <1>2 DEF IInv, TypeOK
<1>4. EndSound'
  BY <1>1 DEF IInv, EndSound
<1>5. AttemptSound' /\ BookSound' /\ ReadyBookIsCurrent' /\ FateIsReported'
  BY <1>1 DEF IInv, AttemptSound, Syncing, BookSound, LastBuffered, ReadyBookIsCurrent,
              FateIsReported, Ready, NeedResync
<1> QED BY <1>1, <1>2, <1>3, <1>4, <1>5 DEF IInv

\* The thread starts, leaves its read with or without an exception, and finishes.
LEMMA LifeStep ==
    ASSUME IInv, Starts \/ Returns \/ Throws \/ Finishes
    PROVE  IInv' /\ UNCHANGED <<manager, pc>>
<1>1. UNCHANGED <<manager, gap_logged, counts, delivered, pc, attempt, snapshot, synced>>
  BY DEF Starts, Returns, Throws, Finishes, mainVars
<1>2. AttemptSound' /\ BookSound' /\ ReadyBookIsCurrent' /\ FateIsReported' /\ CountsSound'
  BY <1>1 DEF IInv, AttemptSound, Syncing, BookSound, LastBuffered, ReadyBookIsCurrent,
              FateIsReported, CountsSound, Ready, NeedResync
<1>3. TypeOK'
  BY <1>1 DEF IInv, TypeOK, Starts, Returns, Throws, Finishes
<1>4. EndSound'
  BY <1>1 DEF IInv, EndSound, Starts, Returns, Throws, Finishes
<1> QED BY <1>1, <1>2, <1>3, <1>4 DEF IInv

-----------------------------------------------------------------------------
(* The main thread.                                                        *)

LEMMA NextAttemptType ==
    ASSUME IInv, NextAttempt
    PROVE  attempt' \in 1..MaxSyncAttempts /\ pc' \in {"reset", "join"}
BY DEF IInv, TypeOK, NextAttempt, MaxSyncAttempts

\* The steps that neither touch the book nor report anything of it.
LEMMA MoveStep ==
    ASSUME IInv,
           \/ AwaitsStart \/ WaitSeesBuffer \/ WaitGivesUp
           \/ (\E v \in 0..MaxId : Fetches(v)) \/ FetchFails \/ Joins
    PROVE  IInv' /\ UNCHANGED manager /\ (Over => Over')
<1>1. UNCHANGED <<manager, gap_logged, threadVars, synced>>
  BY DEF AwaitsStart, WaitSeesBuffer, WaitGivesUp, Fetches, FetchFails, Joins
<1>2. /\ attempt' \in 1..MaxSyncAttempts
      /\ snapshot' \in 0..MaxId
      /\ pc' \in {"reset", "wait", "fetch", "apply", "join", "stopped", "threw", "terminated"}
  BY NextAttemptType
     DEF IInv, TypeOK, AwaitsStart, WaitSeesBuffer, WaitGivesUp, Fetches, FetchFails, Joins
<1>3. TypeOK'
  BY <1>1, <1>2 DEF IInv, TypeOK, threadVars
<1>4. /\ pc' \in {"reset", "wait", "fetch", "apply"} => Syncing
      /\ pc' = "fetch" => manager.buffer # <<>>
      /\ pc' = "apply" => pc = "fetch"
      /\ Over => Over'
      /\ pc' = "stopped" => thread = "finished" /\ ~ws_exception
  BY NextAttemptType
     DEF AwaitsStart, WaitSeesBuffer, WaitGivesUp, Fetches, FetchFails, Joins, Syncing,
         Over, Done, ws_finished
<1>5. AttemptSound'
  BY <1>1, <1>2, <1>4 DEF IInv, AttemptSound, Syncing
<1>6. BookSound' /\ ReadyBookIsCurrent' /\ FateIsReported' /\ CountsSound' /\ EndSound'
  BY <1>1, <1>4 DEF IInv, BookSound, LastBuffered, ReadyBookIsCurrent, FateIsReported,
                    CountsSound, EndSound, Ready, NeedResync, threadVars
<1> QED BY <1>1, <1>3, <1>4, <1>5, <1>6 DEF IInv

\* The book is as the constructor left it: nothing of an attempt is left behind.
LEMMA FreshBook ==
    ASSUME IInv, Syncing, manager' = NewManager, gap_logged' = FALSE, UNCHANGED threadVars,
           pc' \in {"reset", "wait", "join"}, UNCHANGED synced,
           attempt' \in 1..MaxSyncAttempts, snapshot' \in 0..MaxId
    PROVE  IInv' /\ ~Ready(manager')
<1>1. /\ manager' \in Manager /\ manager'.status = "WaitingForSnapshot"
      /\ manager'.buffer = <<>> /\ ~manager'.book.initialized
  BY NewManagerFields
<1>2. ~synced
  BY DEF IInv, AttemptSound, BookSound, FateIsReported
<1>3. TypeOK'
  BY <1>1 DEF IInv, TypeOK, threadVars
<1>4. AttemptSound' /\ BookSound' /\ ReadyBookIsCurrent' /\ FateIsReported'
  BY <1>1, <1>2, BufferAssumption
     DEF AttemptSound, BookSound, ReadyBookIsCurrent, FateIsReported, Ready, NeedResync, Syncing
<1>5. CountsSound' /\ EndSound'
  BY DEF IInv, CountsSound, EndSound, threadVars
<1> QED BY <1>1, <1>3, <1>4, <1>5 DEF IInv, Ready

LEMMA ResetStep ==
    ASSUME IInv, ResetsForAttempt
    PROVE  IInv' /\ ~Ready(manager) /\ ~Ready(manager') /\ ~Over
<1>1. /\ pc = "reset" /\ pc' = "wait" /\ UNCHANGED <<threadVars, attempt, snapshot, synced>>
      /\ Syncing /\ ~Over
      /\ attempt' \in 1..MaxSyncAttempts /\ snapshot' \in 0..MaxId
  BY DEF ResetsForAttempt, Syncing, Over, Done, IInv, TypeOK
<1>2. manager.status = "WaitingForSnapshot" /\ ~Ready(manager)
  BY <1>1 DEF IInv, AttemptSound, Ready
<1>3. CASE manager' = NewManager /\ gap_logged' = FALSE
  BY <1>1, <1>2, <1>3, FreshBook
<1>4. CASE UNCHANGED <<manager, gap_logged>>
  <2>1. TypeOK'
    BY <1>1, <1>4 DEF IInv, TypeOK, threadVars
  <2>2. AttemptSound' /\ BookSound' /\ ReadyBookIsCurrent' /\ FateIsReported'
    BY <1>1, <1>2, <1>4 DEF IInv, AttemptSound, BookSound, LastBuffered, ReadyBookIsCurrent,
                            FateIsReported, Ready, NeedResync, threadVars
  <2>3. CountsSound' /\ EndSound'
    BY <1>1 DEF IInv, CountsSound, EndSound, threadVars
  <2> QED BY <1>1, <1>2, <1>4, <2>1, <2>2, <2>3 DEF IInv, Ready
<1> QED BY <1>3, <1>4 DEF ResetsForAttempt, Reset

\* The snapshot: the updates that wait for it end with the last one delivered, so that
\* a book it makes ready is current.
LEMMA SnapshotStep ==
    ASSUME IInv, AppliesSnapshot
    PROVE  IInv' /\ ~Ready(manager) /\ ~Over /\ (Ready(manager') => Over')
<1>1. PICK out : /\ out = ApplySnapshot(Feed, manager, DepthSnapshot(Feed, snapshot))
                 /\ IF out.result = "SnapshotApplied"
                    THEN /\ manager' = Unstated(out.m)
                         /\ synced' = TRUE
                         /\ pc' = "join"
                         /\ UNCHANGED <<attempt, gap_logged>>
                    ELSE /\ manager' = Reset
                         /\ gap_logged' = FALSE
                         /\ NextAttempt
                         /\ UNCHANGED synced
  BY DEF AppliesSnapshot
<1>2. /\ pc = "apply" /\ snapshot' = 0 /\ UNCHANGED threadVars
      /\ Syncing /\ ~Over /\ 0 \in 0..MaxId
  BY MaxIdAssumption DEF AppliesSnapshot, Syncing, Over, Done
<1>3. /\ manager \in Manager /\ snapshot \in 0..MaxId /\ manager.buffer # <<>>
      /\ manager.status = "WaitingForSnapshot" /\ ~Ready(manager)
      /\ LastBuffered.final_update_id = delivered
      /\ ~gap_logged
  BY <1>2 DEF IInv, TypeOK, AttemptSound, BookSound, FateIsReported, NeedResync, Ready
<1>4. /\ out.m \in Manager /\ out.m.buffer = <<>> /\ out.m.book.initialized
      /\ out.m.status \in {"Ready", "NeedResync"}
      /\ BookMatches(out.m.book, snapshot)
      /\ out.m.book.last_update_id >= snapshot
      /\ out.result = "SnapshotApplied" <=> out.m.status = "Ready"
      /\ out.m.status = "Ready" =>
             out.m.book.last_update_id >= manager.buffer[Len(manager.buffer)].final_update_id
  BY <1>1, <1>3, ApplySnapshotType
<1>5. CASE out.result = "SnapshotApplied"
  <2>1. /\ manager' \in Manager /\ manager'.book = out.m.book /\ manager'.buffer = <<>>
        /\ manager'.status = "Ready" /\ Ready(manager') /\ ~NeedResync(manager')
    BY <1>1, <1>4, <1>5, UnstatedType DEF Ready, NeedResync
  <2>2. /\ synced' = TRUE /\ pc' = "join" /\ attempt' = attempt /\ gap_logged' = gap_logged
    BY <1>1, <1>5
  <2>3. TypeOK'
    BY <1>2, <2>1, <2>2 DEF IInv, TypeOK, threadVars
  <2>4. AttemptSound' /\ Over'
    BY <2>2 DEF AttemptSound, Syncing, Over
  <2>5. BookSound'
    BY <1>3, <1>4, <2>1, BufferAssumption DEF BookSound
  <2>6. ReadyBookIsCurrent'
    <3>1. out.m.book.last_update_id >= delivered
      BY <1>3, <1>4, <1>5 DEF LastBuffered
    <3> QED BY <1>2, <2>1, <3>1 DEF ReadyBookIsCurrent, threadVars
  <2>7. FateIsReported'
    BY <1>3, <1>4, <2>1, <2>2 DEF FateIsReported
  <2>8. CountsSound' /\ EndSound'
    BY <1>2, <2>2 DEF IInv, CountsSound, EndSound, threadVars
  <2> QED BY <1>2, <1>3, <2>3, <2>4, <2>5, <2>6, <2>7, <2>8 DEF IInv
<1>6. CASE out.result # "SnapshotApplied"
  <2>1. manager' = NewManager /\ gap_logged' = FALSE /\ NextAttempt /\ UNCHANGED synced
    BY <1>1, <1>6 DEF Reset
  <2>2. attempt' \in 1..MaxSyncAttempts /\ pc' \in {"reset", "wait", "join"}
    BY <2>1, NextAttemptType
  <2> QED BY <1>2, <1>3, <2>1, <2>2, FreshBook
<1> QED BY <1>5, <1>6

-----------------------------------------------------------------------------
(* Every step.                                                             *)

LEMMA UnchangedStep ==
    ASSUME IInv, UNCHANGED vars
    PROVE  IInv' /\ UNCHANGED <<manager, pc>>
BY DEF vars, threadVars, mainVars, IInv, TypeOK, AttemptSound, Syncing, BookSound, LastBuffered,
       ReadyBookIsCurrent, FateIsReported, CountsSound, EndSound, Ready, NeedResync

\* What a step may do to the book: a ready book stays, moves on, or is lost; one that is
\* not ready becomes ready at the end of the attempts.
BookMoves ==
    /\ Over => Over'
    /\ Ready(manager) /\ Ready(manager') =>
           \/ manager'.book = manager.book
           \/ manager'.book.last_update_id > manager.book.last_update_id
    /\ ~Ready(manager) /\ Ready(manager') => ~Over

LEMMA NextIInv ==
    ASSUME IInv, [Next]_vars
    PROVE  IInv' /\ BookMoves
<1>1. CASE \E r \in UpdateRange : ReadsUpdate(r[1], r[2])
  BY <1>1, UpdateStep DEF BookMoves, Over, Done
<1>2. CASE ReadsOther
  BY <1>2, OtherStep DEF BookMoves, Over, Done, Ready
<1>3. CASE Starts \/ Returns \/ Throws \/ Finishes
  BY <1>3, LifeStep DEF BookMoves, Over, Done, Ready
<1>4. CASE \/ AwaitsStart \/ WaitSeesBuffer \/ WaitGivesUp
           \/ (\E v \in 0..MaxId : Fetches(v)) \/ FetchFails \/ Joins
  BY <1>4, MoveStep DEF BookMoves, Ready
<1>5. CASE ResetsForAttempt
  BY <1>5, ResetStep DEF BookMoves
<1>6. CASE AppliesSnapshot
  BY <1>6, SnapshotStep DEF BookMoves
<1>7. CASE UNCHANGED vars
  BY <1>7, UnchangedStep DEF BookMoves, Over, Done, Ready
<1> QED BY <1>1, <1>2, <1>3, <1>4, <1>5, <1>6, <1>7
     DEF Next, MainStep, ThreadStep, Stays

LEMMA Inductive == Spec => []IInv
<1>1. IInv /\ [Next]_vars => IInv'
  BY NextIInv
<1> QED BY InitIInv, <1>1, PTL DEF Spec

\* The state of the mode keeps its types.
THEOREM TypeCorrect == Spec => []TypeOK
<1>1. IInv => TypeOK
  BY DEF IInv
<1> QED BY <1>1, Inductive, PTL

\* A ready book misses no update the connection delivered.
THEOREM BookCurrent == Spec => []ReadyBookIsCurrent
<1>1. IInv => ReadyBookIsCurrent
  BY DEF IInv
<1> QED BY <1>1, Inductive, PTL

\* The log and the summary tell the fate of the book and of the connection.
THEOREM SummaryRight == Spec => []SummaryIsRight
<1>1. IInv => SummaryIsRight
  BY DEF IInv, SummaryIsRight, EndSound, CleanStopReadEverything
<1> QED BY <1>1, Inductive, PTL

-----------------------------------------------------------------------------
(* The refinement.                                                         *)

LEMMA InitView ==
    ASSUME Init
    PROVE  View!Init
<1>1. ~Ready(manager) /\ pc = "start"
  BY NewManagerFields DEF Init, Ready
<1> QED BY <1>1 DEF View!Init, View!NoSides, Done

\* What a ready book shows is what the abstract view shows.
LEMMA ReadyShows ==
    ASSUME IInv', Ready(manager')
    PROVE  View!Shows(manager'.book.last_update_id) /\ manager'.book.last_update_id \in 0..MaxId
<1>1. PICK base \in 0..MaxId : /\ base <= manager'.book.last_update_id
                               /\ BookMatches(manager'.book, base)
  BY DEF IInv, BookSound
<1>2. /\ manager'.book.bids \in Side /\ manager'.book.asks \in Side
      /\ manager'.book.last_update_id \in 0..MaxId
  BY <1>1 DEF IInv, TypeOK, Manager, Book, BookMatches
<1>3. base \in 0..(manager'.book.last_update_id)
  BY <1>1, <1>2, MaxIdAssumption
<1>4. SidesMatch([bids |-> manager'.book.bids, asks |-> manager'.book.asks],
                 manager'.book.last_update_id)
  BY <1>1, <1>2, <1>3 DEF SidesMatch, BookMatches
<1> QED BY <1>2, <1>4 DEF View!Shows

LEMMA StepView ==
    ASSUME IInv, [Next]_vars
    PROVE  [View!Next]_(View!vars)
<1>1. IInv' /\ BookMoves
  BY NextIInv
<1>2. CASE Ready(manager) /\ Ready(manager')
  <2>1. CASE manager'.book = manager.book
    BY <1>2, <2>1 DEF View!vars
  <2>2. CASE manager'.book.last_update_id > manager.book.last_update_id
    <3>1. View!Advances
      BY <1>1, <1>2, <2>2, ReadyShows DEF View!Advances
    <3> QED BY <3>1 DEF View!Next
  <2> QED BY <1>1, <1>2, <2>1, <2>2 DEF BookMoves
<1>3. CASE ~Ready(manager) /\ Ready(manager')
  <2>1. ~Over
    BY <1>1, <1>3 DEF BookMoves
  <2>2. View!GoesLive
    BY <1>1, <1>3, <2>1, ReadyShows DEF View!GoesLive, Over
  <2> QED BY <2>2 DEF View!Next
<1>4. CASE Ready(manager) /\ ~Ready(manager')
  <2>1. Over
    BY <1>4 DEF IInv, AttemptSound, TypeOK, Syncing, Over, Done, Ready
  <2>2. Over'
    BY <1>1, <2>1 DEF BookMoves
  <2>3. View!IsLost
    BY <1>4, <2>2 DEF View!IsLost, View!NoSides, Over
  <2> QED BY <2>3 DEF View!Next
<1>5. CASE ~Ready(manager) /\ ~Ready(manager')
  <2>1. CASE Over <=> Over'
    BY <1>5, <2>1 DEF View!vars, Over
  <2>2. CASE ~Over /\ Over'
    <3>1. View!IsLost
      BY <1>5, <2>2 DEF View!IsLost, View!NoSides, Over
    <3> QED BY <3>1 DEF View!Next
  <2> QED BY <1>1, <2>1, <2>2 DEF BookMoves
<1> QED BY <1>2, <1>3, <1>4, <1>5

\* The mode implements the abstract view: initial states map to initial states, and
\* every step to a step of the view or to none.
THEOREM Refinement == Spec => FeedIsView
<1>1. Init => View!Init
  BY InitView
<1>2. IInv /\ [Next]_vars => [View!Next]_(View!vars)
  BY StepView
<1> QED BY <1>1, <1>2, Inductive, PTL DEF Spec, FeedIsView
=============================================================================
