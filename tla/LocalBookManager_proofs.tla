----------------------- MODULE LocalBookManager_proofs -----------------------
(***************************************************************************)
(* The safety of the local book manager, for every exchange, every feed,   *)
(* every client and every size of the buffer.                              *)
(***************************************************************************)
EXTENDS LocalBookManager, LocalBook_proofs

\* The updates a buffer may hold.
OwnUpdate == {u \in Update : u.feed = Feed}

\* A manager with an empty buffer, taken to be ready.
AsReady(m) == [ClearBuffer(m) EXCEPT !.status = "Ready"]

-----------------------------------------------------------------------------
(* Buffering is transparent.                                               *)

LEMMA ClearBufferFields ==
    ASSUME NEW m \in Manager
    PROVE  /\ ClearBuffer(m) = [book |-> m.book, buffer |-> <<>>, status |-> m.status,
                                stats |-> [m.stats EXCEPT !.buffered_updates = 0]]
           /\ AsReady(m) = [book |-> m.book, buffer |-> <<>>, status |-> "Ready",
                            stats |-> [m.stats EXCEPT !.buffered_updates = 0]]
           /\ AsReady(m) \in Manager
<1>1. ClearBuffer(m) = [book |-> m.book, buffer |-> <<>>, status |-> m.status,
                        stats |-> [m.stats EXCEPT !.buffered_updates = 0]]
  <2> DEFINE stats == [m.stats EXCEPT !.buffered_updates = 0]
  <2>1. ClearBuffer(m) = [m EXCEPT !.buffer = <<>>, !.stats = stats]
    BY DEF ClearBuffer, Manager
  <2> HIDE DEF stats
  <2>2. ClearBuffer(m) = [book |-> m.book, buffer |-> <<>>, status |-> m.status, stats |-> stats]
    BY <2>1 DEF Manager
  <2> QED BY <2>2 DEF stats
<1>2. AsReady(m) = [ClearBuffer(m) EXCEPT !.status = "Ready"]
  BY DEF AsReady
<1>3. ClearBuffer(m) \in Manager
  BY ClearBufferType
<1>4. AsReady(m) \in Manager
  BY <1>2, <1>3 DEF Manager, Status
<1> QED BY <1>1, <1>2, <1>4

\* An update does the same to a manager that replays its buffer as to a ready one.
LEMMA AsReadyUpdate ==
    ASSUME NEW x \in Manager, x.book.initialized, NEW u \in OwnUpdate
    PROVE  LET out == ApplyUpdateToReadyBook(x, u)
           IN  OnUpdate(Feed, AsReady(x), u).m =
                   IF out.result = "GapDetected" THEN ClearBuffer(out.m) ELSE AsReady(out.m)
<1> DEFINE y == AsReady(x)
           out == ApplyUpdateToReadyBook(x, u)
           direct == ApplyUpdateToReadyBook(y, u)
           r == ApplyUpdateResult(x.book, u)
           stats == [x.stats EXCEPT !.buffered_updates = 0]
<1>1. y = [book |-> x.book, buffer |-> <<>>, status |-> "Ready", stats |-> stats] /\ y \in Manager
  BY ClearBufferFields
<1>2. u \in Update /\ u.feed = Feed
  BY DEF OwnUpdate
<1>3. OnUpdate(Feed, y, u) = direct
  BY <1>1, <1>2 DEF OnUpdate, NeedResync
<1>4. x.stats \in Stats /\ stats \in Stats
  BY DEF Manager, Stats
<1>5. out.m \in Manager
  BY <1>2, ApplyToReadyBookType
<1>6. r \in {"Applied", "IgnoredStale", "GapDetected"}
  BY <1>2, ApplyToReadyBookFields
<1>7. y.book = x.book /\ y.book.initialized /\ y.stats = stats /\ y.buffer = <<>>
  BY <1>1
<1>11. ApplyUpdateResult(y.book, u) = r
  BY <1>7
<1> HIDE DEF y, out, direct, r, stats
<1>8. CASE r = "Applied"
  <2> DEFINE next == BookApplyUpdate(x.book, u)
             counted == [x.stats EXCEPT !.applied_updates = @ + 1]
  <2>1. out = [m |-> [x EXCEPT !.book = next, !.status = "Ready", !.stats = counted],
               result |-> "Applied"]
    BY <1>2, <1>8, ApplyToReadyBookFields DEF r, out
  <2>2. direct = [m |-> [y EXCEPT !.book = BookApplyUpdate(y.book, u), !.status = "Ready",
                                  !.stats = [y.stats EXCEPT !.applied_updates = @ + 1]],
                  result |-> "Applied"]
    BY <1>1, <1>2, <1>7, <1>8, <1>11, ApplyToReadyBookFields DEF direct
  <2>3. AsReady(out.m) = [book |-> next, buffer |-> <<>>, status |-> "Ready",
                          stats |-> [counted EXCEPT !.buffered_updates = 0]]
    <3>1. out.m.book = next /\ out.m.stats = counted
      BY <2>1 DEF Manager
    <3> QED BY <1>5, <3>1, ClearBufferFields
  <2>4. [counted EXCEPT !.buffered_updates = 0] = [stats EXCEPT !.applied_updates = @ + 1]
    BY <1>4 DEF Stats, stats
  <2>5. direct.m = [book |-> next, buffer |-> <<>>, status |-> "Ready",
                    stats |-> [stats EXCEPT !.applied_updates = @ + 1]]
    BY <1>1, <1>7, <2>2
  <2>6. out.result = "Applied"
    BY <2>1
  <2> QED BY <1>3, <2>3, <2>4, <2>5, <2>6 DEF out, y
<1>9. CASE r = "IgnoredStale"
  <2> DEFINE counted == [x.stats EXCEPT !.ignored_stale_updates = @ + 1]
  <2>1. out = [m |-> [x EXCEPT !.stats = counted], result |-> "IgnoredStale"]
    BY <1>2, <1>9, ApplyToReadyBookFields DEF r, out
  <2>2. direct = [m |-> [y EXCEPT !.stats = [y.stats EXCEPT !.ignored_stale_updates = @ + 1]],
                  result |-> "IgnoredStale"]
    BY <1>1, <1>2, <1>7, <1>9, <1>11, ApplyToReadyBookFields DEF direct
  <2>3. AsReady(out.m) = [book |-> x.book, buffer |-> <<>>, status |-> "Ready",
                          stats |-> [counted EXCEPT !.buffered_updates = 0]]
    <3>1. out.m.book = x.book /\ out.m.stats = counted
      BY <2>1 DEF Manager
    <3> QED BY <1>5, <3>1, ClearBufferFields
  <2>4. [counted EXCEPT !.buffered_updates = 0] = [stats EXCEPT !.ignored_stale_updates = @ + 1]
    BY <1>4 DEF Stats, stats
  <2>5. direct.m = [book |-> x.book, buffer |-> <<>>, status |-> "Ready",
                    stats |-> [stats EXCEPT !.ignored_stale_updates = @ + 1]]
    BY <1>1, <1>7, <2>2
  <2>6. out.result = "IgnoredStale"
    BY <2>1
  <2> QED BY <1>3, <2>3, <2>4, <2>5, <2>6 DEF out, y
<1>10. CASE r = "GapDetected"
  <2> DEFINE counted == [x.stats EXCEPT !.gaps_detected = @ + 1]
  <2>1. out = [m |-> [x EXCEPT !.status = "NeedResync", !.stats = counted],
               result |-> "GapDetected"]
    BY <1>2, <1>10, ApplyToReadyBookFields DEF r, out
  <2>2. direct = [m |-> [y EXCEPT !.status = "NeedResync",
                                  !.stats = [y.stats EXCEPT !.gaps_detected = @ + 1]],
                  result |-> "GapDetected"]
    BY <1>1, <1>2, <1>7, <1>10, <1>11, ApplyToReadyBookFields DEF direct
  <2>3. ClearBuffer(out.m) = [book |-> x.book, buffer |-> <<>>, status |-> "NeedResync",
                              stats |-> [counted EXCEPT !.buffered_updates = 0]]
    <3>1. out.m.book = x.book /\ out.m.stats = counted /\ out.m.status = "NeedResync"
      BY <2>1 DEF Manager
    <3> QED BY <1>5, <3>1, ClearBufferFields
  <2>4. [counted EXCEPT !.buffered_updates = 0] = [stats EXCEPT !.gaps_detected = @ + 1]
    BY <1>4 DEF Stats, stats
  <2>5. direct.m = [book |-> x.book, buffer |-> <<>>, status |-> "NeedResync",
                    stats |-> [stats EXCEPT !.gaps_detected = @ + 1]]
    BY <1>1, <1>7, <2>2
  <2>6. out.result = "GapDetected"
    BY <2>1
  <2> QED BY <1>3, <2>3, <2>4, <2>5, <2>6 DEF out, y
<1> QED BY <1>6, <1>8, <1>9, <1>10

\* AfterUpdates is the function its recursion says it is.
LEMMA AfterUpdatesDef ==
    ASSUME NEW m, NEW b \in Seq(Update)
    PROVE  AfterUpdates(m, b) =
               [i \in 0..Len(b) |->
                   IF i = 0 THEN m ELSE OnUpdate(Feed, AfterUpdates(m, b)[i - 1], b[i]).m]
<1> DEFINE After(x, u) == OnUpdate(Feed, x, u).m
           Trace(f, n) == [i \in 0..n |-> IF i = 0 THEN m ELSE After(f[i - 1], b[i])]
           HasTrace(n) == \E f : f = Trace(f, n)
           Good == {n \in Nat : n <= Len(b) => HasTrace(n)}
<1>1. Len(b) \in Nat
  OBVIOUS
<1> HIDE DEF After
<1>2. HasTrace(0)
  <2> DEFINE f == [i \in 0..0 |-> m]
  <2>1. f = Trace(f, 0)
    OBVIOUS
  <2> QED BY <2>1
<1>3. ASSUME NEW n \in Nat, n + 1 <= Len(b), HasTrace(n)
      PROVE  HasTrace(n + 1)
  <2>1. PICK f : f = Trace(f, n)
    BY <1>3
  <2> DEFINE g == [i \in 0..(n + 1) |-> IF i <= n THEN f[i] ELSE After(f[n], b[n + 1])]
  <2>2. ASSUME NEW i \in 0..(n + 1)
        PROVE  g[i] = IF i = 0 THEN m ELSE After(g[i - 1], b[i])
    <3>1. CASE i = n + 1
      BY <3>1
    <3>2. CASE i = 0
      BY <3>2, <2>1
    <3>3. CASE i \in 1..n
      BY <3>3, <2>1
    <3> QED BY <3>1, <3>2, <3>3
  <2>3. DOMAIN g = 0..(n + 1) /\ g = [i \in DOMAIN g |-> g[i]]
    OBVIOUS
  <2> HIDE DEF g
  <2>4. g = Trace(g, n + 1)
    BY <2>2, <2>3
  <2> QED BY <2>4
<1>4. HasTrace(Len(b))
  <2> HIDE DEF HasTrace
  <2>1. 0 \in Good
    BY <1>2
  <2>2. \A n \in Nat : n \in Good => n + 1 \in Good
    BY <1>1, <1>3
  <2>3. Nat \subseteq Good
    BY <2>1, <2>2, SetInduction
  <2> QED BY <1>1, <2>3
<1> DEFINE h == AfterUpdates(m, b)
<1>5. h = Trace(h, Len(b))
  <2>1. PICK f : f = Trace(f, Len(b))
    BY <1>4
  <2>2. h = CHOOSE g : g = Trace(g, Len(b))
    BY DEF AfterUpdates, After
  <2> HIDE DEF h
  <2> QED BY <2>1, <2>2
<1> QED BY <1>5 DEF After

LEMMA AfterUpdatesStep ==
    ASSUME NEW m, NEW b \in Seq(Update)
    PROVE  /\ AfterUpdates(m, b)[0] = m
           /\ \A i \in Nat : i < Len(b) =>
                  AfterUpdates(m, b)[i + 1] = OnUpdate(Feed, AfterUpdates(m, b)[i], b[i + 1]).m
<1> DEFINE h == AfterUpdates(m, b)
           After(x, u) == OnUpdate(Feed, x, u).m
<1>1. h = [i \in 0..Len(b) |-> IF i = 0 THEN m ELSE After(h[i - 1], b[i])] /\ Len(b) \in Nat
  BY AfterUpdatesDef
<1> HIDE DEF h, After
<1>2. h[0] = m
  BY <1>1
<1>3. ASSUME NEW i \in Nat, i < Len(b)
      PROVE  h[i + 1] = After(h[i], b[i + 1])
  <2>1. i + 1 \in 0..Len(b) /\ i + 1 # 0 /\ (i + 1) - 1 = i
    BY <1>1, <1>3
  <2> QED BY <1>1, <2>1
<1> QED BY <1>2, <1>3 DEF h, After

\* The manager the snapshot came to first, before the updates.
Started(m, v) ==
    [ClearBuffer(m) EXCEPT !.book = BookApplySnapshot(DepthSnapshot(Feed, v)), !.status = "Ready"]

LEMMA StartedFields ==
    ASSUME NEW m \in Manager, NEW v \in 0..MaxId
    PROVE  LET start == Started(m, v)
               book  == BookApplySnapshot(DepthSnapshot(Feed, v))
           IN  /\ start = [book |-> book, buffer |-> <<>>, status |-> "Ready",
                           stats |-> [m.stats EXCEPT !.buffered_updates = 0]]
               /\ start \in Manager
               /\ book.initialized /\ book.last_update_id = v /\ v \in Nat
               /\ SnapshotFirst(m, v) = AfterUpdates(start, m.buffer)[Len(m.buffer)]
<1> DEFINE start == Started(m, v)
           book == BookApplySnapshot(DepthSnapshot(Feed, v))
           stats == [m.stats EXCEPT !.buffered_updates = 0]
<1>1. book \in Book
  BY SnapshotMatches
<1>2. book.initialized /\ book.last_update_id = v /\ v \in Nat
  BY MaxIdAssumption DEF BookApplySnapshot, DepthSnapshot
<1>3. ClearBuffer(m) = [book |-> m.book, buffer |-> <<>>, status |-> m.status, stats |-> stats]
      /\ ClearBuffer(m) \in Manager
  BY ClearBufferFields, ClearBufferType
<1>4. SnapshotFirst(m, v) = AfterUpdates(start, m.buffer)[Len(m.buffer)]
  BY DEF SnapshotFirst, Started
<1> HIDE DEF book, stats
<1>5. start = [book |-> book, buffer |-> <<>>, status |-> "Ready", stats |-> stats]
  <2> DEFINE c == ClearBuffer(m)
  <2>1. start = [c EXCEPT !.book = book, !.status = "Ready"]
    BY DEF Started, book
  <2>2. c = [book |-> m.book, buffer |-> <<>>, status |-> m.status, stats |-> stats]
    BY <1>3
  <2> HIDE DEF c, start
  <2> QED BY <2>1, <2>2
<1>6. start \in Manager
  BY <1>1, <1>3, <1>5 DEF Manager, Status
<1> QED BY <1>2, <1>4, <1>5, <1>6 DEF book, stats

\* The updates the snapshot makes stale are ignored one by one.
LEMMA StaleFront ==
    ASSUME NEW m \in Manager, m.buffer \in Seq(OwnUpdate), NEW v \in 0..MaxId
    PROVE  LET n == StalePrefix(m.buffer, v)
           IN  AfterUpdates(Started(m, v), m.buffer)[n]
                   = AsReady(TakeSnapshot(m, DepthSnapshot(Feed, v)))
<1> DEFINE b == m.buffer
           n == StalePrefix(b, v)
           start == Started(m, v)
           book == BookApplySnapshot(DepthSnapshot(Feed, v))
           taken == TakeSnapshot(m, DepthSnapshot(Feed, v))
           D == AfterUpdates(start, b)
           Ignored(i) == [start.stats EXCEPT !.ignored_stale_updates = @ + i]
           Is(i) == D[i] = [book |-> book, buffer |-> <<>>, status |-> "Ready",
                            stats |-> Ignored(i)]
           Good == {i \in Nat : i <= n => Is(i)}
<1>1. /\ start = [book |-> book, buffer |-> <<>>, status |-> "Ready",
                  stats |-> [m.stats EXCEPT !.buffered_updates = 0]]
      /\ start \in Manager
      /\ book.initialized /\ book.last_update_id = v /\ v \in Nat
  BY StartedFields
<1>2. b \in Seq(Update) /\ Len(b) \in Nat /\ m.stats \in Stats
      /\ \A i \in 1..Len(b) : b[i] \in Update /\ b[i].feed = Feed
  BY DEF Manager, OwnUpdate
<1>3. /\ n \in 0..Len(b) /\ n \in Nat
      /\ \A i \in 1..n : b[i].final_update_id <= v
      /\ taken.stats \in Stats
      /\ taken.stats.applied_updates = m.stats.applied_updates
      /\ taken.stats.ignored_stale_updates = m.stats.ignored_stale_updates + n
      /\ taken.stats.gaps_detected = m.stats.gaps_detected
  BY TakeSnapshotFields
<1>4. taken \in Manager /\ taken.book = book
  BY TakeSnapshotType
<1>5. D[0] = start /\ \A i \in Nat : i < Len(b) => D[i + 1] = OnUpdate(Feed, D[i], b[i + 1]).m
  BY <1>2, AfterUpdatesStep
<1>6. start.stats \in Stats
  BY <1>1 DEF Manager
<1>7. start.stats = [m.stats EXCEPT !.buffered_updates = 0]
  BY <1>1
<1>8. \A i \in Nat : Ignored(i) \in Stats
  BY <1>6 DEF Stats
<1> HIDE DEF b, n, start, book, taken, D
<1>9. 0 \in Good
  <2>1. Ignored(0) = start.stats
    BY <1>6 DEF Stats
  <2> HIDE DEF Ignored
  <2> QED BY <1>1, <1>5, <2>1
<1>10. ASSUME NEW i \in Nat, i \in Good
       PROVE  i + 1 \in Good
  <2> SUFFICES ASSUME i + 1 <= n PROVE Is(i + 1)
    OBVIOUS
  <2> DEFINE x == D[i]
             u == b[i + 1]
  <2>1. /\ u \in Update /\ u.feed = Feed /\ u.final_update_id <= v
        /\ D[i + 1] = OnUpdate(Feed, x, u).m
    <3>1. i + 1 \in 1..n /\ i + 1 \in 1..Len(b) /\ i < Len(b)
      BY <1>2, <1>3
    <3> QED BY <1>2, <1>3, <1>5, <3>1
  <2>2. x = [book |-> book, buffer |-> <<>>, status |-> "Ready", stats |-> Ignored(i)]
    BY <1>3, <1>10
  <2>3. x.status = "Ready" /\ x.book = book /\ x.stats = Ignored(i) /\ x.buffer = <<>>
    <3> HIDE DEF Ignored, x
    <3> QED BY <2>2
  <2>4. ApplyUpdateResult(x.book, u) = "IgnoredStale"
    BY <1>1, <2>1, <2>3 DEF ApplyUpdateResult
  <2> HIDE DEF x, u
  <2>5. OnUpdate(Feed, x, u) = [m |-> [x EXCEPT !.stats.ignored_stale_updates = @ + 1],
                                result |-> "IgnoredStale"]
    <3>1. OnUpdate(Feed, x, u) = ApplyUpdateToReadyBook(x, u)
      BY <2>1, <2>3 DEF OnUpdate, NeedResync
    <3> QED BY <2>4, <3>1 DEF ApplyUpdateToReadyBook
  <2>6. [Ignored(i) EXCEPT !.ignored_stale_updates = @ + 1] = Ignored(i + 1)
    <3> DEFINE s == start.stats
    <3>1. s \in Stats
      BY <1>6
    <3> HIDE DEF s
    <3> DEFINE k == s.ignored_stale_updates
               t == [s EXCEPT !.ignored_stale_updates = k + i]
    <3>2. k \in Nat /\ t.ignored_stale_updates = k + i /\ (k + i) + 1 = k + (i + 1)
      BY <3>1 DEF Stats
    <3>3. [t EXCEPT !.ignored_stale_updates = (k + i) + 1]
              = [s EXCEPT !.ignored_stale_updates = (k + i) + 1]
      BY <3>1 DEF Stats
    <3>4. [t EXCEPT !.ignored_stale_updates = @ + 1]
              = [s EXCEPT !.ignored_stale_updates = @ + (i + 1)]
      <4> HIDE DEF t, k
      <4>1. [t EXCEPT !.ignored_stale_updates = @ + 1]
                = [t EXCEPT !.ignored_stale_updates = (k + i) + 1]
        BY <3>2
      <4>2. [s EXCEPT !.ignored_stale_updates = @ + (i + 1)]
                = [s EXCEPT !.ignored_stale_updates = k + (i + 1)]
        BY DEF k
      <4> QED BY <3>2, <3>3, <4>1, <4>2
    <3> QED BY <3>4 DEF s
  <2> HIDE DEF Ignored
  <2>7. D[i + 1] = [x EXCEPT !.stats.ignored_stale_updates = @ + 1]
    BY <2>1, <2>5
  <2>8. D[i + 1] = [book |-> book, buffer |-> <<>>, status |-> "Ready",
                    stats |-> [Ignored(i) EXCEPT !.ignored_stale_updates = @ + 1]]
    BY <2>2, <2>3, <2>7
  <2> QED BY <2>6, <2>8
<1>11. Nat \subseteq Good
  <2> HIDE DEF Good
  <2> QED BY <1>9, <1>10, SetInduction
<1>12. Is(n)
  <2> HIDE DEF Is
  <2> QED BY <1>3, <1>11
<1>13. Ignored(n) = [taken.stats EXCEPT !.buffered_updates = 0]
  BY <1>2, <1>3, <1>7 DEF Stats
<1>14. AsReady(taken) = [book |-> book, buffer |-> <<>>, status |-> "Ready",
                         stats |-> [taken.stats EXCEPT !.buffered_updates = 0]]
  BY <1>4, ClearBufferFields
<1>15. D[n] = AsReady(taken)
  <2> HIDE DEF Ignored
  <2> QED BY <1>12, <1>13, <1>14
<1> QED BY <1>15 DEF b, n, start, taken, D

\* The manager a replay stands for when the snapshot came first: ready and without
\* a buffer until a gap is found, and left as it is from then on.
Shown(x) == IF x.result = "GapDetected" THEN ClearBuffer(x.m) ELSE AsReady(x.m)

\* Replaying the buffer is feeding its updates to the ready manager one by one.
LEMMA ReplayShown ==
    ASSUME NEW t \in Manager, t.book.initialized, t.buffer \in Seq(OwnUpdate),
           NEW D, NEW n \in Nat, D[n] = AsReady(t),
           \A j \in Nat : j < Len(t.buffer) =>
               D[n + (j + 1)] = OnUpdate(Feed, D[n + j], t.buffer[j + 1]).m
    PROVE  D[n + Len(t.buffer)] = Shown(Replay(t)[Len(t.buffer)])
<1> DEFINE R == Replay(t)
           L == Len(t.buffer)
           S == {x \in [m : Manager, result : UpdateResult] :
                    /\ x.m.book.initialized
                    /\ x.result = "GapDetected" => x.m.status = "NeedResync"}
           Good == {j \in Nat : j <= L => D[n + j] = Shown(R[j])}
<1>1. [m |-> t, result |-> "SnapshotApplied"] \in S
  BY DEF UpdateResult
<1>2. ASSUME NEW x \in S, NEW u \in Update, x.result # "GapDetected"
      PROVE  ApplyUpdateToReadyBook(x.m, u) \in S
  <2> DEFINE out == ApplyUpdateToReadyBook(x.m, u)
  <2>1. x.m \in Manager /\ x.m.book.initialized
    OBVIOUS
  <2>2. /\ out.m \in Manager
        /\ out.result \in {"Applied", "IgnoredStale", "GapDetected"}
        /\ out.m.book.initialized
        /\ out.result = "GapDetected" => out.m.status = "NeedResync"
    BY <2>1, ApplyToReadyBookType
  <2>3. out = [m |-> out.m, result |-> out.result]
    BY <2>1, BookApplyUpdateType DEF ApplyUpdateToReadyBook, Manager
  <2> HIDE DEF out
  <2>4. out \in S
    BY <2>2, <2>3 DEF UpdateResult
  <2> QED BY <2>4 DEF out
<1>3. \A x \in S, u \in Update : ReplayStep(x, u) \in S
  BY <1>2 DEF ReplayStep
<1> HIDE DEF S
<1>4. R \in [0..L -> S]
  BY <1>1, <1>3, ReplayInvariant
<1>5. R = [i \in 0..L |-> IF i = 0 THEN [m |-> t, result |-> "SnapshotApplied"]
                          ELSE ReplayStep(R[i - 1], t.buffer[i])]
  BY ReplayDef
<1>6. L \in Nat /\ \A i \in 1..L : t.buffer[i] \in OwnUpdate
  OBVIOUS
<1> HIDE DEF R, L
<1>7. 0 \in Good
  <2>1. R[0] = [m |-> t, result |-> "SnapshotApplied"]
    BY <1>5, <1>6
  <2>2. Shown(R[0]) = AsReady(t)
    BY <2>1 DEF Shown
  <2> QED BY <2>2
<1>8. ASSUME NEW j \in Nat, j \in Good
      PROVE  j + 1 \in Good
  <2> SUFFICES ASSUME j + 1 <= L PROVE D[n + (j + 1)] = Shown(R[j + 1])
    OBVIOUS
  <2> DEFINE x == R[j]
             u == t.buffer[j + 1]
  <2>1. /\ j \in 0..L /\ j + 1 \in 1..L /\ j + 1 \in 0..L /\ j + 1 # 0 /\ (j + 1) - 1 = j
        /\ j < L
    BY <1>6
  <2>2. u \in OwnUpdate /\ x \in S
    BY <1>4, <1>6, <2>1
  <2>3. R[j + 1] = ReplayStep(x, u)
    BY <1>5, <2>1
  <2>4. D[n + (j + 1)] = OnUpdate(Feed, Shown(x), u).m
    <3>1. D[n + j] = Shown(x)
      BY <1>8, <2>1
    <3> QED BY <2>1, <3>1 DEF L
  <2> HIDE DEF x, u
  <2>5. /\ x.m \in Manager /\ x.m.book.initialized
        /\ x.result = "GapDetected" => x.m.status = "NeedResync"
    BY <2>2 DEF S
  <2>6. CASE x.result = "GapDetected"
    <3>1. Shown(x) = ClearBuffer(x.m) /\ Shown(x).status = "NeedResync"
      BY <2>5, <2>6, ClearBufferType DEF Shown
    <3>2. OnUpdate(Feed, Shown(x), u).m = Shown(x)
      BY <2>2, <3>1 DEF OnUpdate, NeedResync, OwnUpdate
    <3>3. ReplayStep(x, u) = x
      BY <2>6 DEF ReplayStep
    <3> QED BY <2>3, <2>4, <3>2, <3>3
  <2>7. CASE x.result # "GapDetected"
    <3>1. Shown(x) = AsReady(x.m)
      BY <2>7 DEF Shown
    <3>2. OnUpdate(Feed, AsReady(x.m), u).m = Shown(ApplyUpdateToReadyBook(x.m, u))
      BY <2>2, <2>5, AsReadyUpdate DEF Shown
    <3>3. ReplayStep(x, u) = ApplyUpdateToReadyBook(x.m, u)
      BY <2>7 DEF ReplayStep
    <3> QED BY <2>3, <2>4, <3>1, <3>2, <3>3
  <2> QED BY <2>6, <2>7
<1>9. Nat \subseteq Good
  <2> HIDE DEF Good
  <2> QED BY <1>7, <1>8, SetInduction
<1> QED BY <1>6, <1>9 DEF R, L

\* The manager that rejects a snapshot, and its statistics.
Rejected(m) ==
    [ClearBuffer(m) EXCEPT !.status = "NeedResync", !.stats.gaps_detected = @ + 1]

RejectedStats(m) == [[m.stats EXCEPT !.buffered_updates = 0] EXCEPT !.gaps_detected = @ + 1]

LEMMA RejectedFields ==
    ASSUME NEW m \in Manager
    PROVE  Rejected(m) = [book |-> m.book, buffer |-> <<>>, status |-> "NeedResync",
                          stats |-> RejectedStats(m)]
<1> DEFINE c == ClearBuffer(m)
           stats == [m.stats EXCEPT !.buffered_updates = 0]
           counted == [stats EXCEPT !.gaps_detected = @ + 1]
<1>1. c = [book |-> m.book, buffer |-> <<>>, status |-> m.status, stats |-> stats]
  BY ClearBufferFields
<1> HIDE DEF c, stats
<1>2. [c EXCEPT !.status = "NeedResync", !.stats.gaps_detected = @ + 1]
          = [c EXCEPT !.status = "NeedResync", !.stats = counted]
  BY <1>1
<1> HIDE DEF counted
<1>3. [c EXCEPT !.status = "NeedResync", !.stats = counted]
          = [book |-> m.book, buffer |-> <<>>, status |-> "NeedResync", stats |-> counted]
  <2>1. [c EXCEPT !.status = "NeedResync", !.stats = counted]
            = [[c EXCEPT !.status = "NeedResync"] EXCEPT !.stats = counted]
    BY <1>1
  <2>2. [c EXCEPT !.status = "NeedResync"]
            = [book |-> m.book, buffer |-> <<>>, status |-> "NeedResync", stats |-> stats]
    BY <1>1
  <2>3. \A d : d = [book |-> m.book, buffer |-> <<>>, status |-> "NeedResync", stats |-> stats] =>
            [d EXCEPT !.stats = counted]
                = [book |-> m.book, buffer |-> <<>>, status |-> "NeedResync", stats |-> counted]
    OBVIOUS
  <2> QED BY <2>1, <2>2, <2>3
<1> QED BY <1>2, <1>3 DEF Rejected, RejectedStats, c, stats, counted

\* A buffer that does not bridge the snapshot is the gap its first update leaves.
LEMMA UnbridgedShown ==
    ASSUME NEW t \in Manager, t.book.initialized, t.buffer \in Seq(OwnUpdate),
           t.buffer # <<>>,
           t.buffer[1].first_update_id > t.book.last_update_id + 1,
           t.buffer[1].final_update_id > t.book.last_update_id,
           NEW D, NEW n \in Nat, D[n] = AsReady(t),
           \A j \in Nat : j < Len(t.buffer) =>
               D[n + (j + 1)] = OnUpdate(Feed, D[n + j], t.buffer[j + 1]).m
    PROVE  D[n + Len(t.buffer)] = Rejected(t)
<1> DEFINE L == Len(t.buffer)
           u == t.buffer[1]
           x == AsReady(t)
           stats == [t.stats EXCEPT !.buffered_updates = 0]
           counted == [stats EXCEPT !.gaps_detected = @ + 1]
           lost == [book |-> t.book, buffer |-> <<>>, status |-> "NeedResync",
                    stats |-> counted]
           Good == {j \in Nat : j + 1 <= L => D[n + (j + 1)] = lost}
<1>1. L \in Nat /\ L >= 1 /\ \A i \in 1..L : t.buffer[i] \in OwnUpdate
  OBVIOUS
<1>2. u \in OwnUpdate /\ u \in Update
  BY <1>1 DEF OwnUpdate
<1>3. /\ x = [book |-> t.book, buffer |-> <<>>, status |-> "Ready", stats |-> stats]
      /\ ClearBuffer(t) = [book |-> t.book, buffer |-> <<>>, status |-> t.status,
                           stats |-> stats]
      /\ x \in Manager
  BY ClearBufferFields
<1>4. /\ u.first_update_id > t.book.last_update_id + 1
      /\ u.final_update_id > t.book.last_update_id
      /\ u.final_update_id \in Nat /\ t.book.last_update_id \in Nat
  BY <1>2, UpdateIds DEF Manager, Book
<1>5. D[n] = x /\ D[n + (0 + 1)] = OnUpdate(Feed, D[n + 0], t.buffer[0 + 1]).m
  BY <1>1
<1> HIDE DEF u, x, stats
<1>6. D[n + 1] = lost
  <2>1. D[n + 1] = OnUpdate(Feed, x, u).m
    BY <1>5 DEF u
  <2>2. OnUpdate(Feed, x, u) = ApplyUpdateToReadyBook(x, u)
    BY <1>2, <1>3 DEF OnUpdate, NeedResync, OwnUpdate
  <2>3. ApplyUpdateResult(x.book, u) = "GapDetected" /\ x.book.initialized
    BY <1>3, <1>4 DEF ApplyUpdateResult
  <2>4. ApplyUpdateToReadyBook(x, u) =
            [m |-> [x EXCEPT !.status = "NeedResync",
                             !.stats = [x.stats EXCEPT !.gaps_detected = @ + 1]],
             result |-> "GapDetected"]
    BY <1>2, <1>3, <2>3, ApplyToReadyBookFields
  <2>5. x.stats = stats
    BY <1>3
  <2>6. D[n + 1] = [x EXCEPT !.status = "NeedResync", !.stats = counted]
    BY <2>1, <2>2, <2>4, <2>5
  <2> HIDE DEF counted
  <2> QED BY <1>3, <2>6
<1> HIDE DEF L, lost
<1>8. 0 \in Good
  BY <1>6
<1>9. ASSUME NEW j \in Nat, j \in Good
      PROVE  j + 1 \in Good
  <2> SUFFICES ASSUME (j + 1) + 1 <= L PROVE D[n + ((j + 1) + 1)] = lost
    OBVIOUS
  <2>1. j + 1 \in Nat /\ j + 1 <= L /\ j + 1 < L /\ (j + 1) + 1 \in 1..L
    BY <1>1
  <2>2. D[n + (j + 1)] = lost
    BY <1>9, <2>1
  <2>3. D[n + ((j + 1) + 1)] = OnUpdate(Feed, lost, t.buffer[(j + 1) + 1]).m
    BY <2>1, <2>2 DEF L
  <2>4. lost.status = "NeedResync"
    BY DEF lost
  <2>5. t.buffer[(j + 1) + 1] \in OwnUpdate
    BY <1>1, <2>1
  <2> QED BY <2>3, <2>4, <2>5 DEF OnUpdate, NeedResync, OwnUpdate
<1>10. Nat \subseteq Good
  <2> HIDE DEF Good
  <2> QED BY <1>8, <1>9, SetInduction
<1>11. L - 1 \in Nat /\ (L - 1) + 1 = L
  BY <1>1
<1>12. D[n + L] = lost
  <2>1. L - 1 \in Good
    BY <1>10, <1>11
  <2> QED BY <1>1, <1>11, <2>1
<1>13. counted = RejectedStats(t)
  BY DEF RejectedStats, stats
<1>14. lost = Rejected(t)
  <2> HIDE DEF counted
  <2> QED BY <1>13, RejectedFields DEF lost
<1> QED BY <1>12, <1>14 DEF L

\* apply_snapshot is the snapshot first and the buffered updates after it.
LEMMA Transparent ==
    ASSUME NEW m \in Manager, m.buffer \in Seq(OwnUpdate), NEW v \in 0..MaxId
    PROVE  ApplySnapshot(Feed, m, DepthSnapshot(Feed, v)).m = SnapshotFirst(m, v)
<1> DEFINE s == DepthSnapshot(Feed, v)
           taken == TakeSnapshot(m, s)
           n == StalePrefix(m.buffer, v)
           pending == taken.buffer
           start == Started(m, v)
           D == AfterUpdates(start, m.buffer)
           R == Replay(taken)
           out == ApplySnapshot(Feed, m, s)
<1>1. s.feed = Feed /\ s.last_update_id = v /\ v \in Nat
  BY MaxIdAssumption DEF DepthSnapshot
<1>2. /\ taken \in Manager
      /\ taken.book = BookApplySnapshot(s)
      /\ taken.status = m.status
  BY TakeSnapshotType
<1>3. taken.book.initialized /\ taken.book.last_update_id = v
  BY <1>2, StartedFields
<1>4. /\ n \in 0..Len(m.buffer) /\ n \in Nat
      /\ n < Len(m.buffer) => m.buffer[n + 1].final_update_id > v
      /\ pending \in Seq(Update)
      /\ Len(pending) = Len(m.buffer) - n
      /\ \A i \in 1..Len(pending) : pending[i] = m.buffer[n + i]
  BY TakeSnapshotFields
<1>5. Len(m.buffer) \in Nat /\ m.buffer \in Seq(Update)
      /\ \A i \in 1..Len(m.buffer) : m.buffer[i] \in OwnUpdate
  BY DEF Manager
<1>6. SnapshotFirst(m, v) = D[Len(m.buffer)]
  BY StartedFields
<1>7. D[n] = AsReady(taken)
  BY StaleFront
<1>8. \A i \in Nat : i < Len(m.buffer) => D[i + 1] = OnUpdate(Feed, D[i], m.buffer[i + 1]).m
  BY <1>5, AfterUpdatesStep
<1>9. /\ pending = <<>> =>
             out = [m |-> [taken EXCEPT !.status = "Ready"], result |-> "SnapshotApplied"]
      /\ pending # <<>> /\ ~Bridges(pending[1], v) =>
             out = [m |-> Rejected(taken), result |-> "SnapshotRejected"]
      /\ pending # <<>> /\ Bridges(pending[1], v) =>
             out.m = Shown(R[Len(pending)])
  BY <1>1 DEF ApplySnapshot, Shown, AsReady, Rejected
<1>10. taken.stats.buffered_updates = Len(pending) /\ taken.stats \in Stats
  BY TakeSnapshotFields
<1> HIDE DEF s, taken, n, start, D, R, out
<1>11. pending \in Seq(OwnUpdate) /\ Len(pending) \in Nat /\ n + Len(pending) = Len(m.buffer)
  <2>1. Len(pending) \in Nat /\ n + Len(pending) = Len(m.buffer)
    BY <1>4, <1>5
  <2>2. \A i \in 1..Len(pending) : pending[i] \in OwnUpdate
    BY <1>4, <1>5, <2>1
  <2> QED BY <1>4, <2>1, <2>2
<1>12. \A j \in Nat : j < Len(pending) =>
           D[n + (j + 1)] = OnUpdate(Feed, D[n + j], pending[j + 1]).m
  <2> SUFFICES ASSUME NEW j \in Nat, j < Len(pending)
               PROVE  D[n + (j + 1)] = OnUpdate(Feed, D[n + j], pending[j + 1]).m
    OBVIOUS
  <2>1. /\ n + j \in Nat /\ n + j < Len(m.buffer) /\ (n + j) + 1 = n + (j + 1)
        /\ j + 1 \in 1..Len(pending)
    BY <1>4, <1>5, <1>11
  <2>2. pending[j + 1] = m.buffer[(n + j) + 1]
    BY <1>4, <2>1
  <2>3. D[(n + j) + 1] = OnUpdate(Feed, D[n + j], m.buffer[(n + j) + 1]).m
    BY <1>8, <2>1
  <2> QED BY <2>1, <2>2, <2>3
<1>13. CASE pending = <<>>
  <2>1. D[Len(m.buffer)] = AsReady(taken)
    BY <1>4, <1>5, <1>7, <1>13
  <2>2. out.m = [taken EXCEPT !.status = "Ready"]
    BY <1>9, <1>13
  <2>3. [taken.stats EXCEPT !.buffered_updates = 0] = taken.stats
    BY <1>10, <1>13 DEF Stats
  <2>4. [taken EXCEPT !.status = "Ready"]
            = [book |-> taken.book, buffer |-> <<>>, status |-> "Ready", stats |-> taken.stats]
    BY <1>2, <1>13 DEF Manager
  <2>5. AsReady(taken) = [book |-> taken.book, buffer |-> <<>>, status |-> "Ready",
                          stats |-> [taken.stats EXCEPT !.buffered_updates = 0]]
    BY <1>2, ClearBufferFields
  <2>6. out.m = D[Len(m.buffer)]
    BY <2>1, <2>2, <2>3, <2>4, <2>5
  <2> QED BY <1>6, <2>6 DEF out, s
<1>14. CASE pending # <<>> /\ Bridges(pending[1], v)
  <2>1. D[n + Len(pending)] = Shown(R[Len(pending)])
    BY <1>2, <1>3, <1>4, <1>7, <1>11, <1>12, ReplayShown DEF R
  <2>2. out.m = D[Len(m.buffer)]
    BY <1>9, <1>11, <1>14, <2>1
  <2> QED BY <1>6, <2>2 DEF out, s
<1>15. CASE pending # <<>> /\ ~Bridges(pending[1], v)
  <2>1. Len(pending) >= 1 /\ 1 \in 1..Len(pending) /\ pending[1] \in Update
        /\ pending[1] = m.buffer[n + 1] /\ n < Len(m.buffer)
    BY <1>4, <1>11, <1>15
  <2>2. /\ pending[1].final_update_id > v
        /\ pending[1].final_update_id \in Nat /\ pending[1].first_update_id \in Nat
    BY <1>4, <2>1, UpdateIds
  <2>3. pending[1].first_update_id > v + 1
    BY <1>1, <1>15, <2>2 DEF Bridges
  <2>4. D[n + Len(pending)] = Rejected(taken)
    <3>1. /\ taken.buffer[1].first_update_id > taken.book.last_update_id + 1
          /\ taken.buffer[1].final_update_id > taken.book.last_update_id
      BY <1>3, <2>2, <2>3
    <3> HIDE DEF D
    <3> QED BY <1>2, <1>3, <1>4, <1>7, <1>11, <1>12, <1>15, <3>1, UnbridgedShown
  <2>5. out.m = Rejected(taken)
    BY <1>9, <1>15
  <2>6. out.m = D[n + Len(pending)]
    BY <2>4, <2>5
  <2>7. out.m = D[Len(m.buffer)]
    BY <1>11, <2>6
  <2> QED BY <1>6, <2>7 DEF out, s
<1> QED BY <1>13, <1>14, <1>15

-----------------------------------------------------------------------------
(* Every update is accounted for once.                                     *)

\* Past its snapshot a manager counts an update once, or counts a gap.
LEMMA UpdateCounted ==
    ASSUME NEW x \in Manager, x.book.initialized, x.status # "WaitingForSnapshot",
           NEW u \in OwnUpdate, NEW y, y = OnUpdate(Feed, x, u).m
    PROVE  /\ y \in Manager /\ y.book.initialized /\ y.status # "WaitingForSnapshot"
           /\ y.buffer = x.buffer
           /\ y.stats.buffered_updates = x.stats.buffered_updates
           /\ NeedResync(x) => y = x
           /\ ~NeedResync(x) /\ NeedResync(y) => y.stats.gaps_detected > 0
           /\ y.stats.gaps_detected = 0 => x.stats.gaps_detected = 0
           /\ ~NeedResync(x) /\ y.stats.gaps_detected = 0 =>
                  y.stats.applied_updates + y.stats.ignored_stale_updates
                      = (x.stats.applied_updates + x.stats.ignored_stale_updates) + 1
<1> DEFINE r == ApplyUpdateResult(x.book, u)
           out == ApplyUpdateToReadyBook(x, u)
<1>1. u \in Update /\ u.feed = Feed
  BY DEF OwnUpdate
<1>2. x.stats \in Stats /\ x.status \in Status
  BY DEF Manager
<1>3. CASE NeedResync(x)
  <2>1. y = x
    BY <1>1, <1>3 DEF OnUpdate
  <2> QED BY <1>3, <2>1
<1>4. CASE ~NeedResync(x)
  <2>1. y = out.m
    BY <1>1, <1>4 DEF OnUpdate
  <2>2. /\ out.m \in Manager /\ out.m.book.initialized /\ out.m.buffer = x.buffer
        /\ out.result \in {"Applied", "IgnoredStale", "GapDetected"}
        /\ out.result = "Applied" => out.m.status = "Ready"
        /\ out.result = "IgnoredStale" => out.m.status = x.status
        /\ out.result = "GapDetected" => out.m.status = "NeedResync"
    BY <1>1, ApplyToReadyBookType
  <2>3. /\ r \in {"Applied", "IgnoredStale", "GapDetected"}
        /\ r = "Applied" =>
               out = [m |-> [x EXCEPT !.book = BookApplyUpdate(x.book, u),
                                      !.status = "Ready",
                                      !.stats = [x.stats EXCEPT !.applied_updates = @ + 1]],
                      result |-> "Applied"]
        /\ r = "IgnoredStale" =>
               out = [m |-> [x EXCEPT !.stats = [x.stats EXCEPT !.ignored_stale_updates = @ + 1]],
                      result |-> "IgnoredStale"]
        /\ r = "GapDetected" =>
               out = [m |-> [x EXCEPT !.status = "NeedResync",
                                      !.stats = [x.stats EXCEPT !.gaps_detected = @ + 1]],
                      result |-> "GapDetected"]
    BY <1>1, ApplyToReadyBookFields
  <2> HIDE DEF r, out
  <2>4. CASE r = "Applied"
    <3>1. out.result = "Applied" /\ y.stats = [x.stats EXCEPT !.applied_updates = @ + 1]
      <4> DEFINE counted == [x.stats EXCEPT !.applied_updates = @ + 1]
      <4>1. out = [m |-> [x EXCEPT !.book = BookApplyUpdate(x.book, u), !.status = "Ready",
                                  !.stats = counted], result |-> "Applied"]
        BY <2>3, <2>4
      <4> HIDE DEF counted
      <4>2. out.result = "Applied" /\ y = [x EXCEPT !.book = BookApplyUpdate(x.book, u), !.status = "Ready",
                                  !.stats = counted]
        BY <2>1, <4>1
      <4>3. y.stats = counted
        BY <4>2 DEF Manager
      <4> QED BY <4>2, <4>3 DEF counted
    <3>2. /\ y.stats.applied_updates = x.stats.applied_updates + 1
          /\ y.stats.ignored_stale_updates = x.stats.ignored_stale_updates
          /\ y.stats.gaps_detected = x.stats.gaps_detected
          /\ y.stats.buffered_updates = x.stats.buffered_updates
          /\ x.stats.applied_updates \in Nat /\ x.stats.ignored_stale_updates \in Nat
      BY <1>2, <3>1 DEF Stats
    <3>3. \A p, q \in Nat : (p + 1) + q = (p + q) + 1
      OBVIOUS
    <3> QED BY <1>4, <2>1, <2>2, <3>1, <3>2, <3>3 DEF NeedResync
  <2>5. CASE r = "IgnoredStale"
    <3>1. out.result = "IgnoredStale"
          /\ y.stats = [x.stats EXCEPT !.ignored_stale_updates = @ + 1]
      BY <2>1, <2>3, <2>5 DEF Manager
    <3>2. /\ y.stats.applied_updates = x.stats.applied_updates
          /\ y.stats.ignored_stale_updates = x.stats.ignored_stale_updates + 1
          /\ y.stats.gaps_detected = x.stats.gaps_detected
          /\ y.stats.buffered_updates = x.stats.buffered_updates
          /\ x.stats.applied_updates \in Nat /\ x.stats.ignored_stale_updates \in Nat
      BY <1>2, <3>1 DEF Stats
    <3>3. \A p, q \in Nat : p + (q + 1) = (p + q) + 1
      OBVIOUS
    <3>4. y.status = x.status
      BY <2>1, <2>2, <3>1
    <3> QED BY <1>4, <2>1, <2>2, <3>1, <3>2, <3>3, <3>4 DEF NeedResync
  <2>6. CASE r = "GapDetected"
    <3>1. out.result = "GapDetected" /\ y.stats = [x.stats EXCEPT !.gaps_detected = @ + 1]
      <4> DEFINE counted == [x.stats EXCEPT !.gaps_detected = @ + 1]
      <4>1. out = [m |-> [x EXCEPT !.status = "NeedResync", !.stats = counted], result |-> "GapDetected"]
        BY <2>3, <2>6
      <4> HIDE DEF counted
      <4>2. out.result = "GapDetected" /\ y = [x EXCEPT !.status = "NeedResync", !.stats = counted]
        BY <2>1, <4>1
      <4>3. y.stats = counted
        BY <4>2 DEF Manager
      <4> QED BY <4>2, <4>3 DEF counted
    <3>2. /\ y.stats.gaps_detected > 0 /\ y.stats.gaps_detected # 0
          /\ y.stats.buffered_updates = x.stats.buffered_updates
      BY <1>2, <3>1 DEF Stats
    <3> QED BY <1>4, <2>1, <2>2, <3>1, <3>2
  <2> QED BY <2>3, <2>4, <2>5, <2>6
<1> QED BY <1>3, <1>4

\* A snapshot settles the account of the buffer.
LEMMA SnapshotCounted ==
    ASSUME NEW m \in Manager, m.buffer \in Seq(OwnUpdate), NEW v \in 0..MaxId,
           NEW y, y = ApplySnapshot(Feed, m, DepthSnapshot(Feed, v)).m
    PROVE  /\ y.stats.buffered_updates = 0
           /\ NeedResync(y) => y.stats.gaps_detected > 0
           /\ y.stats.gaps_detected = 0 =>
                  /\ m.stats.gaps_detected = 0
                  /\ y.stats.applied_updates + y.stats.ignored_stale_updates
                        = (m.stats.applied_updates + m.stats.ignored_stale_updates)
                          + Len(m.buffer)
<1> DEFINE b == m.buffer
           start == Started(m, v)
           D == AfterUpdates(start, b)
           sum == m.stats.applied_updates + m.stats.ignored_stale_updates
           Counted(x, i) ==
               /\ x \in Manager /\ x.book.initialized /\ x.status # "WaitingForSnapshot"
               /\ x.stats.buffered_updates = 0
               /\ NeedResync(x) => x.stats.gaps_detected > 0
               /\ x.stats.gaps_detected = 0 =>
                      /\ m.stats.gaps_detected = 0
                      /\ x.stats.applied_updates + x.stats.ignored_stale_updates = sum + i
           Good == {i \in Nat : i <= Len(b) => Counted(D[i], i)}
<1>1. y = D[Len(b)]
  <2>1. y = SnapshotFirst(m, v)
    BY Transparent
  <2> QED BY <2>1, StartedFields
<1>2. /\ start.stats = [m.stats EXCEPT !.buffered_updates = 0]
      /\ start.status = "Ready" /\ start.book.initialized
      /\ start \in Manager
  <2>1. LET book == BookApplySnapshot(DepthSnapshot(Feed, v))
        IN  /\ start = [book |-> book, buffer |-> <<>>, status |-> "Ready",
                        stats |-> [m.stats EXCEPT !.buffered_updates = 0]]
            /\ start \in Manager
            /\ book.initialized
    BY StartedFields
  <2> HIDE DEF start
  <2> QED BY <2>1
<1>3. b \in Seq(Update) /\ Len(b) \in Nat /\ m.stats \in Stats
      /\ \A i \in 1..Len(b) : b[i] \in OwnUpdate
  BY DEF Manager
<1>4. D[0] = start /\ \A i \in Nat : i < Len(b) => D[i + 1] = OnUpdate(Feed, D[i], b[i + 1]).m
  BY <1>3, AfterUpdatesStep
<1>5. sum \in Nat /\ sum + 0 = sum
  BY <1>3 DEF Stats
<1> HIDE DEF b, D, start
<1>6. 0 \in Good
  <2>1. /\ start.stats.applied_updates = m.stats.applied_updates
        /\ start.stats.ignored_stale_updates = m.stats.ignored_stale_updates
        /\ start.stats.gaps_detected = m.stats.gaps_detected
        /\ start.stats.buffered_updates = 0
    BY <1>2, <1>3 DEF Stats
  <2>2. Counted(start, 0)
    BY <1>2, <1>5, <2>1 DEF NeedResync
  <2> HIDE DEF Counted
  <2> QED BY <1>4, <2>2
<1>7. ASSUME NEW i \in Nat, i \in Good
      PROVE  i + 1 \in Good
  <2> SUFFICES ASSUME i + 1 <= Len(b) PROVE Counted(D[i + 1], i + 1)
    OBVIOUS
  <2> DEFINE x == D[i]
             z == D[i + 1]
             u == b[i + 1]
  <2>1. u \in OwnUpdate /\ z = OnUpdate(Feed, x, u).m
    BY <1>3, <1>4
  <2>2. Counted(x, i)
    BY <1>3, <1>7
  <2> HIDE DEF x, z, u
  <2>3. /\ z \in Manager /\ z.book.initialized /\ z.status # "WaitingForSnapshot"
        /\ z.stats.buffered_updates = x.stats.buffered_updates
        /\ NeedResync(x) => z = x
        /\ ~NeedResync(x) /\ NeedResync(z) => z.stats.gaps_detected > 0
        /\ z.stats.gaps_detected = 0 => x.stats.gaps_detected = 0
        /\ ~NeedResync(x) /\ z.stats.gaps_detected = 0 =>
               z.stats.applied_updates + z.stats.ignored_stale_updates
                   = (x.stats.applied_updates + x.stats.ignored_stale_updates) + 1
    BY <2>1, <2>2, UpdateCounted
  <2> HIDE DEF sum
  <2>4. (sum + i) + 1 = sum + (i + 1)
    BY <1>5
  <2>5. NeedResync(x) => ~(x.stats.gaps_detected = 0)
    BY <2>2
  <2>6. Counted(z, i + 1)
    BY <2>2, <2>3, <2>4, <2>5
  <2> HIDE DEF Counted
  <2> QED BY <2>6 DEF z
<1>8. Nat \subseteq Good
  <2> HIDE DEF Good
  <2> QED BY <1>6, <1>7, SetInduction
<1>9. Counted(y, Len(b))
  <2> HIDE DEF Counted
  <2> QED BY <1>1, <1>3, <1>8
<1> QED BY <1>9 DEF b

\* A buffered update is counted in the buffer, or pushes another one out of it.
LEMMA BufferCounted ==
    ASSUME NEW m \in Manager, Len(m.buffer) <= MaxBufferedUpdates,
           m.buffer \in Seq(OwnUpdate), NEW u \in OwnUpdate,
           NEW y, y = BufferUpdate(m, u)
    PROVE  /\ y.status = m.status
           /\ y.buffer \in Seq(OwnUpdate)
           /\ y.stats.buffered_updates = Len(y.buffer)
           /\ y.stats.applied_updates = m.stats.applied_updates
           /\ y.stats.ignored_stale_updates = m.stats.ignored_stale_updates
           /\ y.stats.gaps_detected = m.stats.gaps_detected
           /\ Len(y.buffer) = IF Len(m.buffer) = MaxBufferedUpdates THEN Len(m.buffer)
                              ELSE Len(m.buffer) + 1
<1> DEFINE grown == Append(m.buffer, u)
           kept == IF Len(grown) > MaxBufferedUpdates THEN Tail(grown) ELSE grown
           stats == [m.stats EXCEPT !.buffered_updates = Len(kept)]
<1>1. Len(m.buffer) \in Nat /\ m.stats \in Stats
  BY DEF Manager
<1>2. grown \in Seq(OwnUpdate) /\ Len(grown) = Len(m.buffer) + 1 /\ grown # <<>>
  OBVIOUS
<1>3. Tail(grown) \in Seq(OwnUpdate) /\ Len(Tail(grown)) = Len(m.buffer)
  BY <1>1, <1>2
<1> HIDE DEF grown
<1>4. kept \in Seq(OwnUpdate)
      /\ Len(kept) = IF Len(m.buffer) = MaxBufferedUpdates THEN Len(m.buffer)
                     ELSE Len(m.buffer) + 1
  BY <1>1, <1>2, <1>3, BufferAssumption
<1>5. y = [m EXCEPT !.buffer = kept, !.stats = stats]
  BY DEF BufferUpdate, Manager, grown
<1> HIDE DEF kept
<1>6. /\ stats.buffered_updates = Len(kept)
      /\ stats.applied_updates = m.stats.applied_updates
      /\ stats.ignored_stale_updates = m.stats.ignored_stale_updates
      /\ stats.gaps_detected = m.stats.gaps_detected
  BY <1>1 DEF Stats
<1> HIDE DEF stats
<1>7. y.buffer = kept /\ y.stats = stats /\ y.status = m.status
  BY <1>5 DEF Manager
<1> QED BY <1>4, <1>6, <1>7

-----------------------------------------------------------------------------
(* The invariant.                                                          *)

\* Without a snapshot there are no levels.
NoBookIsEmpty == ~manager.book.initialized => manager.book = EmptyBook

\* Only updates of the manager's own feed wait in the buffer.
BufferIsOwn == manager.buffer \in Seq(OwnUpdate)

\* The inductive invariant.  BookMatchesExchange needs the status (only an
\* initialized book takes updates) and the type of what is buffered (only updates
\* of the exchange are replayed); the account of the updates needs to know that
\* what is replayed is of the manager's own feed, and that the buffer is counted
\* right when it overflows.
IInv ==
    /\ TypeOK
    /\ StatusMatchesBook
    /\ BookMatchesExchange
    /\ NoBookIsEmpty
    /\ BufferIsOwn
    /\ EveryUpdateAccounted

LEMMA ResetIInv ==
    ASSUME manager' = NewManager, result' = "None",
           base' = 0, received' = 0, overflowed' = 0
    PROVE  IInv'
<1>1. NewManager.book = EmptyBook /\ ~EmptyBook.initialized
  BY DEF NewManager, EmptyBook
<1>2. /\ NewManager.status = "WaitingForSnapshot"
      /\ NewManager.buffer = <<>>
      /\ NewManager \in Manager
  BY NewManagerType DEF NewManager
<1>3. TypeOK'
  BY <1>2, MaxIdAssumption DEF TypeOK
<1>4. StatusMatchesBook'
  BY <1>1, <1>2, BufferAssumption DEF StatusMatchesBook
<1>5. BookMatchesExchange' /\ NoBookIsEmpty'
  BY <1>1 DEF BookMatchesExchange, NoBookIsEmpty
<1>6. BufferIsOwn' /\ EveryUpdateAccounted'
  BY <1>2 DEF BufferIsOwn, EveryUpdateAccounted, NewManager, NoStats, NeedResync
<1> QED BY <1>3, <1>4, <1>5, <1>6 DEF IInv

LEMMA InitIInv == Init => IInv
<1> SUFFICES ASSUME Init PROVE IInv
  OBVIOUS
<1>1. NewManager.book = EmptyBook /\ ~EmptyBook.initialized
  BY DEF NewManager, EmptyBook
<1>2. /\ NewManager.status = "WaitingForSnapshot"
      /\ NewManager.buffer = <<>>
      /\ NewManager \in Manager
  BY NewManagerType DEF NewManager
<1>3. TypeOK
  BY <1>2, MaxIdAssumption DEF Init, TypeOK
<1>4. StatusMatchesBook
  BY <1>1, <1>2, BufferAssumption DEF Init, StatusMatchesBook
<1>5. BookMatchesExchange /\ NoBookIsEmpty
  BY <1>1 DEF Init, BookMatchesExchange, NoBookIsEmpty
<1>6. BufferIsOwn /\ EveryUpdateAccounted
  BY <1>2 DEF Init, BufferIsOwn, EveryUpdateAccounted, NewManager, NoStats, NeedResync
<1> QED BY <1>3, <1>4, <1>5, <1>6 DEF IInv

\* A step on an update keeps the account, and buffers none but the feed's own.
LEMMA UpdateKeepsAccount ==
    ASSUME IInv, NEW f \in Feeds, NEW r \in UpdateRange, ReceiveUpdate(f, r[1], r[2])
    PROVE  EveryUpdateAccounted' /\ BufferIsOwn'
<1> DEFINE u == DepthUpdate(f, r[1], r[2])
           out == OnUpdate(Feed, manager, u)
           sum == manager.stats.applied_updates + manager.stats.ignored_stale_updates
           buffered == manager.stats.buffered_updates
<1>1. u \in Update /\ u.feed = f
  BY DepthUpdateIsUpdate
<1>2. /\ manager \in Manager /\ Len(manager.buffer) <= MaxBufferedUpdates
      /\ manager.book.initialized <=> manager.status # "WaitingForSnapshot"
      /\ manager.buffer \in Seq(OwnUpdate) /\ manager.stats \in Stats
      /\ received \in Nat /\ overflowed \in Nat
      /\ manager.status \in Status /\ Len(manager.buffer) \in Nat
  BY DEF IInv, TypeOK, StatusMatchesBook, BufferIsOwn, Manager
<1>3. /\ buffered = Len(manager.buffer)
      /\ manager.stats.gaps_detected = 0 => received = sum + buffered + overflowed
      /\ NeedResync(manager) => manager.stats.gaps_detected > 0
  BY DEF IInv, EveryUpdateAccounted
<1>4. /\ manager' = out.m
      /\ received' = IF f = Feed /\ ~NeedResync(manager) THEN received + 1 ELSE received
      /\ overflowed' = IF out.result = "Buffered" /\ Len(manager.buffer) = MaxBufferedUpdates
                       THEN overflowed + 1 ELSE overflowed
  BY DEF ReceiveUpdate
<1>5. sum \in Nat /\ buffered \in Nat
  BY <1>2 DEF Stats
<1> HIDE DEF u, out
<1>6. CASE f # Feed \/ NeedResync(manager)
  <2>1. out.m = manager /\ out.result # "Buffered"
    BY <1>1, <1>6 DEF OnUpdate, out
  <2>2. manager' = manager /\ received' = received /\ overflowed' = overflowed
    BY <1>4, <1>6, <2>1
  <2> QED BY <2>2 DEF IInv, EveryUpdateAccounted, BufferIsOwn
<1>7. CASE f = Feed /\ manager.status = "WaitingForSnapshot"
  <2>1. u \in OwnUpdate
    BY <1>1, <1>7 DEF OwnUpdate
  <2>2. out.m = BufferUpdate(manager, u) /\ out.result = "Buffered" /\ ~NeedResync(manager)
    BY <1>1, <1>7 DEF OnUpdate, NeedResync, out
  <2>3. /\ manager'.status = "WaitingForSnapshot"
        /\ manager'.buffer \in Seq(OwnUpdate)
        /\ manager'.stats.buffered_updates = Len(manager'.buffer)
        /\ manager'.stats.applied_updates = manager.stats.applied_updates
        /\ manager'.stats.ignored_stale_updates = manager.stats.ignored_stale_updates
        /\ manager'.stats.gaps_detected = manager.stats.gaps_detected
        /\ Len(manager'.buffer) = IF Len(manager.buffer) = MaxBufferedUpdates
                                  THEN Len(manager.buffer) ELSE Len(manager.buffer) + 1
    BY <1>2, <1>4, <1>7, <2>1, <2>2, BufferCounted
  <2>4. /\ received' = received + 1
        /\ overflowed' = IF Len(manager.buffer) = MaxBufferedUpdates
                         THEN overflowed + 1 ELSE overflowed
    BY <1>4, <1>7, <2>2
  <2>5. manager'.stats.applied_updates + manager'.stats.ignored_stale_updates = sum
    BY <2>3
  <2> HIDE DEF sum, buffered
  <2>6. manager'.stats.gaps_detected = 0 =>
          received' = sum + manager'.stats.buffered_updates + overflowed'
    <3> SUFFICES ASSUME manager.stats.gaps_detected = 0
                 PROVE  received' = sum + manager'.stats.buffered_updates + overflowed'
      BY <2>3
    <3> DEFINE k == Len(manager.buffer)
    <3>1. received' = (sum + k + overflowed) + 1 /\ k \in Nat
      BY <1>2, <1>3, <2>4
    <3>2. \/ manager'.stats.buffered_updates = k /\ overflowed' = overflowed + 1
          \/ manager'.stats.buffered_updates = k + 1 /\ overflowed' = overflowed
      BY <2>3, <2>4
    <3> HIDE DEF k
    <3>3. /\ sum + k + (overflowed + 1) = (sum + k + overflowed) + 1
          /\ sum + (k + 1) + overflowed = (sum + k + overflowed) + 1
      BY <1>2, <1>5, <3>1
    <3>4. CASE manager'.stats.buffered_updates = k /\ overflowed' = overflowed + 1
      BY <3>1, <3>3, <3>4
    <3>5. CASE manager'.stats.buffered_updates = k + 1 /\ overflowed' = overflowed
      BY <3>1, <3>3, <3>5
    <3> QED BY <3>2, <3>4, <3>5
  <2>7. EveryUpdateAccounted'
    BY <2>3, <2>5, <2>6 DEF EveryUpdateAccounted, NeedResync
  <2> QED BY <2>3, <2>7 DEF BufferIsOwn
<1>8. CASE f = Feed /\ Ready(manager)
  <2>1. u \in OwnUpdate /\ ~NeedResync(manager) /\ manager.status # "WaitingForSnapshot"
    BY <1>1, <1>8 DEF OwnUpdate, Ready, NeedResync
  <2>2. out.result # "Buffered"
    <3>1. Ready(manager) => manager.book.initialized
      BY <1>2, <2>1
    <3>2. out.result \in {"Applied", "IgnoredStale", "GapDetected"}
      BY <1>1, <1>2, <1>8, <3>1, OnOwnUpdate DEF out
    <3> QED BY <3>2
  <2>3. /\ manager'.buffer = manager.buffer
        /\ manager'.stats.buffered_updates = buffered
        /\ NeedResync(manager') => manager'.stats.gaps_detected > 0
        /\ manager'.stats.gaps_detected = 0 =>
               /\ manager.stats.gaps_detected = 0
               /\ manager'.stats.applied_updates + manager'.stats.ignored_stale_updates
                      = sum + 1
    BY <1>2, <1>4, <2>1, UpdateCounted DEF out
  <2>4. received' = received + 1 /\ overflowed' = overflowed
    BY <1>4, <1>8, <2>1, <2>2
  <2> HIDE DEF sum, buffered
  <2>5. (sum + 1) + buffered + overflowed = (sum + buffered + overflowed) + 1
    BY <1>2, <1>5
  <2>6. EveryUpdateAccounted'
    BY <1>3, <2>3, <2>4, <2>5 DEF EveryUpdateAccounted
  <2> QED BY <1>2, <2>3, <2>6 DEF BufferIsOwn
<1> QED BY <1>2, <1>6, <1>7, <1>8 DEF Ready, NeedResync, Status

\* A step on an update: the invariant, and what the two action properties ask.
LEMMA UpdateStep ==
    ASSUME IInv, NEW f \in Feeds, NEW r \in UpdateRange, ReceiveUpdate(f, r[1], r[2])
    PROVE  /\ IInv'
           /\ \/ manager'.book = manager.book
              \/ /\ Ready(manager) /\ Ready(manager')
                 /\ manager'.book.last_update_id > manager.book.last_update_id
           /\ ~Ready(manager) => ~Ready(manager')
<1> DEFINE u == DepthUpdate(f, r[1], r[2])
<1>1. u \in Update
  BY DEF Update
<1> HIDE DEF u
<1>2. /\ manager \in Manager /\ Len(manager.buffer) <= MaxBufferedUpdates
      /\ manager.status \in Status
      /\ Ready(manager) => manager.book.initialized
  BY DEF IInv, TypeOK, StatusMatchesBook, Ready, Manager
<1>3. PICK out : out = OnUpdate(Feed, manager, u)
  OBVIOUS
<1>4. manager' = out.m /\ result' = out.result /\ base' = base
  BY <1>3 DEF ReceiveUpdate, u
<1>5. received' \in Nat /\ overflowed' \in Nat
  BY DEF ReceiveUpdate, IInv, TypeOK
<1>6. /\ manager' \in Manager
      /\ result' \in UpdateResult
      /\ Len(manager'.buffer) <= MaxBufferedUpdates
      /\ ~Ready(manager) => manager'.book = manager.book /\ manager'.status = manager.status
      /\ NeedResync(manager) => manager' = manager
      /\ Ready(manager) => /\ manager'.status \in {"Ready", "NeedResync"}
                           /\ manager'.buffer = manager.buffer
                           /\ manager'.book \in {manager.book, BookApplyUpdate(manager.book, u)}
                           /\ manager'.book.initialized
                           /\ \/ manager'.book = manager.book
                              \/ /\ manager'.status = "Ready"
                                 /\ manager'.book.last_update_id
                                       > manager.book.last_update_id
  BY <1>1, <1>2, <1>3, <1>4, OnUpdateType
<1>7. TypeOK'
  BY <1>4, <1>5, <1>6 DEF IInv, TypeOK
<1>8. StatusMatchesBook'
  BY <1>2, <1>6 DEF IInv, StatusMatchesBook, Ready, NeedResync, Status
<1>9. BookMatchesExchange'
  <2> SUFFICES ASSUME manager'.book.initialized PROVE BookMatches(manager'.book, base)
    BY <1>4 DEF BookMatchesExchange
  <2>1. manager.book.initialized /\ BookMatches(manager.book, base)
    BY <1>2, <1>6 DEF IInv, BookMatchesExchange
  <2>2. BookMatches(BookApplyUpdate(manager.book, u), base)
    <3>1. manager.book \in Book
      BY <1>2 DEF Manager
    <3> QED BY <1>1, <2>1, <3>1, UpdateKeepsMatch
  <2> QED BY <1>6, <2>1, <2>2
<1>10. NoBookIsEmpty'
  BY <1>6 DEF IInv, NoBookIsEmpty
<1>11. EveryUpdateAccounted' /\ BufferIsOwn'
  BY UpdateKeepsAccount
<1> QED BY <1>6, <1>7, <1>8, <1>9, <1>10, <1>11 DEF IInv, Ready

\* A snapshot of the feed keeps the account too: what it drops and replays leaves
\* the buffer for the other statistics.
LEMMA SnapshotKeepsAccount ==
    ASSUME IInv, NEW v \in 0..MaxId,
           manager' = ApplySnapshot(Feed, manager, DepthSnapshot(Feed, v)).m,
           manager'.buffer = <<>>, received' = received, overflowed' = overflowed
    PROVE  EveryUpdateAccounted'
<1> DEFINE sum == manager.stats.applied_updates + manager.stats.ignored_stale_updates
<1>1. /\ manager \in Manager /\ manager.buffer \in Seq(OwnUpdate) /\ manager.stats \in Stats
      /\ Len(manager.buffer) \in Nat /\ overflowed \in Nat
  BY DEF IInv, TypeOK, BufferIsOwn, Manager
<1>2. /\ manager.stats.buffered_updates = Len(manager.buffer)
      /\ manager.stats.gaps_detected = 0 =>
             received = sum + manager.stats.buffered_updates + overflowed
  BY DEF IInv, EveryUpdateAccounted
<1>3. /\ manager'.stats.buffered_updates = 0
      /\ NeedResync(manager') => manager'.stats.gaps_detected > 0
      /\ manager'.stats.gaps_detected = 0 =>
             /\ manager.stats.gaps_detected = 0
             /\ manager'.stats.applied_updates + manager'.stats.ignored_stale_updates
                    = sum + Len(manager.buffer)
  BY <1>1, SnapshotCounted
<1>4. sum \in Nat
  BY <1>1 DEF Stats
<1> HIDE DEF sum
<1>5. sum + Len(manager.buffer) + overflowed = (sum + Len(manager.buffer)) + 0 + overflowed
  BY <1>1, <1>4
<1> QED BY <1>2, <1>3, <1>5 DEF EveryUpdateAccounted

LEMMA SnapshotStep ==
    ASSUME IInv, NEW f \in Feeds, NEW v \in 0..MaxId, ReceiveSnapshot(f, v)
    PROVE  IInv'
<1>1. PICK out : out = ApplySnapshot(Feed, manager, DepthSnapshot(f, v))
  OBVIOUS
<1>2. /\ manager' = out.m /\ result' = out.result
      /\ received' = received /\ overflowed' = overflowed
      /\ base' = IF f = Feed THEN v ELSE base
  BY <1>1 DEF ReceiveSnapshot
<1>3. CASE f # Feed
  <2>1. DepthSnapshot(f, v).feed # Feed
    BY <1>3 DEF DepthSnapshot
  <2>2. manager' = manager /\ result' = "NotForSymbol" /\ base' = base
    BY <1>1, <1>2, <1>3, <2>1 DEF ApplySnapshot
  <2> QED BY <1>2, <2>2
       DEF IInv, TypeOK, UpdateResult, StatusMatchesBook, BookMatchesExchange, NoBookIsEmpty,
           BufferIsOwn, EveryUpdateAccounted
<1>4. CASE f = Feed
  <2>1. /\ manager' \in Manager
        /\ result' \in {"SnapshotApplied", "SnapshotRejected", "GapDetected"}
        /\ manager'.status \in {"Ready", "NeedResync"}
        /\ manager'.buffer = <<>>
        /\ manager'.book.initialized
        /\ BookMatches(manager'.book, v)
    BY <1>1, <1>2, <1>4, ApplySnapshotType DEF IInv, TypeOK
  <2>2. TypeOK'
    BY <1>2, <1>4, <2>1 DEF IInv, TypeOK, UpdateResult
  <2>3. StatusMatchesBook'
    BY <2>1, BufferAssumption DEF StatusMatchesBook
  <2>4. BookMatchesExchange' /\ NoBookIsEmpty'
    BY <1>2, <1>4, <2>1 DEF BookMatchesExchange, NoBookIsEmpty
  <2>5. BufferIsOwn'
    BY <2>1 DEF BufferIsOwn
  <2>6. EveryUpdateAccounted'
    BY <1>1, <1>2, <1>4, <2>1, SnapshotKeepsAccount
  <2> QED BY <2>2, <2>3, <2>4, <2>5, <2>6 DEF IInv
<1> QED BY <1>3, <1>4

LEMMA NextIInv == IInv /\ [Next]_vars => IInv'
<1> SUFFICES ASSUME IInv, [Next]_vars PROVE IInv'
  OBVIOUS
<1>1. CASE SomeUpdate
  BY <1>1, UpdateStep DEF SomeUpdate
<1>2. CASE SomeSnapshot
  BY <1>2, SnapshotStep DEF SomeSnapshot
<1>3. CASE ResetManager
  BY <1>3, ResetIInv DEF ResetManager, Reset
<1>4. CASE UNCHANGED vars
  BY <1>4 DEF vars, IInv, TypeOK, StatusMatchesBook, BookMatchesExchange, NoBookIsEmpty,
              BufferIsOwn, EveryUpdateAccounted
<1> QED BY <1>1, <1>2, <1>3, <1>4 DEF Next

LEMMA Inductive == Spec => []IInv
BY InitIInv, NextIInv, PTL DEF Spec

-----------------------------------------------------------------------------
\* The members of a manager keep their types.
THEOREM TypeCorrect == Spec => []TypeOK
<1>1. IInv => TypeOK
  BY DEF IInv
<1> QED BY <1>1, Inductive, PTL

\* The status says what book() and the buffer hold.
THEOREM StatusSound == Spec => []StatusMatchesBook
<1>1. IInv => StatusMatchesBook
  BY DEF IInv
<1> QED BY <1>1, Inductive, PTL

\* Every initialized book is the exchange's book as of its last_update_id, down to
\* the cut of its last snapshot.
THEOREM BooksMatch == Spec => []BookMatchesExchange
<1>1. IInv => BookMatchesExchange
  BY DEF IInv
<1> QED BY <1>1, Inductive, PTL

\* No local book is crossed, because the exchange's never is.
THEOREM NoneCrossed == Spec => []NeverCrossed
<1>1. ASSUME IInv
      PROVE  NeverCrossed
  <2> DEFINE book == manager.book
  <2>1. CASE ~book.initialized
    <3>1. Quoted(book.bids) = {}
      BY <1>1, <2>1 DEF IInv, NoBookIsEmpty, EmptyBook, EmptySide, Quoted
    <3> QED BY <3>1 DEF NeverCrossed
  <2>2. CASE book.initialized
    <3> DEFINE true == Truth[book.last_update_id]
    <3>1. BookMatches(book, base)
      BY <1>1, <2>2 DEF IInv, BookMatchesExchange
    <3>2. /\ Quoted(book.bids) \subseteq Quoted(true.bids)
          /\ Quoted(book.asks) \subseteq Quoted(true.asks)
      BY <3>1 DEF BookMatches, SideMatches, Quoted
    <3>3. \A b \in Quoted(true.bids), a \in Quoted(true.asks) : b < a
      BY <3>1, TruthNotCrossed DEF BookMatches
    <3> QED BY <3>2, <3>3 DEF NeverCrossed
  <2> QED BY <2>1, <2>2
<1> QED BY <1>1, Inductive, PTL

\* Above the cut of the last snapshot a book has the exchange's best quotes, and nowhere a
\* better one.
THEOREM BestIsBest == Spec => []TopOfBookExact
<1>1. ASSUME IInv
      PROVE  TopOfBookExact
  <2> DEFINE book == manager.book
             true == Truth[book.last_update_id]
  <2> SUFFICES ASSUME Ready(manager)
               PROVE  /\ BestBid(book.bids) \cap CoveredBids(base)
                            = BestBid(true.bids) \cap CoveredBids(base)
                      /\ BestAsk(book.asks) \cap CoveredAsks(base)
                            = BestAsk(true.asks) \cap CoveredAsks(base)
                      /\ \A p \in BestBid(book.bids), q \in BestBid(true.bids) : p <= q
                      /\ \A p \in BestAsk(book.asks), q \in BestAsk(true.asks) : p >= q
    BY DEF TopOfBookExact
  <2>1. BookMatches(book, base)
    BY <1>1 DEF IInv, StatusMatchesBook, BookMatchesExchange, Ready
  <2>2. /\ Quoted(book.bids) \subseteq Quoted(true.bids)
        /\ Quoted(book.asks) \subseteq Quoted(true.asks)
    BY <2>1 DEF BookMatches, SideMatches, Quoted
  <2>3. ASSUME NEW p \in BestBid(book.bids) \cap CoveredBids(base)
        PROVE  p \in BestBid(true.bids)
    <3>1. p \in Quoted(true.bids)
      BY <2>1 DEF BookMatches, SideMatches, BestBid, Quoted
    <3>2. ASSUME NEW b \in Quoted(true.bids), ~(b <= p)
          PROVE  FALSE
      <4>1. b \in Price /\ p <= b
        BY <3>2, PriceAssumption DEF Quoted, BestBid
      <4>2. b \in CoveredBids(base)
        BY <4>1, CoveredBidsUpward
      <4>3. book.bids[b] = true.bids[b]
        BY <2>1, <4>1, <4>2 DEF BookMatches, SideMatches
      <4>4. b \in Quoted(book.bids)
        BY <4>1, <4>3 DEF Quoted
      <4> QED BY <3>2, <4>4 DEF BestBid
    <3> QED BY <3>1, <3>2 DEF BestBid
  <2>4. ASSUME NEW p \in BestAsk(book.asks) \cap CoveredAsks(base)
        PROVE  p \in BestAsk(true.asks)
    <3>1. p \in Quoted(true.asks)
      BY <2>1 DEF BookMatches, SideMatches, BestAsk, Quoted
    <3>2. ASSUME NEW a \in Quoted(true.asks), ~(p <= a)
          PROVE  FALSE
      <4>1. a \in Price /\ a <= p
        BY <3>2, PriceAssumption DEF Quoted, BestAsk
      <4>2. a \in CoveredAsks(base)
        BY <4>1, CoveredAsksDownward
      <4>3. book.asks[a] = true.asks[a]
        BY <2>1, <4>1, <4>2 DEF BookMatches, SideMatches
      <4>4. a \in Quoted(book.asks)
        BY <4>1, <4>3 DEF Quoted
      <4> QED BY <3>2, <4>4 DEF BestAsk
    <3> QED BY <3>1, <3>2 DEF BestAsk
  <2>5. ASSUME NEW p \in BestBid(true.bids) \cap CoveredBids(base)
        PROVE  p \in BestBid(book.bids)
    <3>1. p \in Price /\ book.bids[p] = true.bids[p]
      BY <2>1 DEF BookMatches, SideMatches, BestBid, Quoted
    <3>2. p \in Quoted(book.bids)
      BY <3>1 DEF BestBid, Quoted
    <3> QED BY <2>2, <3>2 DEF BestBid
  <2>6. ASSUME NEW p \in BestAsk(true.asks) \cap CoveredAsks(base)
        PROVE  p \in BestAsk(book.asks)
    <3>1. p \in Price /\ book.asks[p] = true.asks[p]
      BY <2>1 DEF BookMatches, SideMatches, BestAsk, Quoted
    <3>2. p \in Quoted(book.asks)
      BY <3>1 DEF BestAsk, Quoted
    <3> QED BY <2>2, <3>2 DEF BestAsk
  <2>7. \A p \in BestBid(book.bids), q \in BestBid(true.bids) : p <= q
    BY <2>2 DEF BestBid
  <2>8. \A p \in BestAsk(book.asks), q \in BestAsk(true.asks) : p >= q
    <3> SUFFICES ASSUME NEW p \in BestAsk(book.asks), NEW q \in BestAsk(true.asks)
                 PROVE  p >= q
      OBVIOUS
    <3>1. q <= p /\ p \in Int /\ q \in Int
      BY <2>2, PriceAssumption DEF BestAsk, Quoted
    <3> QED BY <3>1
  <2>9. BestBid(book.bids) \cap CoveredBids(base) = BestBid(true.bids) \cap CoveredBids(base)
    BY <2>3, <2>5, Zenon
  <2>10. BestAsk(book.asks) \cap CoveredAsks(base) = BestAsk(true.asks) \cap CoveredAsks(base)
    BY <2>4, <2>6, Zenon
  <2> QED BY <2>7, <2>8, <2>9, <2>10
<1> QED BY <1>1, Inductive, PTL

\* Every update taken in is applied, ignored, buffered or pushed out, exactly once,
\* until a gap is counted.
THEOREM AllAccounted == Spec => []EveryUpdateAccounted
<1>1. IInv => EveryUpdateAccounted
  BY DEF IInv
<1> QED BY <1>1, Inductive, PTL

\* apply_snapshot leaves what the buffered updates would have left had they come
\* after the snapshot.
THEOREM BufferingTransparent == Spec => []BufferingIsTransparent
<1>1. IInv => BufferingIsTransparent
  BY Transparent DEF IInv, TypeOK, BufferIsOwn, BufferingIsTransparent
<1> QED BY <1>1, Inductive, PTL

\* No step on an update takes the book back, or makes it ready again.
THEOREM MovesForward == Spec => UpdatesMoveForward
<1>1. IInv /\ [Next]_vars =>
        [SomeUpdate =>
            /\ \/ manager'.book = manager.book
               \/ /\ Ready(manager) /\ Ready(manager')
                  /\ manager'.book.last_update_id > manager.book.last_update_id
            /\ ~Ready(manager) => ~Ready(manager')]_vars
  BY UpdateStep DEF SomeUpdate
<1> QED BY <1>1, Inductive, PTL DEF Spec, UpdatesMoveForward
=============================================================================
