---------------------------- MODULE Startup_proofs ----------------------------
(***************************************************************************)
(* From the arguments to the open connections, for every configuration     *)
(* file, every list of symbols and every limit of streams: what the planner*)
(* promises of one call reaches the connections a mode opens, and the      *)
(* errors of a mode of one exchange reach the handler of main().           *)
(*                                                                         *)
(* The planner comes first, by itself: its groups follow on each other,    *)
(* only a limit of zero is refused, and each stream is on exactly one      *)
(* connection.                                                             *)
(***************************************************************************)
EXTENDS PlainFeed, SequenceTheorems, FiniteSetTheorems, TLAPS

-----------------------------------------------------------------------------
(* SubscriptionPlanner::plan.                                              *)

\* Past the first group the index is at least the limit, and so the limit is less than
\* the number of symbols: i + max_streams stays below the word size.
IndexBound ==
    /\ pc = "threw" => max_streams = 0
    /\ pc = "loop" => max_streams # 0 /\ (i = 0 \/ max_streams <= i)
    /\ pc = "begin" => i = 0
    /\ pc = "returned" => i >= Len(symbols)

\* Every stream in the groups is that of a symbol the loop is past, ...
StreamsOfPast ==
    \A k \in DOMAIN groups : \A m \in DOMAIN groups[k].streams :
        \E a \in DOMAIN symbols : a <= i /\ groups[k].streams[m] = Stream(exchange, symbols[a])

\* ... and every symbol the loop is past has its stream there, ...
PastIsCovered ==
    \A a \in DOMAIN symbols : a <= i => \E k \in DOMAIN groups : OnConnection(symbols[a], k)

\* ... on no two connections.
ConnectionsDisjoint ==
    NoAliases =>
        \A k, j \in DOMAIN groups :
            \A m \in DOMAIN groups[k].streams, l \in DOMAIN groups[j].streams :
                groups[k].streams[m] = groups[j].streams[l] => k = j

IInv ==
    /\ TypeOK
    /\ IndexBound
    /\ StreamsOfPast
    /\ PastIsCovered
    /\ ConnectionsDisjoint

\* The remainder of a number below the divisor.
LEMMA SmallModulo ==
    ASSUME NEW a \in Nat, NEW n \in Nat \ {0}, a < n
    PROVE  a % n = a
OBVIOUS

LEMMA SmallerBound ==
    ASSUME NEW a \in Nat, NEW b \in Nat
    PROVE  /\ SmallerOf(a, b) \in Nat /\ SmallerOf(a, b) <= a
           /\ \A c \in Nat : c <= a /\ c <= b => c <= SmallerOf(a, b)
BY DEF SmallerOf

\* The sums of the loop are below the word size, as a list is no longer than half of it,
\* and the group that is added is not empty.
LEMMA NoWrap ==
    ASSUME TypeOK, IndexBound, pc = "loop", i < Len(symbols)
    PROVE  /\ max_streams \in Nat \ {0}
           /\ Advances = i + max_streams
           /\ GroupEnd = SmallerOf(i + max_streams, Len(symbols))
           /\ GroupEnd \in (i + 1)..Len(symbols)
<1>1. symbols \in Seq(Symbol) /\ 2 * Len(symbols) <= WordSize /\ Len(symbols) \in Nat
  BY ListAssumption DEF TypeOK
<1>2. max_streams \in Nat \ {0} /\ max_streams < WordSize /\ WordSize \in Nat \ {0}
  BY LimitAssumption, WordAssumption DEF TypeOK, IndexBound
<1>3. i + max_streams \in Nat /\ i + max_streams < WordSize
  BY <1>1, <1>2 DEF TypeOK, IndexBound
<1>4. (i + max_streams) % WordSize = i + max_streams
  BY <1>2, <1>3, SmallModulo
<1> QED BY <1>1, <1>2, <1>4 DEF Advances, GroupEnd, SmallerOf, TypeOK

\* The symbols of the group that is added, and their streams.
LEMMA GroupContents ==
    ASSUME TypeOK, IndexBound, pc = "loop", i < Len(symbols)
    PROVE  /\ Grouped \in Seq(Symbol)
           /\ Len(Grouped) = GroupEnd - i
           /\ \A k \in 1..(GroupEnd - i) : Grouped[k] = symbols[i + k] /\ i + k \in DOMAIN symbols
           /\ Group \in GroupType
           /\ DOMAIN Group.streams = 1..(GroupEnd - i)
           /\ \A k \in 1..(GroupEnd - i) : Group.streams[k] = Stream(exchange, symbols[i + k])
<1>1. GroupEnd \in (i + 1)..Len(symbols) /\ i \in Nat
  BY NoWrap DEF TypeOK
<1>2. symbols \in Seq(Symbol)
  BY ListAssumption DEF TypeOK
<1> DEFINE end == GroupEnd
<1> HIDE DEF end
<1>3. end \in (i + 1)..Len(symbols)
  BY <1>1 DEF end
<1>4. /\ SubSeq(symbols, i + 1, end) \in Seq(Symbol)
      /\ Len(SubSeq(symbols, i + 1, end)) = end - i
      /\ \A k \in 1..(end - i) : SubSeq(symbols, i + 1, end)[k] = symbols[i + k] /\ i + k \in 1..Len(symbols)
  BY <1>1, <1>2, <1>3
<1>5. /\ Grouped \in Seq(Symbol)
      /\ Len(Grouped) = GroupEnd - i
      /\ \A k \in 1..(GroupEnd - i) : Grouped[k] = symbols[i + k] /\ i + k \in DOMAIN symbols
  BY <1>2, <1>4 DEF Grouped, end
<1> DEFINE streams == [k \in DOMAIN Grouped |-> Stream(exchange, Grouped[k])]
<1>6. DOMAIN Grouped = 1..(GroupEnd - i) /\ GroupEnd - i \in Nat
  BY <1>1, <1>5
<1>7. \A s \in Symbol : Stream(exchange, s) \in Exchanges \X {Fold[t] : t \in Symbol}
  BY DEF Stream, TypeOK
<1>8. \A k \in DOMAIN Grouped : Grouped[k] \in Symbol
  BY <1>5
<1>9. streams \in Seq(Exchanges \X {Fold[t] : t \in Symbol})
  <2> DEFINE T == Exchanges \X {Fold[t] : t \in Symbol}
             n == GroupEnd - i
  <2>1. \A k \in DOMAIN Grouped : Stream(exchange, Grouped[k]) \in T
    BY <1>7, <1>8
  <2>2. DOMAIN Grouped = 1..n /\ n \in Nat
    BY <1>6
  <2> HIDE DEF T, n
  <2>3. streams \in [1..n -> T]
    BY <2>1, <2>2
  <2>4. streams \in Seq(T)
    BY <2>2, <2>3
  <2> QED BY <2>4 DEF T
<1>10. /\ DOMAIN streams = 1..(GroupEnd - i)
       /\ \A k \in 1..(GroupEnd - i) : streams[k] = Stream(exchange, symbols[i + k])
  BY <1>5, <1>6
<1>11. Group.streams = streams
  BY DEF Group
<1>12. Group \in GroupType
  <2>1. Len(groups) \in Nat
    BY DEF TypeOK
  <2> HIDE DEF streams
  <2>2. Group = [exchange |-> exchange, connection_index |-> Len(groups), symbols |-> Grouped,
                 streams |-> streams,
                 websocket_target |-> IF exchange = "binance" THEN streams ELSE <<>>]
    BY DEF Group, streams
  <2>3. (IF exchange = "binance" THEN streams ELSE <<>>) \in Seq(Exchanges \X {Fold[t] : t \in Symbol})
    BY <1>9
  <2> QED BY <1>5, <1>9, <2>1, <2>2, <2>3 DEF GroupType, TypeOK
<1> QED BY <1>5, <1>10, <1>11, <1>12

LEMMA InitIInv == Init => IInv
BY DEF Init, IInv, TypeOK, IndexBound, StreamsOfPast, PastIsCovered, ConnectionsDisjoint

\* One more group keeps the invariant.
LEMMA GroupAdded ==
    ASSUME IInv, AddsGroup
    PROVE  IInv' /\ pc' = "loop" /\ i' > i
<1> USE DEF IInv
<1>1. pc = "loop" /\ i < Len(symbols) /\ i \in Nat /\ groups \in Seq(GroupType)
  BY DEF AddsGroup, TypeOK
<1>2. /\ max_streams \in Nat \ {0}
      /\ Advances = i + max_streams
      /\ GroupEnd = SmallerOf(i + max_streams, Len(symbols))
      /\ GroupEnd \in (i + 1)..Len(symbols)
  BY <1>1, NoWrap
<1>3. /\ Grouped \in Seq(Symbol)
      /\ Len(Grouped) = GroupEnd - i
      /\ Group \in GroupType
      /\ DOMAIN Group.streams = 1..(GroupEnd - i)
      /\ \A k \in 1..(GroupEnd - i) :
            i + k \in DOMAIN symbols /\ Group.streams[k] = Stream(exchange, symbols[i + k])
  BY <1>1, GroupContents
<1>4. Grouped # <<>>
  BY <1>1, <1>2, <1>3
<1>5. /\ groups' = Append(groups, Group)
      /\ i' = i + max_streams
      /\ pc' = "loop"
      /\ UNCHANGED <<exchange, symbols, max_streams>>
  BY <1>1, <1>2, <1>4 DEF AddsGroup
<1> DEFINE new == Len(groups) + 1
<1>6. /\ DOMAIN groups' = DOMAIN groups \cup {new}
      /\ DOMAIN groups = 1..Len(groups)
      /\ new \notin DOMAIN groups
      /\ groups'[new] = Group
      /\ \A k \in DOMAIN groups : groups'[k] = groups[k]
  BY <1>1, <1>3, <1>5
<1>7. symbols \in Seq(Symbol) /\ DOMAIN symbols = 1..Len(symbols) /\ Len(symbols) \in Nat
  BY ListAssumption DEF TypeOK
<1> HIDE DEF new
<1>8. TypeOK'
  BY <1>1, <1>2, <1>3, <1>5 DEF TypeOK
<1>9. IndexBound'
  BY <1>1, <1>2, <1>5 DEF IndexBound
<1>10. /\ GroupEnd \in Nat /\ GroupEnd <= i'
       /\ \A a \in DOMAIN symbols : a <= i' => a <= GroupEnd
  <2>1. i + max_streams \in Nat /\ i' = i + max_streams
    BY <1>1, <1>2, <1>5
  <2>2. GroupEnd = SmallerOf(i', Len(symbols)) /\ i' \in Nat
    BY <1>2, <2>1
  <2>3. /\ GroupEnd \in Nat /\ GroupEnd <= i'
        /\ \A c \in Nat : c <= i' /\ c <= Len(symbols) => c <= GroupEnd
    BY <1>7, <2>2, SmallerBound
  <2> QED BY <2>3, <1>7
<1>11. StreamsOfPast'
  <2> SUFFICES ASSUME NEW k \in DOMAIN groups', NEW m \in DOMAIN groups'[k].streams
               PROVE  \E a \in DOMAIN symbols : a <= i' /\ groups'[k].streams[m] = Stream(exchange, symbols[a])
    BY <1>5 DEF StreamsOfPast, Stream
  <2>1. CASE k \in DOMAIN groups
    <3>1. PICK a \in DOMAIN symbols : a <= i /\ groups[k].streams[m] = Stream(exchange, symbols[a])
      BY <2>1, <1>6 DEF StreamsOfPast
    <3> QED BY <2>1, <3>1, <1>1, <1>2, <1>5, <1>6, <1>7
  <2>2. CASE k = new
    <3>1. m \in 1..(GroupEnd - i) /\ groups'[k].streams[m] = Stream(exchange, symbols[i + m])
      BY <2>2, <1>3, <1>6
    <3>2. i + m \in DOMAIN symbols /\ i + m <= i'
      BY <3>1, <1>1, <1>3, <1>10, <1>5
    <3> QED BY <3>1, <3>2
  <2> QED BY <2>1, <2>2, <1>6
<1>12. PastIsCovered'
  <2> SUFFICES ASSUME NEW a \in DOMAIN symbols, a <= i'
               PROVE  \E k \in DOMAIN groups' : \E m \in DOMAIN groups'[k].streams :
                        groups'[k].streams[m] = Stream(exchange, symbols[a])
    BY <1>5 DEF PastIsCovered, OnConnection, Stream
  <2>1. CASE a <= i
    <3>1. PICK k \in DOMAIN groups : OnConnection(symbols[a], k)
      BY <2>1 DEF PastIsCovered
    <3> QED BY <3>1, <1>6 DEF OnConnection
  <2>2. CASE a > i
    <3>1. a - i \in 1..(GroupEnd - i) /\ i + (a - i) = a
      BY <2>2, <1>1, <1>7, <1>10
    <3>2. Group.streams[a - i] = Stream(exchange, symbols[a])
      BY <3>1, <1>3
    <3> QED BY <3>1, <3>2, <1>3, <1>6
  <2> QED BY <2>1, <2>2, <1>1, <1>7
<1>13. ConnectionsDisjoint'
  <2> SUFFICES ASSUME NoAliases,
                      NEW k \in DOMAIN groups', NEW j \in DOMAIN groups',
                      NEW m \in DOMAIN groups'[k].streams, NEW l \in DOMAIN groups'[j].streams,
                      groups'[k].streams[m] = groups'[j].streams[l]
               PROVE  k = j
    BY <1>5 DEF ConnectionsDisjoint, NoAliases
  <2>1. ASSUME NEW p \in DOMAIN groups, NEW q \in DOMAIN groups[p].streams,
               NEW r \in 1..(GroupEnd - i), groups[p].streams[q] = Group.streams[r]
        PROVE  FALSE
    <3>1. PICK a \in DOMAIN symbols : a <= i /\ groups[p].streams[q] = Stream(exchange, symbols[a])
      BY <2>1 DEF StreamsOfPast
    <3>2. i + r \in DOMAIN symbols /\ Group.streams[r] = Stream(exchange, symbols[i + r])
      BY <2>1, <1>3
    <3>3. Fold[symbols[a]] = Fold[symbols[i + r]]
      <4>1. Stream(exchange, symbols[a]) = Stream(exchange, symbols[i + r])
        BY <2>1, <3>1, <3>2
      <4> QED BY <4>1 DEF Stream
    <3>4. a = i + r
      BY <3>1, <3>2, <3>3 DEF NoAliases
    <3> QED BY <3>1, <3>4, <1>1, <1>7
  <2>2. CASE k \in DOMAIN groups /\ j \in DOMAIN groups
    BY <2>2, <1>6 DEF ConnectionsDisjoint
  <2>3. CASE k \in DOMAIN groups /\ j = new
    BY <2>1, <2>3, <1>3, <1>6
  <2>4. CASE k = new /\ j \in DOMAIN groups
    BY <2>1, <2>4, <1>3, <1>6
  <2> QED BY <2>2, <2>3, <2>4, <1>6
<1>14. i' > i
  BY <1>1, <1>2, <1>5
<1> QED BY <1>5, <1>8, <1>9, <1>11, <1>12, <1>13, <1>14

LEMMA NextIInv == IInv /\ [Next]_vars => IInv'
<1> SUFFICES ASSUME IInv, [Next]_vars PROVE IInv'
  OBVIOUS
<1> USE DEF IInv
<1>0. symbols \in Seq(Symbol) /\ Len(symbols) \in Nat /\ i \in Nat
  BY ListAssumption DEF TypeOK
<1>1. CASE Begins
  <2>1. max_streams \in Nat
    BY LimitAssumption, WordAssumption DEF TypeOK
  <2> QED BY <1>0, <1>1, <2>1 DEF Begins, TypeOK, IndexBound, StreamsOfPast, PastIsCovered,
              ConnectionsDisjoint, OnConnection, NoAliases, Stream
<1>2. CASE AddsGroup
  BY <1>2, GroupAdded
<1>3. CASE Returns
  BY <1>3 DEF Returns, TypeOK, IndexBound, StreamsOfPast, PastIsCovered, ConnectionsDisjoint,
              OnConnection, NoAliases, Stream
<1>4. CASE UNCHANGED vars
  BY <1>4 DEF vars, TypeOK, IndexBound, StreamsOfPast, PastIsCovered, ConnectionsDisjoint,
              OnConnection, NoAliases, Stream
<1> QED BY <1>1, <1>2, <1>3, <1>4 DEF Next, Stays

LEMMA Inductive == Spec => []IInv
BY InitIInv, NextIInv, PTL DEF Spec

\* Every state of plan() is well formed, whatever it is called with: the groups it
\* returns hold symbols of the list and their streams.
THEOREM TypeCorrect == Spec => []TypeOK
<1>1. IInv => TypeOK
  BY DEF IInv
<1> QED BY <1>1, Inductive, PTL

\* plan() throws for a limit of zero and for nothing else: no group is ever empty.
THEOREM OnlyZeroThrows == Spec => []OnlyZeroIsRefused
<1>1. IInv => OnlyZeroIsRefused
  BY DEF IInv, IndexBound, OnlyZeroIsRefused
<1> QED BY <1>1, Inductive, PTL

LEMMA InvOneConnection == IInv => EveryStreamOnOneConnection
<1> SUFFICES ASSUME IInv, pc = "returned", NoAliases, NEW a \in DOMAIN symbols
             PROVE  \E k \in DOMAIN groups :
                      /\ OnConnection(symbols[a], k)
                      /\ \A j \in DOMAIN groups \ {k} : ~OnConnection(symbols[a], j)
  BY DEF EveryStreamOnOneConnection
<1>1. a <= i
  <2>1. symbols \in Seq(Symbol)
    BY ListAssumption DEF IInv, TypeOK
  <2> QED BY <2>1 DEF IInv, TypeOK, IndexBound
<1>2. PICK k \in DOMAIN groups : OnConnection(symbols[a], k)
  BY <1>1 DEF IInv, PastIsCovered
<1>3. \A j \in DOMAIN groups : OnConnection(symbols[a], j) => j = k
  BY <1>2 DEF IInv, ConnectionsDisjoint, OnConnection
<1> QED BY <1>2, <1>3

\* When plan() returns, each symbol's stream is on exactly one of its connections, if
\* no two symbols are the same but for their case.
THEOREM OneConnectionEach == Spec => []EveryStreamOnOneConnection
BY InvOneConnection, Inductive, PTL

\* Every group brings the loop of plan() closer to its end.
THEOREM AlwaysAdvances == Spec => LoopAdvances
<1>1. IInv /\ [Next]_vars => [Len(groups') > Len(groups) => i' > i]_vars
  <2> SUFFICES ASSUME IInv, [Next]_vars, Len(groups') > Len(groups), vars' # vars PROVE i' > i
    OBVIOUS
  <2>1. CASE AddsGroup
    BY <2>1, GroupAdded
  <2>2. CASE ~AddsGroup
    BY <2>2 DEF IInv, TypeOK, Next, Begins, Returns, Stays, vars
  <2> QED BY <2>1, <2>2
<1> QED BY <1>1, Inductive, PTL DEF Spec, LoopAdvances

-----------------------------------------------------------------------------
(* From the arguments to the connections.                                  *)

\* No symbol of the configuration is named twice.
Distinct ==
    \A a, b \in DOMAIN config.symbols : config.symbols[a] = config.symbols[b] => a = b

\* What load_config returns: symbols in upper case, and limits the planner takes.
ConfigSound ==
    /\ config.symbols \in SymbolLists
    /\ \A k \in DOMAIN config.symbols : Fold[config.symbols[k]] = config.symbols[k]
    /\ \A e \in Exchanges :
        /\ config.exchanges[e].max_streams \in Limits
        /\ config.exchanges[e].enabled => config.exchanges[e].max_streams # 0

Loaded == at \in {"plan", "planning", "open", "running"}

\* The exchanges main() has not come to, in order.
WaitingSound ==
    /\ unplanned \in {<<"binance", "mexc">>, <<"mexc">>, <<>>}
    /\ at \in {"arguments", "load"} => unplanned = <<"binance", "mexc">>

\* plan() works for the exchange main() has come to.
CallSound ==
    at = "planning" =>
        /\ unplanned # <<>> /\ exchange = Head(unplanned)
        /\ config.exchanges[exchange].enabled
        /\ symbols = config.symbols /\ max_streams # 0

\* The target of a Binance connection names the streams of its group.
TargetsAreStreams ==
    \A k \in DOMAIN groups :
        exchange = "binance" => groups[k].websocket_target = groups[k].streams

\* The streams of a group as the connection of its exchange asks for them.
Asked(e, group) == IF e = "binance" THEN group.websocket_target ELSE group.streams

Asks(e, group, s) == \E m \in DOMAIN Asked(e, group) : Asked(e, group)[m] = Stream(e, s)

\* A plan for exchange e: its groups have streams of e only, and every symbol of the
\* configuration is on one of them.
PlanOf(e, plan) ==
    /\ \A k \in DOMAIN plan : \A m \in DOMAIN Asked(e, plan[k]) : Asked(e, plan[k])[m][1] = e
    /\ Distinct =>
        \A a \in DOMAIN config.symbols :
            \E k \in DOMAIN plan :
                /\ Asks(e, plan[k], config.symbols[a])
                /\ \A j \in DOMAIN plan \ {k} : ~Asks(e, plan[j], config.symbols[a])

Planned(e) == \A k \in DOMAIN unplanned : unplanned[k] # e

PlansSound ==
    /\ planned \in [Exchanges -> Seq(GroupType)]
    /\ \A e \in Exchanges : ~Planned(e) => planned[e] = <<>>
    /\ Loaded =>
        \A e \in Exchanges : Planned(e) =>
            IF config.exchanges[e].enabled THEN PlanOf(e, planned[e]) ELSE planned[e] = <<>>

\* The connections of the mode are opened in order, and a mode that needs some and has
\* none does not come this far.
Launched ==
    /\ todo \in Seq(Connection) /\ started \in Seq(Connection)
    /\ at \in {"arguments", "load", "plan", "planning"} => todo = <<>> /\ started = <<>>
    /\ at \in {"open", "running"} =>
        /\ unplanned = <<>>
        /\ HasMode /\ (NeedsNone \/ ToOpen # <<>>)
        /\ Len(started) + Len(todo) = Len(ToOpen)
        /\ \A k \in DOMAIN started : started[k] = ToOpen[k] /\ Address(started[k]) = "wss"
        /\ \A k \in DOMAIN todo : todo[k] = ToOpen[Len(started) + k]
    /\ at = "running" => todo = <<>>

MainInv ==
    /\ IInv /\ TargetsAreStreams
    /\ file \in Files
    /\ WaitingSound
    /\ Loaded => ConfigSound
    /\ CallSound
    /\ PlansSound
    /\ Launched
    /\ FailsCleanly

-----------------------------------------------------------------------------
(* What main() opens.                                                      *)

\* The streams a group has, in the type of a connection's.
LEMMA AskedType ==
    ASSUME NEW e \in Exchanges, NEW group \in GroupType
    PROVE  Asked(e, group) \in Seq(Exchanges \X ({Fold[s] : s \in Symbol} \cup {"argument"}))
<1> DEFINE S == Exchanges \X {Fold[s] : s \in Symbol}
           T == Exchanges \X ({Fold[s] : s \in Symbol} \cup {"argument"})
<1>1. Asked(e, group) \in Seq(S)
  BY DEF Asked, GroupType
<1>2. \A x \in S : x \in T
  OBVIOUS
<1> HIDE DEF S, T
<1>3. Asked(e, group) \in Seq(T)
  BY <1>1, <1>2
<1> QED BY <1>3 DEF T

\* One connection per group.
LEMMA ConnectionsAre ==
    ASSUME NEW e \in Exchanges, NEW on_thread \in BOOLEAN, planned[e] \in Seq(GroupType)
    PROVE  /\ Connections(e, on_thread) \in Seq(Connection)
           /\ Len(Connections(e, on_thread)) = Len(planned[e])
           /\ \A k \in DOMAIN planned[e] :
                Connections(e, on_thread)[k] =
                    [exchange |-> e, thread |-> on_thread, streams |-> Asked(e, planned[e][k])]
<1> DEFINE c == Connections(e, on_thread)
           n == Len(planned[e])
<1>1. n \in Nat /\ DOMAIN planned[e] = 1..n /\ \A k \in 1..n : planned[e][k] \in GroupType
  OBVIOUS
<1>2. c = [k \in 1..n |-> [exchange |-> e, thread |-> on_thread, streams |-> Asked(e, planned[e][k])]]
  BY <1>1 DEF Connections, Asked
<1>3. \A k \in 1..n :
        [exchange |-> e, thread |-> on_thread, streams |-> Asked(e, planned[e][k])] \in Connection
  BY <1>1, AskedType DEF Connection
<1> HIDE DEF c, n
<1>4. c \in Seq(Connection) /\ Len(c) = n
  BY <1>1, <1>2, <1>3
<1> QED BY <1>1, <1>2, <1>4 DEF c, n

LEMMA FirstIs ==
    ASSUME NEW S, NEW list \in Seq(S)
    PROVE  /\ FirstOf(list) \in Seq(S)
           /\ \A k \in DOMAIN FirstOf(list) : k \in DOMAIN list /\ FirstOf(list)[k] = list[k]
BY DEF FirstOf

LEMMA NoneIs == NeedsNone => Mode \in {"binance-snapshot=", "mexc-snapshot=",
                                        "scan-snapshots", "scan-snapshots-top"}
<1>1. /\ Modes[1] = "binance-snapshot=" /\ Modes[2] = "mexc-snapshot="
      /\ Modes[3] = "scan-snapshots" /\ Modes[4] = "scan-snapshots-top"
  BY DEF Modes
<1> QED BY <1>1 DEF NeedsNone

LEMMA OneIs ==
    ASSUME NEW e \in Exchanges
    PROVE  /\ OneConnection(e) \in Seq(Connection)
           /\ \A k \in DOMAIN OneConnection(e) : OneConnection(e)[k].exchange = e
<1> DEFINE T == Exchanges \X ({Fold[s] : s \in Symbol} \cup {"argument"})
<1>1. << <<e, "argument">> >> \in Seq(T)
  OBVIOUS
<1> QED BY <1>1 DEF OneConnection, Connection

\* What a mode is to open, by mode.
LEMMA ToOpenIs ==
    ASSUME planned \in [Exchanges -> Seq(GroupType)]
    PROVE  /\ ToOpen \in Seq(Connection)
           /\ Mode # "scan-live" =>
                \E e \in Exchanges : \A k \in DOMAIN ToOpen : ToOpen[k].exchange = e
           /\ Mode \in {"binance-live", "mexc-live"} =>
                \A k \in DOMAIN ToOpen : ToOpen[k].thread = FALSE
           /\ NeedsNone => ToOpen = <<>>
<1>1. \A e \in Exchanges, t \in BOOLEAN :
        /\ Connections(e, t) \in Seq(Connection)
        /\ \A k \in DOMAIN Connections(e, t) :
            Connections(e, t)[k].exchange = e /\ Connections(e, t)[k].thread = t
  <2> SUFFICES ASSUME NEW e \in Exchanges, NEW t \in BOOLEAN
               PROVE  /\ Connections(e, t) \in Seq(Connection)
                      /\ \A k \in DOMAIN Connections(e, t) :
                          Connections(e, t)[k].exchange = e /\ Connections(e, t)[k].thread = t
    OBVIOUS
  <2>1. planned[e] \in Seq(GroupType)
    OBVIOUS
  <2>2. /\ Connections(e, t) \in Seq(Connection)
        /\ Len(Connections(e, t)) = Len(planned[e])
        /\ \A k \in DOMAIN planned[e] :
                Connections(e, t)[k] =
                    [exchange |-> e, thread |-> t, streams |-> Asked(e, planned[e][k])]
    BY <2>1, ConnectionsAre
  <2>3. DOMAIN Connections(e, t) = DOMAIN planned[e]
    BY <2>1, <2>2
  <2> QED BY <2>2, <2>3
<1>2. \A e \in Exchanges, t \in BOOLEAN :
        /\ FirstOf(Connections(e, t)) \in Seq(Connection)
        /\ \A k \in DOMAIN FirstOf(Connections(e, t)) :
            FirstOf(Connections(e, t))[k].exchange = e /\ FirstOf(Connections(e, t))[k].thread = t
  BY <1>1, FirstIs
<1>3. "binance" \in Exchanges /\ "mexc" \in Exchanges
  BY DEF Exchanges
<1>4. CASE Mode = "scan-live"
  <2>1. ToOpen = IF planned["binance"] = <<>> \/ planned["mexc"] = <<>> THEN <<>>
                 ELSE Connections("binance", TRUE) \o Connections("mexc", TRUE)
    BY <1>4 DEF ToOpen
  <2>2. Connections("binance", TRUE) \in Seq(Connection) /\ Connections("mexc", TRUE) \in Seq(Connection)
    BY <1>1, <1>3
  <2>3. Connections("binance", TRUE) \o Connections("mexc", TRUE) \in Seq(Connection)
    BY <2>2, ConcatProperties
  <2>4. ToOpen \in Seq(Connection)
    <3> DEFINE c == Connections("binance", TRUE) \o Connections("mexc", TRUE)
    <3>1. c \in Seq(Connection)
      BY <2>3
    <3> HIDE DEF c
    <3>2. ToOpen = <<>> \/ ToOpen = c
      BY <2>1 DEF c
    <3>3. <<>> \in Seq(Connection)
      OBVIOUS
    <3> QED BY <3>1, <3>2, <3>3, Zenon
  <2>5. ~NeedsNone
    BY <1>4, NoneIs
  <2> QED BY <1>4, <2>4, <2>5
<1>5. CASE Mode = "binance-local-live="
  <2>1. ToOpen = OneConnection("binance")
    BY <1>5 DEF ToOpen
  <2>2. /\ ToOpen \in Seq(Connection)
        /\ \A k \in DOMAIN ToOpen : ToOpen[k].exchange = "binance"
    BY <2>1, <1>3, OneIs
  <2>3. ~NeedsNone
    BY <1>5, NoneIs
  <2> QED BY <1>5, <1>3, <2>2, <2>3
<1>6. CASE Mode = "mexc-local-live="
  <2>1. ToOpen = OneConnection("mexc")
    BY <1>6 DEF ToOpen
  <2>2. /\ ToOpen \in Seq(Connection)
        /\ \A k \in DOMAIN ToOpen : ToOpen[k].exchange = "mexc"
    BY <2>1, <1>3, OneIs
  <2>3. ~NeedsNone
    BY <1>6, NoneIs
  <2> QED BY <1>6, <1>3, <2>2, <2>3
<1>7. CASE Mode = "binance-local-live-all"
  <2>1. ToOpen = Connections("binance", TRUE)
    BY <1>7 DEF ToOpen
  <2>2. /\ ToOpen \in Seq(Connection)
        /\ \A k \in DOMAIN ToOpen : ToOpen[k].exchange = "binance"
    BY <2>1, <1>1, <1>3
  <2>3. ~NeedsNone
    BY <1>7, NoneIs
  <2> QED BY <1>7, <1>3, <2>2, <2>3
<1>8. CASE Mode = "mexc-local-live-all"
  <2>1. ToOpen = Connections("mexc", TRUE)
    BY <1>8 DEF ToOpen
  <2>2. /\ ToOpen \in Seq(Connection)
        /\ \A k \in DOMAIN ToOpen : ToOpen[k].exchange = "mexc"
    BY <2>1, <1>1, <1>3
  <2>3. ~NeedsNone
    BY <1>8, NoneIs
  <2> QED BY <1>8, <1>3, <2>2, <2>3
<1>9. CASE Mode = "binance-live"
  <2>1. ToOpen = FirstOf(Connections("binance", FALSE))
    BY <1>9 DEF ToOpen
  <2>2. /\ ToOpen \in Seq(Connection)
        /\ \A k \in DOMAIN ToOpen : ToOpen[k].exchange = "binance"
    BY <2>1, <1>2, <1>3
  <2>3. \A k \in DOMAIN ToOpen : ToOpen[k].thread = FALSE
    BY <2>1, <1>2, <1>3
  <2>4. ~NeedsNone
    BY <1>9, NoneIs
  <2> QED BY <1>3, <2>2, <2>3, <2>4
<1>10. CASE Mode = "mexc-live"
  <2>1. ToOpen = FirstOf(Connections("mexc", FALSE))
    BY <1>10 DEF ToOpen
  <2>2. /\ ToOpen \in Seq(Connection)
        /\ \A k \in DOMAIN ToOpen : ToOpen[k].exchange = "mexc"
    BY <2>1, <1>2, <1>3
  <2>3. \A k \in DOMAIN ToOpen : ToOpen[k].thread = FALSE
    BY <2>1, <1>2, <1>3
  <2>4. ~NeedsNone
    BY <1>10, NoneIs
  <2> QED BY <1>3, <2>2, <2>3, <2>4
<1>11. CASE Mode \notin {"scan-live", "binance-local-live=", "mexc-local-live=",
                         "binance-local-live-all", "mexc-local-live-all", "binance-live", "mexc-live"}
  <2>1. ToOpen = <<>>
    BY <1>11 DEF ToOpen
  <2>2. <<>> \in Seq(Connection) /\ \A k \in DOMAIN <<>> : FALSE
    OBVIOUS
  <2> QED BY <1>3, <1>11, <2>1, <2>2
<1> QED BY <1>4, <1>5, <1>6, <1>7, <1>8, <1>9, <1>10, <1>11

-----------------------------------------------------------------------------
(* The planner inside main().                                              *)

LEMMA PlannerRests ==
    ASSUME IInv, TargetsAreStreams, UNCHANGED vars
    PROVE  IInv' /\ TargetsAreStreams'
<1>1. IInv'
  BY NextIInv
<1> QED BY <1>1 DEF TargetsAreStreams, vars

LEMMA PlannerGoesOn ==
    ASSUME IInv, TargetsAreStreams, Begins \/ AddsGroup \/ Returns
    PROVE  /\ IInv' /\ TargetsAreStreams'
           /\ exchange' = exchange /\ symbols' = symbols /\ max_streams' = max_streams
<1>1. IInv'
  BY NextIInv DEF Next
<1>2. CASE Begins \/ Returns
  BY <1>1, <1>2 DEF Begins, Returns, TargetsAreStreams
<1>3. CASE AddsGroup
  <2>1. groups \in Seq(GroupType) /\ UNCHANGED <<exchange, symbols, max_streams>>
    BY <1>3 DEF AddsGroup, IInv, TypeOK
  <2>2. groups' = groups \/ groups' = Append(groups, Group)
    BY <1>3 DEF AddsGroup
  <2>3. exchange = "binance" => Group.websocket_target = Group.streams
    BY DEF Group
  <2>4. TargetsAreStreams'
    <3> SUFFICES ASSUME NEW k \in DOMAIN groups', exchange = "binance"
                 PROVE  groups'[k].websocket_target = groups'[k].streams
      BY <2>1 DEF TargetsAreStreams
    <3>1. CASE k \in DOMAIN groups
      BY <2>1, <2>2, <3>1 DEF TargetsAreStreams
    <3>2. CASE k \notin DOMAIN groups
      <4>1. groups'[k] = Group
        BY <2>1, <2>2, <3>2
      <4> QED BY <4>1, <2>3
    <3> QED BY <3>1, <3>2
  <2> QED BY <1>1, <2>1, <2>4
<1> QED BY <1>2, <1>3

\* What plan() returns for the symbols of the configuration is a plan.
LEMMA PlanReturned ==
    ASSUME IInv, TargetsAreStreams, ConfigSound,
           symbols = config.symbols, pc = "returned"
    PROVE  PlanOf(exchange, groups) /\ groups \in Seq(GroupType) /\ exchange \in Exchanges
<1>1. groups \in Seq(GroupType) /\ exchange \in Exchanges
  BY DEF IInv, TypeOK
<1>2. \A k \in DOMAIN groups : Asked(exchange, groups[k]) = groups[k].streams
  BY DEF Asked, TargetsAreStreams
<1>3. \A k \in DOMAIN groups : \A m \in DOMAIN Asked(exchange, groups[k]) :
        Asked(exchange, groups[k])[m][1] = exchange
  <2> SUFFICES ASSUME NEW k \in DOMAIN groups, NEW m \in DOMAIN groups[k].streams
               PROVE  groups[k].streams[m][1] = exchange
    BY <1>2
  <2>1. PICK a \in DOMAIN symbols : groups[k].streams[m] = Stream(exchange, symbols[a])
    BY DEF IInv, StreamsOfPast
  <2> QED BY <2>1 DEF Stream
<1>4. ASSUME Distinct, NEW a \in DOMAIN config.symbols
      PROVE  \E k \in DOMAIN groups :
                /\ Asks(exchange, groups[k], config.symbols[a])
                /\ \A j \in DOMAIN groups \ {k} : ~Asks(exchange, groups[j], config.symbols[a])
  <2>1. NoAliases
    BY <1>4 DEF NoAliases, Distinct, ConfigSound
  <2>2. PICK k \in DOMAIN groups : /\ OnConnection(symbols[a], k)
                                   /\ \A j \in DOMAIN groups \ {k} : ~OnConnection(symbols[a], j)
    BY <1>4, <2>1, InvOneConnection DEF EveryStreamOnOneConnection
  <2>3. \A j \in DOMAIN groups :
            OnConnection(symbols[a], j) <=> Asks(exchange, groups[j], config.symbols[a])
    BY <1>2 DEF OnConnection, Asks
  <2> QED BY <2>2, <2>3
<1> QED BY <1>1, <1>3, <1>4 DEF PlanOf

\* Whatever the file says of an exchange, its limit of streams is a number.
LEMMA SettingsSound ==
    ASSUME NEW f \in Files, NEW e \in Exchanges
    PROVE  Settings(f.exchanges[e]).max_streams \in Limits
<1>1. f.exchanges[e] \in Section \cup {NoSection}
  BY FileAssumption
<1>2. CASE f.exchanges[e] = NoSection
  BY <1>2, PlannerAssumption DEF Settings
<1>3. CASE f.exchanges[e] # NoSection
  <2> DEFINE section == f.exchanges[e]
  <2>1. section \in [enabled : BOOLEAN, ws_base_url : Urls, max_streams : Limits \cup {NoNumber}]
    BY <1>1, <1>3 DEF Section
  <2>2. Settings(section) =
            [section EXCEPT !.max_streams = IF section.max_streams = NoNumber THEN 1 ELSE section.max_streams]
    BY <1>3 DEF Settings
  <2> HIDE DEF section
  <2>3. Settings(section).max_streams =
            IF section.max_streams = NoNumber THEN 1 ELSE section.max_streams
    BY <2>1, <2>2
  <2>4. section.max_streams \in Limits \cup {NoNumber}
    BY <2>1
  <2>5. Settings(section).max_streams \in Limits
    BY <2>3, <2>4, PlannerAssumption
  <2> QED BY <2>5 DEF section
<1> QED BY <1>2, <1>3

\* The file load_config accepts becomes a sound configuration.
LEMMA ConfigLoaded ==
    ASSUME file \in Files, LoadsConfig
    PROVE  ConfigSound'
<1>1. /\ config' = [symbols |-> Folded(file.symbols),
                    exchanges |-> [e \in Exchanges |-> Settings(file.exchanges[e])]]
      /\ ConfigAccepted
  BY DEF LoadsConfig
<1>2. /\ config'.symbols = Folded(file.symbols)
      /\ \A e \in Exchanges : config'.exchanges[e] = Settings(file.exchanges[e])
  BY <1>1
<1>3. file.symbols \in Seq(Symbol \cup {NoSymbol})
  BY FileAssumption
<1>4. \A k \in DOMAIN file.symbols : file.symbols[k] \in Symbol
  BY <1>1, <1>3 DEF ConfigAccepted
<1>5. config'.symbols \in SymbolLists
  BY <1>1, <1>2, PlannerAssumption DEF ConfigAccepted
<1>6. \A k \in DOMAIN config'.symbols : Fold[config'.symbols[k]] = config'.symbols[k]
  BY <1>2, <1>4, UpperAssumption DEF Folded
<1>7. \A e \in Exchanges : /\ config'.exchanges[e].max_streams \in Limits
                           /\ config'.exchanges[e].enabled => config'.exchanges[e].max_streams # 0
  BY <1>1, <1>2, SettingsSound DEF ConfigAccepted, Accepts
<1> QED BY <1>5, <1>6, <1>7 DEF ConfigSound

-----------------------------------------------------------------------------
(* What a step leaves alone.                                               *)

LEMMA ConfigRests ==
    ASSUME UNCHANGED config
    PROVE  /\ ConfigSound' = ConfigSound
           /\ \A e \in Exchanges, plan \in Seq(GroupType) : PlanOf(e, plan)' = PlanOf(e, plan)
BY DEF ConfigSound, PlanOf, Distinct, Asks, Asked, Stream

LEMMA PlansRest ==
    ASSUME PlansSound, UNCHANGED <<config, planned, unplanned>>, Loaded' => Loaded
    PROVE  PlansSound'
<1>1. /\ planned' \in [Exchanges -> Seq(GroupType)]
      /\ \A e \in Exchanges : Planned(e)' = Planned(e)
  BY DEF PlansSound, Planned
<1>2. ASSUME Loaded', NEW e \in Exchanges, Planned(e)'
      PROVE  (IF config.exchanges[e].enabled THEN PlanOf(e, planned[e]) ELSE planned[e] = <<>>)'
  <2>1. IF config.exchanges[e].enabled THEN PlanOf(e, planned[e]) ELSE planned[e] = <<>>
    BY <1>1, <1>2 DEF PlansSound
  <2>2. PlanOf(e, planned[e])' = PlanOf(e, planned[e])
    BY DEF PlanOf, Distinct, Asks, Asked, Stream
  <2> QED BY <2>1, <2>2
<1> QED BY <1>1, <1>2 DEF PlansSound

LEMMA ToOpenRests ==
    ASSUME UNCHANGED <<inputs, config, planned>>
    PROVE  /\ Mode' = Mode /\ HasMode' = HasMode /\ NeedsNone' = NeedsNone /\ ToOpen' = ToOpen
           /\ \A c \in Connection : Address(c)' = Address(c)
BY DEF inputs, Mode, HasMode, NeedsNone, ToOpen, Connections, FirstOf, OneConnection, Address

\* Before the choice of the mode, and once main() is through, nothing is asked of the
\* connections.
LEMMA LaunchWaits ==
    ASSUME Launched, UNCHANGED <<todo, started>>,
           \/ at \in {"arguments", "load", "plan", "planning"} /\ at' \in {"load", "plan", "planning"}
           \/ at' \in {"returned", "fatal error", "terminated"}
    PROVE  Launched'
BY DEF Launched

LEMMA LaunchRests ==
    ASSUME Launched, UNCHANGED <<inputs, config, planned, unplanned, todo, started, at>>
    PROVE  Launched'
<1>1. /\ HasMode' = HasMode /\ NeedsNone' = NeedsNone /\ ToOpen' = ToOpen
      /\ \A c \in Connection : Address(c)' = Address(c)
  BY ToOpenRests
<1>2. \A k \in DOMAIN started : started[k] \in Connection
  BY DEF Launched
<1> QED BY <1>1, <1>2 DEF Launched

LEMMA CleanRests ==
    ASSUME FailsCleanly, UNCHANGED flags,
           \/ UNCHANGED <<at, failure>>
           \/ failure' = failure /\ at # "fatal error"
           \/ failure' \in {"arguments", "config"}
           \/ failure' # "plan" /\ at' = "fatal error"
    PROVE  FailsCleanly'
BY DEF FailsCleanly, Mode

LEMMA InitMainInv == FeedInit => MainInv
<1> SUFFICES ASSUME FeedInit PROVE MainInv
  OBVIOUS
<1> USE DEF FeedInit, StartupInit
<1>1. IInv
  <2>1. TypeOK
    BY PlannerAssumption DEF TypeOK, Exchanges
  <2> QED BY <2>1 DEF IInv, IndexBound, StreamsOfPast, PastIsCovered, ConnectionsDisjoint
<1>2. TargetsAreStreams /\ WaitingSound /\ CallSound /\ FailsCleanly /\ ~Loaded
  BY DEF TargetsAreStreams, WaitingSound, CallSound, FailsCleanly, Loaded
<1>3. PlansSound
  BY <1>2 DEF PlansSound
<1>4. Launched
  BY DEF Launched
<1> QED BY <1>1, <1>2, <1>3, <1>4 DEF MainInv

-----------------------------------------------------------------------------
(* The steps of main().                                                    *)

\* Steps that neither plan nor open anything.
LEMMA MainRests ==
    ASSUME MainInv, UNCHANGED <<vars, inputs, config, unplanned, planned, todo, started>>,
           Loaded' => Loaded, at' # "planning" \/ at = "planning",
           at' \in {"arguments", "load"} => at \in {"arguments", "load"}, Launched', FailsCleanly'
    PROVE  MainInv'
<1> USE DEF MainInv
<1>1. IInv' /\ TargetsAreStreams'
  BY PlannerRests
<1>2. PlansSound'
  BY PlansRest
<1>3. Loaded' => ConfigSound'
  BY ConfigRests
<1>4. CallSound' /\ WaitingSound'
  BY DEF CallSound, WaitingSound, vars
<1> QED BY <1>1, <1>2, <1>3, <1>4 DEF inputs

LEMMA ReadsStep == MainInv /\ ReadsArguments => MainInv'
<1> SUFFICES ASSUME MainInv, ReadsArguments PROVE MainInv'
  OBVIOUS
<1>1. Launched'
  BY LaunchWaits DEF MainInv, ReadsArguments
<1>2. FailsCleanly'
  BY CleanRests DEF MainInv, ReadsArguments, inputs
<1> QED BY <1>1, <1>2, MainRests DEF ReadsArguments, Loaded

LEMMA RefusesStep == MainInv /\ (RefusesArguments \/ RefusesConfig) => MainInv'
<1> SUFFICES ASSUME MainInv, RefusesArguments \/ RefusesConfig PROVE MainInv'
  OBVIOUS
<1>1. /\ at' \in {"fatal error", "terminated"} /\ failure' \in {"arguments", "config"}
      /\ UNCHANGED <<vars, inputs, config, unplanned, planned, todo, started>>
  BY DEF RefusesArguments, RefusesConfig, FailsBy
<1>2. Launched'
  BY <1>1, LaunchWaits DEF MainInv
<1>3. FailsCleanly'
  BY <1>1, CleanRests DEF MainInv, inputs
<1> QED BY <1>1, <1>2, <1>3, MainRests DEF Loaded

LEMMA LoadsStep == MainInv /\ LoadsConfig => MainInv'
<1> SUFFICES ASSUME MainInv, LoadsConfig PROVE MainInv'
  OBVIOUS
<1> USE DEF MainInv, LoadsConfig
<1>1. IInv' /\ TargetsAreStreams'
  BY PlannerRests
<1>2. ConfigSound'
  BY ConfigLoaded
<1>3. WaitingSound' /\ CallSound' /\ file' \in Files
  BY DEF WaitingSound, CallSound, inputs
<1>4. \A e \in Exchanges : ~Planned(e)'
  BY DEF WaitingSound, Planned, Exchanges
<1>5. PlansSound'
  BY <1>4 DEF PlansSound, Planned
<1>6. Launched'
  BY LaunchWaits
<1>7. FailsCleanly'
  BY CleanRests DEF inputs
<1> QED BY <1>1, <1>2, <1>3, <1>5, <1>6, <1>7

\* The exchange main() comes to next.
LEMMA NextExchange ==
    ASSUME WaitingSound, unplanned # <<>>, unplanned' = Tail(unplanned)
    PROVE  /\ Head(unplanned) \in Exchanges /\ ~Planned(Head(unplanned))
           /\ unplanned' \in {<<"mexc">>, <<>>}
           /\ \A e \in Exchanges : Planned(e)' <=> Planned(e) \/ e = Head(unplanned)
<1>1. CASE unplanned = <<"binance", "mexc">>
  <2>1. Head(unplanned) = "binance" /\ unplanned' = <<"mexc">>
    BY <1>1
  <2>2. \A e \in Exchanges : ~Planned(e)
    BY <1>1 DEF Planned, Exchanges
  <2>3. \A k \in DOMAIN <<"mexc">> : k = 1 /\ <<"mexc">>[k] = "mexc"
    OBVIOUS
  <2>4. \A e \in Exchanges : Planned(e)' <=> e = "binance"
    <3>1. 1 \in DOMAIN <<"mexc">>
      OBVIOUS
    <3> QED BY <2>1, <2>3, <3>1 DEF Planned, Exchanges
  <2> QED BY <2>1, <2>2, <2>4 DEF Exchanges
<1>2. CASE unplanned = <<"mexc">>
  <2>1. Head(unplanned) = "mexc" /\ unplanned' = <<>>
    BY <1>2
  <2>2. \A e \in Exchanges : Planned(e) <=> e = "binance"
    BY <1>2 DEF Planned, Exchanges
  <2>3. \A e \in Exchanges : Planned(e)'
    BY <2>1 DEF Planned
  <2> QED BY <2>1, <2>2, <2>3 DEF Exchanges
<1> QED BY <1>1, <1>2 DEF WaitingSound

\* The groups of an exchange that is disabled are none.
LEMMA SkipsStep == MainInv /\ SkipsPlan => MainInv'
<1> SUFFICES ASSUME MainInv, SkipsPlan PROVE MainInv'
  OBVIOUS
<1> USE DEF MainInv, SkipsPlan
<1> DEFINE skipped == Head(unplanned)
<1>1. IInv' /\ TargetsAreStreams'
  BY PlannerRests
<1>2. ConfigSound'
  BY ConfigRests DEF Loaded
<1>3. /\ skipped \in Exchanges /\ ~Planned(skipped)
      /\ unplanned' \in {<<"mexc">>, <<>>}
      /\ \A e \in Exchanges : Planned(e)' <=> Planned(e) \/ e = skipped
  BY NextExchange
<1>4. WaitingSound' /\ CallSound' /\ file' \in Files
  BY <1>3 DEF WaitingSound, CallSound, inputs
<1>5. PlansSound'
  <2>1. planned' \in [Exchanges -> Seq(GroupType)] /\ \A e \in Exchanges : ~Planned(e)' => planned'[e] = <<>>
    BY <1>3 DEF PlansSound
  <2>2. ASSUME NEW e \in Exchanges, Planned(e)'
        PROVE  (IF config.exchanges[e].enabled THEN PlanOf(e, planned[e]) ELSE planned[e] = <<>>)'
    <3>1. CASE e = skipped
      <4>1. ~config.exchanges[e].enabled /\ planned[e] = <<>>
        BY <1>3, <3>1 DEF PlansSound
      <4> QED BY <4>1
    <3>2. CASE e # skipped
      <4>1. IF config.exchanges[e].enabled THEN PlanOf(e, planned[e]) ELSE planned[e] = <<>>
        BY <1>3, <2>2, <3>2 DEF PlansSound, Loaded
      <4>2. PlanOf(e, planned[e])' = PlanOf(e, planned[e])
        BY DEF PlanOf, Distinct, Asks, Asked, Stream
      <4> QED BY <4>1, <4>2
    <3> QED BY <3>1, <3>2
  <2> QED BY <2>1, <2>2 DEF PlansSound
<1>6. Launched'
  BY LaunchWaits
<1>7. FailsCleanly'
  BY CleanRests DEF inputs
<1> QED BY <1>1, <1>2, <1>4, <1>5, <1>6, <1>7

LEMMA CallsStep == MainInv /\ CallsPlan => MainInv'
<1> SUFFICES ASSUME MainInv, CallsPlan PROVE MainInv'
  OBVIOUS
<1> USE DEF MainInv, CallsPlan
<1>1. ConfigSound /\ Head(unplanned) \in Exchanges
  BY DEF Loaded, WaitingSound, Exchanges
<1>2. IInv' /\ TargetsAreStreams'
  <2>1. TypeOK'
    BY <1>1 DEF ConfigSound, TypeOK
  <2>2. symbols' \in Seq(Symbol)
    BY <2>1, ListAssumption DEF TypeOK
  <2>3. IndexBound' /\ StreamsOfPast' /\ ConnectionsDisjoint' /\ TargetsAreStreams'
    BY DEF IndexBound, StreamsOfPast, ConnectionsDisjoint, TargetsAreStreams
  <2>4. PastIsCovered'
    BY <2>2 DEF PastIsCovered
  <2> QED BY <2>1, <2>3, <2>4 DEF IInv
<1>3. ConfigSound'
  BY <1>1, ConfigRests
<1>4. WaitingSound' /\ CallSound' /\ file' \in Files
  BY <1>1 DEF WaitingSound, CallSound, ConfigSound, inputs
<1>5. PlansSound'
  BY PlansRest DEF Loaded
<1>6. Launched'
  BY LaunchWaits
<1>7. FailsCleanly'
  BY CleanRests DEF inputs
<1> QED BY <1>2, <1>3, <1>4, <1>5, <1>6, <1>7

LEMMA PlanningStep == MainInv /\ PlanGoesOn => MainInv'
<1> SUFFICES ASSUME MainInv, PlanGoesOn PROVE MainInv'
  OBVIOUS
<1> USE DEF MainInv, PlanGoesOn, mainVars
<1>1. /\ IInv' /\ TargetsAreStreams'
      /\ exchange' = exchange /\ symbols' = symbols /\ max_streams' = max_streams
  BY PlannerGoesOn
<1>2. ConfigSound'
  BY ConfigRests DEF Loaded
<1>3. WaitingSound' /\ CallSound' /\ file' \in Files
  BY <1>1 DEF WaitingSound, CallSound, inputs
<1>4. PlansSound'
  BY PlansRest DEF Loaded
<1>5. Launched'
  BY LaunchRests
<1>6. FailsCleanly'
  BY CleanRests DEF inputs
<1> QED BY <1>1, <1>2, <1>3, <1>4, <1>5, <1>6

\* plan() cannot throw, and what it returns is a plan.
LEMMA PlanEndsStep == MainInv /\ PlanEnds => MainInv'
<1> SUFFICES ASSUME MainInv, PlanEnds PROVE MainInv'
  OBVIOUS
<1> USE DEF MainInv
<1>1. at = "planning" /\ ConfigSound /\ max_streams # 0 /\ symbols = config.symbols
  BY DEF PlanEnds, Loaded, CallSound
<1>2. pc = "returned"
  BY <1>1 DEF PlanEnds, Done, IInv, IndexBound
<1>3. /\ planned' = [planned EXCEPT ![exchange] = groups]
      /\ unplanned' = Tail(unplanned)
      /\ at' = "plan"
      /\ UNCHANGED <<vars, inputs, config, todo, started, failure>>
  BY <1>2 DEF PlanEnds
<1>4. PlanOf(exchange, groups) /\ groups \in Seq(GroupType) /\ exchange \in Exchanges
  BY <1>1, <1>2, PlanReturned
<1>5. IInv' /\ TargetsAreStreams'
  BY <1>3, PlannerRests
<1>6. ConfigSound'
  BY <1>1, <1>3, ConfigRests
<1>7. unplanned # <<>> /\ exchange = Head(unplanned)
  BY <1>1 DEF CallSound
<1>8. /\ ~Planned(exchange) /\ unplanned' \in {<<"mexc">>, <<>>}
      /\ \A e \in Exchanges : Planned(e)' <=> Planned(e) \/ e = exchange
  BY <1>3, <1>7, NextExchange
<1>9. PlansSound'
  <2>1. /\ planned' \in [Exchanges -> Seq(GroupType)]
        /\ planned'[exchange] = groups
        /\ \A e \in Exchanges : e # exchange => planned'[e] = planned[e]
    BY <1>3, <1>4 DEF PlansSound
  <2>2. \A e \in Exchanges : ~Planned(e)' => planned'[e] = <<>>
    BY <1>8, <2>1 DEF PlansSound
  <2>3. ASSUME NEW e \in Exchanges, Planned(e)'
        PROVE  (IF config.exchanges[e].enabled THEN PlanOf(e, planned[e]) ELSE planned[e] = <<>>)'
    <3>1. CASE e = exchange
      <4>1. config'.exchanges[e].enabled
        BY <1>1, <1>3, <3>1 DEF CallSound
      <4>2. planned'[e] = groups /\ config' = config
        BY <1>3, <2>1, <3>1
      <4>3. PlanOf(e, planned[e])' = PlanOf(exchange, groups)
        BY <3>1, <4>2 DEF PlanOf, Distinct, Asks, Asked, Stream
      <4> QED BY <1>4, <4>1, <4>3
    <3>2. CASE e # exchange
      <4>1. IF config.exchanges[e].enabled THEN PlanOf(e, planned[e]) ELSE planned[e] = <<>>
        BY <1>1, <1>8, <2>3, <3>2 DEF PlansSound, Loaded
      <4>2. PlanOf(e, planned[e])' = PlanOf(e, planned[e])
        BY <1>3, <2>1, <3>2 DEF PlanOf, Distinct, Asks, Asked, Stream
      <4>3. planned'[e] = planned[e] /\ config' = config
        BY <1>3, <2>1, <3>2
      <4> QED BY <4>1, <4>2, <4>3
    <3> QED BY <3>1, <3>2
  <2> QED BY <2>1, <2>2, <2>3 DEF PlansSound
<1>10. Launched'
  BY <1>1, <1>3, LaunchWaits
<1>11. FailsCleanly'
  BY <1>1, <1>3, CleanRests DEF inputs
<1>12. WaitingSound' /\ CallSound' /\ file' \in Files
  BY <1>3, <1>8 DEF WaitingSound, CallSound, inputs
<1> QED BY <1>5, <1>6, <1>9, <1>10, <1>11, <1>12

\* The connections to open are those of the mode, and none of them is open.
LEMMA DispatchesStep == MainInv /\ Dispatches => MainInv'
<1> SUFFICES ASSUME MainInv, Dispatches PROVE MainInv'
  OBVIOUS
<1> USE DEF MainInv, Dispatches
<1>1. IInv' /\ TargetsAreStreams'
  BY PlannerRests
<1>2. ConfigSound'
  BY ConfigRests DEF Loaded
<1>3. WaitingSound' /\ CallSound' /\ file' \in Files
  BY DEF WaitingSound, CallSound, inputs
<1>4. PlansSound'
  BY PlansRest DEF Loaded
<1>5. Launched'
  <2>1. /\ HasMode' = HasMode /\ NeedsNone' = NeedsNone /\ ToOpen' = ToOpen
    BY ToOpenRests
  <2>2. ToOpen \in Seq(Connection) /\ (NeedsNone => ToOpen = <<>>)
    BY ToOpenIs DEF PlansSound
  <2>3. started' = <<>> /\ unplanned' = <<>>
    BY DEF Launched
  <2>4. CASE ~HasMode
    <3>1. at' = "returned" /\ todo' = <<>>
      BY <2>4
    <3>2. <<>> \in Seq(Connection)
      OBVIOUS
    <3> QED BY <2>3, <3>1, <3>2 DEF Launched
  <2>5. CASE HasMode
    <3>1. todo' = ToOpen
      BY <2>5
    <3>2. /\ at' \in {"running", "returned", "open"}
          /\ at' = "running" => NeedsNone
          /\ at' = "open" => ToOpen # <<>>
      BY <2>5
    <3>3. Len(<<>>) + Len(ToOpen) = Len(ToOpen) /\ <<>> \in Seq(Connection)
      BY <2>2
    <3>4. \A k \in DOMAIN todo' : todo'[k] = ToOpen[Len(started') + k]
      BY <2>2, <2>3, <3>1
    <3> HIDE DEF Dispatches, MainInv
    <3> QED BY <2>1, <2>2, <2>3, <2>5, <3>1, <3>2, <3>3, <3>4 DEF Launched
  <2> QED BY <2>4, <2>5
<1>6. FailsCleanly'
  BY CleanRests DEF inputs
<1> QED BY <1>1, <1>2, <1>3, <1>4, <1>5, <1>6

LEMMA OpensStep == MainInv /\ (Opens \/ Runs) => MainInv'
<1> SUFFICES ASSUME MainInv, Opens \/ Runs PROVE MainInv'
  OBVIOUS
<1> USE DEF MainInv
<1>1. /\ at = "open" /\ at' \in {"open", "running"}
      /\ UNCHANGED <<vars, inputs, config, unplanned, planned, failure>>
  BY DEF Opens, Runs
<1>2. IInv' /\ TargetsAreStreams'
  BY <1>1, PlannerRests
<1>3. ConfigSound'
  BY <1>1, ConfigRests DEF Loaded
<1>4. WaitingSound' /\ CallSound' /\ file' \in Files
  BY <1>1 DEF WaitingSound, CallSound, inputs
<1>5. PlansSound'
  BY <1>1, PlansRest DEF Loaded
<1>6. Launched'
  <2>1. /\ HasMode' = HasMode /\ NeedsNone' = NeedsNone /\ ToOpen' = ToOpen
        /\ \A c \in Connection : Address(c)' = Address(c)
    BY <1>1, ToOpenRests
  <2>2. /\ started \in Seq(Connection) /\ todo \in Seq(Connection)
        /\ unplanned = <<>> /\ HasMode /\ (NeedsNone \/ ToOpen # <<>>)
        /\ Len(started) + Len(todo) = Len(ToOpen)
        /\ \A k \in DOMAIN started : started[k] = ToOpen[k] /\ Address(started[k]) = "wss"
        /\ \A k \in DOMAIN todo : todo[k] = ToOpen[Len(started) + k]
    BY <1>1 DEF Launched
  <2>3. CASE Runs
    <3>1. todo = <<>> /\ todo' = <<>> /\ started' = started /\ at' = "running"
      BY <2>3 DEF Runs
    <3>2. \A k \in DOMAIN started : started[k] \in Connection
      BY <2>2
    <3> QED BY <1>1, <2>1, <2>2, <3>1, <3>2 DEF Launched
  <2>4. CASE Opens
    <3>1. /\ todo # <<>> /\ Address(Head(todo)) = "wss"
          /\ started' = Append(started, Head(todo)) /\ todo' = Tail(todo) /\ at' = "open"
      BY <1>1, <2>4 DEF Opens
    <3>2. Head(todo) \in Connection /\ Head(todo) = todo[1] /\ 1 \in DOMAIN todo
      BY <2>2, <3>1
    <3>3. /\ started' \in Seq(Connection) /\ todo' \in Seq(Connection)
          /\ Len(started') = Len(started) + 1 /\ Len(todo') = Len(todo) - 1
          /\ \A k \in DOMAIN started : started'[k] = started[k] /\ started[k] \in Connection
          /\ started'[Len(started) + 1] = Head(todo)
          /\ \A k \in DOMAIN todo' : todo'[k] = todo[k + 1] /\ k + 1 \in DOMAIN todo
      BY <2>2, <3>1, <3>2
    <3>4. Len(started') + Len(todo') = Len(ToOpen)
      <4>1. Len(started) \in Nat /\ Len(todo) \in Nat
        BY <2>2
      <4> QED BY <2>2, <3>3, <4>1
    <3>5. ASSUME NEW k \in DOMAIN started'
          PROVE  started'[k] = ToOpen[k] /\ Address(started'[k]) = "wss" /\ started'[k] \in Connection
      <4>1. CASE k \in DOMAIN started
        BY <2>2, <3>3, <4>1
      <4>2. CASE k \notin DOMAIN started
        <5>1. k = Len(started) + 1
          BY <2>2, <3>3, <3>5, <4>2
        <5>2. todo[1] = ToOpen[Len(started) + 1]
          BY <2>2, <3>2
        <5> QED BY <3>1, <3>2, <3>3, <5>1, <5>2
      <4> QED BY <4>1, <4>2
    <3>6. ASSUME NEW k \in DOMAIN todo'
          PROVE  todo'[k] = ToOpen[Len(started') + k]
      <4>1. todo'[k] = ToOpen[Len(started) + (k + 1)]
        BY <2>2, <3>3
      <4>2. Len(started) + (k + 1) = Len(started') + k
        BY <2>2, <3>3
      <4> QED BY <4>1, <4>2
    <3>7. \A k \in DOMAIN started' : started'[k] = ToOpen'[k] /\ Address(started[k])' = "wss"
      BY <2>1, <3>5 DEF Address
    <3> QED BY <1>1, <2>1, <2>2, <3>1, <3>3, <3>4, <3>6, <3>7 DEF Launched
  <2> QED BY <2>3, <2>4
<1>7. FailsCleanly'
  BY <1>1, CleanRests DEF inputs
<1> QED BY <1>2, <1>3, <1>4, <1>5, <1>6, <1>7

\* The connections a mode of one exchange has opened have the address that is refused.
LEMMA EndpointStep == MainInv /\ EndpointThrows => MainInv'
<1> SUFFICES ASSUME MainInv, EndpointThrows PROVE MainInv'
  OBVIOUS
<1> USE DEF MainInv
<1>1. /\ at = "open" /\ at' \in {"fatal error", "terminated"} /\ failure' = "endpoint"
      /\ UNCHANGED <<vars, inputs, config, unplanned, planned, todo, started>>
      /\ todo # <<>> /\ Address(Head(todo)) # "wss"
      /\ (\A c \in DOMAIN started : ~started[c].thread) => at' = "fatal error"
  BY DEF EndpointThrows, FailsBy
<1>2. Launched'
  BY <1>1, LaunchWaits
<1>3. Mode # "scan-live" => started = <<>>
  <2> SUFFICES ASSUME Mode # "scan-live", started # <<>> PROVE FALSE
    OBVIOUS
  <2>1. /\ started \in Seq(Connection) /\ todo \in Seq(Connection)
        /\ Len(started) + Len(todo) = Len(ToOpen)
        /\ \A k \in DOMAIN started : started[k] = ToOpen[k] /\ Address(started[k]) = "wss"
        /\ \A k \in DOMAIN todo : todo[k] = ToOpen[Len(started) + k]
    BY <1>1 DEF Launched
  <2>2. PICK e \in Exchanges : \A k \in DOMAIN ToOpen : ToOpen[k].exchange = e
    BY ToOpenIs DEF PlansSound
  <2>3. ToOpen \in Seq(Connection)
    BY ToOpenIs DEF PlansSound
  <2>4. 1 \in DOMAIN started /\ 1 \in DOMAIN todo /\ Head(todo) = todo[1]
    <3>1. started # <<>> /\ todo # <<>>
      BY <1>1
    <3> HIDE DEF MainInv
    <3> QED BY <2>1, <3>1
  <2>5. 1 \in DOMAIN ToOpen /\ Len(started) + 1 \in DOMAIN ToOpen
    BY <2>1, <2>3, <2>4
  <2>6. started[1].exchange = todo[1].exchange
    BY <2>1, <2>2, <2>4, <2>5
  <2>7. Address(started[1]) = "wss"
    BY <2>1, <2>4
  <2>8. Address(Head(todo)) = Address(started[1])
    BY <2>4, <2>6, Zenon DEF Address
  <2> QED BY <1>1, <2>7, <2>8
<1>4. FailsCleanly'
  <2>1. Mode' = Mode
    BY <1>1 DEF Mode, inputs
  <2>2. started = <<>> => \A c \in DOMAIN started : ~started[c].thread
    OBVIOUS
  <2> QED BY <1>1, <1>3, <2>1, <2>2 DEF FailsCleanly
<1> QED BY <1>1, <1>2, <1>4, MainRests DEF Loaded

\* A plain feed runs on the main thread.
LEMMA FeedStep == MainInv /\ (Stops \/ FeedThrows) => MainInv'
<1> SUFFICES ASSUME MainInv, Stops \/ FeedThrows PROVE MainInv'
  OBVIOUS
<1> USE DEF MainInv
<1>1. /\ at = "running" /\ Mode \in {"binance-live", "mexc-live"}
      /\ UNCHANGED <<vars, inputs, config, unplanned, planned, todo, started>>
  BY DEF Stops, FeedThrows, InFeed
<1>2. \A k \in DOMAIN started : started[k].thread = FALSE
  <2>1. /\ started \in Seq(Connection) /\ todo = <<>>
        /\ Len(started) + Len(todo) = Len(ToOpen)
        /\ \A k \in DOMAIN started : started[k] = ToOpen[k]
    BY <1>1 DEF Launched
  <2>2. ToOpen \in Seq(Connection) /\ \A k \in DOMAIN ToOpen : ToOpen[k].thread = FALSE
    BY <1>1, ToOpenIs DEF PlansSound
  <2>3. DOMAIN started = DOMAIN ToOpen
    BY <2>1, <2>2
  <2> QED BY <2>1, <2>2, <2>3
<1>3. /\ at' \in {"returned", "fatal error"}
      /\ at' = "returned" => failure' = failure
      /\ at' = "fatal error" => failure' = "feed"
  BY <1>2 DEF Stops, FeedThrows, FailsBy
<1>4. Launched'
  BY <1>1, <1>3, LaunchWaits
<1>5. FailsCleanly'
  BY <1>1, <1>3, CleanRests DEF inputs
<1> QED BY <1>1, <1>3, <1>4, <1>5, MainRests DEF Loaded

LEMMA UnchangedStep == MainInv /\ UNCHANGED startupVars => MainInv'
<1> SUFFICES ASSUME MainInv, UNCHANGED startupVars PROVE MainInv'
  OBVIOUS
<1> USE DEF startupVars, mainVars
<1>1. Launched'
  BY LaunchRests DEF MainInv
<1>2. FailsCleanly'
  BY CleanRests DEF MainInv, inputs
<1> QED BY <1>1, <1>2, MainRests DEF Loaded

LEMMA NextMainInv == MainInv /\ [FeedNext]_allVars => MainInv'
<1> SUFFICES ASSUME MainInv, [FeedNext]_allVars PROVE MainInv'
  OBVIOUS
<1>1. CASE StartupNext
  BY <1>1, ReadsStep, RefusesStep, LoadsStep, SkipsStep, CallsStep, PlanningStep, PlanEndsStep,
     DispatchesStep, OpensStep, EndpointStep DEF StartupNext
<1>2. CASE \E message \in Messages : Reads(message)
  BY <1>2, UnchangedStep DEF Reads
<1>3. CASE Stops \/ FeedThrows
  BY <1>3, FeedStep
<1>4. CASE Rests \/ UNCHANGED allVars
  BY <1>4, UnchangedStep DEF Rests, allVars
<1> QED BY <1>1, <1>2, <1>3, <1>4 DEF FeedNext

LEMMA MainInductive == FeedSpec => []MainInv
BY InitMainInv, NextMainInv, PTL DEF FeedSpec

\* What load_config accepts the planner can plan, and the errors of a mode of one
\* exchange, in its address or on a plain feed, reach the handler of main().
THEOREM ErrorsReported == FeedSpec => []FailsCleanly
<1>1. MainInv => FailsCleanly
  BY DEF MainInv
<1> QED BY <1>1, MainInductive, PTL

-----------------------------------------------------------------------------
(* The connections of a mode that keeps all books.                         *)

\* A connection carries what its group asks for.
LEMMA CarriesIs ==
    ASSUME NEW c, NEW e \in Exchanges, NEW group, NEW s,
           started[c].streams = Asked(e, group)
    PROVE  Carries(c, e, s) <=> Asks(e, group, s)
BY DEF Carries, Asks

\* One exchange: its connections are the groups of its plan.
LEMMA PlanIsCarried ==
    ASSUME NEW e \in Exchanges, NEW first \in Nat,
           PlanOf(e, planned[e]), planned[e] \in Seq(GroupType), Distinct,
           \A k \in DOMAIN planned[e] :
                first + k \in DOMAIN started /\ started[first + k].streams = Asked(e, planned[e][k]),
           \A c \in DOMAIN started : c - first \in DOMAIN planned[e] \/ \A a \in DOMAIN config.symbols :
                ~Carries(c, e, config.symbols[a]),
           started \in Seq(Connection),
           NEW a \in DOMAIN config.symbols
    PROVE  \E c \in DOMAIN started :
                /\ Carries(c, e, config.symbols[a])
                /\ \A d \in DOMAIN started \ {c} : ~Carries(d, e, config.symbols[a])
<1>1. PICK k \in DOMAIN planned[e] :
        /\ Asks(e, planned[e][k], config.symbols[a])
        /\ \A j \in DOMAIN planned[e] \ {k} : ~Asks(e, planned[e][j], config.symbols[a])
  BY DEF PlanOf
<1>2. Carries(first + k, e, config.symbols[a])
  BY <1>1, CarriesIs
<1>3. ASSUME NEW d \in DOMAIN started \ {first + k}, Carries(d, e, config.symbols[a])
      PROVE  FALSE
  <2>1. d - first \in DOMAIN planned[e]
    BY <1>3
  <2>2. d \in Nat /\ k \in Nat /\ first + (d - first) = d /\ d - first # k
    <3>1. d \in Nat /\ k \in Nat
      OBVIOUS
    <3>2. first + (d - first) = d
      BY <3>1
    <3>3. d # first + k
      BY <1>3
    <3> QED BY <3>1, <3>2, <3>3
  <2>3. started[d].streams = Asked(e, planned[e][d - first])
    BY <2>1, <2>2
  <2>4. Asks(e, planned[e][d - first], config.symbols[a])
    BY <1>3, <2>3, CarriesIs
  <2> QED BY <1>1, <2>1, <2>2, <2>4
<1> QED BY <1>1, <1>2, <1>3

\* A connection whose group is of another exchange carries no stream of this one.
LEMMA OthersCarryNone ==
    ASSUME NEW e \in Exchanges, NEW other \in Exchanges, e # other,
           NEW plan, PlanOf(other, plan), NEW k \in DOMAIN plan,
           NEW c, started[c].streams = Asked(other, plan[k]), NEW s
    PROVE  ~Carries(c, e, s)
<1>1. \A m \in DOMAIN started[c].streams : started[c].streams[m][1] = other
  BY DEF PlanOf
<1>2. Stream(e, s)[1] = e
  BY DEF Stream
<1> QED BY <1>1, <1>2 DEF Carries

LEMMA ConnectedInv == MainInv => EverySymbolConnected
<1> SUFFICES ASSUME MainInv, NEW e \in KeepsAllBooksOf, Distinct, NEW a \in DOMAIN config.symbols
             PROVE  \E c \in DOMAIN started :
                        /\ Carries(c, e, config.symbols[a])
                        /\ \A d \in DOMAIN started \ {c} : ~Carries(d, e, config.symbols[a])
  BY DEF EverySymbolConnected, Distinct
<1>1. /\ at = "running"
      /\ \/ Mode = "scan-live" /\ e \in Exchanges
         \/ Mode = "binance-local-live-all" /\ e = "binance"
         \/ Mode = "mexc-local-live-all" /\ e = "mexc"
  BY DEF KeepsAllBooksOf
<1>2. "binance" \in Exchanges /\ "mexc" \in Exchanges /\ e \in Exchanges
  BY <1>1 DEF Exchanges
<1>3. ~NeedsNone
  BY <1>1, NoneIs
<1>4. ToOpen \in Seq(Connection)
  BY ToOpenIs DEF MainInv, PlansSound
<1>5. /\ started \in Seq(Connection) /\ ToOpen # <<>>
      /\ unplanned = <<>> /\ Len(started) = Len(ToOpen)
      /\ \A k \in DOMAIN started : started[k] = ToOpen[k]
  <2>1. /\ started \in Seq(Connection) /\ todo = <<>> /\ ToOpen # <<>> /\ unplanned = <<>>
        /\ Len(started) + Len(todo) = Len(ToOpen)
        /\ \A k \in DOMAIN started : started[k] = ToOpen[k]
    BY <1>1, <1>3 DEF MainInv, Launched
  <2>2. Len(started) \in Nat /\ Len(ToOpen) \in Nat /\ Len(<<>>) = 0
    BY <2>1, <1>4
  <2> QED BY <2>1, <2>2
<1>6. started = ToOpen
  BY <1>4, <1>5
<1>7. \A x \in Exchanges : /\ planned[x] \in Seq(GroupType)
                           /\ planned[x] # <<>> => PlanOf(x, planned[x])
  <2> SUFFICES ASSUME NEW x \in Exchanges
               PROVE  planned[x] \in Seq(GroupType) /\ (planned[x] # <<>> => PlanOf(x, planned[x]))
    OBVIOUS
  <2>1. Planned(x)
    BY <1>5 DEF Planned
  <2>2. Loaded
    BY <1>1 DEF Loaded
  <2> QED BY <2>1, <2>2 DEF MainInv, PlansSound
<1>8. \A x \in Exchanges :
        /\ Connections(x, TRUE) \in Seq(Connection)
        /\ Len(Connections(x, TRUE)) = Len(planned[x])
        /\ \A k \in DOMAIN planned[x] : Connections(x, TRUE)[k].streams = Asked(x, planned[x][k])
  <2> SUFFICES ASSUME NEW x \in Exchanges
               PROVE  /\ Connections(x, TRUE) \in Seq(Connection)
                      /\ Len(Connections(x, TRUE)) = Len(planned[x])
                      /\ \A k \in DOMAIN planned[x] :
                            Connections(x, TRUE)[k].streams = Asked(x, planned[x][k])
    OBVIOUS
  <2>1. \A k \in DOMAIN planned[x] :
            Connections(x, TRUE)[k] = [exchange |-> x, thread |-> TRUE, streams |-> Asked(x, planned[x][k])]
    BY <1>7, ConnectionsAre
  <2>2. Connections(x, TRUE) \in Seq(Connection) /\ Len(Connections(x, TRUE)) = Len(planned[x])
    BY <1>7, ConnectionsAre
  <2>3. ASSUME NEW k \in DOMAIN planned[x]
        PROVE  Connections(x, TRUE)[k].streams = Asked(x, planned[x][k])
    <3>1. Connections(x, TRUE)[k] = [exchange |-> x, thread |-> TRUE, streams |-> Asked(x, planned[x][k])]
      BY <2>1
    <3>2. \A c : [exchange |-> x, thread |-> TRUE, streams |-> c].streams = c
      OBVIOUS
    <3> QED BY <3>1, <3>2, Zenon
  <2> QED BY <2>2, <2>3
<1>9. CASE Mode # "scan-live"
  <2>1. started = Connections(e, TRUE)
    BY <1>1, <1>6, <1>9 DEF ToOpen
  <2>2. /\ DOMAIN started = DOMAIN planned[e]
        /\ \A k \in DOMAIN planned[e] : 0 + k \in DOMAIN started
                                        /\ started[0 + k].streams = Asked(e, planned[e][k])
        /\ \A c \in DOMAIN started : c - 0 \in DOMAIN planned[e]
    <3>1. /\ planned[e] \in Seq(GroupType)
          /\ started \in Seq(Connection) /\ Len(started) = Len(planned[e])
          /\ \A k \in DOMAIN planned[e] : started[k].streams = Asked(e, planned[e][k])
      BY <1>2, <1>7, <1>8, <2>1
    <3>2. DOMAIN started = DOMAIN planned[e] /\ \A k \in DOMAIN planned[e] : 0 + k = k /\ k - 0 = k
      BY <3>1
    <3> QED BY <3>1, <3>2
  <2>3. planned[e] # <<>>
    BY <1>2, <1>5, <1>6, <1>7, <2>2
  <2> QED BY <1>2, <1>5, <1>7, <2>2, <2>3, PlanIsCarried
<1>10. CASE Mode = "scan-live"
  <2> DEFINE b == Connections("binance", TRUE)
             m == Connections("mexc", TRUE)
             n == Len(planned["binance"])
  <2>1. /\ planned["binance"] # <<>> /\ planned["mexc"] # <<>>
        /\ started = b \o m
    BY <1>5, <1>6, <1>10 DEF ToOpen
  <2>2. PlanOf("binance", planned["binance"]) /\ PlanOf("mexc", planned["mexc"])
    BY <1>2, <1>7, <2>1
  <2>3. /\ n \in Nat /\ DOMAIN planned["binance"] = 1..n
        /\ Len(planned["mexc"]) \in Nat /\ DOMAIN planned["mexc"] = 1..Len(planned["mexc"])
        /\ DOMAIN started = 1..(n + Len(planned["mexc"]))
        /\ \A k \in 1..n : started[k] = b[k]
        /\ \A k \in 1..Len(planned["mexc"]) : started[n + k] = m[k]
    <3>1. /\ b \in Seq(Connection) /\ m \in Seq(Connection)
          /\ Len(b) = n /\ Len(m) = Len(planned["mexc"])
          /\ n \in Nat /\ DOMAIN planned["binance"] = 1..n
          /\ Len(planned["mexc"]) \in Nat /\ DOMAIN planned["mexc"] = 1..Len(planned["mexc"])
      <4>1. planned["binance"] \in Seq(GroupType) /\ planned["mexc"] \in Seq(GroupType)
        BY <1>2, <1>7
      <4>2. b \in Seq(Connection) /\ m \in Seq(Connection) /\ Len(b) = n /\ Len(m) = Len(planned["mexc"])
        BY <1>2, <1>8
      <4>3. /\ n \in Nat /\ DOMAIN planned["binance"] = 1..n
            /\ Len(planned["mexc"]) \in Nat /\ DOMAIN planned["mexc"] = 1..Len(planned["mexc"])
        BY <4>1
      <4> HIDE DEF b, m, n
      <4> QED BY <4>2, <4>3
    <3> HIDE DEF b, m, n
    <3>2. /\ Len(started) = Len(b) + Len(m)
          /\ started \in Seq(Connection)
          /\ \A k \in 1..(Len(b) + Len(m)) :
                started[k] = IF k <= Len(b) THEN b[k] ELSE m[k - Len(b)]
      BY <2>1, <3>1, ConcatProperties
    <3>3. DOMAIN started = 1..(n + Len(planned["mexc"]))
      BY <3>1, <3>2
    <3>4. \A k \in 1..n : started[k] = b[k]
      BY <3>1, <3>2
    <3>5. ASSUME NEW k \in 1..Len(planned["mexc"]) PROVE started[n + k] = m[k]
      <4>1. n + k \in 1..(Len(b) + Len(m)) /\ ~(n + k <= Len(b)) /\ (n + k) - Len(b) = k
        BY <3>1
      <4> QED BY <3>2, <4>1
    <3> QED BY <3>1, <3>3, <3>4, <3>5
  <2>4. /\ \A k \in 1..n : started[k].streams = Asked("binance", planned["binance"][k])
        /\ \A k \in 1..Len(planned["mexc"]) : started[n + k].streams = Asked("mexc", planned["mexc"][k])
    BY <1>2, <1>8, <2>3
  <2> HIDE DEF b, m, n
  <2>5. CASE e = "binance"
    <3>1. \A k \in DOMAIN planned[e] :
            0 + k \in DOMAIN started /\ started[0 + k].streams = Asked(e, planned[e][k])
      BY <2>3, <2>4, <2>5
    <3>2. ASSUME NEW c \in DOMAIN started, c - 0 \notin DOMAIN planned[e], NEW s
          PROVE  ~Carries(c, e, s)
      <4>1. c - n \in 1..Len(planned["mexc"]) /\ n + (c - n) = c
        BY <2>3, <2>5, <3>2
      <4>2. started[c].streams = Asked("mexc", planned["mexc"][c - n])
        BY <2>4, <4>1
      <4>3. PICK k : k = c - n
        OBVIOUS
      <4>4. /\ k \in DOMAIN planned["mexc"] /\ started[c].streams = Asked("mexc", planned["mexc"][k])
            /\ PlanOf("mexc", planned["mexc"])
        BY <2>2, <2>3, <4>1, <4>2, <4>3
      <4>5. e \in Exchanges /\ "mexc" \in Exchanges /\ e # "mexc"
        BY <1>2, <2>5
      <4> QED BY <4>4, <4>5, OthersCarryNone
    <3> QED BY <1>2, <1>5, <1>7, <2>2, <2>5, <3>1, <3>2, PlanIsCarried
  <2>6. CASE e = "mexc"
    <3>1. \A k \in DOMAIN planned[e] :
            n + k \in DOMAIN started /\ started[n + k].streams = Asked(e, planned[e][k])
      <4>1. DOMAIN planned[e] = 1..Len(planned["mexc"])
        BY <2>3, <2>6
      <4>2. \A k \in 1..Len(planned["mexc"]) : n + k \in 1..(n + Len(planned["mexc"]))
        <5>1. \A x, y \in Nat : \A k \in 1..y : x + k \in 1..(x + y)
          OBVIOUS
        <5>2. n \in Nat /\ Len(planned["mexc"]) \in Nat
          BY <2>3
        <5> QED BY <5>1, <5>2
      <4>3. \A k \in 1..Len(planned["mexc"]) : n + k \in DOMAIN started
        BY <2>3, <4>2
      <4>4. \A k \in 1..Len(planned["mexc"]) :
                started[n + k].streams = Asked(e, planned[e][k])
        BY <2>4, <2>6
      <4> QED BY <4>1, <4>3, <4>4
    <3>2. ASSUME NEW c \in DOMAIN started, c - n \notin DOMAIN planned[e], NEW s
          PROVE  ~Carries(c, e, s)
      <4>1. c \in 1..n
        BY <2>3, <2>6, <3>2
      <4>2. started[c].streams = Asked("binance", planned["binance"][c])
        BY <2>4, <4>1
      <4>3. c \in DOMAIN planned["binance"] /\ PlanOf("binance", planned["binance"])
        BY <2>2, <2>3, <4>1
      <4>4. e \in Exchanges /\ "binance" \in Exchanges /\ e # "binance"
        BY <1>2, <2>6
      <4> QED BY <4>2, <4>3, <4>4, OthersCarryNone
    <3> QED BY <1>2, <1>5, <1>7, <2>2, <2>3, <2>6, <3>1, <3>2, PlanIsCarried
  <2> QED BY <1>2, <2>5, <2>6 DEF Exchanges
<1> QED BY <1>9, <1>10

\* When a mode that keeps all books runs, each symbol of the configuration is on
\* exactly one of its connections, whatever the file, the limits of streams and the
\* exchanges that are enabled.
THEOREM SymbolsConnected == FeedSpec => []EverySymbolConnected
BY ConnectedInv, MainInductive, PTL

\* Each call of plan() by main() puts every stream on exactly one connection.
THEOREM StreamsPlanned == FeedSpec => []EveryStreamOnOneConnection
<1>1. MainInv => EveryStreamOnOneConnection
  BY InvOneConnection DEF MainInv
<1> QED BY <1>1, MainInductive, PTL

\* Every group brings the loop of plan() closer to its end, in each call by main().
THEOREM PlanningAdvances == FeedSpec => LoopAdvances
<1>1. MainInv /\ [FeedNext]_allVars => [Len(groups') > Len(groups) => i' > i]_vars
  <2> SUFFICES ASSUME MainInv, [FeedNext]_allVars, Len(groups') > Len(groups), vars' # vars PROVE i' > i
    OBVIOUS
  <2>1. groups \in Seq(GroupType) /\ Len(groups) \in Nat
    BY DEF MainInv, IInv, TypeOK
  <2>2. CASE PlanGoesOn
    <3>1. CASE AddsGroup
      BY <3>1, GroupAdded DEF MainInv
    <3>2. CASE Begins \/ Returns
      <4>1. groups' = groups
        BY <3>2 DEF Begins, Returns
      <4> QED BY <2>1, <4>1
    <3> QED BY <2>2, <3>1, <3>2 DEF PlanGoesOn
  <2>3. CASE CallsPlan
    <3>1. Len(groups') = 0
      BY <2>3 DEF CallsPlan
    <3> QED BY <2>1, <3>1
  <2>4. CASE ~PlanGoesOn /\ ~CallsPlan
    <3>1. vars' = vars
      BY <2>4 DEF FeedNext, StartupNext, ReadsArguments, RefusesArguments, LoadsConfig, RefusesConfig,
         SkipsPlan, PlanEnds, Dispatches, Opens, EndpointThrows, Runs, Reads, Stops, FeedThrows,
         Rests, allVars, startupVars
    <3> QED BY <3>1
  <2> QED BY <2>2, <2>3, <2>4
<1> QED BY <1>1, MainInductive, PTL DEF FeedSpec, LoopAdvances

-----------------------------------------------------------------------------
(* The counters of a plain feed.                                           *)

CountInv ==
    /\ received \in Seq(Messages)
    /\ message_count = Len(received) /\ raw_messages = Len(received)
    /\ parsed_depth_updates \in Nat /\ ignored_messages \in Nat
    /\ received = <<>> => ignored_messages = 0
    /\ received # <<>> => at \in {"running", "returned", "fatal error", "terminated"}
    /\ EveryMessageCounted

LEMMA ParsesIs ==
    ASSUME NEW message \in Messages
    PROVE  Parses(message) \in {"update", "nothing", "throws"}
BY DEF Parses, BinanceParses, MexcParses

LEMMA OutcomesFinite ==
    ASSUME NEW some, received \in Seq(Messages)
    PROVE  IsFiniteSet(Outcomes(some)) /\ Cardinality(Outcomes(some)) \in Nat
<1>1. IsFiniteSet(DOMAIN received)
  BY FS_Interval
<1> QED BY <1>1, FS_Subset, FS_CardinalityType DEF Outcomes

\* One more message is one more outcome.
LEMMA OneMoreOutcome ==
    ASSUME received \in Seq(Messages), NEW message \in Messages, NEW some,
           received' = Append(received, message), started' = started
    PROVE  Cardinality(Outcomes(some)') =
                Cardinality(Outcomes(some)) + IF Parses(message) \in some THEN 1 ELSE 0
<1> DEFINE n == Len(received) + 1
<1>1. /\ n \notin DOMAIN received /\ DOMAIN received' = DOMAIN received \cup {n}
      /\ received'[n] = message /\ \A k \in DOMAIN received : received'[k] = received[k]
  OBVIOUS
<1> HIDE DEF n
<1>2. \A x : Parses(x)' = Parses(x)
  BY DEF Parses, Feed, BinanceParses, MexcParses
<1>3. Outcomes(some)' = IF Parses(message) \in some THEN Outcomes(some) \cup {n} ELSE Outcomes(some)
  <2>1. Outcomes(some)' = {k \in DOMAIN received' : Parses(received'[k]) \in some}
    BY <1>2 DEF Outcomes
  <2> QED BY <1>1, <2>1 DEF Outcomes
<1>4. n \notin Outcomes(some)
  BY <1>1 DEF Outcomes
<1>5. IsFiniteSet(Outcomes(some)) /\ Cardinality(Outcomes(some)) \in Nat
  BY OutcomesFinite
<1>6. Cardinality(Outcomes(some) \cup {n}) = Cardinality(Outcomes(some)) + 1
  BY <1>4, <1>5, FS_AddElement
<1> QED BY <1>3, <1>5, <1>6

LEMMA InitCountInv == FeedInit => CountInv
<1> SUFFICES ASSUME FeedInit PROVE CountInv
  OBVIOUS
<1> USE DEF FeedInit, StartupInit
<1>1. Outcomes({"nothing", "throws"}) = {}
  BY DEF Outcomes
<1> QED BY <1>1, FS_EmptySet DEF CountInv, EveryMessageCounted

LEMMA ReadCounted ==
    ASSUME MainInv, CountInv, NEW message \in Messages, Reads(message)
    PROVE  CountInv'
<1> DEFINE Rest == {"nothing", "throws"}
<1>1. /\ at = "running" /\ at' = "running" /\ started' = started
      /\ received' = Append(received, message) /\ message_count' = message_count + 1
      /\ raw_messages' = raw_messages + 1
      /\ parsed_depth_updates' = parsed_depth_updates + IF Parses(message) = "update" THEN 1 ELSE 0
      /\ ignored_messages' =
            ignored_messages + IF Feed = "mexc" /\ Parses(message) # "update" THEN 1 ELSE 0
  BY DEF Reads, InFeed, Handles, startupVars, mainVars
<1>2. received \in Seq(Messages) /\ Len(received) \in Nat
  <2>1. received \in Seq(Messages)
    BY DEF CountInv
  <2> QED BY <2>1
<1>3. received' \in Seq(Messages) /\ Len(received') = Len(received) + 1 /\ received' # <<>>
  BY <1>1, <1>2
<1>4. Parses(message) \in {"update", "nothing", "throws"}
  BY ParsesIs
<1>5. Cardinality(Outcomes(Rest)') =
            Cardinality(Outcomes(Rest)) + IF Parses(message) \in Rest THEN 1 ELSE 0
  BY <1>1, <1>2, OneMoreOutcome
<1>6. Cardinality(Outcomes(Rest)) \in Nat
  BY <1>2, OutcomesFinite
<1>7. raw_messages' - parsed_depth_updates' = Cardinality(Outcomes(Rest)')
  <2>1. raw_messages - parsed_depth_updates = Cardinality(Outcomes(Rest))
    BY DEF CountInv, EveryMessageCounted
  <2>2. raw_messages \in Nat /\ parsed_depth_updates \in Nat
    BY <1>2 DEF CountInv
  <2> HIDE DEF CountInv
  <2> QED BY <1>1, <1>4, <1>5, <1>6, <2>1, <2>2
<1>8. Feed' = Feed
  BY <1>1 DEF Feed
<1>9. Feed = "mexc" => raw_messages' = parsed_depth_updates' + ignored_messages'
  <2>1. Feed = "mexc" => raw_messages = parsed_depth_updates + ignored_messages
    <3>1. CASE received = <<>>
      <4>1. Outcomes(Rest) = {}
        BY <3>1 DEF Outcomes
      <4>2. raw_messages = 0 /\ raw_messages - parsed_depth_updates = 0 /\ ignored_messages = 0
        BY <3>1, <4>1, FS_EmptySet DEF CountInv, EveryMessageCounted
      <4>3. parsed_depth_updates \in Nat
        BY DEF CountInv
      <4>4. parsed_depth_updates = 0
        BY <4>2, <4>3
      <4> QED BY <4>2, <4>4
    <3>2. CASE received # <<>>
      BY <3>2 DEF CountInv, EveryMessageCounted
    <3> QED BY <3>1, <3>2
  <2>2. raw_messages \in Nat /\ parsed_depth_updates \in Nat /\ ignored_messages \in Nat
    BY <1>2 DEF CountInv
  <2> QED BY <1>1, <1>4, <2>1, <2>2
<1>10. EveryMessageCounted'
  BY <1>1, <1>2, <1>3, <1>7, <1>8, <1>9 DEF CountInv, EveryMessageCounted
<1>11. parsed_depth_updates' \in Nat /\ ignored_messages' \in Nat
  BY <1>1 DEF CountInv
<1> QED BY <1>1, <1>2, <1>3, <1>10, <1>11 DEF CountInv

\* Before a feed has its connection nothing is counted, and after it nothing more.
LEMMA OthersCountNothing ==
    ASSUME MainInv, CountInv, [FeedNext]_allVars,
           ~ \E message \in Messages : Reads(message)
    PROVE  CountInv'
<1>1. UNCHANGED feedVars
  BY DEF FeedNext, Stops, FeedThrows, Rests, allVars
<1>2. UNCHANGED <<received, message_count, raw_messages, parsed_depth_updates, ignored_messages>>
  BY <1>1 DEF feedVars, counters
<1>3. received # <<>> => started' = started /\ at' \in {"running", "returned", "fatal error", "terminated"}
  <2> SUFFICES ASSUME received # <<>>
               PROVE  started' = started /\ at' \in {"running", "returned", "fatal error", "terminated"}
    OBVIOUS
  <2>1. at \in {"running", "returned", "fatal error", "terminated"}
    BY DEF CountInv
  <2> QED BY <2>1 DEF FeedNext, StartupNext, ReadsArguments, RefusesArguments, LoadsConfig,
        RefusesConfig, SkipsPlan, CallsPlan, PlanGoesOn, PlanEnds, Dispatches, Opens, EndpointThrows,
        Runs, Stops, FeedThrows, FailsBy, Rests, allVars, startupVars, mainVars
<1>4. Outcomes({"nothing", "throws"})' = Outcomes({"nothing", "throws"})
  <2>1. CASE received = <<>>
    BY <1>2, <2>1 DEF Outcomes
  <2>2. CASE received # <<>>
    BY <1>2, <1>3, <2>2 DEF Outcomes, Parses, Feed, BinanceParses, MexcParses
  <2> QED BY <2>1, <2>2
<1>5. at' = "returned" /\ started' # <<>> => raw_messages = max_messages'
  <2> SUFFICES ASSUME at' = "returned", started' # <<>> PROVE raw_messages = max_messages'
    OBVIOUS
  <2>1. max_messages' = max_messages
    BY DEF FeedNext, StartupNext, ReadsArguments, RefusesArguments, LoadsConfig,
        RefusesConfig, SkipsPlan, CallsPlan, PlanGoesOn, PlanEnds, Dispatches, Opens, EndpointThrows,
        Runs, Stops, FeedThrows, Rests, allVars, startupVars, mainVars, inputs
  <2>2. CASE Stops
    <3>1. message_count = max_messages
      BY <2>2 DEF Stops
    <3> QED BY <2>1, <3>1 DEF CountInv
  <2>3. CASE Dispatches
    <3>1. started' = <<>>
      BY <2>3 DEF Dispatches, MainInv, Launched
    <3> QED BY <3>1
  <2>4. CASE ~Stops /\ ~Dispatches
    <3>1. at = "returned" /\ started' = started
      BY <2>4 DEF FeedNext, StartupNext, ReadsArguments, RefusesArguments, LoadsConfig,
        RefusesConfig, SkipsPlan, CallsPlan, PlanGoesOn, PlanEnds, Opens, EndpointThrows,
        Runs, FeedThrows, FailsBy, Rests, allVars, startupVars, mainVars
    <3> QED BY <2>1, <3>1 DEF CountInv, EveryMessageCounted
  <2> QED BY <2>2, <2>3, <2>4
<1>6. EveryMessageCounted'
  <2>1. received # <<>> => Feed' = Feed
    BY <1>3 DEF Feed
  <2> QED BY <1>2, <1>4, <1>5, <2>1 DEF CountInv, EveryMessageCounted
<1> QED BY <1>2, <1>3, <1>6 DEF CountInv

\* A plain feed counts every message it was sent, and stops at its limit only.
THEOREM MessagesCounted == FeedSpec => []EveryMessageCounted
<1>1. MainInv /\ CountInv /\ [FeedNext]_allVars => CountInv'
  BY ReadCounted, OthersCountNothing
<1>2. CountInv => EveryMessageCounted
  BY DEF CountInv
<1> QED BY <1>1, <1>2, InitCountInv, MainInductive, PTL DEF FeedSpec

-----------------------------------------------------------------------------
(* Types.                                                                  *)

\* No upper case makes a list empty.
LEMMA ConfigTyped ==
    ASSUME MainInv, LoadsConfig
    PROVE  config'.symbols # <<>>
<1>1. /\ config'.symbols = Folded(file.symbols) /\ file.symbols # <<>>
      /\ file.symbols \in Seq(Symbol \cup {NoSymbol})
  BY FileAssumption DEF LoadsConfig, ConfigAccepted, MainInv
<1>2. DOMAIN file.symbols # {} /\ DOMAIN Folded(file.symbols) = DOMAIN file.symbols
  BY <1>1 DEF Folded
<1>3. DOMAIN <<>> = {}
  OBVIOUS
<1> QED BY <1>1, <1>2, <1>3, Zenon

\* What main() keeps, apart from the planner and the connections.
OwnTypes ==
    /\ flags \in Flags
    /\ config # <<>> =>
        /\ config.symbols \in SymbolLists \ {<<>>}
        /\ \A e \in Exchanges : config.exchanges[e].max_streams \in Limits
    /\ at \in Places
    /\ failure \in {"none", "arguments", "config", "plan", "endpoint", "feed"}

LEMMA OwnTypesRest ==
    ASSUME OwnTypes, UNCHANGED <<inputs, config>>, at' \in Places,
           failure' \in {"none", "arguments", "config", "plan", "endpoint", "feed"}
    PROVE  OwnTypes'
BY DEF OwnTypes, inputs

LEMMA NextOwnTypes == MainInv /\ OwnTypes /\ [FeedNext]_allVars => OwnTypes'
<1> SUFFICES ASSUME MainInv, OwnTypes, [FeedNext]_allVars PROVE OwnTypes'
  OBVIOUS
<1>1. at' \in Places /\ failure' \in {"none", "arguments", "config", "plan", "endpoint", "feed"}
  BY DEF OwnTypes, Places, FeedNext, StartupNext, ReadsArguments, RefusesArguments, LoadsConfig,
     RefusesConfig, SkipsPlan, CallsPlan, PlanGoesOn, PlanEnds, Dispatches, Opens, EndpointThrows,
     Runs, Reads, Stops, FeedThrows, FailsBy, Rests, allVars, startupVars, mainVars
<1>2. CASE LoadsConfig
  <2>1. config'.symbols # <<>> /\ ConfigSound'
    BY <1>2, ConfigTyped, ConfigLoaded DEF MainInv
  <2>2. flags' = flags
    BY <1>2 DEF LoadsConfig, inputs
  <2> QED BY <1>1, <2>1, <2>2 DEF OwnTypes, ConfigSound
<1>3. CASE ~LoadsConfig
  <2>1. UNCHANGED <<inputs, config>>
    BY <1>3 DEF FeedNext, StartupNext, ReadsArguments, RefusesArguments,
       RefusesConfig, SkipsPlan, CallsPlan, PlanGoesOn, PlanEnds, Dispatches, Opens, EndpointThrows,
       Runs, Reads, Stops, FeedThrows, Rests, allVars, startupVars, mainVars
  <2> QED BY <1>1, <2>1, OwnTypesRest
<1> QED BY <1>2, <1>3

\* Every variable of the program's start, of the planner and of a plain feed keeps its
\* type, for every file.
THEOREM FeedTypeCorrect == FeedSpec => []FeedTypeOK
<1>1. FeedInit => OwnTypes
  BY DEF FeedInit, StartupInit, OwnTypes, Places
<1>2. MainInv /\ CountInv /\ [FeedNext]_allVars => CountInv'
  BY ReadCounted, OthersCountNothing
<1>3. MainInv /\ CountInv /\ OwnTypes => FeedTypeOK
  <2> SUFFICES ASSUME MainInv, CountInv, OwnTypes PROVE FeedTypeOK
    OBVIOUS
  <2>1. TypeOK /\ file \in Files
    BY DEF MainInv, IInv
  <2>2. unplanned \in Seq(Exchanges)
    <3>1. "binance" \in Exchanges /\ "mexc" \in Exchanges
      BY DEF Exchanges
    <3>2. <<"binance", "mexc">> \in Seq(Exchanges) /\ <<"mexc">> \in Seq(Exchanges)
          /\ <<>> \in Seq(Exchanges)
      BY <3>1
    <3>3. unplanned \in {<<"binance", "mexc">>, <<"mexc">>, <<>>}
      BY DEF MainInv, WaitingSound
    <3> QED BY <3>2, <3>3, Zenon
  <2>3. planned \in [Exchanges -> Seq(GroupType)] /\ todo \in Seq(Connection) /\ started \in Seq(Connection)
    BY DEF MainInv, PlansSound, Launched
  <2>4. received \in Seq(Messages) /\ Len(received) \in Nat
    <3>1. received \in Seq(Messages)
      BY DEF CountInv
    <3> QED BY <3>1
  <2>5. {message_count, raw_messages, parsed_depth_updates, ignored_messages} \subseteq Nat
    BY <2>4 DEF CountInv
  <2>6. StartupTypeOK
    BY <2>1, <2>2, <2>3 DEF StartupTypeOK, OwnTypes
  <2> QED BY <2>4, <2>5, <2>6 DEF FeedTypeOK
<1> QED BY <1>1, <1>2, <1>3, InitCountInv, NextOwnTypes, MainInductive, PTL DEF FeedSpec
=============================================================================
