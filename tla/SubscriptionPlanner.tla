------------------------- MODULE SubscriptionPlanner -------------------------
(***************************************************************************)
(* SubscriptionPlanner::plan of src/planner/SubscriptionPlanner.cpp: the   *)
(* symbols are cut into groups of at most max_streams_per_connection, one  *)
(* WebSocket connection each.  One iteration of the outer loop is a step.  *)
(*                                                                         *)
(* Streams are abstract: what matters of a stream name is its exchange and *)
(* the symbol without its case (to_lower, to_upper).  std::size_t counts   *)
(* modulo WordSize; no list that fits in memory makes it wrap around here. *)
(***************************************************************************)
EXTENDS Integers, Sequences, FiniteSets

CONSTANTS
    Symbol,         \* spellings of symbols
    Fold,           \* Fold[s]: the symbol without its case
    SymbolLists,    \* the lists there are to plan
    Limits,         \* the values of max_streams_per_connection
    WordSize        \* 2^64

Exchanges == {"binance", "mexc"}

ASSUME FoldAssumption == Fold \in [Symbol -> Symbol]
ASSUME WordAssumption == WordSize \in Nat \ {0}
ASSUME LimitAssumption == Limits \subseteq 0..(WordSize - 1)
\* A vector of strings is far shorter than half the address space.
ASSUME ListAssumption ==
    SymbolLists \subseteq Seq(Symbol) /\ \A s \in SymbolLists : 2 * Len(s) <= WordSize

VARIABLES
    exchange, symbols, max_streams,     \* the arguments
    i,                                  \* symbols the loop is past
    groups,                             \* what plan returns
    pc

vars == <<exchange, symbols, max_streams, i, groups, pc>>

SmallerOf(a, b) == IF a <= b THEN a ELSE b

\* build_stream_name
Stream(e, s) == <<e, Fold[s]>>

Init ==
    /\ exchange \in Exchanges
    /\ symbols \in SymbolLists
    /\ max_streams \in Limits
    /\ i = 0
    /\ groups = <<>>
    /\ pc = "begin"

Begins ==
    /\ pc = "begin"
    /\ pc' = IF max_streams = 0 THEN "threw"
             ELSE IF symbols = <<>> THEN "returned" ELSE "loop"
    /\ UNCHANGED <<exchange, symbols, max_streams, i, groups>>

\* Mutant: the group ends one symbol early.
GroupEndEarly == SmallerOf((i + max_streams) % WordSize, Len(symbols)) - 1

\* The end of the group that starts at i.
GroupEnd == SmallerOf((i + max_streams) % WordSize, Len(symbols))

Grouped == SubSeq(symbols, i + 1, GroupEnd)

\* Mutant: the index is set to the limit, not moved on by it.
AdvancesToLimit == max_streams

Advances == (i + max_streams) % WordSize

\* Mutant: the index of a group is taken before it is counted.
GroupBeforeCount ==
    LET streams == [k \in DOMAIN Grouped |-> Stream(exchange, Grouped[k])]
    IN  [exchange |-> exchange, connection_index |-> Len(groups) - 1, symbols |-> Grouped,
         streams |-> streams,
         websocket_target |-> IF exchange = "binance" THEN streams ELSE <<>>]

\* The target of a Binance connection names its streams; MEXC gets them in a message.
Group ==
    LET streams == [k \in DOMAIN Grouped |-> Stream(exchange, Grouped[k])]
    IN  [exchange |-> exchange, connection_index |-> Len(groups), symbols |-> Grouped,
         streams |-> streams,
         websocket_target |-> IF exchange = "binance" THEN streams ELSE <<>>]

\* build_binance_combined_target takes no empty list.
AddsGroup ==
    /\ pc = "loop"
    /\ i < Len(symbols)
    /\ IF exchange = "binance" /\ Grouped = <<>>
       THEN pc' = "threw" /\ UNCHANGED <<groups, i>>
       ELSE groups' = Append(groups, Group) /\ i' = Advances /\ UNCHANGED pc
    /\ UNCHANGED <<exchange, symbols, max_streams>>

Returns ==
    /\ pc = "loop"
    /\ i >= Len(symbols)
    /\ pc' = "returned"
    /\ UNCHANGED <<exchange, symbols, max_streams, i, groups>>

Done == pc \in {"returned", "threw"}
Stays == Done /\ UNCHANGED vars

Next == Begins \/ AddsGroup \/ Returns \/ Stays

Spec == Init /\ [][Next]_vars

-----------------------------------------------------------------------------
GroupType ==
    [exchange : Exchanges, connection_index : Nat, symbols : Seq(Symbol),
     streams : Seq(Exchanges \X {Fold[s] : s \in Symbol}),
     websocket_target : Seq(Exchanges \X {Fold[s] : s \in Symbol})]

TypeOK ==
    /\ exchange \in Exchanges
    /\ symbols \in SymbolLists
    /\ max_streams \in Limits
    /\ i \in Nat
    /\ groups \in Seq(GroupType)
    /\ pc \in {"begin", "loop", "returned", "threw"}

\* Only a limit of zero is refused: no group is ever empty.
OnlyZeroIsRefused == pc = "threw" => max_streams = 0

\* No two symbols are the same but for their case.
NoAliases ==
    \A a, b \in DOMAIN symbols : Fold[symbols[a]] = Fold[symbols[b]] => a = b

OnConnection(s, k) == \E m \in DOMAIN groups[k].streams : groups[k].streams[m] = Stream(exchange, s)

\* No stream is subscribed to twice and none is forgotten: each symbol's is on exactly
\* one connection, which the modes rely on to have one thread per book.
EveryStreamOnOneConnection ==
    pc = "returned" /\ NoAliases =>
        \A a \in DOMAIN symbols :
            \E k \in DOMAIN groups :
                /\ OnConnection(symbols[a], k)
                /\ \A j \in DOMAIN groups \ {k} : ~OnConnection(symbols[a], j)

\* Every group gets the loop past another symbol: an index that stood still or fell back
\* would open connections without end.
LoopAdvances == [][Len(groups') > Len(groups) => i' > i]_vars
=============================================================================
