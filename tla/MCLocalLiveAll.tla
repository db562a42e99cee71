--------------------------- MODULE MCLocalLiveAll ---------------------------
(***************************************************************************)
(* Instances of LocalLiveAll for TLC, on books of one level.               *)
(***************************************************************************)
EXTENDS LocalLiveAll

MCPrice == {1}
MCTruth == [v \in 0..MaxId |-> [bids |-> [p \in MCPrice |-> v + 1],
                                asks |-> [p \in MCPrice |-> 0]]]

TwoSymbols == <<"BTCUSDT", "ETHUSDT">>
OneSymbol == <<"BTCUSDT">>
SymbolFeeds == {SymbolList[i] : i \in DOMAIN SymbolList}

\* Each symbol on a connection of its own.
SymbolThreads == SymbolFeeds
OneThreadPerSymbol == [f \in SymbolFeeds |-> {f}]
=============================================================================
