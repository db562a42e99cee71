---------------------------- MODULE MCLiveScanner ----------------------------
(***************************************************************************)
(* One symbol on two exchanges, one connection to each.  The content of a  *)
(* book is one level whose quantity grows with every change: that the      *)
(* levels are right is the subject of LocalBookManager.                    *)
(***************************************************************************)
EXTENDS LiveScanner

MCPrice == {1}
MCTruth == [v \in 0..MaxId |-> [bids |-> [p \in MCPrice |-> v + 1],
                                asks |-> [p \in MCPrice |-> 0]]]

OneSymbol == <<"A">>
SameSymbolTwice == <<"A", "A">>
OneSymbolFeeds == {<<"binance", "A">>, <<"mexc", "A">>}
OneThreadPerExchange == [t \in Threads |-> {<<t, "A">>}]
ExchangeThreads == {"binance", "mexc"}
=============================================================================
