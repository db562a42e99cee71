---------------------------- MODULE MCMarketScan ----------------------------
(* Instances of MarketScan for TLC: two symbols, books of at most two levels. *)
EXTENDS MarketScan, TLC

MCPrice == 1..4

MCText == {"0", "1", "2", "3", "4", "12", "24", "?"}
MCValue == "0" :> 0 @@ "1" :> 1 @@ "2" :> 2 @@ "3" :> 3 @@ "4" :> 4 @@ "12" :> 12 @@ "24" :> 24
           @@ "?" :> NotANumber

MCBody(bids, asks) ==
    [readable |-> TRUE, complete |-> TRUE, bids |-> bids, asks |-> asks, last_update_id |-> 1]

\* A low book, a high one, one between them, one of asks only, of which one is too
\* short and one is there twice, and two answers that cannot be read.
MCBodies ==
    {MCBody(<<<<"1", "12">>>>, <<<<"2", "12">>, <<"3", "12">>>>),
     MCBody(<<<<"3", "24">>, <<"2", "12">>>>, <<<<"4", "12">>>>),
     MCBody(<<<<"2", "12">>>>, <<<<"3", "24">>, <<"4", "0">>>>),
     MCBody(<<>>, <<<<"1">>, <<"2", "12">>, <<"2", "24", "12">>>>),
     MCBody(<<<<"1", "?">>>>, <<>>), [MCBody(<<>>, <<>>) EXCEPT !.complete = FALSE]}

MCSymbolLists == {<<"A", "B">>, <<"A", "A">>}

MCBooks == {BookApplySnapshot(Snapshot(b)) : b \in {c \in MCBodies : SnapshotParses(c)}}
MCFeeds == {"binance", "mexc"} \X {"A", "B"}
MCLiveStores ==
    UNION {[some -> MCBooks] :
        some \in {MCFeeds, {<<"binance", "A">>, <<"mexc", "A">>}} \cup {MCFeeds \ {f} : f \in MCFeeds}}

MCTakerFeeBps == "binance" :> 200 @@ "mexc" :> 150
=============================================================================
