-------------------------- MODULE MCArbitrageEngine --------------------------
(* Instances of ArbitrageEngine for TLC. *)
EXTENDS ArbitrageEngine, TLC

MCPrice == 1..4

\* Quantities are multiples of 12, the unit in which every price divides.
MCSides == [MCPrice -> {0, 12, 24}]

\* Every book that is not crossed, and one that has no snapshot yet.
MCBooks ==
    {[bids |-> b, asks |-> a, last_update_id |-> 1, initialized |-> TRUE] :
        <<b, a>> \in {s \in MCSides \X MCSides :
            \A p \in Quoted(s[1]), q \in Quoted(s[2]) : p < q}}
    \cup {EmptyBook}

MCBookPairs == [{"binance", "mexc"} -> MCBooks]

MCTakerFeeBps == "binance" :> 2000 @@ "mexc" :> 1500
=============================================================================
