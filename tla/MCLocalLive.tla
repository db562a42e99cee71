----------------------------- MODULE MCLocalLive -----------------------------
(***************************************************************************)
(* Instances of LocalLive for TLC.  Every change alters the book: the best *)
(* bid comes and goes, so that a snapshot of one level speaks for the      *)
(* level below it or not, and the ask grows.                               *)
(***************************************************************************)
EXTENDS LocalLive

MCPrice == 1..3
MCTruth == [v \in 0..MaxId |->
                [bids |-> [p \in MCPrice |-> CASE p = 1 -> 1 [] p = 2 -> v % 2 [] p = 3 -> 0],
                 asks |-> [p \in MCPrice |-> IF p = 3 THEN 1 + v \div 2 ELSE 0]]]

OneSymbol == "BTCUSDT"
OneFeed == {"BTCUSDT"}
=============================================================================
