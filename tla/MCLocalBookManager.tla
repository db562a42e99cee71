------------------------- MODULE MCLocalBookManager -------------------------
(***************************************************************************)
(* Small instances of LocalBookManager: four changes of a book with two    *)
(* bid and two ask prices that touch, erase and restore the best levels of *)
(* both sides and move the market up by one price.                         *)
(***************************************************************************)
EXTENDS LocalBookManager

MCPrice == 1..4

Levels(q1, q2, q3, q4) == [p \in MCPrice |-> <<q1, q2, q3, q4>>[p]]

MCTruth ==
    [v \in 0..4 |->
        CASE v = 0 -> [bids |-> Levels(1, 1, 0, 0), asks |-> Levels(0, 0, 1, 1)]
          [] v = 1 -> [bids |-> Levels(1, 0, 0, 0), asks |-> Levels(0, 0, 1, 2)]
          [] v = 2 -> [bids |-> Levels(1, 0, 0, 0), asks |-> Levels(0, 0, 0, 2)]
          [] v = 3 -> [bids |-> Levels(1, 0, 2, 0), asks |-> Levels(0, 0, 0, 2)]
          [] v = 4 -> [bids |-> Levels(0, 1, 2, 0), asks |-> Levels(0, 0, 0, 1)]]
=============================================================================
