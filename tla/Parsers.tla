------------------------------- MODULE Parsers -------------------------------
(***************************************************************************)
(* The snapshot parsers of src/exchanges, as operators on abstract answers:*)
(* what they take, what they pass over, and what makes them throw.         *)
(*                                                                         *)
(* An answer says whether it is JSON at all, whether its other fields are  *)
(* there and of their type, and what its levels are: lists of texts.       *)
(***************************************************************************)
EXTENDS Integers, Sequences, FiniteSets

CONSTANTS
    Text,           \* the texts of prices and quantities
    Value,          \* Value[t]: the number std::stod reads at the beginning of t
    NotANumber      \* ... where there is none

ASSUME ValueAssumption == Value \in [Text -> Int \cup {NotANumber}]

Levels == Seq(Seq(Text))

\* The body of an answer to a snapshot request.
Body == [readable : BOOLEAN, complete : BOOLEAN, bids : Levels, asks : Levels,
         last_update_id : Nat]

\* parse_levels: the entries of two or more texts, as pairs of numbers.
Parsed(levels) ==
    LET pairs == SelectSeq(levels, LAMBDA level : Len(level) >= 2)
    IN  [k \in DOMAIN pairs |-> <<Value[pairs[k][1]], Value[pairs[k][2]]>>]

\* Every number of the levels can be read: none throws.
LevelsParse(levels) ==
    \A k \in DOMAIN Parsed(levels) : \A n \in 1..2 : Parsed(levels)[k][n] # NotANumber

\* BinanceSnapshotParser::parse and MexcSnapshotParser::parse, which read JSON alike.
SnapshotParses(body) ==
    /\ body.readable /\ body.complete
    /\ LevelsParse(body.bids) /\ LevelsParse(body.asks)

\* A list of levels as apply_levels goes through it: the last one of a price counts.
AsLevels(pairs) ==
    [p \in {pairs[k][1] : k \in DOMAIN pairs} |->
        LET at == {k \in DOMAIN pairs : pairs[k][1] = p}
        IN  pairs[CHOOSE k \in at : \A j \in at : j <= k][2]]

Snapshot(body) ==
    [bids |-> AsLevels(Parsed(body.bids)), asks |-> AsLevels(Parsed(body.asks)),
     last_update_id |-> body.last_update_id]
=============================================================================
