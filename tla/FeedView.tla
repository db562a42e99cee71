------------------------------ MODULE FeedView ------------------------------
(***************************************************************************)
(* What a local book promises the scanner, for one symbol of one exchange. *)
(* The view is hidden while the book synchronizes.  Then it is live: it    *)
(* shows the exchange's book at some change, and only ever moves to later  *)
(* ones.  A view that is lost, because the sequence broke or the book      *)
(* never synchronized, stays lost.  It does not synchronize for ever.      *)
(***************************************************************************)
EXTENDS Integers

CONSTANTS
    MaxId,              \* the last change of the exchange's book
    Agrees(_, _)        \* Agrees(sides, v): sides are the exchange's after change v

VARIABLES
    phase,              \* "syncing", "live" or "lost"
    version,            \* the change a live view shows, else 0
    sides               \* the bids and asks a live view shows, else NoSides

vars == <<phase, version, sides>>

NoSides == [bids |-> <<>>, asks |-> <<>>]

Shows(v) == version' = v /\ Agrees(sides', v)

Init == phase = "syncing" /\ version = 0 /\ sides = NoSides

GoesLive ==
    /\ phase = "syncing"
    /\ phase' = "live"
    /\ \E v \in 0..MaxId : Shows(v)

Advances ==
    /\ phase = "live"
    /\ \E v \in 0..MaxId : v > version /\ Shows(v)
    /\ UNCHANGED phase

IsLost ==
    /\ phase \in {"syncing", "live"}
    /\ phase' = "lost" /\ version' = 0 /\ sides' = NoSides

Next == GoesLive \/ Advances \/ IsLost

\* The book settles: it goes live or is given up.
Liveness == phase = "syncing" ~> phase # "syncing"

Spec == Init /\ [][Next]_vars /\ Liveness
=============================================================================
