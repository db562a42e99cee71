------------------------------ MODULE PlainFeed ------------------------------
(***************************************************************************)
(* run_binance_live and run_mexc_live of src/main.cpp, from the start of   *)
(* the program on: the first connection of an exchange is followed on the  *)
(* main thread, inside the message loop of WebSocketClient::run, and every *)
(* depth update is printed.  Unlike in the modes that keep books, a message*)
(* that cannot be parsed does not end the feed.                            *)
(*                                                                         *)
(* Of a message only what the parsers tell apart is kept: whether it can be*)
(* read at all, whether it is a depth message, and whether every field and *)
(* every number is there.                                                  *)
(***************************************************************************)
EXTENDS Startup

CONSTANT
    Messages        \* what a server may send

Message == [readable : BOOLEAN, depth : BOOLEAN, complete : BOOLEAN]

ASSUME MessagesAssumption == Messages \subseteq Message

VARIABLES
    message_count,                  \* of WebSocketClient::run
    raw_messages, parsed_depth_updates, ignored_messages,
    received                        \* history: the messages of the connection

counters == <<raw_messages, parsed_depth_updates, ignored_messages>>
feedVars == <<message_count, counters, received>>
allVars == <<startupVars, feedVars>>

FeedInit ==
    /\ StartupInit
    /\ message_count = 0
    /\ raw_messages = 0 /\ parsed_depth_updates = 0 /\ ignored_messages = 0
    /\ received = <<>>

\* BinanceDepthParser::parse: text that is not JSON throws.
BinanceParses(message) ==
    IF ~message.readable THEN "throws"
    ELSE IF ~message.depth THEN "nothing"
    ELSE IF message.complete THEN "update" ELSE "throws"

\* MexcDepthParser::parse: a message that is not protobuf is passed over.
MexcParses(message) ==
    IF ~message.readable \/ ~message.depth THEN "nothing"
    ELSE IF message.complete THEN "update" ELSE "throws"

Feed == started[1].exchange

Parses(message) ==
    IF Feed = "binance" THEN BinanceParses(message) ELSE MexcParses(message)

InFeed == at = "running" /\ Mode \in {"binance-live", "mexc-live"}

\* --max-messages=0 is no limit.
Unlimited == max_messages = 0

\* The callback of each mode.  Only MEXC counts what it ignores, and counts with it
\* what it fails to parse.
Handles(message) ==
    LET outcome == Parses(message)
    IN  /\ raw_messages' = raw_messages + 1
        /\ parsed_depth_updates' = parsed_depth_updates + IF outcome = "update" THEN 1 ELSE 0
        /\ ignored_messages' =
                ignored_messages + IF Feed = "mexc" /\ outcome # "update" THEN 1 ELSE 0

\* Mutant: the exception of a parser leaves the message loop and is caught around it.
ReadsToFirstError(message) ==
    /\ InFeed
    /\ Unlimited \/ message_count < max_messages
    /\ Handles(message)
    /\ message_count' = message_count + 1
    /\ received' = Append(received, message)
    /\ at' = IF Parses(message) = "throws" THEN "returned" ELSE at
    /\ UNCHANGED <<vars, inputs, config, unplanned, planned, todo, started, failure>>

Reads(message) ==
    /\ InFeed
    /\ Unlimited \/ message_count < max_messages
    /\ Handles(message)
    /\ message_count' = message_count + 1
    /\ received' = Append(received, message)
    /\ UNCHANGED startupVars

Stops ==
    /\ InFeed
    /\ ~Unlimited /\ message_count = max_messages
    /\ at' = "returned"
    /\ UNCHANGED <<vars, inputs, config, unplanned, planned, todo, started, failure, feedVars>>

\* Connecting, the subscription of MEXC, or a read throws.
FeedThrows ==
    /\ InFeed
    /\ Unlimited \/ message_count < max_messages
    /\ FailsBy("feed")
    /\ UNCHANGED <<vars, inputs, config, unplanned, planned, todo, started, feedVars>>

\* The other modes run on.
Over == at \in {"running", "returned", "fatal error", "terminated"} /\ ~InFeed
Rests == Over /\ UNCHANGED allVars

FeedNext ==
    \/ StartupNext /\ UNCHANGED feedVars
    \/ \E message \in Messages : Reads(message)
    \/ Stops \/ FeedThrows \/ Rests

FeedSpec == FeedInit /\ [][FeedNext]_allVars

-----------------------------------------------------------------------------
\* The type invariant of the whole composition.
FeedTypeOK ==
    /\ StartupTypeOK
    /\ {message_count, raw_messages, parsed_depth_updates, ignored_messages} \subseteq Nat
    /\ received \in Seq(Messages)

Outcomes(some) == {k \in DOMAIN received : Parses(received[k]) \in some}

\* The counters of a feed's last line: a limit of n is n messages of any kind, none of
\* which ends the feed, and the messages that were not printed are told apart by
\* neither mode: MEXC counts those it failed to parse as ignored, and Binance leaves
\* both to the difference.
EveryMessageCounted ==
    /\ raw_messages = Len(received)
    /\ raw_messages - parsed_depth_updates = Cardinality(Outcomes({"nothing", "throws"}))
    /\ received # <<>> /\ Feed = "mexc" => raw_messages = parsed_depth_updates + ignored_messages
    /\ at = "returned" /\ started # <<>> => raw_messages = max_messages
=============================================================================
