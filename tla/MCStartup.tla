------------------------------ MODULE MCStartup ------------------------------
(***************************************************************************)
(* Instances of PlainFeed, and so of Startup and SubscriptionPlanner, for  *)
(* TLC: words of three bits, up to four symbols.                           *)
(***************************************************************************)
EXTENDS PlainFeed

MCSymbol == {"a", "A", "B", "C", "D"}
MCFold == [s \in MCSymbol |-> IF s = "a" THEN "A" ELSE s]

\* One symbol to as many as the word allows, in both spellings, one of them twice, and
\* lists that are refused.
MCFileLists == {<<>>, <<"A", "">>, <<"a", "A">>, <<"a", "B", "C">>, <<"B">>, <<"a", "B", "C", "D">>}
MCSymbolLists == {<<>>, <<"A", "A">>, <<"A", "B", "C">>, <<"B">>, <<"A", "B", "C", "D">>}

\* Limits of zero and below, at and above the number of symbols, up to the last number
\* of the word.
MCLimits == {0, 1, 2, 3, 7}

MCSections ==
    [enabled : {TRUE}, ws_base_url : {"malformed", "wss"}, max_streams : {1, 2, 3, 7}]
    \cup [enabled : BOOLEAN, ws_base_url : {"", "wss"}, max_streams : {0, NoNumber}]
    \cup {NoSection}

MCFiles == [readable : {TRUE}, symbols : MCFileLists,
            exchanges : [{"binance", "mexc"} -> MCSections]]
            \cup [readable : {FALSE}, symbols : {<<>>},
                  exchanges : {[e \in {"binance", "mexc"} |-> NoSection]}]

\* Every mode by itself, none, and two pairs of which one takes precedence.
MCFlags == {{Modes[k]} : k \in DOMAIN Modes} \cup {{}}
            \cup {{"scan-live", "mexc-live"}, {"mexc-local-live-all", "binance-local-live-all"}}

MCMessageLimits == {3, NoNumber}

\* What cannot be read, is of another kind or lacks a field, and an update.
MCMessages ==
    {[readable |-> FALSE, depth |-> FALSE, complete |-> FALSE],
     [readable |-> TRUE, depth |-> FALSE, complete |-> FALSE],
     [readable |-> TRUE, depth |-> TRUE, complete |-> FALSE],
     [readable |-> TRUE, depth |-> TRUE, complete |-> TRUE]}
=============================================================================
