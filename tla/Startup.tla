------------------------------- MODULE Startup -------------------------------
(***************************************************************************)
(* main() of src/main.cpp up to the point where a mode runs: the arguments *)
(* are read, load_config checks the file, the symbols are planned into     *)
(* connections by SubscriptionPlanner, one exchange after the other, and   *)
(* the mode opens the connections it needs, most on threads of their own.  *)
(* What the mode does then is the subject of other modules.                *)
(*                                                                         *)
(* A file that is not readable stands for every file that makes yaml-cpp   *)
(* throw, whether it is no YAML or has a value of another kind.            *)
(***************************************************************************)
EXTENDS SubscriptionPlanner

CONSTANTS
    NoSymbol,               \* the empty string in a list of symbols
    NoSection,              \* of a file that lacks one
    NoNumber,               \* a scalar that is no number
    Files,                  \* the configuration files there may be
    Flags,                  \* the sets of mode arguments given
    MessageLimits           \* values of --max-messages

Urls == {"", "malformed", "wss"}

VARIABLES
    file, flags, max_messages,      \* the inputs
    config,
    unplanned,      \* exchanges main() has not come to yet
    planned,        \* binance_groups and mexc_groups
    todo,           \* connections the mode is still to open
    started,        \* those it has opened
    at,             \* where main() is
    failure         \* history: what threw

inputs == <<file, flags, max_messages>>
mainVars == <<inputs, config, unplanned, planned, todo, started, at, failure>>
startupVars == <<vars, mainVars>>

\* The modes, in the order in which main() looks for their arguments.
Modes == <<"binance-snapshot=", "mexc-snapshot=", "scan-snapshots", "scan-snapshots-top",
           "scan-live", "binance-local-live=", "mexc-local-live=", "binance-local-live-all",
           "mexc-local-live-all", "binance-live", "mexc-live">>

Section == [enabled : BOOLEAN, ws_base_url : Urls, max_streams : Limits \cup {NoNumber}]

\* load_config writes symbols in upper case; Fold does so again at no harm.
ASSUME UpperAssumption == \A s \in Symbol : Fold[Fold[s]] = Fold[s]
ASSUME NoSymbolAssumption == NoSymbol \notin Symbol
ASSUME FileAssumption ==
    Files \subseteq [readable : BOOLEAN, symbols : Seq(Symbol \cup {NoSymbol}),
                     exchanges : [Exchanges -> Section \cup {NoSection}]]
ASSUME MessageLimitsAssumption == MessageLimits \subseteq Nat \cup {NoNumber}
ASSUME FlagsAssumption == \A f \in Flags : f \subseteq {Modes[k] : k \in DOMAIN Modes}

Folded(list) == [k \in DOMAIN list |-> Fold[list[k]]]

\* The planner is called with what a file can hold.
ASSUME PlannerAssumption ==
    /\ <<>> \in SymbolLists /\ 1 \in Limits /\ NoNumber \notin Limits
    /\ \A f \in Files : NoSymbol \notin {f.symbols[k] : k \in DOMAIN f.symbols}
                            => Folded(f.symbols) \in SymbolLists

StartupInit ==
    /\ exchange = "binance" /\ symbols = <<>> /\ max_streams = 1
    /\ i = 0 /\ groups = <<>> /\ pc = "returned"
    /\ file \in Files
    /\ flags \in Flags
    /\ max_messages \in MessageLimits
    /\ config = <<>>
    /\ unplanned = <<"binance", "mexc">>
    /\ planned = [e \in Exchanges |-> <<>>]
    /\ todo = <<>> /\ started = <<>>
    /\ at = "arguments"
    /\ failure = "none"

\* main() catches what is thrown inside of its try.  With a thread that was not joined
\* the vector of threads does not survive the unwinding: std::terminate.
FailsBy(cause) ==
    /\ failure' = cause
    /\ at' = IF \E c \in DOMAIN started : started[c].thread THEN "terminated" ELSE "fatal error"

-----------------------------------------------------------------------------
ReadsArguments ==
    /\ at = "arguments"
    /\ max_messages # NoNumber
    /\ at' = "load"
    /\ UNCHANGED <<vars, inputs, config, unplanned, planned, todo, started, failure>>

\* std::stoull throws, in front of the try of main().
RefusesArguments ==
    /\ at = "arguments"
    /\ max_messages = NoNumber
    /\ at' = "terminated"
    /\ failure' = "arguments"
    /\ UNCHANGED <<vars, inputs, config, unplanned, planned, todo, started>>

\* Mutant: a number that is none is kept as it is.
SettingsUnparsed(section) ==
    IF section = NoSection THEN [enabled |-> FALSE, ws_base_url |-> "", max_streams |-> NoNumber]
    ELSE section

\* A section's settings; a number that is none counts as 1, a section that is none is
\* a disabled exchange.
Settings(section) ==
    IF section = NoSection THEN [enabled |-> FALSE, ws_base_url |-> "", max_streams |-> 1]
    ELSE [section EXCEPT !.max_streams = IF @ = NoNumber THEN 1 ELSE @]

\* Mutant: the limit of streams is not checked.
AcceptsAnyLimit(section) == section.enabled => section.ws_base_url # ""

\* What parse_exchange_settings demands of an exchange.
Accepts(section) ==
    section.enabled => section.ws_base_url # "" /\ section.max_streams # 0

\* load_config returns, without an exception.
ConfigAccepted ==
    /\ file.readable
    /\ file.symbols # <<>>
    /\ \A k \in DOMAIN file.symbols : file.symbols[k] # NoSymbol
    /\ \A e \in Exchanges : Accepts(Settings(file.exchanges[e]))

LoadsConfig ==
    /\ at = "load"
    /\ ConfigAccepted
    /\ config' = [symbols |-> Folded(file.symbols),
                  exchanges |-> [e \in Exchanges |-> Settings(file.exchanges[e])]]
    /\ at' = "plan"
    /\ UNCHANGED <<vars, inputs, unplanned, planned, todo, started, failure>>

RefusesConfig ==
    /\ at = "load"
    /\ ~ConfigAccepted
    /\ FailsBy("config")
    /\ UNCHANGED <<vars, inputs, config, unplanned, planned, todo, started>>

-----------------------------------------------------------------------------
(* Planning: main() calls plan() for each exchange that is enabled.        *)

SkipsPlan ==
    /\ at = "plan"
    /\ unplanned # <<>> /\ ~config.exchanges[Head(unplanned)].enabled
    /\ unplanned' = Tail(unplanned)
    /\ UNCHANGED <<vars, inputs, config, planned, todo, started, at, failure>>

CallsPlan ==
    /\ at = "plan"
    /\ unplanned # <<>> /\ config.exchanges[Head(unplanned)].enabled
    /\ exchange' = Head(unplanned)
    /\ symbols' = config.symbols
    /\ max_streams' = config.exchanges[Head(unplanned)].max_streams
    /\ i' = 0 /\ groups' = <<>> /\ pc' = "begin"
    /\ at' = "planning"
    /\ UNCHANGED <<inputs, config, unplanned, planned, todo, started, failure>>

PlanGoesOn ==
    /\ at = "planning"
    /\ Begins \/ AddsGroup \/ Returns
    /\ UNCHANGED mainVars

\* plan() returns the groups or throws.
PlanEnds ==
    /\ at = "planning"
    /\ Done
    /\ IF pc = "threw"
       THEN FailsBy("plan") /\ UNCHANGED <<unplanned, planned>>
       ELSE /\ planned' = [planned EXCEPT ![exchange] = groups]
            /\ unplanned' = Tail(unplanned)
            /\ at' = "plan"
            /\ UNCHANGED failure
    /\ UNCHANGED <<vars, inputs, config, todo, started>>

-----------------------------------------------------------------------------
(* The choice of the mode, and its connections.                            *)

HasMode == flags # {}
Mode == Modes[CHOOSE k \in DOMAIN Modes :
                Modes[k] \in flags /\ \A j \in 1..(k - 1) : Modes[j] \notin flags]

\* One connection per group; a Binance server learns the streams from the target.
Connections(e, on_thread) ==
    [k \in DOMAIN planned[e] |->
        [exchange |-> e, thread |-> on_thread,
         streams |-> IF e = "binance" THEN planned[e][k].websocket_target
                     ELSE planned[e][k].streams]]

FirstOf(list) == IF list = <<>> THEN <<>> ELSE <<Head(list)>>

\* The symbol of a one-symbol mode comes from the command line.
OneConnection(e) == <<[exchange |-> e, thread |-> TRUE, streams |-> << <<e, "argument">> >>]>>

\* The connections a mode opens, in order.  The plain feeds open their first one only,
\* on the main thread; the snapshot modes none.
ToOpen ==
    CASE Mode = "scan-live" ->
            IF planned["binance"] = <<>> \/ planned["mexc"] = <<>> THEN <<>>
            ELSE Connections("binance", TRUE) \o Connections("mexc", TRUE)
      [] Mode = "binance-local-live=" -> OneConnection("binance")
      [] Mode = "mexc-local-live=" -> OneConnection("mexc")
      [] Mode = "binance-local-live-all" -> Connections("binance", TRUE)
      [] Mode = "mexc-local-live-all" -> Connections("mexc", TRUE)
      [] Mode = "binance-live" -> FirstOf(Connections("binance", FALSE))
      [] Mode = "mexc-live" -> FirstOf(Connections("mexc", FALSE))
      [] OTHER -> <<>>

NeedsNone == Mode \in {Modes[k] : k \in 1..4}

\* Mutant: a mode runs with the groups of the exchanges that have some.
DispatchesAnyGroup ==
    /\ at = "plan" /\ unplanned = <<>>
    /\ todo' = IF HasMode THEN Connections("binance", TRUE) \o Connections("mexc", TRUE) ELSE <<>>
    /\ at' = IF ~HasMode THEN "returned" ELSE IF NeedsNone THEN "running" ELSE "open"
    /\ UNCHANGED <<vars, inputs, config, unplanned, planned, started, failure>>

\* A mode with no group to run warns and returns, as does main() without a mode.
Dispatches ==
    /\ at = "plan" /\ unplanned = <<>>
    /\ todo' = IF HasMode THEN ToOpen ELSE <<>>
    /\ at' = IF ~HasMode THEN "returned"
             ELSE IF NeedsNone THEN "running"
             ELSE IF ToOpen = <<>> THEN "returned" ELSE "open"
    /\ UNCHANGED <<vars, inputs, config, unplanned, planned, started, failure>>

Address(connection) == config.exchanges[connection.exchange].ws_base_url

\* Mutant: the endpoint is looked at when the connection is open.
OpensUnchecked ==
    /\ at = "open"
    /\ todo # <<>>
    /\ started' = Append(started, Head(todo))
    /\ IF Address(Head(todo)) = "wss"
       THEN todo' = Tail(todo) /\ UNCHANGED <<at, failure>>
       ELSE todo' = todo /\ at' = "terminated" /\ failure' = "endpoint"
    /\ UNCHANGED <<vars, inputs, config, unplanned, planned>>

Opens ==
    /\ at = "open"
    /\ todo # <<>> /\ Address(Head(todo)) = "wss"
    /\ started' = Append(started, Head(todo))
    /\ todo' = Tail(todo)
    /\ UNCHANGED <<vars, inputs, config, unplanned, planned, at, failure>>

\* make_ws_endpoint throws.
EndpointThrows ==
    /\ at = "open"
    /\ todo # <<>> /\ Address(Head(todo)) # "wss"
    /\ FailsBy("endpoint")
    /\ UNCHANGED <<vars, inputs, config, unplanned, planned, todo, started>>

Runs ==
    /\ at = "open"
    /\ todo = <<>>
    /\ at' = "running"
    /\ UNCHANGED <<vars, inputs, config, unplanned, planned, todo, started, failure>>

StartupNext ==
    \/ ReadsArguments \/ RefusesArguments
    \/ LoadsConfig \/ RefusesConfig
    \/ SkipsPlan \/ CallsPlan \/ PlanGoesOn \/ PlanEnds
    \/ Dispatches \/ Opens \/ EndpointThrows \/ Runs

-----------------------------------------------------------------------------
Places == {"arguments", "load", "plan", "planning", "open",
           "running", "returned", "fatal error", "terminated"}

Connection == [exchange : Exchanges, thread : BOOLEAN,
               streams : Seq(Exchanges \X ({Fold[s] : s \in Symbol} \cup {"argument"}))]

StartupTypeOK ==
    /\ TypeOK
    /\ file \in Files /\ flags \in Flags
    /\ config # <<>> =>
        /\ config.symbols \in SymbolLists \ {<<>>}
        /\ \A e \in Exchanges : config.exchanges[e].max_streams \in Limits
    /\ unplanned \in Seq(Exchanges)
    /\ planned \in [Exchanges -> Seq(GroupType)]
    /\ todo \in Seq(Connection) /\ started \in Seq(Connection)
    /\ at \in Places
    /\ failure \in {"none", "arguments", "config", "plan", "endpoint", "feed"}

\* The exchanges whose books a mode keeps for every symbol of the configuration.
KeepsAllBooksOf ==
    IF at # "running" \/ ~HasMode THEN {}
    ELSE CASE Mode = "scan-live" -> Exchanges
           [] Mode = "binance-local-live-all" -> {"binance"}
           [] Mode = "mexc-local-live-all" -> {"mexc"}
           [] OTHER -> {}

Carries(c, e, s) ==
    \E k \in DOMAIN started[c].streams : started[c].streams[k] = Stream(e, s)

\* Once a mode that keeps all books runs, every configured symbol is on exactly one of
\* its open connections, if the file names no symbol twice: what LiveScanner and
\* LocalLiveAll assume of their groups, through the file, the planner and the launch.
EverySymbolConnected ==
    \A e \in KeepsAllBooksOf :
        (\A a, b \in DOMAIN config.symbols : config.symbols[a] = config.symbols[b] => a = b)
            => \A a \in DOMAIN config.symbols :
                \E c \in DOMAIN started :
                    /\ Carries(c, e, config.symbols[a])
                    /\ \A d \in DOMAIN started \ {c} : ~Carries(d, e, config.symbols[a])

\* What load_config accepts the planner can plan, though the two check the limit of
\* streams apart, and load_config that of an enabled exchange only; and a mode of one
\* exchange meets a bad address, or the failure of its only connection, before it has
\* a thread, so that main() reports the error.  (The live scan may have threads of the
\* first exchange when it meets the address of the second.)
FailsCleanly ==
    /\ failure # "plan"
    /\ failure \in {"endpoint", "feed"} /\ Mode # "scan-live" => at = "fatal error"
=============================================================================
