----------------------------- MODULE MarketFeed -----------------------------
(***************************************************************************)
(* Where the NSE worker's prices come from and what may act on them.       *)
(*                                                                         *)
(*   MarketDataManager holds the quotes of the active source: the Dhan     *)
(*   socket, whose packets arrive one at a time, the REST endpoint, whose  *)
(*   answer replaces all of them, or in mock mode the simulator.           *)
(*                                                                         *)
(*   The trading cycle refreshes them (in a thread), picks a candidate,    *)
(*   has it reviewed, refreshes again and buys.  The position loop sells,  *)
(*   between any two of its steps, what has fallen to its stop.            *)
(*                                                                         *)
(* Time is a count of ticks; a day is named by its first tick.  A quote    *)
(* holds the exchange's price and time of the last trade (0: none given)   *)
(* and the day of the previous close its change is computed from (0: none).*)
(***************************************************************************)
EXTENDS Naturals, FiniteSets

CONSTANTS
    Symbols,
    Fallback,     \* those whose security id is known without the instrument master
    MaxAge,       \* max_quote_staleness_seconds, in ticks
    LastTick,     \* the last tick of time (a bound for TLC)
    MaxTrades,    \* trades on the exchange (a bound for TLC)
    MaxFaults,    \* failed calls, lost connections and crashes (a bound for TLC)
    None

ASSUME FeedAssumption ==
    /\ Fallback \subseteq Symbols
    /\ {MaxAge, LastTick, MaxTrades, MaxFaults} \subseteq Nat

VARIABLES
    mode, credentials,         \* fixed: "market" or "mock"; a static socket token is set
    phase, now, today, tape,   \* the exchange's session, the time, the last trades
    closesFile, tokenFile,     \* caches on disk: previous closes, access token
    process,                   \* "down", "starting", "up"
    resolved,                  \* symbols whose security id the process knows
    rest,                      \* the process's QuotesFeed: its token, its previous closes
    listening,                 \* the task that reads the socket is running
    pushed,                    \* the loop's is_live: what start() returned
    source, quotes, batch,  \* the manager
    cycle,                     \* the trading cycle: its step, candidate and poll
    position,                  \* the one open position
    trades, faults             \* auxiliary: how many so far

fixed == <<mode, credentials>>
exchange == <<phase, now, today, tape>>
disk == <<closesFile, tokenFile>>
manager == <<source, quotes, batch>>
bounds == <<trades, faults>>
worker == <<resolved, rest, listening, pushed>>
outside == <<fixed, exchange, disk>>
fVars == <<outside, process, worker, manager, cycle,
           position, bounds>>

NoCloses == [day |-> 0, of |-> {}]
NoFeed == [built |-> FALSE, token |-> 0, closes |-> NoCloses]
NoQuotes == [s \in Symbols |-> None]
Idle == [at |-> "idle", candidate |-> None, quote |-> None, answer |-> NoQuotes]
NoPosition == [symbol |-> None, entry |-> None]

Prices == {"fair", "low", "locked"}  \* "low": at the stop; "locked": at the circuit band

FInit ==
    /\ mode \in {"market", "mock"} /\ credentials \in BOOLEAN
    /\ mode = "mock" => ~credentials
    /\ phase \in {"window", "closed"} /\ now = 1 /\ today = 1
    /\ tape = [s \in Symbols |-> [price |-> "fair", at |-> 1]]
    /\ closesFile = NoCloses /\ tokenFile = 0
    /\ process = "down"
    /\ resolved = {} /\ rest = NoFeed /\ listening = FALSE /\ pushed = FALSE
    /\ source = "market_closed" /\ quotes = NoQuotes /\ batch = {}
    /\ cycle = Idle
    /\ position \in {NoPosition} \cup [symbol : Fallback, entry : {"fair"}]
    /\ trades = 0 /\ faults = 0

Open == phase # "closed"

MayFail == faults < MaxFaults
Fault == MayFail /\ faults' = faults + 1
NoFault == UNCHANGED faults
-----------------------------------------------------------------------------
(* Credentials and instruments.                                            *)

\* get_valid_access_token: the cached token while its day lasts, else a new one;
\* 0 is a login that failed with nothing, or an expired static token, to fall back to.
Token == {t \in {today, 0} : tokenFile = today => t = today}

Login(token) ==
    /\ tokenFile' = IF token = 0 THEN tokenFile ELSE token
    /\ faults' = IF token = 0 THEN faults + 1 ELSE faults
    /\ token = 0 => MayFail

\* fetch_security_id_map: the full list, or the fallback's, for the life of the process.
Resolve(reachable) == IF reachable THEN Symbols ELSE Fallback
-----------------------------------------------------------------------------
(* DhanQuotesFeed.                                                         *)

\* _fetch_previous_close, one call a symbol, any of which may give nothing.
Fetched == SUBSET resolved

\* Slip: the day of the cache is not compared.
Remembered_slip(closes) == closes.of # {}

Remembered(closes) == closes.day = today /\ closes.of # {}

\* _ensure_previous_closes: from memory, else the file, else the symbols fetched.
Closes(fetched) ==
    IF Remembered(rest.closes) THEN rest.closes
    ELSE IF Remembered(closesFile) THEN closesFile
    ELSE [day |-> today, of |-> fetched]

EnsureCloses(fetched) ==
    /\ rest' = [rest EXCEPT !.closes = Closes(fetched)]
    /\ closesFile' = IF Remembered(rest.closes) \/ Remembered(closesFile)
                     THEN closesFile ELSE Closes(fetched)

\* _parse_quote.  stamped: the payload names a last trade time.
Parsed(s, stamped, closes) ==
    [price |-> tape[s].price,
     at |-> IF stamped THEN tape[s].at ELSE 0,
     basis |-> IF s \in closes.of THEN closes.day ELSE 0]

Answered == {s \in Symbols : cycle.answer[s] # None}
-----------------------------------------------------------------------------
(* MarketDataManager.                                                      *)

Clear(why) == source' = why /\ quotes' = NoQuotes /\ batch' = {}

EntriesHaveValidSource ==
    IF mode = "mock" THEN source = "simulated" /\ quotes # NoQuotes
    ELSE source \in {"dhan", "dhan_rest"} /\ batch # {}

\* The poll that stored quotes stamped them and the batch alike, so that with REST
\* the test of the batch's id adds nothing.
IsCurrentBatchSymbol(s) ==
    quotes[s] # None /\ s \in batch /\ source \in {"dhan", "dhan_rest", "simulated"}

\* Slip: the local copy of the quote is judged alone.
ExecutableQuoteIsFresh_slip(s, quote) ==
    quote # None /\ quote.at # 0 /\ quote.at >= today /\ now - quote.at <= MaxAge

\* executable_market_quote_is_fresh
ExecutableQuoteIsFresh(s, quote) ==
    /\ IsCurrentBatchSymbol(s)
    /\ quote # None /\ quote.at # 0
    /\ quote.at >= today
    /\ now - quote.at <= MaxAge

CircuitLocked(quote) == quote # None /\ quote.price = "locked" /\ quote.basis # 0
-----------------------------------------------------------------------------
(* Starting.  A mock run never asks Dhan; a market run tries the socket,   *)
(* then one poll, whose steps are those of a refresh.                      *)

SimulatedQuotes(price) == [s \in Symbols |-> [price |-> price[s], at |-> now, basis |-> today]]

\* _load_simulated_quotes after tick
Simulate(price) ==
    /\ tape' = [s \in Symbols |-> [price |-> price[s], at |-> now]]
    /\ source' = "simulated" /\ quotes' = SimulatedQuotes(price) /\ batch' = Symbols

StartMock ==
    /\ process = "down" /\ mode = "mock"
    /\ process' = "up" /\ resolved' = Symbols
    /\ Simulate([s \in Symbols |-> "fair"])
    /\ UNCHANGED <<fixed, phase, now, today, disk, rest, listening, pushed, cycle,
                   position, bounds>>

ConnectFails == Fault

StartSocket(reachable) ==
    /\ process = "down" /\ mode = "market" /\ Open /\ credentials
    /\ \E token \in Token \ {0} : Login(token)
    /\ process' = "up" /\ resolved' = Resolve(reachable)
    /\ listening' = TRUE /\ pushed' = TRUE
    /\ source' = "dhan"
    /\ UNCHANGED <<fixed, exchange, closesFile, rest, quotes, batch, cycle, position,
                   trades>>

\* Without a socket, or when connecting to it has failed.
StartPolling(reachable) ==
    /\ process = "down" /\ mode = "market"
    /\ IF Open /\ credentials THEN ConnectFails ELSE NoFault
    /\ resolved' = Resolve(reachable)
    /\ IF Open
       THEN /\ process' = "starting"
            /\ Clear(IF credentials THEN "dhan_unavailable" ELSE "market_closed")
            /\ cycle' = [Idle EXCEPT !.at = "fetch"]
       ELSE process' = "up" /\ Clear("market_closed") /\ UNCHANGED cycle
    /\ UNCHANGED <<outside, rest, listening, pushed, position, trades>>
-----------------------------------------------------------------------------
(* Polling, in a thread: the position loop and the exchange go on.         *)

\* What follows a poll: the loop may start, the cycle goes on to its entries.
Continue(to) ==
    /\ process' = "up"
    /\ cycle' = [cycle EXCEPT !.at = to, !.answer = NoQuotes]

AfterPoll(at) == IF at \in {"refetch", "republish"} THEN "reread"
             ELSE IF process = "starting" THEN "idle" ELSE "gate"

\* The first poll of a process builds its QuotesFeed, with the token of that day.
BuildFeed ==
    /\ cycle.at \in {"fetch", "refetch"} /\ Open /\ ~rest.built
    /\ \E token \in Token :
         /\ Login(token)
         /\ rest' = [rest EXCEPT !.built = TRUE, !.token = token]
    /\ UNCHANGED <<fixed, exchange, closesFile, process, resolved, listening, pushed,
                   manager, cycle, position, trades>>

\* The exchange takes a token for one day.
Authorised == rest.token = today

\* One symbol of the answer is as it should be, or missing, or without a time.
PollAnswered(fetched, present, stamped) ==
    /\ cycle.at \in {"fetch", "refetch"} /\ Open /\ rest.built /\ Authorised
    /\ present # {}
    /\ stamped \subseteq present
    /\ IF fetched = resolved /\ stamped = resolved THEN NoFault ELSE Fault
    /\ EnsureCloses(fetched)
    /\ LET answer == [s \in Symbols |-> IF s \in present
                                        THEN Parsed(s, s \in stamped, Closes(fetched)) ELSE None]
       IN  cycle' = [cycle EXCEPT !.answer = answer,
                                     !.at = IF @ = "fetch" THEN "publish" ELSE "republish"]
    /\ UNCHANGED <<fixed, exchange, tokenFile, process, resolved, listening, pushed,
                   source, quotes, batch, position, trades>>

PollPublished ==
    /\ cycle.at \in {"publish", "republish"}
    /\ quotes' = cycle.answer /\ batch' = Answered /\ source' = "dhan_rest"
    /\ Continue(AfterPoll(cycle.at))
    /\ UNCHANGED <<outside, worker, position, bounds>>

\* No answer after three attempts, or none with a known symbol.
PollFailed ==
    /\ cycle.at \in {"fetch", "refetch"} /\ Open /\ rest.built
    /\ IF Authorised /\ resolved # {} THEN Fault ELSE NoFault
    /\ Clear("dhan_unavailable")
    /\ Continue(AfterPoll(cycle.at))
    /\ UNCHANGED <<outside, worker, position, trades>>

PollClosed ==
    /\ cycle.at \in {"fetch", "refetch"} /\ ~Open
    /\ Clear("market_closed")
    /\ Continue(AfterPoll(cycle.at))
    /\ UNCHANGED <<outside, worker, position, bounds>>
-----------------------------------------------------------------------------
(* The socket.                                                             *)

\* subscribe: what has no security id is left out.
Subscribed == IF listening THEN resolved ELSE {}

\* A packet's change is from the previous close the exchange sends.
PacketQuote(s) == [price |-> tape[s].price, at |-> tape[s].at, basis |-> today]

Packet(s) ==
    /\ Open /\ s \in Subscribed
    /\ quotes' = [quotes EXCEPT ![s] = PacketQuote(s)]
    /\ batch' = batch \cup {s}
    /\ UNCHANGED <<outside, process, worker, source, cycle, position, bounds>>

\* ConnectionClosed, or the end of the stream: the task ends and tells nobody.
SocketCloses ==
    /\ listening
    /\ Fault
    /\ listening' = FALSE
    /\ UNCHANGED <<outside, process, resolved, rest, pushed, manager, cycle, position,
                   trades>>

\* Any other exception of the loop ends it through _on_websocket_error.
SocketFails ==
    /\ listening
    /\ Fault
    /\ listening' = FALSE
    /\ Clear("dhan_unavailable")
    /\ UNCHANGED <<outside, process, resolved, rest, pushed, cycle, position, trades>>
-----------------------------------------------------------------------------
(* The trading cycle.                                                      *)

\* Slip: start() reports polling as live, and nothing is refreshed any more.
Wake_slip ==
    /\ process = "up" /\ cycle.at = "idle" /\ phase = "window" /\ mode = "market"
    /\ cycle' = [Idle EXCEPT !.at = IF pushed \/ source = "dhan_rest" THEN "gate" ELSE "fetch"]
    /\ UNCHANGED <<outside, process, worker, manager, position, bounds>>

\* Quotes that a socket pushes are not refreshed.
Wake ==
    /\ process = "up" /\ cycle.at = "idle" /\ phase = "window" /\ mode = "market"
    /\ cycle' = [Idle EXCEPT !.at = IF pushed THEN "gate" ELSE "fetch"]
    /\ UNCHANGED <<outside, process, worker, manager, position, bounds>>

WakeMock(price) ==
    /\ process = "up" /\ cycle.at = "idle" /\ phase = "window" /\ mode = "mock"
    /\ IF price = [s \in Symbols |-> tape[s].price] THEN UNCHANGED trades
       ELSE trades < MaxTrades /\ trades' = trades + 1
    /\ Simulate(price)
    /\ cycle' = [Idle EXCEPT !.at = "gate"]
    /\ UNCHANGED <<fixed, phase, now, today, disk, process, worker, position, faults>>

Quoted == {s \in Symbols : quotes[s] # None}

\* The freshest quote of all is too old.  One without an exchange time has just come.
Stale == \A s \in Quoted : quotes[s].at # 0 /\ now - quotes[s].at > MaxAge

\* Past the gates of the cycle a candidate goes to review with its local quote.
Pick(s) ==
    /\ cycle.at = "gate"
    /\ EntriesHaveValidSource /\ (mode = "market" => ~Stale)
    /\ s \in Quoted /\ position = NoPosition
    /\ cycle' = [cycle EXCEPT !.at = "review", !.candidate = s, !.quote = quotes[s]]
    /\ UNCHANGED <<outside, process, worker, manager, position, bounds>>

PickNone ==
    /\ cycle.at = "gate"
    /\ cycle' = Idle
    /\ UNCHANGED <<outside, process, worker, manager, position, bounds>>

\* The agents approve what they reviewed, after any time but within the window; then
\* the second refresh.
Reviewed ==
    /\ cycle.at = "review"
    /\ cycle' = IF phase # "window" THEN Idle
                ELSE [cycle EXCEPT !.at = IF mode = "market" /\ ~pushed THEN "refetch"
                                          ELSE "execute"]
    /\ UNCHANGED <<outside, process, worker, manager, position, bounds>>

\* reviewed_price_is_fresh
PriceHolds(quote) == quote = None \/ quote.price = cycle.quote.price

\* An approval whose price has moved since is dropped.
Reread ==
    /\ cycle.at = "reread"
    /\ LET quote == quotes[cycle.candidate]
       IN  cycle' = IF PriceHolds(quote) THEN [cycle EXCEPT !.at = "execute", !.quote = quote]
                    ELSE Idle
    /\ UNCHANGED <<outside, process, worker, manager, position, bounds>>

MayBuy(s, quote) ==
    /\ quote # None
    /\ ~CircuitLocked(quote)
    /\ mode = "market" => ExecutableQuoteIsFresh(s, quote)

Execute ==
    /\ cycle.at = "execute"
    /\ cycle' = Idle
    /\ position' = IF MayBuy(cycle.candidate, cycle.quote)
                   THEN [symbol |-> cycle.candidate, entry |-> cycle.quote.price]
                   ELSE position
    /\ UNCHANGED <<outside, process, worker, manager, bounds>>
-----------------------------------------------------------------------------
(* The position loop, within a second of anything.                         *)

StopHit(s) == quotes[s] # None /\ quotes[s].price = "low"

ManagePosition ==
    /\ process = "up" /\ position # NoPosition
    /\ StopHit(position.symbol)
    /\ position' = NoPosition
    /\ UNCHANGED <<outside, process, worker, manager, cycle, bounds>>
-----------------------------------------------------------------------------
(* The rest of the world.                                                  *)

Trade(s, price) ==
    /\ mode = "market" /\ Open /\ trades < MaxTrades
    /\ price # tape[s].price
    /\ tape' = [tape EXCEPT ![s] = [price |-> price, at |-> now]]
    /\ trades' = trades + 1
    /\ UNCHANGED <<fixed, phase, now, today, disk, process, worker, manager, cycle,
                   position, faults>>

\* Trades go on at the same prices while time passes, or they do not.
Tick(traded) ==
    /\ now < LastTick
    /\ now' = now + 1
    /\ tape' = [s \in Symbols |-> IF s \in traded THEN [tape[s] EXCEPT !.at = now + 1]
                                  ELSE tape[s]]
    /\ traded # {} => Open /\ mode = "market"
    /\ UNCHANGED <<fixed, phase, today, disk, process, worker, manager, cycle, position,
                   bounds>>

\* The entry window ends before the session does.
Session ==
    /\ \/ phase = "window" /\ phase' = "late" /\ UNCHANGED <<now, today>>
       \/ phase = "late" /\ phase' = "closed" /\ UNCHANGED <<now, today>>
       \/ /\ phase = "closed" /\ now < LastTick
          /\ phase' = "window" /\ now' = now + 1 /\ today' = now + 1
    /\ UNCHANGED <<fixed, tape, disk, process, worker, manager, cycle, position, bounds>>

Crash ==
    /\ process # "down"
    /\ Fault
    /\ process' = "down" /\ resolved' = {} /\ rest' = NoFeed
    /\ listening' = FALSE /\ pushed' = FALSE
    /\ Clear("market_closed") /\ cycle' = Idle
    /\ UNCHANGED <<outside, position, trades>>
-----------------------------------------------------------------------------
Start == StartMock \/ \E reachable \in BOOLEAN : StartSocket(reachable) \/ StartPolling(reachable)

Poll ==
    \/ BuildFeed \/ PollPublished \/ PollFailed \/ PollClosed
    \/ \E fetched \in Fetched, present, stamped \in SUBSET resolved :
         PollAnswered(fetched, present, stamped)

Cycle ==
    \/ Wake \/ PickNone \/ Reviewed \/ Reread \/ Execute
    \/ \E s \in Symbols : Pick(s)
    \/ \E price \in [Symbols -> Prices] : WakeMock(price)

World ==
    \/ \E s \in Symbols, price \in Prices : Trade(s, price)
    \/ \E traded \in {{}, Symbols} : Tick(traded)
    \/ Session \/ Crash

FNext ==
    \/ Start \/ Poll \/ Cycle \/ ManagePosition \/ World
    \/ SocketCloses \/ SocketFails
    \/ \E s \in Symbols : Packet(s)

\* The worker is restarted, its threads and tasks run, and what the socket has arrives.
FFair ==
    /\ WF_fVars(Start) /\ WF_fVars(Poll) /\ WF_fVars(Cycle) /\ WF_fVars(ManagePosition)
    /\ \A s \in Symbols : WF_fVars(Packet(s))

FSpec == FInit /\ [][FNext]_fVars /\ FFair
-----------------------------------------------------------------------------
(* Properties.                                                             *)

\* A market-paper entry pays a price that the exchange traded within the staleness
\* limit, in the session of the day, while the active source still vouches for the
\* symbol: however long the review took and whatever became of the feed meanwhile.
EntriesUseFreshQuotes ==
    [][(mode = "market" /\ position = NoPosition /\ position' # NoPosition) =>
         /\ source \in {"dhan", "dhan_rest"} /\ position'.symbol \in Quoted
         /\ cycle.quote.at >= today /\ now <= cycle.quote.at + MaxAge
         /\ position'.entry = cycle.quote.price]_fVars

\* The day's change of a quote is computed from the previous close of that day, never
\* from a close that the process or its file kept over midnight.
ChangeIsDayOverDay ==
    [][\A s \in Answered' \ Answered : cycle'.answer[s].basis \in {0, today}]_fVars

\* A process that polls with a token of the day, while its window is open and the
\* symbol it holds stays at its stop, sells it.
Exposed ==
    /\ phase = "window" /\ process = "up" /\ mode = "market" /\ ~pushed
    /\ rest.built => Authorised
    /\ position.symbol \in resolved /\ tape[position.symbol].price = "low"
StopsAreHonoured == []<>~Exposed

\* The two prices a decision rests on are of the day: the quote it pays and the close
\* its change is measured from.
PricesAreTrue == EntriesUseFreshQuotes /\ ChangeIsDayOverDay
=============================================================================
