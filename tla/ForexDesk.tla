----------------------------- MODULE ForexDesk -----------------------------
(***************************************************************************)
(* The Forex worker: one task that evaluates settled candles, reviews the  *)
(* candidates they give, opens local paper positions and closes them at    *)
(* their stop or target, over the tables of its database schema.           *)
(*                                                                         *)
(*   market      the newest settled candle of a series and what every      *)
(*               strategy says of it                                       *)
(*   quote       what the last request for prices answered, by symbol      *)
(*   approved    the strategies the eligibility registry approves for paper*)
(*   decisions, orders, positions   the tables                             *)
(*   last, retained   what a cycle object remembers between passes         *)
(*   worker      where the task is: the pass it makes, the candidates or   *)
(*               positions left in it, the record it is writing and the    *)
(*               open positions it loaded                                  *)
(*                                                                         *)
(* Every DB call, quote request and model review is awaited, so the        *)
(* process may die between any two steps; a raised exception ends it too.  *)
(***************************************************************************)
EXTENDS Integers, FiniteSetsExt

CONSTANTS
    Series,         \* pairs of a symbol and a timeframe
    SwingFrames,    \* the timeframes of the intraday pass; others are scalp
    Base, Quote,    \* the currencies of a symbol
    Strategies,
    Factor,         \* out-of-sample profit factor of a strategy, 0 for none
    Outputs,        \* what the strategies may say of a candle
    Bypass,         \* FOREX_ALLOW_UNVALIDATED_PAPER
    MLPolicy,       \* what a strategy needs of a model
    MaxOpen,        \* open positions allowed, by horizon
    MaxCurrency,    \* units of one currency, long or short
    MaxShared,      \* open positions that share a currency with a new one
    NoPass,         \* no pass is being made
    Faults,         \* the kinds of fault a run admits
    MaxCandles, MaxFaults   \* bounds for TLC

Sides == {"BUY", "SELL"}
Horizons == {"SWING", "SCALP"}
Symbols == {s[1] : s \in Series}
Currencies == {Base[y] : y \in Symbols} \union {Quote[y] : y \in Symbols}

\* "crash"  the process dies, or an exception ends it
\* "fetch"  the candles of a series cannot be read
\* "load"   the open positions cannot be read before the risk stage
\* "quote"  a symbol has no current price
\* "demote" the registry approves or demotes a strategy while the worker runs
FaultKinds == {"crash", "fetch", "load", "quote", "demote"}

ASSUME DeskAssumption ==
    /\ IsFiniteSet(Strategies)
    /\ Outputs \subseteq [Strategies -> Sides \union {"none"}]
    /\ Factor \in [Strategies -> Nat]
    /\ Bypass \in BOOLEAN
    /\ MLPolicy \in [Strategies -> {"DISABLED", "OPTIONAL", "REQUIRED"}]
    /\ MaxOpen \in [Horizons -> Nat]
    /\ {MaxCurrency, MaxShared, MaxCandles, MaxFaults} \subseteq Nat
    /\ Faults \subseteq FaultKinds

VARIABLES market, quote, approved, decisions, orders, positions, last, retained, worker,
          seen,            \* auxiliary: the newest candidate of a series ever evaluated
          used             \* auxiliary: faults by kind so far

tables == <<decisions, orders, positions>>
memory == <<last, retained>>
environment == <<market, approved>>
vars == <<environment, quote, tables, memory, worker, seen, used>>

Spent == MapThenSumSet(LAMBDA kind : used[kind], FaultKinds)
Fault(kinds) ==
    /\ kinds \subseteq Faults
    /\ Spent + Cardinality(kinds) <= MaxFaults
    /\ used' = [kind \in FaultKinds |-> used[kind] + IF kind \in kinds THEN 1 ELSE 0]
Never(kinds) == \A kind \in kinds : used[kind] = 0

\* A table or a dictionary with the value v at the key k.
Put(table, k, v) ==
    [j \in DOMAIN table \union {k} |-> IF j = k THEN v ELSE table[j]]
-----------------------------------------------------------------------------
(* From what the strategies say to one candidate of a series.              *)

Voices(output) == {g \in Strategies : output[g] # "none"}
Strongest(group) == CHOOSE g \in group : \A h \in group : Factor[g] >= Factor[h]
Leaning(group, output, side) == {g \in group : output[g] = side}

\* evaluate_registered_strategies with the PAPER environment: a strategy that
\* is not approved stays visible as shadow evidence.
Validated(output) == Voices(output) \intersect approved

\* aggregate_strategy_signals: how a conflict of validated strategies ends.
Resolution(output) ==
    LET best(side) == Strongest(Leaning(Validated(output), output, side)) IN
    IF \E side \in Sides : Leaning(Validated(output), output, side) = {}
    THEN "NO_CONFLICT"
    ELSE IF /\ Factor[best("BUY")] > 0 /\ Factor[best("SELL")] > 0
            /\ Factor[best("BUY")] # Factor[best("SELL")]
         THEN "OOS_PROFIT_FACTOR" ELSE "UNRESOLVED_BLOCK"

Anchor(output) ==
    Strongest(IF Validated(output) = {} THEN Voices(output) ELSE Validated(output))

Level(output) ==
    LET against == {g \in Voices(output) : output[g] # output[Anchor(output)]} IN
    IF against = {} THEN "NONE"
    ELSE IF against \intersect approved # {} THEN "HIGH" ELSE "LOW"

\* candidate_identity: symbol, timeframe, candle, direction and the version of
\* the evidence; a decision, an intent and a position are named after it.
Identity(s, output, candle) ==
    [series |-> s, candle |-> candle, side |-> output[Anchor(output)],
     level |-> Level(output), resolution |-> Resolution(output)]

Candidate(s) ==
    LET output == market[s].output IN
    [id |-> Identity(s, output, market[s].candle),
     eligible |-> Validated(output) # {} /\ Resolution(output) # "UNRESOLVED_BLOCK",
     anchor |-> Anchor(output),
     strength |-> Factor[Anchor(output)]]

\* update_candidate_state: a series with a new candle loses its candidate and
\* may get another; the rest is kept as evidence of its timeframe.
Retain(kept, fresh) ==
    [s \in (DOMAIN kept \ fresh) \union {f \in fresh : Voices(market[f].output) # {}} |->
        IF s \in fresh THEN Candidate(s) ELSE kept[s]]

Of(y, context) == {s \in DOMAIN context : s[1] = y}

Opposed_slip(y, context) == FALSE

\* classify_instrument_conflicts: timeframes of a symbol that disagree ...
Opposed(y, context) == \A side \in Sides : \E s \in Of(y, context) : context[s].id.side = side

\* ... and, when they agree, the one that may trade.
Executable(y, context) == {s \in Of(y, context) : context[s].eligible}
Primary(y, context) ==
    CHOOSE s \in Executable(y, context) : \A o \in Executable(y, context) :
        \/ context[s].strength > context[o].strength
        \/ context[s].strength = context[o].strength /\ context[s].id.candle >= context[o].id.candle
-----------------------------------------------------------------------------
(* The worker.                                                             *)

Frames(horizon) == {s \in Series : (s[2] \in SwingFrames) <=> (horizon = "SWING")}

\* A usable quote lies between the levels of a trade, at or below the lower one or at
\* or above the upper one. There is none if a price is missing, old, not
\* tradeable or its spread is too wide.
Quoted == {-1, 0, 1}
NoQuote == 2
NoQuotes == [y \in Symbols |-> 0]

\* get_prices for some symbols.
Ask(symbols) ==
    \E failed \in SUBSET symbols :
        /\ Cardinality(failed) <= 1
        /\ Fault(IF failed = {} THEN {} ELSE {"quote"})
        /\ \E answer \in [symbols \ failed -> Quoted] :
            quote' = [y \in Symbols |-> IF y \in failed THEN NoQuote
                                       ELSE IF y \in symbols THEN answer[y] ELSE 0]
Record(stage, action) == [stage |-> stage, action |-> action]
Idle == [at |-> "scan", horizon |-> "SWING", queue |-> {}, life |-> <<>>, book |-> {},
         doing |-> NoPass]

InitAt(place) ==
    /\ market = [s \in Series |-> [candle |-> 0, output |-> [g \in Strategies |-> "none"]]]
    /\ quote = NoQuotes
    /\ approved = Strategies
    /\ decisions = <<>>
    /\ orders = {}
    /\ positions = <<>>
    /\ last = [s \in Series |-> 0]
    /\ retained = [h \in Horizons |-> <<>>]
    /\ worker = [Idle EXCEPT !.at = place]
    /\ seen = <<>>
    /\ used = [kind \in FaultKinds |-> 0]

Init == InitAt("down")

\* run_forex_market_worker up to its loop: the cycles start with no memory.
Boot ==
    /\ worker.at = "down"
    /\ worker' = Idle
    /\ last' = [s \in Series |-> 0]
    /\ retained' = [h \in Horizons |-> <<>>]
    /\ UNCHANGED <<environment, quote, tables, seen, used>>

Crash ==
    /\ worker.at # "down"
    /\ worker' = [Idle EXCEPT !.at = "down"]
    /\ quote' = NoQuotes
    /\ Fault({"crash"})
    /\ UNCHANGED <<environment, tables, memory, seen>>

\* What a pass finds out about a candidate before the reviews: the registry,
\* the other timeframes and the executable candidate of the symbol.
Unapproved(c) == ~c.eligible /\ (c.id.resolution = "UNRESOLVED_BLOCK" \/ ~Bypass)

Refused(c, context) ==
    LET y == c.id.series[1] IN
    \/ Unapproved(c)
    \/ Opposed(y, context)
    \/ Executable(y, context) # {} /\ context[Primary(y, context)].id # c.id

\* What may come of the ML stage: a model that is missing or abstains does not
\* stop a candidate, unless its strategy requires one.
MLResults(policy) ==
    CASE policy = "DISABLED" -> {"SKIPPED"}
      [] policy = "OPTIONAL" -> {"SKIPPED", "ABSTAIN", "PASSED", "REJECTED"}
      [] policy = "REQUIRED" -> {"PASSED", "REJECTED"}

\* Only a candidate that a model qualified may be sent to the review, which
\* approves it or does not; the other ones go on without.
ReviewResults(ml) ==
    CASE ml = "PASSED" -> BOOLEAN
      [] ml = "REJECTED" -> {FALSE}
      [] OTHER -> {TRUE}

Admitted(c) == UNION {ReviewResults(ml) : ml \in MLResults(MLPolicy[c.anchor])}

\* A candidate that was not refused and that the model and the review let pass,
\* or the reason why not.
Verdict(c, context, passed) ==
    IF c.id \in passed /\ ~Refused(c, context)
    THEN Record("REVIEWED", "NONE")
    ELSE Record("CANDIDATE", IF Unapproved(c) THEN "SHADOW" ELSE "REJECT")

Stale_slip(s) == FALSE

Stale(s) == last[s] = market[s].candle

\* The series with a candle the cycle has not seen.
Fetched(missing) ==
    {s \in Frames(worker.horizon) \ missing : market[s].candle > 0 /\ ~Stale(s)}

\* run, up to the prices: candles are fetched, strategies evaluated on what is
\* new, candidates aggregated, gated, and reviewed by the model and the agents.
Scan ==
    /\ worker.at = "scan"
    /\ \E missing \in SUBSET Frames(worker.horizon) :
       LET fresh == Fetched(missing)
           context == Retain(retained[worker.horizon], fresh)
           found == {context[s] : s \in fresh \intersect DOMAIN context}
       IN /\ Cardinality(missing) <= 1
          /\ Fault(IF missing = {} THEN {} ELSE {"fetch"})
          /\ \E passed \in SUBSET {c.id : c \in {d \in found : ~Refused(d, context)}} :
              /\ \A c \in found : ~Refused(c, context) => (c.id \in passed) \in Admitted(c)
              /\ worker' = [worker EXCEPT
                    !.at = "load",
                    !.queue = {c.id : c \in found},
                    !.life = [i \in {c.id : c \in found} |->
                        Verdict(CHOOSE c \in found : c.id = i, context, passed)]]
          /\ last' = [s \in Series |-> IF s \in fresh THEN market[s].candle ELSE last[s]]
          /\ retained' = [retained EXCEPT ![worker.horizon] = context]
          /\ seen' = [s \in (DOMAIN seen \ fresh) \union (fresh \intersect DOMAIN context) |->
                        IF s \in fresh THEN context[s].id ELSE seen[s]]
    /\ UNCHANGED <<environment, quote, tables>>

Open == {i \in DOMAIN positions : positions[i] = "OPEN"}

\* Prices of the scanned symbols, then the open positions; if these cannot be
\* read the pass goes on as if there were none.
Load ==
    /\ worker.at = "load"
    /\ \/ /\ Ask({i.series[1] : i \in worker.queue})
          /\ worker' = [worker EXCEPT !.at = "decide", !.book = Open]
       \/ /\ quote' = NoQuotes
          /\ Fault({"load"})
          /\ worker' = [worker EXCEPT !.at = "decide"]
    /\ UNCHANGED <<environment, tables, memory, seen>>

\* evaluate_forex_pretrade and the sizing before it, over the positions the
\* worker believes to be open. Of the margin and the money at risk, which the
\* sizing bounds, nothing is kept.
Signed(i, c) ==
    IF Base[i.series[1]] = c THEN (IF i.side = "BUY" THEN 1 ELSE -1)
    ELSE IF Quote[i.series[1]] = c THEN (IF i.side = "BUY" THEN -1 ELSE 1)
    ELSE 0
Abs(n) == IF n < 0 THEN -n ELSE n
Exposure(book, c) ==
    Cardinality({i \in book : Signed(i, c) = 1}) - Cardinality({i \in book : Signed(i, c) = -1})
Pair(i) == {Base[i.series[1]], Quote[i.series[1]]}
Sharing(i, book) == {j \in book : Pair(j) \intersect Pair(i) # {}}

\* No price to size the trade with, or one that is past the stop.
Unsizable(i) == quote[i.series[1]] \in {NoQuote, IF i.side = "BUY" THEN -1 ELSE 1}

Blocked_slip(i, book, horizon) ==
    \/ Cardinality(book) >= MaxOpen[horizon]
    \/ \E c \in Currencies : Abs(Exposure(book, c)) >= MaxCurrency
    \/ Cardinality(Sharing(i, book)) >= MaxShared
    \/ Unsizable(i)

Blocked(i, book, horizon) ==
    \/ Cardinality(book) >= MaxOpen[horizon]
    \/ \E j \in book : j.series[1] = i.series[1]
    \/ \E c \in Currencies : Abs(Exposure(book, c)) >= MaxCurrency
    \/ Cardinality(Sharing(i, book)) >= MaxShared
    \/ Unsizable(i)

\* persist_decision: the row is inserted or overwritten.
Persist(i, record) == decisions' = Put(decisions, i, record)

Accept_slip(i) == UNCHANGED decisions

\* The first write of create_local_paper_position.
Accept(i) == Persist(i, Record("FINAL", "PAPER"))

\* The decision of one candidate, up to its first write.
Decide(i) ==
    /\ worker.at = "decide"
    /\ i \in worker.queue
    /\ \/ /\ worker.life[i].stage = "CANDIDATE"
          /\ Persist(i, worker.life[i])
          /\ worker' = [worker EXCEPT !.queue = @ \ {i}]
       \/ /\ worker.life[i].stage = "REVIEWED"
          /\ i \in worker.book
          /\ worker' = [worker EXCEPT !.queue = @ \ {i}]
          /\ UNCHANGED decisions
       \/ /\ worker.life[i].stage = "REVIEWED"
          /\ i \notin worker.book
          /\ Blocked(i, worker.book, worker.horizon)
          /\ Persist(i, Record("REVIEWED", "REJECT"))
          /\ worker' = [worker EXCEPT !.queue = @ \ {i}]
       \/ /\ worker.life[i].stage = "REVIEWED"
          /\ i \notin worker.book
          /\ ~Blocked(i, worker.book, worker.horizon)
          /\ Accept(i)
          /\ worker' = [worker EXCEPT !.at = "fill", !.doing = i]
    /\ UNCHANGED <<environment, quote, orders, positions, memory, seen, used>>

Fill_slip ==
    /\ worker.at = "fill"
    /\ orders' = orders \union {<<"entry", worker.doing>>}
    /\ positions' = Put(positions, worker.doing, "OPEN")
    /\ worker' = [worker EXCEPT !.at = "filled"]
    /\ UNCHANGED <<environment, quote, decisions, memory, seen, used>>

\* persist_paper_fill: order and position in one transaction, unless the
\* intent has an order already.
Fill ==
    /\ worker.at = "fill"
    /\ LET created == <<"entry", worker.doing>> \notin orders IN
       /\ orders' = orders \union {<<"entry", worker.doing>>}
       /\ positions' = IF created THEN Put(positions, worker.doing, "OPEN") ELSE positions
       /\ worker' = [worker EXCEPT !.at = IF created THEN "filled" ELSE "repeated"]
    /\ UNCHANGED <<environment, quote, decisions, memory, seen, used>>

\* The last write of create_local_paper_position; the book of the pass follows.
Confirm ==
    /\ worker.at \in {"filled", "repeated"}
    /\ Persist(worker.doing,
               Record(IF worker.at = "filled" THEN "OPEN" ELSE "FINAL", "PAPER"))
    /\ worker' = [worker EXCEPT
           !.at = "decide", !.doing = NoPass,
           !.queue = @ \ {worker.doing},
           !.book = IF worker.at = "filled" THEN @ \union {worker.doing} ELSE @]
    /\ UNCHANGED <<environment, quote, orders, positions, memory, seen, used>>

\* The scalp pass follows the intraday pass; then positions are managed.
EndPass ==
    /\ worker.at = "decide" /\ worker.queue = {}
    /\ IF worker.horizon = "SWING" /\ Frames("SCALP") # {}
       THEN /\ worker' = [Idle EXCEPT !.horizon = "SCALP"]
            /\ quote' = NoQuotes /\ Fault({})
       ELSE /\ worker' = [Idle EXCEPT !.at = "manage", !.queue = Open]
            /\ Ask({i.series[1] : i \in Open})
    /\ UNCHANGED <<environment, tables, memory, seen>>

\* _exit_for_position: the stop is looked at before the target.
Hit(i) == quote[i.series[1]] \in {-1, 1}
Reason(i) == IF quote[i.series[1]] = (IF i.side = "BUY" THEN -1 ELSE 1) THEN "STOP" ELSE "TARGET"

\* persist_paper_close: order, position and decision in one transaction; a
\* position without a decision row is left open.
Close(i) ==
    /\ orders' = orders \union {<<"exit", i, Reason(i)>>}
    /\ positions' = [positions EXCEPT ![i] = "CLOSED"]
    /\ decisions' = [decisions EXCEPT ![i].stage = "CLOSED"]

Manage(i) ==
    /\ worker.at = "manage"
    /\ i \in worker.queue
    /\ worker' = [worker EXCEPT !.queue = @ \ {i}]
    /\ IF Hit(i) /\ i \in DOMAIN decisions /\ <<"exit", i, Reason(i)>> \notin orders
       THEN Close(i) ELSE UNCHANGED tables
    /\ UNCHANGED <<environment, quote, memory, seen, used>>

\* The snapshot is published and the task sleeps until the next wake.
Publish ==
    /\ worker.at = "manage" /\ worker.queue = {}
    /\ worker' = Idle
    /\ quote' = NoQuotes
    /\ UNCHANGED <<environment, tables, memory, seen, used>>
-----------------------------------------------------------------------------
(* Its surroundings. Candles and the registry are read by Scan alone: a     *)
(* change while the worker is elsewhere is one just before its next scan.   *)

Settle(s) ==
    /\ worker.at = "scan"
    /\ MapThenSumSet(LAMBDA x : market[x].candle, Series) < MaxCandles
    /\ \E output \in Outputs :
        market' = [market EXCEPT ![s] = [candle |-> @.candle + 1, output |-> output]]
    /\ UNCHANGED <<quote, approved, tables, memory, worker, seen, used>>

\* The validation run, in a process of its own, approves or demotes.
Review(g) ==
    /\ worker.at = "scan"
    /\ Fault({"demote"})
    /\ approved' = IF g \in approved THEN approved \ {g} ELSE approved \union {g}
    /\ UNCHANGED <<market, quote, tables, memory, worker, seen>>

Work ==
    \/ Boot \/ Scan \/ Load \/ Fill \/ Confirm \/ EndPass \/ Publish
    \/ \E i \in worker.queue : Decide(i) \/ Manage(i)

Next ==
    \/ Work \/ Crash
    \/ \E s \in Series : Settle(s)
    \/ \E g \in Strategies : Review(g)

Spec == Init /\ [][Next]_vars
Fairness == WF_vars(Work)
-----------------------------------------------------------------------------
(* What the desk must keep.                                                *)

Stages == {"CANDIDATE", "REVIEWED", "FINAL", "OPEN", "CLOSED"}

\* Sequential work: when no pass is being made, and unless the process died,
\* every decision row tells what became of its position.
Settled == worker.at \in {"scan", "load", "manage"}
JournalTrue ==
    Never({"crash"}) /\ Settled => \A i \in DOMAIN decisions :
        /\ decisions[i].stage = "OPEN" <=> i \in Open
        /\ decisions[i].stage = "CLOSED" <=> i \in DOMAIN positions \ Open
        /\ i \in DOMAIN positions => decisions[i].action = "PAPER"

\* A position can always be closed: its decision row exists, whatever was
\* crashed or repeated between the three writes that opened it.
Closable == \A i \in Open : i \in DOMAIN decisions /\ <<"entry", i>> \in orders

\* The caps hold over both passes, of which each reads the table for itself.
\* A failed read counts as an empty table.
BookInCaps ==
    Never({"load"}) =>
        /\ \A i, j \in Open : i.series[1] = j.series[1] => i = j
        /\ Cardinality(Open) <= Max({MaxOpen[h] : h \in Horizons})
        /\ \A c \in Currencies : Cardinality({i \in Open : c \in Pair(i)}) <= MaxShared

\* No opening leaves more of a currency, long or short, than is allowed. A
\* close may: what it closes may have offset the rest.
CurrencyInCaps ==
    [][Never({"load"}) /\ Open' \ Open # {} =>
        \A c \in Currencies : Abs(Exposure(Open', c)) <= MaxCurrency]_vars

\* A closed position stays closed and is never filled again, whatever a
\* restart rediscovers.
ClosedForGood ==
    [][\A i \in DOMAIN positions : positions[i] = "CLOSED" => positions'[i] = "CLOSED"]_vars

\* No position is opened against the evidence of another timeframe of its pass,
\* unless that evidence was lost with the process and could not be read again.
Heeded ==
    [][\A i \in DOMAIN positions' \ DOMAIN positions :
        Never({"crash"}) \/ Never({"fetch"}) =>
            \A s \in DOMAIN seen :
                s[1] = i.series[1] /\ (s[2] \in SwingFrames <=> i.series[2] \in SwingFrames)
                    => seen[s].side = i.side]_vars

\* The book is emptied in the end if from some point on every price the worker
\* manages with is beyond a stop or a target.
HitIsClosed ==
    <>[](worker.at = "manage" => \A i \in worker.queue : Hit(i)) => []<>(Open = {})

\* Journal and book agree, every position can be closed, and the caps hold.
BookIsTrue == JournalTrue /\ Closable /\ BookInCaps

\* What may enter the book: nothing against the evidence, nothing a second time
\* and nothing above the cap of a currency.
OpeningsAreSound == Heeded /\ ClosedForGood /\ CurrencyInCaps
=============================================================================
