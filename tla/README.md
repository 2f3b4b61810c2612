# DeltaQuant in TLA+

DeltaQuant trades Indian equities (NSE) and forex on paper, with strategies that look at settled candles,
language-model agents that review what the strategies propose, and a chain of stores that follow every
trade from its intent to what was learned from it. This directory specifies the parts of it in which
order, concurrency and failure matter, checks them with TLC on small instances and proves some of the
results with TLAPS for all instances. Paths below are relative to the root of the repository.

## 1. The system

| Component | State | Operations | Hard behaviour | Correct when |
|---|---|---|---|---|
| **Paper trade life cycle** `markets/nse/execution/{lifecycle,paper_engine,finalize,exit_manager,journal}.py`, its handlers in `markets/nse/runtime/live.py` | wallet, order table, ledger, exit manager, daily record, journal, outcomes, lesson credits | entry, exit, add, finalization, reconciliation and replay | seven stores without a common transaction; a crash or an exception between any two writes; a commit whose answer is lost | the ledger never claims a share the orders lack; what is held is supervised; each outcome is learned once |
| **Paper desk arithmetic** `paper_engine.py`, `exit_manager.py`, `averaging.py`, `risk/{sizing,costs,guards}.py` | cash, average prices, stops and targets, drawdown | size, buy, sell, add, every exit rule, flatten | ratchets; partial exits; three copies of an average price; a rolled-back commit | money is conserved; protection only grows; the replayed history agrees |
| **Order submission** `execution/{service,live_executor}.py`, `broker/dhan/execution.py` | idempotency store, order rows, the broker's book | submit, fill, place, poll, record | awaits between check and record; a placement that raised after it got through; eviction of keys | one fill per key; no real order without consent |
| **Candidate review** `agents/*`, `risk/pretrade.py`, the cycle in `live.py` | context, verdicts, the book and the day as one cycle sees them | context, gates, regime, selection, review, risk, entry | the book, the registry and the budget change while models answer; outages; cached verdicts | an entry was cleared by reviewers that answered; the day's loss is bounded |
| **Agent answers** `agents/{graph,signal_validation,risk_compliance,...}.py`, `core/qwen/policy.py` | the lists of one invocation, the verdict cache | parse, match, fall back, return | late, unreadable, incomplete, contradictory answers | what was not said is never an approval |
| **Scalp scan** `strategies/{scalp_scan,assessment_matrix,entry_quality,...}.py` | statuses, opportunities, counters | assess, confirm twice, judge the entry, rank | missing timeframes; a price newer than the levels | a setup is one; the counters add up |
| **Technical strategies, indicators** `core/{strategies/production,candidates/signals,indicators/engine}.py` | an indicator cache | twenty strategies; zones, profiles | long and short halves written apart; a cache keyed by one bar; a sliding frame | a market and its mirror image get mirrored signals; a series is told once and as it is |
| **Settled-candle scan** `runtime/{state,live}.py`, `market_data/history_ingestion.py` | readiness and last candle per series | detect, load, observe, mark, evaluate | downloads that gate a series; exceptions in mid-cycle | once per candle, and the newest in the end |
| **Candle history** `market_data/{history_manager,history_ingestion}.py`, `core/candles.py` | frames in memory, rows in the store | read, append quote, resample, ingest, bootstrap | a reader that copies, awaits and writes back while quotes append; failed windows; partial candles | an event has its candle; the store is corrected in the evening; the horizon is reached |
| **Market feed** `market_data/manager.py`, `broker/dhan/{websocket,quotes}.py` | quotes, source, socket, previous closes | start, poll, packet, refresh, gates on a quote | a socket that closes quietly; stale caches; a quote that ages between pick and order | an entry pays a fresh price; a stop is honoured |
| **Forex desk** `markets/forex/{runtime,risk,eligibility}`, `core/aggregation` | decisions, orders, positions, retained candidates | scan, aggregate, conflict, decide, fill, manage | a restart between the writes of one decision; evidence of several timeframes; shared currencies | journal and book agree; nothing reopens; caps hold |
| **OANDA connection** `markets/forex/broker/oanda/provider.py` | one state word, a stream task, intents | start-up, reads with retries, stream, orders | a state word with three writers; silence; retries of what must not be repeated | the state is told truly; the stream comes back |
| **LLM gateway** `core/utils/circuit_breaker.py`, `agents/llm_factory.py` | breaker state and counts | check, request, fall back, record | a breaker without a lock; rate limits that must not count | opens only on real failures, recovers |
| **Token ledger** `finops/{cost_tracker,storage}.py` | rows shared by processes, per-process memory | record, persist, count, ask the budget | asked before and charged after; failed reads and writes | the overshoot is bounded; nothing is counted twice or lost |
| **Prediction cache** `agents/prediction.py` | LRU cache, events of inferences under way | `predict_cached` | concurrent misses; inference that raises; eviction while others wait | one inference at a time per key; no waiter is forgotten |
| **Strategy and model governance** `backtesting/{strategy_eligibility,strategy_registry,validation_scheduler}.py`, `core/ml/{registry,artifacts}.py` | two registries, files, model rows, artifacts | validate, migrate, demote, promote, reload | two records written one after the other; migration by every gate; READ COMMITTED promotion | an approval was earned and ends; one champion |
| **Walk-forward validation** `backtesting/{engine,walk_forward}.py` | trades, folds | walk, attribute, aggregate | folds and remnants; forced close; costs | a verdict rests on out-of-sample trades counted once |
| **Signal discovery** `signal_discovery/*` | accepted formulas, scheduler state | iterate, score, correct, save, load, score live | failures between timeframes; a live panel that is not the one of the search | a live signal earned it; the search goes on |

How they interact. `run_live_trading` (live.py) starts the trading cycle, the position loop and the
history ingestion. The first two are tasks of one event loop; ingestion, loads and predictions run in
threads; the NSE and forex workers are processes that share databases, among them the token ledger. A
scan finds series with a new settled candle, computes indicators, runs strategies, ranks and reviews what
they propose (context, agents through the gateway and under the budget, verdict cache), looks at the book
once more, sizes a trade and submits it; the position loop asks the exit manager on every tick and
submits exits; a closed trade is finalized into journal, performance and lessons. Schedulers in the same
process validate strategies, train models and search formulas; what they write is what the scan reads.

`PROJECT.json` lists every component, modelled or not, and under "hazards" what in this code is hard to
test, at the line where it bites, with the properties that cover it.

## 2. The modules

| Module | Models | With |
|---|---|---|
| `PaperTradeLifecycle` | the life cycle of paper trades over its stores | instantiates `TradeJourney`, what the ledger promises about one trade; `PaperTradeLifecycleProofs` |
| `PaperDesk` | prices, money and exit rules of the same trades | `MCOrders`, `OrdersProofs` |
| `OrderSubmission` | `ExecutionService` in every mode, with the broker behind it | `MCOrders`, `MCOrderSubmission`, `OrdersProofs` |
| `CandidateReview` | one trading cycle from candidates to entries | `MCCandidateReview`, `ReviewProofs` |
| `ScalpScan` | the scan that finds the scalp candidates | `MCCandidateReview`, `ReviewProofs` |
| `AgentAnswers` | one invocation of the agent graph, answer by answer | `MCResearch`, `ServicesProofs` |
| `TechnicalStrategies`, `BarIndicators` | the strategies over snapshots; zones, profile and cache over bars | `MCTrading`, `StrategyProofs` |
| `SettledScan` | market state store, cycle and ingestion | `MCServices`, `ServicesProofs` |
| `CandleHistory`, `DailyHistory` | intraday and daily candles in memory and in the store | `MCResearch`, `ResearchProofs`; `FeedProofs` for the daily ones |
| `MarketFeed` | quotes from their source to the order | `MCMarketFeed`, `FeedProofs` |
| `OandaConnection` | the Forex worker's connection | `MCMarketFeed`, `FeedProofs` |
| `ForexDesk` | the Forex worker | `MCForexDesk`, `ForexDeskProofs` |
| `LlmGateway` | circuit breaker and model fallback | `MCForexDesk`, `MCLlmGateway`, `ReviewProofs` |
| `UsageLedger` | token ledger and hard budget | `MCServices`, `ServicesProofs` |
| `PredictionCache` | single-flight inference cache | `MCServices`, `ServicesProofs` |
| `StrategyGovernance`, `ModelGovernance` | approval of strategies; champion models | `MCGovernance`, `StrategyProofs` |
| `WalkForward`, `SignalDiscovery`, `FormulaPanel` | validation; the search for formulas; formulas over a panel | `MCResearch`, `ResearchProofs` |

Conventions. An `MC` module that holds several modules has a variable `subject`, chosen at the start,
which says whose behaviour this is: the modules share no state and none disturbs another. Fault kinds are
a constant `FaultKinds`; `Faults` chooses those of a run, `MaxFaults` (or `MaxMishaps`, `MaxTrouble`)
bounds their sum, and an auxiliary variable counts or names them, so that a property can say under which
faults it holds (`Never({"raise"}) => ...`) and one run checks it under all of them. Variables marked
auxiliary do not exist in the code. An operator named `X_slip` (or `_lost`, `_unset`) is a plausible
mistake in `X`: the specification does not use it, it is there to show that the properties would notice.

### 2.1 PaperTradeLifecycle

A handler is a `task` whose `at` names its next write; the action of that name does the write and moves
on. The handlers are the entry (`CreateIntent`, `SubmitEntry`, `MarkOpen`, `RecordEntry`,
`RegisterPosition`, `RecordTrade`, or `MarkRejected`: live.py 3985-4310 and 2400-2680), the exit
(`ExitFill`, `RecordExit`, `RecordExitPnl`, `ApplyExitFill`: live.py 1211-1279), the averaging add
(`AddFill`, `RecordAdd`, `ApplyAddFill`, `RecordAddEntry`: live.py 1612-1690) and finalization
(`RecordOutcome`, `CloseTrade`, `CreditLessons`, `MarkFinalized`: finalize.py). Start-up is `phase`:
`Boot` loads, the passes `wallet`, `intents` and `ghosts` are `reconcile` (lifecycle.py 588-731) and
`replay` is `replay_unfinalized`. `Persist` is the one transaction of `place_order`; `Save` is
`ExitManager._save`, which swallows its exceptions.

Abstractions: prices, charges and texts are left out; a quantity is kept wherever a store keeps it. In
paper mode no handler awaits between its writes, so tasks do not interleave with each other, but a crash
or an exception may come between any two of them, and any handler may follow any other. Orders are totals
per trade (what `get_orders_for_trade` replays), with the keys of adds, which is what makes a repeated
add a duplicate; the idempotency store in front of it is modelled in `OrderSubmission` and left out here
since the order table decides. A refused or duplicate exit changes nothing and is a stutter. Any exit
rule may fire at any time, and a flatten is an exit of everything. The model covers one trading day, so
the daily record is never reset. A failing load is all or nothing. `ManagedCarriesSource` says whether
managed positions have the attribute `entry_data_source` that every exit and add reads; the code's class
lacks it (finding `v_never_exits`), and with FALSE nothing could be exited, so the other runs supply it.

### 2.2 OrderSubmission

`Submit` is `_guard` and the choice of route; `FillPaper` is `_fill_paper` with `place_order` under it;
`Place` and `Poll` are `place_and_confirm` over `ExecutionAdapter`; `Record` is `_record_if_filled` with
the store's write and eviction. `ResolveMode` is the conjunction of settings that reaches the broker.
`BrokerActs` is external. A key that is recorded again keeps its one place in the order of eviction. In
paper mode nothing is awaited, so `Free` keeps other callers out between `FillPaper` and `Record`; in live mode they come in between placements and polls.

### 2.3 LlmGateway

Recording an outcome is modelled statement by statement (a count is read, written back, judged), since
the breaker has no lock and agents run in threads; a look at the `state` property with its lazy
transition is one step. Counts saturate at their thresholds, which is all they are compared with.
`Analysts` are threads in the news analyst's own call path (`CircuitBreaker.call`, no fallback, no
rate-limit exemption).

### 2.4 UsageLedger

A call costs one unit. `Begin` asks the budget (`HardBreached` over `Counted`), `Answer` is the response
with its entry in memory, `Persist` the upsert with its four attempts as one, `NextDay` and `Restart` the
world. `Unchecked` are threads whose path reaches the model without asking the budget. A row carries the
day it is written on, a record in memory the day of its answer.

### 2.5 PredictionCache

Every section under `_cache_lock` is an action; inference runs outside of it. An event is set once, so
setting it sends its waiters back to the head of the loop. `clear_cache` has no caller and is left out.

### 2.6 SettledScan

The stages of the cycle: `Detect` (`plan_timestamps`), `Load` (worker threads), `Observe`
(`plan_events`), `Compute` (features, then `mark_processed`), `Evaluate` (all strategies as one step),
`CycleFails` (the per-cycle isolation of the loop). `BeginSync` and `EndSync` are the download that gates
a series; `Settle` is a new candle. The load of one frame is atomic. A restart is not modelled: the store
lives in memory and starts again from `Init`.

### 2.7 PaperDesk

`Enter` is sizing, `place_order` and registration; `CheckExits` and `Settle` are the position loop (the
rules of `check_exits` in their order, then the sale and its effect on the exit manager), `Average` the
averaging add, `NewDay` and `Restart` the world. A handler is whole here; its crashes are in
`PaperTradeLifecycle`. One instrument, so at most one position, which is what `PreTradeEngine` allows. A
mishap is a failed commit (rolled back), a lost save or a restart. `History` replays the order rows as
`get_closed_trade_history` does, lot by lot (`CloseLot`); the cut to the last 250 results is left out. Short positions, sizing methods
nothing calls, and `reset` are left out.

### 2.8 CandidateReview, ScalpScan and AgentAnswers

The three cut the same path at different depths. `ScalpScan` is `run_scalp_scan_detailed`: `Fetch`
(indicators, consolidation, first confirmation), `Entry` (5m frame), `Predict` (predictions and second
confirmation), `Rank`. A batch of signals is a function from places to signals, and what is kept of it a set
of places, so that a list comprehension is a subset; the zigzag is a function of the closes, defined from one
close to the next. `CandidateReview` takes candidates with their facts as given and follows both
horizons through `UseContext` or `MakeContext`, `Gate`, `Regime`, `Select`, `ReviewOptimised` or
`ReviewBatch`, `Comply` and `Enter`, one step per await, with `Sell`, `NewDay`, `Overspend`, `Withdraw`
and `ContextExpires` in between; what an agent says is one of few verdicts. `AgentAnswers` takes the book
as given and opens up the answers: duplicates, strangers, missing items, misshapen or late ones, over two
invocations with the verdict cache between. Scores are kept where a threshold reads them; prompts, texts
and, in batch mode, changed stops and targets are left out.

### 2.9 TechnicalStrategies and BarIndicators

A strategy is an operator from a snapshot of the fields it reads to BUY, SELL or nothing, its stop and
its target, translated rule by rule; `Evaluate` judges one snapshot. `BarIndicators` settles one bar at a
time (`Settle`), looks at the frame through the cache (`Recall`, `Remember`) and reports zone reactions;
`Grow` is one step of the value area. Prices are small integers in units of the ATR. Moving averages,
oscillators, SuperTrend, PSAR, the technical score and reason codes are left out.

### 2.10 CandleHistory and DailyHistory

A candle is the set of trades it has seen, which tells partial, complete and corrected candles apart
without prices. `Read`, `ReadStore`, `ReadAsk` and `ReadMerge` are the parts of
`get_multi_timeframe_history` between which quotes append (`AppendQuote`); `SyncFetch` and `SyncUpsert`
are the ingestion. `DailyHistory` has the double label of a day: midnight for a download, the first
quote's time for a live bar. Trimming to 500 rows, volumes, the simulated stream and the upgrade of old
tables are left out.

### 2.11 MarketFeed and OandaConnection

`StartSocket`, `StartPolling`, `StartMock` are `MarketDataManager.start`; `PollAnswered`, `PollFailed`,
`Packet`, `SocketCloses`, `SocketFails` what reaches it; `Wake`, `Pick`, `Reviewed`, `Reread`, `Execute`
a cycle that buys; `ManagePosition` the stop check. A quote has the exchange's price and time and the day
its change refers to. In `OandaConnection` the worker is `Pace` (start-up reads, `WaitOver`, `Publish`),
the stream task is `Loop` (`Dial`, `Connect`, `Hear`, `Break`, `Mute`, `WakeUp`), both write the one
state word, and `Traders` submit with a client of their own.

### 2.12 ForexDesk

`Scan`, `Load`, `Decide`, `Persist`, `Fill`, `Confirm`, `Manage`, `Close` and `Publish` are the writes
and awaits of one worker task; `Settle` is a new candle, `Review` a demotion from outside, `Crash` a
restart with the tables kept. Aggregation, conflict and identity of candidates (`Candidate`, `Opposed`,
`Primary`) are operators. Exposure to a currency counts positions, each as one unit, where the code adds
their notional values over the equity. Margin and money arithmetic, frames and telemetry are left out.

### 2.13 StrategyGovernance and ModelGovernance

The former has one strategy at one timeframe in either market, write by write: the validation run of NSE
(`ValidateNse`, `WriteLegacy`, `WriteStatus`, `Stamp`) or Forex (`ValidateForex`, `RegisterForex`,
`Demote`, `Report`), the migration every gate does (`MigrateBegin` to `MigrateEnd`), the scan's cached
records. The latter has `promote` as its statements at READ COMMITTED (`FindActive`, `Retire`,
`Activate`), the hot reloader, and trainers that save payload and metadata.

### 2.14 WalkForward, SignalDiscovery and FormulaPanel

`Bar` is one turn of the engine's loop over a symbol, `CloseOut` the forced close, and folds, attribution
and verdict are operators on the trades; a trade is booked to the first fold that holds its entry (`Booked`),
where the code's loop breaks. A discovery run is `BeginTimeframe`, `Generate`, `Evaluate`,
`Feedback`, `Stamp`; scoring draws a result. `FormulaPanel` has one operator of each kind (elementwise,
cross-sectional, shifted, rolling) and follows a live panel bar by bar. A formula is the sequence of the nodes
of its syntax tree in the order in which `_evaluate_node` returns from them, each naming the earlier nodes
that are its operands, so the recursion of the code is a recursive function over the nodes (`Matrices`).

## 3. The runs

All are run as `tlc -config <run>.cfg <module>`; sizes are of distinct states.

| Run | Properties | Instance | States |
|---|---|---|---|
| `trading` (`MCTrading`) | `TypeOK`, `LedgerNeverAhead`, `BooksAgree`, `NothingIsForgotten`, `ExposureIsCapped`, `FollowsJourney`, `MirrorImage`, `SeriesIsTrue` | two new trades in one instrument, one position older than the ledger, sizes 2 and 3, one add, five kinds of fault, two of them; every snapshot over prices 0..3; seven bars of four shapes; profiles of five buckets | 2.4 M |
| `lifecycle_eventually` (`MCPaperTradeLifecycle`) | `SeenToTheEnd` | size 2, crashes, raising stores and swallowed writes, two of them | 0.3 M |
| `orders` (`MCOrders`) | `RealOrdersNeedConsent`, `SubmissionsAreTrue`, `RecordedIsNotRepeated`, `MoneyAddsUp`, `ProtectionOnlyGrows` | all 64 settings with one caller, three submissions, one fault; two callers, two submissions, two faults; a store of one key for two; two trades over five prices, one add, two days, one mishap | 2.6 M |
| `review` (`MCCandidateReview`) | `EntriesWereCleared`, `DayLossBounded`, `OutageIsForgotten`, `SetupsAreSound` | one scalp and two swing candidates, one review per event, one fault of five kinds; a watchlist of two (one listed twice) on three timeframes, five batches | 1.2 M |
| `research` (`MCResearch`) | `AnswersAreHeeded`, `TodayIsOneBar`, `ScoresAreEarned`, `HistoryServes`, `DiscoveryIsSound` | two candidates of four kinds, answers of up to two items, two invocations; a session of three slots; three days; two symbols of seven bars; one formula, two timeframes; a panel of four rows | 0.5 M |
| `feed` (`MCMarketFeed`) | `PricesAreTrue`, `StopsAreHonoured`, `ConnectionIsTrue`, `OandaComesBack` | two symbols over two days in three modes, one fault; one retry, three troubles, two traders, three submissions | 1.3 M |
| `forex` (`MCForexDesk`) | `BookIsTrue`, `OpeningsAreSound`, `HitIsClosed`, `BreakerIsTrue`, `BreakerCools` | two pairs that share a currency, four series, two candles, one fault; two agents and the news analyst, thresholds of two | 1.1 M |
| `governance` (`MCGovernance`) | `ApprovalWasEarned`, `ApprovalsEnd`, `ModelsAreSound`, `ChampionIsServed` | two versions, two runs, a lifetime of two, one crash, one edit; two models, three requests, two trainers | 1.3 M |
| `services` (`MCServices`) | `CacheIsSound`, `BudgetHolds`, `OncePerCandle`, `ServicesServe` | three threads, three keys, room for two, six calls; two processes, budgets 2 and 1, four calls, two days; two series, three candles, one download | 2.0 M |
| `v_never_exits` | `ManagedExits` (violated) | the class as the code has it, no fault | |
| `v_filled_twice` | `OneFillPerKey` (violated) | live mode, one caller, no fault | |
| `v_quota_trips` | `QuotaNeverTrips` (violated) | the analyst's model's quota ends | |

Why the bounds are enough. *Life cycle*: two trades are the fewest that compete for an instrument, a
position limit and the daily cap; sizes 2 and 3 have an even and an odd half, so the partial exit leaves
more than, or as much as, it sells; two faults are a fault and a fault in the repair from it. *Signals*:
with four price levels every two fields of a snapshot can be in any order, with room between them; a
frame of six with an overlap of one makes a pivot enter, be confirmed, react and slide out in seven bars.
*Orders*: a store of one key evicts at the second fill; two retries and two polls have a first and a
last; keys and callers are interchangeable, so TLC keeps one state of each symmetric set. *Desk*: prices are multiples of 40, so
that fills at a twentieth of slippage and means over two and three shares are whole; they lie below the stop, at the trail, at entry, at one R and beyond the target.
*Review*: two swing candidates compete for a sector, a position and a day's loss with a scalp before
them. *Scalp scan*: the first symbol takes every mixture, the second is there to be ranked and counted
beside it; windows of five closes hold a swing up and one down. *Answers*: two items are an answer and a
contradiction, a stranger or a gap; the second invocation meets the first one's verdicts; the four kinds are
those that take different ways through the nodes, and the proof covers every set of kinds. *History*: a
reader, a quote and a job need one slot each, and the evening. *Feed*: with an age of one, a quote can be
fresh at the pick and stale at the order. *OANDA*: one retry is a first and a last attempt, three
troubles a failure in start-up, stream and recovery. *Forex*: the pairs share a currency, and two
timeframes can oppose a third; two pairs reach the cap of two units of a currency but cannot pass it,
which is where the run relies on the proof (section 7). *Governance*: a version can be superseded by another while a gate migrates
it. *Gateway*: two is the least threshold at which a count can be overwritten, and a third thread can act
between the two. *Ledger*: two threads of one process and one of another ask, count and write at once;
four calls are two more than the budget. *Cache*: room for two of three keys evicts; the third thread
waits for the second. *Scan*: one series is downloaded or fails while the other is scanned; one candle
settles before, during and after a scan. *Walk-forward*: seven bars with a warm-up of two are two folds
and a remnant.

`CHECK_DEADLOCK FALSE` stands in the runs whose bounds end the behaviour: trades, submissions, calls,
bars and days are finite there, and a day with nothing left to do is an end, not a deadlock. `forex`
checks for deadlock.

## 4. Fairness

* *Life cycle*: a handler that has begun runs on (nothing awaits between its writes); a process that is
  down is started again and start-up runs on (`deploy/systemd/deltaquant-nse.service`,
  `Restart=on-failure`); every managed position is exited in the end, since the time rule
  `max_hold_minutes` (240) fires for any position with a quote. Weak fairness of each; nothing is owed
  for entries, adds and faults, which are bounded.
* *Review*: the loop goes on to its next cycle and every awaited call returns (weak); time passes, so a
  context expires and a day ends again and again (strong, since a cycle can switch them off in between).
* *Feed*: the poll, the cycle and the position loop of a running worker go on, the exchange sends packets
  to a live socket. *OANDA*: the worker's loop and the stream task go on; the server owes answers and
  heartbeats only once its bounded trouble is over.
* *Forex*: the worker task goes on. *Governance*: time passes and the scan comes round; the reloader
  polls.
* *History*: time passes, an asked reader and the evening's job run on. *Discovery*: the job and the
  clock go on.
* *Gateway*: the cycles keep calling the agents, a request ends, a thread runs, time passes (`Cool`). The
  provider and the budget owe nothing; `Recovers` has them in its premise.
* *Cache*: a pool thread runs on. *Scan*: the loop wakes up again and a download ends, in any outcome.

In a module with a `subject` fairness is that of the subject's own steps.

## 5. What the properties say

*Life cycle.* `LedgerNeverAhead` and `FollowsJourney` hold under all faults; `BooksAgree` joins four
statements, each under the faults it is promised for: the rows hold what the orders add up to, unless a
commit's answer is lost or the wallet fails to load; what is closed holds nothing; the memory of a living
process agrees unless something raises; and an outcome is finalized once, with repeated lesson credits
bounded by the crashes. `NothingIsForgotten`: a holding has its exits unless a store raised in
mid-handler, an intent has its fill through crashes. `ExposureIsCapped`: one position per symbol, and the
daily cap overrun by no more than the faults. `TradeJourney` is the abstract ledger of one trade: no
stage is skipped or revisited, an open trade grows by adds and shrinks by sales, and is closed exactly
when nothing is left; `FollowsJourney` is the refinement, with the stage and the remaining shares read
off the ledger.

*Desk.* `MoneyAddsUp`: no rupee is made or lost, rows and memory tell the same wallet after a rolled-back
commit, the three copies of an average price agree and the trade history replayed from rows gives the
realised profit. `ProtectionOnlyGrows`: no step loosens the stop of a position, whichever rules fire in
whatever order.

*Orders.* `SubmissionsAreTrue`: a reported fill is real, and in paper mode the order table keeps one fill
per key even when the idempotency store forgets, is not written or cannot be read; in live mode nothing
does (`v_filled_twice`). `RecordedIsNotRepeated` holds while at most one caller has submitted since the
process started: concurrent submissions of one key pass the same check.

*Review.* `EntriesWereCleared` relates an entry to what was said of that candidate, on that candle and in
that context, by agents that answered, and to the registry when the risk stage ran. `DayLossBounded`
holds over both horizons although each batch is judged on one picture of the book, if no position is sold
below its stop. `SetupsAreSound` states a setup from its evidence, not from the scan's own verdicts:
enough timeframes back it, and no ceiling is near, with a ceiling defined without the zigzag.
`AnswersAreHeeded` is the corresponding statement for each answer: an approval was said, once and of this
candidate, or comes from rules that are named as such.

*Signals.* `MirrorImage`: the long and the short half of each strategy were written apart; mirroring a
snapshot must mirror direction, stop and target (the one strategy that is long only by its source and
bands of no width are excepted). `SeriesIsTrue`: a zone reaction is reported once, what the cache serves
is fresh unless an older bar was corrected, and a value area is no wider than its volume needs.

*Cache, scan, history, feed.* `CacheIsSound`: a key is inferred by one thread at a time and not again while
its result is cached, who waits has a leader that will set the event, and no entry is kept twice or over the
size. `OncePerCandle`: nothing is computed or evaluated twice or after something newer. `ServicesServe` is
the liveness of both: every call of the cache returns, and the newest candle of a series is evaluated in the
end, unless a cycle dies between its features and its strategies. `HistoryServes`: a scan that was told of a candle finds it; the evening replaces partial
candles; the horizon asked for is reached. `TodayIsOneBar` says that the double label never leaves a day
in the frame twice. `PricesAreTrue`: an entry pays a price no older than allowed, of a source that is
still up. `StopsAreHonoured` is liveness of the position loop for the modes in which quotes keep coming.
`OandaComesBack` excludes a stream that is over or silent (section 6).

*Forex.* `BookIsTrue`: the decision, order and position rows of a candidate agree after any restart, each
position can be closed, and the book has one position per instrument, no more than the larger horizon
allows, and no more that share a currency than allowed. `OpeningsAreSound`: nothing trades against a
timeframe that was heard, nothing closed is opened again, and no opening leaves a currency above its cap,
but a close may (section 6).

*Gateway.* Failures of the provider trip the breaker, all of them and no others, while only the primary
model's quota can end; `BreakerCools` excuses one thread: one that was counting a half-open success when
another's failure reopened the breaker. *Ledger.* `BudgetHolds`: the overshoot is bounded for the threads
that ask, beside one that does not; what is counted was spent and what was spent is counted.

*Governance.* `ApprovalWasEarned`: no step but the operator's approves a version that its run did not
pass, however late a gate migrates. `ApprovalsEnd`: a superseded Forex approval is demoted, and a
withdrawal reaches the scan. `ModelsAreSound`: one champion under overlapping promotions, and nothing
half written is loaded.

*Research.* `ScoresAreEarned`: the trades behind a verdict lie in its folds, each once, and a formula
scored again on what a live panel gives scores the same. `DiscoveryIsSound`: a live signal passed the
corrected threshold; the search goes on after failures.

## 6. Disagreements between the code and what is said about it

Three are runs (`PROJECT.json`, "findings"): `v_never_exits` (`_execute_managed_exit` reads
`pos.entry_data_source`, live.py:1238, which `ManagedPosition` does not have), `v_filled_twice` (an order
not confirmed by the last poll is reported REJECTED and not recorded, service.py:559) and `v_quota_trips`
(the news analyst's path records a rate limit as a failure, news_analyst.py:284, which llm_factory.py:194
excludes).

Others were met while modelling. They are the exception or the premise of a property, or left out with a
note at the hazard.

* *Life cycle.* A crash between the closing fill and `record_exit` leaves a trade OPEN in the ledger with
  nothing in the wallet; reconciliation counts it and repairs nothing (lifecycle.py:689). A crash between
  the lesson credit and `mark_finalized` credits the lessons again (finalize.py:135), though
  finalize.py:15 calls the fan-out idempotent. The hard entry cap is overrun by one fill when
  `record_entry` does not happen (live.py:4263). A raise after an entry fill leaves a position unmanaged
  until the next start-up (live.py:4256).
* *Desk.* Kelly is said to be capped at the maximal risk and is capped at the position size
  (sizing.py:190); `update_drawdown` is "for visibility only" but the kill switch reads it; a failed
  `_load_state` starts fresh and then overwrites durable rows; the replayed history matches a closing
  order with one lot only, so that closing an averaged position leaves a short lot open in it
  (paper_engine.py:909-937); an averaging add is not checked against the risk per trade.
* *Review.* In batch mode an unchanged set of candidates is skipped after an outage until something
  changes (live.py:3694); a context with errors is kept for its whole lifetime (shared_context.py:226); a
  context exception bypasses the gate before the models; sector and correlation caps are judged on the
  snapshot before the review; deferred candidates wait for a new candle.
* *Answers.* In batch mode an answer is not held against the active strategies; an unreadable one rejects
  everything without an error; a confidence that is not a number counts as certain; a strategy answer
  that cannot be read becomes trend following in silence.
* *Scalp scan.* The nearest resistance is always above the price, so `_breakout_state` never answers
  "retesting" or "breaking_out" for a BUY, contrary to its docstring (entry_quality.py); a flat
  prediction disagrees in the matrix and is neutral in the ranking; the final matrix may no longer have
  its origin timeframe as a BUY.
* *Signals.* `IndicatorCache` says "a hit requires identical inputs", but its key holds the last bar's
  time and close only (engine.py:1318); `ema_trend_confluence` gates on a planned stop while the signal
  gets another; several docstrings of signals.py name conditions (RSI below 50 and rising, volume
  confirmation, oversold RSI) the code does not require; a flat series is always a mean-reversion BUY.
* *Scan and history.* A candle is marked processed before the strategies run (live.py:1976), though
  state.py:100 says a failed evaluation is retried; `mark_processed` sets READY over BACKFILLING
  (state.py:137); a reader's merge loses quotes appended meanwhile, contrary to "Thread-safe data
  access"; a window that failed in the middle of the first download is never filled; the daily cache has
  no age.
* *Feed.* A socket that closes without an error ends the listener with `is_live` still true
  (websocket.py:390); a partial failure of previous closes is cached all day; one failed poll empties the
  quotes; the position path uses another source of quotes than the docstring says (manager.py:429); the
  kill switch sells a symbol without a quote at its entry price.
* *OANDA.* The stream has no read timeout: a silent connection is STALE and never reopened. One
  unreadable price or a refused token ends the stream task for good. An unparsable answer at start-up
  kills the worker without closing its client. An intent is recorded after the answer, so two callers may
  both submit it.
* *Forex.* A failed load of open positions is an empty book; after a restart the candle is evaluated
  again and its decision row overwritten; a close leaves `final_action` REJECT of a retained candidate;
  horizons have caps of their own but count one book. `forex_max_currency_exposure` is asked before an
  opening and of what is open then (risk/model.py:199), so with four pairs the close of a hedge leaves the
  rest above it, and a position larger than the room left goes through.
* *Gateway and ledger.* The breaker can be closed before it has cooled (circuit_breaker.py:100); usage
  that could not be written on one day is counted on later days too (cost_tracker.py:365); the news
  analyst does not ask the hard budget. The rate limiter's `initial_tokens` protects start-up only: after
  an idle minute the bucket is full, although the comment calls the cap intolerant of bursts
  (rate_limiter.py).
* *Governance.* A crash between the two records, or a gate that migrates an old snapshot, makes a version
  that was approved for production approved for paper (validate_strategy.py:290); `promote` does not look
  at the status again; `create_all` (registry.py:178) does not create the unique index of the migration;
  a trainer that dies between payload and metadata blocks the version; schedulers stamp a failed run as
  completed; NSE eligibility never expires.
* *Research.* Some formulas raise errors the loop does not handle, which gives up the timeframe;
  `edge_verdict` speaks of a majority of folds and compares a mean of consistencies; the p threshold is
  divided by the ordinal of the formula; accepted signals never expire.

## 7. What is proved

TLAPS proves the following for every value of the constants, from the named ASSUMEs of the modules that
declare them and, where it is said, one hypothesis in the theorem itself. Each inductive invariant was first
checked by TLC on the instances of section 3. The ASSUMEs type the constants, keep sentinels apart from what
they stand for, and ask for finite sets of those who are counted (threads, workers, traders, strategies,
candidates); the code's settings and validators satisfy them.

*Life cycle* (`PaperTradeLifecycleProofs`). `TypeCorrect`, and `IInvHolds`: the inductive invariant `IInv`,
the conjunction of `TypeOK` and of what each handler may assume of its trade (`TaskInv`), of managed trades
(`ManagedInv`), of orders by the trade's status (`OrdersInv`), of holdings (`HoldingsInv`) and of the ledger
with the fill under way (`LedgerInv`). `LedgerNeverAheadHolds` follows. It is not inductive by itself:
between a fill and its record the ledger is behind by the quantity of the task, so `LedgerInv` adds that
quantity (`Pending`). `ImplementsJourney`: `Spec => FollowsJourney`; `LedgerMoves` says that every step
moves the record of at most one trade in one of six ways, each a step of `TradeJourney` (`JourneyStep`).
`OrdersInv` also shows that an intent has no adds or exits, so the reconciliation of one whose orders
include exits is dead code.

*Books and exposure* (also `PaperTradeLifecycleProofs`). `BooksAgreeHolds` and `NothingIsForgottenHolds`, from
`BooksInvHolds`. A step is looked at from one trade: what it may do to that trade's rows, memory, outcomes
and exits, given `IInv`. The invariant then says of each handler stage which of these agree and which lag by
what the handler has still to write, each under the faults for which the property promises it.
`ExposureIsCappedHolds`, from `ExposureInvHolds`: an entry carries the room it was promised when it was
gated; for the daily cap an account is kept of every fill that the day's counter lacks, and each such fill is
the one under way or is paid for by a fault (`AccountInv`). The hypothesis, `LegacyFits`: the positions older
than the ledger are finitely many, in different instruments and within `max_concurrent_positions`; the code
imports them as they are and cannot promise more.

*Orders* (`OrdersProofs`). `RealOrdersNeedConsentHolds`, `SubmissionsAreTrueHolds` and
`RecordedIsNotRepeatedHolds`, from `OrderInvHolds`. `CallInv` says of each caller that its route follows from
the settings (`RouteInv`), that what it polls is the order of its own call (`PollInv`) and that what it was
told is true (`ToldTrue`); `PaperInv` that the paper engine has one filled row for a key; `StoreInv` that
only executed keys are on record; `UnrecordedInv` that a caller about to place an order, the only one since
the start and with no failed read, found its key off the record. The order rows stay where they are and what
was executed stays executed (`BookMoves`), so a step of one caller keeps what is said of the others
(`OneCallMoves`).

*Desk* (also `OrdersProofs`). `DeskInvHolds`, from which `RecordsAgree` follows without a hypothesis (wallet
and rows agree, and so do the three copies of an average price, through failed commits, lost saves and
restarts) and `CashIsConserved` (no rupee is made or lost while no position was averaged).
`MoneyAddsUpHolds` is the whole property. Its hypothesis is on behaviours, `EvenSplit`: an add divides the
cost of the position by its shares without a remainder; the model's prices are integers, and the code's are
floats that keep the fraction. For the replayed history the fold over the order rows is unrolled: the
accounts of a replay are a sequence whose steps are those of `Replay` (`Unrolls`), rows that begin alike are
replayed alike, by a minimal counterexample in the place of an induction, and a purchase or a sale tells one
more (`HistoryStep`). `ProtectionOnlyGrowsHolds` has the hypothesis `SlippageWithinTrigger`: the slippage of
a fill is within the fall that triggers an add. The trigger is validated to be at least 0.25 % and the
default slippage is 2 basis points, but the slippage itself is not validated: a larger one could fill an add
above the average and lift the average over a stop at break-even.

*Review* (`ReviewProofs`). `EntriesWereClearedHolds`, from `ReviewInvHolds`: the invariant follows a candidate
from the context (`ContextInv`) over the answers of reviewers that were down (`MisledInv`) and the verdicts
kept of earlier cycles (`VerdictInv`) to the risk stage (`ClearedInv`). `DayLossBoundedHolds`: the risk of a
book is a sum over a set, which is proved to be the number of its units of risk, so that the theorems about
finite sets apply; each entry is decided on the book as it is, not on the picture of its batch.

*Scalp scan* (also `ReviewProofs`). `SetupsAreSoundHolds`, for any watchlist, batches, frames, predictions and
thresholds, from `SetupInv`: the symbol in hand has an origin that counted when it was fetched and, once its
entry was judged, a frame that allows it (`HandInv`), and every counter is a sum of statuses, corrected by
one for the symbol between two counts (`CountersInv`). `Sound` says what a ceiling is without the zigzag, so the
core is `CeilingIsPivot`: every such ceiling is a pivot. That the recursive function exists
(`ZigzagExists`), what it has seen at each close (`ZigzagSeen`) and that it stands on a ceiling until the
price has come back by a swing (`CeilingReached`, `CeilingStays`) go by a minimal counterexample in the place
of an induction. It follows too that the nearest resistance lies above the price, so that no entry waits for
a retest. The assumption on signals: those of a batch say BUY or SELL, since `SignalEngine` drops HOLD.

*Gateway* (also `ReviewProofs`). `BreakerIsTrueHolds`, from `BreakerInvHolds`: the failures counted and those
threads are still writing never exceed the genuine ones, although records overwrite each other. The
hypothesis, `QuotaApart`: there is no news analyst, or its model's quota cannot end; without it the property
is false (`v_quota_trips`). `OpenUntilCooledHolds` is the safety half of `BreakerCools` and needs no
hypothesis.

*Forex* (`ForexDeskProofs`). `BookIsTrueHolds` and `OpeningsAreSoundHolds`, with its part
`CurrencyInCapsHolds`, from `DeskInvHolds`. Its parts say what a pass takes for granted between two awaits: the rows of the decision it
is writing (`RowsInv`), that the book it loaded and extends by hand is the table (`BookInv`), that a candle
is decided once in a life of the process because the candles of a pass are newer than everything decided
(`JournalInv`), and that the evidence of every timeframe ever heard is retained or will be read again
(`EvidenceInv`). `StrongestIn` shows that the strongest of finitely many strategies exists, by a minimal
counterexample over the subsets.

*Feed, connection, daily bars* (`FeedProofs`). `PricesAreTrueHolds`: in market mode the source is never the
simulator, and a poll past its choice of source has a candidate, so whatever a review takes the price paid was
read again. `ConnectionIsTrueHolds`: `StreamInv` relates the state word to the task that writes it, and
`OrderInv` counts the executions of an intent against the traders that asked before the first recorded answer
and the submissions that failed. `TodayIsOneBarHolds`: `BarsInv` says where the two labels of a day may
stand in the frame, in a reader's copy, in the file and in the store; no frame holds both.

*Strategies, indicators, governance* (`StrategyProofs`). `MarketsAreMirrored` goes strategy by strategy, for
prices of any range; its hypothesis, `Balanced`, is that thresholds of the two sides are symmetric: the
defaults are, a user's settings may not be. `SeriesIsTrueHolds`, for any bars and any lengths of pivots,
frames and cache: what is told of a zone rests on closes since its confirmation and is told once, an answer
from the cache is of an input with the same key, and a value area counts the buckets it spans.
`ApprovalWasEarnedHolds` and `SupersededIsDemotedHolds` (the safety half of `ApprovalsEnd`), from
`StrategyInvHolds`: a legacy verdict is written once, by the run it is named after, so a gate that read it
long ago still has it right (`LegacyInv`, `RunInv`); and while a Forex run demotes, each approval is its own
or left to demote (`DemotionInv`). `ModelsAreSoundHolds` rests on the partial unique index for the champion
and on the checksum for what is loaded.

*Services* (`ServicesProofs`). *Cache*: `CacheIsSoundHolds`, for any number of threads and keys and any size,
from `Coalescing`, who owns and who leads a key, and `Contents`, what is cached. *Scan*:
`OncePerCandleHolds`; a loaded frame lies between what was processed and what has settled (`ScanInv`).
*Ledger*: `SpendingIsKnown` without a hypothesis, and `BudgetIsKept` with `LimitIsAmple`, a budget of no more
calls than a read returns rows (10,000 in the code, which would count no further). `LedgerInv` keeps two accounts,
of what was asked for and of what was spent, for every set of horizons at once, since the shared budget and
those of the horizons count the same rows. *Answers*: `AnswersAreHeededHolds`, for candidates of any kinds,
answers of any length and content, any capacity and any number of invocations; `ListInv` says what each list
of an invocation may hold at each node, `VerdictInv` what a kept verdict was made from.

*Research* (`ResearchProofs`). `ScoresAreEarnedHolds`, from its halves. *Verdicts*: `VerdictIsEarnedHolds`.
Contiguous windows are disjoint and cover what lies between the warm-up and the end of the last (`OneFold`),
so an entry is in one fold or in none; `WalkInv` says that every trade carries its gross result less the
charges of both its legs and every report the sum of those it counts (`ReportIsNet`). *Formulas*:
`RescoredIsSameHolds`. Row t of an operator's result depends on the rows of its operands up to t, if its
window is at least two (`ApplyIsLocal`); hence the factor of a panel cut off at t is that of the whole panel
up to t (`NoLookAhead`, by the first node that differs), and what was noted when a bar was the newest
(`PanelInv`) is what research finds. *Discovery*: `LiveSignalsEarnedItHolds`, the safety half of
`DiscoveryIsSound`; what is saved was significant for the number of tests its run had made, which is the
number of formulas tried (`DiscoveryInv`). *Candles*: `EventHasItsCandleHolds`, the safety part of
`HistoryServes`. The rows derived are kept under the last slot and the number of the native rows; that a
frame with the same two has the same rows is not evident, since a reader writes back a copy taken before its
request. `KeptInv` has it: no native row that was there is lost before the rows are derived again, neither in
the frame nor in the copy. `WalkAssumption`, `DiscoveryAssumption` and `HistoryAssumption` give the constants
their types, and the last that a download reaches what has opened since; `FormulaAssumption` says that an
operand comes before its node, as in any syntax tree, and that a window is an integer.

The proofs go by frame lemmas (which actions write which store), then one lemma per conjunct of the
invariant with a step per action that can disturb it. The modules proved about have no `RECURSIVE` operator;
where a table gets a row they say so with a function (`Put` in `ForexDesk`) and not with the operators of
`TLC`, and where something is selected or summed, with sets and counts, since the prover expands neither.

Under the hypotheses named above every invariant and action property of the passing runs is a theorem, `FollowsJourney`, the
refinement, included. Only model-checked is liveness, which under fairness is out of the prover's reach:
`SeenToTheEnd`, `ServicesServe`, `HitIsClosed`, `ChampionIsServed`, `StopsAreHonoured`, `OandaComesBack` and
`OutageIsForgotten`; of `BreakerCools`, `ApprovalsEnd`, `HistoryServes` and `DiscoveryIsSound`, which also say
what is never done, that part is proved and the rest model-checked.

## 8. What is not modelled

See the components with status `not_modelled` in `PROJECT.json`, each with its reason. In short:
arithmetic on frames that no decision but a threshold reads (moving averages, oscillators, features,
correlation), the training and inference of models, the text of agents and prompts, statistics of a
score, rankings of the universe, pure input and output (notifications, tracing, web), reports, and code
no worker reaches (event bus, memory scheduler, legacy streams, the crypto scaffold). Inside a modelled
component what is left out stands in the component's note.

## 9. What is left

The modules of the plan are written. Worth adding next, in this order:

1. `CandidateReview` with the averaging add inside the same cycle, and the desk's prices instead of units
   of risk.
2. The life cycle of an `OandaExecutionProvider` wired to the Forex desk, when a worker selects it.
3. `CandleHistory` for two symbols, with the trim to 500 rows.
