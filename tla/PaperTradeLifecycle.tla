------------------------ MODULE PaperTradeLifecycle ------------------------
(***************************************************************************)
(* One paper trade from intent to learned outcome, over the five stores    *)
(* that each hold a part of it and are written one after the other:        *)
(*                                                                         *)
(*   wallet/stored  LocalPaperEngine.positions and its table (one          *)
(*                  transaction with the order row, place_order)           *)
(*   orders         the order table, totalled per trade                    *)
(*   ledger         PaperTradeLifecycleStore, the canonical ledger         *)
(*   managed/file   ExitManager's positions and its JSON state file        *)
(*   daily, perf, journal, lessons   DailyRiskStore, PerformanceTracker,   *)
(*                  TradeJournal and the lesson credits                    *)
(*                                                                         *)
(* The trading cycle and the position loop are tasks of one event loop and *)
(* no handler awaits between its writes in paper mode, so one `task` runs  *)
(* at a time; but the process may die, or a store may raise, between any   *)
(* two writes.  Start-up loads, reconciles and replays before trading.     *)
(***************************************************************************)
EXTENDS Naturals, FiniteSets

CONSTANTS
    Trades,               \* trade ids: new_trade_id(), or a legacy position id
    NoTrade,              \* the trade of an idle task
    Symbols, SymbolOf,    \* the instrument each trade is in
    Legacy, LegacyQty,    \* wallet positions older than the ledger, their size
    EntryQty,             \* sizes calculate_position_size may return
    AddDivisor,           \* 1 / paper_averaging_add_fraction
    MaxAdds,              \* paper_averaging_max_adds
    DailyEntryCap,        \* min(max_daily_trades, paper_daily_entry_cap)
    MaxPositions,         \* max_concurrent_positions
    AveragingEnabled,     \* paper_averaging_enabled
    LearningEnabled,      \* enable_learning
    ManagedCarriesSource, \* do ManagedPosition objects have the attribute
                          \* entry_data_source that every exit and add reads?
                          \* FALSE in the code; TRUE is the field supplied
    Faults,               \* the kinds of fault a run admits
    MaxFaults             \* how many of them (a bound for TLC)

\* "crash"      the process dies between two writes
\* "raise"      a store call raises; the loops log it and carry on
\* "unsure"     the wallet commit lands but is reported as failed
\* "load"       _load_state raises: "starting fresh" with an empty wallet
\* "swallow"    a write whose exception is caught is lost
FaultKinds == {"crash", "raise", "unsure", "load", "swallow"}

ASSUME ConstantsAssumption ==
    /\ NoTrade \notin Trades
    /\ SymbolOf \in [Trades -> Symbols]
    /\ Legacy \subseteq Trades
    /\ LegacyQty \in Nat \ {0}
    /\ EntryQty \subseteq Nat \ {0}
    /\ AddDivisor \in Nat \ {0}
    /\ {MaxAdds, DailyEntryCap, MaxPositions, MaxFaults} \subseteq Nat
    /\ {AveragingEnabled, LearningEnabled, ManagedCarriesSource} \subseteq BOOLEAN
    /\ Faults \subseteq FaultKinds

VARIABLES
    phase,     \* "down", the start-up passes, or "running"
    task,      \* the handler in progress: its next write, trade and quantity
    wallet,    \* LocalPaperEngine.positions: shares held, in memory
    stored,    \* the paper_positions rows
    orders,    \* what the durable order rows of each trade add up to
    ledger,    \* PaperTradeLifecycleRecord of each trade
    managed,   \* ExitManager._positions, in memory
    file,      \* exit_manager_state.json
    daily,     \* DailyRiskRecord of the day
    journal, perf, lessons,
    ambiguous, \* trades the last reconciliation raised the CRITICAL alert for
    fills,     \* auxiliary: entry and add fills committed in the day
    used       \* auxiliary: faults so far, by kind

durable == <<stored, orders, ledger, file, daily, journal, perf, lessons>>
vars == <<phase, task, wallet, managed, ambiguous, fills, used, durable>>

Idle == [at |-> "idle", trade |-> NoTrade, qty |-> 0]
Untracked == [qty |-> 0, taken |-> FALSE]
OpenStatus == {"OPEN", "PARTIAL"}

Stages == {"submit", "markOpen", "recordEntry", "register", "recordTrade", "markRejected",
           "recordExit", "recordPnl", "applyExit",
           "recordAdd", "applyAdd", "recordAddEntry",
           "recordOutcome", "closeTrade", "credit", "markFinalized"}

Tasks == {Idle} \cup [at : Stages, trade : Trades, qty : Nat]
OrderTotals == [entered : Nat, added : Nat, addKeys : SUBSET (1..MaxAdds), sold : Nat]
LifecycleRecords ==
    [status : {"none", "INTENT", "OPEN", "PARTIAL", "CLOSED", "REJECTED"},
     original : Nat, remaining : Nat, addCount : Nat, finalized : BOOLEAN]
ManagedPositions == [qty : Nat, taken : BOOLEAN]

TypeOK ==
    /\ phase \in {"down", "wallet", "intents", "ghosts", "replay", "running"}
    /\ task \in Tasks
    /\ wallet \in [Trades -> Nat]
    /\ stored \in [Trades -> Nat]
    /\ orders \in [Trades -> OrderTotals]
    /\ ledger \in [Trades -> LifecycleRecords]
    /\ managed \in [Trades -> ManagedPositions]
    /\ file \in [Trades -> ManagedPositions]
    /\ daily \in [entries : Nat, exits : Nat]
    /\ journal \in [Trades -> {"none", "open", "closed"}]
    /\ perf \in [Trades -> Nat]
    /\ lessons \in [Trades -> Nat]
    /\ ambiguous \subseteq Trades
    /\ fills \in Nat
    /\ used \in [FaultKinds -> Nat]

Base(t) == IF t \in Legacy THEN LegacyQty ELSE 0

Init ==
    /\ phase = "down"
    /\ task = Idle
    /\ wallet = [t \in Trades |-> 0]
    /\ stored = [t \in Trades |-> Base(t)]
    /\ orders = [t \in Trades |-> [entered |-> 0, added |-> 0, addKeys |-> {}, sold |-> 0]]
    /\ ledger = [t \in Trades |-> [status |-> "none", original |-> 0, remaining |-> 0,
                                   addCount |-> 0, finalized |-> FALSE]]
    /\ managed = [t \in Trades |-> Untracked]
    /\ file = [t \in Trades |-> Untracked]
    /\ daily = [entries |-> 0, exits |-> 0]
    /\ journal = [t \in Trades |-> "none"]
    /\ perf = [t \in Trades |-> 0]
    /\ lessons = [t \in Trades |-> 0]
    /\ ambiguous = {}
    /\ fills = 0
    /\ used = [kind \in FaultKinds |-> 0]

-----------------------------------------------------------------------------
(* Helpers.                                                                *)

Spent == used["crash"] + used["raise"] + used["unsure"] + used["load"] + used["swallow"]

Fault(kind) ==
    /\ kind \in Faults /\ Spent < MaxFaults
    /\ used' = [used EXCEPT ![kind] = @ + 1]

Held(t) == wallet[t] > 0
Tracked(t) == managed[t].qty > 0
Minus(a, b) == IF a > b THEN a - b ELSE 0

At(stage, t, q) == [at |-> stage, trade |-> t, qty |-> q]
Go(stage, t, q) == task' = At(stage, t, q)
Done == task' = Idle

Running == phase = "running" /\ task = Idle

\* Operators named *_slip are the neighbours of a definition with one plausible
\* mistake in them, which the property checks must be able to tell apart.

\* The order row committed apart from the position rows.
Persist_slip(after, book, onFilled, onRejected) ==
    /\ stored' = after /\ wallet' = after /\ task' = onFilled
    /\ orders' = book \/ UNCHANGED orders
    /\ UNCHANGED used

\* place_order's transaction (_persist_after_trade): wallet, every position
\* row and the order row.  A commit whose answer is lost leaves them written
\* while place_order restores its snapshot and reports the order REJECTED.
Persist(after, book, onFilled, onRejected) ==
    /\ stored' = after
    /\ orders' = book
    /\ \/ wallet' = after /\ task' = onFilled /\ UNCHANGED used
       \/ UNCHANGED wallet /\ task' = onRejected /\ Fault("unsure")

\* ExitManager._save: an exception is only logged, the file keeps its old text.
Save(now) ==
    /\ managed' = now
    /\ \/ file' = now /\ UNCHANGED used
       \/ UNCHANGED file /\ Fault("swallow")

-----------------------------------------------------------------------------
(* Entry: swing and scalp loops of _run_cycle.                             *)

\* The position that already holds the instrument forgotten.
EntryAllowed_slip(t) ==
    /\ daily.entries < DailyEntryCap
    /\ Cardinality({u \in Trades : Held(u)}) < MaxPositions

\* The exact-order gate of PreTradeEngine and the cycle's own checks.
EntryAllowed(t) ==
    /\ daily.entries < DailyEntryCap
    /\ Cardinality({u \in Trades : Held(u)}) < MaxPositions
    /\ \A u \in Trades : Held(u) => SymbolOf[u] # SymbolOf[t]

Intended(record, q) == [record EXCEPT !.status = "INTENT", !.original = q]

\* create_intent, under a fresh trade id and idempotency key.
CreateIntent(t) ==
    /\ Running
    /\ ledger[t].status = "none" /\ t \notin Legacy
    /\ EntryAllowed(t)
    /\ \E q \in EntryQty :
          /\ ledger' = [ledger EXCEPT ![t] = Intended(@, q)]
          /\ Go("submit", t, q)
    /\ UNCHANGED <<phase, wallet, stored, orders, managed, file, daily, journal, perf,
                   lessons, ambiguous, fills, used>>

\* A rejected order taken for a filled one.
SubmitEntry_slip ==
    /\ task.at = "submit"
    /\ Go("markOpen", task.trade, task.qty)
    /\ UNCHANGED <<phase, wallet, stored, orders, ledger, managed, file, daily, journal, perf,
                   lessons, ambiguous, fills, used>>

\* submit_async -> place_order BUY: filled, or refused for lack of cash or
\* because the commit failed.
SubmitEntry ==
    /\ task.at = "submit"
    /\ LET t == task.trade
           q == task.qty
       IN  \/ /\ Persist([wallet EXCEPT ![t] = @ + q], [orders EXCEPT ![t].entered = q],
                         At("markOpen", t, q), At("markRejected", t, q))
              /\ fills' = fills + 1
           \/ /\ Go("markRejected", t, q)
              /\ UNCHANGED <<wallet, stored, orders, fills, used>>
    /\ UNCHANGED <<phase, ledger, managed, file, daily, journal, perf, lessons, ambiguous>>

Opened(record, q) ==
    IF record.status = "OPEN" THEN record
    ELSE [record EXCEPT !.status = "OPEN", !.original = q, !.remaining = q]

MarkOpen ==
    /\ task.at = "markOpen"
    /\ ledger' = [ledger EXCEPT ![task.trade] = Opened(@, task.qty)]
    /\ Go("recordEntry", task.trade, task.qty)
    /\ UNCHANGED <<phase, wallet, stored, orders, managed, file, daily, journal, perf,
                   lessons, ambiguous, fills, used>>

RecordEntry ==
    /\ task.at = "recordEntry"
    /\ daily' = [daily EXCEPT !.entries = @ + 1]
    /\ Go("register", task.trade, task.qty)
    /\ UNCHANGED <<phase, wallet, stored, orders, ledger, managed, file, journal, perf,
                   lessons, ambiguous, fills, used>>

RegisterPosition ==
    /\ task.at = "register"
    /\ Save([managed EXCEPT ![task.trade] = [qty |-> task.qty, taken |-> FALSE]])
    /\ Go("recordTrade", task.trade, task.qty)
    /\ UNCHANGED <<phase, wallet, stored, orders, ledger, daily, journal, perf, lessons,
                   ambiguous, fills>>

RecordTrade ==
    /\ task.at = "recordTrade"
    /\ \/ journal' = [journal EXCEPT ![task.trade] = "open"] /\ UNCHANGED used
       \/ UNCHANGED journal /\ Fault("swallow")
    /\ Done
    /\ UNCHANGED <<phase, wallet, stored, orders, ledger, managed, file, daily, perf,
                   lessons, ambiguous, fills>>

MarkRejected ==
    /\ task.at = "markRejected"
    /\ ledger' = [ledger EXCEPT ![task.trade].status = "REJECTED"]
    /\ Done
    /\ UNCHANGED <<phase, wallet, stored, orders, managed, file, daily, journal, perf,
                   lessons, ambiguous, fills, used>>

-----------------------------------------------------------------------------
(* Exit: _execute_managed_exit, for an exit rule or a kill-switch flatten. *)

\* check_exits ends by saving what it tracks, which repairs a lost _save.
CheckExits ==
    /\ Running
    /\ \E t \in Trades : Tracked(t)
    /\ file' = managed
    /\ UNCHANGED <<phase, task, wallet, stored, orders, ledger, managed, daily, journal, perf,
                   lessons, ambiguous, fills, used>>

\* A rule exits everything, the partial rule half (once); the flatten sells
\* what the manager, not the wallet, says is held.
ExitSizes(m) == {m.qty} \cup (IF m.taken THEN {} ELSE {IF m.qty < 2 THEN 1 ELSE m.qty \div 2})

\* The check against what the wallet holds forgotten.
ExitFill_slip(t) ==
    /\ Running
    /\ ManagedCarriesSource
    /\ Tracked(t)
    /\ \E q \in ExitSizes(managed[t]) :
          Persist([wallet EXCEPT ![t] = @ - q], [orders EXCEPT ![t].sold = @ + q],
                  At("recordExit", t, q), Idle)
    /\ UNCHANGED <<phase, ledger, managed, file, daily, journal, perf, lessons, ambiguous,
                   fills>>

\* place_order SELL, long-only: more than the wallet holds is refused, and a
\* refused or duplicate order changes nothing.
ExitFill(t) ==
    /\ Running
    /\ ManagedCarriesSource
    /\ Tracked(t)
    /\ \E q \in ExitSizes(managed[t]) :
          /\ q <= wallet[t]
          /\ Persist([wallet EXCEPT ![t] = @ - q], [orders EXCEPT ![t].sold = @ + q],
                     At("recordExit", t, q), Idle)
    /\ UNCHANGED <<phase, ledger, managed, file, daily, journal, perf, lessons, ambiguous,
                   fills>>

\* The partial exit closes the trade; the last share does not.
Exited_slip(record, q) ==
    [record EXCEPT !.remaining = Minus(@, q), !.status = "CLOSED"]
Exited_slip2(record, q) ==
    [record EXCEPT !.remaining = Minus(@, q),
                   !.status = IF record.remaining < q THEN "CLOSED" ELSE "PARTIAL"]

Exited(record, q) ==
    IF record.status = "CLOSED" THEN record
    ELSE LET left == Minus(record.remaining, q)
         IN  [record EXCEPT !.remaining = left,
                            !.status = IF left = 0 THEN "CLOSED" ELSE "PARTIAL"]

RecordExit ==
    /\ task.at = "recordExit"
    /\ ledger' = [ledger EXCEPT ![task.trade] = Exited(@, task.qty)]
    /\ Go("recordPnl", task.trade, task.qty)
    /\ UNCHANGED <<phase, wallet, stored, orders, managed, file, daily, journal, perf,
                   lessons, ambiguous, fills, used>>

RecordExitPnl ==
    /\ task.at = "recordPnl"
    /\ daily' = [daily EXCEPT !.exits = @ + 1]
    /\ Go("applyExit", task.trade, task.qty)
    /\ UNCHANGED <<phase, wallet, stored, orders, ledger, managed, file, journal, perf,
                   lessons, ambiguous, fills, used>>

\* The partial exit remembered, its quantity not.
Reduced_slip(m, q) == [m EXCEPT !.taken = TRUE]

Reduced(m, q) ==
    IF m.qty <= q THEN Untracked ELSE [qty |-> m.qty - q, taken |-> TRUE]

\* apply_exit_fill; only a fully closed trade goes on to finalize.
ApplyExitFill ==
    /\ task.at = "applyExit"
    /\ Save([managed EXCEPT ![task.trade] = Reduced(@, task.qty)])
    /\ IF ledger[task.trade].status = "CLOSED"
       THEN Go("recordOutcome", task.trade, task.qty)
       ELSE Done
    /\ UNCHANGED <<phase, wallet, stored, orders, ledger, daily, journal, perf, lessons,
                   ambiguous, fills>>

-----------------------------------------------------------------------------
(* Capped averaging add.                                                   *)

\* The key of the k-th add is <trade>:add:<k>: one already in the order
\* table makes the submission a DUPLICATE, which changes nothing.
AddFill(t) ==
    /\ Running
    /\ ManagedCarriesSource
    /\ AveragingEnabled
    /\ Tracked(t) /\ ledger[t].status # "none"
    /\ ledger[t].addCount < MaxAdds
    /\ daily.entries < DailyEntryCap
    /\ LET q == ledger[t].original \div AddDivisor
           key == ledger[t].addCount + 1
       IN  /\ q > 0
           /\ key \notin orders[t].addKeys
           /\ Persist([wallet EXCEPT ![t] = @ + q],
                      [orders EXCEPT ![t].added = @ + q, ![t].addKeys = @ \cup {key}],
                      At("recordAdd", t, q), Idle)
    /\ fills' = fills + 1
    /\ UNCHANGED <<phase, ledger, managed, file, daily, journal, perf, lessons, ambiguous>>

\* The check that the lifecycle is open forgotten.
RecordAdd_slip ==
    /\ task.at = "recordAdd"
    /\ ledger' = [ledger EXCEPT ![task.trade].remaining = @ + task.qty]
    /\ Go("applyAdd", task.trade, task.qty)
    /\ UNCHANGED <<phase, wallet, stored, orders, managed, file, daily, journal, perf,
                   lessons, ambiguous, fills, used>>

Grown(record, q, adds) ==
    [record EXCEPT !.original = @ + q, !.remaining = @ + q, !.addCount = adds]

\* record_add raises ValueError when the lifecycle is not open.
RecordAdd ==
    /\ task.at = "recordAdd"
    /\ LET t == task.trade
           q == task.qty
       IN  IF ledger[t].status \in OpenStatus
           THEN /\ ledger' = [ledger EXCEPT ![t] = Grown(@, q, ledger[t].addCount + 1)]
                /\ Go("applyAdd", t, q)
           ELSE Done /\ UNCHANGED ledger
    /\ UNCHANGED <<phase, wallet, stored, orders, managed, file, daily, journal, perf,
                   lessons, ambiguous, fills, used>>

\* The exit manager not told of the added shares.
ApplyAddFill_slip ==
    /\ task.at = "applyAdd"
    /\ Go("recordAddEntry", task.trade, task.qty)
    /\ UNCHANGED <<phase, wallet, stored, orders, ledger, managed, file, daily, journal, perf,
                   lessons, ambiguous, fills, used>>

ApplyAddFill ==
    /\ task.at = "applyAdd"
    /\ IF Tracked(task.trade)
       THEN Save([managed EXCEPT ![task.trade].qty = @ + task.qty])
       ELSE UNCHANGED <<managed, file, used>>
    /\ Go("recordAddEntry", task.trade, task.qty)
    /\ UNCHANGED <<phase, wallet, stored, orders, ledger, daily, journal, perf, lessons,
                   ambiguous, fills>>

\* An add not counted as an entry.
RecordAddEntry_slip ==
    /\ task.at = "recordAddEntry"
    /\ Done
    /\ UNCHANGED <<phase, wallet, stored, orders, ledger, managed, file, daily, journal, perf,
                   lessons, ambiguous, fills, used>>

RecordAddEntry ==
    /\ task.at = "recordAddEntry"
    /\ daily' = [daily EXCEPT !.entries = @ + 1]
    /\ Done
    /\ UNCHANGED <<phase, wallet, stored, orders, ledger, managed, file, journal, perf,
                   lessons, ambiguous, fills, used>>

-----------------------------------------------------------------------------
(* TradeFinalizer.finalize: four fan-out writes, in this order, of a       *)
(* trade that is CLOSED and not finalized.                                 *)

\* record_trade without its look-up of the trade_id.
RecordOutcome_slip ==
    /\ task.at = "recordOutcome"
    /\ perf' = [perf EXCEPT ![task.trade] = @ + 1]
    /\ Go("closeTrade", task.trade, task.qty)
    /\ UNCHANGED <<phase, wallet, stored, orders, ledger, managed, file, daily, journal,
                   lessons, ambiguous, fills, used>>

\* PerformanceTracker.record_trade skips a trade_id it already holds.
RecordOutcome ==
    /\ task.at = "recordOutcome"
    /\ LET t == task.trade
       IN  IF ledger[t].status = "CLOSED" /\ ~ledger[t].finalized
           THEN /\ Go("closeTrade", t, task.qty)
                /\ \/ /\ perf' = [perf EXCEPT ![t] = IF @ > 0 THEN @ ELSE @ + 1]
                      /\ UNCHANGED used
                   \/ UNCHANGED perf /\ Fault("swallow")
           ELSE Done /\ UNCHANGED <<perf, used>>
    /\ UNCHANGED <<phase, wallet, stored, orders, ledger, managed, file, daily, journal,
                   lessons, ambiguous, fills>>

\* close_trade returns False for a trade the journal never recorded.
CloseTrade ==
    /\ task.at = "closeTrade"
    /\ \/ /\ journal' = [journal EXCEPT ![task.trade] = IF @ = "none" THEN @ ELSE "closed"]
          /\ UNCHANGED used
       \/ UNCHANGED journal /\ Fault("swallow")
    /\ Go("credit", task.trade, task.qty)
    /\ UNCHANGED <<phase, wallet, stored, orders, ledger, managed, file, daily, perf,
                   lessons, ambiguous, fills>>

CreditLessons ==
    /\ task.at = "credit"
    /\ lessons' = IF LearningEnabled THEN [lessons EXCEPT ![task.trade] = @ + 1] ELSE lessons
    /\ Go("markFinalized", task.trade, task.qty)
    /\ UNCHANGED <<phase, wallet, stored, orders, ledger, managed, file, daily, journal,
                   perf, ambiguous, fills, used>>

MarkFinalized ==
    /\ task.at = "markFinalized"
    /\ ledger' = [ledger EXCEPT ![task.trade].finalized = TRUE]
    /\ Done
    /\ UNCHANGED <<phase, wallet, stored, orders, managed, file, daily, journal, perf,
                   lessons, ambiguous, fills, used>>

-----------------------------------------------------------------------------
(* Start-up: LocalPaperEngine and ExitManager load, then                   *)
(* PaperTradeLifecycleStore.reconcile, then replay_unfinalized.            *)

Boot ==
    /\ phase = "down"
    /\ phase' = "wallet"
    /\ managed' = file
    /\ \/ wallet' = stored /\ UNCHANGED used
       \/ wallet' = [t \in Trades |-> 0] /\ Fault("load")
    /\ UNCHANGED <<task, durable, ambiguous, fills>>

\* A wallet position nobody in the ledger knows: create_intent, after which
\* it is opened like any other intent.
NeedsImport(t) == Held(t) /\ ledger[t].status = "none"

ImportLegacy(t) ==
    /\ phase = "wallet" /\ NeedsImport(t)
    /\ ledger' = [ledger EXCEPT ![t] = Intended(@, wallet[t])]
    /\ UNCHANGED <<phase, task, wallet, stored, orders, managed, file, daily, journal, perf,
                   lessons, ambiguous, fills, used>>

NeedsOpening(t) == Held(t) /\ ledger[t].status = "INTENT"

RepairOpen(t) ==
    /\ phase = "wallet" /\ NeedsOpening(t)
    /\ ledger' = [ledger EXCEPT ![t] = Opened(@, wallet[t])]
    /\ UNCHANGED <<phase, task, wallet, stored, orders, managed, file, daily, journal, perf,
                   lessons, ambiguous, fills, used>>

\* A partly exited position forgotten.
NeedsManager_slip(t) == Held(t) /\ ledger[t].status = "OPEN" /\ ~Tracked(t)
NeedsManager(t) == Held(t) /\ ledger[t].status \in OpenStatus /\ ~Tracked(t)

RestoreManager(t) ==
    /\ phase = "wallet" /\ NeedsManager(t)
    /\ Save([managed EXCEPT ![t] = [qty |-> wallet[t], taken |-> FALSE]])
    /\ UNCHANGED <<phase, task, wallet, stored, orders, ledger, daily, journal, perf,
                   lessons, ambiguous, fills>>

\* A held position whose record is CLOSED or REJECTED is left alone and alerted.
WalletPassDone ==
    /\ phase = "wallet"
    /\ \A t \in Trades : ~(NeedsImport(t) \/ NeedsOpening(t) \/ NeedsManager(t))
    /\ phase' = "intents"
    /\ ambiguous' = {t \in Trades : Held(t) /\ ledger[t].status \notin OpenStatus}
    /\ UNCHANGED <<task, wallet, managed, durable, fills, used>>

\* An intent whose orders were filled left to the wallet pass.
Orphan_slip(t) == ledger[t].status = "INTENT" /\ ~Held(t) /\ orders[t].entered = 0
Orphan(t) == ledger[t].status = "INTENT" /\ ~Held(t)

\* _repair_from_orders: the fills replayed, or REJECTED when there is none.
RepairFromOrders(t) ==
    /\ phase = "intents" /\ Orphan(t)
    /\ ledger' = [ledger EXCEPT ![t] =
          IF orders[t].entered = 0 THEN [@ EXCEPT !.status = "REJECTED"]
          ELSE LET opened == Opened(@, orders[t].entered)
                   grown == Grown(opened, orders[t].added, Cardinality(orders[t].addKeys))
               IN  IF orders[t].sold = 0 THEN grown ELSE Exited(grown, orders[t].sold)]
    /\ UNCHANGED <<phase, task, wallet, stored, orders, managed, file, daily, journal, perf,
                   lessons, ambiguous, fills, used>>

IntentsPassDone ==
    /\ phase = "intents"
    /\ \A t \in Trades : ~Orphan(t)
    /\ phase' = "ghosts"
    /\ UNCHANGED <<task, wallet, managed, durable, ambiguous, fills, used>>

Ghost(t) == Tracked(t) /\ ledger[t].status \notin OpenStatus

RemoveGhost(t) ==
    /\ phase = "ghosts" /\ Ghost(t)
    /\ Save([managed EXCEPT ![t] = Untracked])
    /\ UNCHANGED <<phase, task, wallet, stored, orders, ledger, daily, journal, perf,
                   lessons, ambiguous, fills>>

GhostsPassDone ==
    /\ phase = "ghosts"
    /\ \A t \in Trades : ~Ghost(t)
    /\ phase' = "replay"
    /\ UNCHANGED <<task, wallet, managed, durable, ambiguous, fills, used>>

\* A trade that has its outcome row taken for finalized.
Unfinalized_slip(t) == ledger[t].status = "CLOSED" /\ ~ledger[t].finalized /\ perf[t] = 0
Unfinalized(t) == ledger[t].status = "CLOSED" /\ ~ledger[t].finalized

Replay(t) ==
    /\ phase = "replay" /\ task = Idle
    /\ Unfinalized(t)
    /\ Go("recordOutcome", t, 0)
    /\ UNCHANGED <<phase, wallet, managed, durable, ambiguous, fills, used>>

ReplayDone ==
    /\ phase = "replay" /\ task = Idle
    /\ \A t \in Trades : ~Unfinalized(t)
    /\ phase' = "running"
    /\ UNCHANGED <<task, wallet, managed, durable, ambiguous, fills, used>>

-----------------------------------------------------------------------------
(* Faults.                                                                 *)

\* The process dies: memory is gone, what was written stays written.
Crash ==
    /\ phase # "down"
    /\ Fault("crash")
    /\ phase' = "down"
    /\ task' = Idle
    /\ wallet' = [t \in Trades |-> 0]
    /\ managed' = [t \in Trades |-> Untracked]
    /\ UNCHANGED <<durable, ambiguous, fills>>

\* A store call of a running handler raises: both loops catch the exception,
\* log it and go on with the next tick; the remaining writes never happen.
RaisingStages == {"submit", "markOpen", "recordEntry", "markRejected", "recordExit",
                  "recordPnl", "recordAdd", "recordAddEntry", "recordOutcome",
                  "markFinalized"}

Raise ==
    /\ phase = "running"
    /\ task.at \in RaisingStages
    /\ Fault("raise")
    /\ Done
    /\ UNCHANGED <<phase, wallet, managed, durable, ambiguous, fills>>

-----------------------------------------------------------------------------

EntryStep == SubmitEntry \/ MarkOpen \/ RecordEntry \/ RegisterPosition \/ RecordTrade \/ MarkRejected
ExitStep == RecordExit \/ RecordExitPnl \/ ApplyExitFill
AddStep == RecordAdd \/ ApplyAddFill \/ RecordAddEntry
FinalizeStep == RecordOutcome \/ CloseTrade \/ CreditLessons \/ MarkFinalized
TaskStep == EntryStep \/ ExitStep \/ AddStep \/ FinalizeStep

StartupStep ==
    \/ Boot \/ WalletPassDone \/ IntentsPassDone \/ GhostsPassDone \/ ReplayDone
    \/ \E t \in Trades : \/ ImportLegacy(t) \/ RepairOpen(t) \/ RestoreManager(t)
                         \/ RepairFromOrders(t) \/ RemoveGhost(t) \/ Replay(t)

Next ==
    \/ TaskStep
    \/ StartupStep
    \/ CheckExits
    \/ \E t \in Trades : CreateIntent(t) \/ ExitFill(t) \/ AddFill(t)
    \/ Crash
    \/ Raise

Spec == Init /\ [][Next]_vars

\* A handler that has begun runs on, a process that is down is restarted, and
\* the time rule (max_hold_minutes) in the end fires for every managed
\* position that has a quote.  Entries, adds and faults owe nothing.
Fairness ==
    /\ WF_vars(TaskStep)
    /\ WF_vars(StartupStep)
    /\ \A t \in Trades : WF_vars(ExitFill(t))

FairSpec == Spec /\ Fairness
-----------------------------------------------------------------------------
(* What the stores promise each other, said of the faults a behaviour has  *)
(* met so far: a promise that no fault breaks is unconditional.            *)

Never(kinds) == \A kind \in kinds : used[kind] = 0

NoAdds == \A t \in Trades : orders[t].added = 0

\* The order table is never behind the ledger (get_orders_for_trade): every
\* share the ledger says was bought or sold has a committed order row.
LedgerNeverAhead ==
    \A t \in Trades : ledger[t].status \in OpenStatus \cup {"CLOSED"} =>
        /\ ledger[t].original <= Base(t) + orders[t].entered + orders[t].added
        /\ ledger[t].original <= ledger[t].remaining + orders[t].sold

\* place_order's one transaction: the position rows are what the order rows
\* add up to, whatever dies or raises around it.
StoredMatchesOrders ==
    Never({"unsure", "load"}) =>
        \A t \in Trades : stored[t] + orders[t].sold = Base(t) + orders[t].entered + orders[t].added

\* A trade the ledger calls CLOSED holds nothing: the fill is always ahead of
\* record_exit, never behind it, through any crash or store failure.
ClosedHoldsNothing ==
    NoAdds /\ Never({"unsure", "load"}) =>
        \A t \in Trades : ledger[t].status = "CLOSED" => wallet[t] = 0 /\ stored[t] = 0

\* Whenever the loops are between handlers, a position the wallet holds has
\* an exit manager that covers all of it, or start-up alerted about it.
Supervised ==
    NoAdds /\ Never({"raise"}) /\ Running =>
        \A t \in Trades : Held(t) => t \in ambiguous \/ managed[t].qty >= wallet[t]

\* While the process lives and no store raises, wallet, exit manager and ledger
\* agree share for share between handlers.
MemoryAgrees ==
    Never({"crash", "raise", "load"}) /\ Running => \A t \in Trades :
        t \notin ambiguous =>
            /\ managed[t].qty = wallet[t]
            /\ wallet[t] = IF ledger[t].status \in OpenStatus THEN ledger[t].remaining ELSE 0

\* A finalized trade is CLOSED with exactly one outcome row, credited; only a
\* crash or a raise between the credit and mark_finalized credits it again.
FinalizedOnce ==
    \A t \in Trades :
        /\ perf[t] <= 1
        /\ lessons[t] <= 1 + used["crash"] + used["raise"]
        /\ ledger[t].finalized =>
              /\ ledger[t].status = "CLOSED"
              /\ Never({"swallow"}) => perf[t] = 1
              /\ LearningEnabled => lessons[t] > 0

\* The books of a trade tell one story: the committed rows that of the orders, the
\* ledger's closed trades that of the holdings, the memory of the process that of the
\* ledger and the outcome that of the close, each under the faults it is promised for.
BooksAgree == StoredMatchesOrders /\ ClosedHoldsNothing /\ MemoryAgrees /\ FinalizedOnce

\* No intent outlives its handler or the next start-up.
NoStrandedIntent ==
    Never({"raise"}) /\ Running => \A t \in Trades : ledger[t].status # "INTENT"

\* Between the handlers nothing is left unattended: neither a holding without its
\* exits nor an intent without its fill.
NothingIsForgotten == Supervised /\ NoStrandedIntent

\* One position per instrument, and never more than max_concurrent_positions.
OnePositionPerSymbol ==
    NoAdds =>
        /\ \A t, u \in Trades : Held(t) /\ Held(u) /\ SymbolOf[t] = SymbolOf[u] => t = u
        /\ Cardinality({t \in Trades : Held(t)}) <= MaxPositions

\* The day's entry cap is overrun by at most one fill per fault.
EntryCapSlack == fills <= DailyEntryCap + Spent

\* Whatever two tasks check at the same time, the exposure keeps to its caps.
ExposureIsCapped == OnePositionPerSymbol /\ EntryCapSlack

\* The ledger implements TradeJourney: the stages in order, none revisited.
StageOf(record) ==
    CASE record.status = "none" -> "none"
      [] record.status = "INTENT" -> "intent"
      [] record.status = "REJECTED" -> "rejected"
      [] record.status \in OpenStatus -> "open"
      [] record.status = "CLOSED" -> IF record.finalized THEN "finalized" ELSE "closed"

Ledger == INSTANCE TradeJourney WITH
              stage <- [t \in Trades |-> StageOf(ledger[t])],
              shares <- [t \in Trades |-> ledger[t].remaining]

FollowsJourney == Ledger!Journey

\* A CLOSED trade is finalized by its handler or by the next start-up, which a
\* process whose store raised and that lives on may never see.
ClosedFinalized ==
    \A t \in Trades : ledger[t].status = "CLOSED" ~> ledger[t].finalized \/ used["raise"] > 0

\* Every managed position is in the end exited ...
ManagedExits == \A t \in Trades : Tracked(t) ~> ~Tracked(t) \/ Spent > 0

\* ... and while no fault strikes, the outcome of a trade whose shares are all
\* sold is in the end recorded everywhere.
SoldOut(t) == orders[t].entered > 0 /\ orders[t].sold = orders[t].entered + orders[t].added
SoldOutFinalized == \A t \in Trades : SoldOut(t) ~> ledger[t].finalized \/ Spent > 0

\* Every trade is seen to its end.
SeenToTheEnd == ManagedExits /\ ClosedFinalized /\ SoldOutFinalized
=============================================================================
