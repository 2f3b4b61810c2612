----------------------------- MODULE PaperDesk -----------------------------
(***************************************************************************)
(* The arithmetic of the paper desk: sizing an entry, the cash and average *)
(* price of LocalPaperEngine, the exit rules of ExitManager with their     *)
(* ratchets, the capped averaging add, the drawdown of the session and the *)
(* kill switch that flattens, and the trade history replayed from order    *)
(* rows.  PaperTradeLifecycle has the crashes inside a handler and leaves  *)
(* prices out; here a handler is whole and the prices are in, and as there *)
(* the exits and adds are those of a desk whose managed positions carry    *)
(* the quote source they read.                                             *)
(*                                                                         *)
(* One instrument, so at most one position (PreTradeEngine).  Amounts are  *)
(* integers; percentages are integers out of a hundred.                    *)
(***************************************************************************)
EXTENDS Integers, Sequences, SequencesExt

CONSTANTS
    Prices, EntryPrices,   \* what the feed may quote, and where a setup enters
    StopGap, TargetGap,    \* reviewed stop and target, as distances from the entry
    InitialBalance,        \* paper_wallet_balance
    SlippageDivisor,       \* 10 000 / paper_slippage_bps
    ChargeDivisor,         \* 10 000 / paper_brokerage_bps
    BrokerageMax,          \* paper_brokerage_max
    WinRates,              \* what the performance tracker may report, in per cent
    PositionPct, RiskPct, LossLimit, DrawdownPct,  \* risk settings
    AtrDistances,          \* trailing_atr_multiplier * atr, 0 without one
    MaxAdds, TriggerPct, AddDivisor,               \* CappedAveragingPolicy
    MaxTrades, MaxDays, MaxMishaps                  \* bounds for TLC

ASSUME PaperDeskAssumption ==
    /\ Prices \subseteq Nat \ {0} /\ EntryPrices \subseteq Prices
    /\ WinRates \subseteq 0..100
    /\ {SlippageDivisor, ChargeDivisor, AddDivisor, InitialBalance} \subseteq Nat \ {0}
    /\ BrokerageMax \in Nat \ {0}   \* zero, which means no maximum, is left out
    /\ {StopGap, TargetGap, PositionPct, RiskPct, TriggerPct, MaxAdds} \subseteq Nat
    /\ AtrDistances \subseteq Nat

VARIABLES
    price,    \* last quote of the instrument
    wallet,   \* LocalPaperEngine in memory
    stored,   \* the wallet and position rows
    rows,     \* the order rows, oldest first
    managed,  \* the ManagedPosition, or Untracked
    file,     \* the same, as last saved to exit_manager_state.json
    life,     \* the open PaperTradeLifecycleRecord
    daily,    \* DailyRiskRecord of today
    tracker,  \* DrawdownTracker, in memory
    pc,       \* "settle" between the exits of a management pass and its end
    averaged, \* auxiliary: an averaging add has been filled
    happened  \* auxiliary: entries, days and faults so far

kVars == <<price, wallet, stored, rows, managed, file, life, daily, tracker, pc, averaged, happened>>

NoPosition == [qty |-> 0, entry |-> 0, charges |-> 0, cur |-> 0]
Untracked == [qty |-> 0, entry |-> 0, loss |-> 0, target |-> 0, stop |-> 0, high |-> 0,
              moved |-> FALSE, taken |-> FALSE]
NoLife == [adds |-> 0, original |-> 0, entry |-> 0, stop |-> 0, target |-> 0]

Larger(a, b) == IF a > b THEN a ELSE b
Smaller(a, b) == IF a < b THEN a ELSE b
Distance(a, b) == IF a > b THEN a - b ELSE b - a

Holding == managed.qty > 0

-----------------------------------------------------------------------------
(* CostModel.                                                              *)

FillPrice(p, side) == IF side = "BUY" THEN p + p \div SlippageDivisor
                                      ELSE p - p \div SlippageDivisor

Charges(notional) == Smaller(notional \div ChargeDivisor, BrokerageMax)

-----------------------------------------------------------------------------
(* PositionSizer: the methods the trading cycle reaches.                   *)

\* fixed_fractional, with max_risk_per_trade.
FixedFractional(capital, entry, stop) ==
    IF entry = stop THEN 0
    ELSE Smaller((capital * RiskPct) \div (100 * Distance(entry, stop)),
                 (capital * PositionPct) \div (100 * entry))

\* Half of b*p - q over b, capped by the position limit (not by the risk).
Kelly(capital, entry, stop, target, rate) ==
    LET gain == Distance(target, entry)
        loss == Distance(entry, stop)
        edge == rate * gain - (100 - rate) * loss      \* 100 * gain * kelly_fraction
    IN  IF loss = 0 \/ gain = 0 \/ edge <= 0 THEN 0
        ELSE Smaller((capital * PositionPct) \div (100 * entry),
                     (capital * edge) \div (200 * gain * entry))

Optimal(capital, entry, stop, target, rate) ==
    LET kelly == Kelly(capital, entry, stop, target, rate)
    IN  IF rate > 30 /\ kelly > 0 THEN kelly ELSE FixedFractional(capital, entry, stop)

\* The stop, entry and target in order, else no shares (calculate_position_size
\* is not called).
Size(capital, entry, stop, target, rate) ==
    IF 0 < stop /\ stop < entry /\ entry < target
    THEN Optimal(capital, entry, stop, target, rate) ELSE 0

\* The reservations' look at the exact order, for the limits of one order.
OrderWithinRisk(equity, q, entry, stop) ==
    /\ q > 0
    /\ q * entry * 100 <= PositionPct * equity
    /\ q * (entry - stop) * 100 <= RiskPct * equity

-----------------------------------------------------------------------------
(* LocalPaperEngine.                                                       *)

\* get_total_value: committed capital and unrealised result, not market value.
Equity(w) ==
    w.cash + w.pos.entry * w.pos.qty + w.pos.charges + (w.pos.cur - w.pos.entry) * w.pos.qty

\* update_positions_pnl.
Marked(w, p) == IF w.pos.qty = 0 THEN w ELSE [w EXCEPT !.pos.cur = p]

\* _open_position: a new position, or one more fill of the same.
Merged(pos, q, fill, charges) ==
    [qty |-> pos.qty + q, charges |-> pos.charges + charges, cur |-> fill,
     entry |-> (pos.entry * pos.qty + fill * q) \div (pos.qty + q)]

Bought(w, q, p) ==
    LET fill == FillPrice(p, "BUY")
        charges == Charges(fill * q)
    IN  [w EXCEPT !.cash = @ - (fill * q + charges), !.pos = Merged(@, q, fill, charges)]

\* The share of the entry charges that an exit of q shares bears.
Prorata(pos, q) == (pos.charges * q) \div pos.qty

ExitResult(w, q, p) ==
    LET fill == FillPrice(p, "SELL")
    IN  (fill - w.pos.entry) * q - Prorata(w.pos, q) - Charges(fill * q)

\* A partial exit that leaves all the entry charges with the rest.
Reduced_slip(pos, q) == IF q >= pos.qty THEN NoPosition ELSE [pos EXCEPT !.qty = @ - q]

Reduced(pos, q) ==
    IF q >= pos.qty THEN NoPosition
    ELSE [pos EXCEPT !.qty = @ - q, !.charges = @ - Prorata(pos, q)]

\* place_order SELL: releases the principal, adds the gross, pays the charges.
Sold(w, q, p) ==
    LET fill == FillPrice(p, "SELL")
        net == ExitResult(w, q, p)
    IN  [w EXCEPT !.cash = @ + w.pos.entry * q + (fill - w.pos.entry) * q - Charges(fill * q),
                  !.realized = @ + net,
                  !.trades = @ + 1,
                  !.wins = IF net > 0 THEN @ + 1 ELSE @,
                  !.pos = Reduced(@, q)]

\* The rollback forgets the counters.
RolledBack_slip(w, after) == [after EXCEPT !.cash = w.cash, !.pos = w.pos]

\* place_order restores its snapshot.
RolledBack(w, after) == w

Mishap == happened.faults < MaxMishaps /\ happened' = [happened EXCEPT !.faults = @ + 1]

\* _persist_after_trade: wallet, position and order rows in one transaction.
FillCommitted(w, after, side, q, p) ==
    /\ wallet' = after /\ stored' = after
    /\ rows' = Append(rows, [side |-> side, qty |-> q, price |-> FillPrice(p, side)])

NotPersisted(w, after) ==
    /\ Mishap
    /\ wallet' = RolledBack(w, after)
    /\ UNCHANGED <<stored, rows>>

\* A lot without its entry charges.
LotOf_slip(row, q) == [side |-> row.side, qty |-> q, entry |-> row.price, charges |-> 0]

LotOf(row, q) ==
    [side |-> row.side, qty |-> q, entry |-> row.price, charges |-> Charges(row.price * q)]

\* An order against open lot i of the other side; what is left of the order opens a
\* lot of its own.
CloseLot(acc, row, i) ==
    LET lot == acc.lots[i]
        q == Smaller(row.qty, lot.qty)
        gross == IF lot.side = "BUY" THEN (row.price - lot.entry) * q
                                     ELSE (lot.entry - row.price) * q
        net == gross - Prorata(lot, q) - Charges(row.price * q)
        left == IF q >= lot.qty THEN RemoveAt(acc.lots, i)
                ELSE [acc.lots EXCEPT ![i].qty = @ - q, ![i].charges = @ - Prorata(lot, q)]
    IN  [lots |-> IF row.qty > q THEN Append(left, LotOf(row, row.qty - q)) ELSE left,
         net |-> acc.net + net]

\* One order of get_closed_trade_history: it closes against the first open lot of
\* the other side.
Replay(acc, row) ==
    LET i == SelectInSeq(acc.lots, LAMBDA lot : lot.side # row.side)
    IN  IF i = 0 THEN [acc EXCEPT !.lots = Append(@, LotOf(row, row.qty))]
        ELSE CloseLot(acc, row, i)

\* get_closed_trade_history: the net result of every close (it shows the last 250).
History == FoldLeft(Replay, [lots |-> <<>>, net |-> 0], rows).net

-----------------------------------------------------------------------------
(* ExitManager.                                                            *)

\* _save; a failure is only logged.
Save(m) ==
    /\ managed' = m
    /\ \/ file' = m /\ UNCHANGED happened
       \/ Mishap /\ UNCHANGED file

Registered(q, entry, stop, target) ==
    [qty |-> q, entry |-> entry, loss |-> stop, target |-> target, stop |-> stop,
     high |-> entry, moved |-> FALSE, taken |-> FALSE]

\* ManagedPosition.update_price.
Seen(m, p) == [m EXCEPT !.high = Larger(@, p)]

\* r >= 1 for breakeven_r_threshold and partial_profit_r.
OneR(m, p) ==
    LET risk == Distance(m.entry, m.loss) IN risk > 0 /\ p - m.entry >= risk

StopHit(m, p) == p <= m.stop
TargetHit(m, p) == p >= m.target

TrailingHit(m, p, atr) ==
    LET trail == m.high - atr
    IN  atr > 0 /\ trail > m.stop /\ trail > m.entry /\ p <= trail

\* The trail followed down again when the range widens.
Trailed_slip(m, atr) ==
    LET trail == m.high - atr
    IN  IF atr > 0 /\ trail > m.entry THEN [m EXCEPT !.stop = trail] ELSE m

\* _update_trailing.
Trailed(m, atr) ==
    LET trail == m.high - atr
    IN  IF atr > 0 /\ trail > m.stop /\ trail > m.entry THEN [m EXCEPT !.stop = trail] ELSE m

\* _check_breakeven, once.
BreakEven(m, p) ==
    IF ~m.moved /\ OneR(m, p) THEN [m EXCEPT !.stop = Larger(@, m.entry), !.moved = TRUE] ELSE m

\* The rule of highest priority: stop, target, trailing, the rules of clock and
\* regime (clock: one of them applies), and last the partial exit.
Rule(m, p, atr, clock) ==
    CASE StopHit(m, p) -> "stop_loss"
      [] ~StopHit(m, p) /\ TargetHit(m, p) -> "target_hit"
      [] ~StopHit(m, p) /\ ~TargetHit(m, p) /\ (TrailingHit(m, p, atr) \/ clock) -> "whole"
      [] OTHER -> IF ~m.taken /\ OneR(m, p) THEN "partial" ELSE "none"

ExitQuantity(m, rule) == IF rule = "partial" THEN Larger(1, m.qty \div 2) ELSE m.qty

\* apply_exit_fill.
AfterExit(m, q) ==
    IF q >= m.qty THEN Untracked ELSE [m EXCEPT !.qty = @ - q, !.taken = TRUE]

\* apply_add_fill.
AfterAdd(m, q, fill) ==
    [m EXCEPT !.qty = @ + q, !.entry = (m.entry * m.qty + fill * q) \div (m.qty + q)]

-----------------------------------------------------------------------------
(* DrawdownTracker and check_kill_switch.                                  *)

Tracked(t, equity) ==
    LET peak == Larger(t.peak, equity)
    IN  [peak |-> peak, worst |-> Larger(t.worst, peak - equity)]

Killed(d, t) ==
    \/ d.pnl <= -LossLimit
    \/ d.drawdown * 100 >= DrawdownPct * Larger(t.peak, 1)

-----------------------------------------------------------------------------
(* Actions.                                                                *)

KInit ==
    /\ price \in EntryPrices
    /\ wallet = [cash |-> InitialBalance, realized |-> 0, trades |-> 0, wins |-> 0,
                 pos |-> NoPosition]
    /\ stored = wallet
    /\ rows = <<>>
    /\ managed = Untracked /\ file = Untracked
    /\ life = NoLife
    /\ daily = [pnl |-> 0, drawdown |-> 0]
    /\ tracker = [peak |-> InitialBalance, worst |-> 0]
    /\ pc = "idle"
    /\ averaged = FALSE
    /\ happened = [entries |-> 0, days |-> 0, faults |-> 0]

Quote ==
    /\ pc = "idle"
    /\ Holding \/ wallet.pos.qty > 0 \/ happened.entries < MaxTrades
    /\ price' \in Prices \ {price}
    /\ UNCHANGED <<wallet, stored, rows, managed, file, life, daily, tracker, pc, averaged, happened>>

\* An approved setup is sized, checked, bought and handed to the exit manager.
Enter ==
    /\ pc = "idle" /\ happened.entries < MaxTrades
    /\ wallet.pos.qty = 0
    /\ price \in EntryPrices
    /\ ~Killed(daily, tracker)
    /\ \E rate \in WinRates :
         LET fill == FillPrice(price, "BUY")
             stop == price - StopGap
             target == price + TargetGap
             q == Size(Equity(wallet), fill, stop, target, rate)
             after == Bought(wallet, q, price)
             m == Registered(q, fill, stop, target)
         IN  /\ OrderWithinRisk(Equity(wallet), q, fill, stop)
             /\ after.cash >= 0
             /\ \/ /\ FillCommitted(wallet, after, "BUY", q, price)
                   /\ managed' = m /\ file' = m
                   /\ life' = [adds |-> 0, original |-> q, entry |-> fill, stop |-> stop,
                               target |-> target]
                   /\ happened' = [happened EXCEPT !.entries = @ + 1]
                \/ NotPersisted(wallet, after) /\ UNCHANGED <<managed, file, life>>
    /\ UNCHANGED <<price, daily, tracker, pc, averaged>>

\* The first half of _run_position_management_once: check_exits and the sale.
CheckExits ==
    /\ pc = "idle" /\ Holding
    /\ \E atr \in AtrDistances, clock \in BOOLEAN :
         LET seen == Seen(managed, price)
             rule == Rule(seen, price, atr, clock)
             kept == BreakEven(Trailed(seen, atr), price)
             q == ExitQuantity(seen, rule)
             after == Sold(wallet, q, price)
         IN  IF rule = "none" \/ q > wallet.pos.qty
             THEN Save(kept) /\ UNCHANGED <<wallet, stored, rows, life, daily>>
             ELSE \/ /\ FillCommitted(wallet, after, "SELL", q, price)
                     /\ managed' = AfterExit(kept, q) /\ file' = managed'
                     /\ life' = IF q = managed.qty THEN NoLife ELSE life
                     /\ daily' = [daily EXCEPT !.pnl = @ + ExitResult(wallet, q, price)]
                     /\ UNCHANGED happened
                  \/ /\ NotPersisted(wallet, after)
                     /\ managed' = kept /\ file' = kept
                     /\ UNCHANGED <<life, daily>>
    /\ pc' = "settle"
    /\ UNCHANGED <<price, tracker, averaged>>

\* Its second half: mark to market, drawdown, and the kill switch's flatten.
Settle ==
    /\ pc = "settle" /\ pc' = "idle"
    /\ LET marked == Marked(wallet, price)
           t == Tracked(tracker, Equity(marked))
           d == [daily EXCEPT !.drawdown = Larger(@, t.worst)]
           q == managed.qty
           after == Sold(marked, q, price)
       IN  /\ tracker' = t
           /\ IF Killed(d, t) /\ Holding /\ q <= marked.pos.qty
              THEN \/ /\ FillCommitted(marked, after, "SELL", q, price)
                      /\ managed' = Untracked /\ file' = Untracked
                      /\ life' = NoLife
                      /\ daily' = [d EXCEPT !.pnl = @ + ExitResult(marked, q, price)]
                      /\ UNCHANGED happened
                   \/ /\ NotPersisted(marked, after)
                      /\ daily' = d
                      /\ UNCHANGED <<managed, file, life>>
              ELSE /\ wallet' = marked
                   /\ \E saved \in BOOLEAN :   \* snapshot_current_prices, at most once a minute
                        stored' = IF saved THEN [stored EXCEPT !.pos.cur = marked.pos.cur]
                                  ELSE stored
                   /\ daily' = d
                   /\ UNCHANGED <<rows, managed, file, life, happened>>
    /\ UNCHANGED <<price, averaged>>

\* A new average over the shares first bought.
Averaged_slip(l, left, q, fill) ==
    [l EXCEPT !.adds = @ + 1, !.original = @ + q,
              !.entry = (l.entry * l.original + fill * q) \div (l.original + q)]

\* record_add: the average over remaining_quantity, which between handlers is
\* what the wallet holds.
Averaged(l, left, q, fill) ==
    [l EXCEPT !.adds = @ + 1, !.original = @ + q,
              !.entry = (l.entry * left + fill * q) \div (left + q)]

\* CappedAveragingPolicy.evaluate.
ShouldAdd(l, p) ==
    /\ l.adds < MaxAdds
    /\ l.stop < p /\ p < l.entry /\ l.entry < l.target
    /\ (l.entry - p) * 100 >= TriggerPct * l.entry
    /\ l.original \div AddDivisor > 0

\* The averaging block of the trading cycle.
Average ==
    /\ pc = "idle" /\ Holding
    /\ ShouldAdd(life, price)
    /\ LET q == life.original \div AddDivisor
           fill == FillPrice(price, "BUY")
           after == Bought(wallet, q, price)
       IN  /\ (managed.qty * managed.entry + q * fill) * 100 <= PositionPct * Equity(wallet)
           /\ after.cash >= 0
           /\ \/ /\ FillCommitted(wallet, after, "BUY", q, price)
                 /\ life' = Averaged(life, wallet.pos.qty, q, fill)
                 /\ managed' = AfterAdd(managed, q, fill) /\ file' = managed'
                 /\ averaged' = TRUE
                 /\ UNCHANGED happened
              \/ NotPersisted(wallet, after) /\ UNCHANGED <<life, managed, file, averaged>>
    /\ UNCHANGED <<price, daily, tracker, pc>>

NewDay ==
    /\ pc = "idle" /\ happened.days < MaxDays
    /\ daily' = [pnl |-> 0, drawdown |-> 0]
    /\ happened' = [happened EXCEPT !.days = @ + 1]
    /\ UNCHANGED <<price, wallet, stored, rows, managed, file, life, tracker, pc, averaged>>

\* What the ledger and the file give back: the file when it has the position,
\* else a registration with the first stop (reconcile), and no ghost.
Restored ==
    IF stored.pos.qty = 0 THEN Untracked
    ELSE IF file.qty > 0 THEN file
    ELSE Registered(stored.pos.qty, life.entry, life.stop, life.target)

\* The process dies between two handlers and starts again.
Restart ==
    /\ Mishap
    /\ wallet' = stored
    /\ managed' = Restored /\ file' = Restored
    /\ tracker' = [peak |-> Equity(stored), worst |-> 0]
    /\ pc' = "idle"
    /\ UNCHANGED <<price, stored, rows, life, daily, averaged>>

KNext == Quote \/ Enter \/ CheckExits \/ Settle \/ Average \/ NewDay \/ Restart

KSpec == KInit /\ [][KNext]_kVars

-----------------------------------------------------------------------------
(* Properties.                                                             *)

CashOf(w) == w.cash + w.pos.entry * w.pos.qty + w.pos.charges = InitialBalance + w.realized

\* No rupee is made or lost: cash and committed capital are the first balance
\* and what was realised, in memory and in the rows, after every entry, add,
\* partial and full exit, failed commit and restart.
CashConserved == CashOf(wallet) /\ CashOf(stored)

\* What a failed commit leaves behind: memory and rows say the same of a
\* wallet (but for the mark of an open position).
WalletIsDurable ==
    [wallet EXCEPT !.pos.cur = 0] = [stored EXCEPT !.pos.cur = 0]

\* The three records of the average entry price (wallet, lifecycle ledger, exit
\* manager) are computed apart and are the same, as are the shares held.
BasisAgrees ==
    Holding => /\ managed.entry = wallet.pos.entry /\ life.entry = wallet.pos.entry
               /\ managed.qty = wallet.pos.qty

\* The protection of a position only grows while it is held: the stop never
\* comes down, a stop at break-even stays at or above the average price, and a
\* partial profit is taken once; also over a restart, unless a save was lost.
Tightens(m, n) ==
    /\ n.stop >= m.stop
    /\ m.moved => n.moved /\ n.stop >= n.entry
    /\ m.taken => n.taken
ProtectionOnlyGrows ==
    [][Holding /\ file = managed /\ managed'.qty > 0 => Tightens(managed, managed')]_kVars

\* The history shown for closed trades, replayed from the order rows, adds up
\* to what the wallet realised, when no position was averaged.
HistoryAddsUp == wallet.pos.qty = 0 /\ ~averaged => History = wallet.realized

\* The desk's records of one position and its money are the same story: cash,
\* rows, the three average prices and the replayed history.
MoneyAddsUp == CashConserved /\ WalletIsDurable /\ BasisAgrees /\ HistoryAddsUp
=============================================================================
