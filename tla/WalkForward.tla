----------------------------- MODULE WalkForward -----------------------------
(***************************************************************************)
(* Out-of-sample validation of a strategy (backtesting/engine.py,          *)
(* walk_forward.py): the engine walks each symbol's bars once, the trades  *)
(* are attributed to folds by the bar they were entered on, and the        *)
(* symbols' reports are combined into one verdict.  Bars are numbered from *)
(* 0 and the price of a bar is chosen when the engine reaches it, which is *)
(* when the strategy may first use it.                                     *)
(***************************************************************************)
EXTENDS Integers, Sequences, FiniteSets, FiniteSetsExt, SequencesExt

CONSTANTS Names,         \* the symbols, 1..n, validated in turn
          Length,        \* bars of a symbol
          Lookback,      \* the engine's first bar
          StrategyBars,  \* the strategy's own warm-up
          Warmup,        \* bars before the first fold
          TestBars,      \* bars of a fold
          MinRemnant,    \* the smallest trailing fold (5 in the code)
          Repeats,       \* bars that carry the time stamp of the bar before
          Prices, SlipPct, ChargePct, Capital, MinTrades

ASSUME WalkAssumption ==
    {Length, TestBars, MinRemnant} \subseteq Nat \ {0} /\ {Lookback, Warmup} \subseteq Nat
    /\ {SlipPct, ChargePct} \subseteq Nat /\ Prices \subseteq Nat /\ Capital \in Int

VARIABLES name,      \* the symbol being walked
          bar, close,
          entry,     \* the open position: [at, price, charge], or None
          capital, trades,
          reports, verdict

wVars == <<name, bar, close, entry, capital, trades, reports, verdict>>

Flat == [at |-> -1, price |-> 0, charge |-> 0]
Open == entry # Flat

WInit == /\ name = 1 /\ bar = Lookback /\ close = 0 /\ entry = Flat
         /\ capital = Capital /\ trades = <<>> /\ reports = <<>> /\ verdict = "none"

---------------------------------------------------------------------------
(* CostModel: adverse slippage, then charges on the filled price *)
FillPrice(price, side) == LET a == (price * SlipPct) \div 100
                          IN IF side = "BUY" THEN price + a ELSE price - a
Charges(notional) == (notional * ChargePct) \div 100

(* RealSignalStrategy: silent until it has its warm-up, then the best signal *)
Signals(i) == IF i < StrategyBars THEN {"none"} ELSE {"BUY", "SELL", "none"}

NetPnl_slip(gross, entryCharge, exitCharge) == gross - exitCharge
NetPnl(gross, entryCharge, exitCharge) == gross - (entryCharge + exitCharge)

(* An exit at `price` and the trade it books *)
Exit(price, at) ==
    LET fill == FillPrice(price, "SELL") charge == Charges(fill) gross == fill - entry.price
    IN /\ capital' = capital + gross - charge
       /\ trades' = Append(trades, [at |-> entry.at, out |-> at, fills |-> gross,
                                    charges |-> entry.charge + charge,
                                    pnl |-> NetPnl(gross, entry.charge, charge)])
       /\ entry' = Flat

Enter(price, at) ==
    LET fill == FillPrice(price, "BUY")
    IN /\ entry' = [at |-> at, price |-> fill, charge |-> Charges(fill)]
       /\ capital' = capital - Charges(fill)
       /\ UNCHANGED trades

(* One bar of BacktestEngine.run: the signal is acted on at the bar's own close *)
Bar == /\ bar < Length
       /\ \E price \in Prices, signal \in Signals(bar) :
            /\ close' = price
            /\ IF signal = "BUY" /\ ~Open THEN Enter(price, bar)
               ELSE IF signal = "SELL" /\ Open THEN Exit(price, bar)
               ELSE UNCHANGED <<capital, trades, entry>>
       /\ bar' = bar + 1
       /\ UNCHANGED <<name, reports, verdict>>

(* A position still open after the last bar is sold at its close *)
CloseOut == bar = Length /\ Open /\ Exit(close, Length - 1)
            /\ UNCHANGED <<name, bar, close, reports, verdict>>

---------------------------------------------------------------------------
(* Contiguous windows after the warm-up; a tiny trailing remnant is skipped *)
FoldStarts_slip == {Warmup + k * (TestBars - 1) : k \in 0..Length}
FoldStarts == {Warmup + k * TestBars : k \in 0..Length}
Folds == {<<s, Min({s + TestBars, Length})>> : s \in {s \in FoldStarts :
            Min({s + TestBars, Length}) - s >= Max({MinRemnant, TestBars \div 2})}}

(* The date of a bar, and the first bar that has the date of a trade's entry *)
Date(i) == IF i \in Repeats THEN i - 1 ELSE i
EntryPosition(t) == Min({i \in 0..Length - 1 : Date(i) = Date(t.at)})

(* A trade is booked to the first fold that holds its entry *)
Holds(f, i) == f[1] <= EntryPosition(trades[i]) /\ EntryPosition(trades[i]) < f[2]
Booked(f) == {i \in DOMAIN trades : Holds(f, i) /\ \A g \in Folds : Holds(g, i) => f[1] <= g[1]}
Oos == UNION {Booked(f) : f \in Folds}

Total(amounts) == FoldLeft(LAMBDA sum, x : sum + x, 0, amounts)
Pnl(counted) == Total([i \in DOMAIN trades |-> IF i \in counted THEN trades[i].pnl ELSE 0])

(* The report of a symbol; consistency as the pair (positive folds, trading  *)
(* folds), and <<0, 1>> when fewer than two folds traded.                    *)
Trading == {f \in Folds : Booked(f) # {}}
Consistency == IF Cardinality(Trading) < 2 THEN <<0, 1>>
               ELSE <<Cardinality({f \in Trading : Pnl(Booked(f)) > 0}), Cardinality(Trading)>>
Report == [oos |-> Cardinality(Oos), pnl |-> Pnl(Oos), consistency |-> Consistency,
           \* what the counted trades really earned, for VerdictIsNet
           earned |-> Total([i \in DOMAIN trades |->
                               IF i \in Oos THEN trades[i].fills - trades[i].charges ELSE 0])]

RunWalkForward ==
    /\ bar = Length /\ ~Open /\ name \in Names
    /\ reports' = Append(reports, Report)
    /\ name' = name + 1 /\ bar' = Lookback /\ close' = 0
    /\ capital' = Capital /\ trades' = <<>>
    /\ UNCHANGED <<entry, verdict>>

(* The mean of the traded symbols' consistencies exceeds one half *)
Traded == {i \in DOMAIN reports : reports[i].oos > 0}
MeanConsistent ==
    LET num == [i \in Traded |-> reports[i].consistency[1]]
        den == [i \in Traded |-> reports[i].consistency[2]]
        all == FoldSet(LAMBDA i, p : p * den[i], 1, Traded)
    IN 2 * MapThenSumSet(LAMBDA i : num[i] * (all \div den[i]), Traded) > Cardinality(Traded) * all

(* aggregate_reports and its verdict; the t-test is a choice where one is possible *)
Aggregate ==
    /\ name \notin Names /\ verdict = "none"
    /\ LET total == Total([i \in DOMAIN reports |-> reports[i].oos])
           pnl == Total([i \in DOMAIN reports |-> reports[i].pnl])
       IN \E significant \in {b \in BOOLEAN : b => total >= 2} :
            verdict' = IF total >= MinTrades /\ pnl > 0 /\ MeanConsistent /\ significant
                       THEN "VALIDATED" ELSE "NOT VALIDATED"
    /\ UNCHANGED <<name, bar, close, entry, capital, trades, reports>>

WNext == (name \in Names /\ (Bar \/ CloseOut \/ RunWalkForward)) \/ Aggregate

---------------------------------------------------------------------------
(* A trade entered inside a fold counts in exactly one, and a trade entered *)
(* during the warm-up or in the trailing remnant in none: positions carried *)
(* over a boundary never count twice (run_walk_forward).                    *)
OosCountedOnce ==
    LET end == Max({f[2] : f \in Folds} \cup {Warmup})
    IN \A i \in DOMAIN trades :
         LET p == EntryPosition(trades[i])
         IN Cardinality({f \in Folds : f[1] <= p /\ p < f[2]}) = IF Warmup <= p /\ p < end THEN 1 ELSE 0

(* Only a strategy whose counted trades together earned more than they cost *)
(* is validated; gross gains that the charges eat never are                 *)
(* (_book_net_pnl, aggregate_reports).                                      *)
VerdictIsNet == verdict = "VALIDATED" =>
                    Total([i \in DOMAIN reports |-> reports[i].earned]) > 0

(* A validated strategy has earned its verdict outside its warm-up.          *)
VerdictIsEarned == OosCountedOnce /\ VerdictIsNet
=============================================================================
