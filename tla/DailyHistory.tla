----------------------------- MODULE DailyHistory -----------------------------
(***************************************************************************)
(* The daily bars of one symbol in HistoryManager: bootstrapped from the   *)
(* store, from a pickled file or from the broker, extended by quotes, and  *)
(* merged with the store when a reader asks for more of them.              *)
(*                                                                         *)
(* A downloaded bar is labelled with midnight, one begun by a quote with   *)
(* the quote's time: a day can have both.  A bar is the number of trades   *)
(* of its day it has seen, or Missing.                                     *)
(***************************************************************************)
EXTENDS Naturals, FiniteSets, FiniteSetsExt

CONSTANTS
    LastDay,       \* the last day (a bound for TLC)
    MinBars,       \* MIN_BARS_FOR_INDICATORS
    Wanted,        \* the bars a reader asks for
    MaxDayTrades,  \* trades of a day (a bound for TLC)
    MaxStops,      \* failed requests and restarts (a bound for TLC)
    Missing

ASSUME DailyAssumption ==
    /\ {LastDay, MinBars, Wanted, MaxDayTrades, MaxStops} \subseteq Nat
    /\ LastDay # 0

VARIABLES
    day, dayTape,              \* the exchange: today, the trades of each day
    booting,                   \* prefetch_all has not run yet
    daily, live, copied,       \* _history: midnight bars, quote bars; a reader's merge
    dailyStore, pickled,       \* market_candles and the file: both survive
    stops                      \* auxiliary: how many so far

dVars == <<day, dayTape, booting, daily, live, copied, dailyStore, pickled, stops>>

Days == 1..LastDay
NoBars == [d \in Days |-> Missing]
Has(f) == {d \in Days : f[d] # Missing}
NoFrame == [mid |-> NoBars, quoted |-> NoBars, ready |-> FALSE]
NoStored == [d \in Days |-> [bar |-> Missing, complete |-> FALSE]]

DInit ==
    /\ day = 1 /\ dayTape = [d \in Days |-> 0]
    /\ booting = TRUE /\ daily = NoBars /\ live = NoBars /\ copied = NoFrame
    /\ dailyStore = NoStored /\ pickled = NoBars
    /\ stops = 0

Stop == stops < MaxStops /\ stops' = stops + 1

Held == Cardinality(Has(daily)) + Cardinality(Has(live))

(* get_historical("1d"): the days that traded, today's as it stands.       *)
Downloaded == [d \in Days |-> IF d <= day /\ dayTape[d] > 0 THEN dayTape[d] ELSE Missing]

(* A daily row is complete a day after its midnight.                       *)
DailyUpserted(f) ==
    [d \in Days |-> IF f[d] = Missing THEN dailyStore[d] ELSE [bar |-> f[d], complete |-> d < day]]

(* complete_only *)
StoredDaily_slip == [d \in Days |-> dailyStore[d].bar]
StoredDaily == [d \in Days |-> IF dailyStore[d].complete THEN dailyStore[d].bar ELSE Missing]

DTrade ==
    /\ dayTape[day] < MaxDayTrades
    /\ dayTape' = [dayTape EXCEPT ![day] = @ + 1]
    /\ UNCHANGED <<booting, day, daily, live, copied, dailyStore, pickled, stops>>

NextDay ==
    /\ day < LastDay /\ day' = day + 1
    /\ UNCHANGED <<booting, dayTape, daily, live, copied, dailyStore, pickled, stops>>

(* fetch_history: the store, else the file whatever its age, else a request.*)
FromStore ==
    /\ booting /\ booting' = FALSE
    /\ Cardinality(Has(StoredDaily)) >= MinBars
    /\ daily' = StoredDaily
    /\ UNCHANGED <<day, dayTape, live, copied, dailyStore, pickled, stops>>

FromFile ==
    /\ booting /\ booting' = FALSE
    /\ Cardinality(Has(StoredDaily)) < MinBars
    /\ Cardinality(Has(pickled)) >= MinBars
    /\ daily' = pickled /\ dailyStore' = DailyUpserted(pickled)
    /\ UNCHANGED <<day, dayTape, live, copied, pickled, stops>>

FromBroker ==
    /\ booting /\ booting' = FALSE
    /\ Cardinality(Has(StoredDaily)) < MinBars
    /\ Cardinality(Has(pickled)) < MinBars /\ Has(Downloaded) # {}
    /\ daily' = Downloaded /\ pickled' = Downloaded
    /\ \/ dailyStore' = DailyUpserted(Downloaded) /\ UNCHANGED stops
       \/ UNCHANGED dailyStore /\ Stop   \* a write that fails is only logged
    /\ UNCHANGED <<day, dayTape, live, copied>>

(* Nothing stored and no answer: the process goes on without.              *)
PrefetchFails ==
    /\ booting /\ booting' = FALSE
    /\ Cardinality(Has(StoredDaily)) < MinBars /\ Cardinality(Has(pickled)) < MinBars
    /\ IF Has(Downloaded) = {} THEN UNCHANGED stops ELSE Stop
    /\ UNCHANGED <<day, dayTape, daily, live, copied, dailyStore, pickled>>

(* append_quote: a quote updates the last bar when that bar is of today,   *)
(* and begins a bar otherwise, if it is from an earlier day too.           *)
AppendDaily ==
    /\ ~booting /\ Held > 0 /\ \E d \in Days : dayTape[d] > 0
    /\ IF daily[day] # Missing /\ live[day] = Missing
       THEN daily' = [daily EXCEPT ![day] = dayTape[day]] /\ UNCHANGED live
       ELSE live' = [live EXCEPT ![day] = dayTape[day]] /\ UNCHANGED daily
    /\ UNCHANGED <<booting, day, dayTape, copied, dailyStore, pickled, stops>>

(* get_history copies the bars, reads the store without the lock, and      *)
(* writes the merge back under it.                                         *)
CopyDaily ==
    /\ ~booting /\ ~copied.ready /\ Held < Wanted
    /\ LET mid == [d \in Days |-> IF daily[d] # Missing THEN daily[d] ELSE StoredDaily[d]]
       IN /\ Has(mid) # {} \/ Has(live) # {}
          /\ copied' = [mid |-> mid, quoted |-> live, ready |-> TRUE]
    /\ UNCHANGED <<booting, day, dayTape, daily, live, dailyStore, pickled, stops>>

MergeDaily ==
    /\ copied.ready
    /\ daily' = copied.mid /\ live' = copied.quoted /\ copied' = NoFrame
    /\ UNCHANGED <<booting, day, dayTape, dailyStore, pickled, stops>>

IngestDaily ==
    /\ Has(Downloaded) # {} /\ dailyStore' = DailyUpserted(Downloaded)
    /\ UNCHANGED <<booting, day, dayTape, daily, live, copied, pickled, stops>>

DRestart ==
    /\ Stop /\ booting' = TRUE
    /\ daily' = NoBars /\ live' = NoBars /\ copied' = NoFrame
    /\ UNCHANGED <<day, dayTape, dailyStore, pickled>>

DNext ==
    \/ DTrade \/ NextDay \/ FromStore \/ FromFile \/ FromBroker \/ PrefetchFails
    \/ AppendDaily \/ CopyDaily \/ MergeDaily \/ IngestDaily \/ DRestart

DSpec == DInit /\ [][DNext]_dVars

-----------------------------------------------------------------------------
(* Today is one bar, whichever way the bars came in: no indicator counts   *)
(* the day twice (append_quote, get_history with complete_only).           *)
TodayIsOneBar == ~(daily[day] # Missing /\ live[day] # Missing)
=============================================================================
