---------------------------- MODULE SettledScan ----------------------------
(***************************************************************************)
(* The settled-candle runtime of the NSE worker: MarketStateStore between  *)
(* the trading cycle, which scans what has changed, and the background     *)
(* history ingestion, which runs in a thread of its own.                   *)
(*                                                                         *)
(*   readiness, processed   the TimeframeState of every series             *)
(*   settled                the newest settled candle the history manager  *)
(*                          holds, 0 while it holds none                   *)
(*   stage, keys, todo,     the cycle: the series it deals with, those     *)
(*   frame                  left in this stage and the frames it loaded    *)
(*   syncing                the series the ingestion is downloading        *)
(*                                                                         *)
(* A series is a symbol in one timeframe; its candles are numbered.        *)
(***************************************************************************)
EXTENDS Naturals, FiniteSetsExt

CONSTANTS
    Series,      \* symbol and timeframe pairs
    NoSeries,    \* no series
    ScanFaults,  \* the kinds of fault a run admits
    MaxCandles,  \* candles in a run (a bound for TLC)
    MaxSyncs,    \* downloads in a run (a bound for TLC)
    MaxMishaps   \* faults in a run (a bound for TLC)

\* "history"  a frame cannot be loaded, or is too short
\* "feature"  an indicator calculation raises
\* "cycle"    anything else raises before the first feature is computed
\* "late"     anything else raises after that and before the strategies end
Mishaps == {"history", "feature", "cycle", "late"}

ASSUME ScanAssumption ==
    /\ NoSeries \notin Series
    /\ ScanFaults \subseteq Mishaps
    /\ {MaxCandles, MaxSyncs, MaxMishaps} \subseteq Nat

VARIABLES readiness, processed, settled, stage, keys, todo, frame, syncing,
          evaluated,    \* auxiliary: candles the strategies have been run on
          syncs, mishaps   \* auxiliary: downloads, and faults by kind, so far

cycle == <<stage, keys, todo, frame>>
bounds == <<syncs, mishaps>>
zVars == <<readiness, processed, settled, cycle, syncing, evaluated, bounds>>

ScanTypes ==
    /\ readiness \in [Series -> {"READY", "BACKFILLING", "INSUFFICIENT_DATA", "FAILED"}]
    /\ processed \in [Series -> Nat]
    /\ settled \in [Series -> Nat]
    /\ \A s \in Series : processed[s] <= settled[s] /\ frame[s] <= settled[s]
    /\ stage \in {"idle", "load", "observe", "compute", "evaluate"}
    /\ todo \subseteq keys
    /\ keys \subseteq Series
    /\ stage = "idle" => keys = {}
    /\ frame \in [Series -> Nat]
    /\ syncing \in Series \cup {NoSeries}
    /\ evaluated \in [Series -> SUBSET Nat]
    /\ syncs \in Nat
    /\ mishaps \in [Mishaps -> Nat]

ZInit ==
    /\ readiness = [s \in Series |-> "INSUFFICIENT_DATA"]
    /\ processed = [s \in Series |-> 0]
    /\ settled = [s \in Series |-> 0]
    /\ stage = "idle"
    /\ keys = {}
    /\ todo = {}
    /\ frame = [s \in Series |-> 0]
    /\ syncing = NoSeries
    /\ evaluated = [s \in Series |-> {}]
    /\ syncs = 0
    /\ mishaps = [kind \in Mishaps |-> 0]

Suffered == MapThenSumSet(LAMBDA kind : mishaps[kind], Mishaps)

Mishap(kind) ==
    /\ kind \in ScanFaults /\ Suffered < MaxMishaps
    /\ mishaps' = [mishaps EXCEPT ![kind] = @ + 1]
NoMishap == UNCHANGED mishaps

\* The cycle is over, or a new one has not begun.
Rest ==
    /\ stage' = "idle"
    /\ keys' = {}
    /\ todo' = {}
    /\ frame' = [s \in Series |-> 0]
-----------------------------------------------------------------------------
(* Detection.                                                              *)

\* plan_timestamps: the series whose newest settled candle is not the one
\* processed last.
Changed ==
    {s \in Series : /\ readiness[s] # "BACKFILLING"
                    /\ settled[s] # 0
                    /\ processed[s] # settled[s]}

Detect ==
    /\ stage = "idle"
    /\ readiness' = [s \in Series |->
           IF settled[s] = 0 /\ readiness[s] \notin {"BACKFILLING", "FAILED"}
           THEN "INSUFFICIENT_DATA" ELSE readiness[s]]
    /\ stage' = IF Changed = {} THEN "idle" ELSE "load"
    /\ keys' = Changed
    /\ todo' = Changed
    /\ UNCHANGED <<processed, settled, frame, syncing, evaluated, bounds>>

\* Every stage but the last goes through its series one by one.
Working(here, s) ==
    /\ stage = here
    /\ s \in todo
    /\ todo' = todo \ {s}
    /\ UNCHANGED <<stage, settled, syncing, evaluated, syncs>>

\* A bug: the forming candle is loaded with the settled ones.
Load_slip(s) ==
    /\ Working("load", s)
    /\ \/ frame' = [frame EXCEPT ![s] = settled[s] + 1] /\ NoMishap
       \/ UNCHANGED frame /\ Mishap("history")
    /\ UNCHANGED <<readiness, processed, keys>>

\* The frames are loaded in worker threads, all of them before the first is
\* looked at; a candle may settle meanwhile.
Load(s) ==
    /\ Working("load", s)
    /\ \/ frame' = [frame EXCEPT ![s] = settled[s]] /\ NoMishap
       \/ UNCHANGED frame /\ Mishap("history")
    /\ UNCHANGED <<readiness, processed, keys>>

\* observe_settled_frame, from plan_events: the ingestion thread may change the
\* readiness of a series before and after its turn.
ObserveFrame(s) ==
    /\ Working("observe", s)
    /\ readiness' = [readiness EXCEPT ![s] =
           CASE readiness[s] = "BACKFILLING" -> "BACKFILLING"
             [] frame[s] = 0 -> "INSUFFICIENT_DATA"
             [] OTHER -> "READY"]
    /\ keys' = IF readiness'[s] = "READY" /\ processed[s] # frame[s]
               THEN keys ELSE keys \ {s}
    /\ NoMishap
    /\ UNCHANGED <<processed, frame>>

\* A bug: the candle is not recorded as processed.
MarkProcessed_slip(s) ==
    /\ UNCHANGED processed
    /\ readiness' = [readiness EXCEPT ![s] = "READY"]

MarkProcessed(s) ==
    /\ processed' = [processed EXCEPT ![s] = frame[s]]
    /\ readiness' = [readiness EXCEPT ![s] = "READY"]

\* A series is marked as soon as its features are computed.
Compute(s) ==
    /\ Working("compute", s)
    /\ \/ MarkProcessed(s) /\ UNCHANGED keys /\ NoMishap
       \/ keys' = keys \ {s} /\ Mishap("feature") /\ UNCHANGED <<readiness, processed>>
    /\ UNCHANGED frame

\* The next stage begins; a cycle left with no event returns.
Advance ==
    /\ stage \in {"load", "observe", "compute"}
    /\ todo = {}
    /\ IF stage = "observe" /\ keys = {} THEN Rest
       ELSE /\ stage' = CASE stage = "load" -> "observe"
                          [] stage = "observe" -> "compute"
                          [] stage = "compute" -> "evaluate"
            /\ todo' = keys
            /\ UNCHANGED <<keys, frame>>
    /\ UNCHANGED <<readiness, processed, settled, syncing, evaluated, bounds>>

\* The strategies run on every series with new features in one pass.
Evaluate ==
    /\ stage = "evaluate"
    /\ evaluated' = [s \in Series |->
           IF s \in keys THEN evaluated[s] \cup {frame[s]} ELSE evaluated[s]]
    /\ Rest
    /\ UNCHANGED <<readiness, processed, settled, syncing, bounds>>

\* An exception reaches the loop, which logs it and starts another cycle.
CycleFails ==
    /\ \/ stage \in {"load", "observe"} /\ Mishap("cycle")
       \/ stage \in {"compute", "evaluate"} /\ Mishap("late")
    /\ Rest
    /\ UNCHANGED <<readiness, processed, settled, syncing, evaluated, syncs>>
-----------------------------------------------------------------------------
(* Candles and their history.                                              *)

Settle(s) ==
    /\ settled[s] < MaxCandles
    /\ settled' = [settled EXCEPT ![s] = @ + 1]
    /\ UNCHANGED <<readiness, processed, cycle, syncing, evaluated, bounds>>

BeginSync(s) ==
    /\ syncing = NoSeries
    /\ syncs < MaxSyncs
    /\ syncs' = syncs + 1
    /\ syncing' = s
    /\ readiness' = [readiness EXCEPT ![s] = "BACKFILLING"]
    /\ UNCHANGED <<processed, settled, cycle, evaluated, mishaps>>

\* A bug: an exception leaves the series as it was.
EndSync_slip ==
    /\ syncing # NoSeries
    /\ readiness' \in {readiness, [readiness EXCEPT ![syncing] = "READY"]}
    /\ syncing' = NoSeries
    /\ UNCHANGED <<processed, settled, cycle, evaluated, bounds>>

\* The download ends: enough rows, too few of them, or an exception.
EndSync ==
    /\ syncing # NoSeries
    /\ \E outcome \in {"READY", "INSUFFICIENT_DATA", "FAILED"} :
          readiness' = [readiness EXCEPT ![syncing] = outcome]
    /\ syncing' = NoSeries
    /\ UNCHANGED <<processed, settled, cycle, evaluated, bounds>>

CycleStep ==
    \/ Detect \/ Advance \/ Evaluate
    \/ \E s \in Series : Load(s) \/ ObserveFrame(s) \/ Compute(s)

ZNext ==
    \/ CycleStep \/ CycleFails \/ EndSync
    \/ \E s \in Series : Settle(s) \/ BeginSync(s)

ZSpec == ZInit /\ [][ZNext]_zVars

\* The loop wakes up again and again, and a download ends.
ZFair == WF_zVars(CycleStep) /\ WF_zVars(EndSync)
-----------------------------------------------------------------------------
(* Properties.                                                             *)

\* The engines run once per settled candle: what a cycle is about to compute
\* or evaluate is newer than everything the strategies have seen.
OncePerCandle ==
    stage \in {"compute", "evaluate"} =>
        \A s \in keys : \A n \in evaluated[s] : n < frame[s]

\* A failed evaluation is retried: when no more candles come, the newest one of
\* every series has been evaluated, whatever the ingestion did meanwhile.  Only a
\* cycle that dies between its features and its strategies loses a candle.
NewestIsEvaluated ==
    <>[](\A s \in Series :
            settled[s] = 0 \/ settled[s] \in evaluated[s] \/ mishaps["late"] > 0)
=============================================================================
