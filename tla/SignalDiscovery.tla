--------------------------- MODULE SignalDiscovery ---------------------------
(***************************************************************************)
(* The background search for formulas that predict returns                 *)
(* (signal_discovery/workflow.py, scheduler.py, store.py).  A formula is   *)
(* an identity; what compiling it and scoring it on the panel gives is a   *)
(* result drawn when it is scored.  Strengths and p-values are small       *)
(* integers: p <= threshold/k is written p * k <= PLimit.  Everything      *)
(* between two awaits is one step.                                         *)
(***************************************************************************)
EXTENDS Integers, Sequences, FiniteSets, SequencesExt, FiniteSetsExt

CONSTANTS Formulas,
          NumSignals,     \* formulas of one answer
          MaxIterations,
          IcLimits,       \* the thresholds an operator may configure
          Strengths, PValues, PLimit,
          TimeframeCount, Refresh, LastHour, MaxMishaps, NoSignal

ASSUME DiscoveryAssumption ==
    {NumSignals, TimeframeCount} \subseteq Nat \ {0} /\ Strengths \subseteq Int /\ PValues \subseteq Nat

VARIABLES task,       \* "none", "running" or "done": the scheduler's asyncio task
          timeframe,  \* the timeframe being searched, 1..TimeframeCount
          at,         \* where the task waits: "panel", "answer", "feedback", "stamp"
          round, tests,
          tried,      \* scored formulas of this run, counted apart from `tests`
          saved,      \* the artifact of each timeframe and formula
          icLimit,    \* this process' setting
          hour, stamped, setbacks

sVars == <<task, timeframe, at, round, tests, tried, saved, icLimit, hour, stamped, setbacks>>
search == <<timeframe, at, round, tests, tried>>

(* The outcome of one proposed formula: the compiler or the evaluator       *)
(* refuses it with an error the loop handles, or with one it does not (a    *)
(* constant where Delay needs a matrix, a division of two constants), or    *)
(* it is scored.                                                            *)
Outcomes == [kind : {"refused", "raises"}]
            \cup [kind : {"scored"}, f : Formulas, ic : Strengths, p : PValues]
Answers == UNION {[1..n -> Outcomes] : n \in 0..NumSignals}

SStartsAt(h) ==
         /\ task = "none" /\ timeframe = 1 /\ at = "panel" /\ round = 1 /\ tests = 0 /\ tried = 0
         /\ saved = [t \in 1..TimeframeCount |-> [f \in Formulas |-> NoSignal]]
         /\ icLimit = Min(IcLimits) /\ hour = h /\ stamped = 0 /\ setbacks = 0

SInit == SStartsAt(Refresh)

---------------------------------------------------------------------------
(* The scheduler *)
IsDue == hour - stamped >= Refresh
IsRunning_slip == task # "none"
IsRunning == task = "running"

BeginTimeframe(t) == timeframe' = t /\ at' = "panel" /\ round' = 1 /\ tests' = 0 /\ tried' = 0

StartRun == ~IsRunning /\ task' = "running" /\ BeginTimeframe(1)
MaybeStart == IsDue /\ StartRun /\ UNCHANGED <<saved, icLimit, hour, stamped, setbacks>>

(* An operator's "run now" bypasses only the staleness *)
ForceRun == ~IsDue /\ setbacks < MaxMishaps /\ setbacks' = setbacks + 1 /\ StartRun
            /\ UNCHANGED <<saved, icLimit, hour, stamped>>

(* The next timeframe, or the end of the run *)
Onwards == IF timeframe < TimeframeCount THEN BeginTimeframe(timeframe + 1)
           ELSE at' = "stamp" /\ UNCHANGED <<timeframe, round, tests, tried>>

(* _build_panel: fewer usable symbols than the cross-section needs is an error *)
BuildPanel == /\ task = "running" /\ at = "panel"
              /\ \/ at' = "answer" /\ UNCHANGED <<timeframe, round, tests, tried>>
                 \/ Onwards
              /\ UNCHANGED <<task, saved, icLimit, hour, stamped, setbacks>>

(* _invoke: the hard budget or the provider refuses the call; the timeframe is given up *)
CallFails == /\ task = "running" /\ at \in {"answer", "feedback"} /\ Onwards
             /\ UNCHANGED <<task, saved, icLimit, hour, stamped, setbacks>>

---------------------------------------------------------------------------
(* The workflow *)
Scored(answer, i) == answer[i].kind = "scored"
Ordinal_slip(answer, i) == Cardinality({j \in 1..i : Scored(answer, j)})
Ordinal(answer, i) == tests + Cardinality({j \in 1..i : Scored(answer, j)})
CorrectedOk(p, k) == p * k <= PLimit
Accepted(answer) == {i \in DOMAIN answer : Scored(answer, i) /\ answer[i].ic >= icLimit
                                           /\ CorrectedOk(answer[i].p, Ordinal(answer, i))}
Winner(answer) == CHOOSE i \in Accepted(answer) : \A j \in Accepted(answer) :
                    answer[j].ic < answer[i].ic \/ (answer[j].ic = answer[i].ic /\ i <= j)

Save(answer) ==
    LET w == Winner(answer)
    IN saved' = [saved EXCEPT ![timeframe][answer[w].f] =
          [ic |-> answer[w].ic, p |-> answer[w].p,
           tried |-> tried + Cardinality({j \in 1..w : Scored(answer, j)})]]

(* One answer of the generator: all its formulas are scored, each against   *)
(* the threshold divided by the number of tests so far.                     *)
Evaluate(answer) ==
    LET n == Len(answer)
    IN IF \E i \in 1..n : answer[i].kind = "raises" THEN Onwards /\ UNCHANGED saved
       ELSE IF Accepted(answer) # {} THEN Save(answer) /\ Onwards
       ELSE IF round < MaxIterations
       THEN /\ at' = "feedback" /\ tests' = Ordinal(answer, n)
            /\ tried' = tried + Cardinality({j \in 1..n : Scored(answer, j)})
            /\ UNCHANGED <<timeframe, round, saved>>
       ELSE Onwards /\ UNCHANGED saved        \* best effort: nothing is saved

Generate == /\ task = "running" /\ at = "answer"
            /\ \E answer \in Answers : Evaluate(answer)
            /\ UNCHANGED <<task, icLimit, hour, stamped, setbacks>>

Feedback == /\ task = "running" /\ at = "feedback"
            /\ at' = "answer" /\ round' = round + 1
            /\ UNCHANGED <<task, timeframe, tests, tried, saved, icLimit, hour, stamped, setbacks>>

(* Whatever became of the timeframes, the run is stamped; the stamp itself may fail *)
Stamp == /\ task = "running" /\ at = "stamp" /\ task' = "done"
         /\ \/ stamped' = hour /\ UNCHANGED setbacks
            \/ setbacks < MaxMishaps /\ setbacks' = setbacks + 1 /\ UNCHANGED stamped
         /\ UNCHANGED <<search, saved, icLimit, hour>>

Hour == hour < LastHour /\ hour' = hour + 1
        /\ UNCHANGED <<task, search, saved, icLimit, stamped, setbacks>>

(* The worker stops, cancelling the task, or dies; it may come back with another setting *)
WorkerRestarts == /\ setbacks < MaxMishaps /\ setbacks' = setbacks + 1
                  /\ task' = "none" /\ BeginTimeframe(1) /\ icLimit' \in IcLimits
                  /\ UNCHANGED <<saved, hour, stamped>>

SNext == MaybeStart \/ ForceRun \/ BuildPanel \/ CallFails \/ Generate \/ Feedback \/ Stamp
         \/ Hour \/ WorkerRestarts

(* The trading cycle asks the scheduler each time; an answer or an error always comes *)
SFair == WF_sVars(MaybeStart) /\ WF_sVars(BuildPanel) /\ WF_sVars(Generate) /\ WF_sVars(Feedback)
         /\ WF_sVars(Stamp)

---------------------------------------------------------------------------
(* What the live scorer reads: load_accepted applies the present thresholds *)
LoadAccepted(t) == {f \in Formulas : saved[t][f] # NoSignal /\ saved[t][f].ic >= icLimit
                                     /\ saved[t][f].p <= PLimit}

(* A formula that tilts live probabilities is as strong as the present       *)
(* setting asks, and was significant after correction for every formula its  *)
(* run had scored before it, in whichever iteration.                         *)
LiveSignalsEarnedIt == \A t \in 1..TimeframeCount : \A f \in LoadAccepted(t) :
    saved[t][f].ic >= icLimit /\ saved[t][f].p * saved[t][f].tried <= PLimit

(* When a run is due the search is eventually completed, failures of single *)
(* calls, of the stamp and of the worker notwithstanding.                   *)
DiscoveryGoesOn == IsDue ~> ~IsDue

(* What tilts live probabilities has earned it, and the search goes on.      *)
DiscoveryIsSound == []LiveSignalsEarnedIt /\ DiscoveryGoesOn
=============================================================================
