----------------------------- MODULE MCResearch -----------------------------
(***************************************************************************)
(* Small instances of the candle history (CandleHistory, DailyHistory) and *)
(* of what is computed from it offline (WalkForward, SignalDiscovery,      *)
(* FormulaPanel), and of the answers the agent graph heeds (AgentAnswers). *)
(* They share no state: a behaviour is one of them.                        *)
(***************************************************************************)
EXTENDS CandleHistory, DailyHistory, WalkForward, SignalDiscovery, FormulaPanel, AgentAnswers

CONSTANTS trend, revert

VARIABLE subject

vars == <<subject, hVars, dVars, wVars, sVars, fVars, aVars>>

\* The nodes of a formula, each with the places of its operands.
C == [op |-> "Close"]
Rank(x) == [op |-> "Rank", x |-> x]
Sub(x, y) == [op |-> "Sub", x |-> x, y |-> y]
Delay(x, d) == [op |-> "Delay", x |-> x, d |-> d]
TSSum(x, d) == [op |-> "TS_Sum", x |-> x, d |-> d]
Close == <<C>>
MCTrees == {Close, <<C, Delay(1, -2)>>, <<C, Delay(1, 2), Rank(2)>>, <<C, C, Delay(2, 2), Sub(1, 3)>>,
            <<C, TSSum(1, 2), Rank(2)>>, <<C, TSSum(1, 2), C, Sub(2, 3)>>,
            <<C, Delay(1, -2), C, Sub(2, 3), Rank(4)>>, <<C, Rank(1), Delay(2, 2)>>}

Kind(of, r, ready, looked, easy, good) ==
    [strategy |-> of, registry |-> r, ready |-> ready, evaluated |-> looked,
     clear |-> easy, strong |-> good, foreign |-> FALSE]
MCKinds == {Kind(trend, "ALLOW", TRUE, TRUE, TRUE, FALSE),
            Kind(revert, "ALLOW", TRUE, FALSE, FALSE, TRUE),
            Kind(trend, "SHADOW", TRUE, TRUE, FALSE, TRUE),
            [Kind(trend, "ALLOW", TRUE, TRUE, TRUE, TRUE) EXCEPT !.foreign = TRUE]}

\* A day that is over, an artifact that is not due, no invocation: nothing must happen.
DayIsOver == HStartsAt(Session + 1, MaxFaults) /\ \A s \in Slots : tape[s] = 0
NothingIsDue == SStartsAt(0)
NoAnswers == AStartsAt("absent") /\ way = "batch" /\ agents

Init ==
    /\ DInit /\ WInit /\ FInit
    /\ \/ subject = "intraday" /\ HInit /\ NothingIsDue /\ formula = Close /\ NoAnswers
       \/ subject = "search" /\ DayIsOver /\ SInit /\ formula = Close /\ NoAnswers
       \/ subject \in {"daily", "walk"} /\ DayIsOver /\ NothingIsDue /\ formula = Close /\ NoAnswers
       \/ subject = "panel" /\ DayIsOver /\ NothingIsDue /\ NoAnswers
       \/ subject = "answers" /\ DayIsOver /\ NothingIsDue /\ formula = Close /\ AInit

Next ==
    \/ subject = "intraday" /\ HNext /\ UNCHANGED <<subject, dVars, wVars, sVars, fVars, aVars>>
    \/ subject = "daily" /\ DNext /\ UNCHANGED <<subject, hVars, wVars, sVars, fVars, aVars>>
    \/ subject = "walk" /\ WNext /\ UNCHANGED <<subject, hVars, dVars, sVars, fVars, aVars>>
    \/ subject = "search" /\ SNext /\ UNCHANGED <<subject, hVars, dVars, wVars, fVars, aVars>>
    \/ subject = "panel" /\ FNext /\ UNCHANGED <<subject, hVars, dVars, wVars, sVars, aVars>>
    \/ subject = "answers" /\ ANext /\ UNCHANGED <<subject, hVars, dVars, wVars, sVars, fVars>>

Spec == Init /\ [][Next]_vars /\ HFair /\ SFair

\* What a strategy or a formula is trusted for it has earned: the verdict on out-of-sample
\* trades counted once, the score on values that a live panel gives again.
ScoresAreEarned == VerdictIsEarned /\ RescoredIsSame
=============================================================================
