----------------------------- MODULE MCTrading -----------------------------
(***************************************************************************)
(* Small instances of PaperTradeLifecycle, for its safety, and of the two  *)
(* modules of what makes a trade, TechnicalStrategies and BarIndicators.   *)
(* They share no state: a behaviour is one of the life cycle of trades,    *)
(* one snapshot judged, a series of bars, or one volume profile.           *)
(***************************************************************************)
EXTENDS MCPaperTradeLifecycle, TechnicalStrategies, BarIndicators

VARIABLE subject

allVars == <<subject, vars, tVars, bVars, pVars>>

Bar(o, h, l, c, loud) == [open |-> o, high |-> h, low |-> l, close |-> c, loud |-> loud]
MCBars == {Bar(10, 11, 9, 10, FALSE), Bar(10, 13, 10, 11, TRUE), Bar(14, 17, 14, 16, FALSE),
           Bar(5, 6, 3, 4, FALSE)}

MinusOne == -1
MinusTwo == -2

FirstSnapshot == CHOOSE x \in Inputs("ema_psar") : TRUE
FirstProfile == [i \in 1..Buckets |-> 1]

NoSnapshot == strategy = "ema_psar" /\ ind = FirstSnapshot /\ signal = Silent
FirstArea == profile = FirstProfile /\ area = [lo |-> 1, hi |-> 1, sum |-> 1, before |-> 0]

Start ==
    /\ Init /\ BInit
    /\ \/ subject = "strategies" /\ TInit /\ FirstArea
       \/ subject \in {"trades", "bars"} /\ NoSnapshot /\ FirstArea
       \/ subject = "profile" /\ NoSnapshot /\ PInit

Step ==
    \/ subject = "trades" /\ Next /\ UNCHANGED <<subject, tVars, bVars, pVars>>
    \/ subject = "strategies" /\ TNext /\ UNCHANGED <<subject, vars, bVars, pVars>>
    \/ subject = "bars" /\ BNext /\ UNCHANGED <<subject, vars, tVars, pVars>>
    \/ subject = "profile" /\ PNext /\ UNCHANGED <<subject, vars, tVars, bVars>>

TradingSpec == Start /\ [][Step]_allVars
=============================================================================
