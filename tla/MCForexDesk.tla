---------------------------- MODULE MCForexDesk ----------------------------
(***************************************************************************)
(* Small instances of ForexDesk and of LlmGateway, which share no state: a *)
(* behaviour is one of either.                                             *)
(*                                                                         *)
(* Two pairs that share a currency, the first with two intraday timeframes *)
(* and a scalp timeframe; two agents and the news analyst, with thresholds *)
(* of two, the smallest at which a count can be overwritten.               *)
(***************************************************************************)
EXTENDS ForexDesk, LlmGateway, TLC

CONSTANTS eurusd, gbpusd, eur, gbp, usd, m5, m15, h1, trend, revert, a1, a2, a3

MCSeries == {<<eurusd, m15>>, <<eurusd, h1>>, <<eurusd, m5>>, <<gbpusd, m15>>}
MCBase == (eurusd :> eur) @@ (gbpusd :> gbp)
MCQuote == (eurusd :> usd) @@ (gbpusd :> usd)
MCFactor == (trend :> 2) @@ (revert :> 1)
MCPolicy == (trend :> "OPTIONAL") @@ (revert :> "REQUIRED")
MCOutputs == {(trend :> "BUY") @@ (revert :> "none"),
              (trend :> "SELL") @@ (revert :> "BUY")}
MCMaxOpen == ("SWING" :> 2) @@ ("SCALP" :> 1)

VARIABLE subject

allVars == <<subject, vars, gVars>>

\* Nothing must happen at a desk or a gateway that is absent.
Start ==
    \/ subject = "gateway" /\ GInit /\ InitAt("absent")
    \/ subject = "desk" /\ Init /\ GInitAt("absent")

Step ==
    \/ subject = "gateway" /\ GNext /\ UNCHANGED <<subject, vars>>
    \/ subject = "desk" /\ Next /\ UNCHANGED <<subject, gVars>>

DeskSpec == Start /\ [][Step]_allVars /\ Fairness /\ GFair
=============================================================================
