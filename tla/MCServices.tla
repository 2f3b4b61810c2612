----------------------------- MODULE MCServices -----------------------------
(***************************************************************************)
(* Small instances of three services the worker's threads share:           *)
(* PredictionCache, UsageLedger and SettledScan.  They share no state: a   *)
(* behaviour is one of them.                                               *)
(*                                                                         *)
(* Three threads, three keys and a cache of two; two processes, the first  *)
(* with two threads, and a budget of two calls, one of them for swing      *)
(* trades; two series, so that one is downloaded or fails while the other  *)
(* is scanned.                                                             *)
(***************************************************************************)
EXTENDS PredictionCache, UsageLedger, SettledScan, TLC

CONSTANTS k1, k2, k3, nse, forex, t1, t2, t3, s1, s2

VARIABLE subject

vars == <<subject, cVars, uVars, zVars>>

HomeOf == (t1 :> nse) @@ (t2 :> nse) @@ (t3 :> forex)

SwingBudget == [h \in Horizons |-> IF h = "SWING" THEN 1 ELSE 0]

Init == subject \in {"cache", "ledger", "scan"} /\ CInit /\ UInit /\ ZInit

Next ==
    \/ subject = "cache" /\ CNext /\ UNCHANGED <<subject, uVars, zVars>>
    \/ subject = "ledger" /\ UNext /\ UNCHANGED <<subject, cVars, zVars>>
    \/ subject = "scan" /\ ZNext /\ UNCHANGED <<subject, cVars, uVars>>

\* No step of the cache or the scan is enabled where they are not the subject.
Spec == Init /\ [][Next]_vars /\ CFair /\ ZFair

\* Everybody who asks these services is served in the end: every call of the cache
\* returns, whoever raises, and the newest candle of every series is evaluated,
\* whatever the ingestion did meanwhile.
ServicesServe == EveryCallReturns /\ NewestIsEvaluated
=============================================================================
