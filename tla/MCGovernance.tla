---------------------------- MODULE MCGovernance ----------------------------
(***************************************************************************)
(* Small instances of StrategyGovernance and ModelGovernance, which share  *)
(* no state: a behaviour is one of either.                                 *)
(***************************************************************************)
EXTENDS StrategyGovernance, ModelGovernance

CONSTANTS nightly, script

VARIABLE subject

vars == <<subject, sVars, mVars>>

Init ==
    /\ subject \in {"strategies", "models"}
    /\ SInit /\ MInit
    /\ subject = "models" => market = "NSE" /\ environment = "PAPER" /\ ~production

Next ==
    \/ subject = "strategies" /\ SNext /\ UNCHANGED <<subject, mVars>>
    \/ subject = "models" /\ MNext /\ UNCHANGED <<subject, sVars>>

Spec == Init /\ [][Next]_vars /\ SFair /\ MFair
=============================================================================
