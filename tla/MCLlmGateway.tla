---------------------------- MODULE MCLlmGateway ----------------------------
(***************************************************************************)
(* Small instances of LlmGateway: two agents and the news analyst, and     *)
(* thresholds of two, the smallest at which a count can be overwritten.    *)
(***************************************************************************)
EXTENDS LlmGateway

CONSTANTS a1, a2, a3

GFairSpec == GSpec /\ GFair
=============================================================================
