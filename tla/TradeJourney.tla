---------------------------- MODULE TradeJourney ----------------------------
(***************************************************************************)
(* What the trade ledger promises a reader of one trade, whatever crashes  *)
(* and retries produced it: an intent is opened or rejected, once; an open *)
(* trade grows by adds and shrinks by exits until nothing is left; then it *)
(* is closed, and later finalized.  No stage is ever revisited.            *)
(***************************************************************************)
EXTENDS Naturals

CONSTANT Trades

VARIABLES stage, shares

JourneyTypeOK ==
    /\ stage \in [Trades -> {"none", "intent", "open", "rejected", "closed", "finalized"}]
    /\ shares \in [Trades -> Nat]

JourneyInit ==
    /\ stage = [t \in Trades |-> "none"]
    /\ shares = [t \in Trades |-> 0]

Move(t, from, to) == stage[t] = from /\ stage' = [stage EXCEPT ![t] = to]

Propose(t) == Move(t, "none", "intent") /\ UNCHANGED shares
Reject(t) == Move(t, "intent", "rejected") /\ UNCHANGED shares

\* Only t's shares change, to a number the caller constrains.
Resize(t) == shares' = [shares EXCEPT ![t] = shares'[t]]

Open(t) == Move(t, "intent", "open") /\ Resize(t) /\ shares'[t] > 0

Grow(t) == stage[t] = "open" /\ UNCHANGED stage /\ Resize(t) /\ shares'[t] > shares[t]

Sell(t) ==
    /\ Move(t, "open", IF shares'[t] = 0 THEN "closed" ELSE "open")
    /\ Resize(t)
    /\ shares'[t] < shares[t]

Finalize(t) == Move(t, "closed", "finalized") /\ UNCHANGED shares

JourneyNext ==
    \E t \in Trades :
        Propose(t) \/ Reject(t) \/ Open(t) \/ Grow(t) \/ Sell(t) \/ Finalize(t)

Journey == JourneyInit /\ [][JourneyNext]_<<stage, shares>>
=============================================================================
