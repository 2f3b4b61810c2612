----------------------------- MODULE LlmGateway -----------------------------
(***************************************************************************)
(* The agents' way to their language model: one CircuitBreaker per         *)
(* provider, shared by every agent, and invoke_with_fallback, which tries  *)
(* the primary and then the fallback model.                                *)
(*                                                                         *)
(* The agents run in threads and the breaker has no lock, so recording an  *)
(* outcome is several steps: a count is read, then written back, then      *)
(* judged, and other threads record in between.  A read of the `state`     *)
(* property with its lazy transition to half-open is one step.             *)
(*                                                                         *)
(* Counts are only compared with their thresholds, so they saturate there. *)
(***************************************************************************)
EXTENDS Naturals, FiniteSetsExt

CONSTANTS
    Agents,           \* threads that call the provider
    Analysts,          \* those of them in the news analyst's own call path
    FailureThreshold,  \* failure_threshold
    SuccessThreshold,  \* success_threshold
    Exhaustible        \* models whose quota may be used up

PrimaryModel == 1
FallbackModel == 2

ASSUME GatewayAssumption ==
    /\ Analysts \subseteq Agents
    /\ {FailureThreshold, SuccessThreshold} \subseteq Nat \ {0}
    /\ Exhaustible \subseteq {PrimaryModel, FallbackModel}

VARIABLES
    state, failures, successes,  \* the breaker
    cooled,   \* recovery_time has passed since the last recorded failure
    call,     \* the threads
    up,       \* the provider answers
    over,     \* the hard budget of the day is reached
    genuine   \* auxiliary: failures that were not rate limits, saturated

gVars == <<state, failures, successes, cooled, call, up, over, genuine>>

\* "admitted"  past the agent's own check, waiting for the rate limiter
\* "calling"   in the request to `model`
\* "failed"    in _record_failure; "counted" when the count it read, `n`, is
\*             about to be written back, "judged" when it has been
\* "worked"    in _record_success; "probing", "counting" and "closing" are its
\*             later statements
CallStages == {"idle", "admitted", "calling", "failed", "counted", "judged",
           "worked", "probing", "counting", "closing"}

NoCall == [at |-> "idle", model |-> PrimaryModel, n |-> 0]

GatewayTypes ==
    /\ state \in {"CLOSED", "OPEN", "HALF_OPEN"}
    /\ failures \in 0..FailureThreshold
    /\ successes \in 0..SuccessThreshold
    /\ cooled \in BOOLEAN
    /\ call \in [Agents -> [at : CallStages, model : {PrimaryModel, FallbackModel}, n : Nat]]
    /\ \A c \in Analysts : call[c].at # "idle" => call[c].model = FallbackModel
    /\ up \in BOOLEAN /\ over \in BOOLEAN
    /\ genuine \in 0..FailureThreshold

GInitAt(stage) ==
    /\ state = "CLOSED"
    /\ failures = 0
    /\ successes = 0
    /\ cooled = TRUE
    /\ call = [c \in Agents |-> [NoCall EXCEPT !.at = stage]]
    /\ up = TRUE
    /\ over = FALSE
    /\ genuine = 0

GInit == GInitAt("idle")

Plus(count, limit) == Min({count + 1, limit})

Breaker == <<state, failures, successes, cooled>>

Goto(c, stage) == call' = [call EXCEPT ![c].at = stage]

Return(c) == call' = [call EXCEPT ![c] = NoCall]

\* A bug: the loop does not end with the last model.
NextModel_slip(c) ==
    call' = [call EXCEPT ![c] = [NoCall EXCEPT !.at = "calling", !.model = call[c].model + 1]]

\* The next model without a second look at the breaker, or the last error.
NextModel(c) ==
    IF c \notin Analysts /\ call[c].model = PrimaryModel
    THEN call' = [call EXCEPT ![c] = [NoCall EXCEPT !.at = "calling", !.model = FallbackModel]]
    ELSE Return(c)
-----------------------------------------------------------------------------
(* The check.                                                              *)

\* A bug: the time since the last failure is not looked at.
Observed_slip == IF state = "OPEN" THEN "HALF_OPEN" ELSE state

\* The state property: an open breaker that has cooled is half-open.
Observed == IF state = "OPEN" /\ cooled THEN "HALF_OPEN" ELSE state

Observe ==
    /\ state' = Observed
    /\ successes' = IF Observed # state THEN 0 ELSE successes
    /\ UNCHANGED <<failures, cooled, up, over, genuine>>

\* The agent's own check before the rate limiter; a refused agent answers from
\* its rules.
AskGateway(c) ==
    /\ call[c].at = "idle"
    /\ Observe
    /\ IF Observed = "OPEN" THEN UNCHANGED call
       ELSE call' = [call EXCEPT ![c].at = "admitted",
                                 ![c].model = IF c \in Analysts THEN FallbackModel ELSE PrimaryModel]

\* invoke_with_fallback, or CircuitBreaker.call, checks again.
Admit(c) ==
    /\ call[c].at = "admitted"
    /\ Observe
    /\ IF Observed = "OPEN" THEN Return(c) ELSE Goto(c, "calling")
-----------------------------------------------------------------------------
(* The answer.                                                             *)

Works(c) ==
    /\ call[c].at = "calling"
    /\ up
    /\ Goto(c, "worked")
    /\ UNCHANGED <<Breaker, up, over, genuine>>

\* A bug: a rate limit is recorded like any other failure.
RateLimited_slip(c) ==
    /\ call[c].at = "calling"
    /\ call[c].model \in Exhaustible
    /\ Goto(c, "failed")
    /\ UNCHANGED <<Breaker, up, over, genuine>>

\* A 429 goes on to the next model; CircuitBreaker.call, which the news analyst
\* uses unless cost optimization is on, takes it for a failure.
RateLimited(c) ==
    /\ call[c].at = "calling"
    /\ call[c].model \in Exhaustible
    /\ IF c \in Analysts THEN Goto(c, "failed") ELSE NextModel(c)
    /\ UNCHANGED <<Breaker, up, over, genuine>>

Fails(c) ==
    /\ call[c].at = "calling"
    /\ ~up
    /\ Goto(c, "failed")
    /\ genuine' = Plus(genuine, FailureThreshold)
    /\ UNCHANGED <<Breaker, up, over>>

\* The hard budget is looked at before each model.
OverBudget(c) ==
    /\ over
    /\ c \notin Analysts
    /\ call[c].at = "calling"
    /\ Return(c)
    /\ UNCHANGED <<Breaker, up, over, genuine>>
-----------------------------------------------------------------------------
(* _record_failure, statement by statement.                                *)

ReadFailures(c) ==
    /\ call[c].at = "failed"
    /\ call' = [call EXCEPT ![c].at = "counted", ![c].n = failures]
    /\ UNCHANGED <<Breaker, up, over, genuine>>

WriteFailures(c) ==
    /\ call[c].at = "counted"
    /\ failures' = Plus(call[c].n, FailureThreshold)
    /\ cooled' = FALSE
    /\ successes' = 0
    /\ call' = [call EXCEPT ![c].at = "judged", ![c].n = 0]
    /\ UNCHANGED <<state, up, over, genuine>>

\* A bug: the threshold is off by one.
JudgeFailure_slip(c) ==
    /\ call[c].at = "judged"
    /\ state' = IF state = "HALF_OPEN" \/ failures > FailureThreshold THEN "OPEN" ELSE state
    /\ NextModel(c)
    /\ UNCHANGED <<failures, successes, cooled, up, over, genuine>>

JudgeFailure(c) ==
    /\ call[c].at = "judged"
    /\ state' = IF state = "HALF_OPEN" \/ failures >= FailureThreshold THEN "OPEN" ELSE state
    /\ NextModel(c)
    /\ UNCHANGED <<failures, successes, cooled, up, over, genuine>>
-----------------------------------------------------------------------------
(* _record_success, statement by statement.                                *)

ClearFailures(c) ==
    /\ call[c].at = "worked"
    /\ failures' = 0
    /\ Goto(c, "probing")
    /\ UNCHANGED <<state, successes, cooled, up, over, genuine>>

\* Only a half-open breaker counts successes.
ReadSuccesses(c) ==
    /\ call[c].at = "probing"
    /\ IF state = "HALF_OPEN"
       THEN call' = [call EXCEPT ![c].at = "counting", ![c].n = successes]
       ELSE Return(c)
    /\ UNCHANGED <<Breaker, up, over, genuine>>

WriteSuccesses(c) ==
    /\ call[c].at = "counting"
    /\ successes' = Plus(call[c].n, SuccessThreshold)
    /\ call' = [call EXCEPT ![c].at = "closing", ![c].n = 0]
    /\ UNCHANGED <<state, failures, cooled, up, over, genuine>>

\* A bug: the closing waits for one success more than the count can show.
JudgeSuccess_slip(c) ==
    /\ call[c].at = "closing"
    /\ state' = IF successes > SuccessThreshold THEN "CLOSED" ELSE state
    /\ Return(c)
    /\ UNCHANGED <<failures, successes, cooled, up, over, genuine>>

JudgeSuccess(c) ==
    /\ call[c].at = "closing"
    /\ IF successes >= SuccessThreshold /\ state # "CLOSED"
       THEN state' = "CLOSED" /\ failures' = 0
       ELSE UNCHANGED <<state, failures>>
    /\ Return(c)
    /\ UNCHANGED <<successes, cooled, up, over, genuine>>
-----------------------------------------------------------------------------
(* Time and the provider.                                                  *)

Cool ==
    /\ ~cooled
    /\ cooled' = TRUE
    /\ UNCHANGED <<state, failures, successes, call, up, over, genuine>>

\* The budget is used up, or another day begins.
BudgetTurns ==
    /\ over' = ~over
    /\ UNCHANGED <<Breaker, call, up, genuine>>

Provider ==
    /\ up' = ~up
    /\ UNCHANGED <<Breaker, call, over, genuine>>

Answered(c) == Works(c) \/ RateLimited(c) \/ Fails(c) \/ OverBudget(c)

Recording(c) ==
    \/ ReadFailures(c) \/ WriteFailures(c) \/ JudgeFailure(c)
    \/ ClearFailures(c) \/ ReadSuccesses(c) \/ WriteSuccesses(c) \/ JudgeSuccess(c)

Turn(c) == AskGateway(c) \/ Admit(c) \/ Answered(c) \/ Recording(c)

GNext ==
    \/ \E c \in Agents : Turn(c)
    \/ Cool
    \/ BudgetTurns
    \/ Provider

GSpec == GInit /\ [][GNext]_gVars

\* The cycles keep calling the agents, requests end, threads run, time passes.
GFair == WF_gVars(Cool) /\ \A c \in Agents : WF_gVars(Turn(c))
-----------------------------------------------------------------------------
(* Properties.                                                             *)

\* A rate limit never counts: a breaker that is not closed has seen as many
\* failures of the provider itself as its threshold asks for.
QuotaNeverTrips == state # "CLOSED" => genuine >= FailureThreshold

\* Whatever the threads that record at the same time overwrite, a count of
\* failures at the threshold is noticed: the breaker is not left closed by the
\* last of them.
ThresholdNoticed ==
    state = "CLOSED" /\ failures >= FailureThreshold =>
        \E c \in Agents : call[c].at = "judged"

\* An open breaker stays open until the recovery time has passed since the
\* last failure; only a thread that was already counting a half-open success
\* when another thread's failure reopened it closes it early.
OpenUntilCooled ==
    [][state = "OPEN" /\ state' # "OPEN" => cooled \/ \E c \in Agents : call[c].at = "closing"]_gVars

\* Once the provider is back for good, and there is budget, the breaker closes
\* for good, whatever the counts were and although the primary model's quota
\* may stay used up.
Recovers == <>[](up /\ ~over) => <>[](state = "CLOSED")

\* The breaker trips for failures of the provider, all of them and no others.
BreakerIsTrue == QuotaNeverTrips /\ ThresholdNoticed

\* It stays open as long as it must, and no longer than it must.
BreakerCools == OpenUntilCooled /\ Recovers
=============================================================================
