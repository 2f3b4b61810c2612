-------------------------- MODULE CandidateReview --------------------------
(***************************************************************************)
(* From the candidates of one trading cycle to its entries: the shared     *)
(* market context, the agents that review a candidate, the deterministic   *)
(* risk stages around them, and the last look at the book before an order. *)
(*                                                                         *)
(*   registry   the strategies whose eligibility record allows an order    *)
(*   slot       SharedMarketContextService: one context and its expiry     *)
(*   verdicts   CandidateVerdictCache: what Qwen said of a candidate       *)
(*   book, daily    the positions held, the day's entries and realised P&L *)
(*   cycle      where _run_cycle is: the horizon it reviews, what is left  *)
(*              of its candidates and what the agents have found so far    *)
(*                                                                         *)
(* The cycle awaits the context, every node of the graph and the quotes;   *)
(* between two of its steps the position loop sells, the registry changes, *)
(* cached answers expire and the budget runs out.                          *)
(***************************************************************************)
EXTENDS Integers, FiniteSetsExt, Functions

CONSTANTS
    Candidates,     \* what the strategies may propose: symbol, horizon,
                    \* sector, strategy, stop risk, whether the strategy requires
                    \* a model and whether its evidence is in conflict
    Models,         \* what a model may say of a candidate: "up", "down", "none"
    Ways,           \* llm_cost_optimization_enabled: the values considered
    MaxReviews,     \* qwen_max_reviews_per_event
    MaxPositions, MaxSector, EntryCap, LossLimit, MaxTotalRisk,
    MaxGain,        \* bounds for TLC: on the day's profit, and on the verdicts
    MaxKept,        \* kept at a time
    Faults, MaxFaults

Horizons == {"SCALP", "SWING"}
Confidence == {"clear", "unsure", "low"}     \* of the regime: from 0.6, from 0.3, below

\* "outage"   a call to a model fails, or its answer cannot be parsed
\* "news"     the context cannot be built at all
\* "budget"   the day's budget for models is used up
\* "withdraw" a strategy loses its eligibility
\* "gap"      a position is sold below its stop
FaultKinds == {"outage", "news", "budget", "withdraw", "gap"}

ASSUME ReviewAssumption ==
    /\ \A c \in Candidates : c.horizon \in Horizons /\ c.risk \in Nat
    /\ \A c \in Candidates : {c.required, c.unclear} \subseteq BOOLEAN
    /\ Ways \subseteq BOOLEAN
    /\ Models \subseteq {"up", "down", "none"}
    /\ {MaxReviews, MaxPositions, MaxSector, EntryCap} \subseteq Nat
    /\ {LossLimit, MaxTotalRisk} \subseteq Nat
    /\ {MaxGain, MaxKept, MaxFaults} \subseteq Nat
    /\ Faults \subseteq FaultKinds

VARIABLES optimised, registry, budget, slot, verdicts, book, daily, cycle,
          reviewed,     \* last_review_fingerprint
          said,         \* auxiliary: what Qwen approved, as it was put to it
          opened,       \* auxiliary: the entry just made and what it rests on
          failed,       \* auxiliary: the last review found the models unusable
          spent,        \* auxiliary: faults so far ...
          gapped        \* ... and whether a position was sold below its stop

account == <<book, daily>>
answers == <<slot, verdicts, reviewed>>
faulty == <<spent, gapped>>
aux == <<said, opened, failed>>
vars == <<optimised, registry, budget, account, answers, cycle, aux, faulty>>

Fault(kind) ==
    /\ kind \in Faults
    /\ spent < MaxFaults
    /\ spent' = spent + 1
    /\ gapped' = (gapped \/ kind = "gap")

Of(cs, h) == {c \in cs : c.horizon = h}
Risk(cs) == MapThenSumSet(LAMBDA c : c.risk, cs)
Symbols(cs) == {c.symbol : c \in cs}
Least(x, y) == IF x < y THEN x ELSE y
Strategies == {c.strategy : c \in Candidates}
-----------------------------------------------------------------------------
(* The deterministic stages.                                               *)

\* Setups of a strategy that is not eligible for an order stay research
\* evidence. On the scalp side only the optimised way looks that early.
Admitted(setups) == {c \in Of(setups, "SWING") : c.strategy \in registry}
ScalpAdmitted(setups) == {c \in Of(setups, "SCALP") : optimised => c.strategy \in registry}

\* evaluate_long_candidate, once before the model and once after: a strategy
\* version that requires a model waits unless its model says "up".
Qualifies(c, model) == c.required => model = "up"

\* The second look, after the model: what is left may go to the agents.
Qualified(setups, model) == {c \in setups : Qualifies(c, model)}

\* QwenReviewPolicy.assess: conflicting evidence, an uncertain regime or a
\* model that disagrees needs a review; anything else is clear.
NeedsReview(c, sure, model) == c.unclear \/ sure # "clear" \/ model = "down"

\* check_kill_switch on the day's figures.
Killed(day) == day.pnl <= -LossLimit

\* _count_sector_positions: only these checks know of sectors, so two
\* candidates of one batch may overfill one.
SectorOpen(c, positions) == Cardinality({p \in positions : p.sector = c.sector}) < MaxSector

\* _run_risk_checks: the caps on the day and on the book. It sees the figures
\* taken when the review began, the same for every candidate of the batch.
RiskChecks(c, positions, day) ==
    /\ day.entries < EntryCap
    /\ day.pnl > -LossLimit
    /\ Cardinality(positions) < MaxPositions
    /\ c.symbol \notin Symbols(positions)
    /\ SectorOpen(c, positions)

FinalRisk_slip(c, positions, day) ==
    /\ day.entries < EntryCap
    /\ Cardinality(positions) < MaxPositions
    /\ c.symbol \notin Symbols(positions)
    /\ Risk(positions) + c.risk <= MaxTotalRisk

\* PaperRiskReservations.evaluate: the caps again, on the book as it is now, and the
\* loss at every stop against what the day may still lose. A reservation is
\* released before the next candidate is looked at.
FinalRisk(c, positions, day) ==
    /\ day.entries < EntryCap
    /\ Cardinality(positions) < MaxPositions
    /\ c.symbol \notin Symbols(positions)
    /\ Risk(positions) + c.risk <= MaxTotalRisk
    /\ Risk(positions) + c.risk <= LossLimit + Least(0, day.pnl)
-----------------------------------------------------------------------------
(* The cycle.                                                              *)

NoContext == [usable |-> FALSE, errors |-> FALSE, sure |-> "clear", poor |-> FALSE]
Rest == [at |-> "rest", horizon |-> "SCALP", todo |-> {}, later |-> {}, model |-> "none",
         context |-> NoContext, sure |-> "clear", errors |-> FALSE, misled |-> FALSE,
         snapshot |-> {}, day |-> [entries |-> 0, pnl |-> 0], sanctioned |-> {}]

At(stage) == cycle.at = stage

\* The next horizon of this cycle, or the end of it.
Onward(c) ==
    IF c.horizon = "SCALP" /\ c.later # {}
    THEN [c EXCEPT !.at = "context", !.horizon = "SWING", !.todo = c.later, !.later = {},
                   !.sure = "clear", !.errors = FALSE, !.misled = FALSE]
    ELSE Rest

\* What a candidate is cached under: build_candidate_fingerprint.
Material(c, cy) ==
    [candidate |-> c, sure |-> cy.sure, model |-> cy.model]

\* A candle settles, or one is revised, and the strategies find setups on it
\* that the price and volume gates confirm. The fingerprint of a verdict names
\* its candle, so a new one makes those kept unreachable.
Scan ==
    /\ At("rest")
    /\ \E setups \in (SUBSET Candidates) \ {{}}, model \in Models, new \in BOOLEAN :
        LET qualified == Qualified(setups, model)
            scalps == ScalpAdmitted(qualified)
            swings == Admitted(qualified)
        IN
        /\ scalps \union swings # {}
        /\ verdicts' = IF new THEN <<>> ELSE verdicts
        /\ said' = said \intersect DOMAIN verdicts'
        /\ reviewed' = IF new THEN {} ELSE reviewed
        /\ cycle' = [Rest EXCEPT !.at = IF scalps # {} THEN "budget" ELSE "context",
                                 !.horizon = IF scalps # {} THEN "SCALP" ELSE "SWING",
                                 !.todo = IF scalps # {} THEN scalps ELSE swings,
                                 !.later = IF scalps # {} THEN swings ELSE {},
                                 !.model = model]
    /\ UNCHANGED <<optimised, registry, budget, account, slot, opened, failed, faulty>>

\* _ensure_shared_market_context: once per cycle, TTL-only reuse of the one
\* slot. The swing side asks before its budget and, when that failed, again
\* before its review; the scalp side asks once, before its review.
AfterContext == IF At("context") THEN "budget" ELSE "gate"

UseContext ==
    /\ At("context") \/ At("context again")
    /\ \/ ~optimised \/ cycle.context.usable \/ slot.usable
    /\ cycle' = [cycle EXCEPT !.at = AfterContext,
                              !.context = IF ~optimised \/ @.usable THEN @ ELSE slot]
    /\ UNCHANGED <<optimised, registry, budget, account, answers, aux, faulty>>

\* The regime agent answers, or its fallback infers a regime and says so: the
\* context that results is kept either way.
MakeContext ==
    /\ At("context") \/ At("context again")
    /\ optimised /\ ~cycle.context.usable /\ ~slot.usable
    /\ \E sure \in Confidence, down \in BOOLEAN :
        /\ IF down THEN sure = "unsure" /\ Fault("outage") ELSE UNCHANGED faulty
        /\ slot' = [usable |-> TRUE, errors |-> down, sure |-> sure, poor |-> down]
    /\ cycle' = [cycle EXCEPT !.at = AfterContext, !.context = slot']
    /\ UNCHANGED <<optimised, registry, budget, account, verdicts, reviewed, aux>>

ContextFails ==
    /\ At("context") \/ At("context again")
    /\ optimised /\ ~cycle.context.usable
    /\ Fault("news")
    /\ cycle' = [cycle EXCEPT !.at = AfterContext]
    /\ UNCHANGED <<optimised, registry, budget, account, answers, aux>>

\* The FinOps gate, in batch mode the check for an unchanged candidate set,
\* and the figures every candidate of this review is judged on. (The set is
\* remembered when the review has ended, whatever it found; nothing reads it before.)
Fingerprint == {<<c, cycle.model>> : c \in cycle.todo}
Batch == ~optimised /\ cycle.horizon = "SWING"

Skip == budget \/ (Batch /\ reviewed = Fingerprint)

\* The positions and the day as the agents and the risk stage will see them.
Snapshot(cy) == [cy EXCEPT !.snapshot = book, !.day = daily]

Budget ==
    /\ At("budget")
    /\ LET skip == Skip IN
        /\ cycle' = IF skip THEN Onward(cycle)
                    ELSE [Snapshot(cycle) EXCEPT !.at = "context again"]
        /\ reviewed' = IF Batch /\ ~skip THEN Fingerprint ELSE reviewed
    /\ UNCHANGED <<optimised, registry, budget, account, slot, verdicts, aux, faulty>>

\* run_trading_cycle up to the graph: with a context in hand, a degraded one
\* rejects every candidate, and filter_pre_llm_candidates drops those that
\* the risk stage would reject anyway. Without a context neither happens.
Gate ==
    /\ At("gate")
    /\ IF cycle.context.usable
       THEN LET passed == {c \in cycle.todo : /\ c.strategy \in registry
                                              /\ RiskChecks(c, cycle.snapshot, cycle.day)}
                open == ~cycle.context.errors /\ ~Killed(cycle.day) /\ ~budget /\ passed # {}
            IN /\ IF open
                  THEN cycle' = [cycle EXCEPT !.at = "regime", !.todo = passed]
                  ELSE cycle' = Onward(cycle)
               /\ failed' = cycle.context.errors
       ELSE /\ cycle' = [cycle EXCEPT !.at = "regime"]
            /\ failed' = FALSE
    /\ UNCHANGED <<optimised, registry, budget, account, answers, said, opened, faulty>>

\* market_regime_node and should_continue_after_regime. A fallback regime is
\* unsure, and its error makes the whole review a degraded one.
Regime ==
    /\ At("regime")
    /\ \E sure \in Confidence, down \in BOOLEAN :
        /\ IF cycle.context.usable
           THEN sure = cycle.context.sure /\ ~down /\ UNCHANGED faulty
           ELSE IF down THEN sure = "unsure" /\ Fault("outage") ELSE UNCHANGED faulty
        /\ IF sure = "low" \/ Killed(cycle.day)
           THEN cycle' = Onward(cycle)
           ELSE cycle' = [cycle EXCEPT !.at = "select", !.sure = sure, !.errors = down,
                                       !.misled = down \/ cycle.context.poor]
    /\ UNCHANGED <<optimised, registry, budget, account, answers, aux>>

\* strategy_selection_node: with the optimisation every strategy of the batch is
\* active; without it a model picks them, or the default set of the regime is
\* used with an error. Only the rules of the fallback look at the choice, so
\* every candidate goes on.
Select ==
    /\ At("select")
    /\ \E down \in BOOLEAN :
        /\ down => ~optimised
        /\ IF down THEN Fault("outage") ELSE UNCHANGED faulty
        /\ cycle' = [cycle EXCEPT !.at = "validate", !.errors = @ \/ down, !.misled = @ \/ down]
    /\ UNCHANGED <<optimised, registry, budget, account, answers, aux>>

\* What one answer of Qwen leaves in the cache: a verdict on each candidate it was
\* asked about, beside those that are still alive.
Keep(alive, asked, approves) ==
    [m \in alive \union asked |-> IF m \in asked THEN m \in approves ELSE verdicts[m]]

\* The candidates that need a review, those with a verdict that has not expired, and
\* those it approves.
Queue == {c \in cycle.todo : NeedsReview(c, cycle.sure, cycle.model)}
Known(alive) == {c \in Queue : Material(c, cycle) \in alive}
Hits(alive) == {c \in Known(alive) : verdicts[Material(c, cycle)]}

Unanswered_slip(passed, misses) == passed \union misses

\* A review that is missing, malformed or failed never becomes an approval.
Unanswered(passed, misses) == passed

\* Qwen is asked about the misses and approves some, or no answer comes.
QwenAnswers(alive, misses, yes, lost) ==
    LET passed == (cycle.todo \ Queue) \union Hits(alive)
        asked == {Material(c, cycle) : c \in misses}
        approves == {Material(c, cycle) : c \in yes}
    IN  IF lost
        THEN /\ verdicts' = Restrict(verdicts, alive) /\ said' = said
             /\ cycle' = [cycle EXCEPT !.at = "risk", !.todo = Unanswered(passed, misses)]
        ELSE /\ verdicts' = Keep(alive, asked, approves)
             /\ said' = (said \ asked) \union approves
             /\ cycle' = [cycle EXCEPT !.at = "risk", !.todo = passed \union yes]

\* _optimized_signal_validation: clear candidates pass, known ones reuse their
\* verdict unless it has expired, as many others as fit are put to Qwen in one
\* call, the rest are deferred, which is not an approval.
ReviewOptimised ==
    /\ At("validate") /\ optimised
    /\ \E alive \in SUBSET DOMAIN verdicts :
       LET unknown == Queue \ Known(alive) IN
       \E misses \in kSubset(Least(MaxReviews, Cardinality(unknown)), unknown) :
       \E yes \in SUBSET misses, down \in BOOLEAN :
          LET lost == misses # {} /\ (budget \/ down) IN
          /\ down => misses # {} /\ ~budget
          /\ lost => yes = {}
          /\ IF down THEN Fault("outage") ELSE UNCHANGED faulty
          /\ QwenAnswers(alive, misses, yes, lost)
          /\ failed' = down
    /\ Cardinality(DOMAIN verdicts') <= MaxKept
    /\ UNCHANGED <<optimised, registry, budget, account, slot, reviewed, opened>>

\* The batch path: one call for every candidate. Without an answer the rules of
\* _fallback_signal_validation approve some, with an error.
ReviewBatch ==
    /\ At("validate") /\ ~optimised
    /\ \E yes \in SUBSET cycle.todo, down \in BOOLEAN :
        LET asked == {Material(c, cycle) : c \in cycle.todo} IN
        /\ down => cycle.todo # {}
        /\ IF down THEN Fault("outage") ELSE UNCHANGED faulty
        /\ said' = IF down THEN said
                   ELSE (said \ asked) \union {Material(c, cycle) : c \in yes}
        /\ cycle' = [cycle EXCEPT !.at = "risk", !.todo = yes, !.errors = @ \/ down,
                                  !.misled = @ \/ down]
        /\ failed' = (down \/ cycle.errors)
    /\ UNCHANGED <<optimised, registry, budget, account, slot, verdicts, reviewed, opened>>

\* The eligibility backstop of _run_risk_checks: the registry is asked again after Qwen.
Sanction(c) == c.strategy \in registry

\* "A degraded agent cycle ... can never create a new position."
Degraded(c) == c.errors

\* The kill switch is looked at once more on the swing side, on the day's figures of
\* before the review.
Halted(c) == c.horizon = "SWING" /\ Killed(c.day)

\* risk_compliance_node, then the stages of the runtime that drop a whole
\* batch.
Comply ==
    /\ At("risk")
    /\ LET approved == {c \in cycle.todo : /\ RiskChecks(c, cycle.snapshot, cycle.day)
                                           /\ Sanction(c)}
           stop == Degraded(cycle) \/ Halted(cycle)
       IN /\ cycle' = [cycle EXCEPT !.at = "enter", !.todo = IF stop THEN {} ELSE approved,
                                    !.context = IF cycle.later = {} THEN NoContext ELSE @,
                                    !.snapshot = {}, !.day = Rest.day, !.sanctioned = registry]
    /\ UNCHANGED <<optimised, registry, budget, account, answers, aux, faulty>>

\* The intent, the order, the position and the daily entry of a filled trade.
Write(c) ==
    /\ book' = book \union {c}
    /\ daily' = [daily EXCEPT !.entries = @ + 1]
    /\ opened' = {[candidate |-> c, material |-> Material(c, cycle), misled |-> cycle.misled,
                   eligible |-> c.strategy \in cycle.sanctioned]}

\* One approved trade: it is dropped when its quote is missing, stale or has
\* moved, or when the last look at the book refuses it; otherwise it is written
\* in one go.
Enter ==
    /\ At("enter")
    /\ \E c \in cycle.todo, quoted \in BOOLEAN :
        /\ cycle' = [cycle EXCEPT !.todo = @ \ {c}]
        /\ IF quoted /\ FinalRisk(c, book, daily)
           THEN Write(c)
           ELSE UNCHANGED <<book, daily, opened>>
    /\ UNCHANGED <<optimised, registry, budget, answers, said, failed, faulty>>

Done ==
    /\ At("enter") /\ cycle.todo = {}
    /\ cycle' = Onward(cycle)
    /\ opened' = {} /\ said' = said \intersect DOMAIN verdicts
    /\ UNCHANGED <<optimised, registry, budget, account, answers, failed, faulty>>
-----------------------------------------------------------------------------
(* What happens around the cycle, at the steps that can tell when it did:  *)
(* the account is read when a review begins and when its trades enter, the *)
(* registry at the gate and in the risk stage, the budget at the gate and  *)
(* before the call to Qwen.                                                *)

Apart == At("rest") \/ At("enter")

\* The position loop sells at the stop, at a gain, or, on a gap, below the stop.
Sell ==
    /\ Apart
    /\ \E c \in book, result \in {"stop", "gain", "gap"} :
        LET change == CASE result = "stop" -> -c.risk [] result = "gain" -> c.risk
                        [] OTHER -> -(c.risk + 1)
        IN /\ IF result = "gap" THEN Fault("gap") ELSE UNCHANGED faulty
           /\ daily.pnl + change <= MaxGain
           /\ book' = book \ {c}
           /\ daily' = [daily EXCEPT !.pnl = @ + change]
    /\ UNCHANGED <<optimised, registry, budget, answers, cycle, aux>>

NewDay ==
    /\ Apart
    /\ daily' = [entries |-> 0, pnl |-> 0] /\ budget' = FALSE
    /\ daily' # daily \/ budget
    /\ UNCHANGED <<optimised, registry, book, answers, cycle, aux, faulty>>

Overspend ==
    /\ ~budget /\ Fault("budget") /\ (At("budget") \/ At("validate"))
    /\ budget' = TRUE
    /\ UNCHANGED <<optimised, registry, account, answers, cycle, aux>>

Withdraw ==
    /\ Fault("withdraw") /\ (At("budget") \/ At("risk") \/ At("enter"))
    /\ \E g \in registry : registry' = registry \ {g}
    /\ UNCHANGED <<optimised, budget, account, answers, cycle, aux>>

ContextExpires_slip == FALSE /\ UNCHANGED vars

\* The reuse of the context depends on its age alone.
ContextExpires ==
    /\ slot.usable /\ Apart
    /\ slot' = NoContext
    /\ UNCHANGED <<optimised, registry, budget, account, verdicts, reviewed, cycle, aux, faulty>>

Init ==
    /\ optimised \in Ways
    /\ registry = Strategies /\ budget = FALSE
    /\ slot = NoContext /\ verdicts = <<>> /\ reviewed = {}
    /\ book = {} /\ daily = [entries |-> 0, pnl |-> 0]
    /\ cycle = Rest
    /\ said = {} /\ opened = {} /\ failed = FALSE
    /\ spent = 0 /\ gapped = FALSE

Work == \/ UseContext \/ MakeContext \/ Budget \/ Gate \/ Regime \/ Select
        \/ ReviewOptimised \/ ReviewBatch \/ Comply \/ Enter \/ Done

Next == \/ Scan \/ Work \/ ContextFails \/ Sell \/ NewDay \/ Overspend \/ Withdraw
        \/ ContextExpires

Spec == Init /\ [][Next]_vars

\* The loop of run_live_trading goes on to the next cycle, every awaited call returns,
\* and time passes, so that what has a lifetime ends.
Fairness == WF_vars(Scan) /\ WF_vars(Work) /\ SF_vars(ContextExpires) /\ SF_vars(NewDay)

FairSpec == Spec /\ Fairness
-----------------------------------------------------------------------------
(* Properties.                                                             *)

\* Every entry rests on what the reviewers really said: no agent whose answer it
\* used was down, its strategy was still eligible when the risk stage ran,
\* and unless the policy found nothing to review Qwen approved this candidate,
\* on this candle and in this context, and has not changed its mind since. The
\* hazards are a cached verdict about something else, a failed review counted
\* as an approval, a degraded context kept without its error, and eligibility
\* lost while the models were answering (live.py, "can never create a new
\* position"; signal_validation.py, "never become an approval").
EntriesWereCleared ==
    \A e \in opened :
        /\ ~e.misled
        /\ e.eligible
        /\ \/ optimised /\ ~NeedsReview(e.candidate, e.material.sure, e.material.model)
           \/ e.material \in said

\* However the reviews, entries and sales interleave, the day cannot lose more than its
\* limit as long as no position is sold below its stop: what has been lost and
\* what every open stop may still lose stay within daily_loss_limit, over both
\* horizons, although each batch was judged on one old picture of the book.
DayLossBounded ==
    ~gapped =>
        /\ Risk(book) - daily.pnl <= LossLimit
        /\ Risk(book) <= MaxTotalRisk
        /\ Cardinality(book) <= MaxPositions
        /\ \A c, d \in book : c.symbol = d.symbol => c = d

\* An outage does not outlive itself: once the models answer, the reviews are
\* used again, although the context of the outage was kept for its whole
\* lifetime and rejects every candidate meanwhile.
OutageIsForgotten == <>[](optimised => ~failed)
=============================================================================
