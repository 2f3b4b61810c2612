---------------------------- MODULE AgentAnswers ----------------------------
(***************************************************************************)
(* One invocation of the agent graph, from the candidates it is given to   *)
(* the lists it returns, at the grain of the answers: what a model said,   *)
(* candidate by candidate, and what the graph makes of an answer that is   *)
(* late, garbled, incomplete, says two things of one candidate or speaks   *)
(* of a candidate nobody asked about.                                      *)
(*                                                                         *)
(*   way       "optimised": selective reviews with a strict schema;        *)
(*             "batch": one answer about all                               *)
(*   agents    enable_llm_agents: without them rules review everything     *)
(*   batch     the candidates of this invocation, and what is known of each*)
(*   left      the candidates that are still signals of the state          *)
(*   node      the node of the graph that runs next                        *)
(*   lists     validated, rejected (rejected_signals), approved and risk   *)
(*             (risk_rejected), dropped (pre_llm_rejected): sequences      *)
(*   errors    the errors of the state: "fallback" ones and others         *)
(*   verdicts  CandidateVerdictCache, which outlives the invocation        *)
(*                                                                         *)
(* CandidateReview has the cycle around the graph and abstracts an answer  *)
(* to the set of candidates that it approves.                              *)
(***************************************************************************)
EXTENDS Integers, SequencesExt, FiniteSetsExt, Functions

CONSTANTS
    Ids,            \* the candidates of one invocation
    Strategies,          \* the strategies
    Default,        \* trend_following
    Kinds,          \* what may be known of a candidate
    Capacities,     \* values of qwen_max_reviews_per_event
    MaxItems,       \* bound for TLC: the items of one answer
    MaxRounds       \* bound for TLC: the invocations that share the cache

Ways == {"optimised", "batch"}
Registry == {"ALLOW", "SHADOW", "BLOCK"}
Stranger == 0               \* an id that was not asked about

ASSUME AnswersAssumption ==
    /\ Ids \subseteq Nat \ {Stranger} /\ IsFiniteSet(Ids) /\ Default \in Strategies
    /\ \A k \in Kinds :
        /\ k.strategy \in Strategies /\ k.registry \in Registry
        /\ {k.ready, k.evaluated, k.clear, k.strong, k.foreign} \subseteq BOOLEAN
    /\ {MaxItems, MaxRounds} \subseteq Nat /\ Capacities \subseteq Nat

\* A candidate: its strategy and the decision of the registry about it; ready, its
\* timeframes confirm and its entry state is actionable; evaluated, the scan has
\* attached that decision already; clear, the policy finds nothing to review;
\* strong, it passes the bar of the backup check; foreign, it was made in
\* another execution mode.

VARIABLES way, agents, batch, left, node, active, lists, errors, regime, verdicts, invocation,
          heard,        \* auxiliary: what the last answer said, by fingerprint
          asked,        \* auxiliary: the candidates shown to a reviewer
          stopped       \* auxiliary: the graph ended at the regime

mode == <<way, agents>>
kept == <<verdicts, invocation>>
testimony == <<heard, asked>>
aVars == <<mode, batch, left, node, active, lists, errors, regime, kept, testimony, stopped>>

NoLists == [validated |-> <<>>, rejected |-> <<>>, approved |-> <<>>, risk |-> <<>>,
            dropped |-> <<>>, gate |-> <<>>]
Present == DOMAIN batch

\* The candidates of S in the order of the batch; the entries of list s at the
\* positions I; what is new put over what was there.
Listed(S) == [n \in 1..Cardinality(S) |-> CHOOSE c \in S : Cardinality({d \in S : d <= c}) = n]
Extract(s, I) == [n \in 1..Cardinality(I) |-> s[Listed(I)[n]]]
Over(new, old) == [x \in DOMAIN new \union DOMAIN old |-> IF x \in DOMAIN new THEN new[x] ELSE old[x]]
-----------------------------------------------------------------------------
(* Answers.                                                                *)

Items(known) == [id : known \union {Stranger}, says : {"approve", "reject", "odd"}]

\* The answers that are lists of items; "odd" is a word outside the vocabulary.
Replies(known) == BoundedSeq(Items(known), MaxItems)

Said(items, c) == {items[i].says : i \in {j \in DOMAIN items : items[j].id = c}}

Strict_slip(items, known) == \A i \in DOMAIN items : items[i].id \in known /\ items[i].says # "odd"

\* parse_context_reviews: an item about a stranger or about a candidate that has
\* one already, a value outside the schema, or a candidate left out: each refuses the
\* whole answer.
Strict(items, known) ==
    /\ \A i \in DOMAIN items : items[i].id \in known /\ items[i].says # "odd"
    /\ \A i, j \in DOMAIN items : items[i].id = items[j].id => i = j
    /\ {items[i].id : i \in DOMAIN items} = known

\* _parse_validation_response: item by item, strangers are passed over, any other
\* word than approve rejects, and what is not mentioned is rejected.
Lenient(items, known) ==
    LET about == {i \in DOMAIN items : items[i].id \in known}
        approving == {i \in about : items[i].says = "approve"}
        silent == {c \in known : Said(items, c) = {}}
        ids == [i \in DOMAIN items |-> items[i].id]
    IN [validated |-> Extract(ids, approving),
        rejected |-> Extract(ids, about \ approving) \o Listed(silent)]

\* _fallback_signal_validation: an active strategy, and the confidence and the
\* risk-reward ratio at or above the bar of the horizon.
BackupCheck(known) ==
    LET good == {c \in known : batch[c].strategy \in active /\ batch[c].strong}
    IN [validated |-> Listed(good), rejected |-> Listed(known \ good)]
-----------------------------------------------------------------------------
(* The invocation.                                                         *)

\* run_trading_cycle: a signal of another execution mode raises before anything
\* happens; a degraded shared context rejects all of them.
EnterGraph ==
    /\ node = "enter"
    /\ \E context \in {"none", "whole", "degraded"} :
        LET raises == \E c \in Present : batch[c].foreign
            degraded == context = "degraded" /\ ~raises
        IN /\ context # "none" => way = "optimised"
           /\ node' = CASE raises -> "raised" [] degraded -> "end"
                        [] context = "whole" -> "gate" [] OTHER -> "support"
           /\ lists' = [lists EXCEPT !.risk = IF degraded THEN Listed(left) ELSE @]
           /\ errors' = IF degraded THEN {"fallback"} ELSE {}
           /\ regime' = IF context = "whole" THEN "shared" ELSE "unknown"
    /\ UNCHANGED <<mode, batch, left, active, kept, testimony, stopped>>

\* filter_pre_llm_candidates: the kill switch or the hard budget rejects all of them;
\* then, one by one, those not confirmed or not actionable, those that the
\* registry blocks, those that are only evaluated in its shadow, and those
\* that the risk checks block on the figures of the moment.
Filtered(halted, safe) ==
    IF halted THEN {}
    ELSE {c \in left : batch[c].ready /\ batch[c].registry = "ALLOW" /\ c \in safe}

\* evaluate_signal_eligibility attaches the decision to what is let through.
Evaluated(ids) == [c \in Present |-> [batch[c] EXCEPT !.evaluated = @ \/ c \in ids]]

\* The gate before the graph: when nothing is left the graph is skipped.
Gate ==
    /\ node = "gate"
    /\ \E halted \in BOOLEAN, safe \in SUBSET left :
        LET passed == Filtered(halted, safe)
            dropped == Listed(left \ passed)
        IN /\ lists' = [lists EXCEPT !.dropped = dropped, !.gate = dropped,
                                     !.risk = IF passed = {} THEN dropped ELSE @]
           /\ batch' = Evaluated(passed) /\ left' = passed
           /\ node' = IF passed = {} THEN "end" ELSE "support"
    /\ UNCHANGED <<mode, active, errors, regime, kept, testimony, stopped>>

\* support_agents_node: one that raises leaves the state as it is, without an error.
SupportAgents ==
    /\ node = "support" /\ node' = "regime"
    /\ UNCHANGED <<mode, batch, left, active, lists, errors, regime, kept, testimony, stopped>>

Fallback_slip(down) == errors

\* An agent that falls back on a rule says so, after the errors that were there.
Fallback(down) == IF down THEN errors \union {"fallback"} ELSE errors

\* _parse_regime_response and the rule behind it. An answer that is not JSON is an
\* unknown regime of confidence 0, below the limit of the graph; any other failure falls
\* back on the average change of the day; a confidence that is not a number
\* counts as certain.
Named(answer) ==
    CASE answer = "none" -> [regime |-> "inferred", sure |-> TRUE]
      [] answer = "unreadable" -> [regime |-> "unknown", sure |-> FALSE]
      [] OTHER -> [regime |-> "named", sure |-> answer # "doubtful"]

\* market_regime_node and should_continue_after_regime, which stops the graph with every
\* candidate undecided.
Regime ==
    /\ node = "regime"
    /\ \E answer \in {"certain", "NaN", "doubtful", "unreadable", "none"}, halted \in BOOLEAN :
        LET shared == regime = "shared"
            down == ~shared /\ (answer = "none" \/ ~agents)
            named == Named(IF down THEN "none" ELSE answer)
        IN /\ shared => answer \in {"certain", "doubtful"}
           /\ errors' = Fallback(down)
           /\ regime' = IF shared THEN regime ELSE named.regime
           /\ stopped' = (halted \/ ~named.sure)
           /\ node' = IF stopped' THEN "return" ELSE "select"
    /\ UNCHANGED <<mode, batch, left, active, lists, kept, testimony>>

\* _retain_eligible_candidate_strategies: only strategies of candidates that the
\* registry let through.
Retained(names, ids) == names \intersect {batch[c].strategy : c \in {d \in ids : batch[d].registry = "ALLOW"}}

\* Whether the scan or the gate has looked at the eligibility of every candidate.
Checked == \A c \in left : batch[c].evaluated /\ batch[c].registry = "ALLOW"

\* _parse_strategy_response: the strategies of the answer that exist, trend_following
\* when none is left or the answer is not JSON.
ParsedNames(answer, names) == IF answer = "unreadable" \/ names = {} THEN {Default} ELSE names

\* With the optimisation every strategy that the candidates name is active; else what
\* the answer names or, without an answer, the default set of the regime.
Chosen(answer, names, ids) ==
    IF way = "optimised" /\ agents THEN {batch[c].strategy : c \in ids}
    ELSE IF answer = "none" THEN names ELSE ParsedNames(answer, names)

\* strategy_selection_node looks at the eligibility itself unless that was done.
Select ==
    /\ node = "select"
    /\ \E halted \in BOOLEAN, safe \in SUBSET left, names \in SUBSET Strategies,
          answer \in {"list", "unreadable", "none"} :
        LET passed == IF Checked THEN left ELSE Filtered(halted, safe)
            dropped == lists.dropped \o Listed(left \ passed)
            down == ~agents \/ (way = "batch" /\ answer = "none")
        IN /\ left' = passed
           /\ lists' = [lists EXCEPT !.dropped = dropped,
                                     !.risk = IF passed = {} THEN dropped ELSE @]
           /\ active' = Retained(Chosen(answer, names, passed), passed)
           /\ errors' = Fallback(down /\ passed # {})
    /\ node' = "validate"
    /\ UNCHANGED <<mode, batch, regime, kept, testimony, stopped>>

\* What signal_validation_node may look at; the others are rejected at once.
Reviewable == {c \in left : batch[c].registry = "ALLOW"}

\* should_continue_after_validation: without a validated signal there is no risk stage.
Accept(result) ==
    /\ lists' = [lists EXCEPT !.validated = result.validated,
                              !.rejected = Listed(left \ Reviewable) \o result.rejected]
    /\ node' = IF result.validated = <<>> THEN "return" ELSE "comply"

\* _fallback_signal_validation is the whole review when the agents are off, and when
\* the batch call fails or its answer has another shape.
ValidateByRules ==
    /\ node = "validate" /\ (agents => way = "batch" /\ Reviewable # {})
    /\ Accept(BackupCheck(Reviewable))
    /\ errors' = Fallback(Reviewable # {})
    /\ UNCHANGED <<mode, batch, left, active, regime, kept, testimony, stopped>>

\* build_candidate_fingerprint, what a verdict is kept under: the figures of the
\* candidate, each in its bucket, and the context they were seen in.
Fingerprint(c) == [id |-> c, kind |-> batch[c], regime |-> regime]

Hear(items, ids) == Over([f \in {Fingerprint(c) : c \in ids} |-> Said(items, f.id)], heard)

\* The batch review: one answer about every candidate. Nothing holds it against the
\* strategies that were selected. An unreadable answer is no approval, and no error.
ValidateBatch ==
    /\ node = "validate" /\ way = "batch" /\ agents
    /\ \/ Accept([validated |-> <<>>, rejected |-> Listed(Reviewable)]) /\ UNCHANGED heard
       \/ \E items \in Replies(Reviewable) :
            /\ Reviewable # {}
            /\ Accept(Lenient(items, Reviewable))
            /\ heard' = Hear(items, Reviewable)
    /\ asked' = asked \union {batch[c] : c \in Reviewable}
    /\ UNCHANGED <<mode, batch, left, active, errors, regime, kept, stopped>>

\* CandidateVerdictCache.get: a verdict that has expired is taken out.
Unexpired(alive) == Restrict(verdicts, alive)

\* One verdict for each candidate of an accepted answer: the handling decides, CONTINUE
\* with or without caution is an approval.
Reviewed(items, ids) == [f \in {Fingerprint(c) : c \in ids} |-> "approve" \in Said(items, f.id)]

\* Of the reviewable candidates whose strategy is active, the clear ones pass; the misses
\* have no verdict that is alive, and as many as the capacity allows are put to Qwen;
\* Granted is what the verdicts approve.
Selected == {c \in Reviewable : batch[c].strategy \in active}
Cleared == {c \in Selected : batch[c].clear}
Misses(alive) == {c \in Selected \ Cleared : Fingerprint(c) \notin alive}
Askable(alive) ==
    LET misses == Misses(alive)
    IN UNION {kSubset(Min({n, Cardinality(misses)}), misses) : n \in Capacities}
Granted(now) == Cleared \union {c \in Selected : Fingerprint(c) \in DOMAIN now /\ now[Fingerprint(c)]}

\* _optimized_signal_validation: candidates whose strategy is not active are rejected,
\* clear ones pass, known ones reuse their verdict unless it has expired; the
\* others are put to Qwen up to the capacity, and what is deferred or not answered,
\* readable and complete is rejected. The lists keep the order of the candidates.
ValidateOptimised ==
    /\ node = "validate" /\ way = "optimised" /\ agents
    /\ \E alive \in SUBSET DOMAIN verdicts : \E misses \in Askable(alive) :
       \E items \in Replies(misses), failed \in BOOLEAN :
        LET ok == ~failed /\ misses # {} /\ Strict(items, misses)
        IN
        /\ misses = {} \/ failed => items = <<>>
        /\ misses = {} => ~failed
        /\ verdicts' = IF ok THEN Over(Reviewed(items, misses), Unexpired(alive)) ELSE Unexpired(alive)
        /\ heard' = IF failed THEN heard ELSE Hear(items, misses)
        /\ asked' = asked \union {batch[c] : c \in misses}
        /\ errors' = IF misses # {} /\ ~ok THEN errors \union {"review"} ELSE errors
    /\ Accept([validated |-> Listed(Granted(verdicts')), rejected |-> Listed(Reviewable \ Granted(verdicts'))])
    /\ UNCHANGED <<mode, batch, left, active, regime, invocation, stopped>>

\* risk_compliance_node judges every validated signal, one that is listed twice both
\* times.
Comply ==
    /\ node = "comply" /\ node' = "return"
    /\ \E safe \in SUBSET left :
        LET passed == {i \in DOMAIN lists.validated : lists.validated[i] \in safe}
        IN lists' = [lists EXCEPT
                !.approved = Extract(lists.validated, passed),
                !.risk = Extract(lists.validated, DOMAIN lists.validated \ passed)]
    /\ UNCHANGED <<mode, batch, left, active, errors, regime, kept, testimony, stopped>>

\* The end of run_trading_cycle: what the gate dropped is put in front again.
ReturnLists ==
    /\ node = "return" /\ node' = "end"
    /\ lists' = [lists EXCEPT !.risk = lists.gate \o @]
    /\ UNCHANGED <<mode, batch, left, active, errors, regime, kept, testimony, stopped>>

\* create_initial_state: the next invocation starts from nothing; the cache of verdicts is all
\* that is left of this one.
Again ==
    /\ node \in {"end", "raised"} /\ invocation < MaxRounds
    /\ invocation' = invocation + 1 /\ node' = "enter"
    /\ \E ids \in (SUBSET Ids) \ {{}} : left' = ids /\ batch' \in [ids -> Kinds]
    /\ lists' = NoLists /\ errors' = {} /\ active' = {} /\ regime' = "unknown"
    /\ asked' = {} /\ stopped' = FALSE
    /\ heard' = Restrict(heard, DOMAIN heard \intersect DOMAIN verdicts)
    /\ UNCHANGED <<mode, verdicts>>

AStartsAt(first) ==
    /\ way \in Ways /\ agents \in BOOLEAN /\ node = first /\ invocation = 1
    /\ \E ids \in SUBSET Ids :
        /\ left = ids /\ batch \in [ids -> Kinds]
        /\ first = "enter" <=> ids # {}
    /\ lists = NoLists /\ errors = {} /\ active = {} /\ regime = "unknown"
    /\ verdicts = <<>> /\ heard = <<>> /\ asked = {} /\ stopped = FALSE

AInit == AStartsAt("enter")

ANext ==
    \/ EnterGraph \/ Gate \/ SupportAgents \/ Regime \/ Select \/ ValidateByRules \/ ValidateBatch
    \/ ValidateOptimised \/ Comply \/ ReturnLists \/ Again

ASpec == AInit /\ [][ANext]_aVars
-----------------------------------------------------------------------------
(* Properties.                                                             *)

Approved == Range(lists.approved)
Screened == Range(lists.risk) \union Range(lists.dropped)

\* What an approval rests on: never on a candidate that the registry did not let
\* through; with agents either on the last answer about this very candidate in
\* this regime, which said nothing else of it in the strict schema, or on a rule, and
\* then the errors say fallback, which is all that keeps the runtime from
\* entering the trade. An item about a stranger, a missing item, an odd word or a
\* second opinion approves nothing.
Warranted(c) ==
    LET f == Fingerprint(c)
        words == IF f \in DOMAIN heard THEN heard[f] ELSE {}
    IN /\ batch[c].registry = "ALLOW"
       /\ \/ "fallback" \in errors
          \/ way = "optimised" /\ (batch[c].clear \/ words = {"approve"})
          \/ way = "batch" /\ "approve" \in words

Grounded == \A c \in Approved : Warranted(c)

\* No candidate gets lost: unless the graph stopped at the regime each is approved,
\* rejected or screened out, and with the optimisation exactly one of these, once.
Accounted ==
    ~stopped =>
        /\ Present = Approved \union Range(lists.rejected) \union Screened
        /\ way = "optimised" =>
            /\ Approved \intersect (Range(lists.rejected) \union Screened) = {}
            /\ Range(lists.rejected) \intersect Screened = {}
            /\ IsInjective(lists.approved) /\ IsInjective(lists.rejected)

\* An invocation ends with answers that were heeded (signal_validation.py:535, "never
\* become an approval"; policy.py, "Missing/malformed reviews are absent and fail
\* closed"), and no candidate of a strategy that may not trade was shown to a
\* reviewer (pre_llm.py, "they never consume Qwen capacity").
AnswersAreHeeded ==
    node = "end" => /\ Grounded
                    /\ Accounted
                    /\ \A k \in asked : k.registry = "ALLOW"
=============================================================================
