---------------------------- MODULE ReviewProofs ----------------------------
(***************************************************************************)
(* What holds of the scan that finds candidates, of their review, and of   *)
(* the gateway its models are called through, for every value of the       *)
(* constants.                                                              *)
(*                                                                         *)
(* An entry rests on what the reviewers said (EntriesWereCleared): the     *)
(* invariant follows a candidate from the answer of Qwen, over the verdicts*)
(* that are kept, to the risk stage, and an outage from the context it     *)
(* spoils to the error that empties the batch.  The day loses no more than *)
(* its limit (DayLossBounded): what is realised and what every open stop   *)
(* may still lose is one account, and a sum over a finite set is the number*)
(* of its units.                                                           *)
(*                                                                         *)
(* The circuit breaker (BreakerIsTrue): the counts that its methods read,  *)
(* write and judge without a lock lose failures, but never invent one and  *)
(* never miss a threshold.                                                 *)
(*                                                                         *)
(* The scalp scan (SetupsAreSound): between its stages the symbol in hand  *)
(* has an origin that counted and a frame that allows the entry, the       *)
(* zigzag finds every ceiling above the price, and the counters are the    *)
(* sums of the statuses but for the symbol in hand.                        *)
(***************************************************************************)
EXTENDS CandidateReview, LlmGateway, ScalpScan, FiniteSetTheorems, WellFoundedInduction, NaturalsInduction, TLAPS

Stages == {"rest", "budget", "context", "context again", "gate", "regime", "select",
           "validate", "risk", "enter"}
Contexts == [usable : BOOLEAN, errors : BOOLEAN, sure : Confidence, poor : BOOLEAN]
Days == [entries : Nat, pnl : Int]
Cycles ==
    [at : Stages, horizon : Horizons, todo : SUBSET Candidates, later : SUBSET Candidates,
     model : Models \cup {"none"}, context : Contexts, sure : Confidence, errors : BOOLEAN,
     misled : BOOLEAN, snapshot : SUBSET Candidates, day : Days, sanctioned : SUBSET Strategies]

ReviewTypes ==
    /\ optimised \in BOOLEAN /\ budget \in BOOLEAN /\ gapped \in BOOLEAN
    /\ registry \subseteq Strategies
    /\ slot \in Contexts
    /\ verdicts \in [DOMAIN verdicts -> BOOLEAN]
    /\ book \subseteq Candidates /\ IsFiniteSet(book)
    /\ daily \in Days
    /\ cycle \in Cycles

\* Only an outage makes a context poor, and it carries its error.
Honest(context) == context.poor => context.usable /\ context.errors
ContextInv ==
    /\ Honest(slot) /\ Honest(cycle.context)
    /\ cycle.at \in {"regime", "select", "validate", "risk", "enter"} => ~cycle.context.poor

\* A review that was misled knows of an error.
MisledInv ==
    /\ cycle.at \in {"select", "validate", "risk"} /\ cycle.misled => cycle.errors
    /\ At("enter") /\ cycle.misled => cycle.todo = {}

\* The verdicts that are kept approve what was said of the same material.
VerdictInv ==
    /\ \A m \in DOMAIN verdicts : verdicts[m] => m \in said
    /\ optimised \/ DOMAIN verdicts = {}

\* What the review left of the candidates.
Cleared(c) ==
    \/ optimised /\ ~NeedsReview(c, cycle.sure, cycle.model)
    \/ Material(c, cycle) \in said
ClearedInv ==
    /\ At("risk") => cycle.errors \/ \A c \in cycle.todo : Cleared(c)
    /\ At("enter") => \A c \in cycle.todo : Cleared(c) /\ c.strategy \in cycle.sanctioned
    /\ opened # {} => At("enter")

ReviewInv == ReviewTypes /\ ContextInv /\ MisledInv /\ VerdictInv /\ ClearedInv /\ EntriesWereCleared

StageMoves == UseContext \/ MakeContext \/ ContextFails \/ Budget \/ Gate \/ Regime \/ Select

\* The cycle between two cycles, and what is left of one when its batch has ended.
LEMMA RestIs == Rest \in Cycles /\ Rest.at = "rest" /\ Rest.context = NoContext
  <1>1. NoContext \in Contexts /\ [entries |-> 0, pnl |-> 0] \in Days
    BY DEF NoContext, Contexts, Confidence, Days
  <1> QED BY <1>1 DEF Rest, Cycles, Stages, Horizons, Confidence

\* A cycle that goes on keeps its context.
LEMMA OnwardIs ==
    ASSUME ReviewTypes, ContextInv, NEW c \in Cycles, c.context = cycle.context
    PROVE  /\ Onward(c) \in Cycles
           /\ Onward(c).at \in {"rest", "context"}
           /\ Honest(Onward(c).context)
  <1>1. CASE c.horizon = "SCALP" /\ c.later # {}
    <2>1. Onward(c) = [c EXCEPT !.at = "context", !.horizon = "SWING", !.todo = c.later, !.later = {},
                                !.sure = "clear", !.errors = FALSE, !.misled = FALSE]
      BY <1>1 DEF Onward
    <2> QED BY <2>1 DEF Cycles, Stages, Horizons, Confidence, ContextInv
  <1>2. CASE ~(c.horizon = "SCALP" /\ c.later # {})
    BY <1>2, RestIs DEF Onward, Honest, NoContext
  <1> QED BY <1>1, <1>2

\* A new candle: the verdicts that are kept go on, or all of them are out of reach.
LEMMA ScanStep ==
    ASSUME ReviewInv, Scan
    PROVE  ReviewInv'
  <1>1. At("rest") /\ opened = {}
    BY DEF Scan, ReviewInv, ClearedInv, At
  <1>2. PICK setups \in (SUBSET Candidates) \ {{}}, model \in Models, new \in BOOLEAN :
        LET qualified == Qualified(setups, model)
            scalps == ScalpAdmitted(qualified)
            swings == Admitted(qualified)
        IN
        /\ verdicts' = IF new THEN <<>> ELSE verdicts
        /\ said' = said \intersect DOMAIN verdicts'
        /\ cycle' = [Rest EXCEPT !.at = IF scalps # {} THEN "budget" ELSE "context",
                                 !.horizon = IF scalps # {} THEN "SCALP" ELSE "SWING",
                                 !.todo = IF scalps # {} THEN scalps ELSE swings,
                                 !.later = IF scalps # {} THEN swings ELSE {},
                                 !.model = model]
    BY DEF Scan
  <1> DEFINE scalps == ScalpAdmitted(Qualified(setups, model))
             swings == Admitted(Qualified(setups, model))
  <1>3. scalps \subseteq Candidates /\ swings \subseteq Candidates
    BY DEF ScalpAdmitted, Admitted, Qualified, Of
  <1> HIDE DEF scalps, swings
  <1>4. cycle' = [Rest EXCEPT !.at = IF scalps # {} THEN "budget" ELSE "context",
                                 !.horizon = IF scalps # {} THEN "SCALP" ELSE "SWING",
                                 !.todo = IF scalps # {} THEN scalps ELSE swings,
                                 !.later = IF scalps # {} THEN swings ELSE {},
                                 !.model = model]
    BY <1>2 DEF scalps, swings
  <1>5. cycle' \in Cycles /\ cycle'.at \in {"budget", "context"} /\ cycle'.context = NoContext
    <2>1. Rest \in Cycles /\ Rest.context = NoContext
      BY RestIs
    <2> HIDE DEF Rest
    <2> QED BY <1>3, <1>4, <2>1 DEF Cycles, Stages, Horizons
  <1>6. UNCHANGED <<optimised, registry, budget, account, slot, opened, failed, faulty>>
    BY DEF Scan
  <1>7. verdicts' \in [DOMAIN verdicts' -> BOOLEAN]
    <2>1. CASE new
      BY <1>2, <2>1
    <2>2. CASE ~new
      BY <1>2, <2>2 DEF ReviewInv, ReviewTypes
    <2> QED BY <2>1, <2>2
  <1>8. ReviewTypes'
    BY <1>5, <1>6, <1>7 DEF ReviewInv, ReviewTypes, account, faulty
  <1>9. VerdictInv'
    <2>1. CASE new
      BY <1>2, <1>6, <2>1 DEF VerdictInv
    <2>2. CASE ~new
      BY <1>2, <1>6, <2>2 DEF ReviewInv, VerdictInv
    <2> QED BY <2>1, <2>2
  <1>10. ContextInv' /\ MisledInv' /\ ClearedInv' /\ EntriesWereCleared'
    BY <1>1, <1>5, <1>6 DEF ReviewInv, ContextInv, MisledInv, ClearedInv, EntriesWereCleared, At, Honest, NoContext
  <1> QED BY <1>8, <1>9, <1>10 DEF ReviewInv

\* A step before the review: the candidates are still candidates.
LEMMA EarlyStep ==
    ASSUME ReviewInv, ReviewTypes', cycle'.at \notin {"risk", "enter"}, cycle.at # "enter",
           ContextInv', MisledInv', UNCHANGED <<optimised, verdicts, said, opened>>
    PROVE  ReviewInv'
  BY DEF ReviewInv, VerdictInv, ClearedInv, EntriesWereCleared, At

\* The stages before the review.
LEMMA StageStep ==
    ASSUME ReviewInv, StageMoves
    PROVE  ReviewInv'
  <1> USE DEF ReviewInv
  <1>1. cycle \in Cycles /\ slot \in Contexts /\ registry \subseteq Strategies /\ book \subseteq Candidates
        /\ daily \in Days /\ budget \in BOOLEAN
    BY DEF ReviewTypes
  <1>2. CASE UseContext
    <2>1. cycle' \in Cycles /\ cycle'.at \in {"budget", "gate"} /\ Honest(cycle'.context) /\ cycle.at # "enter"
      BY <1>1, <1>2 DEF UseContext, AfterContext, At, Cycles, Stages, ContextInv
    <2>2. ReviewTypes' /\ ContextInv' /\ MisledInv'
      BY <1>2, <2>1 DEF UseContext, ReviewTypes, ContextInv, MisledInv, At, account, answers, faulty
    <2> QED BY <1>2, <2>1, <2>2, EarlyStep DEF UseContext, answers, aux
  <1>3. CASE MakeContext
    <2>1. /\ slot' \in Contexts /\ Honest(slot') /\ cycle' \in Cycles /\ cycle'.at \in {"budget", "gate"}
          /\ cycle'.context = slot' /\ gapped' \in BOOLEAN /\ cycle.at # "enter"
      <3>1. slot' \in Contexts /\ Honest(slot') /\ gapped' \in BOOLEAN
        <4>1. PICK sure \in Confidence, down \in BOOLEAN :
                 /\ IF down THEN sure = "unsure" /\ Fault("outage") ELSE UNCHANGED faulty
                 /\ slot' = [usable |-> TRUE, errors |-> down, sure |-> sure, poor |-> down]
          BY <1>3 DEF MakeContext
        <4>2. gapped' \in BOOLEAN
          BY <4>1 DEF Fault, ReviewTypes, faulty
        <4> QED BY <4>1, <4>2 DEF Contexts, Honest
      <3>2. cycle' = [cycle EXCEPT !.at = AfterContext, !.context = slot'] /\ cycle.at # "enter"
        BY <1>3 DEF MakeContext, At
      <3> QED BY <1>1, <3>1, <3>2 DEF AfterContext, Cycles, Stages
    <2>2. ReviewTypes' /\ ContextInv' /\ MisledInv'
      BY <1>3, <2>1 DEF MakeContext, ReviewTypes, ContextInv, MisledInv, At, account
    <2> QED BY <1>3, <2>1, <2>2, EarlyStep DEF MakeContext, aux
  <1>4. CASE ContextFails
    <2>1. /\ cycle' \in Cycles /\ cycle'.at \in {"budget", "gate"} /\ cycle'.context = cycle.context
          /\ gapped' \in BOOLEAN /\ cycle.at # "enter"
      BY <1>1, <1>4 DEF ContextFails, AfterContext, At, Cycles, Stages, Fault, ReviewTypes
    <2>2. ReviewTypes' /\ ContextInv' /\ MisledInv'
      BY <1>4, <2>1 DEF ContextFails, ReviewTypes, ContextInv, MisledInv, At, account, answers
    <2> QED BY <1>4, <2>1, <2>2, EarlyStep DEF ContextFails, aux, answers
  <1>5. CASE Budget
    <2>1. /\ cycle' \in Cycles /\ cycle'.at \in {"rest", "context", "context again"}
          /\ Honest(cycle'.context) /\ cycle.at = "budget"
      <3>1. [Snapshot(cycle) EXCEPT !.at = "context again"] \in Cycles
            /\ [Snapshot(cycle) EXCEPT !.at = "context again"].context = cycle.context
            /\ [Snapshot(cycle) EXCEPT !.at = "context again"].at = "context again"
        BY <1>1 DEF Snapshot, Cycles, Stages
      <3> QED BY <1>1, <1>5, <3>1, OnwardIs DEF Budget, At, ContextInv
    <2>2. ReviewTypes' /\ ContextInv' /\ MisledInv'
      BY <1>5, <2>1 DEF Budget, ReviewTypes, ContextInv, MisledInv, At, account, faulty
    <2> QED BY <1>5, <2>1, <2>2, EarlyStep DEF Budget, aux
  <1>6. CASE Gate
    <2>1. /\ cycle' \in Cycles /\ cycle'.at \in {"rest", "context", "regime"}
          /\ Honest(cycle'.context) /\ cycle.at = "gate"
          /\ cycle'.at = "regime" => ~cycle'.context.poor
      <3> DEFINE passed == {c \in cycle.todo : c.strategy \in registry /\ RiskChecks(c, cycle.snapshot, cycle.day)}
      <3>1. passed \subseteq Candidates
        BY <1>1 DEF Cycles
      <3>2. \/ cycle' = Onward(cycle)
            \/ cycle' = [cycle EXCEPT !.at = "regime", !.todo = passed] /\ ~cycle.context.errors
            \/ cycle' = [cycle EXCEPT !.at = "regime"] /\ ~cycle.context.usable
        BY <1>6 DEF Gate
      <3> HIDE DEF passed
      <3>3. cycle' = Onward(cycle) => cycle' \in Cycles /\ cycle'.at \in {"rest", "context"} /\ Honest(cycle'.context)
        BY <1>1, OnwardIs
      <3> QED BY <1>1, <1>6, <3>1, <3>2, <3>3 DEF Gate, At, ContextInv, Honest, Cycles, Stages
    <2>2. ReviewTypes' /\ ContextInv' /\ MisledInv'
      BY <1>6, <2>1 DEF Gate, ReviewTypes, ContextInv, MisledInv, At, account, answers, faulty
    <2> QED BY <1>6, <2>1, <2>2, EarlyStep DEF Gate, answers
  <1>7. CASE Regime
    <2>0. PICK sure \in Confidence, down \in BOOLEAN :
           /\ IF cycle.context.usable THEN ~down /\ UNCHANGED faulty
              ELSE IF down THEN sure = "unsure" /\ Fault("outage") ELSE UNCHANGED faulty
           /\ \/ cycle' = Onward(cycle)
              \/ cycle' = [cycle EXCEPT !.at = "select", !.sure = sure, !.errors = down,
                                       !.misled = down \/ cycle.context.poor]
      BY <1>7 DEF Regime
    <2>1. /\ cycle' \in Cycles /\ cycle'.at \in {"rest", "context", "select"}
          /\ Honest(cycle'.context) /\ cycle.at = "regime"
          /\ cycle'.at = "select" => ~cycle'.context.poor /\ (cycle'.misled => cycle'.errors)
      <3>1. cycle' = Onward(cycle) => cycle' \in Cycles /\ cycle'.at \in {"rest", "context"} /\ Honest(cycle'.context)
        BY <1>1, OnwardIs
      <3>2. cycle \in Cycles /\ cycle.at = "regime" /\ Honest(cycle.context) /\ ~cycle.context.poor
        BY <1>1, <1>7 DEF Regime, At, ContextInv
      <3>3. CASE cycle' = Onward(cycle)
        BY <3>1, <3>2, <3>3
      <3>4. CASE cycle' = [cycle EXCEPT !.at = "select", !.sure = sure, !.errors = down,
                                        !.misled = down \/ cycle.context.poor]
        BY <3>2, <3>4 DEF Cycles, Stages
      <3> QED BY <2>0, <3>3, <3>4
    <2>2. gapped' \in BOOLEAN
      BY <2>0 DEF Fault, faulty, ReviewTypes
    <2>3. ReviewTypes' /\ ContextInv' /\ MisledInv'
      BY <1>7, <2>1, <2>2 DEF Regime, ReviewTypes, ContextInv, MisledInv, At, account, answers
    <2> QED BY <1>7, <2>1, <2>3, EarlyStep DEF Regime, answers, aux
  <1>8. CASE Select
    <2>1. /\ cycle' \in Cycles /\ cycle'.at = "validate" /\ cycle'.context = cycle.context
          /\ gapped' \in BOOLEAN /\ cycle.at = "select" /\ (cycle'.misled => cycle'.errors)
      BY <1>1, <1>8 DEF Select, At, Cycles, Stages, Fault, faulty, ReviewTypes, MisledInv
    <2>2. ReviewTypes' /\ ContextInv' /\ MisledInv'
      BY <1>8, <2>1 DEF Select, ReviewTypes, ContextInv, MisledInv, At, account, answers
    <2> QED BY <1>8, <2>1, <2>2, EarlyStep DEF Select, aux, answers
  <1> QED BY <1>2, <1>3, <1>4, <1>5, <1>6, <1>7, <1>8 DEF StageMoves

\* What an answer leaves in the cache is a verdict on each, and nothing is approved
\* that was not said.
LEMMA KeepIs ==
    ASSUME ReviewTypes, VerdictInv, NEW alive \in SUBSET DOMAIN verdicts, NEW asked,
           NEW approves \in SUBSET asked
    PROVE  /\ Keep(alive, asked, approves) \in [alive \union asked -> BOOLEAN]
           /\ DOMAIN Keep(alive, asked, approves) = alive \union asked
           /\ \A m \in alive \union asked :
                 Keep(alive, asked, approves)[m] => m \in (said \ asked) \union approves
  <1>1. \A m \in alive : verdicts[m] \in BOOLEAN /\ (verdicts[m] => m \in said)
    BY DEF ReviewTypes, VerdictInv
  <1>2. \A m \in alive \union asked : (IF m \in asked THEN m \in approves ELSE verdicts[m]) \in BOOLEAN
    <2>1. \A m \in asked : (m \in approves) \in BOOLEAN
      OBVIOUS
    <2> QED BY <1>1, <2>1
  <1>3. \A m \in alive \union asked :
          (IF m \in asked THEN m \in approves ELSE verdicts[m]) => m \in (said \ asked) \union approves
    BY <1>1
  <1> QED BY <1>2, <1>3 DEF Keep

\* The optimised review: what is left is clear, known and approved, or approved now. An
\* answer about some candidates takes back nothing that was said of the others, as
\* their materials differ.
LEMMA ReviewOptimisedStep ==
    ASSUME ReviewInv, ReviewOptimised
    PROVE  ReviewInv'
  <1>1. PICK alive \in SUBSET DOMAIN verdicts :
            \E misses \in kSubset(Least(MaxReviews, Cardinality(Queue \ Known(alive))), Queue \ Known(alive)) :
            \E yes \in SUBSET misses, down \in BOOLEAN :
               /\ IF down THEN Fault("outage") ELSE UNCHANGED faulty
               /\ QwenAnswers(alive, misses, yes, misses # {} /\ (budget \/ down))
    BY DEF ReviewOptimised
  <1>2. PICK misses \in SUBSET (Queue \ Known(alive)) :
            \E yes \in SUBSET misses, down \in BOOLEAN :
               /\ IF down THEN Fault("outage") ELSE UNCHANGED faulty
               /\ QwenAnswers(alive, misses, yes, misses # {} /\ (budget \/ down))
    BY <1>1 DEF kSubset
  <1>3. PICK yes \in SUBSET misses, down \in BOOLEAN :
               /\ IF down THEN Fault("outage") ELSE UNCHANGED faulty
               /\ QwenAnswers(alive, misses, yes, misses # {} /\ (budget \/ down))
    BY <1>2
  <1> DEFINE mat(c) == Material(c, cycle)
             clear == cycle.todo \ Queue
             hits == Hits(alive)
             lost == misses # {} /\ (budget \/ down)
             asked == {mat(c) : c \in misses}
             approves == {mat(c) : c \in yes}
             validated == IF lost THEN clear \union hits ELSE clear \union hits \union yes
  <1>4. /\ verdicts' = IF lost THEN Restrict(verdicts, alive) ELSE Keep(alive, asked, approves)
        /\ said' = IF lost THEN said ELSE (said \ asked) \union approves
        /\ cycle' = [cycle EXCEPT !.at = "risk", !.todo = validated]
        /\ IF down THEN Fault("outage") ELSE UNCHANGED faulty
    <2>1. CASE lost
      BY <1>3, <2>1 DEF QwenAnswers, Unanswered
    <2>2. CASE ~lost
      BY <1>3, <2>2 DEF QwenAnswers
    <2> QED BY <2>1, <2>2
  <1>5. /\ At("validate") /\ optimised /\ cycle \in Cycles /\ cycle.todo \subseteq Candidates
        /\ UNCHANGED <<optimised, registry, budget, account, slot, opened>>
    BY DEF ReviewOptimised, ReviewInv, ReviewTypes, Cycles
  <1>6. \A c, d : mat(c) = mat(d) => c = d
    BY DEF Material
  <1>7. /\ \A c \in clear : c \in cycle.todo /\ ~NeedsReview(c, cycle.sure, cycle.model)
        /\ \A c \in hits : c \in cycle.todo /\ mat(c) \in said /\ mat(c) \notin asked
        /\ \A c \in yes : c \in cycle.todo /\ mat(c) \in approves
        /\ approves \subseteq asked
    <2>1. \A c \in hits : c \in Queue /\ mat(c) \in alive /\ verdicts[mat(c)]
      BY DEF Hits, Known
    <2>2. \A c \in hits : mat(c) \in said
      BY <2>1 DEF ReviewInv, VerdictInv
    <2>3. \A c \in hits : mat(c) \notin asked
      BY <1>6 DEF Hits, Known
    <2> QED BY <2>1, <2>2, <2>3 DEF Queue
  <1>8. validated \subseteq cycle.todo
    BY <1>7
  <1>9. \A c \in validated : ~NeedsReview(c, cycle.sure, cycle.model) \/ mat(c) \in said'
    <2>1. CASE lost
      BY <1>4, <1>7, <2>1
    <2>2. CASE ~lost
      BY <1>4, <1>7, <2>2
    <2> QED BY <2>1, <2>2
  <1>10. verdicts' \in [DOMAIN verdicts' -> BOOLEAN] /\ VerdictInv'
    <2>1. ReviewTypes /\ VerdictInv
      BY DEF ReviewInv
    <2> HIDE DEF asked, approves
    <2>2. CASE lost
      <3>1. verdicts' = [m \in alive |-> verdicts[m]] /\ said' = said
        BY <1>4, <2>2 DEF Restrict
      <3> QED BY <1>5, <2>1, <3>1 DEF ReviewTypes, VerdictInv
    <2>3. CASE ~lost
      <3>1. verdicts' = Keep(alive, asked, approves) /\ said' = (said \ asked) \union approves
        BY <1>4, <2>3
      <3>2. approves \in SUBSET asked
        BY <1>7
      <3>3. /\ verdicts' \in [alive \union asked -> BOOLEAN] /\ DOMAIN verdicts' = alive \union asked
            /\ \A m \in alive \union asked : verdicts'[m] => m \in said'
        BY <2>1, <3>1, <3>2, KeepIs
      <3> QED BY <1>5, <3>3 DEF VerdictInv
    <2> QED BY <2>2, <2>3
  <1>11. gapped' \in BOOLEAN
    BY <1>4 DEF ReviewInv, ReviewTypes, Fault, faulty
  <1>12. cycle' \in Cycles /\ cycle'.at = "risk" /\ cycle'.todo = validated
         /\ \A c : Material(c, cycle') = mat(c)
         /\ cycle'.context = cycle.context /\ cycle'.errors = cycle.errors /\ cycle'.misled = cycle.misled
         /\ cycle'.sure = cycle.sure /\ cycle'.model = cycle.model
    <2> HIDE DEF validated
    <2> QED BY <1>4, <1>5, <1>8 DEF Cycles, Stages, Material
  <1> HIDE DEF validated, mat
  <1>13. ReviewTypes'
    BY <1>5, <1>10, <1>11, <1>12 DEF ReviewInv, ReviewTypes, account
  <1>14. ContextInv' /\ MisledInv'
    BY <1>5, <1>12 DEF ReviewInv, ContextInv, MisledInv, At
  <1>15. ClearedInv' /\ EntriesWereCleared'
    BY <1>5, <1>9, <1>12 DEF ReviewInv, ClearedInv, Cleared, At, EntriesWereCleared
  <1> QED BY <1>10, <1>13, <1>14, <1>15 DEF ReviewInv

\* The batch review: what is left was approved, or the fallback left an error.
LEMMA ReviewBatchStep ==
    ASSUME ReviewInv, ReviewBatch
    PROVE  ReviewInv'
  <1>1. PICK yes \in SUBSET cycle.todo, down \in BOOLEAN :
           /\ IF down THEN Fault("outage") ELSE UNCHANGED faulty
           /\ said' = IF down THEN said
                      ELSE (said \ {Material(c, cycle) : c \in cycle.todo})
                           \union {Material(c, cycle) : c \in yes}
           /\ cycle' = [cycle EXCEPT !.at = "risk", !.todo = yes, !.errors = @ \/ down,
                                     !.misled = @ \/ down]
    BY DEF ReviewBatch
  <1>2. /\ At("validate") /\ cycle \in Cycles /\ opened = {}
        /\ UNCHANGED <<optimised, registry, budget, account, slot, verdicts, opened>>
    BY DEF ReviewBatch, ReviewInv, ReviewTypes, ClearedInv, At
  <1>3. gapped' \in BOOLEAN
    BY <1>1 DEF ReviewInv, ReviewTypes, Fault, faulty
  <1>4. cycle' \in Cycles /\ cycle'.at = "risk" /\ cycle'.todo = yes
         /\ \A c : Material(c, cycle') = Material(c, cycle)
         /\ cycle'.context = cycle.context /\ cycle'.errors = (cycle.errors \/ down)
         /\ cycle'.misled = (cycle.misled \/ down)
    BY <1>1, <1>2 DEF Cycles, Stages, Material
  <1>5. ReviewTypes' /\ ContextInv' /\ MisledInv'
    BY <1>2, <1>3, <1>4 DEF ReviewInv, ReviewTypes, account, ContextInv, MisledInv, At
  <1>6. \A c \in yes : down \/ Material(c, cycle) \in said'
    BY <1>1
  <1>7. ClearedInv' /\ EntriesWereCleared'
    BY <1>2, <1>4, <1>6 DEF ClearedInv, Cleared, At, EntriesWereCleared
  <1>8. VerdictInv'
    BY <1>2 DEF ReviewInv, VerdictInv, ReviewBatch
  <1> QED BY <1>5, <1>7, <1>8 DEF ReviewInv

\* The risk stage: a batch with an error loses all its candidates, the others lose those
\* whose strategy is no longer eligible.
LEMMA ComplyStep ==
    ASSUME ReviewInv, Comply
    PROVE  ReviewInv'
  <1> DEFINE approved == {c \in cycle.todo : RiskChecks(c, cycle.snapshot, cycle.day) /\ Sanction(c)}
             staying == IF Degraded(cycle) \/ Halted(cycle) THEN {} ELSE approved
  <1>1. /\ At("risk") /\ cycle \in Cycles /\ opened = {} /\ registry \subseteq Strategies
        /\ cycle' = [cycle EXCEPT !.at = "enter", !.todo = staying,
                                  !.context = IF cycle.later = {} THEN NoContext ELSE @,
                                  !.snapshot = {}, !.day = Rest.day, !.sanctioned = registry]
        /\ UNCHANGED <<optimised, registry, budget, account, answers, aux, faulty>>
    BY DEF Comply, ReviewInv, ReviewTypes, ClearedInv, At
  <1>2. /\ staying \subseteq cycle.todo
        /\ \A c \in staying : ~cycle.errors /\ c.strategy \in registry
    BY DEF Degraded, Sanction
  <1> HIDE DEF staying
  <1>3. NoContext \in Contexts /\ Rest.day \in Days
    BY DEF NoContext, Contexts, Confidence, Days, Rest
  <1>4. /\ cycle' \in Cycles /\ cycle'.at = "enter" /\ cycle'.todo = staying /\ cycle'.sanctioned = registry
        /\ cycle'.context \in {NoContext, cycle.context} /\ cycle'.misled = cycle.misled
        /\ cycle'.sure = cycle.sure /\ cycle'.model = cycle.model
        /\ \A c : Material(c, cycle') = Material(c, cycle)
    BY <1>1, <1>2, <1>3 DEF Cycles, Stages, Material
  <1>5. ReviewTypes'
    BY <1>1, <1>4 DEF ReviewInv, ReviewTypes, account, answers, faulty
  <1>6. ContextInv'
    <2>1. Honest(cycle.context) /\ ~cycle.context.poor /\ Honest(slot) /\ slot' = slot
      BY <1>1 DEF ReviewInv, ContextInv, At, answers
    <2>2. Honest(NoContext) /\ ~NoContext.poor
      BY DEF Honest, NoContext
    <2> HIDE DEF NoContext
    <2> QED BY <1>4, <2>1, <2>2 DEF ContextInv
  <1>7. MisledInv'
    <2>1. cycle.misled => staying = {}
      BY <1>1, <1>2 DEF ReviewInv, MisledInv, At
    <2> QED BY <1>4, <2>1 DEF MisledInv, At
  <1>8. VerdictInv'
    BY <1>1 DEF ReviewInv, VerdictInv, answers, aux
  <1>9. ClearedInv' /\ EntriesWereCleared'
    BY <1>1, <1>2, <1>4 DEF ReviewInv, ClearedInv, Cleared, At, EntriesWereCleared, aux
  <1> QED BY <1>5, <1>6, <1>7, <1>8, <1>9 DEF ReviewInv

\* What is entered was cleared: nothing has changed since the risk stage.
LEMMA EnterStep ==
    ASSUME ReviewInv, Enter
    PROVE  ReviewInv'
  <1>1. PICK c \in cycle.todo, quoted \in BOOLEAN :
        /\ cycle' = [cycle EXCEPT !.todo = @ \ {c}]
        /\ IF quoted /\ FinalRisk(c, book, daily)
           THEN Write(c)
           ELSE UNCHANGED <<book, daily, opened>>
    BY DEF Enter
  <1>2. /\ At("enter") /\ cycle \in Cycles /\ cycle.todo \subseteq Candidates
        /\ UNCHANGED <<optimised, registry, budget, answers, said, failed, faulty>>
    BY DEF Enter, ReviewInv, ReviewTypes, Cycles
  <1>3. /\ cycle' \in Cycles /\ cycle'.at = "enter" /\ cycle'.todo = cycle.todo \ {c}
        /\ cycle'.sanctioned = cycle.sanctioned
        /\ cycle'.context = cycle.context /\ cycle'.misled = cycle.misled
        /\ cycle'.sure = cycle.sure /\ cycle'.model = cycle.model
        /\ \A d : Material(d, cycle') = Material(d, cycle)
    BY <1>1, <1>2 DEF Cycles, Material, At
  <1>4. book' \subseteq Candidates /\ IsFiniteSet(book') /\ daily' \in Days
    BY <1>1, <1>2, FS_AddElement DEF Write, ReviewInv, ReviewTypes, Days
  <1>5. ReviewTypes' /\ ContextInv' /\ MisledInv'
    BY <1>2, <1>3, <1>4 DEF ReviewInv, ReviewTypes, answers, faulty, ContextInv, MisledInv, At
  <1>6. VerdictInv'
    BY <1>2 DEF ReviewInv, VerdictInv, answers
  <1>7. ClearedInv'
    BY <1>2, <1>3 DEF ReviewInv, ClearedInv, Cleared, At
  <1>8. EntriesWereCleared'
    <2>1. ~cycle.misled /\ Cleared(c) /\ c.strategy \in cycle.sanctioned
      BY <1>1, <1>2 DEF ReviewInv, MisledInv, ClearedInv, At
    <2>2. CASE opened' = opened
      BY <1>2, <2>2 DEF ReviewInv, EntriesWereCleared
    <2>3. CASE opened' = {[candidate |-> c, material |-> Material(c, cycle), misled |-> cycle.misled,
                           eligible |-> c.strategy \in cycle.sanctioned]}
      <3> DEFINE e0 == [candidate |-> c, material |-> Material(c, cycle), misled |-> cycle.misled,
                        eligible |-> c.strategy \in cycle.sanctioned]
      <3>0. /\ e0.candidate = c /\ e0.material = Material(c, cycle) /\ e0.misled = cycle.misled
            /\ e0.eligible = (c.strategy \in cycle.sanctioned)
        OBVIOUS
      <3>1. \A e \in opened' : /\ e.candidate = c /\ e.material = Material(c, cycle) /\ ~e.misled
                                /\ e.eligible
        <4> HIDE DEF e0
        <4> QED BY <2>1, <2>3, <3>0, Zenon DEF e0
      <3>2. Material(c, cycle).sure = cycle.sure /\ Material(c, cycle).model = cycle.model
        BY DEF Material
      <3>3. optimised' = optimised /\ said' = said
        BY <1>2
      <3> HIDE DEF Material
      <3> QED BY <2>1, <3>1, <3>2, <3>3 DEF EntriesWereCleared, Cleared
    <2> QED BY <1>1, <2>2, <2>3 DEF Write
  <1> QED BY <1>5, <1>6, <1>7, <1>8 DEF ReviewInv

\* The end of a batch.
LEMMA DoneStep ==
    ASSUME ReviewInv, Done
    PROVE  ReviewInv'
  <1>1. /\ At("enter") /\ cycle \in Cycles /\ cycle' = Onward(cycle) /\ opened' = {}
        /\ said' = said \intersect DOMAIN verdicts
        /\ UNCHANGED <<optimised, registry, budget, account, answers, failed, faulty>>
    BY DEF Done, ReviewInv, ReviewTypes
  <1>2. cycle' \in Cycles /\ cycle'.at \in {"rest", "context"} /\ Honest(cycle'.context)
    BY <1>1, OnwardIs DEF ReviewInv
  <1>3. ReviewTypes' /\ ContextInv' /\ MisledInv'
    BY <1>1, <1>2 DEF ReviewInv, ReviewTypes, account, answers, faulty, ContextInv, MisledInv, At
  <1>4. VerdictInv'
    BY <1>1 DEF ReviewInv, VerdictInv, answers
  <1>5. ClearedInv' /\ EntriesWereCleared'
    BY <1>1, <1>2 DEF ClearedInv, At, EntriesWereCleared
  <1> QED BY <1>3, <1>4, <1>5 DEF ReviewInv

\* What happens around a cycle leaves it and what was said alone.
LEMMA AroundStep ==
    ASSUME ReviewInv, Sell \/ NewDay \/ Overspend \/ Withdraw \/ ContextExpires
    PROVE  ReviewInv'
  <1>1. UNCHANGED <<optimised, verdicts, cycle, said, opened>>
    BY DEF Sell, NewDay, Overspend, Withdraw, ContextExpires, answers, aux, vars
  <1>2. slot' \in {slot, NoContext} /\ registry' \subseteq registry
    BY DEF Sell, NewDay, Overspend, Withdraw, ContextExpires, answers
  <1>3. budget' \in BOOLEAN /\ gapped' \in BOOLEAN
    BY DEF Sell, NewDay, Overspend, Withdraw, ContextExpires, Fault, faulty, ReviewInv, ReviewTypes
  <1>4. book' \subseteq book /\ daily' \in Days
    <2>1. CASE Sell
      <3>1. PICK c \in book, result \in {"stop", "gain", "gap"} :
               /\ book' = book \ {c}
               /\ daily' = [daily EXCEPT !.pnl = @ + CASE result = "stop" -> -c.risk
                                                       [] result = "gain" -> c.risk
                                                       [] OTHER -> -(c.risk + 1)]
        BY <2>1 DEF Sell
      <3>2. c.risk \in Nat
        BY ReviewAssumption DEF ReviewInv, ReviewTypes
      <3> QED BY <3>1, <3>2 DEF ReviewInv, ReviewTypes, Days
    <2>2. CASE NewDay
      BY <2>2 DEF NewDay, Days
    <2>3. CASE Overspend \/ Withdraw \/ ContextExpires
      BY <2>3 DEF Overspend, Withdraw, ContextExpires, account, ReviewInv, ReviewTypes
    <2> QED BY <2>1, <2>2, <2>3
  <1>5. NoContext \in Contexts /\ Honest(NoContext)
    BY DEF NoContext, Contexts, Confidence, Honest
  <1>6. ReviewTypes'
    BY <1>1, <1>2, <1>3, <1>4, <1>5, FS_Subset DEF ReviewInv, ReviewTypes
  <1>7. ContextInv' /\ MisledInv' /\ VerdictInv' /\ ClearedInv' /\ EntriesWereCleared'
    BY <1>1, <1>2, <1>5
    DEF ReviewInv, ContextInv, MisledInv, VerdictInv, ClearedInv, EntriesWereCleared, Cleared, At
  <1> QED BY <1>6, <1>7 DEF ReviewInv

\* Nothing is kept and nothing entered at the start.
LEMMA ReviewInit == Init => ReviewInv
  <1> SUFFICES ASSUME Init PROVE ReviewInv
    OBVIOUS
  <1>1. Rest \in Cycles /\ Rest.at = "rest" /\ Rest.context = NoContext
    BY RestIs
  <1>2. NoContext \in Contexts /\ Honest(NoContext)
    BY DEF NoContext, Contexts, Confidence, Honest
  <1>3. IsFiniteSet({}) /\ [entries |-> 0, pnl |-> 0] \in Days
    BY FS_EmptySet DEF Days
  <1>4. optimised \in BOOLEAN
    BY ReviewAssumption DEF Init
  <1>5. ReviewTypes
    <2>1. verdicts \in [DOMAIN verdicts -> BOOLEAN]
      BY DEF Init
    <2> QED BY <1>1, <1>2, <1>3, <1>4, <2>1 DEF Init, ReviewTypes
  <1>6. ContextInv /\ MisledInv /\ ClearedInv /\ EntriesWereCleared
    BY <1>1, <1>2 DEF Init, ContextInv, MisledInv, ClearedInv, EntriesWereCleared, At
  <1>7. VerdictInv
    BY DEF Init, VerdictInv
  <1> QED BY <1>5, <1>6, <1>7 DEF ReviewInv

\* Each step of the cycle, and each around it.
LEMMA ReviewStep == ReviewInv /\ [Next]_vars => ReviewInv'
  <1> SUFFICES ASSUME ReviewInv, [Next]_vars PROVE ReviewInv'
    OBVIOUS
  <1>1. CASE UNCHANGED vars
    BY <1>1 DEF vars, account, answers, aux, faulty, ReviewInv, ReviewTypes, ContextInv, MisledInv,
         VerdictInv, ClearedInv, EntriesWereCleared, Cleared, At
  <1>2. CASE StageMoves
    BY <1>2, StageStep
  <1> QED BY <1>1, <1>2, ScanStep, ReviewOptimisedStep, ReviewBatchStep, ComplyStep, EnterStep, DoneStep,
          AroundStep DEF Next, Work, StageMoves

\* The inductive invariant of the review, from the context over the verdicts to the entry.
THEOREM ReviewInvHolds == Spec => []ReviewInv
  BY ReviewInit, ReviewStep, PTL DEF Spec

\* Every entry rests on what the reviewers really said: no reviewer it relied on was
\* down, its strategy was eligible when the risk stage ran, and Qwen approved this
\* candidate in this context unless there was nothing to review, for any candidates, any
\* number of reviews per call and any faults.
THEOREM EntriesWereClearedHolds == Spec => []EntriesWereCleared
  <1>1. ReviewInv => EntriesWereCleared
    BY DEF ReviewInv
  <1> QED BY <1>1, ReviewInvHolds, PTL
-----------------------------------------------------------------------------
(* The risk of a book, in units: a sum over a finite set is the number of  *)
(* its units, which the theorems on cardinalities can count.               *)

UnitsOf(c) == {c} \X (1..c.risk)
Units(cs) == UNION {UnitsOf(c) : c \in cs}

\* A candidate has as many units as it risks.
LEMMA UnitsOfOne ==
    ASSUME NEW c, c.risk \in Nat
    PROVE  IsFiniteSet(UnitsOf(c)) /\ Cardinality(UnitsOf(c)) = c.risk
  <1>1. IsFiniteSet(1..c.risk) /\ Cardinality(1..c.risk) = c.risk
    BY FS_Interval
  <1>2. IsFiniteSet({c}) /\ Cardinality({c}) = 1
    BY FS_Singleton
  <1> QED BY <1>1, <1>2, FS_Product DEF UnitsOf

\* One candidate more adds its own units.
LEMMA UnitsAdd ==
    ASSUME NEW T, IsFiniteSet(T), \A c \in T : c.risk \in Nat, NEW x \in T
    PROVE  /\ IsFiniteSet(Units(T)) /\ IsFiniteSet(Units(T \ {x}))
           /\ Cardinality(Units(T)) = x.risk + Cardinality(Units(T \ {x}))
  <1>1. ASSUME NEW U \in SUBSET T
        PROVE  IsFiniteSet(Units(U))
    <2>1. IsFiniteSet(U)
      BY FS_Subset
    <2>2. \A c \in U : IsFiniteSet(UnitsOf(c))
      BY UnitsOfOne
    <2> DEFINE f == [c \in U |-> UnitsOf(c)]
    <2>3. f \in Surjection(U, {UnitsOf(c) : c \in U})
      BY DEF Surjection
    <2>4. IsFiniteSet({UnitsOf(c) : c \in U})
      BY <2>1, <2>3, FS_Surjection
    <2> QED BY <2>2, <2>4, FS_UNION DEF Units
  <1>2. Units(T) = Units(T \ {x}) \union UnitsOf(x)
    BY DEF Units
  <1>3. Units(T \ {x}) \intersect UnitsOf(x) = {}
    BY DEF Units, UnitsOf
  <1>4. IsFiniteSet(Units(T)) /\ IsFiniteSet(Units(T \ {x}))
    BY <1>1
  <1>5. IsFiniteSet(UnitsOf(x)) /\ Cardinality(UnitsOf(x)) = x.risk
    BY UnitsOfOne
  <1>6. Cardinality(Units(T)) = Cardinality(Units(T \ {x})) + Cardinality(UnitsOf(x)) - 0
    <2>1. Cardinality(Units(T \ {x}) \intersect UnitsOf(x)) = 0
      BY <1>3, FS_EmptySet
    <2> QED BY <2>1, <1>2, <1>4, <1>5, FS_Union
  <1>7. Cardinality(Units(T \ {x})) \in Nat
    BY <1>4, FS_CardinalityType
  <1> QED BY <1>4, <1>5, <1>6, <1>7

\* What the sum is defined by: g adds up the risks of every subset of S, one
\* chosen candidate at a time.
Adds(g, S) ==
    g = [s \in SUBSET S |-> IF s = {} THEN 0
                            ELSE LET x == CHOOSE x \in s : TRUE IN x.risk + g[s \ {x}]]

\* Counting units adds up risks ...
LEMMA CountingAdds ==
    ASSUME NEW S, IsFiniteSet(S), \A c \in S : c.risk \in Nat
    PROVE  Adds([s \in SUBSET S |-> Cardinality(Units(s))], S)
  <1> DEFINE g == [s \in SUBSET S |-> Cardinality(Units(s))]
  <1>1. ASSUME NEW s \in SUBSET S
        PROVE  g[s] = IF s = {} THEN 0
                      ELSE LET x == CHOOSE x \in s : TRUE IN x.risk + g[s \ {x}]
    <2>1. CASE s = {}
      <3>1. Units({}) = {}
        BY DEF Units
      <3> QED BY <2>1, <3>1, FS_EmptySet
    <2>2. CASE s # {}
      <3> DEFINE x == CHOOSE x \in s : TRUE
      <3>1. x \in s
        BY <2>2
      <3>2. IsFiniteSet(s)
        BY FS_Subset
      <3> HIDE DEF x
      <3>3. g[s] = x.risk + g[s \ {x}]
        BY <3>1, <3>2, UnitsAdd
      <3> QED BY <2>2, <3>3 DEF x
    <2> QED BY <2>1, <2>2
  <1> HIDE DEF g
  <1>2. DOMAIN g = SUBSET S /\ g = [s \in SUBSET S |-> g[s]]
    BY DEF g
  <1>3. [s \in SUBSET S |-> g[s]] =
            [s \in SUBSET S |-> IF s = {} THEN 0
                                ELSE LET x == CHOOSE x \in s : TRUE IN x.risk + g[s \ {x}]]
    BY <1>1, Zenon
  <1>4. Adds(g, S)
    BY <1>2, <1>3 DEF Adds
  <1> QED BY <1>4 DEF g

\* ... and whatever adds up the risks counts the units: there is no smallest subset where
\* the two differ.
LEMMA AddingCounts ==
    ASSUME NEW S, IsFiniteSet(S), \A c \in S : c.risk \in Nat, NEW g, Adds(g, S)
    PROVE  g[S] = Cardinality(Units(S))
  <1> DEFINE Bad == {s \in SUBSET S : g[s] # Cardinality(Units(s))}
  <1>1. IsWellFoundedOn(StrictSubsetOrdering(S), SUBSET S)
    BY FS_StrictSubsetOrderingWellFounded, FS_FiniteSubsetsOfFinite
  <1>2. Bad = {}
    <2> SUFFICES ASSUME Bad # {} PROVE FALSE
      OBVIOUS
    <2>1. PICK s \in Bad : \A t \in Bad : <<t, s>> \notin StrictSubsetOrdering(S)
      <3>1. Bad \subseteq SUBSET S
        OBVIOUS
      <3> HIDE DEF Bad
      <3> QED BY <1>1, <3>1, WFMin
    <2>2. g[s] = IF s = {} THEN 0 ELSE LET x == CHOOSE x \in s : TRUE IN x.risk + g[s \ {x}]
      BY DEF Adds
    <2>3. s # {}
      <3>1. Units({}) = {}
        BY DEF Units
      <3> QED BY <2>2, <3>1, FS_EmptySet
    <2> DEFINE x == CHOOSE x \in s : TRUE
    <2>4. x \in s
      BY <2>3
    <2>5. g[s] = x.risk + g[s \ {x}]
      BY <2>2, <2>3
    <2> HIDE DEF x
    <2>6. s \ {x} \notin Bad
      <3>1. <<s \ {x}, s>> \in StrictSubsetOrdering(S)
        BY <2>4 DEF StrictSubsetOrdering
      <3> QED BY <3>1, <2>1
    <2>7. g[s \ {x}] = Cardinality(Units(s \ {x}))
      BY <2>6
    <2>8. IsFiniteSet(s)
      BY FS_Subset
    <2> QED BY <2>4, <2>5, <2>7, <2>8, UnitsAdd
  <1> QED BY <1>2

\* The risk of a set of candidates is the number of its units.
LEMMA RiskCounts ==
    ASSUME NEW S, IsFiniteSet(S), \A c \in S : c.risk \in Nat
    PROVE  Risk(S) = Cardinality(Units(S))
  <1>1. \E g : Adds(g, S)
    BY CountingAdds
  <1>2. Risk(S) = (CHOOSE g : Adds(g, S))[S]
    BY DEF Risk, MapThenSumSet, MapThenFoldSet, Adds
  <1>3. Adds((CHOOSE g : Adds(g, S)), S)
    BY <1>1
  <1> QED BY <1>2, <1>3, AddingCounts

\* What the stages rely on: the risk of a book is a number, an empty one has none, and
\* a position adds and takes away its own.
LEMMA RiskOfOneMore ==
    ASSUME NEW T, IsFiniteSet(T), \A c \in T : c.risk \in Nat
    PROVE  /\ Risk(T) \in Nat
           /\ T = {} => Risk(T) = 0
           /\ \A x \in T : Risk(T) = x.risk + Risk(T \ {x})
  <1>1. Risk(T) = Cardinality(Units(T))
    BY RiskCounts
  <1>2. CASE T = {}
    <2>1. Units(T) = {}
      BY <1>2 DEF Units
    <2> QED BY <1>1, <1>2, <2>1, FS_EmptySet
  <1>3. CASE T # {}
    <2>1. IsFiniteSet(Units(T))
      BY <1>3, UnitsAdd
    <2>2. ASSUME NEW x \in T
          PROVE  Risk(T) = x.risk + Risk(T \ {x})
      <3>1. IsFiniteSet(T \ {x})
        BY FS_Subset
      <3>2. Risk(T \ {x}) = Cardinality(Units(T \ {x}))
        BY <3>1, RiskCounts
      <3> QED BY <1>1, <3>2, UnitsAdd
    <2> QED BY <1>1, <1>3, <2>1, <2>2, FS_CardinalityType
  <1> QED BY <1>2, <1>3
-----------------------------------------------------------------------------
(* The loss of a day. The sum of what the stops may lose stays within the  *)
(* limit even after a gap, so that the next day starts within it; what is  *)
(* realised and still open does so until a gap.                            *)

LossInv ==
    /\ Risk(book) <= LossLimit
    /\ Risk(book) <= MaxTotalRisk
    /\ Cardinality(book) <= MaxPositions
    /\ \A c, d \in book : c.symbol = d.symbol => c = d
    /\ ~gapped => Risk(book) - daily.pnl <= LossLimit

\* The numbers of the account.
LEMMA BookIs ==
    ASSUME ReviewTypes
    PROVE  /\ IsFiniteSet(book) /\ \A c \in book : c.risk \in Nat
           /\ Risk(book) \in Nat /\ Cardinality(book) \in Nat /\ daily.pnl \in Int
           /\ LossLimit \in Nat /\ MaxTotalRisk \in Nat /\ MaxPositions \in Nat
  <1>1. IsFiniteSet(book) /\ (\A c \in book : c.risk \in Nat) /\ daily.pnl \in Int
    BY ReviewAssumption DEF ReviewTypes, Days
  <1>2. LossLimit \in Nat /\ MaxTotalRisk \in Nat /\ MaxPositions \in Nat
    BY ReviewAssumption
  <1> QED BY <1>1, <1>2, RiskOfOneMore, FS_CardinalityType

\* An entry: the last look at the book adds the risk of the candidate to what the
\* book may lose, and the symbol is not in it.
LEMMA EnterLoss ==
    ASSUME ReviewTypes, LossInv, Enter
    PROVE  LossInv'
  <1>1. PICK c \in cycle.todo :
            \/ FinalRisk(c, book, daily) /\ Write(c)
            \/ UNCHANGED <<book, daily>>
    BY DEF Enter
  <1>2. gapped' = gapped
    BY DEF Enter, faulty
  <1>3. CASE UNCHANGED <<book, daily>>
    BY <1>2, <1>3 DEF LossInv
  <1>4. CASE FinalRisk(c, book, daily) /\ Write(c)
    <2>1. c.risk \in Nat
      BY ReviewAssumption DEF ReviewTypes, Cycles
    <2>2. c \notin book /\ \A d \in book : d.symbol # c.symbol
      BY <1>4 DEF FinalRisk, Symbols
    <2>3. book' = book \union {c} /\ daily'.pnl = daily.pnl
      BY <1>4 DEF Write, ReviewTypes, Days
    <2>4. /\ IsFiniteSet(book') /\ Cardinality(book') = Cardinality(book) + 1
      BY <2>2, <2>3, BookIs, FS_AddElement
    <2>5. Risk(book') = c.risk + Risk(book)
      <3>1. \A d \in book' : d.risk \in Nat
        BY <2>1, <2>3, BookIs
      <3>2. book' \ {c} = book /\ c \in book'
        BY <2>2, <2>3
      <3> QED BY <2>4, <3>1, <3>2, RiskOfOneMore
    <2>6. /\ Cardinality(book) < MaxPositions
          /\ Risk(book) + c.risk <= MaxTotalRisk
          /\ Risk(book) + c.risk <= LossLimit + Least(0, daily.pnl)
      BY <1>4 DEF FinalRisk
    <2>7. /\ Risk(book') <= LossLimit /\ Risk(book') <= MaxTotalRisk
          /\ Risk(book') - daily'.pnl <= LossLimit
          /\ Cardinality(book') <= MaxPositions
      BY <2>1, <2>3, <2>4, <2>5, <2>6, BookIs DEF Least
    <2>8. \A p, q \in book' : p.symbol = q.symbol => p = q
      BY <2>2, <2>3 DEF LossInv
    <2> QED BY <2>7, <2>8 DEF LossInv
  <1> QED BY <1>1, <1>3, <1>4

\* A sale: at its stop a position realises no more than the risk it takes with it.
LEMMA SellLoss ==
    ASSUME ReviewTypes, LossInv, Sell
    PROVE  LossInv'
  <1>1. PICK c \in book, result \in {"stop", "gain", "gap"} :
            /\ IF result = "gap" THEN Fault("gap") ELSE UNCHANGED faulty
            /\ book' = book \ {c}
            /\ daily' = [daily EXCEPT !.pnl = @ + CASE result = "stop" -> -c.risk
                                                    [] result = "gain" -> c.risk
                                                    [] OTHER -> -(c.risk + 1)]
    BY DEF Sell
  <1>2. c.risk \in Nat
    BY BookIs
  <1>3. Risk(book) = c.risk + Risk(book') /\ Risk(book') \in Nat
    <2>1. IsFiniteSet(book') /\ \A d \in book' : d.risk \in Nat
      BY <1>1, BookIs, FS_Subset
    <2> QED BY <1>1, <2>1, BookIs, RiskOfOneMore
  <1>4. Cardinality(book') = Cardinality(book) - 1
    BY <1>1, BookIs, FS_RemoveElement
  <1>5. /\ Risk(book') <= LossLimit /\ Risk(book') <= MaxTotalRisk
        /\ Cardinality(book') <= MaxPositions
        /\ \A p, q \in book' : p.symbol = q.symbol => p = q
    BY <1>1, <1>2, <1>3, <1>4, BookIs DEF LossInv
  <1>6. CASE result = "gap"
    BY <1>1, <1>5, <1>6 DEF Fault, LossInv
  <1>7. CASE result # "gap"
    <2>1. gapped' = gapped
      BY <1>1, <1>7 DEF faulty
    <2>2. daily'.pnl = daily.pnl - c.risk \/ daily'.pnl = daily.pnl + c.risk
      BY <1>1, <1>2, <1>7, BookIs DEF ReviewTypes, Days
    <2>3. ~gapped => Risk(book') - daily'.pnl <= LossLimit
      BY <1>2, <1>3, <2>2, BookIs DEF LossInv
    <2> QED BY <1>5, <2>1, <2>3 DEF LossInv
  <1> QED BY <1>6, <1>7

\* Every other step leaves the book and the day alone or starts a new day.
LEMMA LossStep == ReviewTypes /\ LossInv /\ [Next]_vars => LossInv'
  <1> SUFFICES ASSUME ReviewTypes, LossInv, [Next]_vars PROVE LossInv'
    OBVIOUS
  <1>1. CASE NewDay
    <2>1. book' = book /\ gapped' = gapped /\ daily'.pnl = 0
      BY <1>1 DEF NewDay, faulty
    <2>2. Risk(book) - 0 <= LossLimit
      BY BookIs DEF LossInv
    <2> QED BY <2>1, <2>2 DEF LossInv
  <1>2. CASE UNCHANGED account /\ (gapped => gapped')
    BY <1>2 DEF LossInv, account
  <1>3. ASSUME Scan \/ StageMoves \/ ReviewOptimised \/ ReviewBatch \/ Comply \/ Done \/ Overspend
               \/ Withdraw \/ ContextExpires \/ UNCHANGED vars
        PROVE  UNCHANGED account /\ (gapped => gapped')
    <2>1. \A kind : UNCHANGED faulty \/ Fault(kind) => (gapped => gapped')
      BY DEF faulty, Fault
    <2> HIDE DEF Fault
    <2>2. CASE ReviewOptimised
      <3>1. \E down \in BOOLEAN : IF down THEN Fault("outage") ELSE UNCHANGED faulty
        BY <2>2 DEF ReviewOptimised
      <3> QED BY <2>1, <2>2, <3>1 DEF ReviewOptimised
    <2>3. CASE UseContext \/ MakeContext \/ ContextFails
      BY <2>1, <2>3 DEF UseContext, MakeContext, ContextFails, faulty
    <2>4. CASE Budget \/ Gate \/ Comply \/ Done
      <3>1. UNCHANGED <<account, faulty>>
        BY <2>4 DEF Budget, Gate, Comply, Done
      <3> QED BY <2>1, <3>1
    <2>5. CASE Regime \/ Select \/ ReviewBatch
      BY <2>1, <2>5 DEF Regime, Select, ReviewBatch, faulty
    <2>6. CASE Scan \/ Overspend \/ Withdraw \/ ContextExpires \/ UNCHANGED vars
      BY <2>1, <2>6 DEF Scan, Overspend, Withdraw, ContextExpires, vars, faulty
    <2> QED BY <1>3, <2>2, <2>3, <2>4, <2>5, <2>6 DEF StageMoves
  <1> QED BY <1>1, <1>2, <1>3, EnterLoss, SellLoss DEF Next, Work, StageMoves

\* An empty book risks nothing.
LEMMA LossInit == Init => LossInv
  <1> SUFFICES ASSUME Init PROVE LossInv
    OBVIOUS
  <1>1. book = {} /\ daily.pnl = 0
    BY DEF Init
  <1>2. Risk({}) = 0 /\ Cardinality({}) = 0
    BY RiskOfOneMore, FS_EmptySet
  <1>3. LossLimit \in Nat /\ MaxTotalRisk \in Nat /\ MaxPositions \in Nat
    BY ReviewAssumption
  <1> QED BY <1>1, <1>2, <1>3 DEF LossInv

\* The day's loss stays within its limit, whatever the reviews, the entries, the sales
\* and the faults, until a position is sold below its stop: PaperRiskReservations
\* decides on the book as it is and on every open stop.
THEOREM DayLossBoundedHolds == Spec => []DayLossBounded
  <1>1. LossInv => DayLossBounded
    BY DEF LossInv, DayLossBounded
  <1>2. ReviewInv => ReviewTypes
    BY DEF ReviewInv
  <1>3. Init => LossInv
    BY LossInit
  <1>4. ReviewTypes /\ LossInv /\ [Next]_vars => LossInv'
    BY LossStep
  <1> QED BY <1>1, <1>2, <1>3, <1>4, ReviewInvHolds, PTL DEF Spec
-----------------------------------------------------------------------------
(* The circuit breaker of the gateway.                                     *)

CallRecords == [at : CallStages, model : {PrimaryModel, FallbackModel}, n : Nat]

\* Where no thread takes a rate limit for a failure: the news analyst goes
\* through invoke_with_fallback (llm_cost_optimization_enabled), or its model has
\* no quota to use up.
QuotaApart == Analysts = {} \/ FallbackModel \notin Exhaustible

\* Threads whose failure has happened and has not reached the count.
Pending == {c \in Agents : call[c].at \in {"failed", "counted"}}

\* As long as the provider failed less often than the threshold, each failure on
\* its way to the count is one that happened, also when the count a thread has
\* read has been overtaken since.
CountInv ==
    genuine < FailureThreshold =>
        /\ state = "CLOSED"
        /\ IsFiniteSet(Pending)
        /\ failures + Cardinality(Pending) <= genuine
        /\ \A c \in Agents : call[c].at = "counted" => call[c].n + Cardinality(Pending) <= genuine

BreakerInv == GatewayTypes /\ ThresholdNoticed /\ CountInv

-----------------------------------------------------------------------------
(* Counting.                                                               *)

\* A saturated count.
LEMMA PlusIs ==
    ASSUME NEW count \in Nat, NEW limit \in Nat
    PROVE  Plus(count, limit) = IF count + 1 <= limit THEN count + 1 ELSE limit
  <1> DEFINE S == {count + 1, limit}
             m == IF count + 1 <= limit THEN count + 1 ELSE limit
  <1>1. m \in S /\ \A y \in S : m <= y
    OBVIOUS
  <1>2. \A x \in S : (\A y \in S : x <= y) => x = m
    OBVIOUS
  <1>3. Min(S) = CHOOSE x \in S : \A y \in S : x <= y
    BY DEF Min
  <1> HIDE DEF S, m
  <1>4. Min(S) = m
    BY <1>1, <1>2, <1>3
  <1> QED
    BY <1>4 DEF Plus, S, m

\* A thread leaves the threads that are pending, or joins them.
LEMMA PendingMoves ==
    ASSUME NEW c \in Agents, \A d \in Agents \ {c} : call'[d] = call[d]
    PROVE  /\ call'[c].at \in {"failed", "counted"} => Pending' = Pending \cup {c}
           /\ call'[c].at \notin {"failed", "counted"} => Pending' = Pending \ {c}
  BY DEF Pending

\* How many are pending after a step of c.
LEMMA PendingCounts ==
    ASSUME NEW c \in Agents, \A d \in Agents \ {c} : call'[d] = call[d], IsFiniteSet(Pending)
    PROVE  /\ IsFiniteSet(Pending') /\ Cardinality(Pending) \in Nat /\ Cardinality(Pending') \in Nat
           /\ Cardinality(Pending') = Cardinality(Pending)
                 + (IF call'[c].at \in {"failed", "counted"} THEN 1 ELSE 0)
                 - (IF call[c].at \in {"failed", "counted"} THEN 1 ELSE 0)
  <1>1. Cardinality(Pending) \in Nat
    BY FS_CardinalityType
  <1>2. /\ IsFiniteSet(Pending \cup {c})
        /\ Cardinality(Pending \cup {c}) = IF c \in Pending THEN Cardinality(Pending)
                                           ELSE Cardinality(Pending) + 1
    BY FS_AddElement
  <1>3. /\ IsFiniteSet(Pending \ {c})
        /\ Cardinality(Pending \ {c}) = IF c \in Pending THEN Cardinality(Pending) - 1
                                        ELSE Cardinality(Pending)
    BY FS_RemoveElement
  <1>4. c \in Pending <=> call[c].at \in {"failed", "counted"}
    BY DEF Pending
  <1>5. Cardinality(Pending \cup {c}) \in Nat /\ Cardinality(Pending \ {c}) \in Nat
    BY <1>2, <1>3, FS_CardinalityType
  <1>6. CASE call'[c].at \in {"failed", "counted"}
    <2>1. Pending' = Pending \cup {c}
      BY <1>6, PendingMoves
    <2> QED
      BY <1>1, <1>2, <1>4, <1>5, <1>6, <2>1
  <1>7. CASE call'[c].at \notin {"failed", "counted"}
    <2>1. Pending' = Pending \ {c}
      BY <1>7, PendingMoves
    <2> QED
      BY <1>1, <1>3, <1>4, <1>5, <1>7, <2>1
  <1> QED
    BY <1>6, <1>7

-----------------------------------------------------------------------------
(* Types.                                                                  *)

\* What a turn of c does to the threads: c alone moves.
LEMMA TurnMoves ==
    ASSUME GatewayTypes, NEW c \in Agents, Turn(c)
    PROVE  \E f \in CallRecords :
              /\ call' = [call EXCEPT ![c] = f]
              /\ c \in Analysts /\ f.at # "idle" => f.model = FallbackModel
  <1>1. /\ call \in [Agents -> CallRecords] /\ call[c] \in CallRecords /\ failures \in Nat /\ successes \in Nat
        /\ c \in Analysts /\ call[c].at # "idle" => call[c].model = FallbackModel
    BY DEF GatewayTypes, CallRecords
  <1> DEFINE moved(step, model, n) == [at |-> step, model |-> model, n |-> n]
  <1>2. ASSUME NEW step \in CallStages, NEW model \in {PrimaryModel, FallbackModel}, NEW n \in Nat,
               call' = [call EXCEPT ![c] = moved(step, model, n)],
               c \in Analysts /\ step # "idle" => model = FallbackModel
        PROVE  \E f \in CallRecords :
                  /\ call' = [call EXCEPT ![c] = f]
                  /\ c \in Analysts /\ f.at # "idle" => f.model = FallbackModel
    <2>1. moved(step, model, n) \in CallRecords
      BY DEF CallRecords
    <2> QED
      BY <1>2, <2>1
  <1>3. call[c] = moved(call[c].at, call[c].model, call[c].n)
    BY <1>1 DEF CallRecords
  <1>4. /\ call[c].at \in CallStages /\ call[c].model \in {PrimaryModel, FallbackModel} /\ call[c].n \in Nat
        /\ NoCall = moved("idle", PrimaryModel, 0)
    BY <1>1 DEF CallRecords, NoCall
  <1> HIDE DEF moved
  <1>5. CASE UNCHANGED call
    <2>1. call' = [call EXCEPT ![c] = moved(call[c].at, call[c].model, call[c].n)]
      BY <1>1, <1>3, <1>5
    <2> QED
      BY <1>1, <1>2, <1>4, <2>1
  <1>6. CASE Return(c)
    BY <1>2, <1>4, <1>6 DEF Return, CallStages
  <1>7. ASSUME NEW step \in CallStages \ {"idle"}, Goto(c, step), call[c].at # "idle"
        PROVE  \E f \in CallRecords :
                  /\ call' = [call EXCEPT ![c] = f]
                  /\ c \in Analysts /\ f.at # "idle" => f.model = FallbackModel
    <2>1. [call[c] EXCEPT !.at = step] = moved(step, call[c].model, call[c].n)
      BY <1>1 DEF CallRecords, moved
    <2>2. call' = [call EXCEPT ![c] = moved(step, call[c].model, call[c].n)]
      BY <1>1, <1>7, <2>1 DEF Goto
    <2> QED
      BY <1>1, <1>2, <1>4, <1>7, <2>2
  <1>8. ASSUME NEW step \in CallStages \ {"idle"}, NEW n \in Nat, call[c].at # "idle",
               call' = [call EXCEPT ![c].at = step, ![c].n = n]
        PROVE  \E f \in CallRecords :
                  /\ call' = [call EXCEPT ![c] = f]
                  /\ c \in Analysts /\ f.at # "idle" => f.model = FallbackModel
    <2> DEFINE f == [call[c] EXCEPT !.at = step, !.n = n]
    <2>1. call' = [call EXCEPT ![c] = f]
      BY <1>1, <1>8
    <2>2. f \in CallRecords /\ f.model = call[c].model
      BY <1>1, <1>8 DEF CallRecords
    <2> HIDE DEF f
    <2> QED
      BY <1>1, <1>8, <2>1, <2>2
  <1>9. CASE NextModel(c)
    <2>1. CASE c \notin Analysts /\ call[c].model = PrimaryModel
      <3>1. call' = [call EXCEPT ![c] = moved("calling", FallbackModel, 0)]
        BY <1>9, <2>1 DEF NextModel, NoCall, moved
      <3> QED
        BY <1>2, <2>1, <3>1 DEF CallStages
    <2> QED
      BY <1>6, <1>9, <2>1 DEF NextModel
  <1>10. CASE AskGateway(c)
    <2>1. CASE call' = [call EXCEPT ![c].at = "admitted",
                                    ![c].model = IF c \in Analysts THEN FallbackModel ELSE PrimaryModel]
      <3> DEFINE model == IF c \in Analysts THEN FallbackModel ELSE PrimaryModel
      <3> HIDE DEF model
      <3> DEFINE f == [call[c] EXCEPT !.at = "admitted", !.model = model]
      <3>1. call' = [call EXCEPT ![c] = f]
        BY <1>1, <2>1 DEF model
      <3>2. model \in {PrimaryModel, FallbackModel} /\ (c \in Analysts => model = FallbackModel)
        BY DEF model
      <3>3. f \in CallRecords /\ f.model = model
        BY <1>1, <3>2 DEF CallRecords, CallStages
      <3> HIDE DEF f
      <3> QED
        BY <3>1, <3>2, <3>3
    <2> QED
      BY <1>5, <1>10, <2>1 DEF AskGateway
  <1>11. CASE Admit(c)
    BY <1>6, <1>7, <1>11 DEF Admit, CallStages
  <1>12. CASE Answered(c)
    BY <1>6, <1>7, <1>9, <1>12 DEF Answered, Works, RateLimited, Fails, OverBudget, CallStages
  <1>13. CASE Recording(c)
    <2>1. CASE ReadFailures(c)
      BY <1>1, <1>8, <2>1 DEF ReadFailures, CallStages
    <2>2. CASE WriteFailures(c)
      BY <1>8, <2>2 DEF WriteFailures, CallStages
    <2>3. CASE JudgeFailure(c)
      BY <1>9, <2>3 DEF JudgeFailure
    <2>4. CASE ClearFailures(c)
      BY <1>7, <2>4 DEF ClearFailures, CallStages
    <2>5. CASE ReadSuccesses(c)
      BY <1>1, <1>6, <1>8, <2>5 DEF ReadSuccesses, CallStages
    <2>6. CASE WriteSuccesses(c)
      BY <1>8, <2>6 DEF WriteSuccesses, CallStages
    <2>7. CASE JudgeSuccess(c)
      BY <1>6, <2>7 DEF JudgeSuccess
    <2> QED
      BY <1>13, <2>1, <2>2, <2>3, <2>4, <2>5, <2>6, <2>7 DEF Recording
  <1> QED
    BY <1>10, <1>11, <1>12, <1>13 DEF Turn

\* The counts stay below their thresholds, the state among its three values.
LEMMA CountsStep ==
    ASSUME GatewayTypes, [GNext]_gVars
    PROVE  /\ state' \in {"CLOSED", "OPEN", "HALF_OPEN"}
           /\ failures' \in 0..FailureThreshold /\ successes' \in 0..SuccessThreshold
           /\ genuine' \in 0..FailureThreshold
           /\ cooled' \in BOOLEAN /\ up' \in BOOLEAN /\ over' \in BOOLEAN
  <1>1. /\ FailureThreshold \in Nat /\ SuccessThreshold \in Nat /\ FailureThreshold >= 1 /\ SuccessThreshold >= 1
    BY GatewayAssumption
  <1>2. /\ state \in {"CLOSED", "OPEN", "HALF_OPEN"}
        /\ failures \in 0..FailureThreshold /\ successes \in 0..SuccessThreshold
        /\ genuine \in 0..FailureThreshold
        /\ cooled \in BOOLEAN /\ up \in BOOLEAN /\ over \in BOOLEAN
    BY DEF GatewayTypes
  <1>3. ASSUME NEW n \in Nat, NEW limit \in Nat
        PROVE  Plus(n, limit) \in 0..limit
    BY <1>3, PlusIs
  <1>4. ASSUME NEW c \in Agents
        PROVE  call[c].n \in Nat
    BY DEF GatewayTypes
  <1>5. CASE UNCHANGED gVars
    BY <1>2, <1>5 DEF gVars
  <1>6. CASE Cool \/ BudgetTurns \/ Provider
    BY <1>2, <1>6 DEF Cool, BudgetTurns, Provider, Breaker
  <1>7. ASSUME NEW c \in Agents, AskGateway(c) \/ Admit(c)
        PROVE  /\ state' \in {"CLOSED", "OPEN", "HALF_OPEN"} /\ successes' \in 0..SuccessThreshold
               /\ UNCHANGED <<failures, cooled, up, over, genuine>>
    BY <1>1, <1>2, <1>7 DEF AskGateway, Admit, Observe, Observed
  <1>8. ASSUME NEW c \in Agents, Answered(c)
        PROVE  UNCHANGED <<Breaker, up, over>> /\ genuine' \in 0..FailureThreshold
    <2>1. CASE Works(c) \/ RateLimited(c) \/ OverBudget(c)
      BY <1>2, <2>1 DEF Works, RateLimited, OverBudget
    <2>2. CASE Fails(c)
      BY <1>1, <1>2, <1>3, <2>2 DEF Fails
    <2> QED
      BY <1>8, <2>1, <2>2 DEF Answered
  <1>9. ASSUME NEW c \in Agents, ReadFailures(c) \/ ReadSuccesses(c)
        PROVE  UNCHANGED <<Breaker, up, over, genuine>>
    BY <1>9 DEF ReadFailures, ReadSuccesses
  <1>10. ASSUME NEW c \in Agents, WriteFailures(c)
         PROVE  /\ failures' \in 0..FailureThreshold /\ cooled' \in BOOLEAN
                /\ successes' \in 0..SuccessThreshold /\ UNCHANGED <<state, up, over, genuine>>
    <2>1. failures' \in 0..FailureThreshold
      BY <1>1, <1>3, <1>4, <1>10 DEF WriteFailures
    <2>2. cooled' = FALSE /\ successes' = 0 /\ UNCHANGED <<state, up, over, genuine>>
      BY <1>10 DEF WriteFailures
    <2>3. 0 \in 0..SuccessThreshold
      BY <1>1
    <2> QED
      BY <2>1, <2>2, <2>3
  <1>11. ASSUME NEW c \in Agents, WriteSuccesses(c)
         PROVE  successes' \in 0..SuccessThreshold /\ UNCHANGED <<state, failures, cooled, up, over, genuine>>
    BY <1>1, <1>3, <1>4, <1>11 DEF WriteSuccesses
  <1>12. ASSUME NEW c \in Agents, JudgeFailure(c) \/ JudgeSuccess(c) \/ ClearFailures(c)
         PROVE  /\ state' \in {state, "OPEN", "CLOSED"} /\ failures' \in {failures, 0}
                /\ UNCHANGED <<successes, cooled, up, over, genuine>>
    BY <1>12 DEF JudgeFailure, JudgeSuccess, ClearFailures
  <1>13. ASSUME NEW c \in Agents, Turn(c)
         PROVE  /\ state' \in {"CLOSED", "OPEN", "HALF_OPEN"}
                /\ failures' \in 0..FailureThreshold /\ successes' \in 0..SuccessThreshold
                /\ genuine' \in 0..FailureThreshold
                /\ cooled' \in BOOLEAN /\ up' \in BOOLEAN /\ over' \in BOOLEAN
    <2>1. CASE AskGateway(c) \/ Admit(c)
      BY <1>2, <1>7, <2>1
    <2>2. CASE Answered(c)
      BY <1>2, <1>8, <2>2 DEF Breaker
    <2>3. CASE ReadFailures(c) \/ ReadSuccesses(c)
      BY <1>2, <1>9, <2>3 DEF Breaker
    <2>4. CASE WriteFailures(c)
      BY <1>1, <1>2, <1>10, <2>4
    <2>5. CASE WriteSuccesses(c)
      BY <1>2, <1>11, <2>5
    <2>6. CASE JudgeFailure(c) \/ JudgeSuccess(c) \/ ClearFailures(c)
      BY <1>1, <1>2, <1>12, <2>6
    <2> QED
      BY <1>13, <2>1, <2>2, <2>3, <2>4, <2>5, <2>6 DEF Turn, Recording
  <1> QED
    BY <1>5, <1>6, <1>13 DEF GNext

\* Every step of the gateway keeps the types.
LEMMA TypesStep ==
    ASSUME GatewayTypes, [GNext]_gVars
    PROVE  GatewayTypes'
  <1>1. call \in [Agents -> CallRecords] /\ \A c \in Analysts : c \in Agents
    BY GatewayAssumption DEF GatewayTypes, CallRecords
  <1>2. CASE UNCHANGED call
    BY <1>2, CountsStep DEF GatewayTypes
  <1>3. ASSUME NEW c \in Agents, Turn(c)
        PROVE  /\ call' \in [Agents -> CallRecords]
               /\ \A d \in Analysts : call'[d].at # "idle" => call'[d].model = FallbackModel
    <2>1. PICK f \in CallRecords :
            /\ call' = [call EXCEPT ![c] = f]
            /\ c \in Analysts /\ f.at # "idle" => f.model = FallbackModel
      BY <1>3, TurnMoves
    <2> QED
      BY <1>1, <2>1 DEF GatewayTypes
  <1>4. UNCHANGED call \/ \E c \in Agents : Turn(c)
    BY DEF GNext, Cool, BudgetTurns, Provider, gVars
  <1> QED
    BY <1>2, <1>3, <1>4, CountsStep DEF GatewayTypes, CallRecords

-----------------------------------------------------------------------------
(* A threshold that is reached is noticed.                                 *)

\* A turn moves no other thread.
LEMMA OthersStay ==
    ASSUME GatewayTypes, NEW c \in Agents, Turn(c)
    PROVE  \A d \in Agents \ {c} : call'[d] = call[d]
  BY TurnMoves DEF GatewayTypes

\* The turns that neither write a count nor close the breaker.
LEMMA QuietTurn ==
    ASSUME GatewayTypes, NEW c \in Agents, Turn(c),
           ~WriteFailures(c), ~JudgeFailure(c), ~ClearFailures(c), ~JudgeSuccess(c)
    PROVE  failures' = failures /\ (state' = state \/ (state = "OPEN" /\ state' = "HALF_OPEN"))
  <1>1. CASE AskGateway(c) \/ Admit(c)
    BY <1>1 DEF AskGateway, Admit, Observe, Observed
  <1>2. CASE Answered(c)
    BY <1>2 DEF Answered, Works, RateLimited, Fails, OverBudget, Breaker
  <1>3. CASE ReadFailures(c) \/ ReadSuccesses(c) \/ WriteSuccesses(c)
    BY <1>3 DEF ReadFailures, ReadSuccesses, WriteSuccesses, Breaker
  <1> QED
    BY <1>1, <1>2, <1>3 DEF Turn, Recording

\* Every step notices the threshold.
LEMMA NoticedStep ==
    ASSUME GatewayTypes, ThresholdNoticed, [GNext]_gVars
    PROVE  ThresholdNoticed'
  <1>1. FailureThreshold \in Nat /\ FailureThreshold >= 1 /\ call \in [Agents -> CallRecords]
    BY GatewayAssumption DEF GatewayTypes, CallRecords
  <1> SUFFICES ASSUME state' = "CLOSED", failures' >= FailureThreshold
               PROVE  \E d \in Agents : call'[d].at = "judged"
    BY DEF ThresholdNoticed
  <1>2. CASE UNCHANGED <<state, failures, call>>
    BY <1>2 DEF ThresholdNoticed
  <1>3. ASSUME NEW c \in Agents, Turn(c)
        PROVE  \E d \in Agents : call'[d].at = "judged"
    <2>1. \A d \in Agents \ {c} : call'[d] = call[d]
      BY <1>3, OthersStay
    <2>2. CASE WriteFailures(c)
      <3>1. call'[c].at = "judged"
        BY <1>1, <2>2 DEF WriteFailures, CallRecords
      <3> QED
        BY <3>1
    <2>3. CASE JudgeFailure(c)
      BY <1>1, <2>3 DEF JudgeFailure
    <2>4. CASE ClearFailures(c)
      BY <1>1, <2>4 DEF ClearFailures
    <2>5. CASE JudgeSuccess(c)
      <3>1. UNCHANGED <<state, failures>>
        BY <1>1, <2>5 DEF JudgeSuccess
      <3>2. PICK d \in Agents : call[d].at = "judged"
        BY <3>1 DEF ThresholdNoticed
      <3>3. d # c
        BY <2>5, <3>2 DEF JudgeSuccess
      <3> QED
        BY <2>1, <3>2, <3>3
    <2>6. CASE ~WriteFailures(c) /\ ~JudgeFailure(c) /\ ~ClearFailures(c) /\ ~JudgeSuccess(c)
      <3>1. UNCHANGED <<state, failures>>
        BY <1>3, <2>6, QuietTurn
      <3>2. PICK d \in Agents : call[d].at = "judged"
        BY <3>1 DEF ThresholdNoticed
      <3>3. d # c
        <4>1. CASE AskGateway(c) \/ Admit(c)
          BY <3>2, <4>1 DEF AskGateway, Admit
        <4>2. CASE Answered(c)
          BY <3>2, <4>2 DEF Answered, Works, RateLimited, Fails, OverBudget
        <4>3. CASE ReadFailures(c) \/ ReadSuccesses(c) \/ WriteSuccesses(c)
          BY <3>2, <4>3 DEF ReadFailures, ReadSuccesses, WriteSuccesses
        <4> QED
          BY <1>3, <2>6, <4>1, <4>2, <4>3 DEF Turn, Recording
      <3> QED
        BY <2>1, <3>2, <3>3
    <2> QED
      BY <2>2, <2>3, <2>4, <2>5, <2>6
  <1>4. UNCHANGED <<state, failures, call>> \/ \E c \in Agents : Turn(c)
    BY DEF GNext, Cool, BudgetTurns, Provider, Breaker, gVars
  <1> QED
    BY <1>2, <1>3, <1>4

-----------------------------------------------------------------------------
(* No failure is invented.                                                 *)

\* What a turn does to the failures that are pending: a real failure makes its
\* thread pending, a thread that has written its count no longer is, a thread
\* that reads the count has it, and nobody else gets one.
LEMMA PendingTurn ==
    ASSUME GatewayTypes, QuotaApart, NEW c \in Agents, Turn(c)
    PROVE  \/ /\ Fails(c) /\ call[c].at = "calling" /\ call'[c].at = "failed"
              /\ UNCHANGED <<state, failures>> /\ genuine' = Plus(genuine, FailureThreshold)
           \/ /\ call[c].at = "failed" /\ call'[c].at = "counted" /\ call'[c].n = failures
              /\ UNCHANGED <<state, failures, genuine>>
           \/ /\ call[c].at = "counted" /\ call'[c].at = "judged"
              /\ failures' = Plus(call[c].n, FailureThreshold) /\ UNCHANGED <<state, genuine>>
           \/ /\ call[c].at \notin {"failed", "counted"} /\ call'[c].at \notin {"failed", "counted"}
              /\ failures' \in {failures, 0} /\ UNCHANGED genuine
              /\ state = "CLOSED" /\ failures < FailureThreshold => state' = "CLOSED"
  <1>1. call \in [Agents -> CallRecords] /\ call[c] \in CallRecords
    BY DEF GatewayTypes, CallRecords
  <1>2. \A step : Goto(c, step) => call'[c].at = step
    BY <1>1 DEF Goto, CallRecords
  <1>3. Return(c) => call'[c].at = "idle"
    BY <1>1 DEF Return, NoCall
  <1>4. NextModel(c) => call'[c].at \in {"idle", "calling"}
    BY <1>1, <1>3 DEF NextModel, NoCall
  <1>5. CASE AskGateway(c)
    BY <1>1, <1>5 DEF AskGateway, Observe, Observed, CallRecords
  <1>6. CASE Admit(c)
    BY <1>2, <1>3, <1>6 DEF Admit, Observe, Observed
  <1>7. CASE Works(c) \/ OverBudget(c)
    BY <1>2, <1>3, <1>7 DEF Works, OverBudget, Breaker
  <1>8. CASE RateLimited(c)
    <2>1. c \notin Analysts
      BY <1>8 DEF RateLimited, QuotaApart, GatewayTypes
    <2> QED
      BY <1>4, <1>8, <2>1 DEF RateLimited, Breaker
  <1>9. CASE Fails(c)
    BY <1>2, <1>9 DEF Fails, Breaker
  <1>10. CASE ReadFailures(c)
    <2>1. call'[c].at = "counted" /\ call'[c].n = failures
      BY <1>1, <1>10 DEF ReadFailures, CallRecords
    <2> QED
      BY <1>10, <2>1 DEF ReadFailures, Breaker
  <1>11. CASE WriteFailures(c)
    <2>1. call'[c].at = "judged"
      BY <1>1, <1>11 DEF WriteFailures, CallRecords
    <2> QED
      BY <1>11, <2>1 DEF WriteFailures
  <1>12. CASE JudgeFailure(c)
    <2>1. failures \in Int /\ FailureThreshold \in Int
      BY GatewayAssumption DEF GatewayTypes
    <2> QED
      BY <1>4, <1>12, <2>1 DEF JudgeFailure
  <1>13. CASE ClearFailures(c)
    BY <1>2, <1>13 DEF ClearFailures
  <1>14. CASE ReadSuccesses(c) \/ WriteSuccesses(c)
    BY <1>1, <1>3, <1>14 DEF ReadSuccesses, WriteSuccesses, Breaker, CallRecords
  <1>15. CASE JudgeSuccess(c)
    BY <1>3, <1>15 DEF JudgeSuccess
  <1> QED
    BY <1>5, <1>6, <1>7, <1>8, <1>9, <1>10, <1>11, <1>12, <1>13, <1>14, <1>15
       DEF Turn, Answered, Recording

\* Every step counts the failures.
LEMMA CountStep ==
    ASSUME GatewayTypes, CountInv, QuotaApart, [GNext]_gVars
    PROVE  CountInv'
  <1>1. /\ FailureThreshold \in Nat /\ failures \in Nat /\ genuine \in Nat
        /\ call \in [Agents -> CallRecords] /\ \A d \in Agents : call[d].n \in Nat
    BY GatewayAssumption DEF GatewayTypes, CallRecords
  <1>2. CASE UNCHANGED <<state, failures, call, genuine>>
    BY <1>2 DEF CountInv, Pending
  <1>3. ASSUME NEW c \in Agents, Turn(c), genuine' < FailureThreshold
        PROVE  /\ state' = "CLOSED"
               /\ IsFiniteSet(Pending')
               /\ failures' + Cardinality(Pending') <= genuine'
               /\ \A d \in Agents : call'[d].at = "counted" =>
                     call'[d].n + Cardinality(Pending') <= genuine'
    <2> DEFINE Before == Cardinality(Pending)
               After == Cardinality(Pending')
    <2>1. \A d \in Agents \ {c} : call'[d] = call[d]
      BY <1>3, OthersStay
    <2>2. genuine < FailureThreshold /\ genuine' \in {genuine, genuine + 1}
      <3>1. genuine' = genuine \/ genuine' = Plus(genuine, FailureThreshold)
        BY <1>3, PendingTurn
      <3> QED
        BY <1>1, <1>3, <3>1, PlusIs
    <2>3. /\ state = "CLOSED" /\ IsFiniteSet(Pending) /\ failures + Before <= genuine
          /\ \A d \in Agents : call[d].at = "counted" => call[d].n + Before <= genuine
      BY <2>2 DEF CountInv
    <2>4. /\ IsFiniteSet(Pending') /\ Before \in Nat /\ After \in Nat
          /\ After = Before + (IF call'[c].at \in {"failed", "counted"} THEN 1 ELSE 0)
                            - (IF call[c].at \in {"failed", "counted"} THEN 1 ELSE 0)
      BY <2>1, <2>3, PendingCounts
    <2>5. failures < FailureThreshold
      BY <1>1, <2>2, <2>3, <2>4
    <2> HIDE DEF Before, After
    <2>6. ASSUME state' = "CLOSED", failures' + After <= genuine',
                 call'[c].at = "counted" => call'[c].n + After <= genuine',
                 After - Before <= genuine' - genuine
          PROVE  /\ state' = "CLOSED" /\ failures' + After <= genuine'
                 /\ \A d \in Agents : call'[d].at = "counted" => call'[d].n + After <= genuine'
      <3> SUFFICES ASSUME NEW d \in Agents, call'[d].at = "counted", d # c
                   PROVE  call'[d].n + After <= genuine'
        BY <2>6
      <3>1. call[d].n + Before <= genuine /\ call'[d].n = call[d].n /\ call[d].n \in Nat
        BY <1>1, <2>1, <2>3
      <3>2. genuine' \in Nat /\ genuine \in Nat /\ Before \in Nat /\ After \in Nat
        BY <1>1, <2>2, <2>4
      <3>3. After - Before <= genuine' - genuine
        BY <2>6
      <3>4. call[d].n + After <= genuine'
        <4>1. \A n, before, after, g, h \in Nat :
                 n + before <= g /\ after - before <= h - g => n + after <= h
          OBVIOUS
        <4> QED
          BY <3>1, <3>2, <3>3, <4>1
      <3> QED
        BY <3>1, <3>4
    <2>7. CASE /\ Fails(c) /\ call[c].at = "calling" /\ call'[c].at = "failed"
               /\ UNCHANGED <<state, failures>> /\ genuine' = Plus(genuine, FailureThreshold)
      <3>1. genuine' = genuine + 1 /\ After = Before + 1
        BY <1>1, <1>3, <2>4, <2>7, PlusIs
      <3> QED
        BY <1>1, <2>3, <2>4, <2>6, <2>7, <3>1 DEF After
    <2>8. CASE /\ call[c].at = "failed" /\ call'[c].at = "counted" /\ call'[c].n = failures
               /\ UNCHANGED <<state, failures, genuine>>
      <3>1. After = Before
        BY <2>4, <2>8
      <3> QED
        BY <1>1, <2>3, <2>4, <2>6, <2>8, <3>1 DEF After
    <2>9. CASE /\ call[c].at = "counted" /\ call'[c].at = "judged"
               /\ failures' = Plus(call[c].n, FailureThreshold) /\ UNCHANGED <<state, genuine>>
      <3>1. After = Before - 1
        BY <2>4, <2>9
      <3>2. call[c].n + Before <= genuine /\ call[c].n \in Nat
        BY <1>1, <2>3, <2>9
      <3>3. failures' <= call[c].n + 1 /\ failures' \in Nat
        BY <1>1, <2>9, <3>2, PlusIs
      <3> QED
        BY <1>1, <2>3, <2>4, <2>6, <2>9, <3>1, <3>2, <3>3 DEF After
    <2>10. CASE /\ call[c].at \notin {"failed", "counted"} /\ call'[c].at \notin {"failed", "counted"}
                /\ failures' \in {failures, 0} /\ UNCHANGED genuine
                /\ state = "CLOSED" /\ failures < FailureThreshold => state' = "CLOSED"
      <3>1. After = Before
        BY <2>4, <2>10
      <3>2. failures' <= failures /\ failures' \in Nat /\ state' = "CLOSED"
        BY <1>1, <2>3, <2>5, <2>10
      <3>3. failures' + After <= genuine'
        BY <1>1, <2>3, <2>4, <2>10, <3>1, <3>2
      <3>4. After - Before <= genuine' - genuine /\ call'[c].at # "counted"
        BY <1>1, <2>4, <2>10, <3>1
      <3> QED
        BY <2>4, <2>6, <3>2, <3>3, <3>4 DEF After
    <2> QED
      BY <1>3, <2>7, <2>8, <2>9, <2>10, PendingTurn
  <1>4. UNCHANGED <<state, failures, call, genuine>> \/ \E c \in Agents : Turn(c)
    BY DEF GNext, Cool, BudgetTurns, Provider, Breaker, gVars
  <1> QED
    BY <1>2, <1>3, <1>4 DEF CountInv

-----------------------------------------------------------------------------
(* The theorems.                                                           *)

\* The breaker starts in its invariant.
LEMMA BreakerInit ==
    ASSUME GInit
    PROVE  BreakerInv
  <1>1. FailureThreshold \in Nat /\ SuccessThreshold \in Nat /\ FailureThreshold >= 1 /\ SuccessThreshold >= 1
    BY GatewayAssumption
  <1>2. \A c \in Agents : call[c] = NoCall
    BY DEF GInit, GInitAt, NoCall
  <1>3. NoCall \in CallRecords /\ NoCall.at = "idle"
    BY DEF NoCall, CallRecords, CallStages
  <1>4. GatewayTypes
    <2>1. call \in [Agents -> CallRecords] /\ \A c \in Analysts : c \in Agents
      BY <1>3, GatewayAssumption DEF GInit, GInitAt, NoCall
    <2>2. \A c \in Analysts : call[c].at = "idle"
      BY <1>2, <1>3, <2>1
    <2> QED
      <3>1. 0 \in 0..FailureThreshold /\ 0 \in 0..SuccessThreshold
        BY <1>1
      <3> QED
        BY <2>1, <2>2, <3>1 DEF GInit, GInitAt, GatewayTypes, CallRecords
  <1>5. ThresholdNoticed
    BY <1>1 DEF GInit, GInitAt, ThresholdNoticed
  <1>6. Pending = {}
    BY <1>2, <1>3 DEF Pending
  <1>7. CountInv
    BY <1>2, <1>3, <1>6, FS_EmptySet DEF GInit, GInitAt, CountInv
  <1> QED
    BY <1>4, <1>5, <1>7 DEF BreakerInv

\* The invariant of the breaker holds: a closed breaker that reached the threshold is about
\* to open, and each failure counted is one of the provider's, as long as a quota is told
\* from a failure.
THEOREM BreakerInvHolds ==
    ASSUME QuotaApart
    PROVE  GSpec => []BreakerInv
  <1>1. GInit => BreakerInv
    BY BreakerInit
  <1>2. BreakerInv /\ [GNext]_gVars => BreakerInv'
    BY TypesStep, NoticedStep, CountStep DEF BreakerInv
  <1> QED
    BY <1>1, <1>2, PTL DEF GSpec

\* The breaker trips for as many failures of the provider as its threshold asks
\* for and for nothing else, and a count at the threshold is noticed, whatever
\* the threads that record at the same time overwrite (_record_failure,
\* _record_success).
THEOREM BreakerIsTrueHolds ==
    ASSUME QuotaApart
    PROVE  GSpec => []BreakerIsTrue
  <1>1. BreakerInv => BreakerIsTrue
    <2> SUFFICES ASSUME BreakerInv, state # "CLOSED"
                 PROVE  genuine >= FailureThreshold
      BY DEF BreakerInv, BreakerIsTrue, QuotaNeverTrips
    <2>1. genuine \in Nat /\ FailureThreshold \in Nat /\ ~(genuine < FailureThreshold)
      BY GatewayAssumption DEF BreakerInv, GatewayTypes, CountInv
    <2> QED
      BY <2>1
  <1> QED
    BY <1>1, BreakerInvHolds, PTL

\* An open breaker is left when the recovery time has passed, or by a thread
\* that was already closing it (state, _record_success).
THEOREM OpenUntilCooledHolds == GSpec => OpenUntilCooled
  <1>1. ASSUME [GNext]_gVars, state = "OPEN", state' # "OPEN"
        PROVE  cooled \/ \E c \in Agents : call[c].at = "closing"
    <2>1. PICK c \in Agents : Turn(c)
      BY <1>1 DEF GNext, Cool, BudgetTurns, Provider, Breaker, gVars
    <2>2. CASE AskGateway(c) \/ Admit(c)
      BY <1>1, <2>2 DEF AskGateway, Admit, Observe, Observed
    <2>3. CASE Answered(c)
      BY <1>1, <2>3 DEF Answered, Works, RateLimited, Fails, OverBudget, Breaker
    <2>4. CASE JudgeSuccess(c)
      BY <2>4 DEF JudgeSuccess
    <2>5. CASE Recording(c) /\ ~JudgeSuccess(c)
      BY <1>1, <2>5 DEF Recording, ReadFailures, WriteFailures, JudgeFailure, ClearFailures,
                        ReadSuccesses, WriteSuccesses, Breaker
    <2> QED
      BY <2>1, <2>2, <2>3, <2>4, <2>5 DEF Turn
  <1>2. [GNext]_gVars =>
          [state = "OPEN" /\ state' # "OPEN" => cooled \/ \E c \in Agents : call[c].at = "closing"]_gVars
    BY <1>1
  <1> QED
    BY <1>2, PTL DEF GSpec, OpenUntilCooled
-----------------------------------------------------------------------------
(* The scalp scan.  A batch is what a timeframe gives: signals at places,  *)
(* none of them HOLD.                                                      *)

GoodBatch(b) ==
    /\ DOMAIN b \subseteq Nat /\ IsFiniteSet(DOMAIN b)
    /\ \A i \in DOMAIN b :
        /\ b[i].direction \in {"BUY", "SELL"}
        /\ b[i].strategy \in DOMAIN HistoryOf /\ b[i].confidence \in Nat
Batches(cells) == \A tf \in ToSet(Confirming) : cells[tf] # Absent => GoodBatch(cells[tf])

\* Some numbers have a least one.
LEMMA LeastIs ==
    ASSUME NEW T \in SUBSET Nat, T # {}
    PROVE  Min(T) \in T /\ \A m \in T : Min(T) <= m
  <1>1. PICK n \in T : \A m \in T : <<m, n>> \notin OpToRel(<, Nat)
    BY NatLessThanWellFounded, WFMin
  <1>2. \A m \in T : ~(m < n)
    BY <1>1 DEF OpToRel
  <1>3. \A m \in T : n <= m
    BY <1>2
  <1> QED BY <1>3 DEF Min

\* Of finitely many places one has the highest score, and the first of them is found.
LEMMA BestIs ==
    ASSUME NEW S \in SUBSET Nat, IsFiniteSet(S), S # {}, NEW f, \A i \in S : f[i] \in Int
    PROVE  Min({i \in S : \A j \in S : f[j] <= f[i]}) \in S
  <1> DEFINE Bad == {s \in SUBSET S : s # {} /\ \A i \in s : \E j \in s : ~(f[j] <= f[i])}
  <1>1. IsWellFoundedOn(StrictSubsetOrdering(S), SUBSET S)
    BY FS_StrictSubsetOrderingWellFounded, FS_FiniteSubsetsOfFinite
  <1>2. Bad = {}
    <2> SUFFICES ASSUME Bad # {} PROVE FALSE
      OBVIOUS
    <2>1. PICK s \in Bad : \A t \in Bad : <<t, s>> \notin StrictSubsetOrdering(S)
      <3>1. Bad \subseteq SUBSET S
        OBVIOUS
      <3> HIDE DEF Bad
      <3> QED BY <1>1, <3>1, WFMin
    <2>2. PICK x \in s : TRUE
      OBVIOUS
    <2>3. PICK y \in s : ~(f[y] <= f[x])
      OBVIOUS
    <2>4. s \ {x} \notin Bad /\ s \ {x} \in SUBSET S /\ y \in s \ {x}
      <3>1. f[x] <= f[x]
        BY <2>2
      <3>2. y \in s \ {x} /\ s \ {x} \in SUBSET S /\ s \in SUBSET S
        BY <2>3, <3>1
      <3>3. <<s \ {x}, s>> \in StrictSubsetOrdering(S)
        BY <2>2, <3>2 DEF StrictSubsetOrdering
      <3> QED BY <2>1, <3>2, <3>3
    <2>5. PICK z \in s \ {x} : \A j \in s \ {x} : f[j] <= f[z]
      BY <2>4
    <2>6. {f[x], f[y], f[z]} \subseteq Int /\ f[y] <= f[z] /\ f[x] <= f[z]
      BY <2>2, <2>3, <2>4, <2>5
    <2>7. \A j \in s : f[j] <= f[z]
      BY <2>5, <2>6
    <2> QED BY <2>5, <2>7
  <1>3. PICK i \in S : \A j \in S : f[j] <= f[i]
    <2>1. S \notin Bad
      BY <1>2
    <2> QED BY <2>1
  <1> DEFINE T == {k \in S : \A j \in S : f[j] <= f[k]}
  <1>4. T \in SUBSET Nat /\ T # {} /\ T \subseteq S
    BY <1>3
  <1>5. Min(T) \in T
    <2> HIDE DEF T
    <2> QED BY <1>4, LeastIs
  <1> QED BY <1>4, <1>5

\* The strongest of the consolidated signals is one of the batch, with the direction of
\* its group.
LEMMA StrongestIs ==
    ASSUME NEW b, GoodBatch(b), Consolidate(b) # {}
    PROVE  \E i \in DOMAIN b : Strongest(b).rep = b[i] /\ Strongest(b).blended \in Int
  <1> DEFINE Group(d) == {i \in DOMAIN b : b[i].direction = d}
             Rep(d) == b[FirstBest(Group(d), LAMBDA i : b[i].confidence)]
             merged == [i \in Consolidate(b) |-> Merged(b, b[i].direction)]
  <1>1. Consolidate(b) \in SUBSET DOMAIN b /\ Consolidate(b) \in SUBSET Nat /\ IsFiniteSet(Consolidate(b))
    BY FS_Subset DEF Consolidate, Fresh, GoodBatch
  <1>2. ASSUME NEW k \in Consolidate(b)
        PROVE  \E i \in DOMAIN b : merged[k].rep = b[i] /\ merged[k].blended \in Int
    <2> DEFINE d == b[k].direction
               g == Group(d)
               f == [i \in DOMAIN b |-> b[i].confidence]
    <2>1. g \in SUBSET Nat /\ g \in SUBSET DOMAIN b /\ IsFiniteSet(g) /\ k \in g
      BY <1>1, <1>2, FS_Subset DEF GoodBatch
    <2>2. \A i \in g : f[i] \in Int
      BY <2>1 DEF GoodBatch
    <2>3. Min({i \in g : \A j \in g : f[j] <= f[i]}) \in g
      <3> HIDE DEF g, f
      <3> QED BY <2>1, <2>2, BestIs
    <2>4. {i \in g : \A j \in g : f[j] <= f[i]} = {i \in g : \A j \in g : b[j].confidence <= b[i].confidence}
      BY <2>1
    <2>5. FirstBest(g, LAMBDA i : b[i].confidence) \in g
      BY <2>3, <2>4 DEF FirstBest
    <2>6. Rep(d) = b[FirstBest(g, LAMBDA i : b[i].confidence)]
      OBVIOUS
    <2>7. merged[k] = [rep |-> Rep(d), blended |-> Blend(Rep(d).confidence, Cardinality(g))]
      BY DEF Merged
    <2>8. \E i \in DOMAIN b : Rep(d) = b[i]
      BY <2>1, <2>5, <2>6
    <2>9. Rep(d).confidence \in Nat /\ Cardinality(g) \in Nat
      BY <2>1, <2>8, FS_CardinalityType DEF GoodBatch
    <2> HIDE DEF g, Rep
    <2>10. ASSUME NEW m \in Nat, NEW n \in Nat
           PROVE  Blend(m, n) \in Int
      <3> DEFINE x == AgreementStep * (n - 1)
                 y == m + x
      <3>1. AgreementCap \in Int /\ AgreementStep \in Int
        BY ScanAssumption
      <3>2. x \in Int
        BY <3>1
      <3>3. y \in Int
        <4> HIDE DEF x
        <4> QED BY <3>2
      <3> HIDE DEF x, y
      <3>4. Min({AgreementCap, y}) \in {AgreementCap, y}
        BY <3>1, <3>3 DEF Min
      <3> QED BY <3>1, <3>3, <3>4 DEF Blend, x, y
    <2> QED BY <2>7, <2>8, <2>9, <2>10
  <1>3. \A i \in Consolidate(b) : merged[i].blended \in Int
    BY <1>2
  <1> DEFINE h == [i \in Consolidate(b) |-> merged[i].blended]
             k == FirstBest(Consolidate(b), LAMBDA i : merged[i].blended)
  <1>4. {i \in Consolidate(b) : \A j \in Consolidate(b) : h[j] <= h[i]}
            = {i \in Consolidate(b) : \A j \in Consolidate(b) : merged[j].blended <= merged[i].blended}
    OBVIOUS
  <1>5. \A i \in Consolidate(b) : h[i] \in Int
    BY <1>3
  <1>6. Min({i \in Consolidate(b) : \A j \in Consolidate(b) : h[j] <= h[i]}) \in Consolidate(b)
    <2> HIDE DEF h
    <2> QED BY <1>1, <1>5, BestIs
  <1>7. k \in Consolidate(b)
    BY <1>4, <1>6 DEF FirstBest
  <1>8. Strongest(b) = merged[k]
    BY DEF Strongest
  <1> HIDE DEF k, merged
  <1> QED BY <1>2, <1>7, <1>8

\* A timeframe that counts has a buyer that suits its regime, and its strongest signal is one.
LEMMA CountedBacks ==
    ASSUME NEW c, Batches(c.cells), NEW ml, NEW tf, RoleOk(c.cells, ml, tf)
    PROVE  /\ tf \in ToSet(Confirming) /\ Backs(c, tf)
           /\ Strongest(c.cells[tf]).rep.direction = "BUY"
           /\ Strongest(c.cells[tf]).rep.strategy \in DOMAIN HistoryOf
  <1> DEFINE b == c.cells[tf]
  <1>1. tf \in ToSet(Confirming) /\ b # Absent /\ GoodBatch(b) /\ Consolidate(b) # {}
    BY DEF RoleOk, Filled, Usable, Batches
  <1>2. Assess(b, ml[tf]) = "BUY"
    BY DEF RoleOk
  <1> HIDE DEF b
  <1>3. PICK i \in DOMAIN b : Strongest(b).rep = b[i]
    BY <1>1, StrongestIs
  <1>4. Strongest(b).rep.direction = "BUY" /\ Compatible(Strongest(b).rep)
    BY <1>2 DEF Assess
  <1> QED BY <1>1, <1>3, <1>4 DEF Backs, b, GoodBatch

\* Enough timeframes that count are enough that speak for buying.
LEMMA EnoughBack ==
    ASSUME NEW c, Batches(c.cells), NEW ml, Confirms(c.cells, ml)
    PROVE  Cardinality({tf \in Roles \intersect ToSet(Confirming) : Backs(c, tf)}) >= Required
  <1> DEFINE A == {tf \in Roles : RoleOk(c.cells, ml, tf)}
             B == {tf \in Roles \intersect ToSet(Confirming) : Backs(c, tf)}
  <1>1. A \subseteq B
    BY CountedBacks
  <1>2. IsFiniteSet(Roles) /\ B \subseteq Roles /\ Required \in Nat
    BY ScanAssumption
  <1>3. IsFiniteSet(B) /\ IsFiniteSet(A)
    BY <1>1, <1>2, FS_Subset
  <1>4. Cardinality(A) <= Cardinality(B) /\ Cardinality(A) \in Nat /\ Cardinality(B) \in Nat
    BY <1>1, <1>3, FS_Subset, FS_CardinalityType
  <1>5. Cardinality(A) >= Required
    BY DEF Confirms, Aligned
  <1> HIDE DEF A, B
  <1> QED BY <1>2, <1>4, <1>5 DEF B

-----------------------------------------------------------------------------
(* The zigzag: how it was defined, and that it finds every ceiling.        *)

ZStart(closes) == [way |-> 0, first |-> closes[1], extreme |-> closes[1], pivots |-> {}]
Follows(z, closes, swing, n) ==
    z = [i \in 1..n |-> IF i = 1 THEN ZStart(closes) ELSE ZigzagStep(z[i - 1], closes[i], swing)]

\* There is a zigzag for any number of closes: one more close takes one step more.
LEMMA ZigzagExists ==
    ASSUME NEW closes, NEW swing, NEW n \in Nat
    PROVE  \E z : Follows(z, closes, swing, n)
  <1> DEFINE Bad == {m \in Nat : \A z : ~Follows(z, closes, swing, m)}
  <1>1. SUFFICES ASSUME Bad # {} PROVE FALSE
    OBVIOUS
  <1>2. PICK m \in Bad : \A k \in Bad : m <= k
    <2>1. Bad \in SUBSET Nat
      OBVIOUS
    <2> HIDE DEF Bad
    <2> QED BY <1>1, <2>1, LeastIs
  <1>3. CASE m = 0
    <2>1. Follows([i \in 1..m |-> 0], closes, swing, m)
      BY <1>3 DEF Follows
    <2> QED BY <2>1
  <1>4. CASE m # 0
    <2>1. m - 1 \in Nat /\ m - 1 \notin Bad
      BY <1>2, <1>4
    <2>2. PICK z : Follows(z, closes, swing, m - 1)
      BY <2>1
    <2> DEFINE F(g, i) == IF i = 1 THEN ZStart(closes) ELSE ZigzagStep(g[i - 1], closes[i], swing)
               h == [i \in 1..m |-> F(z, i)]
    <2>3. \A i \in 1..(m - 1) : z[i] = F(z, i)
      BY <2>2 DEF Follows
    <2>4. \A i \in 1..m : i # 1 => h[i - 1] = z[i - 1]
      BY <2>1, <2>3
    <2>5. \A i \in 1..m : h[i] = F(h, i)
      BY <2>4
    <2>6. h = [i \in 1..m |-> h[i]]
      OBVIOUS
    <2> HIDE DEF h
    <2>7. [i \in 1..m |-> h[i]] = [i \in 1..m |-> F(h, i)]
      BY <2>5
    <2>8. Follows(h, closes, swing, m)
      BY <2>6, <2>7 DEF Follows
    <2> QED BY <2>8
  <1> QED BY <1>3, <1>4

\* The zigzag is the function its definition describes.
LEMMA ZigzagIs ==
    ASSUME NEW closes \in Seq(Nat \ {0}), closes # <<>>, NEW swing
    PROVE  /\ Zigzag(closes, swing)[1] = ZStart(closes)
           /\ \A i \in 2..Len(closes) :
                Zigzag(closes, swing)[i] = ZigzagStep(Zigzag(closes, swing)[i - 1], closes[i], swing)
  <1>1. DOMAIN closes = 1..Len(closes) /\ Len(closes) \in Nat \ {0}
    OBVIOUS
  <1> DEFINE z == CHOOSE z : Follows(z, closes, swing, Len(closes))
  <1>2. Zigzag(closes, swing) = z
    BY <1>1 DEF Zigzag, Follows, ZStart
  <1>3. Follows(z, closes, swing, Len(closes))
    BY <1>1, ZigzagExists
  <1> HIDE DEF z
  <1>4. \A i \in 1..Len(closes) :
            z[i] = IF i = 1 THEN ZStart(closes) ELSE ZigzagStep(z[i - 1], closes[i], swing)
    BY <1>3 DEF Follows
  <1> QED BY <1>1, <1>2, <1>4

Zigzags == [way : {0, 1, -1}, first : Nat \ {0}, extreme : Nat \ {0}, pivots : SUBSET (Nat \ {0})]

\* What a step does, way by way.
Moved(z, price, swing, new) ==
    /\ new \in Zigzags /\ new.first = z.first /\ z.pivots \subseteq new.pivots
    /\ new.extreme \in {z.extreme, price}
    /\ z.way = 0 =>
          \/ new = z /\ 1000 * (price - z.first) < swing /\ 1000 * (z.first - price) < swing
          \/ new.way = 1 /\ new.extreme = price /\ price >= z.first
          \/ new.way = -1 /\ new.extreme = price /\ 1000 * (z.first - price) >= swing
    /\ z.way = 1 =>
          \/ new.way = 1 /\ new.extreme = price /\ price > z.extreme
          \/ /\ new.way = -1 /\ new.extreme = price /\ z.extreme \in new.pivots
             /\ 1000 * (z.extreme - price) >= swing
          \/ new = z /\ price <= z.extreme /\ 1000 * (z.extreme - price) < swing
    /\ z.way = -1 =>
          \/ new.way = -1 /\ new.extreme = price /\ price < z.extreme
          \/ new.way = 1 /\ new.extreme = price /\ 1000 * (price - z.extreme) >= swing
          \/ new = z /\ price >= z.extreme /\ 1000 * (price - z.extreme) < swing

Turned(z, w, e, ps, new) ==
    /\ new \in Zigzags /\ new.way = w /\ new.first = z.first /\ new.extreme = e /\ new.pivots = ps

\* The two ways to write a zigzag anew.
LEMMA TurnedIs ==
    ASSUME NEW z \in Zigzags, NEW w \in {1, -1}, NEW e \in Nat \ {0}, NEW ps \in SUBSET (Nat \ {0})
    PROVE  /\ Turned(z, w, e, z.pivots, [z EXCEPT !.way = w, !.extreme = e])
           /\ Turned(z, w, e, ps, [z EXCEPT !.pivots = ps, !.way = w, !.extreme = e])
           /\ Turned(z, z.way, e, z.pivots, [z EXCEPT !.extreme = e])
  BY DEF Zigzags, Turned

\* A swing turns twice to go on as before.
LEMMA MinusMinus == ASSUME NEW w, w = -1 PROVE -w = 1
  <1>1. \A v \in Int : v + 1 = 0 => -v = 1
    OBVIOUS
  <1>2. w \in Int /\ w + 1 = 0
    OBVIOUS
  <1> QED BY <1>1, <1>2

\* Every step is one of those.
LEMMA StepIs ==
    ASSUME NEW z \in Zigzags, NEW price \in Nat \ {0}, NEW swing \in Nat \ {0}
    PROVE  Moved(z, price, swing, ZigzagStep(z, price, swing))
  <1> DEFINE new == ZigzagStep(z, price, swing)
             gap == Max({price - z.first, z.first - price})
             marked == z.pivots \union {z.extreme}
  <1>1. /\ z.first \in Nat \ {0} /\ z.extreme \in Nat \ {0} /\ z.way \in {0, 1, -1}
        /\ z.pivots \in SUBSET (Nat \ {0}) /\ marked \in SUBSET (Nat \ {0})
    BY DEF Zigzags
  <1>2. gap \in {price - z.first, z.first - price} /\ gap >= price - z.first /\ gap >= z.first - price
    <2>1. \A a, b \in Int : Max({a, b}) \in {a, b} /\ Max({a, b}) >= a /\ Max({a, b}) >= b
      BY DEF Max
    <2>2. price - z.first \in Int /\ z.first - price \in Int
      BY <1>1
    <2> QED BY <2>1, <2>2
  <1>4. \A d \in Int : 1 * d = d /\ (-1) * d = -d /\ 1000 * 1 * d = 1000 * d /\ 1000 * (-1) * d = 1000 * (-d)
    OBVIOUS
  <1>5. CASE z.way = 0
    <2>1. CASE 1000 * gap < swing
      <3>1. new = z
        BY <1>5, <2>1 DEF ZigzagStep
      <3>2. 1000 * (price - z.first) < swing /\ 1000 * (z.first - price) < swing
        <4> HIDE DEF gap
        <4> QED BY <1>1, <1>2, <2>1
      <3> QED BY <1>1, <1>5, <3>1, <3>2 DEF Moved
    <2>2. CASE ~(1000 * gap < swing) /\ price >= z.first
      <3>1. new = [z EXCEPT !.way = 1, !.extreme = price]
        BY <1>5, <2>2 DEF ZigzagStep
      <3>2. Turned(z, 1, price, z.pivots, new)
        BY <1>1, <3>1, TurnedIs
      <3> HIDE DEF new
      <3> QED BY <1>5, <2>2, <3>2 DEF Moved, Turned, new
    <2>3. CASE ~(1000 * gap < swing) /\ ~(price >= z.first)
      <3>1. new = [z EXCEPT !.way = -1, !.extreme = price]
        BY <1>5, <2>3 DEF ZigzagStep
      <3>2. Turned(z, -1, price, z.pivots, new)
        BY <1>1, <3>1, TurnedIs
      <3>3. 1000 * (z.first - price) >= swing
        <4> HIDE DEF gap
        <4> QED BY <1>1, <1>2, <2>3
      <3> HIDE DEF new
      <3> QED BY <1>5, <3>2, <3>3 DEF Moved, Turned, new
    <2> QED BY <2>1, <2>2, <2>3
  <1>6. CASE z.way = 1
    <2> DEFINE rise == price - z.extreme
               down == z.extreme - price
    <2>1. rise \in Int /\ down \in Int /\ z.way * rise = rise /\ 1000 * z.way * down = 1000 * down
          /\ -z.way = -1
      <3>1. rise \in Int /\ down \in Int
        BY <1>1
      <3> HIDE DEF rise, down
      <3> QED BY <1>4, <1>6, <3>1
    <2>2. CASE rise > 0
      <3>1. new = [z EXCEPT !.extreme = price]
        BY <1>6, <2>1, <2>2 DEF ZigzagStep
      <3>2. Turned(z, 1, price, z.pivots, new)
        BY <1>1, <1>6, <3>1, TurnedIs
      <3>3. price > z.extreme
        BY <1>1, <2>2
      <3> HIDE DEF new
      <3> QED BY <1>6, <3>2, <3>3 DEF Moved, Turned, new
    <2>3. CASE ~(rise > 0) /\ 1000 * down >= swing
      <3>1. new = [z EXCEPT !.pivots = marked, !.way = -z.way, !.extreme = price]
        <4> HIDE DEF rise, down
        <4> QED BY <1>6, <2>1, <2>3 DEF ZigzagStep, rise, down
      <3>2. Turned(z, -1, price, marked, new)
        <4>1. new = [z EXCEPT !.pivots = marked, !.way = -1, !.extreme = price]
          <5> HIDE DEF new, marked, rise, down
          <5>1. -z.way = -1
            BY <2>1
          <5> QED BY <3>1, <5>1
        <4> HIDE DEF new, marked
        <4> QED BY <1>1, <4>1, TurnedIs
      <3> HIDE DEF new
      <3> QED BY <1>6, <2>3, <3>2 DEF Moved, Turned, new
    <2>4. CASE ~(rise > 0) /\ ~(1000 * down >= swing)
      <3>1. new = z
        BY <1>6, <2>1, <2>4 DEF ZigzagStep
      <3>2. price <= z.extreme /\ 1000 * (z.extreme - price) < swing
        BY <1>1, <2>4
      <3> HIDE DEF new
      <3> QED BY <1>6, <3>1, <3>2 DEF Moved, new
    <2> QED BY <2>2, <2>3, <2>4
  <1>7. CASE z.way = -1
    <2> DEFINE rise == price - z.extreme
               down == z.extreme - price
    <2>1. rise \in Int /\ down \in Int /\ z.way * rise = down /\ 1000 * z.way * down = 1000 * rise
          /\ -z.way = 1
      <3>1. rise \in Int /\ down \in Int /\ -rise = down /\ -down = rise
        BY <1>1
      <3> HIDE DEF rise, down
      <3>2. -z.way = 1
        BY <1>7, MinusMinus
      <3> QED BY <1>4, <1>7, <3>1, <3>2
    <2>2. CASE down > 0
      <3>1. new = [z EXCEPT !.extreme = price]
        BY <1>7, <2>1, <2>2 DEF ZigzagStep
      <3>2. Turned(z, -1, price, z.pivots, new)
        BY <1>1, <1>7, <3>1, TurnedIs
      <3>3. price < z.extreme
        BY <1>1, <2>2
      <3> HIDE DEF new
      <3> QED BY <1>7, <3>2, <3>3 DEF Moved, Turned, new
    <2>3. CASE ~(down > 0) /\ 1000 * rise >= swing
      <3>1. new = [z EXCEPT !.pivots = marked, !.way = -z.way, !.extreme = price]
        <4> HIDE DEF rise, down
        <4> QED BY <1>7, <2>1, <2>3 DEF ZigzagStep, rise, down
      <3>2. Turned(z, 1, price, marked, new)
        <4>1. new = [z EXCEPT !.pivots = marked, !.way = 1, !.extreme = price]
          <5> HIDE DEF new, marked, rise, down
          <5>1. -z.way = 1
            BY <2>1
          <5> QED BY <3>1, <5>1
        <4> HIDE DEF new, marked
        <4> QED BY <1>1, <4>1, TurnedIs
      <3> HIDE DEF new
      <3> QED BY <1>7, <2>3, <3>2 DEF Moved, Turned, new
    <2>4. CASE ~(down > 0) /\ ~(1000 * rise >= swing)
      <3>1. new = z
        BY <1>7, <2>1, <2>4 DEF ZigzagStep
      <3>2. price >= z.extreme /\ 1000 * (price - z.extreme) < swing
        BY <1>1, <2>4
      <3> HIDE DEF new
      <3> QED BY <1>7, <3>1, <3>2 DEF Moved, new
    <2> QED BY <2>2, <2>3, <2>4
  <1> QED BY <1>1, <1>5, <1>6, <1>7

\* What every close of the zigzag leaves: the extreme is a close that was seen, and a way
\* down began at a close a swing above it.
Seen(closes, swing, i) ==
    LET z == Zigzag(closes, swing)[i]
    IN /\ z \in Zigzags /\ z.first = closes[1]
       /\ \E m \in 1..i : z.extreme = closes[m]
       /\ z.way = -1 => \E m \in 1..i : 1000 * (closes[m] - z.extreme) >= swing

\* What has been seen of the closes when the zigzag has come to one of them.
LEMMA ZigzagSeen ==
    ASSUME NEW closes \in Seq(Nat \ {0}), closes # <<>>, NEW swing \in Nat \ {0}
    PROVE  \A i \in 1..Len(closes) : Seen(closes, swing, i)
  <1> DEFINE Bad == {i \in 1..Len(closes) : ~Seen(closes, swing, i)}
             z == Zigzag(closes, swing)
  <1>1. SUFFICES ASSUME Bad # {} PROVE FALSE
    OBVIOUS
  <1>2. PICK i \in Bad : \A k \in Bad : i <= k
    <2>1. Bad \in SUBSET Nat
      OBVIOUS
    <2> HIDE DEF Bad
    <2> QED BY <1>1, <2>1, LeastIs
  <1>3. /\ \A m \in 1..Len(closes) : closes[m] \in Nat \ {0}
        /\ Len(closes) \in Nat \ {0} /\ i \in 1..Len(closes)
    BY <1>2
  <1>4. CASE i = 1
    <2>1. z[1] = [way |-> 0, first |-> closes[1], extreme |-> closes[1], pivots |-> {}]
      BY ZigzagIs DEF ZStart
    <2>2. z[1] \in Zigzags /\ z[1].first = closes[1] /\ z[1].extreme = closes[1] /\ z[1].way # -1
      BY <1>3, <2>1 DEF Zigzags
    <2>3. Seen(closes, swing, 1)
      BY <2>2 DEF Seen
    <2> QED BY <1>2, <1>4, <2>3
  <1>5. CASE i # 1
    <2>1. i - 1 \in 1..Len(closes) /\ i \in 2..Len(closes) /\ i - 1 \notin Bad
      BY <1>2, <1>3, <1>5
    <2> DEFINE y == z[i - 1]
               x == z[i]
               p == closes[i]
    <2>2. Seen(closes, swing, i - 1)
      BY <2>1
    <2>3. x = ZigzagStep(y, p, swing)
      BY <2>1, ZigzagIs
    <2>4. y \in Zigzags /\ y.first = closes[1] /\ p \in Nat \ {0}
      BY <1>3, <2>2 DEF Seen
    <2>5. PICK m \in 1..(i - 1) : y.extreme = closes[m]
      BY <2>2 DEF Seen
    <2>6. y.way = -1 => \E n \in 1..(i - 1) : 1000 * (closes[n] - y.extreme) >= swing
      BY <2>2 DEF Seen
    <2>7. 1..(i - 1) \subseteq 1..i /\ i \in 1..i /\ 1 \in 1..i
      BY <2>1
    <2>8. y.way \in {0, 1, -1} /\ y.extreme \in Nat \ {0} /\ y.first \in Nat \ {0}
      BY <2>4 DEF Zigzags
    <2> HIDE DEF x, y, p, z
    <2>0. Moved(y, p, swing, x)
      BY <2>3, <2>4, StepIs
    <2>9. x \in Zigzags /\ x.first = closes[1] /\ x.extreme \in {y.extreme, p}
      BY <2>0, <2>4 DEF Moved
    <2>10. \E n \in 1..i : x.extreme = closes[n]
      BY <2>5, <2>7, <2>9 DEF p
    <2>11. ASSUME x.way = -1
           PROVE  \E n \in 1..i : 1000 * (closes[n] - x.extreme) >= swing
      <3>1. CASE y.way = 0
        <4>1. x.extreme = p /\ 1000 * (y.first - p) >= swing
          BY <2>0, <2>11, <3>1 DEF Moved
        <4> QED BY <2>4, <2>7, <4>1
      <3>2. CASE y.way = 1
        <4>1. x.extreme = p /\ 1000 * (y.extreme - p) >= swing
          BY <2>0, <2>11, <3>2 DEF Moved
        <4> QED BY <2>5, <2>7, <4>1
      <3>3. CASE y.way = -1
        <4>1. PICK n \in 1..(i - 1) : 1000 * (closes[n] - y.extreme) >= swing
          BY <2>6, <3>3
        <4>2. x.extreme = y.extreme \/ (x.extreme = p /\ p < y.extreme)
          BY <2>0, <2>11, <3>3 DEF Moved
        <4>3. closes[n] \in Nat \ {0}
          BY <1>3, <4>1
        <4>4. n \in 1..i
          BY <2>7, <4>1
        <4>5. CASE x.extreme = y.extreme
          BY <4>1, <4>4, <4>5
        <4>6. CASE x.extreme = p /\ p < y.extreme
          <5>1. y.extreme \in Nat /\ p \in Nat
            BY <2>4, <2>8 DEF Zigzags
          <5>2. closes[n] - y.extreme \in Int /\ closes[n] - p \in Int
            BY <4>3, <5>1
          <5>3. closes[n] - p >= closes[n] - y.extreme
            BY <4>3, <4>6, <5>1
          <5>4. 1000 * (closes[n] - p) >= swing
            BY <4>1, <5>2, <5>3
          <5> QED BY <4>4, <4>6, <5>4
        <4> QED BY <4>2, <4>5, <4>6
      <3> QED BY <2>8, <3>1, <3>2, <3>3
    <2>12. Seen(closes, swing, i)
      BY <2>9, <2>10, <2>11 DEF Seen, x, z
    <2> QED BY <1>2, <2>12
  <1> QED BY <1>4, <1>5

\* A ceiling is where the zigzag stands when it is reached ...
LEMMA CeilingReached ==
    ASSUME NEW closes \in Seq(Nat \ {0}), closes # <<>>, NEW swing \in Nat \ {0},
           NEW j \in 1..Len(closes), 1000 * (closes[j] - closes[1]) >= swing,
           \A i \in 1..j : closes[i] <= closes[j]
    PROVE  Zigzag(closes, swing)[j].way = 1 /\ Zigzag(closes, swing)[j].extreme = closes[j]
  <1> DEFINE z == Zigzag(closes, swing)
             y == z[j - 1]
             x == z[j]
             p == closes[j]
  <1>1. /\ \A m \in 1..Len(closes) : closes[m] \in Nat \ {0}
        /\ Len(closes) \in Nat \ {0} /\ 1 \in 1..Len(closes) /\ j \in Nat
    OBVIOUS
  <1>2. j # 1
    BY <1>1
  <1>3. j \in 2..Len(closes) /\ j - 1 \in 1..Len(closes) /\ 1..(j - 1) \subseteq 1..j
    BY <1>1, <1>2
  <1>4. Seen(closes, swing, j - 1)
    BY <1>3, ZigzagSeen
  <1>5. x = ZigzagStep(y, p, swing)
    BY <1>3, ZigzagIs
  <1>6. y \in Zigzags /\ y.first = closes[1] /\ p \in Nat \ {0}
    BY <1>1, <1>4 DEF Seen
  <1>7. PICK m \in 1..(j - 1) : y.extreme = closes[m]
    BY <1>4 DEF Seen
  <1>8. y.way = -1 => \E n \in 1..(j - 1) : 1000 * (closes[n] - y.extreme) >= swing
    BY <1>4 DEF Seen
  <1>9. y.way \in {0, 1, -1} /\ y.extreme \in Nat \ {0} /\ y.extreme <= p
    BY <1>3, <1>6, <1>7 DEF Zigzags
  <1>10. 1000 * (p - y.first) >= swing /\ y.first \in Nat \ {0}
    BY <1>1, <1>6
  <1> HIDE DEF x, y, p, z
  <1>11. Moved(y, p, swing, x)
    BY <1>5, <1>6, StepIs
  <1>12. CASE y.way = 0
    BY <1>6, <1>10, <1>11, <1>12 DEF Moved, x, z, p
  <1>13. CASE y.way = 1
    <2>1. 1000 * (y.extreme - p) < swing
      BY <1>6, <1>9
    <2> QED BY <1>6, <1>9, <1>11, <1>13, <2>1 DEF Moved, x, z, p
  <1>14. CASE y.way = -1
    <2>1. PICK n \in 1..(j - 1) : 1000 * (closes[n] - y.extreme) >= swing
      BY <1>8, <1>14
    <2>2. closes[n] \in Nat \ {0} /\ closes[n] <= p
      BY <1>1, <1>3, <2>1 DEF p
    <2>3. 1000 * (p - y.extreme) >= swing /\ ~(p < y.extreme)
      <3>1. closes[n] - y.extreme \in Int /\ p - y.extreme \in Int
        BY <1>6, <1>9, <2>2
      <3>2. p - y.extreme >= closes[n] - y.extreme
        BY <1>6, <1>9, <2>2
      <3>3. 1000 * (p - y.extreme) >= swing
        BY <2>1, <3>1, <3>2
      <3> QED BY <1>6, <1>9, <3>3
    <2>4. x.way = 1 /\ x.extreme = p
      BY <1>6, <1>9, <1>11, <1>14, <2>3 DEF Moved
    <2> QED BY <2>4 DEF x, z, p
  <1> QED BY <1>9, <1>12, <1>13, <1>14

\* ... and it is still there, or is a pivot, until the price is above it ...
LEMMA CeilingStays ==
    ASSUME NEW closes \in Seq(Nat \ {0}), closes # <<>>, NEW swing \in Nat \ {0},
           NEW j \in 1..Len(closes), NEW k \in j..Len(closes),
           1000 * (closes[j] - closes[1]) >= swing,
           \A i \in 1..k : closes[i] <= closes[j]
    PROVE  LET z == Zigzag(closes, swing)[k]
           IN closes[j] \in z.pivots \/ (z.way = 1 /\ z.extreme = closes[j])
  <1> DEFINE z == Zigzag(closes, swing)
             Kept(i) == closes[j] \in z[i].pivots \/ (z[i].way = 1 /\ z[i].extreme = closes[j])
             Bad == {i \in j..k : ~Kept(i)}
  <1>1. SUFFICES ASSUME Bad # {} PROVE FALSE
    OBVIOUS
  <1>2. PICK i \in Bad : \A m \in Bad : i <= m
    <2>1. Bad \in SUBSET Nat
      OBVIOUS
    <2> HIDE DEF Bad
    <2> QED BY <1>1, <2>1, LeastIs
  <1>3. /\ \A m \in 1..Len(closes) : closes[m] \in Nat \ {0}
        /\ i \in j..k /\ i \in 1..Len(closes) /\ j \in Nat /\ k \in Nat
    BY <1>2
  <1>4. i # j
    <2>1. \A m \in 1..j : closes[m] <= closes[j]
      OBVIOUS
    <2>2. Kept(j)
      BY <2>1, CeilingReached
    <2> QED BY <1>2, <2>2
  <1>5. i - 1 \in j..k /\ i - 1 \in 1..Len(closes) /\ i \in 2..Len(closes) /\ i - 1 \notin Bad /\ i \in 1..k
    BY <1>2, <1>3, <1>4
  <1> DEFINE y == z[i - 1]
             x == z[i]
             p == closes[i]
  <1>6. y \in Zigzags /\ p \in Nat \ {0} /\ p <= closes[j]
    BY <1>3, <1>5, ZigzagSeen DEF Seen
  <1>7. x = ZigzagStep(y, p, swing)
    BY <1>5, ZigzagIs
  <1>8. closes[j] \in y.pivots \/ (y.way = 1 /\ y.extreme = closes[j])
    BY <1>5
  <1> HIDE DEF x, y, p, z
  <1>9. Moved(y, p, swing, x)
    BY <1>6, <1>7, StepIs
  <1>10. closes[j] \in x.pivots \/ (x.way = 1 /\ x.extreme = closes[j])
    <2>1. CASE closes[j] \in y.pivots
      BY <1>9, <2>1 DEF Moved
    <2>2. CASE y.way = 1 /\ y.extreme = closes[j]
      <3>1. ~(p > y.extreme)
        BY <1>3, <1>6, <2>2
      <3> QED BY <1>9, <2>2, <3>1 DEF Moved
    <2> QED BY <1>8, <2>1, <2>2
  <1> QED BY <1>2, <1>10 DEF x

\* ... so that it is a pivot once the price has come back by a swing, and stays one:
\* zigzag_pivots misses no ceiling, whatever the closes and the threshold.
THEOREM CeilingIsPivot ==
    ASSUME NEW closes \in Seq(Nat \ {0}), closes # <<>>, NEW swing \in Nat \ {0},
           NEW j \in 1..Len(closes), Ceiling(closes, j, swing)
    PROVE  closes[j] \in Pivots(closes, swing)
  <1> DEFINE z == Zigzag(closes, swing)
             L == Len(closes)
  <1>1. PICK k \in j..L : 1000 * (closes[j] - closes[k]) >= swing /\ \A i \in 1..k : closes[i] <= closes[j]
    BY DEF Ceiling
  <1>2. /\ \A m \in 1..L : closes[m] \in Nat \ {0}
        /\ L \in Nat \ {0} /\ k \in 1..L /\ j \in Nat /\ k \in Nat
    BY <1>1
  <1>3. k # j
    BY <1>1, <1>2
  <1>4. k - 1 \in j..L /\ k - 1 \in 1..L /\ k \in 2..L /\ \A i \in 1..(k - 1) : closes[i] <= closes[j]
    BY <1>1, <1>2, <1>3
  <1> DEFINE y == z[k - 1]
             x == z[k]
             p == closes[k]
  <1>5. closes[j] \in y.pivots \/ (y.way = 1 /\ y.extreme = closes[j])
    BY <1>4, CeilingStays DEF Ceiling
  <1>6. y \in Zigzags /\ p \in Nat \ {0} /\ x = ZigzagStep(y, p, swing)
    <2>1. Seen(closes, swing, k - 1)
      BY <1>4, ZigzagSeen
    <2>2. x = ZigzagStep(y, p, swing)
      BY <1>4, ZigzagIs
    <2>3. p \in Nat \ {0}
      BY <1>2
    <2> QED BY <2>1, <2>2, <2>3 DEF Seen
  <1>7. closes[j] \in x.pivots
    <2> HIDE DEF x, y, z
    <2>1. Moved(y, p, swing, x)
      BY <1>6, StepIs
    <2>2. CASE closes[j] \in y.pivots
      BY <2>1, <2>2 DEF Moved
    <2>3. CASE y.way = 1 /\ y.extreme = closes[j]
      <3>1. 1000 * (y.extreme - p) >= swing /\ ~(p > y.extreme)
        BY <1>1, <1>2, <2>3
      <3> QED BY <2>1, <2>3, <3>1 DEF Moved
    <2> QED BY <1>5, <2>2, <2>3
  <1> DEFINE Bad == {i \in k..L : closes[j] \notin z[i].pivots}
  <1>8. Bad = {}
    <2>1. SUFFICES ASSUME Bad # {} PROVE FALSE
      OBVIOUS
    <2>2. PICK i \in Bad : \A m \in Bad : i <= m
      <3>1. Bad \in SUBSET Nat
        OBVIOUS
      <3> HIDE DEF Bad
      <3> QED BY <2>1, <3>1, LeastIs
    <2>3. i \in k..L /\ i # k /\ i \in 2..L /\ i - 1 \in 1..L /\ i - 1 \notin Bad /\ i - 1 \in k..L
      BY <1>2, <1>7, <2>2
    <2>4. closes[j] \in z[i - 1].pivots
      BY <2>3
    <2>5. z[i - 1] \in Zigzags /\ closes[i] \in Nat \ {0} /\ z[i] = ZigzagStep(z[i - 1], closes[i], swing)
      <3>1. Seen(closes, swing, i - 1)
        BY <2>3, ZigzagSeen
      <3>2. z[i] = ZigzagStep(z[i - 1], closes[i], swing)
        BY <2>3, ZigzagIs
      <3>3. closes[i] \in Nat \ {0}
        BY <1>2, <2>3
      <3> QED BY <3>1, <3>2, <3>3 DEF Seen
    <2>7. closes[j] \notin z[i].pivots
      BY <2>2
    <2> HIDE DEF z, Bad
    <2>6. Moved(z[i - 1], closes[i], swing, z[i])
      BY <2>5, StepIs
    <2> QED BY <2>4, <2>6, <2>7 DEF Moved
  <1>9. L \in k..L
    BY <1>2
  <1> QED BY <1>8, <1>9 DEF Pivots

\* The last of some elements are elements too.
LEMMA RecentIs ==
    ASSUME NEW T, NEW s \in Seq(T), s # <<>>, NEW n \in Nat \ {0}
    PROVE  Recent(s, n) \in Seq(T) /\ Recent(s, n) # <<>>
  <1>1. Len(s) \in Nat \ {0}
    OBVIOUS
  <1>2. CASE Len(s) <= n
    BY <1>2 DEF Recent
  <1>3. CASE ~(Len(s) <= n)
    <2> DEFINE a == Len(s) - n + 1
    <2>1. a \in 1..Len(s) /\ Recent(s, n) = SubSeq(s, a, Len(s))
      BY <1>1, <1>3 DEF Recent
    <2> HIDE DEF a
    <2>2. \A i \in a..Len(s) : s[i] \in T
      BY <1>1, <2>1
    <2>3. SubSeq(s, a, Len(s)) \in Seq(T) /\ Len(SubSeq(s, a, Len(s))) = Len(s) - a + 1
      BY <1>1, <2>1, <2>2
    <2>4. Len(Recent(s, n)) > 0 /\ Recent(s, n) \in Seq(T)
      BY <1>1, <2>1, <2>3
    <2> HIDE DEF Recent
    <2> QED BY <2>4
  <1> QED BY <1>2, <1>3

\* What is entered now is between its levels, on volume, without a rejection, not run
\* away, and under no ceiling that is near.
LEMMA EnteredIsClear ==
    ASSUME NEW frame \in Frames \union {Absent}, NEW rep, EntryQuality(frame, rep) = "ENTER_NOW"
    PROVE  LET now == Last(frame.closes)
               window == Recent(frame.closes, SwingBars)
           IN /\ frame # Absent /\ frame \in Frames
              /\ rep.stop < now /\ now < rep.target /\ frame.busy >= 1 /\ ~frame.wick /\ ~frame.far
              /\ \A j \in DOMAIN window :
                    Ceiling(window, j, now * SwingLevel) /\ window[j] > now => ~Within(now, window[j], NearLevel)
  <1> DEFINE closes == frame.closes
             now == Last(closes)
             window == Recent(closes, SwingBars)
             level == Resistance(closes, now)
             crossing == Breakout(closes, level, now)
             swing == now * SwingLevel
             above == {p \in Pivots(window, swing) : p > now}
  <1>1. frame # Absent /\ frame \in Frames
    BY DEF EntryQuality
  <1>2. /\ closes \in Seq(Nat \ {0}) /\ closes # <<>> /\ frame.busy \in Nat
        /\ SwingBars \in Nat \ {0} /\ SwingLevel \in Nat \ {0} /\ NearLevel \in Nat
    BY <1>1, ScanAssumption
  <1>3. now \in Nat \ {0}
    BY <1>2 DEF Last
  <1>4. swing \in Nat \ {0}
    BY <1>2, <1>3
  <1>5. window \in Seq(Nat \ {0}) /\ window # <<>> /\ DOMAIN window = 1..Len(window)
    <2> HIDE DEF closes
    <2>1. window \in Seq(Nat \ {0}) /\ window # <<>>
      BY <1>2, RecentIs
    <2> HIDE DEF window
    <2> QED BY <2>1
  <1>6. Pivots(window, swing) \subseteq Nat \ {0}
    <2>1. Len(window) \in 1..Len(window)
      BY <1>5
    <2>2. Zigzag(window, swing)[Len(window)] \in Zigzags
      <3> HIDE DEF window, swing
      <3> QED BY <1>4, <1>5, <2>1, ZigzagSeen DEF Seen
    <2> HIDE DEF window, swing
    <2> QED BY <2>2 DEF Pivots, Zigzags
  <1>7. level = IF Len(closes) < 2 \/ above = {} THEN 0 ELSE Min(above)
    BY DEF Resistance
  <1>8. level = 0 \/ (level \in above /\ \A p \in above : level <= p)
    <2>1. above \in SUBSET Nat
      BY <1>6
    <2> HIDE DEF above, level
    <2> QED BY <1>7, <2>1, LeastIs
  <1>9. level = 0 \/ (level \in Nat /\ level > now)
    BY <1>6, <1>8
  <1>10. crossing = "none"
    <2> HIDE DEF level
    <2>1. ~(level # 0 /\ now > level)
      BY <1>3, <1>9
    <2> QED BY <2>1 DEF Breakout
  <1>11. /\ rep.stop < now /\ now < rep.target /\ ~(frame.busy < 1) /\ ~frame.wick
         /\ ~(frame.far /\ crossing # "retesting")
         /\ ~(level # 0 /\ crossing = "none" /\ Within(now, level, NearLevel))
    <2> HIDE DEF level, crossing, now
    <2> QED BY <1>1 DEF EntryQuality, level, crossing, now
  <1>12. ASSUME NEW j \in DOMAIN window, Ceiling(window, j, swing), window[j] > now
         PROVE  ~Within(now, window[j], NearLevel)
    <2> DEFINE w == window[j]
    <2>1. w \in Nat \ {0} /\ w > now /\ j \in 1..Len(window)
      BY <1>5, <1>12
    <2>2. w \in Pivots(window, swing)
      <3> HIDE DEF window, swing
      <3> QED BY <1>4, <1>5, <1>12, <2>1, CeilingIsPivot
    <2>3. w \in above /\ above # {}
      BY <2>1, <2>2
    <2>4. ~(Len(closes) < 2)
      <3> SUFFICES ASSUME Len(closes) < 2 PROVE FALSE
        OBVIOUS
      <3>0. Len(closes) < 2
        OBVIOUS
      <3>1. Len(closes) = 1 /\ window = closes
        <4>1. Len(closes) \in Nat /\ Len(closes) # 0
          <5> HIDE DEF closes
          <5> QED BY <1>2
        <4>2. Len(closes) = 1 /\ Len(closes) <= SwingBars
          <5> HIDE DEF closes
          <5> QED BY <1>2, <3>0, <4>1
        <4> HIDE DEF closes
        <4> QED BY <4>2 DEF Recent
      <3>2. j = 1 /\ 1000 * (window[j] - window[1]) >= swing
        BY <1>12, <2>1, <3>1 DEF Ceiling
      <3> HIDE DEF window, swing
      <3> QED BY <1>4, <2>1, <3>2
    <2>5. level \in Nat /\ now < level /\ level <= w
      <3> HIDE DEF level, above, w
      <3>1. level # 0
        <4>1. above \in SUBSET Nat /\ 0 \notin above
          BY <1>6 DEF above
        <4> QED BY <1>7, <2>3, <2>4, <4>1, LeastIs
      <3> QED BY <1>8, <1>9, <2>3, <3>1
    <2>6. ~Within(now, level, NearLevel)
      BY <1>3, <1>10, <1>11, <2>5
    <2> DEFINE far(l) == 1000 * (l - now) > l * NearLevel
    <2>7. ASSUME NEW l \in Nat, l > now
          PROVE  Within(now, l, NearLevel) <=> ~far(l)
      <3>1. Max({now - l, l - now}) = l - now
        <4>1. \A a, b \in Int : a <= b => Max({a, b}) = b
          BY DEF Max
        <4>2. now - l \in Int /\ l - now \in Int /\ now - l <= l - now
          BY <1>3, <2>7
        <4> QED BY <4>1, <4>2
      <3>2. l * NearLevel \in Nat /\ 1000 * (l - now) \in Int
        BY <1>2, <1>3
      <3> HIDE DEF now
      <3> QED BY <3>1, <3>2 DEF Within
    <2>8. far(level)
      BY <2>5, <2>6, <2>7
    <2>9. far(w)
      <3> HIDE DEF w, level, now
      <3>1. NearLevel < 1000
        <4> SUFFICES ASSUME NearLevel >= 1000 PROVE FALSE
          BY <1>2
        <4>1. PICK e \in Nat : NearLevel = 1000 + e
          BY <1>2
        <4>2. level * NearLevel = level * 1000 + level * e /\ level * e \in Nat
          BY <2>5, <4>1
        <4>3. 1000 * (level - now) <= level * 1000
          BY <1>3, <2>5
        <4> QED BY <1>3, <2>5, <2>8, <4>2, <4>3
      <3>2. PICK d \in Nat : w = level + d
        BY <2>1, <2>5
      <3>3. d * NearLevel <= 1000 * d /\ d * NearLevel \in Nat
        BY <1>2, <3>1
      <3>4. w * NearLevel = level * NearLevel + d * NearLevel
        BY <1>2, <2>5, <3>2
      <3>5. level * NearLevel \in Nat
        BY <1>2, <2>5
      <3> QED BY <1>3, <2>5, <2>8, <3>2, <3>3, <3>4, <3>5
    <2> QED BY <2>1, <2>7, <2>9
  <1> HIDE DEF now, level, crossing, window, swing
  <1>13. frame.busy >= 1 /\ ~frame.far
    BY <1>2, <1>10, <1>11
  <1> QED BY <1>1, <1>11, <1>12, <1>13 DEF now, window, swing

-----------------------------------------------------------------------------
(* The scan: the symbol in hand, and the accounts of those that are done.  *)

FirstPlaces == Fresh(Watchlist, LAMBDA i : Watchlist[i])
Taken == {Watchlist[i] : i \in FirstPlaces \ todo}
InHand == IF stage \in {"entry", "predict"} THEN {cur.symbol} ELSE {}

ScanTypes ==
    /\ todo \subseteq FirstPlaces /\ stage \in {"fetch", "entry", "predict", "ranked"}
    /\ InHand \subseteq Taken /\ DOMAIN statuses = Taken \ InHand
    /\ funnel \in [Counters -> Nat]
    /\ found \in Seq([symbol : ToSet(Watchlist), score : Int])
    /\ stage = "ranked" => todo = {}

Whole(c) == c = [symbol |-> c.symbol, cells |-> c.cells, frame |-> c.frame, ml |-> c.ml,
                 origin |-> c.origin, verdict |-> c.verdict]

\* Between its first part and its end a symbol has an origin that counted, and past the
\* judgement of its entry a frame that allows it.
HandInv ==
    /\ Whole(cur) /\ Batches(cur.cells)
    /\ stage \in {"entry", "predict"} =>
            cur.verdict = "none" /\ RoleOk(cur.cells, NoPredictions, cur.origin)
    /\ stage = "predict" =>
            cur.frame \in Frames \union {Absent} /\ EntryQuality(cur.frame, Representative(cur)) = "ENTER_NOW"
    /\ cur.verdict = "BUY_SETUP" => Sound(cur)

Judging == IF stage = "entry" THEN 1 ELSE 0
Asking == IF stage = "predict" THEN 1 ELSE 0
Offered(list) == {list[i].symbol : i \in DOMAIN list}
Bought(table) == {s \in DOMAIN table : table[s].stage = "BUY_SETUP"}

Count(table, stages) == Cardinality({s \in DOMAIN table : table[s].stage \in stages})

\* The counters are the sums of the statuses, but for the symbol in hand.
CountersInv ==
    /\ funnel.raw >= funnel.consolidated /\ funnel.consolidated >= funnel.setups
    /\ IF Predicting THEN funnel.scored <= Cardinality(ToSet(Confirming)) * (funnel.candidates - Asking)
                     ELSE funnel.scored = 0
    /\ funnel.setups = funnel.confirmed + Number({"MTF_CONFLICT"}) + Number({"MTF_MISSING_DATA"})
    /\ funnel.missing = Number({"MTF_MISSING_DATA"}) /\ funnel.conflict = Number({"MTF_CONFLICT"})
    /\ funnel.confirmed = funnel.entry + Judging + Number({"NO_PRIMARY_SETUP", "ENTRY_NOT_READY"})
    /\ funnel.entry = Len(found) + Asking + Number({"ML_NOT_CONFIRMED"})
    /\ Predicting => funnel.candidates = funnel.entry /\ funnel.qualified = Len(found)

FoundInv ==
    /\ Bought(statuses) = Offered(found)
    /\ \A i, j \in DOMAIN found : i # j => found[i].symbol # found[j].symbol
    /\ stage = "ranked" => \A i, j \in DOMAIN found : i < j => found[i].score >= found[j].score

SetupInv == ScanTypes /\ HandInv /\ CountersInv /\ FoundInv

\* The watchlist is finite, and a symbol has one first place.
LEMMA PlacesAre ==
    /\ IsFiniteSet(FirstPlaces) /\ FirstPlaces \subseteq Nat /\ FirstPlaces \subseteq DOMAIN Watchlist
    /\ \A i, j \in FirstPlaces : Watchlist[i] = Watchlist[j] => i = j
    /\ {Watchlist[i] : i \in FirstPlaces} = ToSet(Watchlist)
  <1>1. DOMAIN Watchlist = 1..Len(Watchlist) /\ Len(Watchlist) \in Nat
    <2>1. Watchlist \in Seq(ToSet(Watchlist))
      BY ScanAssumption
    <2> QED BY <2>1
  <1>2. FirstPlaces \subseteq DOMAIN Watchlist
    BY DEF FirstPlaces, Fresh
  <1>3. IsFiniteSet(DOMAIN Watchlist) /\ IsFiniteSet(FirstPlaces)
    <2>1. IsFiniteSet(1..Len(Watchlist))
      BY <1>1, FS_Interval
    <2> QED BY <1>1, <1>2, <2>1, FS_Subset
  <1>4. ASSUME NEW i \in FirstPlaces, NEW j \in FirstPlaces, Watchlist[i] = Watchlist[j]
        PROVE  i = j
    <2>1. ~(i < j) /\ ~(j < i)
      BY <1>2, <1>4 DEF FirstPlaces, Fresh
    <2> QED BY <1>1, <1>2, <2>1
  <1>5. ASSUME NEW k \in DOMAIN Watchlist
        PROVE  \E i \in FirstPlaces : Watchlist[i] = Watchlist[k]
    <2> DEFINE T == {i \in DOMAIN Watchlist : Watchlist[i] = Watchlist[k]}
    <2>1. T \in SUBSET Nat /\ k \in T
      BY <1>1
    <2>2. Min(T) \in T /\ \A m \in T : Min(T) <= m
      <3> HIDE DEF T
      <3> QED BY <2>1, LeastIs
    <2> DEFINE i == Min(T)
    <2>3. i \in DOMAIN Watchlist /\ Watchlist[i] = Watchlist[k] /\ \A j \in T : i <= j
      BY <2>2
    <2> HIDE DEF i
    <2>4. \A j \in DOMAIN Watchlist : j < i => Watchlist[j] # Watchlist[i]
      BY <1>1, <2>3
    <2>5. i \in FirstPlaces
      BY <2>3, <2>4 DEF FirstPlaces, Fresh
    <2> QED BY <2>3, <2>5
  <1> QED BY <1>1, <1>2, <1>3, <1>4, <1>5 DEF ToSet

-----------------------------------------------------------------------------
(* What the counters count.                                               *)

\* The symbols and the timeframes are finitely many.
LEMMA ListIsFinite ==
    ASSUME NEW s \in {Watchlist, Confirming}
    PROVE  IsFiniteSet(ToSet(s))
  <1> DEFINE D == DOMAIN s
             T == {s[i] : i \in D}
             f == [i \in D |-> s[i]]
  <1>1. IsFiniteSet(D)
    <2>1. s \in Seq(ToSet(s))
      BY ScanAssumption
    <2>2. D = 1..Len(s) /\ Len(s) \in Nat
      BY <2>1
    <2>3. IsFiniteSet(1..Len(s))
      BY <2>2, FS_Interval
    <2> QED BY <2>2, <2>3
  <1>2. f \in Surjection(D, T)
    BY DEF Surjection
  <1>3. IsFiniteSet(T)
    <2> HIDE DEF D, T, f
    <2> QED BY <1>1, <1>2, FS_Surjection
  <1> QED BY <1>3 DEF ToSet

\* Pairs of finitely many timeframes with finitely many places each.
LEMMA PairsAreFinite ==
    ASSUME NEW U, IsFiniteSet(U), NEW part, \A tf \in U : IsFiniteSet(part[tf])
    PROVE  IsFiniteSet(UNION {{tf} \X part[tf] : tf \in U})
  <1> DEFINE T == {{tf} \X part[tf] : tf \in U}
             f == [tf \in U |-> {tf} \X part[tf]]
  <1>1. f \in Surjection(U, T)
    BY DEF Surjection
  <1>2. IsFiniteSet(T)
    <2> HIDE DEF T, f
    <2> QED BY <1>1, FS_Surjection
  <1>3. \A tf \in U : IsFiniteSet({tf} \X part[tf])
    BY FS_Singleton, FS_Product
  <1>4. \A t \in T : IsFiniteSet(t)
    BY <1>3
  <1> HIDE DEF T
  <1>5. IsFiniteSet(UNION T)
    BY <1>2, <1>4, FS_UNION
  <1> QED BY <1>5 DEF T

\* A batch that is not empty has a first signal, and it is kept.
LEMMA SomethingIsKept ==
    ASSUME NEW b, GoodBatch(b), DOMAIN b # {}
    PROVE  Consolidate(b) # {}
  <1>1. Min(DOMAIN b) \in DOMAIN b /\ \A m \in DOMAIN b : Min(DOMAIN b) <= m
    BY LeastIs DEF GoodBatch
  <1> DEFINE n == Min(DOMAIN b)
  <1>2. n \in DOMAIN b /\ \A m \in DOMAIN b : n <= m
    BY <1>1
  <1> HIDE DEF n
  <1>3. \A m \in DOMAIN b : ~(m < n)
    BY <1>2 DEF GoodBatch
  <1>4. b[n].direction # "HOLD"
    BY <1>2 DEF GoodBatch
  <1> QED BY <1>2, <1>3, <1>4 DEF Consolidate, Fresh

\* What one symbol adds: a batch with signals keeps one, no more than it has, and a timeframe
\* is scored once.
LEMMA CellsCounted ==
    ASSUME NEW c, Batches(c.cells)
    PROVE  /\ {Added(c, "raw"), Added(c, "consolidated"), Added(c, "scored")} \subseteq Nat
           /\ Added(c, "consolidated") <= Added(c, "raw")
           /\ (\E tf \in Usable(c.cells) : DOMAIN c.cells[tf] # {}) => Added(c, "consolidated") >= 1
           /\ Added(c, "scored") <= Cardinality(ToSet(Confirming))
           /\ \A k \in Counters \ {"raw", "consolidated", "scored"} : Added(c, k) = 1
  <1> DEFINE U == Usable(c.cells)
             all == [tf \in U |-> DOMAIN c.cells[tf]]
             kept == [tf \in U |-> Consolidate(c.cells[tf])]
             R == UNION {{tf} \X all[tf] : tf \in U}
             K == UNION {{tf} \X kept[tf] : tf \in U}
             F == {tf \in Filled(c.cells) : Said(c.ml[tf])}
  <1>1. U \subseteq ToSet(Confirming) /\ \A tf \in U : GoodBatch(c.cells[tf])
    BY DEF Usable, Batches
  <1>2. IsFiniteSet(U) /\ IsFiniteSet(ToSet(Confirming))
    BY <1>1, ListIsFinite, FS_Subset
  <1>3. \A tf \in U : kept[tf] \subseteq all[tf]
    BY DEF Consolidate, Fresh
  <1>4. IsFiniteSet(R)
    <2>1. \A tf \in U : IsFiniteSet(all[tf])
      BY <1>1 DEF GoodBatch
    <2> HIDE DEF U, all
    <2> QED BY <1>2, <2>1, PairsAreFinite
  <1>5. K \subseteq R
    <2> HIDE DEF U, all, kept
    <2> QED BY <1>3
  <1>6. /\ IsFiniteSet(K) /\ Cardinality(K) \in Nat /\ Cardinality(R) \in Nat
        /\ Cardinality(K) <= Cardinality(R)
    <2> HIDE DEF K, R
    <2> QED BY <1>4, <1>5, FS_Subset, FS_CardinalityType
  <1>7. Added(c, "raw") = Cardinality(R) /\ Added(c, "consolidated") = Cardinality(K)
    <2>1. \A tf \in U : all[tf] = DOMAIN c.cells[tf] /\ kept[tf] = Consolidate(c.cells[tf])
      OBVIOUS
    <2>2. R = UNION {{tf} \X DOMAIN c.cells[tf] : tf \in U}
      BY <2>1
    <2>3. K = UNION {{tf} \X Consolidate(c.cells[tf]) : tf \in U}
      BY <2>1
    <2>4. Added(c, "raw") = Cardinality(UNION {{tf} \X DOMAIN c.cells[tf] : tf \in U})
      BY DEF Added, InCells
    <2>5. Added(c, "consolidated") = Cardinality(UNION {{tf} \X Consolidate(c.cells[tf]) : tf \in U})
      BY DEF Added, InCells
    <2> HIDE DEF R, K, U
    <2> QED BY <2>2, <2>3, <2>4, <2>5
  <1>8. ASSUME NEW tf \in U, DOMAIN c.cells[tf] # {}
        PROVE  Cardinality(K) >= 1
    <2>1. kept[tf] # {}
      BY <1>1, <1>8, SomethingIsKept
    <2>2. K # {}
      <3>1. PICK k : k \in kept[tf]
        <4> HIDE DEF kept
        <4> QED BY <2>1
      <3> HIDE DEF kept, U
      <3>2. <<tf, k>> \in {tf} \X kept[tf]
        BY <3>1
      <3>3. {tf} \X kept[tf] \in {{x} \X kept[x] : x \in U}
        BY <1>8
      <3>4. <<tf, k>> \in K
        BY <3>2, <3>3
      <3> QED BY <3>4
    <2> HIDE DEF K
    <2>3. Cardinality(K) # 0
      BY <1>6, <2>2, FS_EmptySet
    <2> QED BY <1>6, <2>3
  <1>9. Added(c, "scored") = Cardinality(F)
    BY DEF Added
  <1>10. Cardinality(F) \in Nat /\ Cardinality(F) <= Cardinality(ToSet(Confirming))
    <2>1. F \subseteq ToSet(Confirming)
      BY DEF Filled, Usable
    <2> HIDE DEF F
    <2> QED BY <1>2, <2>1, FS_Subset, FS_CardinalityType
  <1>11. \A k \in Counters \ {"raw", "consolidated", "scored"} : Added(c, k) = 1
    BY DEF Added
  <1> HIDE DEF R, K, F
  <1> QED BY <1>6, <1>7, <1>8, <1>9, <1>10, <1>11

\* Only symbols of the watchlist have a status.
LEMMA StatusesAreFinite ==
    ASSUME ScanTypes
    PROVE  IsFiniteSet(DOMAIN statuses) /\ Taken \subseteq ToSet(Watchlist)
  <1>1. IsFiniteSet(ToSet(Watchlist)) /\ Taken \subseteq ToSet(Watchlist)
    BY ListIsFinite, PlacesAre DEF Taken
  <1>2. DOMAIN statuses \subseteq ToSet(Watchlist)
    BY <1>1 DEF ScanTypes
  <1> QED BY <1>1, <1>2, FS_Subset

\* What was counted.
LEMMA TalliedIs ==
    ASSUME ScanTypes, NEW c, Batches(c.cells), NEW counted, funnel' = Tally(c, counted)
    PROVE  /\ funnel' \in [Counters -> Nat]
           /\ \A k \in Counters : /\ {funnel[k], Added(c, k)} \subseteq Nat
                                  /\ funnel'[k] = funnel[k] + (IF k \in counted THEN Added(c, k) ELSE 0)
  <1>1. \A k \in Counters : Added(c, k) \in Nat /\ funnel[k] \in Nat
    BY CellsCounted DEF ScanTypes
  <1>2. \A k \in Counters : funnel'[k] = funnel[k] + (IF k \in counted THEN Added(c, k) ELSE 0)
    BY <1>1 DEF Tally
  <1>3. \A k \in Counters : funnel'[k] \in Nat
    BY <1>1, <1>2
  <1> QED BY <1>1, <1>2, <1>3 DEF Tally

\* The verdict is not part of what makes a setup sound.
LEMMA SoundStays ==
    ASSUME NEW c, Whole(c), Sound(c), NEW verdict
    PROVE  Sound([c EXCEPT !.verdict = verdict])
  <1> DEFINE d == [c EXCEPT !.verdict = verdict]
  <1>1. d.cells = c.cells /\ d.frame = c.frame /\ d.origin = c.origin
    BY DEF Whole
  <1> HIDE DEF d
  <1>2. \A tf : Backs(d, tf) <=> Backs(c, tf)
    BY <1>1 DEF Backs
  <1>3. {tf \in Roles \intersect ToSet(Confirming) : Backs(d, tf)}
            = {tf \in Roles \intersect ToSet(Confirming) : Backs(c, tf)}
    BY <1>2
  <1>4. Representative(d) = Representative(c)
    BY <1>1 DEF Representative
  <1>5. Sound(d)
    BY <1>1, <1>2, <1>3, <1>4 DEF Sound
  <1> QED BY <1>5 DEF d

Later(verdict) == IF verdict = "BUY_SETUP" THEN 1 ELSE 0

\* One status more counts for the stages it is of.
LEMMA StatusIsWritten ==
    ASSUME IsFiniteSet(DOMAIN statuses), NEW x, x \notin DOMAIN statuses, NEW verdict,
           statuses' = [s \in DOMAIN statuses \union {x} |->
                           IF s = x THEN [stage |-> verdict, score |-> 0] ELSE statuses[s]]
    PROVE  /\ \A S : /\ Count(statuses, S) \in Nat
                     /\ Count(statuses', S) = Count(statuses, S) + (IF verdict \in S THEN 1 ELSE 0)
           /\ Bought(statuses') = Bought(statuses) \union (IF verdict = "BUY_SETUP" THEN {x} ELSE {})
  <1>1. DOMAIN statuses' = DOMAIN statuses \union {x} /\ statuses'[x].stage = verdict
        /\ \A s \in DOMAIN statuses : statuses'[s] = statuses[s]
    OBVIOUS
  <1>2. \A S : /\ Count(statuses, S) \in Nat
               /\ Count(statuses', S) = Count(statuses, S) + (IF verdict \in S THEN 1 ELSE 0)
    <2> SUFFICES ASSUME NEW S
                 PROVE  /\ Count(statuses, S) \in Nat
                        /\ Count(statuses', S) = Count(statuses, S) + (IF verdict \in S THEN 1 ELSE 0)
      OBVIOUS
    <2> DEFINE A == {s \in DOMAIN statuses : statuses[s].stage \in S}
               B == {s \in DOMAIN statuses' : statuses'[s].stage \in S}
    <2>1. IsFiniteSet(A) /\ Cardinality(A) \in Nat /\ x \notin A
      BY FS_Subset, FS_CardinalityType
    <2>2. CASE verdict \in S
      <3>1. B = A \union {x}
        BY <2>2
      <3> HIDE DEF A, B
      <3>2. Cardinality(B) = Cardinality(A) + 1
        BY <2>1, <3>1, FS_AddElement
      <3> QED BY <2>1, <2>2, <3>2 DEF A, B, Count
    <2>3. CASE verdict \notin S
      <3>1. B = A
        BY <2>3
      <3> HIDE DEF A, B
      <3>2. Cardinality(B) = Cardinality(A) + 0
        BY <2>1, <3>1
      <3> QED BY <2>1, <2>3, <3>2 DEF A, B, Count
    <2> QED BY <2>2, <2>3
  <1>3. Bought(statuses') = Bought(statuses) \union (IF verdict = "BUY_SETUP" THEN {x} ELSE {})
    BY <1>1 DEF Bought
  <1> QED BY <1>2, <1>3

\* What a step did to the accounts, verdict being none for a symbol that goes on.
Accounted(c, verdict, counted) ==
    /\ Len(found) \in Nat /\ Len(found') = Len(found) + Later(verdict)
    /\ Number({"MTF_CONFLICT"}) \in Nat /\ Number({"MTF_MISSING_DATA"}) \in Nat
    /\ Number({"NO_PRIMARY_SETUP", "ENTRY_NOT_READY"}) \in Nat /\ Number({"ML_NOT_CONFIRMED"}) \in Nat
    /\ Number({"MTF_CONFLICT"})' = Number({"MTF_CONFLICT"}) + (IF verdict \in {"MTF_CONFLICT"} THEN 1 ELSE 0)
    /\ Number({"MTF_MISSING_DATA"})'
         = Number({"MTF_MISSING_DATA"}) + (IF verdict \in {"MTF_MISSING_DATA"} THEN 1 ELSE 0)
    /\ Number({"NO_PRIMARY_SETUP", "ENTRY_NOT_READY"})'
         = Number({"NO_PRIMARY_SETUP", "ENTRY_NOT_READY"})
             + (IF verdict \in {"NO_PRIMARY_SETUP", "ENTRY_NOT_READY"} THEN 1 ELSE 0)
    /\ Number({"ML_NOT_CONFIRMED"})'
         = Number({"ML_NOT_CONFIRMED"}) + (IF verdict \in {"ML_NOT_CONFIRMED"} THEN 1 ELSE 0)
    /\ \A k \in Counters : /\ {funnel[k], Added(c, k)} \subseteq Nat
                           /\ funnel'[k] = funnel[k] + (IF k \in counted THEN Added(c, k) ELSE 0)

\* A symbol that is done.
LEMMA SettleKeeps ==
    ASSUME ScanTypes, FoundInv, NEW c, Whole(c), Batches(c.cells),
           c.symbol \in ToSet(Watchlist), c.symbol \notin DOMAIN statuses,
           NEW verdict, NEW counted, NEW more,
           IF verdict = "BUY_SETUP" THEN \E n \in Int : more = <<[symbol |-> c.symbol, score |-> n]>>
                                    ELSE more = <<>>,
           Settle(c, verdict, counted, more),
           todo' \subseteq FirstPlaces, Taken' = DOMAIN statuses \union {c.symbol},
           verdict = "BUY_SETUP" => Sound(c)
    PROVE  /\ ScanTypes' /\ HandInv' /\ FoundInv' /\ stage' = "fetch"
           /\ Accounted(c, verdict, counted)
  <1> DEFINE sym == c.symbol
  <1>1. /\ cur' = [c EXCEPT !.verdict = verdict] /\ funnel' = Tally(c, counted)
        /\ found' = found \o more /\ stage' = "fetch"
        /\ statuses' = [s \in DOMAIN statuses \union {sym} |->
                           IF s = sym THEN [stage |-> verdict, score |-> 0] ELSE statuses[s]]
    BY DEF Settle
  <1>2. IsFiniteSet(DOMAIN statuses)
    BY StatusesAreFinite
  <1>3. /\ \A S : /\ Count(statuses, S) \in Nat
                  /\ Count(statuses', S) = Count(statuses, S) + (IF verdict \in S THEN 1 ELSE 0)
        /\ Bought(statuses') = Bought(statuses) \union (IF verdict = "BUY_SETUP" THEN {sym} ELSE {})
    <2>1. sym \notin DOMAIN statuses
      OBVIOUS
    <2> HIDE DEF sym
    <2> QED BY <1>1, <1>2, <2>1, StatusIsWritten
  <1>4. /\ Number({"MTF_CONFLICT"}) \in Nat /\ Number({"MTF_MISSING_DATA"}) \in Nat
        /\ Number({"NO_PRIMARY_SETUP", "ENTRY_NOT_READY"}) \in Nat /\ Number({"ML_NOT_CONFIRMED"}) \in Nat
    BY <1>3 DEF Number, Count
  <1>5. Number({"MTF_CONFLICT"})' = Number({"MTF_CONFLICT"}) + (IF verdict \in {"MTF_CONFLICT"} THEN 1 ELSE 0)
    BY <1>3 DEF Number, Count
  <1>6. Number({"MTF_MISSING_DATA"})'
            = Number({"MTF_MISSING_DATA"}) + (IF verdict \in {"MTF_MISSING_DATA"} THEN 1 ELSE 0)
    BY <1>3 DEF Number, Count
  <1>7. Number({"NO_PRIMARY_SETUP", "ENTRY_NOT_READY"})'
            = Number({"NO_PRIMARY_SETUP", "ENTRY_NOT_READY"})
                + (IF verdict \in {"NO_PRIMARY_SETUP", "ENTRY_NOT_READY"} THEN 1 ELSE 0)
    BY <1>3 DEF Number, Count
  <1>8. Number({"ML_NOT_CONFIRMED"})'
            = Number({"ML_NOT_CONFIRMED"}) + (IF verdict \in {"ML_NOT_CONFIRMED"} THEN 1 ELSE 0)
    BY <1>3 DEF Number, Count
  <1>9. /\ funnel' \in [Counters -> Nat]
        /\ \A k \in Counters : /\ {funnel[k], Added(c, k)} \subseteq Nat
                               /\ funnel'[k] = funnel[k] + (IF k \in counted THEN Added(c, k) ELSE 0)
    BY <1>1, TalliedIs
  <1> DEFINE Offer == [symbol : ToSet(Watchlist), score : Int]
  <1>10. /\ found \in Seq(Offer) /\ found' \in Seq(Offer) /\ Len(found) \in Nat
         /\ Len(found') = Len(found) + Later(verdict)
         /\ \A i \in DOMAIN found : i \in DOMAIN found' /\ found'[i] = found[i]
         /\ \A i \in DOMAIN found' : i \in DOMAIN found \/ (verdict = "BUY_SETUP" /\ i = Len(found) + 1
                                                              /\ found'[i].symbol = sym)
         /\ verdict = "BUY_SETUP" => \E i \in DOMAIN found' : found'[i].symbol = sym
    <2>1. found \in Seq(Offer)
      BY DEF ScanTypes
    <2>2. CASE verdict = "BUY_SETUP"
      <3>0. PICK n \in Int : more = <<[symbol |-> sym, score |-> n]>>
        BY <2>2
      <3> DEFINE x == [symbol |-> sym, score |-> n]
      <3>1. found' = found \o <<x>> /\ Later(verdict) = 1
        BY <1>1, <2>2, <3>0 DEF Later
      <3>. x \in Offer /\ x.symbol = sym
        OBVIOUS
      <3> HIDE DEF x, Offer, sym
      <3>2. /\ found' \in Seq(Offer) /\ Len(found') = Len(found) + 1 /\ Len(found) \in Nat
            /\ DOMAIN found = 1..Len(found) /\ DOMAIN found' = 1..(Len(found) + 1)
            /\ \A i \in 1..Len(found) : found'[i] = found[i]
            /\ found'[Len(found) + 1] = x
        BY <2>1, <3>1
      <3>3. \A i \in DOMAIN found : i \in DOMAIN found' /\ found'[i] = found[i]
        BY <3>2
      <3>4. \A i \in DOMAIN found' : i \in DOMAIN found \/ (i = Len(found) + 1 /\ found'[i].symbol = sym)
        BY <2>1, <3>2
      <3>5. Len(found) + 1 \in DOMAIN found' /\ found'[Len(found) + 1].symbol = sym
        BY <2>1, <3>2
      <3> QED BY <2>1, <2>2, <3>1, <3>2, <3>3, <3>4, <3>5
    <2>3. CASE verdict # "BUY_SETUP"
      <3>1. found' = found /\ Later(verdict) = 0
        <4> HIDE DEF Offer
        <4> QED BY <1>1, <2>1, <2>3 DEF Later
      <3> HIDE DEF Offer
      <3> QED BY <2>1, <2>3, <3>1
    <2> QED BY <2>2, <2>3
  <1>11. ScanTypes'
    <2>1. DOMAIN statuses' = DOMAIN statuses \union {sym}
      BY <1>1
    <2>2. stage' = "fetch" /\ InHand' = {}
      BY <1>1 DEF InHand
    <2> QED BY <1>9, <1>10, <2>1, <2>2 DEF ScanTypes
  <1>12. HandInv'
    <2>1. Whole(cur') /\ cur'.cells = c.cells /\ cur'.verdict = verdict
      BY <1>1 DEF Whole
    <2>2. cur'.verdict = "BUY_SETUP" => Sound(cur')
      BY <1>1, <2>1, SoundStays
    <2> QED BY <1>1, <2>1, <2>2 DEF HandInv, Batches
  <1>13. FoundInv'
    <2>1. Bought(statuses) = Offered(found) /\ \A i, j \in DOMAIN found : i # j => found[i].symbol # found[j].symbol
      BY DEF FoundInv
    <2>2. \A i \in DOMAIN found : found[i].symbol # sym
      BY <2>1 DEF Bought, Offered
    <2>3. Offered(found') = Offered(found) \union (IF verdict = "BUY_SETUP" THEN {sym} ELSE {})
      <3> HIDE DEF sym
      <3> QED BY <1>10 DEF Offered
    <2>4. \A i, j \in DOMAIN found' : i # j => found'[i].symbol # found'[j].symbol
      BY <1>10, <2>1, <2>2
    <2> QED BY <1>1, <1>3, <2>1, <2>3, <2>4 DEF FoundInv
  <1>14. Accounted(c, verdict, counted)
    BY <1>4, <1>5, <1>6, <1>7, <1>8, <1>9, <1>10 DEF Accounted
  <1> QED BY <1>1, <1>11, <1>12, <1>13, <1>14

\* A symbol that goes on.
LEMMA ProceedKeeps ==
    ASSUME ScanTypes, FoundInv, NEW c, Whole(c), Batches(c.cells), NEW next \in {"entry", "predict"}, NEW counted,
           Proceed(c, next, counted), c.verdict = "none", RoleOk(c.cells, NoPredictions, c.origin),
           todo' \subseteq FirstPlaces, c.symbol \in Taken', DOMAIN statuses = Taken' \ {c.symbol},
           next = "predict" =>
                c.frame \in Frames \union {Absent} /\ EntryQuality(c.frame, Representative(c)) = "ENTER_NOW"
    PROVE  /\ ScanTypes' /\ HandInv' /\ FoundInv' /\ stage' = next
           /\ Accounted(c, "none", counted)
  <1>1. cur' = c /\ stage' = next /\ funnel' = Tally(c, counted) /\ statuses' = statuses /\ found' = found
    BY DEF Proceed
  <1>2. \A S : Cardinality({s \in DOMAIN statuses : statuses[s].stage \in S}) \in Nat
    <2>1. \A S : IsFiniteSet({s \in DOMAIN statuses : statuses[s].stage \in S})
      BY StatusesAreFinite, FS_Subset
    <2> QED BY <2>1, FS_CardinalityType
  <1>3. /\ funnel' \in [Counters -> Nat]
        /\ \A k \in Counters : /\ {funnel[k], Added(c, k)} \subseteq Nat
                               /\ funnel'[k] = funnel[k] + (IF k \in counted THEN Added(c, k) ELSE 0)
    BY <1>1, TalliedIs
  <1>4. /\ Number({"MTF_CONFLICT"})' = Number({"MTF_CONFLICT"})
        /\ Number({"MTF_MISSING_DATA"})' = Number({"MTF_MISSING_DATA"})
        /\ Number({"NO_PRIMARY_SETUP", "ENTRY_NOT_READY"})' = Number({"NO_PRIMARY_SETUP", "ENTRY_NOT_READY"})
        /\ Number({"ML_NOT_CONFIRMED"})' = Number({"ML_NOT_CONFIRMED"})
    BY <1>1 DEF Number
  <1>5. /\ Number({"MTF_CONFLICT"}) \in Nat /\ Number({"MTF_MISSING_DATA"}) \in Nat
        /\ Number({"NO_PRIMARY_SETUP", "ENTRY_NOT_READY"}) \in Nat /\ Number({"ML_NOT_CONFIRMED"}) \in Nat
    BY <1>2 DEF Number
  <1>6. ScanTypes'
    <2>1. InHand' = {c.symbol} /\ stage' \in {"entry", "predict"}
      BY <1>1 DEF InHand
    <2> QED BY <1>1, <1>3, <2>1 DEF ScanTypes
  <1>7. HandInv'
    <2>1. cur'.verdict = "none" /\ RoleOk(cur'.cells, NoPredictions, cur'.origin) /\ Batches(cur'.cells)
          /\ Whole(cur')
      BY <1>1
    <2>2. stage' = "predict" => cur'.frame \in Frames \union {Absent}
                                /\ EntryQuality(cur'.frame, Representative(cur')) = "ENTER_NOW"
      BY <1>1
    <2> QED BY <2>1, <2>2 DEF HandInv
  <1>8. FoundInv'
    BY <1>1 DEF FoundInv
  <1>9. Len(found) \in Nat
    BY DEF ScanTypes
  <1>10. Accounted(c, "none", counted)
    <2>1. Len(found') = Len(found) + Later("none")
      BY <1>1, <1>9 DEF Later
    <2> QED BY <1>3, <1>4, <1>5, <1>9, <2>1 DEF Accounted
  <1> QED BY <1>1, <1>6, <1>7, <1>8, <1>10

\* A symbol in hand is a whole one.
LEMMA WholeStays ==
    ASSUME NEW c, Whole(c), NEW x, NEW d
    PROVE  /\ d = [c EXCEPT !.origin = x] => /\ Whole(d) /\ d.origin = x
                                            /\ d.symbol = c.symbol /\ d.cells = c.cells /\ d.verdict = c.verdict
           /\ d = [c EXCEPT !.frame = x] => /\ Whole(d) /\ d.frame = x /\ d.origin = c.origin
                                            /\ d.symbol = c.symbol /\ d.cells = c.cells /\ d.verdict = c.verdict
           /\ d = [c EXCEPT !.ml = x] => /\ Whole(d) /\ d.ml = x /\ d.frame = c.frame /\ d.origin = c.origin
                                         /\ d.symbol = c.symbol /\ d.cells = c.cells /\ d.verdict = c.verdict
  BY DEF Whole

\* What is left of a batch for a scan that only buys is a batch.
LEMMA HeardIsGood ==
    ASSUME NEW b, b # Absent => GoodBatch(b), Heard(b) # Absent
    PROVE  GoodBatch(Heard(b))
  <1>1. b # Absent /\ GoodBatch(b)
    BY DEF Heard
  <1>2. CASE LongOnly
    <2> DEFINE S == {i \in DOMAIN b : b[i].direction = "BUY"}
    <2>1. Heard(b) = [i \in S |-> b[i]]
      BY <1>1, <1>2 DEF Heard, Restrict
    <2>2. S \subseteq DOMAIN b /\ IsFiniteSet(S)
      BY <1>1, FS_Subset DEF GoodBatch
    <2> HIDE DEF S
    <2> QED BY <1>1, <2>1, <2>2 DEF GoodBatch
  <1>3. CASE ~LongOnly
    BY <1>1, <1>3 DEF Heard
  <1> QED BY <1>2, <1>3

\* The accounts, when a symbol with signals is done or goes on to the judgement of its entry.
LEMMA SetupCounted ==
    ASSUME CountersInv, stage = "fetch", NEW c, Batches(c.cells), \E tf \in Usable(c.cells) : DOMAIN c.cells[tf] # {},
           NEW verdict, NEW own, Accounted(c, verdict, Setup \union {own}),
           \/ verdict = "MTF_CONFLICT" /\ own = "conflict" /\ stage' = "fetch"
           \/ verdict = "MTF_MISSING_DATA" /\ own = "missing" /\ stage' = "fetch"
           \/ verdict = "NO_PRIMARY_SETUP" /\ own = "confirmed" /\ stage' = "fetch"
           \/ verdict = "none" /\ own = "confirmed" /\ stage' = "entry"
    PROVE  CountersInv'
  <1>1. /\ {Added(c, "raw"), Added(c, "consolidated")} \subseteq Nat
        /\ Added(c, "raw") >= Added(c, "consolidated") /\ Added(c, "consolidated") >= 1
        /\ \A k \in {"setups", "conflict", "missing", "confirmed"} : Added(c, k) = 1
    BY CellsCounted DEF Counters
  <1>2. \A k \in Counters : /\ funnel[k] \in Nat
                           /\ funnel'[k] = funnel[k] + (IF k \in Setup \union {own} THEN Added(c, k) ELSE 0)
    BY DEF Accounted
  <1>3. /\ funnel.raw \in Nat /\ funnel.consolidated \in Nat /\ funnel.setups \in Nat /\ funnel.missing \in Nat
        /\ funnel.conflict \in Nat /\ funnel.confirmed \in Nat /\ funnel.entry \in Nat
        /\ funnel'.raw = funnel.raw + Added(c, "raw")
        /\ funnel'.consolidated = funnel.consolidated + Added(c, "consolidated")
        /\ funnel'.setups = funnel.setups + 1
        /\ funnel'.missing = funnel.missing + (IF own = "missing" THEN 1 ELSE 0)
        /\ funnel'.conflict = funnel.conflict + (IF own = "conflict" THEN 1 ELSE 0)
        /\ funnel'.confirmed = funnel.confirmed + (IF own = "confirmed" THEN 1 ELSE 0)
        /\ funnel'.entry = funnel.entry /\ funnel'.candidates = funnel.candidates
        /\ funnel'.scored = funnel.scored /\ funnel'.qualified = funnel.qualified
    BY <1>1, <1>2 DEF Counters, Setup
  <1>4. /\ Judging = 0 /\ Asking = 0 /\ Asking' = 0
        /\ Judging' = IF verdict = "none" THEN 1 ELSE 0
    BY DEF Judging, Asking
  <1>5. Len(found) \in Nat /\ Len(found') = Len(found)
    BY DEF Accounted, Later
  <1>6. funnel'.raw >= funnel'.consolidated /\ funnel'.consolidated >= funnel'.setups
    <2>1. funnel.raw >= funnel.consolidated /\ funnel.consolidated >= funnel.setups
      BY DEF CountersInv
    <2>2. Added(c, "raw") \in Nat /\ Added(c, "consolidated") \in Nat
      BY <1>1
    <2> QED BY <1>1, <1>3, <2>1, <2>2
  <1>7. IF Predicting THEN funnel'.scored <= Cardinality(ToSet(Confirming)) * (funnel'.candidates - Asking')
                      ELSE funnel'.scored = 0
    BY <1>3, <1>4 DEF CountersInv
  <1> DEFINE conflicts == Number({"MTF_CONFLICT"})
             missing == Number({"MTF_MISSING_DATA"})
             refused == Number({"NO_PRIMARY_SETUP", "ENTRY_NOT_READY"})
             denied == Number({"ML_NOT_CONFIRMED"})
  <1>8. /\ conflicts \in Nat /\ missing \in Nat /\ refused \in Nat /\ denied \in Nat
        /\ conflicts' = conflicts + (IF own = "conflict" THEN 1 ELSE 0)
        /\ missing' = missing + (IF own = "missing" THEN 1 ELSE 0)
        /\ refused' = refused + (IF verdict = "NO_PRIMARY_SETUP" THEN 1 ELSE 0)
        /\ denied' = denied
    BY DEF Accounted
  <1>9. /\ funnel.setups = funnel.confirmed + conflicts + missing
        /\ funnel.missing = missing /\ funnel.conflict = conflicts
        /\ funnel.confirmed = funnel.entry + refused
        /\ funnel.entry = Len(found) + denied
        /\ Predicting => funnel.candidates = funnel.entry /\ funnel.qualified = Len(found)
    BY <1>3, <1>4, <1>5, <1>8 DEF CountersInv
  <1> HIDE DEF conflicts, missing, refused, denied
  <1>10. /\ funnel'.setups = funnel'.confirmed + conflicts' + missing'
         /\ funnel'.missing = missing' /\ funnel'.conflict = conflicts'
         /\ funnel'.confirmed = funnel'.entry + Judging' + refused'
         /\ funnel'.entry = Len(found') + Asking' + denied'
         /\ Predicting => funnel'.candidates = funnel'.entry /\ funnel'.qualified = Len(found')
    <2> DEFINE a == IF own = "conflict" THEN 1 ELSE 0
               b == IF own = "missing" THEN 1 ELSE 0
               d == IF own = "confirmed" THEN 1 ELSE 0
               e == IF verdict = "NO_PRIMARY_SETUP" THEN 1 ELSE 0
               f == IF verdict = "none" THEN 1 ELSE 0
    <2>1. {a, b, d, e, f} \subseteq Nat /\ a + b + d = 1 /\ d = e + f
      OBVIOUS
    <2>2. a \in Nat /\ b \in Nat /\ d \in Nat /\ e \in Nat /\ f \in Nat
      OBVIOUS
    <2>3. /\ funnel'.missing = funnel.missing + b /\ funnel'.conflict = funnel.conflict + a
          /\ funnel'.confirmed = funnel.confirmed + d /\ Judging' = f
          /\ conflicts' = conflicts + a /\ missing' = missing + b /\ refused' = refused + e
      BY <1>3, <1>4, <1>8
    <2> HIDE DEF a, b, d, e, f
    <2>4. funnel'.setups = funnel'.confirmed + conflicts' + missing'
      <3>1. funnel'.setups = funnel.confirmed + conflicts + missing + (a + b + d)
        BY <1>3, <1>9, <2>1
      <3>2. funnel'.confirmed + conflicts' + missing' = (funnel.confirmed + d) + (conflicts + a) + (missing + b)
        BY <2>3
      <3>3. \A x, y, z \in Nat : (x + d) + (y + a) + (z + b) = x + y + z + (a + b + d)
        BY <2>2
      <3>4. funnel.confirmed \in Nat /\ conflicts \in Nat /\ missing \in Nat
        BY <1>3, <1>8
      <3>5. (funnel.confirmed + d) + (conflicts + a) + (missing + b)
                = funnel.confirmed + conflicts + missing + (a + b + d)
        BY <3>3, <3>4
      <3> QED BY <3>1, <3>2, <3>5
    <2>5. funnel'.missing = missing' /\ funnel'.conflict = conflicts'
      BY <1>3, <1>8, <1>9, <2>2, <2>3
    <2>6. funnel'.confirmed = funnel'.entry + Judging' + refused'
      <3>1. funnel'.confirmed = (funnel.entry + refused) + (e + f)
        BY <1>9, <2>1, <2>3
      <3>2. funnel'.entry + Judging' + refused' = funnel.entry + f + (refused + e)
        BY <1>3, <2>3
      <3>3. \A x, y \in Nat : x + f + (y + e) = (x + y) + (e + f)
        BY <2>2
      <3>4. funnel.entry \in Nat /\ refused \in Nat
        BY <1>3, <1>8
      <3>5. funnel.entry + f + (refused + e) = (funnel.entry + refused) + (e + f)
        BY <3>3, <3>4
      <3> QED BY <3>1, <3>2, <3>5
    <2>7. /\ funnel'.entry = Len(found') + Asking' + denied'
          /\ Predicting => funnel'.candidates = funnel'.entry /\ funnel'.qualified = Len(found')
      BY <1>3, <1>4, <1>5, <1>8, <1>9
    <2> QED BY <2>4, <2>5, <2>6, <2>7
  <1> QED BY <1>6, <1>7, <1>10 DEF CountersInv, conflicts, missing, refused, denied

\* The first part of the loop.
LEMMA FetchKeeps ==
    ASSUME SetupInv, Fetch
    PROVE  SetupInv'
  <1> DEFINE i == Min(todo)
             sym == Watchlist[i]
  <1>0. ScanTypes /\ FoundInv /\ CountersInv /\ stage = "fetch" /\ todo # {} /\ todo' = todo \ {i}
    BY DEF SetupInv, Fetch
  <1>1. /\ i \in todo /\ i \in FirstPlaces /\ sym \in ToSet(Watchlist)
    <2>1. todo \in SUBSET Nat /\ todo \subseteq FirstPlaces
      BY <1>0, PlacesAre DEF ScanTypes
    <2>2. i \in todo
      BY <1>0, <2>1, LeastIs
    <2> HIDE DEF i
    <2> QED BY <2>1, <2>2, PlacesAre
  <1>2. /\ todo' \subseteq FirstPlaces /\ sym \notin DOMAIN statuses
        /\ Taken' = DOMAIN statuses \union {sym}
    <2>1. DOMAIN statuses = Taken /\ todo \subseteq FirstPlaces
      BY <1>0 DEF ScanTypes, InHand
    <2> HIDE DEF i
    <2>2. Taken' = {Watchlist[k] : k \in FirstPlaces \ (todo \ {i})}
      BY <1>0 DEF Taken
    <2>3. FirstPlaces \ (todo \ {i}) = (FirstPlaces \ todo) \union {i}
      BY <1>1
    <2>4. Taken' = Taken \union {sym}
      BY <2>2, <2>3 DEF Taken
    <2>5. sym \notin Taken
      BY <1>1, PlacesAre DEF Taken
    <2> QED BY <1>0, <2>1, <2>4, <2>5
  <1>3. PICK raw \in [ToSet(Confirming) -> BatchesOf[sym] \union {Absent}] :
        LET cells == [tf \in ToSet(Confirming) |-> Heard(raw[tf])]
            starts == {k \in DOMAIN Origins : RoleOk(cells, NoPredictions, Origins[k])}
            c == [Idle EXCEPT !.symbol = sym, !.cells = cells]
        IN CASE Usable(cells) = {} -> Settle(c, "DATA_UNAVAILABLE", {}, <<>>)
             [] Usable(cells) # {} /\ \A tf \in Usable(cells) : DOMAIN cells[tf] = {} ->
                    Settle(c, "NO_BUY_TRIGGER", {}, <<>>)
             [] OTHER ->
                IF ~Confirms(cells, NoPredictions)
                THEN IF Roles \intersect ToSet(Confirming) \subseteq Usable(cells)
                     THEN Settle(c, "MTF_CONFLICT", Setup \union {"conflict"}, <<>>)
                     ELSE Settle(c, "MTF_MISSING_DATA", Setup \union {"missing"}, <<>>)
                ELSE IF starts = {} THEN Settle(c, "NO_PRIMARY_SETUP", Setup \union {"confirmed"}, <<>>)
                ELSE Proceed([c EXCEPT !.origin = Origins[Min(starts)]], "entry", Setup \union {"confirmed"})
    BY DEF Fetch
  <1> DEFINE cells == [tf \in ToSet(Confirming) |-> Heard(raw[tf])]
             starts == {k \in DOMAIN Origins : RoleOk(cells, NoPredictions, Origins[k])}
             c == [Idle EXCEPT !.symbol = sym, !.cells = cells]
             on == [c EXCEPT !.origin = Origins[Min(starts)]]
             Signals == \E tf \in Usable(cells) : DOMAIN cells[tf] # {}
  <1>4. \/ Settle(c, "DATA_UNAVAILABLE", {}, <<>>)
        \/ Settle(c, "NO_BUY_TRIGGER", {}, <<>>)
        \/ Signals /\ Settle(c, "MTF_CONFLICT", Setup \union {"conflict"}, <<>>)
        \/ Signals /\ Settle(c, "MTF_MISSING_DATA", Setup \union {"missing"}, <<>>)
        \/ Signals /\ Settle(c, "NO_PRIMARY_SETUP", Setup \union {"confirmed"}, <<>>)
        \/ Signals /\ starts # {} /\ Proceed(on, "entry", Setup \union {"confirmed"})
    <2>1. CASE Usable(cells) = {}
      BY <1>3, <2>1
    <2>2. CASE Usable(cells) # {} /\ ~Signals
      BY <1>3, <2>2
    <2>3. CASE Usable(cells) # {} /\ Signals
      <3> HIDE DEF c, on, starts
      <3> QED BY <1>3, <2>3 DEF c, on, starts
    <2> QED BY <2>1, <2>2, <2>3
  <1>5. Batches(cells)
    <2>1. \A tf \in ToSet(Confirming) : raw[tf] # Absent => GoodBatch(raw[tf])
      <3>1. \A b \in BatchesOf[sym] : GoodBatch(b)
        <4> HIDE DEF i
        <4> QED BY <1>1, ScanAssumption DEF GoodBatch
      <3> HIDE DEF sym
      <3> QED BY <3>1
    <2>2. \A tf \in ToSet(Confirming) : cells[tf] = Heard(raw[tf])
      OBVIOUS
    <2> HIDE DEF cells
    <2> QED BY <2>1, <2>2, HeardIsGood DEF Batches
  <1> HIDE DEF cells, i
  <1>6. Whole(c) /\ c.symbol = sym /\ c.cells = cells /\ c.verdict = "none"
    <2>1. c = [Idle EXCEPT !.symbol = sym, !.cells = cells]
      OBVIOUS
    <2> HIDE DEF c, sym
    <2> QED BY <2>1 DEF Idle, Whole
  <1>7. /\ Whole(on) /\ on.symbol = sym /\ on.cells = cells /\ on.verdict = "none"
        /\ on.origin = Origins[Min(starts)]
    <2> HIDE DEF c, starts, sym
    <2>1. on = [c EXCEPT !.origin = Origins[Min(starts)]]
      OBVIOUS
    <2> HIDE DEF on
    <2> QED BY <1>6, <2>1, WholeStays
  <1> HIDE DEF c, on, sym, starts
  <1>8. ASSUME NEW verdict \in {"DATA_UNAVAILABLE", "NO_BUY_TRIGGER"}, Settle(c, verdict, {}, <<>>)
        PROVE  SetupInv'
    <2>0. ~(verdict = "BUY_SETUP")
      BY <1>8
    <2>1. ScanTypes' /\ HandInv' /\ FoundInv' /\ stage' = "fetch" /\ Accounted(c, verdict, {})
      BY <1>0, <1>1, <1>2, <1>5, <1>6, <1>8, <2>0, SettleKeeps
    <2>2. CountersInv'
      <3>1. \A k \in Counters : funnel[k] \in Nat /\ funnel'[k] = funnel[k]
        BY <2>1 DEF Accounted
      <3>2. Judging = 0 /\ Judging' = 0 /\ Asking = 0 /\ Asking' = 0
        BY <1>0, <2>1 DEF Judging, Asking
      <3> DEFINE T == Cardinality(ToSet(Confirming))
      <3>3. /\ funnel'.raw = funnel.raw /\ funnel'.consolidated = funnel.consolidated
            /\ funnel'.setups = funnel.setups /\ funnel'.missing = funnel.missing
            /\ funnel'.conflict = funnel.conflict /\ funnel'.confirmed = funnel.confirmed
            /\ funnel'.entry = funnel.entry /\ funnel'.candidates = funnel.candidates
            /\ funnel'.scored = funnel.scored /\ funnel'.qualified = funnel.qualified
        BY <3>1 DEF Counters
      <3>4. Len(found') = Len(found)
        BY <1>8, <2>1 DEF Accounted, Later
      <3>5. /\ Number({"MTF_CONFLICT"})' = Number({"MTF_CONFLICT"})
            /\ Number({"MTF_MISSING_DATA"})' = Number({"MTF_MISSING_DATA"})
            /\ Number({"NO_PRIMARY_SETUP", "ENTRY_NOT_READY"})' = Number({"NO_PRIMARY_SETUP", "ENTRY_NOT_READY"})
            /\ Number({"ML_NOT_CONFIRMED"})' = Number({"ML_NOT_CONFIRMED"})
        BY <1>8, <2>1 DEF Accounted
      <3> QED BY <1>0, <3>2, <3>3, <3>4, <3>5 DEF CountersInv
    <2> QED BY <2>1, <2>2 DEF SetupInv
  <1>10. ASSUME Signals, NEW verdict, NEW own, Settle(c, verdict, Setup \union {own}, <<>>),
                <<verdict, own>> \in {<<"MTF_CONFLICT", "conflict">>, <<"MTF_MISSING_DATA", "missing">>,
                                     <<"NO_PRIMARY_SETUP", "confirmed">>}
         PROVE  SetupInv'
    <2>0. ~(verdict = "BUY_SETUP")
      BY <1>10
    <2>1. /\ ScanTypes' /\ HandInv' /\ FoundInv' /\ stage' = "fetch" /\ Accounted(c, verdict, Setup \union {own})
      BY <1>0, <1>1, <1>2, <1>5, <1>6, <1>10, <2>0, SettleKeeps
    <2>2. CountersInv'
      BY <1>0, <1>5, <1>6, <1>10, <2>1, SetupCounted
    <2> QED BY <2>1, <2>2 DEF SetupInv
  <1>11. ASSUME Signals, starts # {}, Proceed(on, "entry", Setup \union {"confirmed"})
         PROVE  SetupInv'
    <2>1. RoleOk(cells, NoPredictions, on.origin)
      <3>1. starts \in SUBSET Nat
        <4>1. Origins \in Seq(ToSet(Origins))
          BY ScanAssumption
        <4> QED BY <4>1 DEF starts
      <3>2. Min(starts) \in starts
        BY <1>11, <3>1, LeastIs
      <3>3. ASSUME NEW k \in starts
            PROVE  RoleOk(cells, NoPredictions, Origins[k])
        BY DEF starts
      <3> QED BY <1>7, <3>2, <3>3
    <2>2. DOMAIN statuses = Taken' \ {on.symbol} /\ on.symbol \in Taken'
      BY <1>2, <1>7
    <2>3. /\ ScanTypes' /\ HandInv' /\ FoundInv' /\ stage' = "entry"
          /\ Accounted(on, "none", Setup \union {"confirmed"})
      BY <1>0, <1>2, <1>5, <1>7, <1>11, <2>1, <2>2, ProceedKeeps
    <2>4. CountersInv'
      BY <1>0, <1>5, <1>7, <1>11, <2>3, SetupCounted
    <2> QED BY <2>3, <2>4 DEF SetupInv
  <1> HIDE DEF Signals
  <1> QED BY <1>4, <1>8, <1>10, <1>11

\* The symbol in hand between the stages.
LEMMA HandIs ==
    ASSUME ScanTypes, stage \in {"entry", "predict"}
    PROVE  /\ cur.symbol \in ToSet(Watchlist) /\ cur.symbol \in Taken /\ cur.symbol \notin DOMAIN statuses
           /\ DOMAIN statuses = Taken \ {cur.symbol} /\ Taken = DOMAIN statuses \union {cur.symbol}
           /\ todo \subseteq FirstPlaces
  <1>1. InHand = {cur.symbol}
    BY DEF InHand
  <1> QED BY <1>1, StatusesAreFinite DEF ScanTypes

\* The judgement of the moment of entry.
LEMMA EntryKeeps ==
    ASSUME SetupInv, Entry
    PROVE  SetupInv'
  <1>1. ScanTypes /\ HandInv /\ FoundInv /\ CountersInv /\ stage = "entry" /\ todo' = todo /\ Taken' = Taken
    BY DEF SetupInv, Entry, Taken
  <1>2. PICK frame \in Frames \union {Absent} :
        LET c == [cur EXCEPT !.frame = frame]
        IN IF EntryQuality(frame, Representative(c)) = "ENTER_NOW"
           THEN Proceed(c, "predict", {"entry"} \union IF Predicting THEN {"candidates"} ELSE {})
           ELSE Settle(c, "ENTRY_NOT_READY", {}, <<>>)
    BY DEF Entry
  <1> DEFINE c == [cur EXCEPT !.frame = frame]
             counted == {"entry"} \union IF Predicting THEN {"candidates"} ELSE {}
  <1>3. \/ EntryQuality(frame, Representative(c)) = "ENTER_NOW" /\ Proceed(c, "predict", counted)
        \/ Settle(c, "ENTRY_NOT_READY", {}, <<>>)
    <2> HIDE DEF c
    <2> QED BY <1>2 DEF c
  <1>4. /\ Whole(c) /\ c.frame = frame /\ c.origin = cur.origin /\ c.symbol = cur.symbol
        /\ c.cells = cur.cells /\ c.verdict = cur.verdict
    <2>1. Whole(cur) /\ c = [cur EXCEPT !.frame = frame]
      BY <1>1 DEF HandInv
    <2> HIDE DEF c
    <2> QED BY <2>1, WholeStays
  <1> HIDE DEF c
  <1>5. Batches(c.cells) /\ RoleOk(c.cells, NoPredictions, c.origin) /\ c.verdict = "none"
    BY <1>1, <1>4 DEF HandInv
  <1>6. /\ c.symbol \in ToSet(Watchlist) /\ c.symbol \in Taken' /\ c.symbol \notin DOMAIN statuses
        /\ DOMAIN statuses = Taken' \ {c.symbol} /\ Taken' = DOMAIN statuses \union {c.symbol}
        /\ todo' \subseteq FirstPlaces
    BY <1>1, <1>4, HandIs
  <1>7. ASSUME EntryQuality(frame, Representative(c)) = "ENTER_NOW", Proceed(c, "predict", counted)
        PROVE  SetupInv'
    <2>1. ScanTypes' /\ HandInv' /\ FoundInv' /\ stage' = "predict" /\ Accounted(c, "none", counted)
      <3> HIDE DEF counted
      <3>1. c.frame \in Frames \union {Absent} /\ EntryQuality(c.frame, Representative(c)) = "ENTER_NOW"
        BY <1>4, <1>7
      <3>2. ScanTypes /\ FoundInv
        BY <1>1
      <3> QED BY <1>4, <1>5, <1>6, <1>7, <3>1, <3>2, ProceedKeeps
    <2>2. CountersInv'
      <3>1. \A k \in Counters : funnel[k] \in Nat /\ funnel'[k] = funnel[k] + (IF k \in counted THEN Added(c, k) ELSE 0)
        BY <2>1 DEF Accounted
      <3>2. Added(c, "entry") = 1 /\ Added(c, "candidates") = 1
        BY <1>5, CellsCounted DEF Counters
      <3>3. /\ funnel'.raw = funnel.raw /\ funnel'.consolidated = funnel.consolidated
            /\ funnel'.setups = funnel.setups /\ funnel'.missing = funnel.missing
            /\ funnel'.conflict = funnel.conflict /\ funnel'.confirmed = funnel.confirmed
            /\ funnel.entry \in Nat /\ funnel'.entry = funnel.entry + 1
            /\ funnel.candidates \in Nat
            /\ funnel'.candidates = IF Predicting THEN funnel.candidates + 1 ELSE funnel.candidates
            /\ funnel'.scored = funnel.scored /\ funnel'.qualified = funnel.qualified
        BY <3>1, <3>2 DEF Counters
      <3>4. Judging = 1 /\ Judging' = 0 /\ Asking = 0 /\ Asking' = 1
        BY <1>1, <2>1 DEF Judging, Asking
      <3>5. Len(found) \in Nat /\ Len(found') = Len(found)
        BY <2>1 DEF Accounted, Later
      <3>6. /\ Number({"MTF_CONFLICT"})' = Number({"MTF_CONFLICT"})
            /\ Number({"MTF_MISSING_DATA"})' = Number({"MTF_MISSING_DATA"})
            /\ Number({"NO_PRIMARY_SETUP", "ENTRY_NOT_READY"})' = Number({"NO_PRIMARY_SETUP", "ENTRY_NOT_READY"})
            /\ Number({"ML_NOT_CONFIRMED"})' = Number({"ML_NOT_CONFIRMED"})
            /\ Number({"NO_PRIMARY_SETUP", "ENTRY_NOT_READY"}) \in Nat /\ Number({"ML_NOT_CONFIRMED"}) \in Nat
        BY <2>1 DEF Accounted
      <3> DEFINE x == funnel.candidates
                 y == funnel'.candidates
                 T == Cardinality(ToSet(Confirming))
      <3>7. IF Predicting THEN funnel'.scored <= T * (y - Asking') ELSE funnel'.scored = 0
        <4>1. CASE Predicting
          <5>1. funnel.scored <= T * (x - Asking) /\ x - Asking = y - Asking'
            BY <1>1, <3>3, <3>4, <4>1 DEF CountersInv
          <5> HIDE DEF x, y, T
          <5> QED BY <3>3, <4>1, <5>1
        <4>2. CASE ~Predicting
          BY <1>1, <3>3, <4>2 DEF CountersInv
        <4> QED BY <4>1, <4>2
      <3> HIDE DEF x, y
      <3>8. /\ funnel'.confirmed = funnel'.entry + Judging' + Number({"NO_PRIMARY_SETUP", "ENTRY_NOT_READY"})'
            /\ funnel'.entry = Len(found') + Asking' + Number({"ML_NOT_CONFIRMED"})'
            /\ Predicting => y = funnel'.entry /\ funnel'.qualified = Len(found')
        BY <1>1, <3>3, <3>4, <3>5, <3>6 DEF CountersInv, y
      <3>9. /\ funnel'.raw >= funnel'.consolidated /\ funnel'.consolidated >= funnel'.setups
            /\ funnel'.setups = funnel'.confirmed + Number({"MTF_CONFLICT"})' + Number({"MTF_MISSING_DATA"})'
            /\ funnel'.missing = Number({"MTF_MISSING_DATA"})' /\ funnel'.conflict = Number({"MTF_CONFLICT"})'
        BY <1>1, <3>3, <3>6 DEF CountersInv
      <3> QED BY <3>7, <3>8, <3>9 DEF CountersInv, y
    <2> QED BY <2>1, <2>2 DEF SetupInv
  <1>8. ASSUME Settle(c, "ENTRY_NOT_READY", {}, <<>>)
        PROVE  SetupInv'
    <2>1. ScanTypes' /\ HandInv' /\ FoundInv' /\ stage' = "fetch" /\ Accounted(c, "ENTRY_NOT_READY", {})
      BY <1>1, <1>4, <1>5, <1>6, <1>8, SettleKeeps
    <2>2. CountersInv'
      <3>1. \A k \in Counters : funnel[k] \in Nat /\ funnel'[k] = funnel[k]
        BY <2>1 DEF Accounted
      <3>3. /\ funnel'.raw = funnel.raw /\ funnel'.consolidated = funnel.consolidated
            /\ funnel'.setups = funnel.setups /\ funnel'.missing = funnel.missing
            /\ funnel'.conflict = funnel.conflict /\ funnel'.confirmed = funnel.confirmed
            /\ funnel'.entry = funnel.entry /\ funnel'.candidates = funnel.candidates
            /\ funnel'.scored = funnel.scored /\ funnel'.qualified = funnel.qualified
            /\ funnel.entry \in Nat
        BY <3>1 DEF Counters
      <3>4. Judging = 1 /\ Judging' = 0 /\ Asking = 0 /\ Asking' = 0
        BY <1>1, <2>1 DEF Judging, Asking
      <3>5. Len(found) \in Nat /\ Len(found') = Len(found)
        BY <2>1 DEF Accounted, Later
      <3>6. /\ Number({"MTF_CONFLICT"})' = Number({"MTF_CONFLICT"})
            /\ Number({"MTF_MISSING_DATA"})' = Number({"MTF_MISSING_DATA"})
            /\ Number({"NO_PRIMARY_SETUP", "ENTRY_NOT_READY"})' = Number({"NO_PRIMARY_SETUP", "ENTRY_NOT_READY"}) + 1
            /\ Number({"ML_NOT_CONFIRMED"})' = Number({"ML_NOT_CONFIRMED"})
            /\ Number({"NO_PRIMARY_SETUP", "ENTRY_NOT_READY"}) \in Nat
        BY <2>1 DEF Accounted
      <3>8. funnel'.confirmed = funnel'.entry + Judging' + Number({"NO_PRIMARY_SETUP", "ENTRY_NOT_READY"})'
        BY <1>1, <3>3, <3>4, <3>6 DEF CountersInv
      <3>9. /\ funnel'.raw >= funnel'.consolidated /\ funnel'.consolidated >= funnel'.setups
            /\ funnel'.setups = funnel'.confirmed + Number({"MTF_CONFLICT"})' + Number({"MTF_MISSING_DATA"})'
            /\ funnel'.missing = Number({"MTF_MISSING_DATA"})' /\ funnel'.conflict = Number({"MTF_CONFLICT"})'
            /\ funnel'.entry = Len(found') + Asking' + Number({"ML_NOT_CONFIRMED"})'
            /\ Predicting => funnel'.candidates = funnel'.entry /\ funnel'.qualified = Len(found')
        BY <1>1, <3>3, <3>4, <3>5, <3>6 DEF CountersInv
      <3>10. IF Predicting THEN funnel'.scored <= Cardinality(ToSet(Confirming)) * (funnel'.candidates - Asking')
                           ELSE funnel'.scored = 0
        BY <1>1, <3>3, <3>4 DEF CountersInv
      <3> QED BY <3>8, <3>9, <3>10 DEF CountersInv
    <2> QED BY <2>1, <2>2 DEF SetupInv
  <1> QED BY <1>3, <1>7, <1>8

\* The score of a setup is a number.
LEMMA RankScoreIs ==
    ASSUME NEW c, Batches(c.cells), RoleOk(c.cells, NoPredictions, c.origin), c.frame \in Frames,
           c.ml[c.origin] \in Predictions \union {Absent}
    PROVE  RankScore(c) \in Int
  <1> DEFINE p == c.ml[c.origin]
             rep == Representative(c)
             aligned == Aligned(c.cells, c.ml)
             kinds == {"entry", "volume", "alignment", "regime", "history", "ml"}
  <1>1. /\ \A k \in kinds : Weights[k] \in Nat
        /\ c.frame.busy \in Nat /\ Required \in Nat \ {0}
    BY ScanAssumption
  <1>2. HistoryOf[rep.strategy] \in Nat
    <2>1. rep.strategy \in DOMAIN HistoryOf
      BY CountedBacks DEF Representative
    <2> QED BY <2>1, ScanAssumption
  <1>3. aligned \in Nat
    <2>1. IsFiniteSet({tf \in Roles : RoleOk(c.cells, c.ml, tf)})
      BY ScanAssumption, FS_Subset
    <2> QED BY <2>1, FS_CardinalityType DEF Aligned
  <1>4. ProbabilityUp(p) \in Int
    <2>1. p # Absent => p.confidence \in Nat
      BY ScanAssumption
    <2> HIDE DEF p
    <2>2. CASE p = Absent
      BY <2>2 DEF ProbabilityUp
    <2>3. CASE p # Absent /\ (p.abstained \/ p.direction = "flat")
      BY <2>3 DEF ProbabilityUp
    <2>4. CASE p # Absent /\ ~(p.abstained \/ p.direction = "flat") /\ p.direction = "up"
      BY <2>1, <2>4 DEF ProbabilityUp
    <2>5. CASE p # Absent /\ ~(p.abstained \/ p.direction = "flat") /\ p.direction # "up"
      BY <2>1, <2>5 DEF ProbabilityUp
    <2> QED BY <2>2, <2>3, <2>4, <2>5
  <1>5. \A a, b \in Int : Min({a, b}) \in Int
    BY DEF Min
  <1> DEFINE volume == Min({100, 50 * c.frame.busy})
             agreed == Weights.alignment * Min({Required, aligned}) * (100 \div Required)
             suits == IF Compatible(rep) THEN 100 ELSE 0
  <1>6. volume \in Int /\ suits \in Int
    BY <1>1, <1>5
  <1>7. agreed \in Int
    <2>1. 100 \div Required \in Int
      BY <1>1
    <2>2. Min({Required, aligned}) \in Int
      BY <1>1, <1>3, <1>5
    <2>3. Weights.alignment \in Nat
      BY <1>1
    <2> QED BY <2>1, <2>2, <2>3
  <1>8. RankScore(c) = 100 * Weights.entry + Weights.volume * volume + agreed
                         + Weights.regime * suits + Weights.history * HistoryOf[rep.strategy]
                         + Weights.ml * ProbabilityUp(p)
    BY DEF RankScore
  <1> HIDE DEF volume, agreed, suits, p, rep
  <1>9. /\ Weights.entry \in Nat /\ Weights.volume \in Nat /\ Weights.alignment \in Nat /\ Weights.regime \in Nat
        /\ Weights.history \in Nat /\ Weights.ml \in Nat
    BY <1>1
  <1> QED BY <1>2, <1>4, <1>6, <1>7, <1>8, <1>9

\* The models are asked.
LEMMA PredictKeeps ==
    ASSUME SetupInv, Predict
    PROVE  SetupInv'
  <1>1. ScanTypes /\ HandInv /\ FoundInv /\ CountersInv /\ stage = "predict" /\ todo' = todo /\ Taken' = Taken
    BY DEF SetupInv, Predict, Taken
  <1> DEFINE Answers == IF Predicting THEN Predictions \union {Absent} ELSE {Absent}
             Ml(some) == [tf \in ToSet(Confirming) |-> IF tf \in Filled(cur.cells) THEN some[tf] ELSE Absent]
             qualified == {"scored"} \union IF Predicting THEN {"qualified"} ELSE {}
  <1>2. PICK some \in [Filled(cur.cells) -> Answers] :
        LET c == [cur EXCEPT !.ml = Ml(some)]
        IN IF Confirms(c.cells, c.ml)
           THEN Settle(c, "BUY_SETUP", qualified, <<[symbol |-> c.symbol, score |-> RankScore(c)]>>)
           ELSE Settle(c, "ML_NOT_CONFIRMED", {"scored"}, <<>>)
    BY DEF Predict
  <1> DEFINE c == [cur EXCEPT !.ml = Ml(some)]
  <1>3. \/ Confirms(c.cells, c.ml)
           /\ Settle(c, "BUY_SETUP", qualified, <<[symbol |-> c.symbol, score |-> RankScore(c)]>>)
        \/ Settle(c, "ML_NOT_CONFIRMED", {"scored"}, <<>>)
    <2> HIDE DEF c
    <2> QED BY <1>2 DEF c
  <1>4. /\ Whole(c) /\ c.ml = Ml(some) /\ c.frame = cur.frame /\ c.origin = cur.origin /\ c.symbol = cur.symbol
        /\ c.cells = cur.cells /\ c.verdict = cur.verdict
    <2> HIDE DEF Ml
    <2>1. Whole(cur) /\ c = [cur EXCEPT !.ml = Ml(some)]
      BY <1>1 DEF HandInv
    <2> HIDE DEF c
    <2> QED BY <2>1, WholeStays
  <1> HIDE DEF c
  <1>5. Batches(c.cells) /\ RoleOk(c.cells, NoPredictions, c.origin)
    BY <1>1, <1>4 DEF HandInv
  <1>6. /\ c.symbol \in ToSet(Watchlist) /\ c.symbol \notin DOMAIN statuses
        /\ Taken' = DOMAIN statuses \union {c.symbol} /\ todo' \subseteq FirstPlaces
    BY <1>1, <1>4, HandIs
  <1>7. /\ \A tf \in Filled(c.cells) : c.ml[tf] \in Answers
        /\ ~Predicting => Added(c, "scored") = 0
    <2>1. \A tf \in Filled(c.cells) : tf \in ToSet(Confirming) /\ c.ml[tf] = some[tf]
      BY <1>4 DEF Filled, Usable
    <2>2. \A tf \in Filled(c.cells) : c.ml[tf] \in Answers
      BY <1>4, <2>1
    <2>3. ASSUME ~Predicting
          PROVE  Added(c, "scored") = 0
      <3>1. {tf \in Filled(c.cells) : Said(c.ml[tf])} = {}
        BY <2>2, <2>3 DEF Said
      <3> QED BY <3>1, FS_EmptySet DEF Added
    <2> QED BY <2>2, <2>3
  <1>8. /\ c.frame \in Frames
        /\ LET now == Last(c.frame.closes)
               window == Recent(c.frame.closes, SwingBars)
               rep == Representative(c)
           IN /\ rep.stop < now /\ now < rep.target /\ c.frame.busy >= 1 /\ ~c.frame.wick /\ ~c.frame.far
              /\ \A j \in DOMAIN window :
                    Ceiling(window, j, now * SwingLevel) /\ window[j] > now => ~Within(now, window[j], NearLevel)
    <2>1. Representative(c) = Representative(cur)
      BY <1>4 DEF Representative
    <2>2. c.frame \in Frames \union {Absent} /\ EntryQuality(c.frame, Representative(c)) = "ENTER_NOW"
      BY <1>1, <1>4, <2>1 DEF HandInv
    <2> QED BY <2>2, EnteredIsClear
  <1>9. Confirms(c.cells, c.ml) => Sound(c)
    <2>1. Backs(c, c.origin) /\ Representative(c).direction = "BUY"
      BY <1>5, CountedBacks DEF Representative
    <2>2. Confirms(c.cells, c.ml) => Cardinality({tf \in Roles \intersect ToSet(Confirming) : Backs(c, tf)}) >= Required
      BY <1>5, EnoughBack
    <2> QED BY <1>8, <2>1, <2>2 DEF Sound
  <1>10. RankScore(c) \in Int
    <2>1. c.origin \in Filled(c.cells)
      BY <1>5 DEF RoleOk
    <2> QED BY <1>5, <1>7, <1>8, <2>1, RankScoreIs
  <1>11. ASSUME NEW verdict \in {"BUY_SETUP", "ML_NOT_CONFIRMED"}, NEW counted, Accounted(c, verdict, counted),
                counted = IF verdict = "BUY_SETUP" THEN qualified ELSE {"scored"}, stage' = "fetch"
         PROVE  CountersInv'
    <2> DEFINE T == Cardinality(ToSet(Confirming))
               one == IF verdict = "BUY_SETUP" THEN 1 ELSE 0
               added == Added(c, "scored")
               denied == Number({"ML_NOT_CONFIRMED"})
    <2>1. \A k \in Counters : funnel[k] \in Nat /\ funnel'[k] = funnel[k] + (IF k \in counted THEN Added(c, k) ELSE 0)
      BY <1>11 DEF Accounted
    <2>2. Added(c, "qualified") = 1 /\ added \in Nat /\ added <= T
      BY <1>5, CellsCounted DEF Counters
    <2>3. /\ funnel'.raw = funnel.raw /\ funnel'.consolidated = funnel.consolidated
          /\ funnel'.setups = funnel.setups /\ funnel'.missing = funnel.missing
          /\ funnel'.conflict = funnel.conflict /\ funnel'.confirmed = funnel.confirmed
          /\ funnel.entry \in Nat /\ funnel'.entry = funnel.entry
          /\ funnel.candidates \in Nat /\ funnel'.candidates = funnel.candidates
          /\ funnel.scored \in Nat /\ funnel'.scored = funnel.scored + added
          /\ funnel.qualified \in Nat /\ Predicting => funnel'.qualified = funnel.qualified + one
      BY <1>11, <2>1, <2>2 DEF Counters
    <2>4. Judging = 0 /\ Judging' = 0 /\ Asking = 1 /\ Asking' = 0
      BY <1>1, <1>11 DEF Judging, Asking
    <2>5. Len(found) \in Nat /\ Len(found') = Len(found) + one /\ one \in Nat
      BY <1>11 DEF Accounted, Later
    <2>6. /\ Number({"MTF_CONFLICT"})' = Number({"MTF_CONFLICT"})
          /\ Number({"MTF_MISSING_DATA"})' = Number({"MTF_MISSING_DATA"})
          /\ Number({"NO_PRIMARY_SETUP", "ENTRY_NOT_READY"})' = Number({"NO_PRIMARY_SETUP", "ENTRY_NOT_READY"})
          /\ denied \in Nat /\ denied' = denied + (1 - one)
      BY <1>11 DEF Accounted
    <2>7. IF Predicting THEN funnel'.scored <= T * (funnel'.candidates - Asking') ELSE funnel'.scored = 0
      <3>1. CASE Predicting
        <4>1. funnel.scored <= T * (funnel.candidates - 1)
          BY <1>1, <2>4, <3>1 DEF CountersInv
        <4>2. T \in Nat
          BY ListIsFinite, FS_CardinalityType
        <4> DEFINE x == funnel.candidates
        <4>3. T * x = T * (x - 1) + T /\ T * (x - 1) \in Int
          <5>1. x \in Nat
            BY <2>3
          <5> HIDE DEF x, T
          <5> QED BY <4>2, <5>1
        <4>4. funnel'.candidates - Asking' = x
          BY <2>3, <2>4
        <4> HIDE DEF T, x, added
        <4>5. funnel'.scored <= T * x
          BY <2>2, <2>3, <4>1, <4>2, <4>3 DEF x
        <4> QED BY <3>1, <4>4, <4>5
      <3>2. CASE ~Predicting
        <4>1. funnel.scored = 0 /\ added = 0
          BY <1>1, <1>7, <3>2 DEF CountersInv
        <4> QED BY <2>3, <3>2, <4>1
      <3> QED BY <3>1, <3>2
    <2> HIDE DEF one, added, T
    <2>8. funnel.entry = Len(found) + 1 + denied
      BY <1>1, <2>4 DEF CountersInv
    <2> HIDE DEF denied
    <2>9. funnel'.entry = Len(found') + Asking' + denied'
      <3>1. funnel'.entry = Len(found) + 1 + denied
        BY <2>3, <2>8
      <3>2. \A x, y \in Nat : (x + one) + 0 + (y + (1 - one)) = x + 1 + y
        BY <2>5
      <3>3. Len(found) \in Nat /\ denied \in Nat
        BY <2>5, <2>6
      <3>4. (Len(found) + one) + 0 + (denied + (1 - one)) = Len(found) + 1 + denied
        BY <3>2, <3>3
      <3>5. Len(found') + Asking' + denied' = (Len(found) + one) + 0 + (denied + (1 - one))
        BY <2>4, <2>5, <2>6
      <3> QED BY <3>1, <3>4, <3>5
    <2>10. /\ funnel'.raw >= funnel'.consolidated /\ funnel'.consolidated >= funnel'.setups
           /\ funnel'.setups = funnel'.confirmed + Number({"MTF_CONFLICT"})' + Number({"MTF_MISSING_DATA"})'
           /\ funnel'.missing = Number({"MTF_MISSING_DATA"})' /\ funnel'.conflict = Number({"MTF_CONFLICT"})'
      BY <1>1, <2>3, <2>6 DEF CountersInv
    <2>11. funnel'.confirmed = funnel'.entry + Judging' + Number({"NO_PRIMARY_SETUP", "ENTRY_NOT_READY"})'
      BY <1>1, <2>3, <2>4, <2>6 DEF CountersInv
    <2>12. Predicting => funnel'.candidates = funnel'.entry /\ funnel'.qualified = Len(found')
      BY <1>1, <2>3, <2>5 DEF CountersInv
    <2> QED BY <2>7, <2>9, <2>10, <2>11, <2>12 DEF CountersInv, denied, T
  <1>12. ASSUME Confirms(c.cells, c.ml),
                Settle(c, "BUY_SETUP", qualified, <<[symbol |-> c.symbol, score |-> RankScore(c)]>>)
         PROVE  SetupInv'
    <2> DEFINE more == <<[symbol |-> c.symbol, score |-> RankScore(c)]>>
    <2>1. Settle(c, "BUY_SETUP", qualified, more) /\ \E n \in Int : more = <<[symbol |-> c.symbol, score |-> n]>>
      BY <1>10, <1>12
    <2>2. ScanTypes /\ FoundInv /\ Sound(c)
      BY <1>1, <1>9, <1>12
    <2> HIDE DEF more, qualified
    <2>3. ScanTypes' /\ HandInv' /\ FoundInv' /\ stage' = "fetch" /\ Accounted(c, "BUY_SETUP", qualified)
      BY <1>4, <1>5, <1>6, <2>1, <2>2, SettleKeeps
    <2> QED BY <1>11, <2>3 DEF SetupInv
  <1>13. ASSUME Settle(c, "ML_NOT_CONFIRMED", {"scored"}, <<>>)
         PROVE  SetupInv'
    <2>1. ScanTypes /\ FoundInv
      BY <1>1
    <2>2. ScanTypes' /\ HandInv' /\ FoundInv' /\ stage' = "fetch" /\ Accounted(c, "ML_NOT_CONFIRMED", {"scored"})
      BY <1>4, <1>5, <1>6, <1>13, <2>1, SettleKeeps
    <2> HIDE DEF qualified
    <2> QED BY <1>11, <2>2 DEF SetupInv
  <1> HIDE DEF qualified
  <1> QED BY <1>3, <1>12, <1>13

\* The end of the scan.
LEMMA RankKeeps ==
    ASSUME SetupInv, Rank
    PROVE  SetupInv'
  <1> DEFINE D == DOMAIN found
             Offer == [symbol : ToSet(Watchlist), score : Int]
  <1>1. /\ ScanTypes /\ FoundInv /\ CountersInv /\ stage = "fetch" /\ todo = {} /\ stage' = "ranked"
        /\ cur' = Idle /\ todo' = todo /\ funnel' = funnel /\ Taken' = Taken
    BY DEF SetupInv, Rank, Taken
  <1>2. PICK order \in Bijection(D, D) :
        LET Stronger(i, j) == found[i].score > found[j].score \/ (found[i].score = found[j].score /\ i < j)
        IN /\ \A k, m \in D : k < m => Stronger(order[k], order[m])
           /\ found' = [k \in D |-> found[order[k]]]
    BY DEF Rank
  <1>3. /\ order \in [D -> D] /\ \A k, m \in D : order[k] = order[m] => k = m
        /\ \A k \in D : \E m \in D : order[m] = k
    BY <1>2 DEF Bijection, Injection, Surjection, IsInjective
  <1>4. /\ found \in Seq(Offer) /\ Len(found) \in Nat /\ D = 1..Len(found)
        /\ \A k \in D : found[k] \in Offer
    <2>1. found \in Seq(Offer)
      BY <1>1 DEF ScanTypes
    <2> HIDE DEF Offer
    <2> QED BY <2>1
  <1>5. /\ DOMAIN found' = D /\ \A k \in D : found'[k] = found[order[k]]
        /\ \A k, m \in D : k < m => found[order[k]].score >= found[order[m]].score
    <2>1. /\ found' = [k \in D |-> found[order[k]]]
          /\ \A k, m \in D : k < m => found[order[k]].score > found[order[m]].score
                                      \/ found[order[k]].score = found[order[m]].score
      BY <1>2
    <2>2. \A k \in D : found[order[k]].score \in Int
      BY <1>3, <1>4
    <2> HIDE DEF D
    <2> QED BY <2>1, <2>2
  <1>6. found' \in Seq(Offer) /\ Len(found') = Len(found)
    <2>1. found' \in [1..Len(found) -> Offer]
      <3>1. found' = [k \in D |-> found[order[k]]]
        BY <1>2
      <3>2. \A k \in D : found[order[k]] \in Offer
        BY <1>3, <1>4
      <3> HIDE DEF D, Offer
      <3> QED BY <1>4, <3>1, <3>2
    <2> HIDE DEF Offer
    <2> QED BY <1>4, <2>1
  <1>7. /\ DOMAIN statuses' = DOMAIN statuses
        /\ \A s \in DOMAIN statuses : statuses'[s].stage = statuses[s].stage
    <2>1. statuses' = [s \in DOMAIN statuses |->
                       IF statuses[s].stage # "BUY_SETUP" THEN statuses[s]
                       ELSE [stage |-> "BUY_SETUP",
                             score |-> (CHOOSE i \in ToSet(found) : i.symbol = s).score]]
      BY DEF Rank
    <2> QED BY <2>1
  <1>8. ASSUME NEW S
        PROVE  {s \in DOMAIN statuses' : statuses'[s].stage \in S} = {s \in DOMAIN statuses : statuses[s].stage \in S}
    BY <1>7
  <1>9. ScanTypes'
    <2>1. InHand = {} /\ InHand' = {}
      BY <1>1 DEF InHand
    <2> HIDE DEF Offer
    <2> QED BY <1>1, <1>6, <1>7, <2>1 DEF ScanTypes, Offer
  <1>10. HandInv'
    <2>1. Whole(Idle) /\ Batches(Idle.cells) /\ Idle.verdict = "none"
      BY DEF Whole, Batches, Idle, NoPredictions
    <2> QED BY <1>1, <2>1 DEF HandInv
  <1>11. CountersInv'
    <2>1. Judging' = Judging /\ Asking' = Asking
      BY <1>1 DEF Judging, Asking
    <2>2. /\ Number({"MTF_CONFLICT"})' = Number({"MTF_CONFLICT"})
          /\ Number({"MTF_MISSING_DATA"})' = Number({"MTF_MISSING_DATA"})
          /\ Number({"NO_PRIMARY_SETUP", "ENTRY_NOT_READY"})' = Number({"NO_PRIMARY_SETUP", "ENTRY_NOT_READY"})
          /\ Number({"ML_NOT_CONFIRMED"})' = Number({"ML_NOT_CONFIRMED"})
      BY <1>8 DEF Number
    <2> QED BY <1>1, <1>6, <2>1, <2>2 DEF CountersInv
  <1>12. FoundInv'
    <2>1. Bought(statuses') = Bought(statuses)
      BY <1>7 DEF Bought
    <2>2. Offered(found') = Offered(found)
      <3> HIDE DEF D
      <3>1. Offered(found') = {found[order[k]].symbol : k \in D}
        BY <1>5 DEF Offered
      <3>2. {found[order[k]].symbol : k \in D} = {found[k].symbol : k \in D}
        BY <1>3
      <3> QED BY <3>1, <3>2 DEF Offered, D
    <2>3. \A i, j \in D : i # j => found[i].symbol # found[j].symbol
      BY <1>1 DEF FoundInv
    <2> HIDE DEF D
    <2>4. \A i, j \in DOMAIN found' : i # j => found'[i].symbol # found'[j].symbol
      BY <1>3, <1>5, <2>3
    <2>5. \A i, j \in DOMAIN found' : i < j => found'[i].score >= found'[j].score
      BY <1>5
    <2> QED BY <1>1, <2>1, <2>2, <2>4, <2>5 DEF FoundInv
  <1> QED BY <1>9, <1>10, <1>11, <1>12 DEF SetupInv

\* A scan starts with its accounts in order,
LEMMA ScanStarts ==
    ASSUME ScanInit
    PROVE  SetupInv
  <1>1. /\ todo = FirstPlaces /\ stage = "fetch" /\ cur = Idle /\ statuses = <<>> /\ found = <<>>
        /\ funnel = [k \in Counters |-> 0]
    BY DEF ScanInit, FirstPlaces
  <1>2. DOMAIN statuses = {} /\ InHand = {} /\ Taken = {} /\ Judging = 0 /\ Asking = 0 /\ Len(found) = 0
    BY <1>1 DEF InHand, Taken, Judging, Asking
  <1>3. ScanTypes
    BY <1>1, <1>2 DEF ScanTypes
  <1>4. HandInv
    <2>1. Whole(Idle) /\ Batches(Idle.cells) /\ Idle.verdict = "none"
      BY DEF Whole, Batches, Idle, NoPredictions
    <2> QED BY <1>1, <2>1 DEF HandInv
  <1>5. CountersInv
    <2>1. \A S : {s \in DOMAIN statuses : statuses[s].stage \in S} = {}
      BY <1>2
    <2>2. /\ Number({"MTF_CONFLICT"}) = 0 /\ Number({"MTF_MISSING_DATA"}) = 0
          /\ Number({"NO_PRIMARY_SETUP", "ENTRY_NOT_READY"}) = 0 /\ Number({"ML_NOT_CONFIRMED"}) = 0
      BY <2>1, FS_EmptySet DEF Number
    <2>3. \A k \in Counters : funnel[k] = 0
      BY <1>1
    <2>4. /\ funnel.raw = 0 /\ funnel.consolidated = 0 /\ funnel.setups = 0 /\ funnel.missing = 0
          /\ funnel.conflict = 0 /\ funnel.confirmed = 0 /\ funnel.entry = 0 /\ funnel.candidates = 0
          /\ funnel.scored = 0 /\ funnel.qualified = 0
      BY <2>3 DEF Counters
    <2>5. Cardinality(ToSet(Confirming)) \in Nat
      BY ListIsFinite, FS_CardinalityType
    <2> DEFINE T == Cardinality(ToSet(Confirming))
    <2>6. funnel.scored <= T * (funnel.candidates - Asking)
      <3>1. T * 0 = 0
        <4> HIDE DEF T
        <4> QED BY <2>5 DEF T
      <3>2. funnel.candidates - Asking = 0
        BY <1>2, <2>4
      <3> HIDE DEF T
      <3> QED BY <2>4, <3>1, <3>2
    <2> QED BY <1>2, <2>2, <2>4, <2>6 DEF CountersInv
  <1>6. FoundInv
    BY <1>1, <1>2 DEF FoundInv, Bought, Offered
  <1> QED BY <1>3, <1>4, <1>5, <1>6 DEF SetupInv

\* every step of it keeps them,
LEMMA ScanKeeps ==
    ASSUME SetupInv, [ScanNext]_scanVars
    PROVE  SetupInv'
  <1>1. CASE Fetch
    BY <1>1, FetchKeeps
  <1>2. CASE Entry
    BY <1>2, EntryKeeps
  <1>3. CASE Predict
    BY <1>3, PredictKeeps
  <1>4. CASE Rank
    BY <1>4, RankKeeps
  <1>5. CASE UNCHANGED scanVars
    <2>1. ScanTypes'
      BY <1>5 DEF SetupInv, ScanTypes, scanVars, Taken, InHand
    <2>2. HandInv'
      BY <1>5 DEF SetupInv, HandInv, scanVars
    <2>3. CountersInv'
      BY <1>5 DEF SetupInv, CountersInv, scanVars, Judging, Asking, Number
    <2>4. FoundInv'
      BY <1>5 DEF SetupInv, FoundInv, scanVars
    <2> QED BY <2>1, <2>2, <2>3, <2>4 DEF SetupInv
  <1> QED BY <1>1, <1>2, <1>3, <1>4, <1>5 DEF ScanNext

\* and accounts in order are what the run checks.
LEMMA SetupsWereSound ==
    ASSUME SetupInv
    PROVE  SetupsAreSound
  <1>1. cur.verdict = "BUY_SETUP" => Sound(cur)
    BY DEF SetupInv, HandInv
  <1>2. ASSUME stage = "ranked"
        PROVE  AddsUp
    <2>1. ScanTypes /\ CountersInv /\ FoundInv /\ todo = {} /\ Judging = 0 /\ Asking = 0 /\ InHand = {}
      BY <1>2 DEF SetupInv, ScanTypes, Judging, Asking, InHand
    <2>2. DOMAIN statuses = ToSet(Watchlist)
      BY <2>1, PlacesAre DEF ScanTypes, Taken
    <2> DEFINE T == Cardinality(ToSet(Confirming))
    <2>3. /\ funnel.candidates \in Nat /\ funnel.entry \in Nat /\ funnel.confirmed \in Nat /\ Len(found) \in Nat
      BY <2>1 DEF ScanTypes, Counters
    <2>4. funnel.scored <= T * funnel.candidates
      <3>1. T \in Nat
        BY ListIsFinite, FS_CardinalityType
      <3>2. IF Predicting THEN funnel.scored <= T * (funnel.candidates - Asking) ELSE funnel.scored = 0
        BY <2>1 DEF CountersInv
      <3> DEFINE x == funnel.candidates
      <3>3. x \in Nat /\ x - Asking = x
        BY <2>1, <2>3
      <3> HIDE DEF T, x
      <3>4. T * x \in Nat
        BY <3>1, <3>3
      <3>5. IF Predicting THEN funnel.scored <= T * x ELSE funnel.scored = 0
        BY <3>2, <3>3 DEF x
      <3>6. funnel.scored <= T * x
        BY <3>4, <3>5
      <3> QED BY <3>6 DEF x
    <2>5. /\ funnel.raw >= funnel.consolidated /\ funnel.consolidated >= funnel.setups
          /\ funnel.setups = funnel.confirmed + Number({"MTF_CONFLICT"}) + Number({"MTF_MISSING_DATA"})
          /\ funnel.missing = Number({"MTF_MISSING_DATA"}) /\ funnel.conflict = Number({"MTF_CONFLICT"})
          /\ Predicting => funnel.candidates = funnel.entry /\ funnel.qualified = Len(found)
      BY <2>1 DEF CountersInv
    <2>6. \A S : Count(statuses, S) \in Nat
      <3>1. \A S : IsFiniteSet({s \in DOMAIN statuses : statuses[s].stage \in S})
        BY <2>1, StatusesAreFinite, FS_Subset
      <3> QED BY <3>1, FS_CardinalityType DEF Count
    <2>7. Number({"NO_PRIMARY_SETUP", "ENTRY_NOT_READY"}) \in Nat /\ Number({"ML_NOT_CONFIRMED"}) \in Nat
      BY <2>6 DEF Number, Count
    <2>8. /\ funnel.confirmed = funnel.entry + Number({"NO_PRIMARY_SETUP", "ENTRY_NOT_READY"})
          /\ funnel.entry = Len(found) + Number({"ML_NOT_CONFIRMED"})
      BY <2>1, <2>3, <2>7 DEF CountersInv
    <2>9. {s \in DOMAIN statuses : statuses[s].stage = "BUY_SETUP"} = {found[i].symbol : i \in DOMAIN found}
      BY <2>1 DEF FoundInv, Bought, Offered
    <2>10. \A i, j \in DOMAIN found : i < j => found[i].symbol # found[j].symbol /\ found[i].score >= found[j].score
      <3>1. DOMAIN found = 1..Len(found)
        BY <2>1 DEF ScanTypes
      <3>2. \A i, j \in DOMAIN found : i < j => i # j
        BY <3>1
      <3> QED BY <1>2, <2>1, <3>2 DEF FoundInv
    <2> QED BY <2>2, <2>4, <2>5, <2>8, <2>9, <2>10 DEF AddsUp
  <1> QED BY <1>1, <1>2 DEF SetupsAreSound

\* What is called a setup is one, and a scan that is over has accounted for every symbol once, with
\* counters that are the sums of its statuses and the setups ranked (run_scalp_scan_detailed), for
\* every watchlist, every batch of signals, every frame and every answer of the models.
THEOREM SetupsAreSoundHolds == ScanSpec => []SetupsAreSound
  <1>1. ScanInit => SetupInv
    BY ScanStarts
  <1>2. SetupInv /\ [ScanNext]_scanVars => SetupInv'
    BY ScanKeeps
  <1>3. SetupInv => SetupsAreSound
    BY SetupsWereSound
  <1> QED BY <1>1, <1>2, <1>3, PTL DEF ScanSpec
=============================================================================
