----------------------------- MODULE ScalpScan ------------------------------
(***************************************************************************)
(* One scalp scan (run_scalp_scan_detailed), symbol by symbol: the signals *)
(* of every timeframe are consolidated by direction, each timeframe is     *)
(* assessed, enough of them must say BUY, the moment of entry is judged on *)
(* the 5m frame, the models are asked, the timeframes must agree once      *)
(* more, and what is left is ranked.                                       *)
(*                                                                         *)
(*   todo      the places in the watchlist still to be scanned             *)
(*   stage     what happens next: fetch, entry, predict, or ranked         *)
(*   cur       the symbol in hand: its signals, frame, predictions, verdict*)
(*   statuses  the status of every symbol scanned                          *)
(*   found     the opportunities                                           *)
(*   funnel    the counters of the dashboard, one for those that agree     *)
(*                                                                         *)
(* Scores and confidences are percentages. What only feeds a threshold is  *)
(* a fact of the frame: busy (relative volume, in units of the least that  *)
(* is enough), wick (a rejection candle) and far (extended from VWAP). A   *)
(* batch is a function from places to signals, and a selection from it     *)
(* keeps the places of what it selects.                                    *)
(* CandidateReview takes the setups on.                                    *)
(***************************************************************************)
EXTENDS Integers, SequencesExt, FiniteSetsExt, Functions

CONSTANTS
    Watchlist,                  \* the symbols to scan, in order
    Confirming, Origins,        \* scalp_confirmation_timeframes, scalp_signal_timeframes
    Roles, Required,            \* the timeframes that vote, and how many must agree
    LongOnly, Predicting,       \* settings.long_only, ml_predictions_enabled
    BuyScore, RejectScore,      \* scalp_min_confidence, scalp_matrix_reject_score
    AgreementStep, AgreementCap,
    BatchesOf,                  \* the signals one timeframe of a symbol may give
    Predictions,                \* the answers of the prediction agent
    Frames,                     \* the frames of 5m candles
    SwingLevel, NearLevel,      \* per mille of the price: a swing, and near a level
    SwingBars, RetestBars,      \* scalp_swing_lookback_bars, ..._retest_lookback_bars
    HistoryOf,                  \* the win rate of a strategy among scalps
    Weights,                    \* scalp_ranking_weight_*
    Absent                      \* no indicators, no frame, no prediction

ASSUME ScanAssumption ==
    /\ \A s \in {Watchlist, Confirming, Origins} : s \in Seq(ToSet(s))
    /\ ToSet(Origins) \subseteq ToSet(Confirming) /\ Roles # {} /\ IsFiniteSet(Roles)
    /\ {Required, SwingBars, RetestBars, SwingLevel} \subseteq Nat \ {0}
    /\ {LongOnly, Predicting} \subseteq BOOLEAN
    /\ {AgreementStep, AgreementCap, BuyScore, RejectScore, NearLevel} \subseteq Nat
    /\ RejectScore <= BuyScore
    /\ HistoryOf \in [DOMAIN HistoryOf -> Nat]
    /\ Weights \in [{"entry", "volume", "alignment", "regime", "history", "ml"} -> Nat]
    /\ \A symbol \in ToSet(Watchlist) : \A batch \in BatchesOf[symbol] :
        /\ DOMAIN batch \subseteq Nat /\ IsFiniteSet(DOMAIN batch)
        /\ \A i \in DOMAIN batch :
            /\ batch[i].direction \in {"BUY", "SELL"}   \* SignalEngine drops HOLD
            /\ batch[i].strategy \in DOMAIN HistoryOf /\ batch[i].confidence \in Nat
    /\ \A p \in Predictions : p.confidence \in Nat
    /\ \A f \in Frames : f.closes \in Seq(Nat \ {0}) /\ f.closes # <<>> /\ f.busy \in Nat

VARIABLES todo, stage, cur, statuses, found, funnel
scanVars == <<todo, stage, cur, statuses, found, funnel>>

\* The first of some indices with the highest score, as max() finds it.
FirstBest(places, Score(_)) == Min({i \in places : \A j \in places : Score(j) <= Score(i)})
Within(x, level, permille) == 1000 * Max({x - level, level - x}) <= level * permille
\* dict.fromkeys: the indices of what is not a repetition.
Fresh(s, Key(_)) == {i \in DOMAIN s : \A j \in DOMAIN s : j < i => Key(j) # Key(i)}
Recent(s, n) == IF Len(s) <= n THEN s ELSE SubSeq(s, Len(s) - n + 1, Len(s))
-----------------------------------------------------------------------------
(* Signals and timeframes.                                                 *)

\* consolidate_signals: one for each direction, in the order of appearance, whose levels
\* are those of its most confident signal; agreement adds to the confidence. The place of
\* the first signal of a direction stands for it.
Blend(confidence, count) == Min({AgreementCap, confidence + AgreementStep * (count - 1)})

Merged(signals, direction) ==
    LET group == {i \in DOMAIN signals : signals[i].direction = direction}
        rep == signals[FirstBest(group, LAMBDA i : signals[i].confidence)]
    IN [rep |-> rep, blended |-> Blend(rep.confidence, Cardinality(group))]

Consolidate(signals) ==
    {i \in Fresh(signals, LAMBDA i : signals[i].direction) : signals[i].direction # "HOLD"}

Strongest(signals) ==
    LET merged == [i \in Consolidate(signals) |-> Merged(signals, signals[i].direction)]
    IN merged[FirstBest(Consolidate(signals), LAMBDA i : merged[i].blended)]

\* infer_signal_regime; an adx of 0 is one that is missing.
RegimeOf(s) ==
    IF s.adx >= 25
    THEN IF s.lean = "none" THEN IF s.direction = "BUY" THEN "trending_up" ELSE "trending_down"
         ELSE IF s.lean = "plus" THEN "trending_up" ELSE "trending_down"
    ELSE IF s.adx \in 1..19 THEN "ranging" ELSE "volatile"

Followers == {"trend_following", "ema_heiken_ashi_rsi", "ema_psar", "ema_cci"}
Suits(strategy, regime) ==
    strategy \in CASE regime = "trending_up" -> Followers \union {"momentum"}
                   [] regime = "trending_down" -> Followers
                   [] regime = "ranging" -> {"mean_reversion"}
                   [] regime = "volatile" -> {"breakout"}
                   [] OTHER -> {strategy}
Compatible(s) == Suits(s.strategy, RegimeOf(s))

\* _ml_probability: a flat prediction agrees with neither direction.
Probability(s, p) ==
    LET sure == Min({95, Max({5, p.confidence})})
        agrees == <<s.direction, p.direction>> \in {<<"BUY", "up">>, <<"SELL", "down">>}
    IN IF agrees THEN sure ELSE 100 - sure

\* _probability_up, what an opportunity is ranked by.
ProbabilityUp(p) ==
    CASE p = Absent -> 50 [] p # Absent /\ (p.abstained \/ p.direction = "flat") -> 50
      [] p # Absent /\ ~p.abstained /\ p.direction = "up" -> p.confidence
      [] OTHER -> 100 - p.confidence

\* _assess_one_timeframe, with scores of a hundred per cent to the hundred.
ScoreOf(best, p) ==
    IF p = Absent THEN 100 * best.blended
    ELSE IF p.abstained THEN 100 * best.blended
    ELSE 60 * best.blended + 40 * Probability(best.rep, p)

Assess(signals, p) ==
    LET best == Strongest(signals)
        score == ScoreOf(best, p)
    IN CASE best.rep.direction # "BUY" \/ score < 100 * RejectScore -> "REJECT"
         [] best.rep.direction = "BUY" /\ score >= 100 * BuyScore /\ Compatible(best.rep) -> "BUY"
         [] OTHER -> "WAIT"

\* The timeframes with a cell in the matrix, and those that count for the setup: a
\* timeframe without data or without signals is never taken for an agreement.
Usable(cells) == {tf \in ToSet(Confirming) : cells[tf] # Absent}
Filled(cells) == {tf \in Usable(cells) : Consolidate(cells[tf]) # {}}
RoleOk(cells, ml, tf) == tf \in Filled(cells) /\ Assess(cells[tf], ml[tf]) = "BUY"

Aligned_slip(cells, ml) == Cardinality({tf \in Roles : RoleOk(cells, ml, tf) \/ tf \notin Usable(cells)})
Aligned(cells, ml) == Cardinality({tf \in Roles : RoleOk(cells, ml, tf)})
Confirms(cells, ml) == Aligned(cells, ml) >= Required
-----------------------------------------------------------------------------
(* The moment of entry, always for a BUY.                                  *)

\* zigzag_pivots: a swing ends when the price comes back by the threshold; the first one
\* is measured from the first close of the window.
ZigzagStep(z, price, swing) ==
    IF z.way = 0
    THEN IF 1000 * Max({price - z.first, z.first - price}) < swing THEN z
         ELSE [z EXCEPT !.way = IF price >= z.first THEN 1 ELSE -1, !.extreme = price]
    ELSE IF z.way * (price - z.extreme) > 0 THEN [z EXCEPT !.extreme = price]
    ELSE IF 1000 * z.way * (z.extreme - price) >= swing
         THEN [z EXCEPT !.pivots = @ \union {z.extreme}, !.way = -@, !.extreme = price]
         ELSE z

Zigzag(closes, swing) ==
    LET start == [way |-> 0, first |-> closes[1], extreme |-> closes[1], pivots |-> {}]
        z[i \in DOMAIN closes] == IF i = 1 THEN start ELSE ZigzagStep(z[i - 1], closes[i], swing)
    IN z
Pivots(closes, swing) == Zigzag(closes, swing)[Len(closes)].pivots

\* nearest_support_resistance, of which a BUY looks at the resistance; 0 when there is none.
Resistance_slip(closes, now) ==
    LET above == {p \in Pivots(Recent(closes, SwingBars), now * SwingLevel) : p > closes[1]}
    IN IF Len(closes) < 2 \/ above = {} THEN 0 ELSE Min(above)
Resistance(closes, now) ==
    LET above == {p \in Pivots(Recent(closes, SwingBars), now * SwingLevel) : p > now}
    IN IF Len(closes) < 2 \/ above = {} THEN 0 ELSE Min(above)

\* _breakout_state for a level that was crossed within the window.
Breakout(closes, level, now) ==
    CASE level = 0 \/ \A i \in DOMAIN Recent(closes, RetestBars) : Recent(closes, RetestBars)[i] <= level -> "none"
      [] level # 0 /\ now > level /\ Within(now, level, NearLevel) -> "retesting"
      [] level # 0 /\ now > level /\ ~Within(now, level, NearLevel) -> "breaking_out"
      [] OTHER -> "none"

\* evaluate_entry_quality: the levels of the signal around the price of now, liquidity and
\* candle; then the two reasons to wait.
EntryQuality(frame, rep) ==
    LET now == Last(frame.closes)
        level == Resistance(frame.closes, now)
        state == Breakout(frame.closes, level, now)
    IN IF frame = Absent THEN "REJECT"
       ELSE IF ~(rep.stop < now /\ now < rep.target) \/ frame.busy < 1 \/ frame.wick THEN "REJECT"
       ELSE IF frame.far /\ state # "retesting" THEN "WAIT_PULLBACK"
       ELSE IF level # 0 /\ state = "none" /\ Within(now, level, NearLevel) THEN "WAIT_BREAKOUT"
       ELSE "ENTER_NOW"
-----------------------------------------------------------------------------
(* The scan.                                                               *)

NoPredictions == [tf \in ToSet(Confirming) |-> Absent]
Idle == [symbol |-> Absent, cells |-> NoPredictions, frame |-> Absent, ml |-> NoPredictions,
         origin |-> Absent, verdict |-> "none"]
Counters == {"raw", "consolidated", "setups", "missing", "conflict", "confirmed", "entry",
             "candidates", "scored", "qualified"}

\* What a step adds to the counters it counts: most count symbols.
InCells(c, Part(_)) == UNION {{tf} \X Part(c.cells[tf]) : tf \in Usable(c.cells)}
Said(p) == p # Absent /\ ~p.abstained /\ p.direction # "flat"
Added(c, counter) ==
    CASE counter = "raw" -> Cardinality(InCells(c, LAMBDA signals : DOMAIN signals))
      [] counter = "consolidated" -> Cardinality(InCells(c, Consolidate))
      [] counter = "scored" -> Cardinality({tf \in Filled(c.cells) : Said(c.ml[tf])})
      [] OTHER -> 1
Tally(c, counted) == [k \in Counters |-> IF k \in counted THEN funnel[k] + Added(c, k) ELSE funnel[k]]

\* The symbol is done: its status is written and the next one is taken.
Settle(c, verdict, counted, more) ==
    /\ cur' = [c EXCEPT !.verdict = verdict]
    /\ statuses' = [s \in DOMAIN statuses \union {c.symbol} |->
                       IF s = c.symbol THEN [stage |-> verdict, score |-> 0] ELSE statuses[s]]
    /\ funnel' = Tally(c, counted)
    /\ found' = found \o more
    /\ stage' = "fetch"

\* The symbol goes on to the next stage.
Proceed(c, next, counted) ==
    /\ cur' = c /\ stage' = next
    /\ funnel' = Tally(c, counted)
    /\ UNCHANGED <<statuses, found>>

Heard(signals) ==
    IF signals # Absent /\ LongOnly
    THEN Restrict(signals, {i \in DOMAIN signals : signals[i].direction = "BUY"}) ELSE signals

Setup == {"raw", "consolidated", "setups"}

\* The first part of the loop: the indicators of every timeframe may be missing; no setup
\* without signals, without enough agreement or without an origin timeframe that says BUY.
Fetch ==
    /\ stage = "fetch" /\ todo # {} /\ todo' = todo \ {Min(todo)}
    /\ \E raw \in [ToSet(Confirming) -> BatchesOf[Watchlist[Min(todo)]] \union {Absent}] :
        LET cells == [tf \in ToSet(Confirming) |-> Heard(raw[tf])]
            starts == {i \in DOMAIN Origins : RoleOk(cells, NoPredictions, Origins[i])}
            c == [Idle EXCEPT !.symbol = Watchlist[Min(todo)], !.cells = cells]
        IN CASE Usable(cells) = {} -> Settle(c, "DATA_UNAVAILABLE", {}, <<>>)
             [] Usable(cells) # {} /\ \A tf \in Usable(cells) : DOMAIN cells[tf] = {} ->
                    Settle(c, "NO_BUY_TRIGGER", {}, <<>>)
             [] OTHER ->
                IF ~Confirms(cells, NoPredictions)
                THEN IF Roles \intersect ToSet(Confirming) \subseteq Usable(cells)
                     THEN Settle(c, "MTF_CONFLICT", Setup \union {"conflict"}, <<>>)
                     ELSE Settle(c, "MTF_MISSING_DATA", Setup \union {"missing"}, <<>>)
                ELSE IF starts = {} THEN Settle(c, "NO_PRIMARY_SETUP", Setup \union {"confirmed"}, <<>>)
                ELSE Proceed([c EXCEPT !.origin = Origins[Min(starts)]], "entry", Setup \union {"confirmed"})

Representative(c) == Strongest(c.cells[c.origin]).rep

\* The frame is fetched after the indicators: it may be newer, or gone.
Entry ==
    /\ stage = "entry"
    /\ \E frame \in Frames \union {Absent} :
        LET c == [cur EXCEPT !.frame = frame]
        IN IF EntryQuality(frame, Representative(c)) = "ENTER_NOW"
           THEN Proceed(c, "predict", {"entry"} \union IF Predicting THEN {"candidates"} ELSE {})
           ELSE Settle(c, "ENTRY_NOT_READY", {}, <<>>)
    /\ UNCHANGED todo

\* rank_scalp_opportunities: twice the volume that is enough has full marks, as has the
\* entry, which is ENTER_NOW for all of them.
RankScore(c) ==
    100 * Weights.entry + Weights.volume * Min({100, 50 * c.frame.busy})
        + Weights.alignment * Min({Required, Aligned(c.cells, c.ml)}) * (100 \div Required)
        + Weights.regime * (IF Compatible(Representative(c)) THEN 100 ELSE 0)
        + Weights.history * HistoryOf[Representative(c).strategy]
        + Weights.ml * ProbabilityUp(c.ml[c.origin])

\* Each timeframe with a cell has its own prediction, or none; the timeframes must agree
\* with them too, but which of them does may have changed.
Predict ==
    /\ stage = "predict"
    /\ \E some \in [Filled(cur.cells) -> IF Predicting THEN Predictions \union {Absent} ELSE {Absent}] :
        LET c == [cur EXCEPT !.ml = [tf \in ToSet(Confirming) |->
                                        IF tf \in Filled(cur.cells) THEN some[tf] ELSE Absent]]
        IN IF Confirms(c.cells, c.ml)
           THEN Settle(c, "BUY_SETUP", {"scored"} \union IF Predicting THEN {"qualified"} ELSE {},
                       <<[symbol |-> c.symbol, score |-> RankScore(c)]>>)
           ELSE Settle(c, "ML_NOT_CONFIRMED", {"scored"}, <<>>)
    /\ UNCHANGED todo

\* The end of the scan: the strongest first, equal ones as they were found, none dropped.
Rank ==
    /\ stage = "fetch" /\ todo = {} /\ stage' = "ranked"
    /\ \E order \in Bijection(DOMAIN found, DOMAIN found) :
        LET Stronger(i, j) == found[i].score > found[j].score \/ (found[i].score = found[j].score /\ i < j)
        IN /\ \A k, m \in DOMAIN found : k < m => Stronger(order[k], order[m])
           /\ found' = [k \in DOMAIN found |-> found[order[k]]]
    /\ statuses' = [s \in DOMAIN statuses |->
                       IF statuses[s].stage # "BUY_SETUP" THEN statuses[s]
                       ELSE [stage |-> "BUY_SETUP",
                             score |-> (CHOOSE i \in ToSet(found) : i.symbol = s).score]]
    /\ cur' = Idle
    /\ UNCHANGED <<todo, funnel>>

ScanInit ==
    /\ todo = Fresh(Watchlist, LAMBDA i : Watchlist[i])
    /\ stage = "fetch" /\ cur = Idle
    /\ statuses = <<>> /\ found = <<>> /\ funnel = [k \in Counters |-> 0]

ScanNext == Fetch \/ Entry \/ Predict \/ Rank
ScanSpec == ScanInit /\ [][ScanNext]_scanVars
-----------------------------------------------------------------------------
(* Properties.                                                             *)

\* A timeframe that speaks for buying: it was there, and a buyer among its strategies
\* trades in a regime that suits it.
Backs(c, tf) ==
    /\ c.cells[tf] # Absent
    /\ \E i \in DOMAIN c.cells[tf] : c.cells[tf][i].direction = "BUY" /\ Compatible(c.cells[tf][i])

\* A close of the window that the price had risen to from the window's first close and
\* has fallen back from by a swing.
Ceiling(w, j, swing) ==
    /\ 1000 * (w[j] - w[1]) >= swing
    /\ \E k \in j..Len(w) : 1000 * (w[j] - w[k]) >= swing /\ \A i \in 1..k : w[i] <= w[j]

\* What is called a setup is one, seen at once from all that went into it: enough
\* timeframes speak for it, the one it starts from among them; now the price is
\* between its stop and its target, on volume, without a rejection and not run away
\* (the exemption for a retest never applies: the level is chosen above the
\* price); and no ceiling is close above.
Sound(c) ==
    LET now == Last(c.frame.closes)
        window == Recent(c.frame.closes, SwingBars)
        rep == Representative(c)
    IN /\ Cardinality({tf \in Roles \intersect ToSet(Confirming) : Backs(c, tf)}) >= Required
       /\ Backs(c, c.origin) /\ rep.direction = "BUY"
       /\ rep.stop < now /\ now < rep.target /\ c.frame.busy >= 1 /\ ~c.frame.wick /\ ~c.frame.far
       /\ \A j \in DOMAIN window :
            Ceiling(window, j, now * SwingLevel) /\ window[j] > now => ~Within(now, window[j], NearLevel)

Number(stages) == Cardinality({s \in DOMAIN statuses : statuses[s].stage \in stages})

\* A scan accounts for every symbol once, its counters are the sums of its statuses, and
\* the opportunities are the setups, the strongest first.
AddsUp ==
    /\ DOMAIN statuses = ToSet(Watchlist)
    /\ funnel.raw >= funnel.consolidated /\ funnel.consolidated >= funnel.setups
    /\ funnel.scored <= Cardinality(ToSet(Confirming)) * funnel.candidates
    /\ funnel.setups = funnel.confirmed + Number({"MTF_CONFLICT"}) + Number({"MTF_MISSING_DATA"})
    /\ funnel.missing = Number({"MTF_MISSING_DATA"}) /\ funnel.conflict = Number({"MTF_CONFLICT"})
    /\ funnel.confirmed = funnel.entry + Number({"NO_PRIMARY_SETUP", "ENTRY_NOT_READY"})
    /\ funnel.entry = Len(found) + Number({"ML_NOT_CONFIRMED"})
    /\ Predicting => funnel.candidates = funnel.entry /\ funnel.qualified = Len(found)
    /\ {s \in DOMAIN statuses : statuses[s].stage = "BUY_SETUP"} = {found[i].symbol : i \in DOMAIN found}
    /\ \A i, j \in DOMAIN found : i < j =>
            found[i].symbol # found[j].symbol /\ found[i].score >= found[j].score

SetupsAreSound ==
    /\ cur.verdict = "BUY_SETUP" => Sound(cur)
    /\ stage = "ranked" => AddsUp
=============================================================================
