------------------------- MODULE TechnicalStrategies -------------------------
(***************************************************************************)
(* The technical strategies (core/strategies/production.py,                *)
(* core/candidates/signals.py): each maps one snapshot of indicators to a  *)
(* BUY, a SELL or nothing.  A snapshot holds the fields its strategy       *)
(* reads.  Prices are 0..Top in units of the ATR; RSI, percentile and the  *)
(* like are measured from their centre, so that a mirror image of the      *)
(* market swaps highs with lows, negates the signed fields and reflects    *)
(* prices.  Scores, texts and codes are left out.                          *)
(***************************************************************************)
EXTENDS Integers, FiniteSets

CONSTANTS Top,
          AdxMin, AdxMax, MaxExtension, MinSlope, MinRvol, MinRoc, MinMomentum,
          PullbackDistance, MinBody, RsiBuyMin, RsiBuyMax, RsiSellMin, RsiSellMax,
          ReversionBuyMax, ReversionSellMin, MinBandwidth, MinDeviation, MinZscore,
          BuyPercentile, SellPercentile, MinExcess, Oversold, Overbought,
          PlannedStop, NearEma, MaxRisk,
          Missing      \* an indicator that could not be computed

\* Thresholds are numbers on the scale of their field; no number stands for an
\* indicator that could not be computed.
ASSUME SnapshotAssumption ==
    /\ Top \in Nat /\ Missing \notin Int /\ Missing \notin BOOLEAN
    /\ {AdxMin, AdxMax, MaxExtension, MinSlope, MinRvol, MinRoc, MinMomentum, PullbackDistance,
        MinBody, RsiBuyMin, RsiBuyMax, RsiSellMin, RsiSellMax, ReversionBuyMax, ReversionSellMin,
        MinBandwidth, MinDeviation, MinZscore, BuyPercentile, SellPercentile, MinExcess, Oversold,
        Overbought, PlannedStop, NearEma, MaxRisk} \subseteq Int

VARIABLES strategy, ind, signal

tVars == <<strategy, ind, signal>>

---------------------------------------------------------------------------
Has(x, fields) == \A f \in fields : x[f] # Missing
Decide(bullish, bearish) == IF bullish THEN "BUY" ELSE IF bearish THEN "SELL" ELSE "none"
Dist(a, b) == IF a > b THEN a - b ELSE b - a
Rvol(x) == IF x.rvol = Missing THEN 1 ELSE x.rvol

(* production.py: a level is broken by a close that the close before had not broken *)
Breakout(x, hi, lo) ==
    Decide(/\ x.close > hi /\ x.prevClose <= hi
           /\ x.rvol >= MinRvol /\ x.adx >= AdxMin /\ x.close - hi <= MaxExtension,
           /\ x.close < lo /\ x.prevClose >= lo
           /\ x.rvol >= MinRvol /\ x.adx >= AdxMin /\ lo - x.close <= MaxExtension)

EmaAdxTrend(x) ==
    IF ~Has(x, {"adx", "plusDi"}) THEN "none" ELSE
    LET ok == x.adx >= AdxMin /\ Dist(x.close, x.ema20) <= MaxExtension /\ Rvol(x) >= MinRvol
    IN Decide(ok /\ x.ema20 > x.ema50 /\ x.close > x.ema20 /\ x.slope >= MinSlope /\ x.plusDi > x.minusDi,
              ok /\ x.ema20 < x.ema50 /\ x.close < x.ema20 /\ x.slope <= -MinSlope /\ x.minusDi > x.plusDi)

DonchianBreakout(x) == IF ~Has(x, {"rvol", "prevClose"}) THEN "none"
                       ELSE Breakout(x, x.donHigh, x.donLow)
VolumeProfileBreakout(x) == IF ~Has(x, {"rvol", "vaHigh"}) THEN "none"
                            ELSE Breakout(x, x.vaHigh, x.vaLow)

OpeningRangeBreakout(x) ==
    IF ~x.complete \/ ~Has(x, {"rvol", "vwap"}) THEN "none"
    ELSE LET d == Breakout(x, x.orHigh, x.orLow)
         IN IF (d = "BUY" /\ x.close > x.vwap) \/ (d = "SELL" /\ x.close < x.vwap) THEN d ELSE "none"

TimeSeriesMomentum(x) ==
    IF ~Has(x, {"roc", "momentum"}) THEN "none" ELSE
    Decide(/\ x.roc >= MinRoc /\ x.momentum >= MinMomentum /\ x.adx >= AdxMin
           /\ x.ema20 > x.ema50 /\ x.close > x.ema20,
           /\ x.roc <= -MinRoc /\ x.momentum <= -MinMomentum /\ x.adx >= AdxMin
           /\ x.ema20 < x.ema50 /\ x.close < x.ema20)

TrendPullback(x) ==
    LET ok == x.adx >= AdxMin /\ x.body >= MinBody /\ Rvol(x) >= MinRvol
    IN Decide(
           /\ ok /\ x.ema20 > x.ema50 /\ x.slope > 0
           /\ Dist(x.prevLow, x.prevEma20) <= PullbackDistance
           /\ x.close > x.ema20 /\ x.close > x.open /\ x.close > x.prevClose
           /\ RsiBuyMin <= x.rsi /\ x.rsi <= RsiBuyMax,
           /\ ok /\ x.ema20 < x.ema50 /\ x.slope < 0
           /\ Dist(x.prevHigh, x.prevEma20) <= PullbackDistance
           /\ x.close < x.ema20 /\ x.close < x.open /\ x.close < x.prevClose
           /\ RsiSellMin <= x.rsi /\ x.rsi <= RsiSellMax)

SupertrendAdxEma(x) ==
    LET ok == x.adx >= AdxMin /\ Dist(x.close, x.ema50) <= MaxExtension
    IN Decide(ok /\ x.stBullish /\ x.close > x.ema50 /\ x.plusDi > x.minusDi,
              ok /\ ~x.stBullish /\ x.close < x.ema50 /\ x.minusDi > x.plusDi)

Histogram(x) == x.macd - x.macdSignal
MacdTrendContinuation(x) ==
    LET before == x.macdPrev - x.macdSignalPrev
    IN Decide(/\ x.macd > x.macdSignal /\ (x.macdPrev <= x.macdSignalPrev \/ Histogram(x) > before)
              /\ x.close > x.ema50 /\ x.adx >= AdxMin /\ x.rsi <= RsiBuyMax,
              /\ x.macd < x.macdSignal /\ (x.macdPrev >= x.macdSignalPrev \/ Histogram(x) < before)
              /\ x.close < x.ema50 /\ x.adx >= AdxMin /\ x.rsi >= RsiSellMin)

BollingerRsi(x) ==
    LET ranging == x.adx <= AdxMax /\ x.bandwidth >= MinBandwidth
    IN Decide(ranging /\ x.prevClose <= x.prevLower /\ x.close > x.bbLower /\ x.close > x.open
                      /\ x.rsi <= ReversionBuyMax,
              ranging /\ x.prevClose >= x.prevUpper /\ x.close < x.bbUpper /\ x.close < x.open
                      /\ x.rsi >= ReversionSellMin)

VwapMeanReversion(x) ==
    IF ~Has(x, {"distance", "zscore"}) THEN "none" ELSE
    Decide(/\ x.adx <= AdxMax /\ x.distance <= -MinDeviation /\ x.zscore <= -MinZscore
           /\ x.rsi <= ReversionBuyMax /\ x.close > x.open /\ x.close > x.prevClose,
           /\ x.adx <= AdxMax /\ x.distance >= MinDeviation /\ x.zscore >= MinZscore
           /\ x.rsi >= ReversionSellMin /\ x.close < x.open /\ x.close < x.prevClose)

(* The cross-sectional context counts only if it is of the same settled candle *)
RelativeStrength(x) ==
    IF ~x.sameCandle THEN "none" ELSE
    LET ok == x.adx >= AdxMin /\ Rvol(x) >= MinRvol
    IN Decide(ok /\ x.excess >= MinExcess /\ x.percentile >= BuyPercentile
                 /\ x.ema20 > x.ema50 /\ x.close > x.ema20,
              ok /\ x.excess <= -MinExcess /\ x.percentile <= SellPercentile
                 /\ x.ema20 < x.ema50 /\ x.close < x.ema20)

(* Long only; the stop it checks is tighter than the one _create_signal sets *)
EmaTrendConfluence(x) ==
    LET up == x.close > x.open
        stop == LET near == x.close - PlannedStop IN IF x.donLow > near THEN x.donLow ELSE near
        breakout == /\ x.close > x.donHigh /\ x.prevClose <= x.donHigh
                    /\ x.rvol >= MinRvol /\ up /\ x.body >= MinBody
        pullback == /\ x.close > x.ema50 /\ x.ema20 >= x.ema50 /\ x.low <= x.ema20 + NearEma
                    /\ x.close > x.ema20 /\ up
        reversal == x.close > x.ema20 /\ x.prevClose < x.prevEma20 /\ up
    IN Decide(/\ breakout \/ pullback \/ reversal
              /\ x.rsi > 0 /\ x.rsi <= Overbought /\ x.macdRises /\ ~x.bigWick /\ ~x.rally
              /\ x.close > stop /\ x.close - stop <= MaxRisk, FALSE)

---------------------------------------------------------------------------
(* signals.py: the seven older strategies *)
Momentum(x) == Decide(x.rsi < 0 /\ x.histogram > 0, x.rsi > 0 /\ x.histogram < 0)
MeanReversion(x) == Decide(x.close <= x.bbLower, x.close >= x.bbUpper)
SqueezeBreakout(x) == Decide(x.squeeze /\ x.close > x.bbUpper, x.squeeze /\ x.close < x.bbLower)
TrendFollowing(x) == Decide(x.adx > AdxMin /\ x.plusDi > x.minusDi /\ x.close > x.ema20,
                            x.adx > AdxMin /\ x.minusDi > x.plusDi /\ x.close < x.ema20)
EmaHeikenAshi(x) == Decide(x.adx > AdxMin /\ x.close > x.ema20 /\ x.rsi > 0 /\ x.ha /\ ~x.haPrev,
                           x.adx > AdxMin /\ x.close < x.ema20 /\ x.rsi < 0 /\ ~x.ha /\ x.haPrev)
EmaPsar(x) == Decide(x.fast > x.slow /\ x.psarBullish, x.fast < x.slow /\ ~x.psarBullish)
EmaCci(x) == Decide(x.close > x.ema50 /\ x.cci > 1, x.close < x.ema50 /\ x.cci < -1)

Graded == {"momentum", "mean_reversion", "breakout", "trend_following", "ema_heiken_ashi_rsi",
           "ema_psar", "ema_cci"}

(* Its strength, where the older strategies grade their own signals; the     *)
(* others are graded by their technical score, which is left out             *)
Strength(s, x, d) ==
    CASE s = "momentum" ->
           (IF x.rsi < Oversold \/ x.rsi > Overbought THEN "strong"
            ELSE IF x.rsi < -1 \/ x.rsi > 1 THEN "moderate" ELSE "weak")
      [] s = "mean_reversion" ->
           (IF (d = "BUY" /\ x.rsi < Oversold) \/ (d = "SELL" /\ x.rsi > Overbought)
            THEN "strong" ELSE "moderate")
      [] s = "ema_psar" -> (IF Dist(x.fast, x.slow) > 1 THEN "strong" ELSE "moderate")
      [] s = "breakout" -> "strong"
      [] s = "trend_following" -> (IF x.adx > 2 THEN "strong" ELSE "moderate")
      [] s = "ema_heiken_ashi_rsi" ->
           (IF x.adx > 2 /\ (IF d = "BUY" THEN x.rsi > 1 ELSE x.rsi < -1) THEN "strong" ELSE "moderate")
      [] s = "ema_cci" -> (IF x.cci > 2 \/ x.cci < -2 THEN "strong" ELSE "moderate")
      [] OTHER -> "moderate"

(* _directional_confidence: the indicators that agree with the direction *)
Agree_slip(x, buy) ==
    {f \in DOMAIN x \cap {"rsi", "histogram", "plusDi", "ema20"} :
       CASE f = "rsi" -> x.rsi < 0
         [] f = "histogram" -> (IF buy THEN x.histogram > 0 ELSE x.histogram < 0)
         [] f = "plusDi" -> (IF buy THEN x.plusDi > x.minusDi ELSE x.minusDi > x.plusDi)
         [] f = "ema20" -> (IF buy THEN x.close > x.ema20 ELSE x.close < x.ema20)}
Agree(x, buy) ==
    {f \in DOMAIN x \cap {"rsi", "histogram", "plusDi", "ema20"} :
       CASE f = "rsi" -> (IF buy THEN x.rsi < 0 ELSE x.rsi > 0)
         [] f = "histogram" -> (IF buy THEN x.histogram > 0 ELSE x.histogram < 0)
         [] f = "plusDi" -> (IF buy THEN x.plusDi > x.minusDi ELSE x.minusDi > x.plusDi)
         [] f = "ema20" -> (IF buy THEN x.close > x.ema20 ELSE x.close < x.ema20)}

Silent == [side |-> "none"]

(* _create_signal: stop and target two and three ATR from the entry, or      *)
(* fixed percentages where the strategy fades a move                         *)
CreateSignal(s, x, d) ==
    LET sign == IF d = "BUY" THEN 1 ELSE -1
        unit == IF s = "mean_reversion" THEN "percent" ELSE "atr"
    IN [side |-> d, unit |-> unit, stop |-> -(2 * sign), target |-> 3 * sign,
        strength |-> Strength(s, x, d), agree |-> IF s \in Graded THEN Cardinality(Agree(x, d = "BUY")) ELSE 0]

(* _run_strategy *)
Direction(s, x) ==
    CASE s = "ema_adx_trend" -> EmaAdxTrend(x)
      [] s = "donchian_breakout" -> DonchianBreakout(x)
      [] s = "volume_profile_breakout" -> VolumeProfileBreakout(x)
      [] s = "opening_range_breakout" -> OpeningRangeBreakout(x)
      [] s = "time_series_momentum" -> TimeSeriesMomentum(x)
      [] s = "trend_pullback" -> TrendPullback(x)
      [] s = "supertrend_adx_ema" -> SupertrendAdxEma(x)
      [] s = "macd_trend_continuation" -> MacdTrendContinuation(x)
      [] s = "bollinger_rsi_mean_reversion" -> BollingerRsi(x)
      [] s = "vwap_mean_reversion" -> VwapMeanReversion(x)
      [] s = "relative_strength_momentum" -> RelativeStrength(x)
      [] s = "ema_trend_confluence" -> EmaTrendConfluence(x)
      [] s = "momentum" -> Momentum(x)
      [] s = "mean_reversion" -> MeanReversion(x)
      [] s = "breakout" -> SqueezeBreakout(x)
      [] s = "trend_following" -> TrendFollowing(x)
      [] s = "ema_heiken_ashi_rsi" -> EmaHeikenAshi(x)
      [] s = "ema_psar" -> EmaPsar(x)
      [] s = "ema_cci" -> EmaCci(x)
Signal(s, x) == LET d == Direction(s, x) IN IF d = "none" THEN Silent ELSE CreateSignal(s, x, d)

---------------------------------------------------------------------------
Rungs == 0..Top
Lev == 1..2
Sg == -1..1
Inputs(s) ==
    CASE s = "ema_adx_trend" -> [close : Rungs, ema20 : Rungs, ema50 : Rungs, slope : Sg, adx : Lev \cup {Missing},
                                 plusDi : Lev, minusDi : Lev, rvol : {0, 1, Missing}]
      [] s = "donchian_breakout" -> {x \in [close : Rungs, prevClose : Rungs, donHigh : Rungs, donLow : Rungs,
                                            rvol : {0, 1, Missing}, adx : Lev] : x.donLow <= x.donHigh}
      [] s = "volume_profile_breakout" -> {x \in [close : Rungs, prevClose : Rungs, vaHigh : Rungs, vaLow : Rungs,
                                                  rvol : {0, 1}, adx : Lev] : x.vaLow < x.vaHigh}
      [] s = "opening_range_breakout" -> {x \in [close : Rungs, prevClose : Rungs, orHigh : Rungs, orLow : Rungs,
                                                 vwap : Rungs, complete : BOOLEAN, rvol : {0, 1}, adx : Lev] :
                                            x.orLow <= x.orHigh}
      [] s = "time_series_momentum" -> [close : Rungs, ema20 : Rungs, ema50 : Rungs, roc : Sg \cup {Missing},
                                        momentum : Sg, adx : Lev]
      [] s = "trend_pullback" -> {x \in [close : {0, 1, 3}, open : 1..2, ema20 : 1..2, ema50 : 1..2, prevEma20 : 0..2,
                                         prevClose : 0..2, prevLow : 0..2, prevHigh : 1..3, slope : Sg, adx : Lev,
                                         body : 0..1, rvol : {1, Missing}, rsi : Sg] : x.prevLow <= x.prevClose /\ x.prevClose <= x.prevHigh}
      [] s = "supertrend_adx_ema" -> [close : Rungs, ema50 : Rungs, stBullish : BOOLEAN, adx : Lev,
                                      plusDi : Lev, minusDi : Lev]
      [] s = "macd_trend_continuation" -> [macd : Sg, macdSignal : Sg, macdPrev : Sg, macdSignalPrev : Sg,
                                           close : 0..2, ema50 : {1}, adx : Lev, rsi : -2..2]
      [] s = "bollinger_rsi_mean_reversion" ->
           {x \in [bbLower : 0..2, bbUpper : 0..2, prevLower : 0..2, prevUpper : 0..2, prevClose : 0..2,
                   close : 0..2, open : 0..2, adx : Lev, bandwidth : 0..1, rsi : Sg] :
              x.bbLower <= x.bbUpper /\ x.prevLower < x.prevUpper}
      [] s = "vwap_mean_reversion" -> [distance : Sg \cup {Missing}, zscore : Sg, rsi : Sg, adx : Lev,
                                       close : 0..2, open : 0..2, prevClose : 0..2]
      [] s = "relative_strength_momentum" -> [sameCandle : BOOLEAN, excess : Sg, percentile : Sg, close : 0..2,
                                              ema20 : 0..2, ema50 : 0..2, adx : Lev, rvol : {0, 1, Missing}]
      [] s = "ema_trend_confluence" ->
           {x \in [close : 1..2, open : {1}, low : 0..1, prevClose : 0..2, ema20 : 0..2, prevEma20 : 0..2,
                   ema50 : {1}, donHigh : 1..2, donLow : 0..1, rvol : 0..1, body : 0..1, rsi : {-1, 1, 3},
                   macdRises : BOOLEAN, bigWick : BOOLEAN, rally : BOOLEAN] : x.macdRises \/ ~x.rally}
      [] s = "momentum" -> [rsi : -3..3, histogram : Sg]
      [] s = "mean_reversion" -> {x \in [close : Rungs, bbLower : Rungs, bbUpper : Rungs, rsi : -3..3] :
                                    x.bbLower <= x.bbUpper}
      [] s = "breakout" -> {x \in [close : Rungs, bbLower : Rungs, bbUpper : Rungs, squeeze : BOOLEAN] :
                              x.bbLower <= x.bbUpper}
      [] s = "trend_following" -> [close : Rungs, ema20 : Rungs, adx : 1..3, plusDi : Lev, minusDi : Lev]
      [] s = "ema_heiken_ashi_rsi" -> [close : Rungs, ema20 : Rungs, adx : 1..3, rsi : -2..2, ha : BOOLEAN, haPrev : BOOLEAN]
      [] s = "ema_psar" -> [fast : Rungs, slow : Rungs, psarBullish : BOOLEAN]
      [] s = "ema_cci" -> [close : Rungs, ema50 : Rungs, cci : -3..3]
Strategies == {"ema_adx_trend", "donchian_breakout", "volume_profile_breakout", "opening_range_breakout",
    "time_series_momentum", "trend_pullback", "supertrend_adx_ema", "macd_trend_continuation",
    "bollinger_rsi_mean_reversion", "vwap_mean_reversion", "relative_strength_momentum",
    "ema_trend_confluence", "momentum",
    "mean_reversion", "breakout", "trend_following", "ema_heiken_ashi_rsi", "ema_psar", "ema_cci"}

TInit == strategy \in Strategies /\ ind \in Inputs(strategy) /\ signal = Silent

(* generate_signals, for one strategy *)
Evaluate == signal = Silent /\ signal' = Signal(strategy, ind) /\ UNCHANGED <<strategy, ind>>
TNext == Evaluate
TSpec == TInit /\ [][TNext]_tVars

---------------------------------------------------------------------------
(* The mirror image of a snapshot *)
Partner(f) ==
    CASE f = "plusDi" -> "minusDi" [] f = "minusDi" -> "plusDi"
      [] f = "donHigh" -> "donLow" [] f = "donLow" -> "donHigh"
      [] f = "vaHigh" -> "vaLow" [] f = "vaLow" -> "vaHigh"
      [] f = "orHigh" -> "orLow" [] f = "orLow" -> "orHigh"
      [] f = "prevHigh" -> "prevLow" [] f = "prevLow" -> "prevHigh"
      [] f = "bbUpper" -> "bbLower" [] f = "bbLower" -> "bbUpper"
      [] f = "prevUpper" -> "prevLower" [] f = "prevLower" -> "prevUpper"
      [] OTHER -> f
PriceFields == {"close", "fast", "slow", "open", "prevClose", "ema20", "ema50", "prevEma20", "vwap", "donHigh", "donLow", "vaHigh",
           "vaLow", "orHigh", "orLow", "prevHigh", "prevLow", "bbUpper", "bbLower", "prevUpper", "prevLower"}
Signed == {"slope", "roc", "momentum", "rsi", "macd", "macdSignal", "macdPrev", "macdSignalPrev", "distance",
           "zscore", "excess", "percentile", "histogram", "cci"}
Flags == {"stBullish", "psarBullish", "ha", "haPrev"}
Mirror(x) == [f \in DOMAIN x |->
    LET v == x[Partner(f)]
    IN IF v = Missing THEN v ELSE IF f \in PriceFields THEN Top - v ELSE IF f \in Signed THEN -v
       ELSE IF f \in Flags THEN ~v ELSE v]
Opposite(d) == IF d = "BUY" THEN "SELL" ELSE "BUY"
ZeroWidth(x) == "bbLower" \in DOMAIN x /\ x.bbLower = x.bbUpper

(* Every strategy treats falling and rising markets alike: in the mirror     *)
(* image of a market it gives the opposite signal, as strong, as agreed      *)
(* with, with stop and target on the other side.  One side's threshold,      *)
(* comparison or field taken for the other's breaks it.  Bands of no width   *)
(* (a flat series, which mean_reversion always buys) are set apart, and so   *)
(* is the one strategy that is long only by its source.                      *)
MirrorImage ==
    LET m == Signal(strategy, Mirror(ind))
    IN signal # Silent /\ ~ZeroWidth(ind) /\ strategy # "ema_trend_confluence" =>
         /\ m # Silent /\ m.side = Opposite(signal.side) /\ m.strength = signal.strength /\ m.unit = signal.unit
         /\ m.agree = signal.agree /\ m.stop = -signal.stop /\ m.target = -signal.target
=============================================================================
