---------------------------- MODULE BarIndicators ----------------------------
(***************************************************************************)
(* Indicators over a frame of settled bars (core/indicators/engine.py) and *)
(* what the pivot-zone strategy makes of them: pivots confirmed by volume  *)
(* give a resistance and a support zone whose height is the ATR at the     *)
(* pivot; the frame slides, so that an old zone moves with its seed.  The  *)
(* cache in front remembers a result by the last bar's time and close.     *)
(* The volume profile grows its value area one bucket at a time.           *)
(***************************************************************************)
EXTENDS Integers, SequencesExt, FiniteSetsExt, Functions

CONSTANTS Bars,          \* settled bars: open, high, low, close, loud (volume above its average)
          PivotLen, AtrLen, VolAvgLen,
          FrameBars, LastBar, Overlap, MaxCached,
          Buckets, Volumes, AreaPercent

ASSUME SeriesAssumption ==
    /\ {PivotLen, AtrLen, VolAvgLen, Overlap, LastBar} \subseteq Nat
    /\ {FrameBars, MaxCached, Buckets} \subseteq Nat \ {0}
    /\ Volumes \subseteq Nat /\ AreaPercent \in 0..100

VARIABLES bars,          \* every bar settled so far
          corrected,     \* an earlier bar has been downloaded anew and differs
          events,        \* the pivot strategy's reactions, oldest first
          cached,        \* IndicatorCache: key and the bars its result was computed from
          given          \* the frame behind the last answer of the cache
VARIABLES profile,       \* volume per price bucket
          area           \* the value area so far: its first and last bucket

bVars == <<bars, corrected, events, cached, given>>
pVars == <<profile, area>>

---------------------------------------------------------------------------
TrueRange(f, i) ==
    IF i = 1 THEN f[i].high - f[i].low
    ELSE Max({f[i].high - f[i].low, f[i].high - f[i - 1].close, f[i - 1].close - f[i].low})

(* Wilder's ATR at bar i, seeded with the first AtrLen bars of the frame *)
Atr(f, i) ==
    LET seed == MapThenSumSet(LAMBDA k : TrueRange(f, k), 1..AtrLen)
        at[k \in AtrLen..i] == IF k = AtrLen THEN seed \div AtrLen
                               ELSE (at[k - 1] * (AtrLen - 1) + TrueRange(f, k)) \div AtrLen
    IN at[i]

PivotHigh(f, i) == \A k \in (i - PivotLen)..(i + PivotLen) : k # i => f[k].high < f[i].high
PivotLow(f, i) == \A k \in (i - PivotLen)..(i + PivotLen) : k # i => f[k].low > f[i].low

(* The bars whose pivot was confirmed before the last bar *)
Confirmed(f) == (PivotLen + 1)..(Len(f) - 1 - PivotLen)
Peaks(f) == {i \in Confirmed(f) : PivotHigh(f, i) /\ f[i].loud /\ i >= AtrLen}
Troughs(f) == {i \in Confirmed(f) : PivotLow(f, i) /\ f[i].loud /\ i >= AtrLen}

NoZone == [bar |-> 0]
(* The closes that can have broken a zone already: from its confirmation to the bar before now *)
Elapsed_slip(f, i) == (i + PivotLen)..(Len(f) - 2)
Elapsed(f, i) == (i + PivotLen)..(Len(f) - 1)
Resistance(f) ==
    IF Peaks(f) = {} THEN NoZone
    ELSE LET i == Max(Peaks(f))
             base == Max({f[i].open, f[i].close})
             top == base + Atr(f, i)
         IN [bar |-> i, top |-> top, bottom |-> base, broken |-> \E k \in Elapsed(f, i) : f[k].close > top]
Support(f) ==
    IF Troughs(f) = {} THEN NoZone
    ELSE LET i == Max(Troughs(f))
             base == Min({f[i].open, f[i].close})
             bottom == base - Atr(f, i)
         IN [bar |-> i, top |-> base, bottom |-> bottom, broken |-> \E k \in Elapsed(f, i) : f[k].close < bottom]

Enough(f) == Len(f) >= 2 * PivotLen + Max({VolAvgLen, AtrLen}) + 2

(* _pivot_volume_sr_zones: the six reactions, resistance first *)
ReactionR(f, z) ==
    LET b == f[Len(f)]  p == f[Len(f) - 1]
    IN IF z = NoZone THEN "none"
       ELSE IF z.broken THEN IF p.low <= z.top /\ b.low > z.top THEN "retest" ELSE "none"
       ELSE IF b.close > z.top THEN "break"
       ELSE IF p.high >= z.bottom /\ b.high < z.bottom THEN "reject" ELSE "none"
ReactionS(f, z) ==
    LET b == f[Len(f)]  p == f[Len(f) - 1]
    IN IF z = NoZone THEN "none"
       ELSE IF z.broken THEN IF p.high >= z.bottom /\ b.high < z.bottom THEN "retest" ELSE "none"
       ELSE IF b.close < z.bottom THEN "break"
       ELSE IF p.low <= z.top /\ b.low > z.top THEN "reject" ELSE "none"
Side(kind, resistance) == IF (kind = "reject") = resistance THEN "SELL" ELSE "BUY"
(* offset: how many bars lie before the frame, so that a zone keeps its name *)
Reaction(f, offset) ==
    LET r == Resistance(f)  s == Support(f)
        kr == ReactionR(f, r)  ks == ReactionS(f, s)
        event(kind, z, res) == <<[kind |-> kind, bar |-> z.bar + offset, resistance |-> res,
                                  level |-> IF res THEN z.top ELSE z.bottom, at |-> Len(f) + offset,
                                  side |-> Side(kind, res)]>>
    IN IF ~Enough(f) THEN <<>> ELSE IF kr # "none" THEN event(kr, r, TRUE)
       ELSE IF ks # "none" THEN event(ks, s, FALSE) ELSE <<>>

Frame(bs) == IF Len(bs) <= FrameBars THEN bs ELSE SubSeq(bs, Len(bs) - FrameBars + 1, Len(bs))

---------------------------------------------------------------------------
(* IndicatorCache: symbol, timeframe, market and configuration are fixed *)
Key_slip(bs) == bs[Len(bs)].close
Key(bs) == <<Len(bs), bs[Len(bs)].close>>
Hits(bs) == {i \in DOMAIN cached : cached[i].key = Key(bs)}
Answer(bs) == IF Hits(bs) = {} THEN Frame(bs) ELSE cached[CHOOSE i \in Hits(bs) : TRUE].frame
(* a hit moves to the end; a miss is added there, and beyond the limit the oldest goes *)
Remember(bs) ==
    IF Hits(bs) # {}
    THEN LET i == CHOOSE i \in Hits(bs) : TRUE
         IN Append(RemoveAt(cached, i), cached[i])
    ELSE LET all == Append(cached, [key |-> Key(bs), frame |-> Frame(bs)])
         IN IF Len(all) > MaxCached THEN Tail(all) ELSE all
Recall(bs) ==
    /\ cached' = Remember(bs)
    /\ given' = Answer(bs)
    /\ bars' = bs

BInit == bars = <<>> /\ corrected = FALSE /\ events = <<>> /\ cached = <<>> /\ given = <<>>

(* A bar settles: its indicators are asked for and the strategy reacts *)
Settle ==
    /\ Len(bars) < LastBar
    /\ \E b \in Bars :
          LET bs == Append(bars, b)
          IN /\ Recall(bs)
             /\ events' = events \o Reaction(Answer(bs), Len(bs) - Len(Answer(bs)))
    /\ UNCHANGED corrected

(* A later download corrects a bar: it fetches the last ones again *)
Correct ==
    /\ ~corrected /\ corrected' = TRUE
    /\ \E i \in DOMAIN bars \cap ((Len(bars) - Overlap)..Len(bars)), b \in Bars : b # bars[i] /\ bars' = [bars EXCEPT ![i] = b]
    /\ UNCHANGED <<events, cached, given>>

(* The same candle is asked for again: by another reader, or after a failed evaluation *)
AskAgain == bars # <<>> /\ Recall(bars) /\ UNCHANGED <<corrected, events>>

BNext == Settle \/ Correct \/ AskAgain

BSpec == BInit /\ [][BNext]_bVars

---------------------------------------------------------------------------
(* _latest_volume_profile, once the volumes are in their buckets *)
VolumeIn(f, s) == MapThenSumSet(LAMBDA i : f[i], s)
Total == VolumeIn(profile, 1..Buckets)
Covered(lo, hi) == VolumeIn(profile, lo..hi)
Poc == CHOOSE i \in 1..Buckets : /\ \A j \in 1..Buckets : profile[j] <= profile[i]
                                 /\ \A j \in 1..(i - 1) : profile[j] < profile[i]
VolumeAt(i) == IF i \in 1..Buckets THEN profile[i] ELSE -1

PInit == /\ profile \in [1..Buckets -> Volumes] /\ Total > 0
         /\ area = [lo |-> Poc, hi |-> Poc, sum |-> profile[Poc], before |-> 0]

WantsMore == 100 * area.sum < AreaPercent * Total /\ (area.lo > 1 \/ area.hi < Buckets)
GrowUp_slip == [area EXCEPT !.hi = @ + 1, !.before = area.sum, !.sum = @ + VolumeAt(area.hi)]
GrowUp == [area EXCEPT !.hi = @ + 1, !.before = area.sum, !.sum = @ + VolumeAt(area.hi + 1)]
GrowDown == [area EXCEPT !.lo = @ - 1, !.before = area.sum, !.sum = @ + VolumeAt(area.lo - 1)]
Grow ==
    /\ WantsMore
    /\ area' = IF VolumeAt(area.hi + 1) >= VolumeAt(area.lo - 1) THEN GrowUp ELSE GrowDown
    /\ UNCHANGED profile
PNext == Grow

PSpec == PInit /\ [][PNext]_pVars

---------------------------------------------------------------------------
Before(e, kinds) ==
    {k \in DOMAIN events : /\ events[k].at < e.at /\ events[k].kind \in kinds
                           /\ events[k].bar = e.bar /\ events[k].resistance = e.resistance
                           /\ events[k].level = e.level}

(* A zone lives once.  At one level, a zone is broken at most once, is never *)
(* again rejected at or held once it was broken, and is retested only after  *)
(* a close beyond it; and what is signalled on a bar uses a pivot confirmed  *)
(* before that bar.  The break state is found by scanning closes anew on     *)
(* every bar, over a frame that slides; a window of that scan one bar short  *)
(* signals the same breakout twice.  A corrected bar may rewrite the past.   *)
ZoneLivesOnce ==
    ~corrected => \A k \in DOMAIN events :
        LET e == events[k]
        IN /\ e.bar + PivotLen < e.at
           /\ e.kind \in {"break", "reject"} => Before(e, {"break", "retest"}) = {}
           /\ e.kind = "retest" =>
                 \E j \in (e.bar + PivotLen)..(e.at - 1) :
                     IF e.resistance THEN bars[j].close > e.level ELSE bars[j].close < e.level

(* The cache answers with the indicators of exactly the bars it is asked     *)
(* about, unless a bar was corrected while the last close stayed the same:   *)
(* the key holds only the last bar's time and close, and the frame of the    *)
(* next candle must never be answered with that of the one before.           *)
FreshUnlessCorrected == given = <<>> \/ corrected \/ given = Frame(bars)

(* The value area covers the share asked of it (or everything), counts       *)
(* exactly the buckets it spans, and would not have covered it one step      *)
(* earlier.                                                                  *)
ValueAreaIsTight ==
    /\ area.sum = Covered(area.lo, area.hi) /\ Poc \in area.lo..area.hi
    /\ area.lo < area.hi => 100 * area.before < AreaPercent * Total
    /\ 100 * area.sum >= AreaPercent * Total \/ WantsMore

\* What is told of a series of bars is told once, of the bars as they are, and of as few
\* prices as hold the volume it speaks of.
SeriesIsTrue == ZoneLivesOnce /\ FreshUnlessCorrected /\ ValueAreaIsTight
===========================================================================
