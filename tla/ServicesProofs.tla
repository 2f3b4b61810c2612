--------------------------- MODULE ServicesProofs ---------------------------
(***************************************************************************)
(* What holds of the services the worker's threads share, for any number   *)
(* of threads, keys and series: the prediction cache (PredictionCache),    *)
(* the scan of the settled candles (SettledScan), the usage ledger with    *)
(* its hard budget (UsageLedger), and the agent graph, for any answers     *)
(* (AgentAnswers).                                                         *)
(*                                                                         *)
(* Neither the coalescing of the cache nor the freedom of its waiters      *)
(* follows from itself.  The invariant that carries them is the            *)
(* correspondence between _inflight and the threads inside the try         *)
(* statement: the registered owner of a key leads it, and whoever leads a  *)
(* key is its registered owner.  The budget rests on two accounts of the   *)
(* ledger, kept for every set of horizons: of what was asked for and spent *)
(* today, and of where every entry that was spent is.  An invocation of    *)
(* the graph keeps its candidates in lists; what each list holds, and what *)
(* a kept verdict was made from, is the invariant of the answers.          *)
(***************************************************************************)
EXTENDS PredictionCache, UsageLedger, SettledScan, AgentAnswers, SequenceTheorems, FiniteSetTheorems,
        WellFoundedInduction, TLAPS

Types ==
    /\ inflight \in [Keys -> Callers \cup {None}]
    /\ at \in [Callers -> Places]
    /\ key \in [Callers -> Keys \cup {None}]
    /\ \A c \in Callers : key[c] = None <=> at[c] = "idle"

Owners ==
    /\ \A k \in Keys : inflight[k] # None =>
          at[inflight[k]] \in Leading /\ key[inflight[k]] = k
    /\ \A c \in Callers : at[c] \in Leading => inflight[key[c]] = c

Waiters == \A c \in Callers : at[c] = "wait" => inflight[key[c]] # None

Coalescing == Types /\ Owners /\ Waiters

-----------------------------------------------------------------------------
\* The cache starts with no owner and no leader.
THEOREM CoalescingInit == CInit => Coalescing
BY CacheAssumption DEF CInit, Coalescing, Types, Owners, Waiters, Places, Leading

\* Every action of one thread keeps the correspondence.
LEMMA CallKeeps ==
    ASSUME Coalescing, NEW c \in Callers, NEW k \in Keys, Call(c, k)
    PROVE  Coalescing'
BY CacheAssumption
DEF Coalescing, Types, Owners, Waiters, Call, Places, Leading

\* A hit or a return keeps the correspondence of owners and leaders.
LEMMA HitKeeps ==
    ASSUME Coalescing, NEW c \in Callers, Hit(c)
    PROVE  Coalescing'
BY CacheAssumption
DEF Coalescing, Types, Owners, Waiters, Hit, Return, Places, Leading

\* So does a wait.
LEMMA WaitKeeps ==
    ASSUME Coalescing, NEW c \in Callers, Wait(c)
    PROVE  Coalescing'
BY CacheAssumption
DEF Coalescing, Types, Owners, Waiters, Wait, Places, Leading

\* So does taking the lead.
LEMMA LeadKeeps ==
    ASSUME Coalescing, NEW c \in Callers, Lead(c)
    PROVE  Coalescing'
BY CacheAssumption
DEF Coalescing, Types, Owners, Waiters, Lead, Places, Leading

\* So do the steps of an inference.
LEMMA InferKeeps ==
    ASSUME Coalescing, NEW c \in Callers, Infer(c) \/ Raise(c) \/ Store(c)
    PROVE  Coalescing'
BY CacheAssumption
DEF Coalescing, Types, Owners, Waiters, Infer, Raise, Store, Places, Leading

\* So does the release in the finally clause.
LEMMA ReleaseKeeps ==
    ASSUME Coalescing, NEW c \in Callers, Release(c)
    PROVE  Coalescing'
BY CacheAssumption
DEF Coalescing, Types, Owners, Waiters, Release, Places, Leading

\* Every step of predict_cached keeps the correspondence of owners and leaders.
THEOREM CoalescingStep == Coalescing /\ [CNext]_cVars => Coalescing'
<1> SUFFICES ASSUME Coalescing, [CNext]_cVars
             PROVE  Coalescing'
    OBVIOUS
<1>1. CASE UNCHANGED cVars
    BY <1>1 DEF cVars, Coalescing, Types, Owners, Waiters
<1>2. ASSUME NEW c \in Callers, Step(c)
      PROVE  Coalescing'
    BY <1>2, HitKeeps, WaitKeeps, LeadKeeps, InferKeeps, ReleaseKeeps DEF Step
<1>3. ASSUME NEW c \in Callers, NEW k \in Keys, Call(c, k)
      PROVE  Coalescing'
    BY <1>3, CallKeeps
<1> QED
    BY <1>1, <1>2, <1>3 DEF CNext

\* The registered owner of a key leads it, and whoever leads a key is its owner.
THEOREM CoalescingHolds == CSpec => []Coalescing
BY CoalescingInit, CoalescingStep, PTL DEF CSpec

-----------------------------------------------------------------------------
\* Two threads never run, store or release the same key at the same time: both
\* would be the registered owner of that key.
THEOREM OneInferencePerKeyHolds == CSpec => []OneInferencePerKey
<1>1. Coalescing => OneInferencePerKey
    BY DEF Coalescing, Owners, OneInferencePerKey
<1> QED
    BY <1>1, CoalescingHolds, PTL

\* A thread that waits has a leader that is still inside its try statement.
THEOREM WaitersAreLedHolds == CSpec => []WaitersAreLed
<1>1. Coalescing => WaitersAreLed
  <2> SUFFICES ASSUME Coalescing, NEW c \in Callers, at[c] = "wait"
               PROVE  /\ inflight[key[c]] # None
                      /\ at[inflight[key[c]]] \in Leading
                      /\ key[inflight[key[c]]] = key[c]
      BY DEF WaitersAreLed
  <2>1. key[c] \in Keys
      BY DEF Coalescing, Types
  <2> QED
      BY <2>1 DEF Coalescing, Owners, Waiters
<1> QED
    BY <1>1, CoalescingHolds, PTL

-----------------------------------------------------------------------------
(* The entries of the prediction cache.                                    *)

Once(s) == \A i, j \in 1..Len(s) : s[i] = s[j] => i = j

\* Every entry is there once, none too many, and none that is being inferred.
Contents ==
    /\ cache \in Seq(Keys)
    /\ Once(cache) /\ Len(cache) <= CacheSize
    /\ NothingInferredTwice

\* A key is taken out of its one place.
LEMMA WithoutIs ==
    ASSUME cache \in Seq(Keys), Once(cache), NEW k \in Keys
    PROVE  /\ Without(k) \in Seq(Keys) /\ Once(Without(k))
           /\ ToSet(Without(k)) \subseteq ToSet(cache) /\ k \notin ToSet(Without(k))
           /\ Len(Without(k)) = IF Cached(k) THEN Len(cache) - 1 ELSE Len(cache)
  <1>1. CASE ~Cached(k)
    BY <1>1 DEF Without, Cached, ToSet
  <1>2. CASE Cached(k)
    <2> DEFINE n == CHOOSE i \in DOMAIN cache : cache[i] = k
               f == SubSeq(cache, 1, n - 1)
               b == SubSeq(cache, n + 1, Len(cache))
               w == f \o b
    <2>1. n \in 1..Len(cache) /\ cache[n] = k
      BY <1>2 DEF Cached, ToSet
    <2>2. Without(k) = w
      BY <1>2 DEF Without, RemoveAt
    <2> HIDE DEF n
    <2>3. /\ w \in Seq(Keys) /\ Len(w) = Len(cache) - 1
          /\ \A i \in 1..Len(w) : w[i] = IF i < n THEN cache[i] ELSE cache[i + 1]
      <3>1. f \in Seq(Keys) /\ Len(f) = n - 1 /\ \A i \in 1..n - 1 : f[i] = cache[i]
        BY <2>1, SubSeqProperties
      <3>2. /\ b \in Seq(Keys) /\ Len(b) = Len(cache) - n
            /\ \A i \in 1..Len(cache) - n : b[i] = cache[i + n]
        BY <2>1, SubSeqProperties
      <3> HIDE DEF f, b
      <3>3. /\ w \in Seq(Keys) /\ Len(w) = Len(f) + Len(b)
            /\ \A i \in 1..Len(w) : w[i] = IF i <= Len(f) THEN f[i] ELSE b[i - Len(f)]
        <4>1. /\ w \in Seq(Keys) /\ Len(w) = Len(f) + Len(b)
              /\ \A i \in 1..Len(f) + Len(b) : w[i] = IF i <= Len(f) THEN f[i] ELSE b[i - Len(f)]
          <5>1. f \in Seq(Keys) /\ b \in Seq(Keys)
            BY <3>1, <3>2
          <5> QED BY ONLY <5>1, ConcatProperties
        <4> QED BY <3>1, <3>2, <4>1, <2>1
      <3>4. ASSUME NEW i \in 1..Len(w)
            PROVE  w[i] = IF i < n THEN cache[i] ELSE cache[i + 1]
        <4> HIDE DEF w
        <4>1. CASE i < n
          BY <4>1, <2>1, <3>1, <3>2, <3>3
        <4>2. CASE i >= n
          <5>1. w[i] = b[i - (n - 1)] /\ i - (n - 1) \in 1..Len(cache) - n
            BY <4>2, <2>1, <3>1, <3>2, <3>3
          <5> QED BY <4>2, <5>1, <2>1, <3>2
        <4> QED BY <4>1, <4>2, <2>1, <3>1, <3>2, <3>3
      <3> HIDE DEF w
      <3> QED BY <2>1, <3>1, <3>2, <3>3, <3>4
    <2> HIDE DEF w
    <2>4. Once(w)
      BY <2>1, <2>3 DEF Once
    <2>5. \A i \in 1..Len(w) : w[i] # k
      BY <2>1, <2>3 DEF Once
    <2>6. ToSet(w) \subseteq ToSet(cache) /\ k \notin ToSet(w)
      BY <2>1, <2>3, <2>5 DEF ToSet
    <2> QED BY <1>2, <2>2, <2>3, <2>4, <2>6
  <1> QED BY <1>1, <1>2

\* A key that is used becomes the newest, and one over the size costs the oldest.
LEMMA TouchedIs ==
    ASSUME cache \in Seq(Keys), Once(cache), NEW k \in Keys
    PROVE  /\ Touched(k) \in Seq(Keys) /\ Once(Touched(k))
           /\ ToSet(Touched(k)) \subseteq ToSet(cache) \cup {k}
           /\ Len(Touched(k)) = IF Cached(k) THEN Len(cache) ELSE Len(cache) + 1
  <1> DEFINE w == Without(k)
  <1>1. /\ w \in Seq(Keys) /\ Once(w) /\ ToSet(w) \subseteq ToSet(cache) /\ k \notin ToSet(w)
        /\ Len(w) = IF Cached(k) THEN Len(cache) - 1 ELSE Len(cache)
    BY WithoutIs
  <1>2. Touched(k) = Append(w, k)
    BY DEF Touched
  <1> HIDE DEF w
  <1>3. /\ Append(w, k) \in Seq(Keys) /\ Len(Append(w, k)) = Len(w) + 1
        /\ \A i \in 1..Len(w) + 1 : Append(w, k)[i] = IF i = Len(w) + 1 THEN k ELSE w[i]
    BY <1>1
  <1>4. Once(Append(w, k))
    BY <1>1, <1>3 DEF Once, ToSet
  <1>5. ToSet(Append(w, k)) \subseteq ToSet(cache) \cup {k}
    BY <1>1, <1>3 DEF ToSet
  <1> QED BY <1>1, <1>2, <1>3, <1>4, <1>5

\* A cache that is trimmed is within its size and holds nothing new, nothing twice.
LEMMA TrimmedIs ==
    ASSUME NEW s \in Seq(Keys), Once(s), Len(s) <= CacheSize + 1
    PROVE  /\ Trimmed(s) \in Seq(Keys) /\ Once(Trimmed(s)) /\ Len(Trimmed(s)) <= CacheSize
           /\ ToSet(Trimmed(s)) \subseteq ToSet(s)
  <1>1. CASE Len(s) > CacheSize
    <2>1. s # <<>>
      BY <1>1, CacheAssumption
    <2>2. /\ Tail(s) \in Seq(Keys) /\ Len(Tail(s)) = Len(s) - 1
          /\ \A i \in 1..Len(s) - 1 : Tail(s)[i] = s[i + 1]
      BY <2>1
    <2>3. Once(Tail(s)) /\ ToSet(Tail(s)) \subseteq ToSet(s)
      BY <2>2 DEF Once, ToSet
    <2> QED BY <1>1, <2>2, <2>3, CacheAssumption DEF Trimmed
  <1>2. CASE Len(s) <= CacheSize
    BY <1>2, CacheAssumption DEF Trimmed
  <1> QED BY <1>1, <1>2, CacheAssumption

\* A stored key was led by its thread alone, so nobody infers what is now cached.
LEMMA StoreContents ==
    ASSUME Coalescing, Contents, NEW c \in Callers, Store(c)
    PROVE  Contents'
  <1>1. /\ at[c] = "store" /\ key[c] \in Keys /\ cache' = Trimmed(Touched(key[c]))
        /\ at' = [at EXCEPT ![c] = "release"] /\ key' = key
    BY CacheAssumption DEF Store, Coalescing, Types
  <1>2. /\ Touched(key[c]) \in Seq(Keys) /\ Once(Touched(key[c]))
        /\ ToSet(Touched(key[c])) \subseteq ToSet(cache) \cup {key[c]}
        /\ Len(Touched(key[c])) <= CacheSize + 1
    <2>1. /\ cache \in Seq(Keys) /\ Once(cache) /\ Len(cache) <= CacheSize
      BY DEF Contents
    <2>2. /\ Touched(key[c]) \in Seq(Keys) /\ Once(Touched(key[c]))
          /\ ToSet(Touched(key[c])) \subseteq ToSet(cache) \cup {key[c]}
          /\ Len(Touched(key[c])) = IF Cached(key[c]) THEN Len(cache) ELSE Len(cache) + 1
      BY <1>1, <2>1, TouchedIs
    <2> QED BY <2>1, <2>2, CacheAssumption
  <1>3. /\ cache' \in Seq(Keys) /\ Once(cache') /\ Len(cache') <= CacheSize
        /\ ToSet(cache') \subseteq ToSet(cache) \cup {key[c]}
    BY <1>1, <1>2, TrimmedIs
  <1>4. ASSUME NEW d \in Callers, at'[d] \in {"infer", "store"}
        PROVE  ~Cached(key[d])'
    <2>1. d # c /\ at[d] \in {"infer", "store"}
      BY <1>1, <1>4 DEF Coalescing, Types
    <2>2. key[d] # key[c]
      BY <1>1, <2>1 DEF Coalescing, Owners, Leading
    <2> QED BY <1>1, <1>3, <2>1, <2>2 DEF Contents, NothingInferredTwice, Cached
  <1> QED BY <1>3, <1>4 DEF Contents, NothingInferredTwice

\* Every step keeps what the cache holds.
LEMMA ContentsStep == Coalescing /\ Contents /\ [CNext]_cVars => Contents'
  <1> SUFFICES ASSUME Coalescing, Contents, [CNext]_cVars PROVE Contents'
    OBVIOUS
  <1> USE DEF Contents, Coalescing, Types
  <1>1. CASE UNCHANGED cVars
    BY <1>1 DEF cVars, NothingInferredTwice, Cached
  <1>2. ASSUME NEW c \in Callers, NEW k \in Keys, Call(c, k)
        PROVE  Contents'
    BY <1>2 DEF Call, NothingInferredTwice, Cached
  <1>3. ASSUME NEW c \in Callers, Hit(c)
        PROVE  Contents'
    <2>1. /\ Cached(key[c]) /\ key[c] \in Keys /\ cache' = Touched(key[c])
          /\ at' = [at EXCEPT ![c] = "idle"] /\ key' = [key EXCEPT ![c] = None]
      BY <1>3, CacheAssumption DEF Hit, Return
    <2>2. /\ cache' \in Seq(Keys) /\ Once(cache') /\ Len(cache') = Len(cache)
          /\ ToSet(cache') \subseteq ToSet(cache)
      BY <2>1, TouchedIs DEF Cached
    <2> QED BY <2>1, <2>2 DEF NothingInferredTwice, Cached
  <1>4. ASSUME NEW c \in Callers, Wait(c) \/ Lead(c) \/ Infer(c) \/ Raise(c)
        PROVE  Contents'
    BY <1>4 DEF Wait, Lead, Infer, Raise, NothingInferredTwice, Cached
  <1>5. ASSUME NEW c \in Callers, Release(c)
        PROVE  Contents'
    BY <1>5 DEF Release, NothingInferredTwice, Cached
  <1> QED BY <1>1, <1>2, <1>3, <1>4, <1>5, StoreContents DEF CNext, Step

\* The cache keeps its order: inferences are coalesced, nobody waits for an event that
\* is never set, nothing cached is inferred again, and no entry is kept twice or over
\* the size, for any number of threads and keys, any size and any inference that raises.
THEOREM CacheIsSoundHolds == CSpec => []CacheIsSound
  <1>1. CInit => Contents
    BY CacheAssumption DEF CInit, Contents, Once, NothingInferredTwice
  <1>2. Coalescing /\ Contents => NothingInferredTwice /\ CacheBounded
    BY DEF Contents, Once, CacheBounded
  <1>3. CSpec => [](Coalescing /\ Contents)
    BY <1>1, ContentsStep, CoalescingHolds, PTL DEF CSpec
  <1> QED BY <1>2, <1>3, OneInferencePerKeyHolds, WaitersAreLedHolds, PTL DEF CacheIsSound

-----------------------------------------------------------------------------
(* The scan of the settled candles.                                        *)

\* What the strategies have seen was processed, and a frame that is loaded is no older
\* than what was processed before it; past the observation it is newer, until its
\* features are computed.
Readiness == {"READY", "BACKFILLING", "INSUFFICIENT_DATA", "FAILED"}

ScanInv ==
    /\ settled \in [Series -> Nat] /\ processed \in [Series -> Nat] /\ frame \in [Series -> Nat]
    /\ readiness \in [Series -> Readiness]
    /\ evaluated \in [Series -> SUBSET Nat]
    /\ keys \subseteq Series /\ todo \subseteq keys
    /\ stage \in {"idle", "load", "observe", "compute", "evaluate"}
    /\ \A s \in Series :
          /\ processed[s] <= settled[s] /\ frame[s] <= settled[s]
          /\ \A n \in evaluated[s] : n <= processed[s]
          /\ frame[s] # 0 => processed[s] <= frame[s]
    /\ stage = "observe" => \A s \in keys \ todo : processed[s] < frame[s]
    /\ stage = "compute" => \A s \in keys : IF s \in todo THEN processed[s] < frame[s]
                                                          ELSE processed[s] = frame[s]
    /\ stage = "evaluate" => \A s \in keys : processed[s] = frame[s]
    /\ OncePerCandle

\* The scan starts in its invariant.
LEMMA ScanInit == ZInit => ScanInv
  BY DEF ZInit, ScanInv, OncePerCandle, Readiness

\* The stages of a cycle, series by series.
LEMMA SeriesStep ==
    ASSUME ScanInv, NEW s \in Series, Load(s) \/ ObserveFrame(s) \/ Compute(s)
    PROVE  ScanInv'
  <1> USE DEF ScanInv
  <1>1. CASE Load(s)
    <2>1. /\ stage = "load" /\ UNCHANGED <<stage, settled, evaluated, processed, keys, readiness>> /\ todo' \subseteq keys'
          /\ frame' = [frame EXCEPT ![s] = settled[s]] \/ frame' = frame
      BY <1>1 DEF Load, Working
    <2> QED BY <2>1 DEF OncePerCandle
  <1>2. CASE ObserveFrame(s)
    <2>1. /\ stage = "observe" /\ s \in todo /\ todo' = todo \ {s}
          /\ UNCHANGED <<stage, settled, evaluated, processed, frame>>
          /\ \/ keys' = keys \ {s}
             \/ keys' = keys /\ readiness'[s] = "READY" /\ processed[s] # frame[s]
          /\ readiness' = [readiness EXCEPT ![s] =
                 CASE readiness[s] = "BACKFILLING" -> "BACKFILLING"
                   [] frame[s] = 0 -> "INSUFFICIENT_DATA"
                   [] OTHER -> "READY"]
      BY <1>2 DEF ObserveFrame, Working
    <2>2. keys' = keys => frame[s] # 0
      BY <2>1 DEF Readiness
    <2>3. readiness' \in [Series -> Readiness]
      BY <2>1 DEF Readiness
    <2> QED BY <2>1, <2>2, <2>3 DEF OncePerCandle
  <1>3. CASE Compute(s)
    <2>1. /\ stage = "compute" /\ s \in todo /\ todo' = todo \ {s}
          /\ UNCHANGED <<stage, settled, evaluated, frame>>
          /\ \/ keys' = keys \ {s} /\ processed' = processed
             \/ keys' = keys /\ processed' = [processed EXCEPT ![s] = frame[s]]
          /\ readiness' \in [Series -> Readiness]
      BY <1>3 DEF Compute, Working, MarkProcessed, Readiness
    <2> QED BY <2>1 DEF OncePerCandle
  <1> QED BY <1>1, <1>2, <1>3

\* The beginning and the end of a stage.
LEMMA StageStep ==
    ASSUME ScanInv, Detect \/ Advance \/ Evaluate \/ CycleFails
    PROVE  ScanInv'
  <1> USE DEF ScanInv
  <1>1. CASE Detect
    BY <1>1 DEF Detect, Changed, OncePerCandle, Readiness
  <1>2. CASE Advance
    BY <1>2 DEF Advance, Rest, OncePerCandle
  <1>3. CASE Evaluate
    BY <1>3 DEF Evaluate, Rest, OncePerCandle
  <1>4. CASE CycleFails
    BY <1>4 DEF CycleFails, Rest, OncePerCandle
  <1> QED BY <1>1, <1>2, <1>3, <1>4

\* Every step of the scan keeps it.
LEMMA ScanStep == ScanInv /\ [ZNext]_zVars => ScanInv'
  <1> SUFFICES ASSUME ScanInv, [ZNext]_zVars PROVE ScanInv'
    OBVIOUS
  <1>1. CASE UNCHANGED zVars \/ EndSync \/ \E s \in Series : BeginSync(s)
    BY <1>1 DEF zVars, cycle, EndSync, BeginSync, ScanInv, OncePerCandle, Readiness
  <1>2. ASSUME NEW s \in Series, Settle(s)
        PROVE  ScanInv'
    BY <1>2 DEF Settle, cycle, ScanInv, OncePerCandle
  <1> QED BY <1>1, <1>2, SeriesStep, StageStep DEF ZNext, CycleStep

\* No candle of a series is computed or evaluated twice or after a newer one, whatever
\* settles, fails or is downloaded during a cycle, for any number of series.
THEOREM OncePerCandleHolds == ZSpec => []OncePerCandle
  <1>1. ScanInv => OncePerCandle
    BY DEF ScanInv
  <1> QED BY <1>1, ScanInit, ScanStep, PTL DEF ZSpec

-----------------------------------------------------------------------------
(* The usage ledger: counting.                                             *)

Requests == [at : {"idle", "calling", "persisting"}, horizon : Horizons, day : Nat]

\* The places of a log that hold one of some entries, and the threads of some that
\* are in one of some states.
PlacesOf(log, Q) == {i \in DOMAIN log : log[i] \in Q}
Busy(P, T, Z) == {t \in T : P[t] \in Z}
One(b) == IF b THEN 1 ELSE 0
Within(e, Q) == IF e \in Q THEN 1 ELSE 0
Member(t, r, T, Z) == IF t \in T /\ r \in Z THEN 1 ELSE 0

\* Every finite set of numbers has a least and a greatest one.
LEMMA Extremes ==
    ASSUME NEW S, S \subseteq Nat, IsFiniteSet(S), S # {}
    PROVE  /\ \E m \in S : \A x \in S : m >= x
           /\ \E m \in S : \A x \in S : m <= x
  <1> DEFINE Top(G) == \E m \in G : \A x \in G : m >= x
             Low(G) == \E m \in G : \A x \in G : m <= x
             Bad == {G \in SUBSET S : G # {} /\ ~(Top(G) /\ Low(G))}
  <1>1. IsWellFoundedOn(StrictSubsetOrdering(S), SUBSET S)
    BY FS_StrictSubsetOrderingWellFounded, FS_FiniteSubsetsOfFinite
  <1>2. Bad = {}
    <2> SUFFICES ASSUME Bad # {} PROVE FALSE
      OBVIOUS
    <2>0. Bad \subseteq SUBSET S
      OBVIOUS
    <2>1. PICK G \in Bad : \A H \in Bad : <<H, G>> \notin StrictSubsetOrdering(S)
      <3> HIDE DEF Bad
      <3> QED BY <1>1, <2>0, WFMin
    <2>2. PICK g \in G : TRUE
      OBVIOUS
    <2>3. G \ {g} \notin Bad
      BY <2>1, <2>2 DEF StrictSubsetOrdering
    <2>4. CASE G \ {g} = {}
      BY <2>2, <2>4
    <2>5. CASE G \ {g} # {}
      <3>1. Top(G \ {g}) /\ Low(G \ {g})
        BY <2>3, <2>5
      <3>2. PICK m \in G \ {g} : \A x \in G \ {g} : m >= x
        BY <3>1
      <3>3. PICK n \in G \ {g} : \A x \in G \ {g} : n <= x
        BY <3>1
      <3>4. G \subseteq Nat
        OBVIOUS
      <3>5. Top(G)
        <4>1. CASE m >= g
          BY <3>2, <4>1
        <4>2. CASE g >= m
          BY <2>2, <3>2, <3>4, <4>2
        <4> QED BY <2>2, <3>4, <4>1, <4>2
      <3>6. Low(G)
        <4>1. CASE n <= g
          BY <3>3, <4>1
        <4>2. CASE g <= n
          BY <2>2, <3>3, <3>4, <4>2
        <4> QED BY <2>2, <3>4, <4>1, <4>2
      <3> QED BY <3>5, <3>6
    <2> QED BY <2>4, <2>5
  <1> QED BY <1>2

\* A log is a finite number of places.
LEMMA PlacesAre ==
    ASSUME NEW log \in Seq(Entries), NEW Q
    PROVE  /\ IsFiniteSet(PlacesOf(log, Q)) /\ Cardinality(PlacesOf(log, Q)) \in Nat
           /\ PlacesOf(log, Q) \subseteq 1..Len(log)
           /\ Cardinality(PlacesOf(log, Q)) <= Len(log)
  <1>1. Len(log) \in Nat /\ DOMAIN log = 1..Len(log)
    OBVIOUS
  <1>2. IsFiniteSet(1..Len(log)) /\ Cardinality(1..Len(log)) = Len(log)
    BY <1>1, FS_Interval
  <1>3. PlacesOf(log, Q) \subseteq 1..Len(log)
    BY <1>1 DEF PlacesOf
  <1>4. IsFiniteSet(PlacesOf(log, Q)) /\ Cardinality(PlacesOf(log, Q)) <= Len(log)
    BY <1>2, <1>3, FS_Subset
  <1> QED BY <1>3, <1>4, FS_CardinalityType

\* An entry that is appended is one more of those it belongs to.
LEMMA PlacesGrow ==
    ASSUME NEW log \in Seq(Entries), NEW e \in Entries, NEW Q
    PROVE  /\ Append(log, e) \in Seq(Entries) /\ Len(Append(log, e)) = Len(log) + 1
           /\ Cardinality(PlacesOf(Append(log, e), Q)) =
                  Cardinality(PlacesOf(log, Q)) + Within(e, Q)
  <1> DEFINE n == Len(log) + 1
             l == Append(log, e)
  <1>1. /\ l \in Seq(Entries) /\ Len(l) = n /\ DOMAIN l = 1..n /\ Len(log) \in Nat
        /\ DOMAIN log = 1..Len(log) /\ l[n] = e /\ \A i \in 1..Len(log) : l[i] = log[i]
    OBVIOUS
  <1> HIDE DEF l
  <1>2. n \notin PlacesOf(log, Q)
    BY <1>1 DEF PlacesOf
  <1>3. CASE e \in Q
    <2>1. PlacesOf(l, Q) = PlacesOf(log, Q) \cup {n}
      BY <1>1, <1>3 DEF PlacesOf
    <2>2. Cardinality(PlacesOf(l, Q)) = Cardinality(PlacesOf(log, Q)) + 1
      BY <1>2, <2>1, PlacesAre, FS_AddElement
    <2> QED BY <1>1, <1>3, <2>2 DEF l, Within
  <1>4. CASE e \notin Q
    <2>1. PlacesOf(l, Q) = PlacesOf(log, Q)
      BY <1>1, <1>4 DEF PlacesOf
    <2>2. Cardinality(PlacesOf(log, Q)) \in Nat
      BY PlacesAre
    <2> QED BY <1>1, <1>4, <2>1, <2>2 DEF l, Within
  <1> QED BY <1>3, <1>4

\* Threads are finitely many, and one that moves counts where it is.
LEMMA BusyAre ==
    ASSUME NEW P, NEW T \in SUBSET Threads, NEW Z
    PROVE  /\ IsFiniteSet(Busy(P, T, Z)) /\ Cardinality(Busy(P, T, Z)) \in Nat
           /\ IsFiniteSet(T) /\ Cardinality(T) \in Nat
           /\ Cardinality(Busy(P, T, Z)) <= Cardinality(T)
  <1>1. IsFiniteSet(T)
    BY LedgerAssumption, FS_Subset
  <1>2. Busy(P, T, Z) \subseteq T
    BY DEF Busy
  <1>3. IsFiniteSet(Busy(P, T, Z)) /\ Cardinality(Busy(P, T, Z)) <= Cardinality(T)
    BY <1>1, <1>2, FS_Subset
  <1> QED BY <1>1, <1>3, FS_CardinalityType

\* A thread that moves is counted where it goes and no longer where it was.
LEMMA BusyMoves ==
    ASSUME NEW P \in [Threads -> Requests], NEW t \in Threads, NEW r \in Requests,
           NEW T \in SUBSET Threads, NEW Z
    PROVE  Cardinality(Busy([P EXCEPT ![t] = r], T, Z)) =
               Cardinality(Busy(P, T, Z)) - Member(t, P[t], T, Z) + Member(t, r, T, Z)
  <1> DEFINE q == [P EXCEPT ![t] = r]
             B == Busy(P, T, Z)
             C == B \ {t}
             D == Busy(q, T, Z)
  <1>1. q[t] = r /\ \A u \in T : u # t => q[u] = P[u]
    OBVIOUS
  <1> HIDE DEF q
  <1>2. IsFiniteSet(B) /\ Cardinality(B) \in Nat
    BY BusyAre
  <1>3. IsFiniteSet(C) /\ Cardinality(C) = Cardinality(B) - Member(t, P[t], T, Z)
    <2>1. t \in B <=> t \in T /\ P[t] \in Z
      BY DEF Busy
    <2> HIDE DEF B
    <2> QED BY <1>2, <2>1, FS_RemoveElement DEF Member
  <1>4. CASE t \in T /\ r \in Z
    <2>1. D = C \cup {t}
      BY <1>1, <1>4 DEF Busy
    <2>2. Cardinality(C \cup {t}) = Cardinality(C) + 1
      BY <1>3, FS_AddElement
    <2> HIDE DEF B, C, D
    <2> QED BY <1>2, <1>3, <1>4, <2>1, <2>2 DEF Member, B, D, q
  <1>5. CASE ~(t \in T /\ r \in Z)
    <2>1. D = C
      BY <1>1, <1>5 DEF Busy
    <2> HIDE DEF B, C, D
    <2> QED BY <1>2, <1>3, <1>5, <2>1 DEF Member, B, D, q
  <1> QED BY <1>4, <1>5

\* The first n of some places are all of them when they are fewer than n.
LEMMA OldestIs ==
    ASSUME NEW S, S \subseteq Nat, IsFiniteSet(S), NEW n \in Nat,
           Cardinality(Oldest(S, n)) < n
    PROVE  Oldest(S, n) = S
  <1> DEFINE O == Oldest(S, n)
  <1>1. O \subseteq S
    BY DEF Oldest
  <1>2. IsFiniteSet(O) /\ Cardinality(O) \in Nat
    BY <1>1, FS_Subset, FS_CardinalityType
  <1>3. ASSUME S \ O # {} PROVE FALSE
    <2>1. S \ O \subseteq Nat /\ IsFiniteSet(S \ O)
      BY FS_Subset
    <2>2. PICK m \in S \ O : \A x \in S \ O : m <= x
      BY <1>3, <2>1, Extremes
    <2>3. {j \in S : j <= m} \subseteq O \cup {m}
      <3> HIDE DEF O
      <3> SUFFICES ASSUME NEW j \in S, j <= m, j \notin O PROVE j = m
        OBVIOUS
      <3>1. j \in Nat /\ m \in Nat /\ m <= j
        BY <2>2
      <3> QED BY <3>1
    <2>4. IsFiniteSet(O \cup {m}) /\ Cardinality(O \cup {m}) = Cardinality(O) + 1
      BY <1>2, <2>2, FS_AddElement
    <2>5. /\ Cardinality({j \in S : j <= m}) <= Cardinality(O) + 1
          /\ Cardinality({j \in S : j <= m}) \in Nat
      BY <2>3, <2>4, FS_Subset, FS_CardinalityType
    <2>6. Cardinality({j \in S : j <= m}) <= n
      <3> HIDE DEF O
      <3> QED BY <1>2, <2>5 DEF O
    <2> QED BY <2>2, <2>6 DEF Oldest
  <1> QED BY <1>1, <1>3

\* A dying process loses no more than it has threads.
LEMMA LostIs ==
    /\ LostByCrash \in Nat
    /\ \A w \in Workers : /\ IsFiniteSet({t \in Threads : Home[t] = w})
                          /\ Cardinality({t \in Threads : Home[t] = w}) <= LostByCrash
                          /\ Cardinality({t \in Threads : Home[t] = w}) \in Nat
  <1> DEFINE N == Cardinality(Threads)
             C(w) == Cardinality({t \in Threads : Home[t] = w})
             S == {C(w) : w \in Workers}
  <1>1. N \in Nat /\ IsFiniteSet(Threads)
    BY LedgerAssumption, FS_CardinalityType
  <1>2. ASSUME NEW w \in Workers
        PROVE  IsFiniteSet({t \in Threads : Home[t] = w}) /\ C(w) \in Nat /\ C(w) <= N
    <2>1. {t \in Threads : Home[t] = w} \subseteq Threads
      OBVIOUS
    <2>2. IsFiniteSet({t \in Threads : Home[t] = w}) /\ C(w) <= N
      BY <1>1, <2>1, FS_Subset
    <2> QED BY <2>2, FS_CardinalityType
  <1>3. S \subseteq Nat /\ S \subseteq 0..N
    <2>1. \A w \in Workers : C(w) \in Nat /\ C(w) <= N
      BY <1>2
    <2> HIDE DEF C, N
    <2> QED BY <1>1, <2>1
  <1>4. IsFiniteSet(S)
    <2> HIDE DEF S, N
    <2>1. IsFiniteSet(0..N)
      BY <1>1, FS_Interval
    <2> QED BY <1>3, <2>1, FS_Subset
  <1>5. S # {}
    BY LedgerAssumption
  <1>6. \E m \in S : \A x \in S : m >= x
    <2> HIDE DEF S
    <2> QED BY <1>3, <1>4, <1>5, Extremes
  <1>7. LostByCrash = Max(S)
    BY DEF LostByCrash
  <1>8. Max(S) \in S /\ \A x \in S : Max(S) >= x
    <2> HIDE DEF S
    <2> QED BY <1>6 DEF Max
  <1>9. LostByCrash \in Nat
    <2> HIDE DEF S
    <2> QED BY <1>3, <1>7, <1>8
  <1>10. \A w \in Workers : C(w) \in S
    OBVIOUS
  <1>11. \A w \in Workers : C(w) <= LostByCrash
    <2> HIDE DEF S, C
    <2> QED BY <1>3, <1>7, <1>8, <1>9, <1>10
  <1> QED BY <1>2, <1>9, <1>11

\* What the processes hold of some entries, each with the process that holds it.
Kept(P, Q) == UNION {{w} \X PlacesOf(P[w], Q) : w \in Workers}

\* The processes hold finitely many entries, and each of them some of these.
LEMMA KeptAre ==
    ASSUME NEW P \in [Workers -> Seq(Entries)], NEW Q
    PROVE  /\ IsFiniteSet(Kept(P, Q)) /\ Cardinality(Kept(P, Q)) \in Nat
           /\ \A w \in Workers : Cardinality(PlacesOf(P[w], Q)) <= Cardinality(Kept(P, Q))
  <1> DEFINE F(w) == {w} \X PlacesOf(P[w], Q)
             S == {F(w) : w \in Workers}
  <1>1. ASSUME NEW w \in Workers
        PROVE  IsFiniteSet(F(w)) /\ Cardinality(F(w)) = Cardinality(PlacesOf(P[w], Q))
    <2>1. /\ IsFiniteSet(PlacesOf(P[w], Q)) /\ Cardinality(PlacesOf(P[w], Q)) \in Nat
      BY PlacesAre
    <2>2. IsFiniteSet({w}) /\ Cardinality({w}) = 1
      BY FS_Singleton
    <2>3. IsFiniteSet(F(w)) /\ Cardinality(F(w)) = 1 * Cardinality(PlacesOf(P[w], Q))
      BY <2>1, <2>2, FS_Product
    <2> QED BY <2>1, <2>3
  <1>2. IsFiniteSet(S)
    <2> DEFINE f == [w \in Workers |-> F(w)]
    <2> HIDE DEF F
    <2>1. f \in Surjection(Workers, S)
      BY DEF Surjection
    <2> HIDE DEF f
    <2> QED BY <2>1, LedgerAssumption, FS_Surjection
  <1>3. \A T \in S : IsFiniteSet(T)
    BY <1>1
  <1>4. IsFiniteSet(Kept(P, Q))
    BY <1>2, <1>3, FS_UNION DEF Kept
  <1>5. \A w \in Workers : F(w) \subseteq Kept(P, Q)
    BY DEF Kept
  <1>6. \A w \in Workers : Cardinality(F(w)) <= Cardinality(Kept(P, Q))
    BY <1>4, <1>5, FS_Subset
  <1> QED BY <1>1, <1>4, <1>6, FS_CardinalityType

\* What a dying process held is gone.
LEMMA KeptIsLost ==
    ASSUME NEW P \in [Workers -> Seq(Entries)], NEW w \in Workers, NEW Q
    PROVE  Cardinality(Kept([P EXCEPT ![w] = <<>>], Q)) <= Cardinality(Kept(P, Q))
  <1> DEFINE z == [P EXCEPT ![w] = <<>>]
  <1>1. \A v \in Workers : v # w => z[v] = P[v]
    OBVIOUS
  <1>2. z[w] = <<>> /\ PlacesOf(<<>>, Q) = {}
    BY DEF PlacesOf
  <1> HIDE DEF z
  <1>3. Kept(z, Q) \subseteq Kept(P, Q)
    BY <1>1, <1>2 DEF Kept
  <1>4. Cardinality(Kept(z, Q)) <= Cardinality(Kept(P, Q))
    BY <1>3, KeptAre, FS_Subset
  <1> QED BY <1>4 DEF z

\* What a process could not write is held once more, by it alone.
LEMMA KeptGrows ==
    ASSUME NEW P \in [Workers -> Seq(Entries)], NEW w \in Workers, NEW e \in Entries, NEW Q
    PROVE  Cardinality(Kept([P EXCEPT ![w] = Append(P[w], e)], Q)) =
               Cardinality(Kept(P, Q)) + Within(e, Q)
  <1> DEFINE l == Append(P[w], e)
             p == [P EXCEPT ![w] = l]
             n == Len(P[w]) + 1
             A == Kept(P, Q)
             B == Kept(p, Q)
  <1>1. IsFiniteSet(A) /\ Cardinality(A) \in Nat
    BY KeptAre
  <1>2. p[w] = l /\ \A v \in Workers : v # w => p[v] = P[v]
    OBVIOUS
  <1>3. /\ l \in Seq(Entries) /\ DOMAIN l = 1..n /\ DOMAIN P[w] = 1..Len(P[w]) /\ Len(P[w]) \in Nat
        /\ l[n] = e /\ \A i \in 1..Len(P[w]) : l[i] = P[w][i]
    OBVIOUS
  <1>4. PlacesOf(l, Q) = PlacesOf(P[w], Q) \cup (IF e \in Q THEN {n} ELSE {}) /\ n \notin PlacesOf(P[w], Q)
    <2> HIDE DEF l
    <2> QED BY <1>3 DEF PlacesOf
  <1> HIDE DEF l, p, n
  <1>5. B = A \cup (IF e \in Q THEN {<<w, n>>} ELSE {}) /\ <<w, n>> \notin A
    <2>1. \A v, i : <<v, i>> \in B <=> <<v, i>> \in A \/ (e \in Q /\ v = w /\ i = n)
      BY <1>2, <1>4 DEF Kept
    <2>2. <<w, n>> \notin A
      BY <1>4 DEF Kept
    <2>3. \A x \in A \cup B : \E v, i : x = <<v, i>>
      BY DEF Kept
    <2> HIDE DEF A, B
    <2> QED BY <2>1, <2>2, <2>3
  <1>6. Cardinality(B) = Cardinality(A) + Within(e, Q)
    <2> HIDE DEF A, B
    <2>1. CASE e \in Q
      BY <1>1, <1>5, <2>1, FS_AddElement DEF Within
    <2>2. CASE e \notin Q
      BY <1>1, <1>5, <2>2 DEF Within
    <2> QED BY <2>1, <2>2
  <1> QED BY <1>6 DEF l, p

-----------------------------------------------------------------------------
(* The usage ledger: the budget.                                           *)

Asking == Threads \ Unchecked

\* Entries of some horizons: all, those of a day, and those of a day that had asked.
Of(K) == {e \in Entries : e.horizon \in K}
On(d, K) == {e \in Entries : e.day = d /\ e.horizon \in K}
AskedOn(d, K) == {e \in Entries : e.day = d /\ e.horizon \in K /\ e.agent \notin Unchecked}

\* Requests of some horizons: with the model, about to be written, and answered on a day.
Calls(K) == {r \in Requests : r.at = "calling" /\ r.horizon \in K}
Writing(K) == {r \in Requests : r.at = "persisting" /\ r.horizon \in K}
WritingOf(d, K) == {r \in Requests : r.at = "persisting" /\ r.day = d /\ r.horizon \in K}

DaysArePast == \A i \in DOMAIN spent : spent[i].day <= today

\* What was asked for and spent today is a row of today or about to be one, but for
\* what a fault hides.
Recorded(K) ==
    Cardinality(PlacesOf(spent, AskedOn(today, K))) <=
        Cardinality(PlacesOf(rows, On(today, K)))
        + Cardinality(Busy(pending, Asking, WritingOf(today, K)))
        + used["locked"] + used["crash"] * LostByCrash

\* A budget is overshot by no more than the calls under way, those included that will
\* be charged when they are answered, and what a fault hides.
Overshot(K, B) ==
    Cardinality(PlacesOf(spent, AskedOn(today, K))) + Cardinality(Busy(pending, Asking, Calls(K))) <=
        B + Cardinality(Asking) - 1 + used["read"] + used["locked"] + used["crash"] * LostByCrash

\* What was spent is a row, is remembered as unwritten, or is just being written.
Matched(K) ==
    LET known == Cardinality(PlacesOf(rows, Of(K))) + Cardinality(Kept(unpersisted, Of(K)))
                 + Cardinality(Busy(pending, Threads, Writing(K)))
    IN  /\ known <= Cardinality(PlacesOf(spent, Of(K)))
        /\ used["crash"] = 0 => known = Cardinality(PlacesOf(spent, Of(K)))

\* A read returns as many rows as a day within the budget has.
LimitIsAmple == Budget <= RowLimit

LedgerInv ==
    /\ LedgerTypes /\ DaysArePast
    /\ \A K \in SUBSET Horizons : Recorded(K) /\ Matched(K)
    /\ LimitIsAmple =>
           /\ Overshot(Horizons, Budget)
           /\ \A h \in Horizons : HorizonBudget[h] > 0 => Overshot({h}, HorizonBudget[h])

\* A thread that is let through by what was counted found its budgets not yet reached
\* by the rows of the day.
LEMMA ClearIs ==
    ASSUME LimitIsAmple, LedgerTypes, NEW w \in Workers, NEW h \in Horizons,
           ~HardBreached(Counted(w), h)
    PROVE  /\ Cardinality(PlacesOf(rows, On(today, Horizons))) < Budget
           /\ HorizonBudget[h] > 0 =>
                 Cardinality(PlacesOf(rows, On(today, {h}))) < HorizonBudget[h]
  <1> DEFINE S == OfDay(rows, today)
             O == Oldest(S, RowLimit)
             m == unpersisted[w]
             H == O \cap OfHorizon(rows, h)
  <1>1. rows \in Seq(Entries) /\ m \in Seq(Entries) /\ Budget \in Nat /\ RowLimit \in Nat
    BY LedgerAssumption DEF LedgerTypes
  <1>2. S = PlacesOf(rows, On(today, Horizons))
    <2>1. \A i \in DOMAIN rows : rows[i] \in Entries
      BY <1>1
    <2> QED BY <2>1 DEF OfDay, PlacesOf, On, Entries
  <1>3. S \cap OfHorizon(rows, h) = PlacesOf(rows, On(today, {h}))
    <2>1. \A i \in DOMAIN rows : rows[i] \in Entries
      BY <1>1
    <2> QED BY <2>1 DEF OfDay, OfHorizon, PlacesOf, On, Entries
  <1>4. S \subseteq Nat /\ IsFiniteSet(S)
    BY <1>1, <1>2, PlacesAre
  <1>5. O \subseteq S /\ IsFiniteSet(O) /\ Cardinality(O) \in Nat
    <2>1. O \subseteq S
      BY DEF Oldest
    <2> QED BY <1>4, <2>1, FS_Subset, FS_CardinalityType
  <1>6. Len(m) \in Nat /\ OfHorizon(m, h) \subseteq 1..Len(m)
    BY <1>1 DEF OfHorizon
  <1>7. Cardinality(OfHorizon(m, h)) \in Nat
    <2>1. IsFiniteSet(1..Len(m))
      BY <1>6, FS_Interval
    <2> HIDE DEF m
    <2> QED BY <1>6, <2>1, FS_Subset, FS_CardinalityType
  <1>8. /\ Counted(w).all = Cardinality(O) + Len(m)
        /\ Counted(w).of[h] = Cardinality(H) + Cardinality(OfHorizon(m, h))
    BY DEF Counted, Sums
  <1>9. Cardinality(O) + Len(m) < Budget
    <2>1. ~(Cardinality(O) + Len(m) >= Budget)
      BY <1>8 DEF HardBreached
    <2> HIDE DEF O, m
    <2> QED BY <1>1, <1>5, <1>6, <2>1
  <1>10. O = S
    <2>1. Cardinality(O) < RowLimit
      <3> HIDE DEF O, m
      <3> QED BY <1>1, <1>5, <1>6, <1>9 DEF LimitIsAmple
    <2> HIDE DEF S
    <2> QED BY <1>1, <1>4, <2>1, OldestIs
  <1>11. H = PlacesOf(rows, On(today, {h}))
    BY <1>3, <1>10
  <1>12. Cardinality(H) \in Nat
    BY <1>1, <1>11, PlacesAre
  <1>13. HorizonBudget[h] > 0 => Cardinality(H) < HorizonBudget[h]
    <2>1. HorizonBudget[h] > 0 =>
             ~(Cardinality(H) + Cardinality(OfHorizon(m, h)) >= HorizonBudget[h])
      BY <1>8 DEF HardBreached
    <2>2. HorizonBudget[h] \in Nat
      BY LedgerAssumption
    <2> HIDE DEF H, m
    <2> QED BY <1>7, <1>12, <2>1, <2>2
  <1>14. Cardinality(S) < Budget
    <2> HIDE DEF O, m, S
    <2> QED BY <1>1, <1>5, <1>6, <1>9, <1>10
  <1> QED BY <1>2, <1>11, <1>13, <1>14

\* A thread is in one place at a time.
LEMMA UnderWay ==
    ASSUME NEW P, NEW K, NEW d
    PROVE  /\ Cardinality(Busy(P, Asking, WritingOf(d, K))) + Cardinality(Busy(P, Asking, Calls(K)))
                 <= Cardinality(Asking)
           /\ Cardinality(Busy(P, Asking, WritingOf(d, K))) \in Nat
           /\ Cardinality(Busy(P, Asking, Calls(K))) \in Nat
           /\ Cardinality(Asking) \in Nat
  <1> DEFINE V == Busy(P, Asking, WritingOf(d, K))
             C == Busy(P, Asking, Calls(K))
  <1>1. Asking \in SUBSET Threads
    BY DEF Asking
  <1>2. /\ IsFiniteSet(V) /\ IsFiniteSet(C) /\ IsFiniteSet(Asking)
        /\ Cardinality(V) \in Nat /\ Cardinality(C) \in Nat /\ Cardinality(Asking) \in Nat
    BY <1>1, BusyAre
  <1>3. V \cap C = {} /\ V \cup C \subseteq Asking
    BY DEF Busy, WritingOf, Calls
  <1> HIDE DEF V, C
  <1>4. Cardinality(V \cup C) <= Cardinality(Asking)
    BY <1>2, <1>3, FS_Subset
  <1>5. Cardinality(V \cup C) = Cardinality(V) + Cardinality(C)
    BY <1>2, <1>3, FS_Union, FS_EmptySet
  <1> QED BY <1>2, <1>4, <1>5 DEF V, C

\* Everything that is counted is a number.
LEMMA CountsAre ==
    ASSUME LedgerTypes, NEW K, NEW d
    PROVE  /\ Cardinality(PlacesOf(spent, AskedOn(d, K))) \in Nat
           /\ Cardinality(PlacesOf(spent, Of(K))) \in Nat
           /\ Cardinality(PlacesOf(rows, On(d, K))) \in Nat
           /\ Cardinality(PlacesOf(rows, Of(K))) \in Nat
           /\ Cardinality(Kept(unpersisted, Of(K))) \in Nat
           /\ Cardinality(Busy(pending, Asking, WritingOf(d, K))) \in Nat
           /\ Cardinality(Busy(pending, Asking, Calls(K))) \in Nat
           /\ Cardinality(Busy(pending, Threads, Writing(K))) \in Nat
           /\ Cardinality(Asking) \in Nat
           /\ used["read"] \in Nat /\ used["locked"] \in Nat /\ used["crash"] \in Nat
           /\ LostByCrash \in Nat /\ used["crash"] * LostByCrash \in Nat
  <1>1. /\ rows \in Seq(Entries) /\ spent \in Seq(Entries)
        /\ unpersisted \in [Workers -> Seq(Entries)]
        /\ used["read"] \in Nat /\ used["locked"] \in Nat /\ used["crash"] \in Nat
    BY DEF LedgerTypes, FaultKinds
  <1>2. Asking \in SUBSET Threads /\ Threads \in SUBSET Threads
    BY DEF Asking
  <1>3. LostByCrash \in Nat /\ used["crash"] * LostByCrash \in Nat
    <2>1. LostByCrash \in Nat
      BY LostIs
    <2> DEFINE L == LostByCrash
    <2> HIDE DEF L
    <2>2. L \in Nat
      BY <2>1 DEF L
    <2>3. used["crash"] * L \in Nat
      BY <1>1, <2>2
    <2> QED BY <2>1, <2>3 DEF L
  <1> QED BY <1>1, <1>2, <1>3, PlacesAre, KeptAre, BusyAre

-----------------------------------------------------------------------------
(* The usage ledger: what each step does to the counts.                    *)

\* A request that moves is counted where it goes and no longer where it was.
LEMMA Moves ==
    ASSUME LedgerTypes, NEW t \in Threads, NEW r \in Requests, pending' = [pending EXCEPT ![t] = r]
    PROVE  \A T \in SUBSET Threads : \A Z :
               /\ Cardinality(Busy(pending', T, Z)) =
                     Cardinality(Busy(pending, T, Z)) - Member(t, pending[t], T, Z) + Member(t, r, T, Z)
               /\ Cardinality(Busy(pending, T, Z)) \in Nat
  <1> TAKE T \in SUBSET Threads
  <1> TAKE Z
  <1>1. pending \in [Threads -> Requests]
    BY DEF LedgerTypes, Requests
  <1>2. Cardinality(Busy([pending EXCEPT ![t] = r], T, Z)) =
             Cardinality(Busy(pending, T, Z)) - Member(t, pending[t], T, Z) + Member(t, r, T, Z)
    BY <1>1, BusyMoves
  <1> QED BY <1>2, BusyAre

\* An answer is spent, and its request goes from the calls to the writes.
LEMMA AnswerCounts ==
    ASSUME LedgerTypes, NEW t \in Threads, Answer(t), NEW K, NEW d, d = today
    PROVE  LET one == One(t \in Asking /\ pending[t].horizon \in K)
               any == One(pending[t].horizon \in K)
           IN  /\ Cardinality(PlacesOf(spent', AskedOn(d, K))) = Cardinality(PlacesOf(spent, AskedOn(d, K))) + one
               /\ Cardinality(PlacesOf(spent', Of(K))) = Cardinality(PlacesOf(spent, Of(K))) + any
               /\ Cardinality(Busy(pending', Asking, WritingOf(d, K))) =
                      Cardinality(Busy(pending, Asking, WritingOf(d, K))) + one
               /\ Cardinality(Busy(pending', Asking, Calls(K))) =
                      Cardinality(Busy(pending, Asking, Calls(K))) - one
               /\ Cardinality(Busy(pending', Threads, Writing(K))) =
                      Cardinality(Busy(pending, Threads, Writing(K))) + any
               /\ UNCHANGED <<rows, unpersisted, today, used>>
  <1> DEFINE e == [day |-> today, horizon |-> pending[t].horizon, agent |-> t]
             r == [at |-> "persisting", horizon |-> pending[t].horizon, day |-> today]
             p == pending[t]
             one == One(t \in Asking /\ p.horizon \in K)
             any == One(p.horizon \in K)
  <1>1. /\ spent \in Seq(Entries) /\ pending \in [Threads -> Requests] /\ today \in Nat
    BY DEF LedgerTypes, Requests
  <1>2. p \in Requests /\ p.at = "calling" /\ p.horizon \in Horizons
    BY <1>1 DEF Answer, Requests
  <1>3. e \in Entries /\ r \in Requests
    BY <1>1, <1>2 DEF Entries, Requests
  <1>4. pending' = [pending EXCEPT ![t] = r]
    <2>1. pending' = [pending EXCEPT ![t].at = "persisting", ![t].day = today]
      BY DEF Answer
    <2> DEFINE x == [pending EXCEPT ![t].at = "persisting"]
    <2>2. x \in [Threads -> Requests] /\ x[t].horizon = p.horizon /\ x[t].at = "persisting"
      BY <1>1, <1>2 DEF Requests
    <2>3. \A u \in Threads : u # t => x[u] = pending[u]
      BY <1>1
    <2>4. pending' = [x EXCEPT ![t].day = today]
      BY <2>1
    <2> HIDE DEF x
    <2>5. [x[t] EXCEPT !.day = today] = r
      BY <2>2 DEF Requests
    <2>6. pending' = [x EXCEPT ![t] = r]
      BY <2>4, <2>5
    <2> QED BY <1>1, <2>2, <2>3, <2>6
  <1>5. spent' = Append(spent, e)
    BY DEF Answer, Entry
  <1>6. UNCHANGED <<rows, unpersisted, today, used>>
    BY DEF Answer
  <1>7. Asking \in SUBSET Threads /\ Threads \in SUBSET Threads
    BY DEF Asking
  <1>8. /\ e \in AskedOn(d, K) <=> t \in Asking /\ p.horizon \in K
        /\ e \in Of(K) <=> p.horizon \in K
        /\ r \in WritingOf(d, K) <=> p.horizon \in K
        /\ r \in Writing(K) <=> p.horizon \in K
        /\ r \notin Calls(K) /\ p \notin WritingOf(d, K) /\ p \notin Writing(K)
        /\ p \in Calls(K) <=> p.horizon \in K
    BY <1>2, <1>3 DEF AskedOn, Of, WritingOf, Writing, Calls, Asking
  <1> HIDE DEF e, r
  <1>9. /\ Cardinality(PlacesOf(spent', AskedOn(d, K))) = Cardinality(PlacesOf(spent, AskedOn(d, K))) + one
        /\ Cardinality(PlacesOf(spent', Of(K))) = Cardinality(PlacesOf(spent, Of(K))) + any
    BY <1>1, <1>3, <1>5, <1>8, PlacesGrow DEF One, Within
  <1>10. /\ Cardinality(Busy(pending', Asking, WritingOf(d, K))) =
               Cardinality(Busy(pending, Asking, WritingOf(d, K))) + one
         /\ Cardinality(Busy(pending', Asking, Calls(K))) =
               Cardinality(Busy(pending, Asking, Calls(K))) - one
         /\ Cardinality(Busy(pending', Threads, Writing(K))) =
               Cardinality(Busy(pending, Threads, Writing(K))) + any
    <2>1. \A T \in SUBSET Threads : \A Z :
              /\ Cardinality(Busy(pending', T, Z)) =
                    Cardinality(Busy(pending, T, Z)) - Member(t, p, T, Z) + Member(t, r, T, Z)
              /\ Cardinality(Busy(pending, T, Z)) \in Nat
      BY <1>3, <1>4, Moves
    <2> HIDE DEF p
    <2>2. /\ Cardinality(Busy(pending', Asking, WritingOf(d, K))) =
                Cardinality(Busy(pending, Asking, WritingOf(d, K))) + one
          /\ Cardinality(Busy(pending', Asking, Calls(K))) =
                Cardinality(Busy(pending, Asking, Calls(K))) - one
      <3>1. /\ Member(t, p, Asking, WritingOf(d, K)) = 0 /\ Member(t, r, Asking, WritingOf(d, K)) = one
            /\ Member(t, p, Asking, Calls(K)) = one /\ Member(t, r, Asking, Calls(K)) = 0
        BY <1>8 DEF One, Member
      <3>2. one \in {0, 1}
        BY DEF One
      <3> HIDE DEF one
      <3> QED BY <1>7, <2>1, <3>1, <3>2
    <2>3. Cardinality(Busy(pending', Threads, Writing(K))) =
                Cardinality(Busy(pending, Threads, Writing(K))) + any
      BY <1>7, <1>8, <2>1 DEF One, Member
    <2> QED BY <2>2, <2>3
  <1> QED BY <1>6, <1>9, <1>10

\* A call that begins is one call more.
LEMMA BeginCounts ==
    ASSUME LedgerTypes, NEW t \in Threads, NEW h \in Horizons, Begin(t, h), NEW K, NEW d
    PROVE  /\ Cardinality(Busy(pending', Asking, WritingOf(d, K))) =
                 Cardinality(Busy(pending, Asking, WritingOf(d, K)))
           /\ Cardinality(Busy(pending', Asking, Calls(K))) =
                 Cardinality(Busy(pending, Asking, Calls(K))) + One(t \in Asking /\ h \in K)
           /\ Cardinality(Busy(pending', Threads, Writing(K))) =
                 Cardinality(Busy(pending, Threads, Writing(K)))
           /\ UNCHANGED <<rows, unpersisted, today, spent>>
           /\ used' = used \/ used' = [used EXCEPT !["read"] = @ + 1]
  <1> DEFINE r == [at |-> "calling", horizon |-> h, day |-> today]
             p == pending[t]
  <1>1. pending \in [Threads -> Requests] /\ today \in Nat
    BY DEF LedgerTypes, Requests
  <1>2. r \in Requests /\ p.at = "idle" /\ pending' = [pending EXCEPT ![t] = r]
    BY <1>1 DEF Requests, Begin
  <1>3. Asking \in SUBSET Threads /\ Threads \in SUBSET Threads
    BY DEF Asking
  <1>4. /\ r \notin WritingOf(d, K) /\ r \notin Writing(K)
        /\ r \in Calls(K) <=> h \in K
        /\ p \notin WritingOf(d, K) /\ p \notin Writing(K) /\ p \notin Calls(K)
    BY <1>2 DEF WritingOf, Writing, Calls
  <1> HIDE DEF r
  <1>5. /\ Cardinality(Busy(pending', Asking, WritingOf(d, K))) =
               Cardinality(Busy(pending, Asking, WritingOf(d, K)))
        /\ Cardinality(Busy(pending', Asking, Calls(K))) =
               Cardinality(Busy(pending, Asking, Calls(K))) + One(t \in Asking /\ h \in K)
        /\ Cardinality(Busy(pending', Threads, Writing(K))) =
               Cardinality(Busy(pending, Threads, Writing(K)))
    <2>1. \A T \in SUBSET Threads : \A Z :
              /\ Cardinality(Busy(pending', T, Z)) =
                    Cardinality(Busy(pending, T, Z)) - Member(t, p, T, Z) + Member(t, r, T, Z)
              /\ Cardinality(Busy(pending, T, Z)) \in Nat
      BY <1>2, Moves
    <2> HIDE DEF p
    <2> QED BY <1>3, <1>4, <2>1 DEF One, Member
  <1>6. used' = used \/ used' = [used EXCEPT !["read"] = @ + 1]
    BY DEF Begin, Fault, NoFault
  <1> QED BY <1>5, <1>6 DEF Begin

\* A call that fails is gone.
LEMMA FailCounts ==
    ASSUME LedgerTypes, NEW t \in Threads, Fail(t), NEW K, NEW d
    PROVE  /\ Cardinality(Busy(pending', Asking, WritingOf(d, K))) =
                 Cardinality(Busy(pending, Asking, WritingOf(d, K)))
           /\ Cardinality(Busy(pending', Asking, Calls(K))) <=
                 Cardinality(Busy(pending, Asking, Calls(K)))
           /\ Cardinality(Busy(pending', Threads, Writing(K))) =
                 Cardinality(Busy(pending, Threads, Writing(K)))
           /\ UNCHANGED <<rows, unpersisted, today, spent, used>>
  <1> DEFINE p == pending[t]
  <1>1. NoRequest \in Requests /\ NoRequest.at = "idle"
    BY LedgerAssumption DEF NoRequest, Requests
  <1>2. p.at = "calling" /\ pending' = [pending EXCEPT ![t] = NoRequest]
    BY DEF Fail
  <1>3. Asking \in SUBSET Threads /\ Threads \in SUBSET Threads
    BY DEF Asking
  <1>4. /\ NoRequest \notin WritingOf(d, K) /\ NoRequest \notin Writing(K) /\ NoRequest \notin Calls(K)
        /\ p \notin WritingOf(d, K) /\ p \notin Writing(K)
    BY <1>1, <1>2 DEF WritingOf, Writing, Calls
  <1>5. /\ Cardinality(Busy(pending', Asking, WritingOf(d, K))) =
               Cardinality(Busy(pending, Asking, WritingOf(d, K)))
        /\ Cardinality(Busy(pending', Asking, Calls(K))) <=
               Cardinality(Busy(pending, Asking, Calls(K)))
        /\ Cardinality(Busy(pending', Threads, Writing(K))) =
               Cardinality(Busy(pending, Threads, Writing(K)))
    <2>1. \A T \in SUBSET Threads : \A Z :
              /\ Cardinality(Busy(pending', T, Z)) =
                    Cardinality(Busy(pending, T, Z)) - Member(t, p, T, Z) + Member(t, NoRequest, T, Z)
              /\ Cardinality(Busy(pending, T, Z)) \in Nat
      BY <1>1, <1>2, Moves
    <2> HIDE DEF p
    <2> QED BY <1>3, <1>4, <2>1 DEF Member
  <1> QED BY <1>5 DEF Fail

\* A write ends in the table or, locked, in the memory of the process.
LEMMA PersistCounts ==
    ASSUME LedgerTypes, NEW t \in Threads, Persist(t), NEW K, NEW d, d = today
    PROVE  LET any == One(pending[t].horizon \in K)
           IN  /\ Cardinality(Busy(pending, Asking, WritingOf(d, K))) <=
                     Cardinality(Busy(pending', Asking, WritingOf(d, K))) + any
               /\ Cardinality(Busy(pending', Asking, Calls(K))) =
                     Cardinality(Busy(pending, Asking, Calls(K)))
               /\ Cardinality(Busy(pending', Threads, Writing(K))) =
                     Cardinality(Busy(pending, Threads, Writing(K))) - any
               /\ UNCHANGED <<today, spent>>
               /\ \/ /\ Cardinality(PlacesOf(rows', On(d, K))) = Cardinality(PlacesOf(rows, On(d, K))) + any
                     /\ Cardinality(PlacesOf(rows', Of(K))) = Cardinality(PlacesOf(rows, Of(K))) + any
                     /\ UNCHANGED <<unpersisted, used>>
                  \/ /\ Cardinality(Kept(unpersisted', Of(K))) = Cardinality(Kept(unpersisted, Of(K))) + any
                     /\ UNCHANGED rows
                     /\ used' = [used EXCEPT !["locked"] = @ + 1]
  <1> DEFINE p == pending[t]
             any == One(p.horizon \in K)
             e == Entry(t, today)
             f == Entry(t, p.day)
  <1>1. NoRequest \in Requests /\ NoRequest.at = "idle"
    BY LedgerAssumption DEF NoRequest, Requests
  <1>2. p \in Requests /\ p.at = "persisting" /\ pending' = [pending EXCEPT ![t] = NoRequest]
    BY DEF Persist, LedgerTypes, Requests
  <1>3. Asking \in SUBSET Threads /\ Threads \in SUBSET Threads
    BY DEF Asking
  <1>4. /\ NoRequest \notin WritingOf(d, K) /\ NoRequest \notin Writing(K) /\ NoRequest \notin Calls(K)
        /\ p \notin Calls(K)
        /\ p \in Writing(K) <=> p.horizon \in K
        /\ p \in WritingOf(d, K) => p.horizon \in K
    BY <1>1, <1>2 DEF WritingOf, Writing, Calls
  <1>5. /\ rows \in Seq(Entries) /\ unpersisted \in [Workers -> Seq(Entries)] /\ today \in Nat
        /\ Home[t] \in Workers
    BY LedgerAssumption DEF LedgerTypes
  <1>6. /\ e \in Entries /\ f \in Entries
        /\ e \in On(d, K) <=> p.horizon \in K
        /\ e \in Of(K) <=> p.horizon \in K
        /\ f \in Of(K) <=> p.horizon \in K
    <2>1. e \in Entries /\ f \in Entries /\ e.horizon = p.horizon /\ f.horizon = p.horizon /\ e.day = d
      BY <1>2, <1>5 DEF Entry, Entries, Requests
    <2>2. \A x \in Entries : /\ x \in Of(K) <=> x.horizon \in K
                             /\ x \in On(d, K) <=> x.day = d /\ x.horizon \in K
      BY DEF On, Of
    <2> HIDE DEF e, f, p
    <2> QED BY <2>1, <2>2
  <1> HIDE DEF e, f
  <1>7. /\ Cardinality(Busy(pending, Asking, WritingOf(d, K))) <=
              Cardinality(Busy(pending', Asking, WritingOf(d, K))) + any
        /\ Cardinality(Busy(pending', Asking, Calls(K))) =
              Cardinality(Busy(pending, Asking, Calls(K)))
        /\ Cardinality(Busy(pending', Threads, Writing(K))) =
              Cardinality(Busy(pending, Threads, Writing(K))) - any
    <2>1. \A T \in SUBSET Threads : \A Z :
              /\ Cardinality(Busy(pending', T, Z)) =
                    Cardinality(Busy(pending, T, Z)) - Member(t, p, T, Z) + Member(t, NoRequest, T, Z)
              /\ Cardinality(Busy(pending, T, Z)) \in Nat
      BY <1>1, <1>2, Moves
    <2> HIDE DEF p
    <2> QED BY <1>3, <1>4, <2>1 DEF One, Member
  <1>8. \/ rows' = Append(rows, e) /\ UNCHANGED <<unpersisted, used>>
        \/ /\ UNCHANGED rows /\ used' = [used EXCEPT !["locked"] = @ + 1]
           /\ unpersisted' = [unpersisted EXCEPT ![Home[t]] = Append(unpersisted[Home[t]], f)]
    BY <1>5 DEF Persist, Fault, NoFault, Unpersist, e, f
  <1>9. CASE rows' = Append(rows, e) /\ UNCHANGED <<unpersisted, used>>
    <2>1. /\ Cardinality(PlacesOf(rows', On(d, K))) = Cardinality(PlacesOf(rows, On(d, K))) + any
          /\ Cardinality(PlacesOf(rows', Of(K))) = Cardinality(PlacesOf(rows, Of(K))) + any
      BY <1>5, <1>6, <1>9, PlacesGrow DEF One, Within
    <2> QED BY <1>7, <1>9, <2>1 DEF Persist
  <1>10. CASE /\ UNCHANGED rows /\ used' = [used EXCEPT !["locked"] = @ + 1]
              /\ unpersisted' = [unpersisted EXCEPT ![Home[t]] = Append(unpersisted[Home[t]], f)]
    <2>1. Cardinality(Kept([unpersisted EXCEPT ![Home[t]] = Append(unpersisted[Home[t]], f)], Of(K))) =
             Cardinality(Kept(unpersisted, Of(K))) + Within(f, Of(K))
      BY <1>5, <1>6, KeptGrows
    <2>2. Cardinality(Kept(unpersisted', Of(K))) = Cardinality(Kept(unpersisted, Of(K))) + any
      BY <1>6, <1>10, <2>1 DEF One, Within
    <2> QED BY <1>7, <1>10, <2>2 DEF Persist
  <1> QED BY <1>8, <1>9, <1>10

\* A dying process takes its calls, its writes and its memory along.
LEMMA RestartCounts ==
    ASSUME LedgerTypes, NEW w \in Workers, Restart(w), NEW K, NEW d
    PROVE  /\ Cardinality(Busy(pending, Asking, WritingOf(d, K))) <=
                 Cardinality(Busy(pending', Asking, WritingOf(d, K))) + LostByCrash
           /\ Cardinality(Busy(pending', Asking, Calls(K))) <=
                 Cardinality(Busy(pending, Asking, Calls(K)))
           /\ Cardinality(Busy(pending', Threads, Writing(K))) <=
                 Cardinality(Busy(pending, Threads, Writing(K)))
           /\ Cardinality(Kept(unpersisted', Of(K))) <= Cardinality(Kept(unpersisted, Of(K)))
           /\ UNCHANGED <<rows, today, spent>>
           /\ used' = [used EXCEPT !["crash"] = @ + 1]
  <1> DEFINE D == {t \in Threads : Home[t] = w}
             V == Busy(pending, Asking, WritingOf(d, K))
             U == Busy(pending', Asking, WritingOf(d, K))
  <1>1. NoRequest.at = "idle"
    BY DEF NoRequest
  <1>2. \A t \in Threads : pending'[t] = IF Home[t] = w THEN NoRequest ELSE pending[t]
    BY DEF Restart
  <1>3. Asking \in SUBSET Threads /\ Threads \in SUBSET Threads
    BY DEF Asking
  <1>4. /\ NoRequest \notin WritingOf(d, K) /\ NoRequest \notin Writing(K) /\ NoRequest \notin Calls(K)
    BY <1>1 DEF WritingOf, Writing, Calls
  <1>5. /\ V \subseteq U \cup D
        /\ Busy(pending', Asking, Calls(K)) \subseteq Busy(pending, Asking, Calls(K))
        /\ Busy(pending', Threads, Writing(K)) \subseteq Busy(pending, Threads, Writing(K))
    BY <1>2, <1>3, <1>4 DEF Busy
  <1>6. /\ IsFiniteSet(D) /\ Cardinality(D) \in Nat /\ Cardinality(D) <= LostByCrash
        /\ LostByCrash \in Nat
    BY LostIs
  <1>7. /\ IsFiniteSet(V) /\ IsFiniteSet(U) /\ Cardinality(V) \in Nat /\ Cardinality(U) \in Nat
    BY <1>3, BusyAre
  <1>8. Cardinality(V) <= Cardinality(U) + LostByCrash
    <2> HIDE DEF U, V, D
    <2>1. IsFiniteSet(U \cup D) /\ Cardinality(U \cup D) <= Cardinality(U) + Cardinality(D)
      <3>1. IsFiniteSet(U \cap D) /\ Cardinality(U \cap D) \in Nat
        BY <1>6, <1>7, FS_Intersection, FS_CardinalityType
      <3>2. /\ IsFiniteSet(U \cup D)
            /\ Cardinality(U \cup D) = Cardinality(U) + Cardinality(D) - Cardinality(U \cap D)
        BY <1>6, <1>7, FS_Union
      <3> QED BY <1>6, <1>7, <3>1, <3>2
    <2>2. Cardinality(V) <= Cardinality(U \cup D) /\ Cardinality(U \cup D) \in Nat
      BY <1>5, <2>1, FS_Subset, FS_CardinalityType
    <2> QED BY <1>6, <1>7, <2>1, <2>2
  <1>9. /\ Cardinality(Busy(pending', Asking, Calls(K))) <=
              Cardinality(Busy(pending, Asking, Calls(K)))
        /\ Cardinality(Busy(pending', Threads, Writing(K))) <=
              Cardinality(Busy(pending, Threads, Writing(K)))
    <2>1. /\ IsFiniteSet(Busy(pending, Asking, Calls(K)))
          /\ IsFiniteSet(Busy(pending, Threads, Writing(K)))
      BY <1>3, BusyAre
    <2> QED BY <1>5, <2>1, FS_Subset
  <1>10. Cardinality(Kept(unpersisted', Of(K))) <= Cardinality(Kept(unpersisted, Of(K)))
    <2>1. unpersisted \in [Workers -> Seq(Entries)]
      BY DEF LedgerTypes
    <2>2. unpersisted' = [unpersisted EXCEPT ![w] = <<>>]
      BY DEF Restart
    <2> QED BY <2>1, <2>2, KeptIsLost
  <1> QED BY <1>8, <1>9, <1>10 DEF Restart, Fault

-----------------------------------------------------------------------------
(* The usage ledger: the invariant and what it implies.                    *)

\* Types and the days of what was spent are kept by every step.
LEMMA LedgerTypesStep ==
    ASSUME LedgerTypes, DaysArePast, [UNext]_uVars
    PROVE  LedgerTypes' /\ DaysArePast'
  <1>1. /\ rows \in Seq(Entries) /\ spent \in Seq(Entries) /\ today \in Nat /\ requests \in Nat
        /\ recent \in [Workers -> Seq(Entries)] /\ unpersisted \in [Workers -> Seq(Entries)]
        /\ \A w \in Workers : Len(recent[w]) <= RecentLimit
        /\ pending \in [Threads -> Requests] /\ used \in [FaultKinds -> Nat]
    BY DEF LedgerTypes, Requests
  <1>2. /\ RecentLimit \in Nat \ {0} /\ Home \in [Threads -> Workers]
        /\ NoRequest \in Requests
    BY LedgerAssumption DEF NoRequest, Requests
  <1>3. \A kind : Fault(kind) => used' \in [FaultKinds -> Nat]
    BY <1>1, LedgerAssumption DEF Fault, FaultKinds
  <1>4. SUFFICES /\ rows' \in Seq(Entries) /\ spent' \in Seq(Entries) /\ today' \in Nat
                 /\ recent' \in [Workers -> Seq(Entries)] /\ unpersisted' \in [Workers -> Seq(Entries)]
                 /\ \A w \in Workers : Len(recent'[w]) <= RecentLimit
                 /\ pending' \in [Threads -> Requests] /\ used' \in [FaultKinds -> Nat]
                 /\ requests' \in Nat /\ \A i \in DOMAIN spent' : spent'[i].day <= today'
    BY DEF LedgerTypes, DaysArePast, Requests
  <1>5. ASSUME NEW t \in Threads, Answer(t)
        PROVE  <1>4!1
    <2> DEFINE e == Entry(t, today)
               w == Home[t]
    <2>1. e \in Entries /\ e.day = today
      BY <1>1 DEF Entry, Entries, Requests
    <2>2. pending' = [pending EXCEPT ![t].at = "persisting", ![t].day = today]
      BY <1>5 DEF Answer
    <2>3. pending' \in [Threads -> Requests]
      <3> DEFINE x == [pending EXCEPT ![t].at = "persisting"]
      <3>1. x \in [Threads -> Requests]
        BY <1>1 DEF Requests
      <3>2. pending' = [x EXCEPT ![t].day = today]
        BY <2>2
      <3> HIDE DEF x
      <3> QED BY <1>1, <3>1, <3>2 DEF Requests
    <2>4. /\ spent' = Append(spent, e) /\ UNCHANGED <<rows, unpersisted, today, requests, used>>
          /\ recent' = [recent EXCEPT ![w] = IF Len(recent[w]) = RecentLimit
                                             THEN Append(Tail(recent[w]), e) ELSE Append(recent[w], e)]
      BY <1>5 DEF Answer, Remember
    <2>5. w \in Workers
      BY <1>2
    <2> HIDE DEF e, w
    <2>6. /\ recent[w] \in Seq(Entries) /\ Len(recent[w]) \in Nat /\ Len(recent[w]) <= RecentLimit
      BY <1>1, <2>5
    <2>7. CASE Len(recent[w]) = RecentLimit
      <3>1. recent[w] # <<>>
        BY <1>2, <2>7
      <3>2. /\ Tail(recent[w]) \in Seq(Entries) /\ Len(Tail(recent[w])) = Len(recent[w]) - 1
        BY <2>6, <3>1
      <3>3. /\ Append(Tail(recent[w]), e) \in Seq(Entries) /\ Len(Append(Tail(recent[w]), e)) = RecentLimit
        BY <1>2, <2>1, <2>7, <3>2
      <3>4. recent' = [recent EXCEPT ![w] = Append(Tail(recent[w]), e)]
        BY <2>4, <2>7
      <3>5. /\ recent' \in [Workers -> Seq(Entries)] /\ \A v \in Workers : Len(recent'[v]) <= RecentLimit
        BY <1>1, <1>2, <2>5, <3>3, <3>4
      <3>6. spent' \in Seq(Entries) /\ \A i \in DOMAIN spent' : spent'[i].day <= today'
        BY <1>1, <2>1, <2>4 DEF DaysArePast
      <3> QED BY <1>1, <2>3, <2>4, <3>5, <3>6
    <2>8. CASE Len(recent[w]) # RecentLimit
      <3>1. /\ Append(recent[w], e) \in Seq(Entries) /\ Len(Append(recent[w], e)) <= RecentLimit
        BY <1>2, <2>1, <2>6, <2>8
      <3>2. recent' = [recent EXCEPT ![w] = Append(recent[w], e)]
        BY <2>4, <2>8
      <3>3. /\ recent' \in [Workers -> Seq(Entries)] /\ \A v \in Workers : Len(recent'[v]) <= RecentLimit
        BY <1>1, <1>2, <2>5, <3>1, <3>2
      <3>4. spent' \in Seq(Entries) /\ \A i \in DOMAIN spent' : spent'[i].day <= today'
        BY <1>1, <2>1, <2>4 DEF DaysArePast
      <3> QED BY <1>1, <2>3, <2>4, <3>3, <3>4
    <2> QED BY <2>7, <2>8
  <1>6. ASSUME NEW t \in Threads, Fail(t)
        PROVE  <1>4!1
    BY <1>1, <1>2, <1>6 DEF Fail, DaysArePast
  <1>7. ASSUME NEW t \in Threads, NEW h \in Horizons, Begin(t, h)
        PROVE  <1>4!1
    <2>1. pending' \in [Threads -> Requests] /\ requests' \in Nat
      BY <1>1, <1>7 DEF Begin, Requests
    <2>2. used' \in [FaultKinds -> Nat]
      BY <1>1, <1>3, <1>7 DEF Begin, NoFault
    <2> QED BY <1>1, <1>7, <2>1, <2>2 DEF Begin, DaysArePast
  <1>8. ASSUME NEW t \in Threads, Persist(t)
        PROVE  <1>4!1
    <2>1. /\ Entry(t, today) \in Entries /\ Entry(t, pending[t].day) \in Entries
          /\ Home[t] \in Workers
      BY <1>1, <1>2 DEF Entry, Entries, Requests
    <2>2. pending' \in [Threads -> Requests] /\ UNCHANGED <<recent, today, spent, requests>>
      BY <1>1, <1>2, <1>8 DEF Persist
    <2>3. used' \in [FaultKinds -> Nat]
      BY <1>1, <1>3, <1>8 DEF Persist, NoFault
    <2> DEFINE e == Entry(t, today)
               f == Entry(t, pending[t].day)
               w == Home[t]
    <2>4. /\ rows' = rows \/ rows' = Append(rows, e)
          /\ unpersisted' = unpersisted \/ unpersisted' = [unpersisted EXCEPT ![w] = Append(unpersisted[w], f)]
      BY <1>8 DEF Persist, Unpersist
    <2>5. e \in Entries /\ f \in Entries /\ w \in Workers
      BY <2>1
    <2> HIDE DEF e, f, w
    <2>6. Append(rows, e) \in Seq(Entries) /\ Append(unpersisted[w], f) \in Seq(Entries)
      BY <1>1, <2>5
    <2>7. rows' \in Seq(Entries) /\ unpersisted' \in [Workers -> Seq(Entries)]
      BY <1>1, <2>4, <2>5, <2>6
    <2> QED BY <1>1, <2>2, <2>3, <2>7 DEF DaysArePast
  <1>9. ASSUME NEW w \in Workers, Restart(w)
        PROVE  <1>4!1
    <2>1. /\ recent' \in [Workers -> Seq(Entries)] /\ unpersisted' \in [Workers -> Seq(Entries)]
          /\ \A v \in Workers : Len(recent'[v]) <= RecentLimit
      BY <1>1, <1>2, <1>9 DEF Restart
    <2>2. pending' \in [Threads -> Requests]
      BY <1>1, <1>2, <1>9 DEF Restart
    <2> QED BY <1>1, <1>3, <1>9, <2>1, <2>2 DEF Restart, DaysArePast
  <1>10. CASE NextDay
    <2>1. \A i \in DOMAIN spent : spent[i].day <= today + 1
      <3>1. ASSUME NEW i \in DOMAIN spent PROVE spent[i].day \in Nat
        <4>1. spent[i] \in Entries
          BY <1>1
        <4> QED BY <4>1 DEF Entries
      <3> QED BY <1>1, <3>1 DEF DaysArePast
    <2> QED BY <1>1, <1>10, <2>1 DEF NextDay
  <1>11. CASE UNCHANGED uVars
    BY <1>1, <1>11 DEF uVars, DaysArePast
  <1> QED BY <1>5, <1>6, <1>7, <1>8, <1>9, <1>10, <1>11 DEF UNext

\* The counts a step compares, of the day it is taken on.
LEMMA OfTheDay ==
    ASSUME NEW K, NEW B, NEW d, d = today, UNCHANGED today
    PROVE  /\ Recorded(K)' <=>
                 Cardinality(PlacesOf(spent', AskedOn(d, K))) <=
                     Cardinality(PlacesOf(rows', On(d, K)))
                     + Cardinality(Busy(pending', Asking, WritingOf(d, K)))
                     + used'["locked"] + used'["crash"] * LostByCrash
           /\ Overshot(K, B)' <=>
                 Cardinality(PlacesOf(spent', AskedOn(d, K))) + Cardinality(Busy(pending', Asking, Calls(K))) <=
                     B + Cardinality(Asking) - 1 + used'["read"] + used'["locked"] + used'["crash"] * LostByCrash
           /\ Matched(K)' <=>
                 LET known == Cardinality(PlacesOf(rows', Of(K))) + Cardinality(Kept(unpersisted', Of(K)))
                              + Cardinality(Busy(pending', Threads, Writing(K)))
                 IN  /\ known <= Cardinality(PlacesOf(spent', Of(K)))
                     /\ used'["crash"] = 0 => known = Cardinality(PlacesOf(spent', Of(K)))
  BY DEF Recorded, Overshot, Matched

\* Each step keeps both accounts and, but for a call that begins, the overshoot: an answer ...
LEMMA AnswerStep ==
    ASSUME LedgerTypes, NEW t \in Threads, Answer(t), NEW K, NEW B \in Nat
    PROVE  /\ Recorded(K) => Recorded(K)'
           /\ Matched(K) => Matched(K)'
           /\ Overshot(K, B) => Overshot(K, B)'
  <1> PICK d : d = today
    OBVIOUS
  <1> DEFINE one == One(t \in Asking /\ pending[t].horizon \in K)
             any == One(pending[t].horizon \in K)
             x == used["crash"] * LostByCrash
  <1>1. one \in Nat /\ any \in Nat
    BY DEF One
  <1>2. x \in Nat
    BY CountsAre
  <1>3. UNCHANGED <<rows, unpersisted, today, used>>
    BY AnswerCounts
  <1> HIDE DEF x
  <1>4. Recorded(K) => Recorded(K)'
    <2>1. /\ Cardinality(PlacesOf(spent', AskedOn(d, K))) = Cardinality(PlacesOf(spent, AskedOn(d, K))) + one
          /\ Cardinality(Busy(pending', Asking, WritingOf(d, K))) =
                      Cardinality(Busy(pending, Asking, WritingOf(d, K))) + one
      BY AnswerCounts
    <2> HIDE DEF one
    <2> QED BY <1>1, <1>2, <1>3, <2>1, OfTheDay, CountsAre DEF Recorded, x
  <1>5. Overshot(K, B) => Overshot(K, B)'
    <2>1. /\ Cardinality(PlacesOf(spent', AskedOn(d, K))) = Cardinality(PlacesOf(spent, AskedOn(d, K))) + one
          /\ Cardinality(Busy(pending', Asking, Calls(K))) =
                      Cardinality(Busy(pending, Asking, Calls(K))) - one
      BY AnswerCounts
    <2> HIDE DEF one
    <2> QED BY <1>1, <1>2, <1>3, <2>1, OfTheDay, CountsAre DEF Overshot, x
  <1>6. Matched(K) => Matched(K)'
    <2>1. /\ Cardinality(PlacesOf(spent', Of(K))) = Cardinality(PlacesOf(spent, Of(K))) + any
          /\ Cardinality(Busy(pending', Threads, Writing(K))) =
                      Cardinality(Busy(pending, Threads, Writing(K))) + any
      BY AnswerCounts
    <2> HIDE DEF any
    <2> QED BY <1>1, <1>3, <2>1, OfTheDay, CountsAre DEF Matched
  <1> QED BY <1>4, <1>5, <1>6

\* ... a call that fails ...
LEMMA FailStep ==
    ASSUME LedgerTypes, NEW t \in Threads, Fail(t), NEW K, NEW B \in Nat
    PROVE  /\ Recorded(K) => Recorded(K)'
           /\ Matched(K) => Matched(K)'
           /\ Overshot(K, B) => Overshot(K, B)'
  <1> PICK d : d = today
    OBVIOUS
  <1>1. /\ Cardinality(Busy(pending', Asking, WritingOf(d, K))) =
              Cardinality(Busy(pending, Asking, WritingOf(d, K)))
        /\ Cardinality(Busy(pending', Asking, Calls(K))) <=
              Cardinality(Busy(pending, Asking, Calls(K)))
        /\ Cardinality(Busy(pending', Threads, Writing(K))) =
              Cardinality(Busy(pending, Threads, Writing(K)))
        /\ UNCHANGED <<rows, unpersisted, today, spent, used>>
    BY FailCounts
  <1>2. Recorded(K) => Recorded(K)'
    BY <1>1, OfTheDay DEF Recorded
  <1>3. Overshot(K, B) => Overshot(K, B)'
    <2>1. Cardinality(Busy(pending', Asking, Calls(K))) \in Nat
      BY UnderWay
    <2> QED BY <1>1, <2>1, OfTheDay, CountsAre DEF Overshot
  <1>4. Matched(K) => Matched(K)'
    BY <1>1, OfTheDay DEF Matched
  <1> QED BY <1>2, <1>3, <1>4

\* ... a write ...
LEMMA PersistStep ==
    ASSUME LedgerTypes, NEW t \in Threads, Persist(t), NEW K, NEW B \in Nat
    PROVE  /\ Recorded(K) => Recorded(K)'
           /\ Matched(K) => Matched(K)'
           /\ Overshot(K, B) => Overshot(K, B)'
  <1> PICK d : d = today
    OBVIOUS
  <1> DEFINE any == One(pending[t].horizon \in K)
             x == used["crash"] * LostByCrash
  <1>1. any \in Nat /\ any <= 1
    BY DEF One
  <1>2. x \in Nat
    BY CountsAre
  <1>3. /\ Cardinality(Busy(pending, Asking, WritingOf(d, K))) <=
              Cardinality(Busy(pending', Asking, WritingOf(d, K))) + any
        /\ Cardinality(Busy(pending', Asking, Calls(K))) = Cardinality(Busy(pending, Asking, Calls(K)))
        /\ Cardinality(Busy(pending', Threads, Writing(K))) =
              Cardinality(Busy(pending, Threads, Writing(K))) - any
        /\ UNCHANGED <<today, spent>>
        /\ \/ /\ Cardinality(PlacesOf(rows', On(d, K))) = Cardinality(PlacesOf(rows, On(d, K))) + any
              /\ Cardinality(PlacesOf(rows', Of(K))) = Cardinality(PlacesOf(rows, Of(K))) + any
              /\ UNCHANGED <<unpersisted, used>>
           \/ /\ Cardinality(Kept(unpersisted', Of(K))) = Cardinality(Kept(unpersisted, Of(K))) + any
              /\ UNCHANGED rows
              /\ used' = [used EXCEPT !["locked"] = @ + 1]
    BY PersistCounts
  <1>4. Cardinality(Busy(pending', Asking, WritingOf(d, K))) \in Nat
    BY UnderWay
  <1>5. used \in [FaultKinds -> Nat]
    BY DEF LedgerTypes
  <1> HIDE DEF any
  <1>6. CASE /\ Cardinality(PlacesOf(rows', On(d, K))) = Cardinality(PlacesOf(rows, On(d, K))) + any
             /\ Cardinality(PlacesOf(rows', Of(K))) = Cardinality(PlacesOf(rows, Of(K))) + any
             /\ UNCHANGED <<unpersisted, used>>
    <2> HIDE DEF x
    <2>1. Recorded(K) => Recorded(K)'
      BY <1>1, <1>2, <1>3, <1>4, <1>6, OfTheDay, CountsAre DEF Recorded, x
    <2>2. Matched(K) => Matched(K)'
      BY <1>1, <1>3, <1>6, OfTheDay, CountsAre DEF Matched
    <2>3. Overshot(K, B) => Overshot(K, B)'
      BY <1>3, <1>6, OfTheDay DEF Overshot
    <2> QED BY <2>1, <2>2, <2>3
  <1>7. CASE /\ Cardinality(Kept(unpersisted', Of(K))) = Cardinality(Kept(unpersisted, Of(K))) + any
             /\ UNCHANGED rows
             /\ used' = [used EXCEPT !["locked"] = @ + 1]
    <2>1. /\ used'["locked"] = used["locked"] + 1 /\ used'["read"] = used["read"]
          /\ used'["crash"] = used["crash"]
      BY <1>5, <1>7 DEF FaultKinds
    <2> HIDE DEF x
    <2>2. Recorded(K) => Recorded(K)'
      BY <1>1, <1>2, <1>3, <1>4, <1>7, <2>1, OfTheDay, CountsAre DEF Recorded, x
    <2>3. Matched(K) => Matched(K)'
      BY <1>1, <1>3, <1>7, <2>1, OfTheDay, CountsAre DEF Matched
    <2>4. Overshot(K, B) => Overshot(K, B)'
      BY <1>2, <1>3, <2>1, OfTheDay, CountsAre DEF Overshot, x
    <2> QED BY <2>2, <2>3, <2>4
  <1> QED BY <1>3, <1>6, <1>7

\* ... and a restart.
LEMMA RestartStep ==
    ASSUME LedgerTypes, NEW w \in Workers, Restart(w), NEW K, NEW B \in Nat
    PROVE  /\ Recorded(K) => Recorded(K)'
           /\ Matched(K) => Matched(K)'
           /\ Overshot(K, B) => Overshot(K, B)'
  <1> PICK d : d = today
    OBVIOUS
  <1> DEFINE x == used["crash"] * LostByCrash
             y == used'["crash"] * LostByCrash
  <1>1. /\ Cardinality(Busy(pending, Asking, WritingOf(d, K))) <=
              Cardinality(Busy(pending', Asking, WritingOf(d, K))) + LostByCrash
        /\ Cardinality(Busy(pending', Asking, Calls(K))) <=
              Cardinality(Busy(pending, Asking, Calls(K)))
        /\ Cardinality(Busy(pending', Threads, Writing(K))) <=
              Cardinality(Busy(pending, Threads, Writing(K)))
        /\ Cardinality(Kept(unpersisted', Of(K))) <= Cardinality(Kept(unpersisted, Of(K)))
        /\ UNCHANGED <<rows, today, spent>>
        /\ used' = [used EXCEPT !["crash"] = @ + 1]
    BY RestartCounts
  <1>2. /\ used'["crash"] = used["crash"] + 1 /\ used'["read"] = used["read"]
        /\ used'["locked"] = used["locked"] /\ used["crash"] \in Nat
    <2>1. used \in [FaultKinds -> Nat]
      BY DEF LedgerTypes
    <2> QED BY <1>1, <2>1 DEF FaultKinds
  <1>3. x \in Nat /\ LostByCrash \in Nat
    BY CountsAre
  <1>4. y = x + LostByCrash
    <2> DEFINE L == LostByCrash
    <2> HIDE DEF L
    <2>1. L \in Nat
      BY <1>3 DEF L
    <2>2. used'["crash"] * L = used["crash"] * L + L
      BY <1>2, <2>1
    <2> QED BY <2>2 DEF L
  <1>5. /\ Cardinality(Busy(pending', Asking, WritingOf(d, K))) \in Nat
        /\ Cardinality(Busy(pending', Asking, Calls(K))) \in Nat
    BY UnderWay
  <1>6. Cardinality(Busy(pending', Threads, Writing(K))) \in Nat
    BY BusyAre
  <1>7. Cardinality(Kept(unpersisted', Of(K))) \in Nat
    <2>1. unpersisted' \in [Workers -> Seq(Entries)]
      BY DEF LedgerTypes, Restart
    <2> QED BY <2>1, KeptAre
  <1> HIDE DEF x, y
  <1>8. Recorded(K) => Recorded(K)'
    BY <1>1, <1>2, <1>3, <1>4, <1>5, OfTheDay, CountsAre DEF Recorded, x, y
  <1>9. Matched(K) => Matched(K)'
    BY <1>1, <1>2, <1>6, <1>7, OfTheDay, CountsAre DEF Matched
  <1>10. Overshot(K, B) => Overshot(K, B)'
    BY <1>1, <1>2, <1>3, <1>4, <1>5, OfTheDay, CountsAre DEF Overshot, x, y
  <1> QED BY <1>8, <1>9, <1>10

\* A call that is let through by what was counted keeps the overshoot as the account of
\* today does; one that never asked or asked in vain brings its own slack.
LEMMA BeginStep ==
    ASSUME LedgerTypes, NEW t \in Threads, NEW h \in Horizons, Begin(t, h), NEW K, NEW B \in Nat
    PROVE  /\ Recorded(K) => Recorded(K)'
           /\ Matched(K) => Matched(K)'
           /\ (t \notin Asking \/ h \notin K \/ HardBreached(Counted(Home[t]), h))
                 => (Overshot(K, B) => Overshot(K, B)')
           /\ Recorded(K) /\ Cardinality(PlacesOf(rows, On(today, K))) < B => Overshot(K, B)'
  <1> PICK d : d = today
    OBVIOUS
  <1> DEFINE one == One(t \in Asking /\ h \in K)
             x == used["crash"] * LostByCrash
  <1>1. /\ Cardinality(Busy(pending', Asking, WritingOf(d, K))) =
              Cardinality(Busy(pending, Asking, WritingOf(d, K)))
        /\ Cardinality(Busy(pending', Asking, Calls(K))) =
              Cardinality(Busy(pending, Asking, Calls(K))) + one
        /\ Cardinality(Busy(pending', Threads, Writing(K))) =
              Cardinality(Busy(pending, Threads, Writing(K)))
        /\ UNCHANGED <<rows, unpersisted, today, spent>>
        /\ used' = used \/ used' = [used EXCEPT !["read"] = @ + 1]
    BY BeginCounts
  <1>2. /\ used'["crash"] = used["crash"] /\ used'["locked"] = used["locked"]
        /\ used'["read"] \in Nat /\ used["read"] <= used'["read"]
        /\ used' # used => used'["read"] = used["read"] + 1
    <2>1. used \in [FaultKinds -> Nat]
      BY DEF LedgerTypes
    <2> QED BY <1>1, <2>1 DEF FaultKinds
  <1>3. x \in Nat
    BY CountsAre
  <1>4. one \in Nat /\ one <= 1 /\ (t \notin Asking \/ h \notin K => one = 0)
    BY DEF One
  <1>5. HardBreached(Counted(Home[t]), h) => t \notin Asking \/ used' # used
    <2>1. Fault("read") => used' # used
      <3>1. used["read"] \in Nat
        BY CountsAre
      <3>2. used \in [FaultKinds -> Nat]
        BY DEF LedgerTypes
      <3> QED BY <3>1, <3>2 DEF Fault, FaultKinds
    <2> QED BY <2>1 DEF Begin, Asking
  <1> HIDE DEF x, one
  <1>6. Recorded(K) => Recorded(K)'
    BY <1>1, <1>2, OfTheDay DEF Recorded
  <1>7. Matched(K) => Matched(K)'
    BY <1>1, <1>2, OfTheDay DEF Matched
  <1>8. ASSUME t \notin Asking \/ h \notin K \/ HardBreached(Counted(Home[t]), h), Overshot(K, B)
        PROVE  Overshot(K, B)'
    <2>1. one <= used'["read"] - used["read"]
      <3>1. used["read"] \in Nat
        BY CountsAre
      <3> QED BY <1>2, <1>4, <1>5, <1>8, <3>1
    <2> QED BY <1>1, <1>2, <1>3, <1>4, <1>8, <2>1, OfTheDay, CountsAre DEF Overshot, x
  <1>9. ASSUME Recorded(K), Cardinality(PlacesOf(rows, On(d, K))) < B
        PROVE  Overshot(K, B)'
    <2>1. Cardinality(Busy(pending', Asking, WritingOf(d, K))) + Cardinality(Busy(pending', Asking, Calls(K)))
             <= Cardinality(Asking)
      BY UnderWay
    <2>2. Cardinality(Busy(pending', Asking, Calls(K))) \in Nat
      BY UnderWay
    <2> QED BY <1>1, <1>2, <1>3, <1>9, <2>1, <2>2, OfTheDay, CountsAre DEF Overshot, Recorded, x
  <1> QED BY <1>6, <1>7, <1>8, <1>9

\* On a new day nothing is spent yet.
LEMMA NextDayStep ==
    ASSUME LedgerTypes, DaysArePast, NextDay, NEW K, NEW B \in Nat
    PROVE  /\ Recorded(K)'
           /\ Matched(K) => Matched(K)'
           /\ B > 0 => Overshot(K, B)'
  <1> PICK d : d = today + 1
    OBVIOUS
  <1> DEFINE x == used["crash"] * LostByCrash
  <1>1. UNCHANGED <<rows, unpersisted, pending, spent, used>> /\ today' = d
    BY DEF NextDay
  <1>2. Cardinality(PlacesOf(spent, AskedOn(d, K))) = 0
    <2>1. today \in Nat /\ spent \in Seq(Entries)
      BY DEF LedgerTypes
    <2>2. \A i \in DOMAIN spent : spent[i].day # d
      <3>1. ASSUME NEW i \in DOMAIN spent PROVE spent[i].day \in Nat
        <4>1. spent[i] \in Entries
          BY <2>1
        <4> QED BY <4>1 DEF Entries
      <3> QED BY <2>1, <3>1 DEF DaysArePast
    <2>3. PlacesOf(spent, AskedOn(d, K)) = {}
      BY <2>2 DEF PlacesOf, AskedOn
    <2> QED BY <2>3, FS_EmptySet
  <1>3. x \in Nat
    BY CountsAre
  <1>4. /\ Recorded(K)' <=>
              Cardinality(PlacesOf(spent, AskedOn(d, K))) <=
                  Cardinality(PlacesOf(rows, On(d, K)))
                  + Cardinality(Busy(pending, Asking, WritingOf(d, K)))
                  + used["locked"] + x
        /\ Overshot(K, B)' <=>
              Cardinality(PlacesOf(spent, AskedOn(d, K))) + Cardinality(Busy(pending, Asking, Calls(K))) <=
                  B + Cardinality(Asking) - 1 + used["read"] + used["locked"] + x
    BY <1>1 DEF Recorded, Overshot
  <1> HIDE DEF x
  <1>5. Recorded(K)'
    BY <1>2, <1>3, <1>4, CountsAre
  <1>6. B > 0 => Overshot(K, B)'
    <2>1. Cardinality(Busy(pending, Asking, Calls(K))) <= Cardinality(Asking)
      BY UnderWay
    <2> QED BY <1>2, <1>3, <1>4, <2>1, CountsAre
  <1>7. Matched(K) => Matched(K)'
    BY <1>1 DEF Matched
  <1> QED BY <1>5, <1>6, <1>7

\* The ledger starts in its invariant.
LEMMA LedgerInit == UInit => LedgerInv
  <1> SUFFICES ASSUME UInit PROVE LedgerInv
    OBVIOUS
  <1> USE DEF UInit
  <1>1. LedgerTypes
    BY LedgerAssumption DEF LedgerTypes, NoRequest, FaultKinds
  <1>2. DaysArePast
    BY DEF DaysArePast
  <1>3. ASSUME NEW Q PROVE Cardinality(PlacesOf(rows, Q)) = 0 /\ Cardinality(PlacesOf(spent, Q)) = 0
    <2>1. PlacesOf(<<>>, Q) = {}
      BY DEF PlacesOf
    <2> QED BY <2>1, FS_EmptySet
  <1>4. ASSUME NEW K PROVE Cardinality(Kept(unpersisted, Of(K))) = 0
    <2>1. Kept(unpersisted, Of(K)) = {}
      BY DEF Kept, PlacesOf
    <2> QED BY <2>1, FS_EmptySet
  <1>5. ASSUME NEW K, NEW d
        PROVE  /\ Cardinality(Busy(pending, Asking, WritingOf(d, K))) = 0
               /\ Cardinality(Busy(pending, Asking, Calls(K))) = 0
               /\ Cardinality(Busy(pending, Threads, Writing(K))) = 0
    <2>1. NoRequest.at = "idle"
      BY DEF NoRequest
    <2>2. /\ Busy(pending, Asking, WritingOf(d, K)) = {}
          /\ Busy(pending, Asking, Calls(K)) = {}
          /\ Busy(pending, Threads, Writing(K)) = {}
      BY <2>1 DEF Busy, Asking, WritingOf, Calls, Writing
    <2> QED BY <2>2, FS_EmptySet
  <1> PICK d : d = today
    OBVIOUS
  <1> DEFINE x == used["crash"] * LostByCrash
  <1>6. x \in Nat
    BY <1>1, CountsAre
  <1> HIDE DEF x
  <1> HIDE DEF UInit
  <1>7. ASSUME NEW K PROVE Recorded(K) /\ Matched(K)
    <2>1. Recorded(K)
      BY <1>1, <1>3, <1>5, <1>6, CountsAre DEF Recorded, x
    <2>2. Matched(K)
      BY <1>3, <1>4, <1>5 DEF Matched
    <2> QED BY <2>1, <2>2
  <1>8. ASSUME NEW K, NEW B \in Nat, B > 0 PROVE Overshot(K, B)
    BY <1>1, <1>3, <1>5, <1>6, <1>8, CountsAre DEF Overshot, x
  <1>9. /\ Budget \in Nat /\ Budget > 0 /\ \A h \in Horizons : HorizonBudget[h] \in Nat
    BY LedgerAssumption
  <1> QED BY <1>1, <1>2, <1>7, <1>8, <1>9 DEF LedgerInv

\* Every step of the ledger keeps its invariant.
LEMMA LedgerStep == LedgerInv /\ [UNext]_uVars => LedgerInv'
  <1> SUFFICES ASSUME LedgerInv, [UNext]_uVars PROVE LedgerInv'
    OBVIOUS
  <1>1. LedgerTypes /\ DaysArePast /\ LedgerTypes' /\ DaysArePast'
    BY LedgerTypesStep DEF LedgerInv
  <1>2. /\ Budget \in Nat /\ Budget > 0
        /\ \A h \in Horizons : HorizonBudget[h] \in Nat /\ {h} \in SUBSET Horizons
        /\ Horizons \in SUBSET Horizons
    BY LedgerAssumption
  <1>3. /\ \A K \in SUBSET Horizons : Recorded(K) /\ Matched(K)
        /\ LimitIsAmple => Overshot(Horizons, Budget)
        /\ LimitIsAmple => \A h \in Horizons : HorizonBudget[h] > 0 => Overshot({h}, HorizonBudget[h])
    BY DEF LedgerInv
  <1>4. SUFFICES /\ \A K \in SUBSET Horizons : Recorded(K)' /\ Matched(K)'
                 /\ LimitIsAmple => Overshot(Horizons, Budget)'
                 /\ LimitIsAmple => \A h \in Horizons : HorizonBudget[h] > 0 => Overshot({h}, HorizonBudget[h])'
    BY <1>1 DEF LedgerInv
  <1>5. ASSUME NEW t \in Threads, Answer(t)
        PROVE  <1>4!1
    BY <1>1, <1>2, <1>3, <1>5, AnswerStep
  <1>6. ASSUME NEW t \in Threads, Fail(t)
        PROVE  <1>4!1
    BY <1>1, <1>2, <1>3, <1>6, FailStep
  <1>7. ASSUME NEW t \in Threads, Persist(t)
        PROVE  <1>4!1
    BY <1>1, <1>2, <1>3, <1>7, PersistStep
  <1>8. ASSUME NEW w \in Workers, Restart(w)
        PROVE  <1>4!1
    BY <1>1, <1>2, <1>3, <1>8, RestartStep
  <1>9. CASE NextDay
    BY <1>1, <1>2, <1>3, <1>9, NextDayStep
  <1>10. ASSUME NEW t \in Threads, NEW h \in Horizons, Begin(t, h)
         PROVE  <1>4!1
    <2>1. \A K \in SUBSET Horizons : Recorded(K)' /\ Matched(K)'
      BY <1>1, <1>2, <1>3, <1>10, BeginStep
    <2>2. ASSUME LimitIsAmple, NEW K \in SUBSET Horizons, NEW B \in Nat, Overshot(K, B),
                 h \in K /\ ~HardBreached(Counted(Home[t]), h) => Cardinality(PlacesOf(rows, On(today, K))) < B
          PROVE  Overshot(K, B)'
      BY <1>1, <1>3, <1>10, <2>2, BeginStep
    <2>3. ASSUME LimitIsAmple, ~HardBreached(Counted(Home[t]), h)
          PROVE  /\ Cardinality(PlacesOf(rows, On(today, Horizons))) < Budget
                 /\ HorizonBudget[h] > 0 =>
                       Cardinality(PlacesOf(rows, On(today, {h}))) < HorizonBudget[h]
      <3>1. Home[t] \in Workers
        BY LedgerAssumption
      <3> QED BY <1>1, <2>3, <3>1, ClearIs
    <2>4. LimitIsAmple => Overshot(Horizons, Budget)'
      BY <1>2, <1>3, <2>2, <2>3
    <2>5. ASSUME LimitIsAmple, NEW g \in Horizons, HorizonBudget[g] > 0
          PROVE  Overshot({g}, HorizonBudget[g])'
      <3>1. h \in {g} /\ ~HardBreached(Counted(Home[t]), h) =>
               Cardinality(PlacesOf(rows, On(today, {g}))) < HorizonBudget[g]
        BY <2>3, <2>5
      <3> QED BY <1>2, <1>3, <2>2, <2>5, <3>1
    <2> QED BY <2>1, <2>4, <2>5
  <1>11. CASE UNCHANGED uVars
    <2>1. /\ \A K : Recorded(K) => Recorded(K)'
          /\ \A K : Matched(K) => Matched(K)'
          /\ \A K, B : Overshot(K, B) => Overshot(K, B)'
      BY <1>11 DEF uVars, Recorded, Matched, Overshot
    <2> QED BY <1>3, <2>1
  <1> QED BY <1>5, <1>6, <1>7, <1>8, <1>9, <1>10, <1>11 DEF UNext

\* What is counted is known: it was spent, and while no process died nothing that was
\* spent is missing.
LEMMA LedgerInvMeans ==
    ASSUME LedgerInv
    PROVE  CountedWasSpent /\ NothingIsUncounted /\ (LimitIsAmple => OvershootIsBounded)
  <1>1. LedgerTypes /\ \A K \in SUBSET Horizons : Recorded(K) /\ Matched(K)
    BY DEF LedgerInv
  <1>2. /\ rows \in Seq(Entries) /\ spent \in Seq(Entries) /\ unpersisted \in [Workers -> Seq(Entries)]
        /\ pending \in [Threads -> Requests]
    BY <1>1 DEF LedgerTypes, Requests
  <1>3. /\ Horizons \in SUBSET Horizons /\ \A h \in Horizons : {h} \in SUBSET Horizons
    OBVIOUS
  <1>4. ASSUME NEW log \in Seq(Entries)
        PROVE  /\ PlacesOf(log, Of(Horizons)) = DOMAIN log
               /\ \A h \in Horizons : PlacesOf(log, Of({h})) = OfHorizon(log, h)
               /\ Cardinality(PlacesOf(log, Of(Horizons))) = Len(log)
    <2>1. \A i \in DOMAIN log : log[i] \in Entries
      OBVIOUS
    <2>2. PlacesOf(log, Of(Horizons)) = DOMAIN log
      BY <2>1 DEF PlacesOf, Of, Entries
    <2>3. \A h \in Horizons : PlacesOf(log, Of({h})) = OfHorizon(log, h)
      BY <2>1 DEF PlacesOf, Of, Entries, OfHorizon
    <2>4. DOMAIN log = 1..Len(log) /\ Len(log) \in Nat
      OBVIOUS
    <2>5. Cardinality(1..Len(log)) = Len(log)
      BY <2>4, FS_Interval
    <2> QED BY <2>2, <2>3, <2>4, <2>5
  <1>5. CountedWasSpent
    <2> SUFFICES ASSUME NEW w \in Workers, NEW h \in Horizons
                 PROVE  Counted(w).of[h] <= Cardinality(OfHorizon(spent, h))
      BY DEF CountedWasSpent
    <2> DEFINE O == Oldest(OfDay(rows, today), RowLimit) \cap OfHorizon(rows, h)
               m == unpersisted[w]
    <2>1. Counted(w).of[h] = Cardinality(O) + Cardinality(OfHorizon(m, h))
      BY DEF Counted, Sums
    <2>2. /\ IsFiniteSet(OfHorizon(rows, h)) /\ Cardinality(OfHorizon(rows, h)) \in Nat
          /\ OfHorizon(rows, h) = PlacesOf(rows, Of({h}))
      BY <1>2, <1>4, PlacesAre
    <2>3. Cardinality(O) <= Cardinality(OfHorizon(rows, h)) /\ Cardinality(O) \in Nat
      BY <2>2, FS_Subset, FS_CardinalityType
    <2>4. m \in Seq(Entries) /\ OfHorizon(m, h) = PlacesOf(m, Of({h}))
      BY <1>2, <1>4
    <2>5. /\ Cardinality(OfHorizon(m, h)) <= Cardinality(Kept(unpersisted, Of({h})))
          /\ Cardinality(OfHorizon(m, h)) \in Nat
      BY <1>2, <2>4, KeptAre, PlacesAre
    <2>6. Cardinality(PlacesOf(rows, Of({h}))) + Cardinality(Kept(unpersisted, Of({h})))
             + Cardinality(Busy(pending, Threads, Writing({h}))) <= Cardinality(PlacesOf(spent, Of({h})))
      BY <1>1, <1>3 DEF Matched
    <2>7. OfHorizon(spent, h) = PlacesOf(spent, Of({h}))
      BY <1>2, <1>4
    <2>8. /\ Cardinality(Kept(unpersisted, Of({h}))) \in Nat
          /\ Cardinality(Busy(pending, Threads, Writing({h}))) \in Nat
          /\ Cardinality(PlacesOf(spent, Of({h}))) \in Nat
      BY <1>1, CountsAre
    <2> HIDE DEF O, m
    <2> QED BY <2>1, <2>2, <2>3, <2>5, <2>6, <2>7, <2>8
  <1>6. NothingIsUncounted
    <2> SUFFICES ASSUME used["crash"] = 0
                 PROVE  Len(spent) = Len(rows) + Cardinality(Unwritten)
                             + Cardinality({t \in Threads : pending[t].at = "persisting"})
      BY DEF NothingIsUncounted
    <2>1. Unwritten = Kept(unpersisted, Of(Horizons))
      <3>1. \A w \in Workers : PlacesOf(unpersisted[w], Of(Horizons)) = DOMAIN unpersisted[w]
        BY <1>2, <1>4
      <3> QED BY <3>1 DEF Unwritten, Kept
    <2>2. {t \in Threads : pending[t].at = "persisting"} = Busy(pending, Threads, Writing(Horizons))
      <3>1. \A t \in Threads : pending[t] \in Requests /\ pending[t].horizon \in Horizons
        BY <1>2 DEF Requests
      <3> QED BY <3>1 DEF Busy, Writing
    <2>3. Cardinality(PlacesOf(rows, Of(Horizons))) + Cardinality(Kept(unpersisted, Of(Horizons)))
             + Cardinality(Busy(pending, Threads, Writing(Horizons))) = Cardinality(PlacesOf(spent, Of(Horizons)))
      BY <1>1, <1>3 DEF Matched
    <2>4. /\ Cardinality(PlacesOf(rows, Of(Horizons))) = Len(rows)
          /\ Cardinality(PlacesOf(spent, Of(Horizons))) = Len(spent)
      BY <1>2, <1>4
    <2> QED BY <2>1, <2>2, <2>3, <2>4
  <1>7. ASSUME LimitIsAmple PROVE OvershootIsBounded
    <2>1. \A i \in DOMAIN spent : spent[i] \in Entries
      BY <1>2
    <2>2. AskedToday = PlacesOf(spent, AskedOn(today, Horizons))
      BY <2>1 DEF AskedToday, OfDay, PlacesOf, AskedOn, Entries
    <2>3. \A h \in Horizons : AskedToday \cap OfHorizon(spent, h) = PlacesOf(spent, AskedOn(today, {h}))
      BY <2>1 DEF AskedToday, OfDay, OfHorizon, PlacesOf, AskedOn, Entries
    <2> DEFINE x == used["crash"] * LostByCrash
               slack == Cardinality(Threads \ Unchecked) - 1 + used["read"] + used["locked"] + x
    <2>4. /\ Overshot(Horizons, Budget)
          /\ \A h \in Horizons : HorizonBudget[h] > 0 => Overshot({h}, HorizonBudget[h])
      BY <1>7 DEF LedgerInv
    <2>5. x \in Nat
      BY <1>1, CountsAre
    <2>6. Budget \in Nat /\ \A h \in Horizons : HorizonBudget[h] \in Nat
      BY LedgerAssumption
    <2>7. ASSUME NEW K, NEW B \in Nat, Overshot(K, B)
          PROVE  Cardinality(PlacesOf(spent, AskedOn(today, K))) <= B + slack
      <3>1. Cardinality(PlacesOf(spent, AskedOn(today, K))) + Cardinality(Busy(pending, Asking, Calls(K))) <=
                B + Cardinality(Asking) - 1 + used["read"] + used["locked"] + x
        BY <2>7 DEF Overshot
      <3>2. Asking = Threads \ Unchecked
        BY DEF Asking
      <3>3. /\ Cardinality(PlacesOf(spent, AskedOn(today, K))) \in Nat
            /\ Cardinality(Busy(pending, Asking, Calls(K))) \in Nat /\ Cardinality(Asking) \in Nat
            /\ used["read"] \in Nat /\ used["locked"] \in Nat
        <4> PICK d : d = today
          OBVIOUS
        <4> QED BY <1>1, CountsAre
      <3> HIDE DEF x
      <3> QED BY <2>5, <2>7, <3>1, <3>2, <3>3
    <2>8. Cardinality(AskedToday) <= Budget + slack
      <3> HIDE DEF slack
      <3> QED BY <2>2, <2>4, <2>6, <2>7
    <2>9. \A h \in Horizons : HorizonBudget[h] > 0 =>
             Cardinality(AskedToday \cap OfHorizon(spent, h)) <= HorizonBudget[h] + slack
      <3> HIDE DEF slack
      <3> QED BY <2>3, <2>4, <2>6, <2>7
    <2> QED BY <2>8, <2>9 DEF OvershootIsBounded
  <1> QED BY <1>5, <1>6, <1>7

\* The invariant of the ledger holds: what was asked for and spent today is a row of
\* today or about to be one, and every entry that was spent is in one place.
THEOREM LedgerInvHolds == USpec => []LedgerInv
  BY LedgerInit, LedgerStep, PTL DEF USpec

\* What _records counts was spent, and while no process dies every call that was
\* answered is a row, is remembered by one process, or is just being written.
THEOREM SpendingIsKnown == USpec => [](CountedWasSpent /\ NothingIsUncounted)
  <1>1. LedgerInv => CountedWasSpent /\ NothingIsUncounted
    BY LedgerInvMeans
  <1> QED BY <1>1, LedgerInvHolds, PTL

\* The hard budget, asked before a call and charged after it by several processes, is
\* overshot by no more than the calls under way and what a fault hides, as long as a
\* read returns a day of calls within it.
THEOREM BudgetIsKept ==
    ASSUME LimitIsAmple
    PROVE  USpec => []BudgetHolds
  <1>1. LedgerInv => BudgetHolds
    BY LedgerInvMeans DEF BudgetHolds
  <1> QED BY <1>1, LedgerInvHolds, PTL

-----------------------------------------------------------------------------
(* The answers of the agent graph.                                         *)

\* The list of a finite set of candidates holds each of them once.
LEMMA ListedIs ==
  ASSUME NEW S \in SUBSET Nat, IsFiniteSet(S)
  PROVE  /\ Listed(S) \in Seq(S) /\ Len(Listed(S)) = Cardinality(S)
         /\ Range(Listed(S)) = S /\ IsInjective(Listed(S))
<1> DEFINE Upto(c) == {d \in S : d <= c}
           N == Cardinality(S)
           rank == [c \in S |-> Cardinality(Upto(c))]
<1>1. N \in Nat
  BY FS_CardinalityType
<1>2. \A c \in S : IsFiniteSet(Upto(c)) /\ Cardinality(Upto(c)) \in 1..N
  <2> TAKE c \in S
  <2>1. IsFiniteSet(Upto(c)) /\ Cardinality(Upto(c)) <= N
    BY FS_Subset
  <2>2. c \in Upto(c)
    OBVIOUS
  <2>3. Cardinality(Upto(c)) \in Nat /\ Cardinality(Upto(c)) # 0
    BY <2>1, <2>2, FS_CardinalityType, FS_EmptySet
  <2>4. QED BY <1>1, <2>1, <2>3
<1>3. \A c, e \in S : c < e => rank[c] # rank[e]
  <2> TAKE c, e \in S
  <2>1. HAVE c < e
  <2>2. c \in Int /\ e \in Int /\ \A d \in S : d \in Int
    OBVIOUS
  <2>3. \A d \in S : d <= c => d <= e
    BY <2>1, <2>2
  <2>4. Upto(c) \in SUBSET Upto(e)
    BY <2>3
  <2>5. e \in Upto(e) /\ e \notin Upto(c)
    BY <2>1, <2>2
  <2>6. QED BY <1>2, <2>4, <2>5, FS_Subset
<1>4. rank \in Injection(S, 1..N)
  <2>1. rank \in [S -> 1..N]
    BY <1>2
  <2>2. \A c, e \in S : rank[c] = rank[e] => c = e
    BY <1>3
  <2> HIDE DEF rank
  <2>3. QED BY <2>1, <2>2 DEF Injection, IsInjective
<1>5. IsFiniteSet(1..N) /\ Cardinality(1..N) = N
  BY <1>1, FS_Interval
<1>6. rank \in Surjection(S, 1..N)
  BY <1>4, <1>5, FS_Injection
<1>7. \A n \in 1..N : \E c \in S : rank[c] = n
  BY <1>6 DEF Surjection
<1>8. \A n \in 1..N : Listed(S)[n] \in S /\ rank[Listed(S)[n]] = n
  BY <1>7 DEF Listed
<1>9. DOMAIN Listed(S) = 1..N
  BY DEF Listed
<1>10. Listed(S) \in [1..N -> S]
  BY <1>8 DEF Listed
<1>11. \A c \in S : Listed(S)[rank[c]] = c
  <2> TAKE c \in S
  <2> DEFINE e == Listed(S)[rank[c]]
  <2>1. rank[c] \in 1..N
    BY <1>2
  <2>2. e \in S /\ rank[e] = rank[c]
    BY <1>8, <2>1
  <2> HIDE DEF e, rank
  <2>3. e \in Nat /\ c \in Nat /\ ~(e < c) /\ ~(c < e)
    BY <1>3, <2>2
  <2>4. QED BY <2>3 DEF e
<1>12. Range(Listed(S)) = S
  BY <1>2, <1>8, <1>9, <1>11 DEF Range
<1>13. IsInjective(Listed(S))
  <2> HIDE DEF rank
  <2>1. \A m, n \in 1..N : Listed(S)[m] = Listed(S)[n] => m = n
    BY <1>8
  <2>2. QED BY <1>9, <2>1 DEF IsInjective
<1>14. Listed(S) \in Seq(S) /\ Len(Listed(S)) = N
  BY <1>1, <1>10
<1>15. QED BY <1>12, <1>13, <1>14

\* An extract has the entries at the given positions, in their order.
LEMMA ExtractIs ==
  ASSUME NEW T, NEW s \in Seq(T), NEW I \in SUBSET DOMAIN s
  PROVE  /\ Extract(s, I) \in Seq(T)
         /\ Range(Extract(s, I)) = {s[i] : i \in I}
         /\ IsInjective(s) => IsInjective(Extract(s, I))
<1>1. IsFiniteSet(I) /\ I \in SUBSET Nat
  BY FS_Interval, FS_Subset
<1>2. Cardinality(I) \in Nat
  BY <1>1, FS_CardinalityType
<1>3. /\ DOMAIN Listed(I) = 1..Cardinality(I) /\ \A n \in 1..Cardinality(I) : Listed(I)[n] \in I
      /\ Range(Listed(I)) = I /\ IsInjective(Listed(I))
  BY <1>1, ListedIs
<1>4. Extract(s, I) \in [1..Cardinality(I) -> T]
  BY <1>3 DEF Extract
<1>5. Extract(s, I) \in Seq(T)
  BY <1>2, <1>4
<1>6. Range(Extract(s, I)) = {s[i] : i \in I}
  BY <1>3 DEF Extract, Range
<1>7. IsInjective(s) => IsInjective(Extract(s, I))
  BY <1>3 DEF Extract, IsInjective
<1>8. QED BY <1>5, <1>6, <1>7

\* What two lists hold together, and when no candidate is in it twice.
LEMMA JoinIs ==
  ASSUME NEW T, NEW s \in Seq(T), NEW t \in Seq(T)
  PROVE  /\ s \o t \in Seq(T) /\ Range(s \o t) = Range(s) \union Range(t)
         /\ IsInjective(s) /\ IsInjective(t) /\ Range(s) \intersect Range(t) = {}
                => IsInjective(s \o t)
<1>1. /\ s \o t \in Seq(T) /\ Len(s \o t) = Len(s) + Len(t)
      /\ \A i \in 1 .. Len(s) + Len(t) : (s \o t)[i] = IF i <= Len(s) THEN s[i] ELSE t[i - Len(s)]
  BY ConcatProperties
<1> DEFINE u == s \o t
<1>2. Len(s) \in Nat /\ Len(t) \in Nat /\ DOMAIN s = 1..Len(s) /\ DOMAIN t = 1..Len(t)
      /\ DOMAIN u = 1..Len(s) + Len(t)
  BY <1>1
<1> HIDE DEF u
<1>3. \A i \in DOMAIN s : i \in DOMAIN u /\ u[i] = s[i]
  BY <1>1, <1>2 DEF u
<1>4. \A i \in DOMAIN t : i + Len(s) \in DOMAIN u /\ u[i + Len(s)] = t[i]
  BY <1>1, <1>2 DEF u
<1>5. \A i \in DOMAIN u : \/ i \in DOMAIN s /\ u[i] = s[i]
                          \/ i - Len(s) \in DOMAIN t /\ u[i] = t[i - Len(s)]
  BY <1>1, <1>2 DEF u
<1>6. Range(u) = Range(s) \union Range(t)
  BY <1>3, <1>4, <1>5 DEF Range
<1>7. ASSUME IsInjective(s), IsInjective(t), Range(s) \intersect Range(t) = {}
      PROVE  IsInjective(u)
  <2> SUFFICES ASSUME NEW i \in DOMAIN u, NEW j \in DOMAIN u, u[i] = u[j] PROVE i = j
    BY DEF IsInjective
  <2>1. CASE i \in DOMAIN s /\ u[i] = s[i] /\ j \in DOMAIN s /\ u[j] = s[j]
    BY <1>7, <2>1 DEF IsInjective
  <2>2. CASE i - Len(s) \in DOMAIN t /\ u[i] = t[i - Len(s)] /\ j - Len(s) \in DOMAIN t /\ u[j] = t[j - Len(s)]
    <3>1. i - Len(s) = j - Len(s)
      BY <1>7, <2>2 DEF IsInjective
    <3>2. QED BY <1>2, <3>1
  <2>3. QED BY <1>5, <1>7, <2>1, <2>2 DEF Range
<1>8. QED BY <1>1, <1>6, <1>7 DEF u

\* The nodes before the review has answered.
Undecided == {"enter", "gate", "support", "regime", "select", "validate"}

Sorted == [validated : Seq(Ids), rejected : Seq(Ids), approved : Seq(Ids), risk : Seq(Ids),
           dropped : Seq(Ids), gate : Seq(Ids)]

AnswerTypes ==
    /\ way \in Ways
    /\ Present \in SUBSET Ids /\ left \in SUBSET Present
    /\ lists \in Sorted

\* Until the review nothing is validated, and what is not left was dropped.
Untouched ==
    /\ Range(lists.approved) = {}
    /\ Range(lists.dropped) = Present \ left
    /\ Range(lists.gate) \subseteq Range(lists.dropped)
    /\ Range(lists.risk) \subseteq Range(lists.dropped)

\* After the review what is left is validated or rejected.
Divided ==
    /\ Range(lists.validated) \union Range(lists.rejected) = left
    /\ way = "optimised" =>
        /\ Range(lists.validated) \intersect Range(lists.rejected) = {}
        /\ IsInjective(lists.validated) /\ IsInjective(lists.rejected)

ListInv ==
    /\ node \in {"enter", "gate"} => left = Present
    /\ node \in Undecided => Untouched /\ lists.validated = <<>> /\ lists.rejected = <<>>
    /\ node = "comply" => Untouched /\ Divided
    /\ node \in {"return", "end"} => Accounted
    /\ node = "return" => Range(lists.gate) \subseteq Range(lists.dropped)

\* An approved verdict that is kept was the whole of what was said.
VerdictInv ==
    /\ way = "batch" => DOMAIN verdicts = {}
    /\ \A f \in DOMAIN verdicts : f \in DOMAIN heard /\ (verdicts[f] => heard[f] = {"approve"})

ReviewInv ==
    /\ VerdictInv
    /\ node = "comply" => \A c \in Range(lists.validated) : Warranted(c)
    /\ node \in {"return", "end"} => Grounded
    /\ \A k \in asked : k.registry = "ALLOW"

AnswerInv == AnswerTypes /\ ListInv /\ ReviewInv

\* The empty list holds nobody.
LEMMA NothingIs ==
  /\ NoLists \in Sorted /\ Range(<<>>) = {} /\ IsInjective(<<>>) /\ DOMAIN <<>> = {}
  BY DEF NoLists, Sorted, Range, IsInjective

\* What has no entries has none twice.
LEMMA NobodyTwice ==
  ASSUME NEW s, Range(s) = {}
  PROVE  IsInjective(s)
  BY DEF Range, IsInjective

\* A part of the candidates can be listed, each once.
LEMMA SomeAreListed ==
  ASSUME NEW S \in SUBSET Ids
  PROVE  Listed(S) \in Seq(Ids) /\ Range(Listed(S)) = S /\ IsInjective(Listed(S))
<1>1. IsFiniteSet(S) /\ S \in SUBSET Nat
  BY AnswersAssumption, FS_Subset
<1>2. Listed(S) \in Seq(S) /\ Range(Listed(S)) = S /\ IsInjective(Listed(S))
  BY <1>1, ListedIs
<1>3. QED BY <1>2

\* Every invocation starts with nothing decided.
LEMMA AnswerInit == AInit => AnswerInv
<1> SUFFICES ASSUME AInit PROVE AnswerInv
  OBVIOUS
<1> USE NothingIs
<1>1. /\ way \in Ways /\ node = "enter" /\ lists = NoLists /\ left = Present /\ left \in SUBSET Ids
      /\ verdicts = <<>> /\ asked = {} /\ DOMAIN verdicts = {}
  BY DEF AInit, AStartsAt, Present
<1>2. AnswerTypes
  BY <1>1 DEF AnswerTypes
<1>3. ListInv
  BY <1>1 DEF ListInv, Untouched, NoLists
<1>4. ReviewInv
  BY <1>1 DEF ReviewInv, VerdictInv
<1>5. QED BY <1>2, <1>3, <1>4 DEF AnswerInv

\* What a step leaves alone keeps its meaning.
LEMMA Unaffected ==
  ASSUME VerdictInv, UNCHANGED <<way, verdicts, heard>>
  PROVE  VerdictInv'
  BY DEF VerdictInv

\* A degraded context rejects all candidates; else nothing is decided yet.
LEMMA EnterStep == AnswerInv /\ EnterGraph => AnswerInv'
<1> SUFFICES ASSUME AnswerInv, EnterGraph PROVE AnswerInv'
  OBVIOUS
<1>1. PICK degraded \in BOOLEAN :
        /\ node' \in {"raised", "end", "gate", "support"} /\ (degraded <=> node' = "end")
        /\ lists' = [lists EXCEPT !.risk = IF degraded THEN Listed(left) ELSE @]
  BY DEF EnterGraph
<1>2. node = "enter" /\ left = Present /\ Untouched /\ lists \in Sorted /\ left \in SUBSET Ids
      /\ lists.validated = <<>> /\ lists.rejected = <<>>
  BY DEF AnswerInv, EnterGraph, ListInv, Undecided, AnswerTypes
<1>3. UNCHANGED <<way, batch, left, verdicts, heard, asked>> /\ Present' = Present
  BY DEF EnterGraph, Present, mode, kept, testimony
<1>4. Listed(left) \in Seq(Ids) /\ Range(Listed(left)) = left
  BY <1>2, SomeAreListed
<1>5. /\ lists'.validated = <<>> /\ lists'.rejected = <<>> /\ lists'.approved = lists.approved
      /\ lists'.dropped = lists.dropped /\ lists'.gate = lists.gate
      /\ lists'.risk = IF degraded THEN Listed(left) ELSE lists.risk
  BY <1>1, <1>2 DEF Sorted
<1>6. AnswerTypes'
  BY <1>1, <1>2, <1>3, <1>4 DEF AnswerInv, AnswerTypes, Sorted
<1>7. ~degraded => Untouched'
  BY <1>2, <1>3, <1>5 DEF Untouched
<1>8. degraded => Accounted'
  <2>1. Approved' = {} /\ Range(lists'.rejected) = {} /\ Range(lists'.dropped) = {}
        /\ IsInjective(lists'.approved) /\ IsInjective(lists'.rejected)
    BY <1>2, <1>5, NothingIs, NobodyTwice DEF Approved, Untouched
  <2>2. degraded => Screened' = Present'
    BY <1>2, <1>3, <1>4, <1>5, <2>1 DEF Screened
  <2>3. QED BY <2>1, <2>2 DEF Accounted
<1>9. ListInv'
  BY <1>1, <1>2, <1>3, <1>5, <1>7, <1>8 DEF ListInv, Undecided
<1>10. Grounded'
  BY <1>2, <1>5 DEF Grounded, Approved, Untouched
<1>11. ReviewInv'
  BY <1>1, <1>3, <1>10, Unaffected DEF AnswerInv, ReviewInv
<1>12. QED BY <1>6, <1>9, <1>11 DEF AnswerInv

\* The gate drops what it does not let through, and the graph is skipped when nothing is left.
LEMMA GateStep == AnswerInv /\ Gate => AnswerInv'
<1> SUFFICES ASSUME AnswerInv, Gate PROVE AnswerInv'
  OBVIOUS
<1>1. PICK passed \in SUBSET left :
        /\ lists' = [lists EXCEPT !.dropped = Listed(left \ passed), !.gate = Listed(left \ passed),
                                  !.risk = IF passed = {} THEN Listed(left \ passed) ELSE @]
        /\ left' = passed /\ batch' = Evaluated(passed)
        /\ node' = IF passed = {} THEN "end" ELSE "support"
  BY DEF Gate, Filtered
<1>2. node = "gate" /\ left = Present /\ Untouched /\ lists \in Sorted /\ left \in SUBSET Ids
      /\ lists.validated = <<>> /\ lists.rejected = <<>>
  BY DEF AnswerInv, Gate, ListInv, Undecided, AnswerTypes
<1>3. UNCHANGED <<way, verdicts, heard, asked>> /\ Present' = Present
  BY <1>1 DEF Gate, Present, mode, kept, testimony, Evaluated
<1> DEFINE out == Listed(left \ passed)
<1>4. out \in Seq(Ids) /\ Range(out) = left \ passed
  BY <1>2, SomeAreListed
<1>5. /\ lists'.validated = <<>> /\ lists'.rejected = <<>> /\ lists'.approved = lists.approved
      /\ lists'.dropped = out /\ lists'.gate = out
      /\ lists'.risk = IF passed = {} THEN out ELSE lists.risk
  BY <1>1, <1>2 DEF Sorted
<1> HIDE DEF out
<1>6. lists' \in Sorted
  BY <1>1, <1>2, <1>4 DEF Sorted, out
<1>7. AnswerTypes'
  BY <1>1, <1>2, <1>3, <1>6 DEF AnswerInv, AnswerTypes
<1>8. Range(lists.risk) = {}
  BY <1>2 DEF Untouched
<1>9. Untouched'
  BY <1>1, <1>2, <1>3, <1>4, <1>5, <1>8 DEF Untouched
<1>10. passed = {} => Accounted'
  <2>1. Approved' = {} /\ Range(lists'.rejected) = {}
        /\ IsInjective(lists'.approved) /\ IsInjective(lists'.rejected)
    BY <1>2, <1>5, NothingIs, NobodyTwice DEF Approved, Untouched
  <2>2. passed = {} => Screened' = Present'
    BY <1>2, <1>3, <1>4, <1>5 DEF Screened
  <2>3. QED BY <2>1, <2>2 DEF Accounted
<1>11. ListInv'
  BY <1>1, <1>2, <1>3, <1>5, <1>9, <1>10 DEF ListInv, Undecided
<1>12. Grounded'
  BY <1>2, <1>5 DEF Grounded, Approved, Untouched
<1>13. ReviewInv'
  BY <1>1, <1>3, <1>12, Unaffected DEF AnswerInv, ReviewInv
<1>14. QED BY <1>7, <1>11, <1>13 DEF AnswerInv

\* The supporting agents decide nothing.
LEMMA SupportStep == AnswerInv /\ SupportAgents => AnswerInv'
<1> SUFFICES ASSUME AnswerInv, SupportAgents PROVE AnswerInv'
  OBVIOUS
<1>1. /\ node = "support" /\ node' = "regime" /\ Present' = Present
      /\ UNCHANGED <<way, batch, left, lists, verdicts, heard, asked>>
  BY DEF SupportAgents, Present, mode, kept, testimony
<1>2. AnswerTypes' /\ ListInv'
  BY <1>1 DEF AnswerInv, AnswerTypes, ListInv, Undecided, Untouched
<1>3. ReviewInv'
  BY <1>1, Unaffected DEF AnswerInv, ReviewInv
<1>4. QED BY <1>2, <1>3 DEF AnswerInv

\* The graph may stop at the regime: then nothing is approved.
LEMMA RegimeStep == AnswerInv /\ Regime => AnswerInv'
<1> SUFFICES ASSUME AnswerInv, Regime PROVE AnswerInv'
  OBVIOUS
<1>1. /\ node = "regime" /\ node' \in {"return", "select"} /\ Present' = Present
      /\ node' = "return" => stopped'
      /\ UNCHANGED <<way, batch, left, lists, verdicts, heard, asked>>
  BY DEF Regime, Present, mode, kept, testimony
<1>2. Untouched
  BY <1>1 DEF AnswerInv, ListInv, Undecided
<1>3. AnswerTypes'
  BY <1>1 DEF AnswerInv, AnswerTypes
<1>4. ListInv'
  BY <1>1, <1>2 DEF AnswerInv, ListInv, Undecided, Untouched, Accounted
<1>5. ReviewInv'
  BY <1>1, <1>2, Unaffected DEF AnswerInv, ReviewInv, Grounded, Approved, Untouched
<1>6. QED BY <1>3, <1>4, <1>5 DEF AnswerInv

\* The selection drops once more, behind what was dropped before.
LEMMA SelectStep == AnswerInv /\ Select => AnswerInv'
<1> SUFFICES ASSUME AnswerInv, Select PROVE AnswerInv'
  OBVIOUS
<1>1. PICK passed \in SUBSET left :
        LET dropped == lists.dropped \o Listed(left \ passed)
        IN /\ left' = passed
           /\ lists' = [lists EXCEPT !.dropped = dropped, !.risk = IF passed = {} THEN dropped ELSE @]
  BY DEF Select, Filtered
<1>2. node = "select" /\ Untouched /\ lists \in Sorted /\ left \in SUBSET Present
      /\ left \in SUBSET Ids /\ lists.validated = <<>> /\ lists.rejected = <<>>
  BY DEF AnswerInv, Select, ListInv, Undecided, AnswerTypes
<1>3. UNCHANGED <<way, batch, verdicts, heard, asked>> /\ Present' = Present /\ node' = "validate"
  BY DEF Select, Present, mode, kept, testimony
<1> DEFINE out == Listed(left \ passed)
           dropped == lists.dropped \o out
<1>4. out \in Seq(Ids) /\ Range(out) = left \ passed
  BY <1>2, SomeAreListed
<1>5. dropped \in Seq(Ids) /\ Range(dropped) = Range(lists.dropped) \union (left \ passed)
  <2>1. lists.dropped \in Seq(Ids)
    BY <1>2 DEF Sorted
  <2> HIDE DEF out
  <2>2. QED BY <1>4, <2>1, JoinIs
<1>6. /\ lists'.validated = <<>> /\ lists'.rejected = <<>> /\ lists'.approved = lists.approved
      /\ lists'.dropped = dropped /\ lists'.gate = lists.gate
      /\ lists'.risk = IF passed = {} THEN dropped ELSE lists.risk
  BY <1>1, <1>2 DEF Sorted
<1>7. lists' \in Sorted
  BY <1>1, <1>2, <1>5 DEF Sorted
<1> HIDE DEF out, dropped
<1>8. AnswerTypes'
  BY <1>1, <1>2, <1>3, <1>7 DEF AnswerInv, AnswerTypes
<1>9. Untouched'
  BY <1>1, <1>2, <1>3, <1>5, <1>6 DEF Untouched
<1>10. ListInv'
  BY <1>3, <1>6, <1>9 DEF ListInv, Undecided
<1>11. ReviewInv'
  BY <1>3, Unaffected DEF AnswerInv, ReviewInv
<1>12. QED BY <1>8, <1>10, <1>11 DEF AnswerInv

\* A list is over whatever set has all its entries.
LEMMA NarrowSeq ==
  ASSUME NEW T, NEW U, NEW s \in Seq(T), Range(s) \subseteq U
  PROVE  s \in Seq(U)
<1>1. \A i \in 1..Len(s) : s[i] \in U
  BY DEF Range
<1>2. s \in [1..Len(s) -> U] /\ Len(s) \in Nat
  BY <1>1
<1>3. QED BY <1>2

\* Whatever the review: its lists divide what could be reviewed, and the others are rejected.
LEMMA AcceptKeeps ==
  ASSUME AnswerInv, node = "validate", NEW v \in Seq(Ids), NEW r \in Seq(Ids),
         Accept([validated |-> v, rejected |-> r]), UNCHANGED <<way, batch, left>>,
         Range(v) \union Range(r) = Reviewable,
         way = "optimised" => /\ Range(v) \intersect Range(r) = {}
                              /\ IsInjective(v) /\ IsInjective(r)
  PROVE  /\ AnswerTypes' /\ ListInv'
         /\ node' \in {"return", "comply"} /\ lists'.validated = v /\ Approved' = {}
<1>1. Untouched /\ lists \in Sorted /\ left \in SUBSET Present /\ left \in SUBSET Ids
  BY DEF AnswerInv, ListInv, Undecided, AnswerTypes
<1>2. Reviewable \subseteq left
  BY DEF Reviewable
<1> DEFINE out == Listed(left \ Reviewable)
           no == out \o r
<1>3. out \in Seq(Ids) /\ Range(out) = left \ Reviewable /\ IsInjective(out)
  BY <1>1, SomeAreListed
<1>4. /\ lists' = [lists EXCEPT !.validated = v, !.rejected = no]
      /\ node' = IF v = <<>> THEN "return" ELSE "comply"
  BY DEF Accept
<1> HIDE DEF out
<1>5. no \in Seq(Ids) /\ Range(no) = (left \ Reviewable) \union Range(r)
  BY <1>3, JoinIs
<1>6. way = "optimised" => IsInjective(no)
  BY <1>3, JoinIs
<1> HIDE DEF no
<1>7. /\ lists'.validated = v /\ lists'.rejected = no /\ lists'.approved = lists.approved
      /\ lists'.dropped = lists.dropped /\ lists'.gate = lists.gate /\ lists'.risk = lists.risk
  BY <1>1, <1>4 DEF Sorted
<1>8. lists' \in Sorted
  BY <1>1, <1>4, <1>5 DEF Sorted
<1>9. AnswerTypes'
  BY <1>8 DEF AnswerInv, AnswerTypes, Present
<1>10. Untouched' /\ Approved' = {}
  BY <1>1, <1>7 DEF Untouched, Present, Approved
<1>11. Divided'
  BY <1>2, <1>5, <1>6, <1>7 DEF Divided
<1>12. v = <<>> => Accounted'
  <2>1. v = <<>> => Range(no) = left
    BY <1>2, <1>5, NothingIs
  <2>2. Screened' = Present \ left
    BY <1>1, <1>7 DEF Screened, Untouched
  <2>3. IsInjective(lists'.approved)
    BY <1>10, NobodyTwice DEF Approved
  <2>4. QED BY <1>1, <1>6, <1>7, <1>10, <2>1, <2>2, <2>3 DEF Accounted, Present
<1>13. ListInv'
  BY <1>4, <1>10, <1>11, <1>12 DEF ListInv, Undecided, Untouched
<1>14. QED BY <1>4, <1>7, <1>9, <1>10, <1>13

\* After a review that approves with a warrant the answers were heeded so far.
LEMMA ReviewKeeps ==
  ASSUME AnswerInv, node' \in {"return", "comply"}, Approved' = {},
         \A c \in Range(lists'.validated) : Warranted(c)', VerdictInv',
         \A k \in asked' : k.registry = "ALLOW"
  PROVE  ReviewInv'
  BY DEF ReviewInv, Grounded

\* A review by rules says fallback, and that is its warrant.
LEMMA RulesStep == AnswerInv /\ ValidateByRules => AnswerInv'
<1> SUFFICES ASSUME AnswerInv, ValidateByRules PROVE AnswerInv'
  OBVIOUS
<1> DEFINE good == {c \in Reviewable : batch[c].strategy \in active /\ batch[c].strong}
<1>1. /\ node = "validate" /\ Accept([validated |-> Listed(good), rejected |-> Listed(Reviewable \ good)])
      /\ UNCHANGED <<way, batch, left, verdicts, heard, asked, regime>>
  BY DEF ValidateByRules, BackupCheck, mode, kept, testimony
<1>2. Reviewable \subseteq left /\ left \subseteq Ids
  BY DEF Reviewable, AnswerInv, AnswerTypes
<1>3. /\ Listed(good) \in Seq(Ids) /\ Range(Listed(good)) = good /\ IsInjective(Listed(good))
      /\ Listed(Reviewable \ good) \in Seq(Ids) /\ Range(Listed(Reviewable \ good)) = Reviewable \ good
      /\ IsInjective(Listed(Reviewable \ good))
  BY <1>2, SomeAreListed
<1>4. /\ AnswerTypes' /\ ListInv' /\ node' \in {"return", "comply"} /\ Approved' = {}
      /\ lists'.validated = Listed(good)
  <2> DEFINE v == Listed(good)
             r == Listed(Reviewable \ good)
  <2>1. Range(v) \union Range(r) = Reviewable /\ Range(v) \intersect Range(r) = {}
    BY <1>3
  <2> HIDE DEF v, r
  <2>2. Accept([validated |-> v, rejected |-> r]) /\ v \in Seq(Ids) /\ r \in Seq(Ids)
        /\ IsInjective(v) /\ IsInjective(r)
    BY <1>1, <1>3 DEF v, r
  <2>3. /\ AnswerTypes' /\ ListInv' /\ node' \in {"return", "comply"} /\ Approved' = {}
        /\ lists'.validated = v
    BY <1>1, <2>1, <2>2, AcceptKeeps
  <2>4. QED BY <2>3 DEF v
<1>5. \A c \in good : batch[c].registry = "ALLOW" /\ "fallback" \in errors'
  BY DEF ValidateByRules, Fallback, Reviewable
<1>6. \A c \in good : Warranted(c)'
  BY <1>1, <1>5 DEF Warranted
<1>7. VerdictInv' /\ \A k \in asked' : k.registry = "ALLOW"
  BY <1>1, Unaffected DEF AnswerInv, ReviewInv
<1> HIDE DEF good
<1>8. ReviewInv'
  BY <1>3, <1>4, <1>6, <1>7, ReviewKeeps
<1>9. QED BY <1>4, <1>8 DEF AnswerInv

\* Whoever is in a lenient reading was asked about; the validated ones were approved.
LEMMA LenientIs ==
  ASSUME NEW known \in SUBSET Ids, NEW items \in Replies(known)
  PROVE  LET result == Lenient(items, known)
         IN /\ result.validated \in Seq(Ids) /\ result.rejected \in Seq(Ids)
            /\ Range(result.validated) \union Range(result.rejected) = known
            /\ \A c \in Range(result.validated) : "approve" \in Said(items, c)
<1> DEFINE about == {i \in DOMAIN items : items[i].id \in known}
           approving == {i \in about : items[i].says = "approve"}
           others == about \ approving
           silent == {c \in known : Said(items, c) = {}}
           ids == [i \in DOMAIN items |-> items[i].id]
           yes == Extract(ids, approving)
           no == Extract(ids, others)
<1>1. PICK n \in Nat : items \in [1..n -> Items(known)]
  BY AnswersAssumption DEF Replies, BoundedSeq, SeqOf
<1>2. ids \in Seq(Ids \union {Stranger}) /\ DOMAIN ids = DOMAIN items
  BY <1>1 DEF Items
<1>3. approving \in SUBSET DOMAIN ids /\ others \in SUBSET DOMAIN ids
  BY <1>2
<1>4. /\ yes \in Seq(Ids \union {Stranger}) /\ Range(yes) = {ids[i] : i \in approving}
      /\ no \in Seq(Ids \union {Stranger}) /\ Range(no) = {ids[i] : i \in others}
  <2> HIDE DEF ids, approving, others
  <2>1. QED BY <1>2, <1>3, ExtractIs
<1>5. Range(yes) \subseteq known /\ Range(no) \subseteq known
  BY <1>4
<1>6. Listed(silent) \in Seq(Ids) /\ Range(Listed(silent)) = silent
  BY SomeAreListed
<1>7. yes \in Seq(Ids) /\ no \in Seq(Ids)
  <2> HIDE DEF yes, no
  <2>1. QED BY <1>4, <1>5, NarrowSeq
<1>8. Range(yes) \union Range(no) \union silent = known
  <2>1. \A c \in known : c \in silent \/ \E i \in about : ids[i] = c
    BY DEF Said
  <2>2. QED BY <1>4, <1>5, <2>1
<1>9. \A c \in Range(yes) : "approve" \in Said(items, c)
  BY <1>4 DEF Said
<1>10. Lenient(items, known) = [validated |-> yes, rejected |-> no \o Listed(silent)]
  BY DEF Lenient
<1> HIDE DEF yes, no, silent
<1>11. no \o Listed(silent) \in Seq(Ids) /\ Range(no \o Listed(silent)) = Range(no) \union silent
  BY <1>6, <1>7, JoinIs
<1>12. QED BY <1>7, <1>8, <1>9, <1>10, <1>11

\* The batch review approves nobody about whom the answer does not say approve.
LEMMA BatchStep == AnswerInv /\ ValidateBatch => AnswerInv'
<1> SUFFICES ASSUME AnswerInv, ValidateBatch PROVE AnswerInv'
  OBVIOUS
<1>1. /\ node = "validate" /\ way = "batch" /\ UNCHANGED <<way, batch, left, verdicts, regime, errors>>
      /\ asked' = asked \union {batch[c] : c \in Reviewable}
  BY DEF ValidateBatch, mode, kept
<1>2. Reviewable \subseteq left /\ Reviewable \in SUBSET Ids
  BY DEF Reviewable, AnswerInv, AnswerTypes
<1>3. VerdictInv' /\ \A k \in asked' : k.registry = "ALLOW"
  BY <1>1 DEF AnswerInv, ReviewInv, VerdictInv, Reviewable
<1>4. CASE Accept([validated |-> <<>>, rejected |-> Listed(Reviewable)])
  <2>1. Listed(Reviewable) \in Seq(Ids) /\ Range(Listed(Reviewable)) = Reviewable
    BY <1>2, SomeAreListed
  <2> DEFINE v == <<>>
             r == Listed(Reviewable)
  <2>2. v \in Seq(Ids) /\ Range(v) = {}
    BY NothingIs
  <2>3. Accept([validated |-> v, rejected |-> r])
    BY <1>4
  <2> HIDE DEF v, r
  <2>4. Range(v) \union Range(r) = Reviewable /\ r \in Seq(Ids)
    BY <2>1, <2>2 DEF r
  <2>5. /\ AnswerTypes' /\ ListInv' /\ node' \in {"return", "comply"} /\ Approved' = {}
        /\ lists'.validated = v
    BY <1>1, <2>2, <2>3, <2>4, AcceptKeeps
  <2>6. ReviewInv'
    BY <1>3, <2>2, <2>5, ReviewKeeps
  <2>7. QED BY <2>5, <2>6 DEF AnswerInv
<1>5. CASE \E items \in Replies(Reviewable) :
             Accept(Lenient(items, Reviewable)) /\ heard' = Hear(items, Reviewable)
  <2>1. PICK items \in Replies(Reviewable) :
             Accept(Lenient(items, Reviewable)) /\ heard' = Hear(items, Reviewable)
    BY <1>5
  <2> DEFINE v == Lenient(items, Reviewable).validated
             r == Lenient(items, Reviewable).rejected
  <2>2. /\ v \in Seq(Ids) /\ r \in Seq(Ids) /\ Range(v) \union Range(r) = Reviewable
        /\ \A c \in Range(v) : "approve" \in Said(items, c)
    BY <1>2, LenientIs
  <2>3. Lenient(items, Reviewable) = [validated |-> v, rejected |-> r]
    BY DEF Lenient
  <2>4. Accept([validated |-> v, rejected |-> r])
    BY <2>1, <2>3
  <2> HIDE DEF v, r
  <2>5. /\ AnswerTypes' /\ ListInv' /\ node' \in {"return", "comply"} /\ Approved' = {}
        /\ lists'.validated = v
    BY <1>1, <2>2, <2>4, AcceptKeeps
  <2>6. ASSUME NEW c \in Range(v) PROVE Warranted(c)'
    <3>1. c \in Reviewable /\ batch[c].registry = "ALLOW" /\ "approve" \in Said(items, c)
      BY <2>2 DEF Reviewable
    <3>2. Fingerprint(c)' = Fingerprint(c) /\ Fingerprint(c).id = c
      BY <1>1 DEF Fingerprint
    <3>3. Fingerprint(c) \in DOMAIN heard' /\ heard'[Fingerprint(c)] = Said(items, c)
      BY <2>1, <3>1, <3>2 DEF Hear, Over
    <3>4. QED BY <1>1, <3>1, <3>2, <3>3 DEF Warranted
  <2>7. ReviewInv'
    BY <1>3, <2>5, <2>6, ReviewKeeps
  <2>8. QED BY <2>5, <2>7 DEF AnswerInv
<1>6. QED BY <1>4, <1>5 DEF ValidateBatch

\* A strict answer says one thing of each candidate.
LEMMA StrictIs ==
  ASSUME NEW known, NEW items \in Replies(known), Strict(items, known)
  PROVE  \A c \in known : "approve" \in Said(items, c) => Said(items, c) = {"approve"}
<1> TAKE c \in known
<1>1. HAVE "approve" \in Said(items, c)
<1>2. PICK i \in DOMAIN items : items[i].id = c /\ items[i].says = "approve"
  BY <1>1 DEF Said
<1>3. \A j \in DOMAIN items : items[j].id = c => j = i
  BY <1>2 DEF Strict
<1>4. QED BY <1>2, <1>3 DEF Said

\* The selective review passes the clear candidates and those whose verdict, kept or new, is
\* all that was said of them.
LEMMA OptimisedStep == AnswerInv /\ ValidateOptimised => AnswerInv'
<1> SUFFICES ASSUME AnswerInv, ValidateOptimised PROVE AnswerInv'
  OBVIOUS
<1>1. /\ node = "validate" /\ way = "optimised" /\ UNCHANGED <<way, batch, left, regime>>
  BY DEF ValidateOptimised, mode
<1>2. Reviewable \subseteq left /\ Reviewable \in SUBSET Ids
  BY DEF Reviewable, AnswerInv, AnswerTypes
<1>3. PICK alive \in SUBSET DOMAIN verdicts : \E misses \in Askable(alive) :
        \E items \in Replies(misses), failed \in BOOLEAN :
        LET ok == ~failed /\ misses # {} /\ Strict(items, misses)
        IN /\ verdicts' = IF ok THEN Over(Reviewed(items, misses), Unexpired(alive)) ELSE Unexpired(alive)
           /\ heard' = IF failed THEN heard ELSE Hear(items, misses)
           /\ asked' = asked \union {batch[c] : c \in misses}
  BY DEF ValidateOptimised
<1>4. PICK misses \in Askable(alive) : \E items \in Replies(misses), failed \in BOOLEAN :
        LET ok == ~failed /\ misses # {} /\ Strict(items, misses)
        IN /\ verdicts' = IF ok THEN Over(Reviewed(items, misses), Unexpired(alive)) ELSE Unexpired(alive)
           /\ heard' = IF failed THEN heard ELSE Hear(items, misses)
           /\ asked' = asked \union {batch[c] : c \in misses}
  BY <1>3
<1>5. PICK items \in Replies(misses), failed \in BOOLEAN, ok \in BOOLEAN :
        /\ ok => ~failed /\ Strict(items, misses)
        /\ verdicts' = IF ok THEN Over(Reviewed(items, misses), Unexpired(alive)) ELSE Unexpired(alive)
        /\ heard' = IF failed THEN heard ELSE Hear(items, misses)
        /\ asked' = asked \union {batch[c] : c \in misses}
  BY <1>4
<1>6. /\ Granted(verdicts') \subseteq Reviewable
      /\ misses \subseteq Reviewable
      /\ \A c \in misses : Fingerprint(c) \notin alive
  BY DEF Granted, Askable, kSubset, Misses, Selected, Cleared
<1>7. DOMAIN Unexpired(alive) = alive /\ \A f \in alive : Unexpired(alive)[f] = verdicts[f]
  BY DEF Unexpired, Restrict
<1>8. \A c : Fingerprint(c).id = c /\ Fingerprint(c)' = Fingerprint(c)
  BY <1>1 DEF Fingerprint
<1> DEFINE new == {Fingerprint(c) : c \in misses}
<1>9. \A f \in new : f \notin alive
  BY <1>6
<1>10. ASSUME NEW f \in DOMAIN verdicts'
      PROVE  f \in DOMAIN heard' /\ (verdicts'[f] => heard'[f] = {"approve"})
  <2>1. CASE ok /\ f \in new
    <3>1. PICK c \in misses : f = Fingerprint(c)
      BY <2>1
    <3>2. verdicts'[f] <=> "approve" \in Said(items, c)
      BY <1>5, <1>8, <2>1, <3>1 DEF Over, Reviewed
    <3>3. f \in DOMAIN heard' /\ heard'[f] = Said(items, c)
      BY <1>5, <1>8, <2>1, <3>1 DEF Over, Hear
    <3>4. QED BY <1>5, <2>1, <3>2, <3>3, StrictIs
  <2>2. CASE ~(ok /\ f \in new)
    <3>1. f \in alive /\ verdicts'[f] = verdicts[f]
      BY <1>5, <1>7, <2>2 DEF Over, Reviewed
    <3>2. f \notin new /\ f \in DOMAIN heard /\ (verdicts[f] => heard[f] = {"approve"})
      BY <1>9, <3>1 DEF AnswerInv, ReviewInv, VerdictInv
    <3>3. f \in DOMAIN heard' /\ heard'[f] = heard[f]
      BY <1>5, <3>2 DEF Over, Hear
    <3>4. QED BY <3>1, <3>2, <3>3
  <2>3. QED BY <2>1, <2>2
<1>11. VerdictInv'
  BY <1>1, <1>10 DEF VerdictInv
<1>12. \A k \in asked' : k.registry = "ALLOW"
  BY <1>5, <1>6 DEF AnswerInv, ReviewInv, Reviewable
<1> DEFINE v == Listed(Granted(verdicts'))
           r == Listed(Reviewable \ Granted(verdicts'))
<1>13. /\ v \in Seq(Ids) /\ Range(v) = Granted(verdicts') /\ IsInjective(v)
       /\ r \in Seq(Ids) /\ Range(r) = Reviewable \ Granted(verdicts') /\ IsInjective(r)
  BY <1>2, <1>6, SomeAreListed
<1>14. Accept([validated |-> v, rejected |-> r])
  BY DEF ValidateOptimised
<1> HIDE DEF v, r
<1>15. Range(v) \union Range(r) = Reviewable /\ Range(v) \intersect Range(r) = {}
  BY <1>6, <1>13
<1>16. /\ AnswerTypes' /\ ListInv' /\ node' \in {"return", "comply"} /\ Approved' = {}
       /\ lists'.validated = v
  BY <1>1, <1>13, <1>14, <1>15, AcceptKeeps
<1>17. ASSUME NEW c \in Granted(verdicts') PROVE Warranted(c)'
  <2>1. batch[c].registry = "ALLOW"
    BY <1>6 DEF Reviewable
  <2>2. batch[c].clear \/ (Fingerprint(c) \in DOMAIN verdicts' /\ verdicts'[Fingerprint(c)])
    BY DEF Granted, Cleared
  <2>3. batch[c].clear \/ (Fingerprint(c) \in DOMAIN heard' /\ heard'[Fingerprint(c)] = {"approve"})
    BY <1>10, <2>2
  <2>4. QED BY <1>1, <1>8, <2>1, <2>3 DEF Warranted
<1>18. ReviewInv'
  BY <1>11, <1>12, <1>13, <1>16, <1>17, ReviewKeeps
<1>19. QED BY <1>16, <1>18 DEF AnswerInv

\* The risk stage divides what was validated.
LEMMA ComplyStep == AnswerInv /\ Comply => AnswerInv'
<1> SUFFICES ASSUME AnswerInv, Comply PROVE AnswerInv'
  OBVIOUS
<1>1. /\ node = "comply" /\ node' = "return" /\ Present' = Present
      /\ UNCHANGED <<way, batch, left, verdicts, heard, asked, regime, errors>>
  BY DEF Comply, Present, mode, kept, testimony
<1>2. Untouched /\ Divided /\ lists \in Sorted /\ left \in SUBSET Present
  BY <1>1 DEF AnswerInv, ListInv, AnswerTypes
<1> DEFINE v == lists.validated
<1>3. PICK passed \in SUBSET DOMAIN v :
        lists' = [lists EXCEPT !.approved = Extract(v, passed), !.risk = Extract(v, DOMAIN v \ passed)]
  BY DEF Comply
<1> DEFINE yes == Extract(v, passed)
           no == Extract(v, DOMAIN v \ passed)
<1>4. v \in Seq(Ids)
  BY <1>2 DEF Sorted
<1>5. /\ yes \in Seq(Ids) /\ Range(yes) = {v[i] : i \in passed} /\ (IsInjective(v) => IsInjective(yes))
      /\ no \in Seq(Ids) /\ Range(no) = {v[i] : i \in DOMAIN v \ passed}
  <2> HIDE DEF v
  <2>1. DOMAIN v \ passed \in SUBSET DOMAIN v
    OBVIOUS
  <2>2. QED BY <1>4, <2>1, ExtractIs
<1>6. /\ lists'.validated = v /\ lists'.rejected = lists.rejected /\ lists'.approved = yes
      /\ lists'.dropped = lists.dropped /\ lists'.gate = lists.gate /\ lists'.risk = no
  BY <1>2, <1>3 DEF Sorted
<1>7. lists' \in Sorted
  BY <1>2, <1>3, <1>5 DEF Sorted
<1> HIDE DEF v, yes, no
<1>8. Range(yes) \union Range(no) = Range(v)
  BY <1>5 DEF Range
<1>9. IsInjective(v) => Range(yes) \intersect Range(no) = {}
  BY <1>5 DEF IsInjective
<1>10. AnswerTypes'
  BY <1>1, <1>7 DEF AnswerInv, AnswerTypes
<1>11. Accounted'
  <2>1. Approved' = Range(yes) /\ Screened' = Range(no) \union (Present \ left)
    BY <1>2, <1>6 DEF Approved, Screened, Untouched
  <2>2. Range(v) \union Range(lists.rejected) = left
    BY <1>2 DEF Divided, v
  <2>3. Present' = Approved' \union Range(lists'.rejected) \union Screened'
    BY <1>1, <1>2, <1>6, <1>8, <2>1, <2>2
  <2>4. ASSUME way' = "optimised"
        PROVE  /\ Approved' \intersect (Range(lists'.rejected) \union Screened') = {}
               /\ Range(lists'.rejected) \intersect Screened' = {}
               /\ IsInjective(lists'.approved) /\ IsInjective(lists'.rejected)
    <3>1. Range(v) \intersect Range(lists.rejected) = {} /\ IsInjective(v) /\ IsInjective(lists.rejected)
      BY <1>1, <1>2, <2>4 DEF Divided, v
    <3>2. QED BY <1>5, <1>6, <1>8, <1>9, <2>1, <2>2, <3>1
  <2>5. QED BY <2>3, <2>4 DEF Accounted
<1>12. ListInv'
  BY <1>1, <1>2, <1>6, <1>11 DEF ListInv, Undecided, Untouched
<1>13. \A c \in Range(yes) : Warranted(c)'
  BY <1>1, <1>8 DEF AnswerInv, ReviewInv, Warranted, Fingerprint, v
<1>14. ReviewInv'
  BY <1>1, <1>6, <1>13, Unaffected DEF AnswerInv, ReviewInv, Grounded, Approved
<1>15. QED BY <1>10, <1>12, <1>14 DEF AnswerInv

\* What the gate dropped is returned once more among the screened: nobody is lost by it.
LEMMA ReturnStep == AnswerInv /\ ReturnLists => AnswerInv'
<1> SUFFICES ASSUME AnswerInv, ReturnLists PROVE AnswerInv'
  OBVIOUS
<1>1. /\ node = "return" /\ node' = "end" /\ Present' = Present
      /\ UNCHANGED <<way, batch, left, verdicts, heard, asked, regime, errors, stopped>>
      /\ lists' = [lists EXCEPT !.risk = lists.gate \o @]
  BY DEF ReturnLists, Present, mode, kept, testimony
<1>2. Accounted /\ Grounded /\ lists \in Sorted /\ Range(lists.gate) \subseteq Range(lists.dropped)
  BY <1>1 DEF AnswerInv, ListInv, ReviewInv, AnswerTypes
<1> DEFINE all == lists.gate \o lists.risk
<1>3. lists.gate \in Seq(Ids) /\ lists.risk \in Seq(Ids)
  BY <1>2 DEF Sorted
<1>4. all \in Seq(Ids) /\ Range(all) = Range(lists.gate) \union Range(lists.risk)
  BY <1>3, JoinIs
<1>5. /\ lists'.validated = lists.validated /\ lists'.rejected = lists.rejected
      /\ lists'.approved = lists.approved /\ lists'.dropped = lists.dropped
      /\ lists'.gate = lists.gate /\ lists'.risk = all
  BY <1>1, <1>2 DEF Sorted
<1>6. lists' \in Sorted
  BY <1>1, <1>2, <1>4 DEF Sorted
<1> HIDE DEF all
<1>7. Screened' = Screened /\ Approved' = Approved
  BY <1>2, <1>4, <1>5 DEF Screened, Approved
<1>8. AnswerTypes'
  BY <1>1, <1>6 DEF AnswerInv, AnswerTypes
<1>9. ListInv'
  BY <1>1, <1>2, <1>5, <1>7 DEF ListInv, Undecided, Accounted
<1>10. ReviewInv'
  BY <1>1, <1>2, <1>7, Unaffected DEF AnswerInv, ReviewInv, Grounded, Warranted, Fingerprint
<1>11. QED BY <1>8, <1>9, <1>10 DEF AnswerInv

\* The next invocation keeps verdicts together with what they were made from.
LEMMA AgainStep == AnswerInv /\ Again => AnswerInv'
<1> SUFFICES ASSUME AnswerInv, Again PROVE AnswerInv'
  OBVIOUS
<1> USE NothingIs
<1>1. /\ node' = "enter" /\ lists' = NoLists /\ left' = Present' /\ left' \in SUBSET Ids
      /\ asked' = {} /\ UNCHANGED <<way, verdicts>>
      /\ heard' = Restrict(heard, DOMAIN heard \intersect DOMAIN verdicts)
  BY DEF Again, Present, mode
<1>2. AnswerTypes'
  BY <1>1 DEF AnswerInv, AnswerTypes
<1>3. ListInv'
  BY <1>1 DEF ListInv, Untouched, NoLists
<1>4. VerdictInv'
  BY <1>1 DEF AnswerInv, ReviewInv, VerdictInv, Restrict
<1>5. ReviewInv'
  BY <1>1, <1>4 DEF ReviewInv
<1>6. QED BY <1>2, <1>3, <1>5 DEF AnswerInv

\* However many candidates, strategies, items of an answer and invocations there are: an
\* approval has a warrant, nobody is lost, in the optimised review nobody is listed twice or
\* on two sides, and no reviewer is shown what may not trade.
THEOREM AnswersAreHeededHolds == ASpec => []AnswersAreHeeded
<1>1. AnswerInv /\ [ANext]_aVars => AnswerInv'
  <2> SUFFICES ASSUME AnswerInv, [ANext]_aVars PROVE AnswerInv'
    OBVIOUS
  <2>1. CASE UNCHANGED aVars
    BY <2>1 DEF aVars, mode, kept, testimony, AnswerInv, AnswerTypes, ListInv, ReviewInv, VerdictInv,
       Untouched, Divided, Accounted, Grounded, Warranted, Fingerprint, Approved, Screened, Present
  <2>2. QED BY <2>1, EnterStep, GateStep, SupportStep, RegimeStep, SelectStep, RulesStep, BatchStep,
               OptimisedStep, ComplyStep, ReturnStep, AgainStep DEF ANext
<1>2. AnswerInv => AnswersAreHeeded
  BY DEF AnswerInv, ListInv, ReviewInv, AnswersAreHeeded
<1>3. QED BY <1>1, <1>2, AnswerInit, PTL DEF ASpec
=============================================================================
