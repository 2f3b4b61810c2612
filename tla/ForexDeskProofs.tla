-------------------------- MODULE ForexDeskProofs --------------------------
(***************************************************************************)
(* What holds of the Forex worker for any pairs, timeframes, strategies    *)
(* and caps: its three tables agree whenever no pass is writing them, the  *)
(* book stays in its caps over both passes, and nothing is opened against  *)
(* the evidence, above a cap or a second time.                             *)
(*                                                                         *)
(* The invariant has one part per thing a pass takes for granted between   *)
(* two of its awaits: the rows of the decision it is writing (RowsInv), the*)
(* book it loaded (BookInv), that its candles are newer than what was      *)
(* decided (JournalInv) and the evidence it was judged on (EvidenceInv).   *)
(***************************************************************************)
EXTENDS ForexDesk, FiniteSetTheorems, WellFoundedInduction, TLAPS

Places == {"down", "scan", "load", "decide", "fill", "filled", "repeated", "manage"}
Writing == {"fill", "filled", "repeated"}
Passing == {"load", "decide"} \union Writing

Ids == [series : Series, candle : Nat, side : Sides, level : {"NONE", "HIGH", "LOW"},
        resolution : {"NO_CONFLICT", "OOS_PROFIT_FACTOR", "UNRESOLVED_BLOCK"}]
Rows == [stage : Stages, action : {"NONE", "SHADOW", "REJECT", "PAPER"}]

HorizonOf(s) == IF s[2] \in SwingFrames THEN "SWING" ELSE "SCALP"

WorkerTypes ==
    /\ DOMAIN worker = {"at", "horizon", "queue", "life", "book", "doing"}
    /\ worker.at \in Places
    /\ worker.horizon \in Horizons
    /\ worker.queue \subseteq Ids
    /\ worker.at \in Passing =>
           /\ worker.queue \subseteq DOMAIN worker.life
           /\ \A i \in worker.queue :
                  worker.life[i] \in Rows /\ worker.life[i].stage \in {"CANDIDATE", "REVIEWED"}

DeskTypes ==
    /\ used \in [FaultKinds -> Nat]
    /\ approved \subseteq Strategies
    /\ market \in [Series -> [candle : Nat, output : [Strategies -> Sides \union {"none"}]]]
    /\ last \in [Series -> Nat]
    /\ \A s \in Series : last[s] <= market[s].candle
    /\ DOMAIN decisions \subseteq Ids
    /\ \A i \in DOMAIN decisions : decisions[i] \in Rows
    /\ IsFiniteSet(DOMAIN positions)
    /\ \A i \in DOMAIN positions : positions[i] \in {"OPEN", "CLOSED"}
    /\ DOMAIN retained = Horizons
    /\ \A h \in Horizons : \A s \in DOMAIN retained[h] :
           s \in Frames(h) /\ retained[h][s].id \in Ids /\ retained[h][s].id.series = s
    /\ DOMAIN seen \subseteq Series
    /\ WorkerTypes

\* The rows of one decision, in the order in which a pass writes them.
RowsInv ==
    /\ DOMAIN positions \subseteq DOMAIN decisions
    /\ \A i \in DOMAIN positions : <<"entry", i>> \in orders
    /\ \A o \in orders : o[1] = "entry" => o[2] \in DOMAIN positions
    /\ worker.at \in Writing => /\ worker.doing \in worker.queue
                                /\ worker.doing \in DOMAIN decisions
                                /\ worker.life[worker.doing].stage = "REVIEWED"
    /\ worker.at = "fill" => decisions[worker.doing] = Record("FINAL", "PAPER")
    /\ worker.at = "filled" => worker.doing \in Open
    /\ worker.at = "manage" => worker.queue \subseteq Open

\* The book a pass loaded is the table, except for what it has just filled.
BookInv ==
    Never({"load"}) =>
        /\ worker.at \in {"decide", "fill", "repeated"} => worker.book = Open
        /\ worker.at = "filled" => Open = worker.book \union {worker.doing}
        /\ worker.at = "fill" => ~Blocked(worker.doing, worker.book, worker.horizon)

\* What became of the position of one decision.
RowTrue(i) ==
    /\ decisions[i].stage = "OPEN" <=> i \in Open
    /\ decisions[i].stage = "CLOSED" <=> i \in DOMAIN positions \ Open
    /\ i \in DOMAIN positions => decisions[i].action = "PAPER"

\* In one life of the process a candle is decided once.
JournalHolds ==
    /\ worker.at = "down" => DOMAIN decisions = {} /\ DOMAIN seen = {}
    /\ worker.at # "down" => \A i \in DOMAIN decisions : i.candle <= last[i.series]
    /\ worker.at \in Passing =>
           \A i \in worker.queue :
               /\ i.candle <= last[i.series]
               /\ i \in DOMAIN decisions => worker.at \in Writing /\ i = worker.doing
    /\ worker.at = "fill" => worker.doing \notin DOMAIN positions
    /\ worker.at # "repeated"
    /\ \A i \in DOMAIN decisions : (worker.at \in Writing /\ i = worker.doing) \/ RowTrue(i)
JournalInv == Never({"crash"}) => JournalHolds

\* The evidence of a series: still retained, or to be fetched again.
Kept(s) == s \in DOMAIN retained[HorizonOf(s)] /\ retained[HorizonOf(s)][s].id = seen[s]
Agreed(i) == \A s \in DOMAIN seen :
    s[1] = i.series[1] /\ HorizonOf(s) = HorizonOf(i.series) => seen[s].side = i.side
EvidenceInv ==
    Never({"crash"}) \/ Never({"fetch"}) =>
        /\ \A s \in DOMAIN seen :
               market[s].candle > 0 /\ (Kept(s) \/ (last[s] = 0 /\ ~Never({"crash"})))
        /\ worker.at \in Passing =>
               \A i \in worker.queue : worker.life[i].stage = "REVIEWED" => Agreed(i)

DeskInv == DeskTypes /\ RowsInv /\ BookInv /\ BookInCaps /\ JournalInv /\ EvidenceInv

-----------------------------------------------------------------------------
(* Tables, faults and the strongest strategy.                              *)

\* Faults are counted, and only upwards.
LEMMA FaultCounts ==
    ASSUME used \in [FaultKinds -> Nat], NEW kinds, Fault(kinds)
    PROVE  /\ used' \in [FaultKinds -> Nat]
           /\ \A kind \in FaultKinds : used[kind] <= used'[kind]
           /\ \A kind \in FaultKinds : kind \in kinds => used'[kind] > 0
  BY DEF Fault

\* The environment only gets worse.
LEMMA UsedStep ==
    ASSUME used \in [FaultKinds -> Nat], [Next]_vars
    PROVE  /\ used' \in [FaultKinds -> Nat]
           /\ \A kind \in FaultKinds : used[kind] <= used'[kind]
  <1>1. CASE UNCHANGED used
    BY <1>1
  <1>2. CASE \E kinds : Fault(kinds)
    BY <1>2, FaultCounts
  <1>3. UNCHANGED used \/ \E kinds : Fault(kinds)
    <2>1. CASE Boot \/ Fill \/ Confirm \/ Publish \/ UNCHANGED vars
      BY <2>1 DEF Boot, Fill, Confirm, Publish, vars
    <2>2. CASE Scan
      BY <2>2 DEF Scan
    <2>3. CASE Load
      BY <2>3 DEF Load, Ask
    <2>4. CASE EndPass
      BY <2>4 DEF EndPass, Ask
    <2>5. ASSUME NEW i \in worker.queue, Decide(i) \/ Manage(i) PROVE UNCHANGED used
      BY <2>5 DEF Decide, Manage
    <2>6. CASE Crash
      BY <2>6 DEF Crash
    <2>7. ASSUME NEW s \in Series, Settle(s) PROVE UNCHANGED used
      BY <2>7 DEF Settle
    <2>8. ASSUME NEW g \in Strategies, Review(g) PROVE \E kinds : Fault(kinds)
      BY <2>8 DEF Review
    <2> QED BY <2>1, <2>2, <2>3, <2>4, <2>5, <2>6, <2>7, <2>8 DEF Next, Work
  <1> QED BY <1>1, <1>2, <1>3

\* What has never happened after a step had never happened before it.
LEMMA NeverBefore ==
    ASSUME used \in [FaultKinds -> Nat], [Next]_vars
    PROVE  /\ Never({"crash"})' => Never({"crash"})
           /\ Never({"fetch"})' => Never({"fetch"})
           /\ Never({"load"})' => Never({"load"})
  BY UsedStep DEF Never, FaultKinds

\* max() over the strategies of a candle finds one of them.
LEMMA StrongestIn ==
    ASSUME NEW group \in SUBSET Strategies, group # {}
    PROVE  Strongest(group) \in group
  <1> DEFINE Best(G) == \E g \in G : \A h \in G : Factor[g] >= Factor[h]
             Bad == {G \in SUBSET Strategies : G # {} /\ ~Best(G)}
  <1>1. IsFiniteSet(Strategies) /\ Factor \in [Strategies -> Nat]
    BY DeskAssumption
  <1>2. IsWellFoundedOn(StrictSubsetOrdering(Strategies), SUBSET Strategies)
    BY <1>1, FS_StrictSubsetOrderingWellFounded, FS_FiniteSubsetsOfFinite
  <1>3. Bad = {}
    <2> SUFFICES ASSUME Bad # {} PROVE FALSE
      OBVIOUS
    <2>0. Bad \subseteq SUBSET Strategies
      OBVIOUS
    <2>1. PICK G \in Bad : \A H \in Bad : <<H, G>> \notin StrictSubsetOrdering(Strategies)
      <3> HIDE DEF Bad
      <3> QED BY <1>2, <2>0, WFMin
    <2>2. PICK g \in G : TRUE
      OBVIOUS
    <2>3. G \ {g} \notin Bad
      BY <2>1, <2>2 DEF StrictSubsetOrdering
    <2>4. CASE G \ {g} = {}
      <3>1. \A h \in G : h = g
        BY <2>4
      <3>2. Factor[g] \in Nat
        BY <1>1
      <3> QED BY <3>1, <3>2
    <2>5. CASE G \ {g} # {}
      <3>1. PICK h \in G \ {g} : \A j \in G \ {g} : Factor[h] >= Factor[j]
        BY <2>3, <2>5
      <3>2. \A j \in G : Factor[j] \in Nat
        BY <1>1
      <3>3. Factor[g] >= Factor[h] => \A j \in G : Factor[g] >= Factor[j]
        BY <3>1, <3>2
      <3>4. Factor[h] >= Factor[g] => \A j \in G : Factor[h] >= Factor[j]
        BY <3>1, <3>2
      <3> QED BY <3>1, <3>2, <3>3, <3>4
    <2> QED BY <2>4, <2>5
  <1>4. Best(group)
    BY <1>3
  <1> QED BY <1>4 DEF Strongest

\* A candidate is named after its series and its candle and has a side.
LEMMA CandidateIs ==
    ASSUME DeskTypes, NEW s \in Series, Voices(market[s].output) # {}
    PROVE  /\ Candidate(s).id \in Ids
           /\ Candidate(s).id.series = s
           /\ Candidate(s).id.candle = market[s].candle
  <1> DEFINE output == market[s].output
  <1>1. /\ output \in [Strategies -> Sides \union {"none"}]
        /\ market[s].candle \in Nat
    BY DEF DeskTypes
  <1>2. Voices(output) \subseteq Strategies /\ Validated(output) \subseteq Voices(output)
    BY DEF Voices, Validated
  <1>3. Anchor(output) \in Voices(output)
    BY <1>2, StrongestIn DEF Anchor
  <1>4. output[Anchor(output)] \in Sides
    BY <1>1, <1>3 DEF Voices
  <1>5. Level(output) \in {"NONE", "HIGH", "LOW"}
    BY DEF Level
  <1>6. Resolution(output) \in {"NO_CONFLICT", "OOS_PROFIT_FACTOR", "UNRESOLVED_BLOCK"}
    BY DEF Resolution
  <1>7. Candidate(s).id = Identity(s, output, market[s].candle)
    BY DEF Candidate
  <1> HIDE DEF output
  <1> QED BY <1>1, <1>4, <1>5, <1>6, <1>7 DEF Identity, Ids

-----------------------------------------------------------------------------
(* The scan of one pass.                                                   *)

\* update_candidate_state: what a cycle retains after the candles of a pass.
LEMMA RetainIs ==
    ASSUME DeskTypes, NEW h \in Horizons, NEW fresh \in SUBSET Frames(h),
           NEW s \in DOMAIN Retain(retained[h], fresh)
    PROVE  /\ s \in Frames(h)
           /\ Retain(retained[h], fresh)[s].id \in Ids
           /\ Retain(retained[h], fresh)[s].id.series = s
           /\ s \in fresh => Retain(retained[h], fresh)[s].id.candle = market[s].candle
           /\ s \notin fresh => /\ s \in DOMAIN retained[h]
                               /\ Retain(retained[h], fresh)[s] = retained[h][s]
  <1>1. Frames(h) \subseteq Series
    BY DEF Frames
  <1>2. CASE s \in fresh
    <2>1. s \in Series /\ Voices(market[s].output) # {} /\ Retain(retained[h], fresh)[s] = Candidate(s)
      BY <1>1, <1>2 DEF Retain
    <2> QED BY <1>2, <2>1, CandidateIs
  <1>3. CASE s \notin fresh
    <2>1. s \in DOMAIN retained[h] /\ Retain(retained[h], fresh)[s] = retained[h][s]
      BY <1>3 DEF Retain
    <2>2. s \in Frames(h) /\ retained[h][s].id \in Ids /\ retained[h][s].id.series = s
      BY <2>1 DEF DeskTypes
    <2> QED BY <1>3, <2>1, <2>2
  <1> QED BY <1>2, <1>3

\* What a scan queues for review and what it remembers.
ScanOf(fresh, context) ==
    /\ fresh \subseteq Frames(worker.horizon)
    /\ \A s \in fresh : market[s].candle > 0 /\ last[s] < market[s].candle
    /\ Never({"fetch"})' => \A s \in Frames(worker.horizon) :
           market[s].candle > 0 /\ last[s] # market[s].candle => s \in fresh
    /\ context = Retain(retained[worker.horizon], fresh)
    /\ retained' = [retained EXCEPT ![worker.horizon] = context]
    /\ last' = [s \in Series |-> IF s \in fresh THEN market[s].candle ELSE last[s]]
    /\ seen' = [s \in (DOMAIN seen \ fresh) \union (fresh \intersect DOMAIN context) |->
                   IF s \in fresh THEN context[s].id ELSE seen[s]]
    /\ worker'.at = "load" /\ worker'.horizon = worker.horizon
    /\ DOMAIN worker' = DOMAIN worker
    /\ worker'.queue \subseteq DOMAIN worker'.life
    /\ \A i \in worker'.queue :
           /\ i.series \in fresh \intersect DOMAIN context
           /\ i = context[i.series].id
           /\ worker'.life[i] \in Rows
           /\ worker'.life[i].stage \in {"CANDIDATE", "REVIEWED"}
           /\ worker'.life[i].stage = "REVIEWED" => ~Opposed(i.series[1], context)

\* A scan is the work of one reading of the market and one context.
LEMMA ScanGives ==
    ASSUME DeskTypes, Scan
    PROVE  \E fresh, context : ScanOf(fresh, context)
  <1> DEFINE reached(missing) == Fetched(missing)
             after(missing) == Retain(retained[worker.horizon], Fetched(missing))
             found(missing) == {after(missing)[s] : s \in reached(missing) \intersect DOMAIN after(missing)}
             names(missing) == {c.id : c \in found(missing)}
  <1>1. PICK missing \in SUBSET Frames(worker.horizon) :
           /\ Cardinality(missing) <= 1
           /\ Fault(IF missing = {} THEN {} ELSE {"fetch"})
           /\ \E passed \in SUBSET {c.id : c \in {d \in found(missing) : ~Refused(d, after(missing))}} :
                 worker' = [worker EXCEPT
                    !.at = "load",
                    !.queue = names(missing),
                    !.life = [i \in names(missing) |->
                        Verdict(CHOOSE c \in found(missing) : c.id = i, after(missing), passed)]]
           /\ last' = [s \in Series |-> IF s \in reached(missing) THEN market[s].candle ELSE last[s]]
           /\ retained' = [retained EXCEPT ![worker.horizon] = after(missing)]
           /\ seen' = [s \in (DOMAIN seen \ reached(missing))
                             \union (reached(missing) \intersect DOMAIN after(missing)) |->
                          IF s \in reached(missing) THEN after(missing)[s].id ELSE seen[s]]
    BY DEF Scan
  <1>2. PICK passed :
           worker' = [worker EXCEPT
                    !.at = "load",
                    !.queue = names(missing),
                    !.life = [i \in names(missing) |->
                        Verdict(CHOOSE c \in found(missing) : c.id = i, after(missing), passed)]]
    BY <1>1
  <1> DEFINE F == reached(missing)
             C == after(missing)
             D == found(missing)
             N == names(missing)
             L == [i \in N |-> Verdict(CHOOSE c \in D : c.id = i, C, passed)]
  <1>3. F \in SUBSET Frames(worker.horizon) /\ Frames(worker.horizon) \subseteq Series
    BY DEF Fetched, Frames
  <1>4. worker.horizon \in Horizons
    BY DEF DeskTypes, WorkerTypes
  <1>5. \A s \in F : market[s].candle > 0 /\ last[s] < market[s].candle
    <2>1. \A s \in Series : last[s] \in Nat /\ market[s].candle \in Nat /\ last[s] <= market[s].candle
      BY DEF DeskTypes
    <2> QED BY <2>1, <1>3 DEF Fetched, Stale
  <1>6. Never({"fetch"})' => \A s \in Frames(worker.horizon) :
           market[s].candle > 0 /\ last[s] # market[s].candle => s \in F
    <2>1. Never({"fetch"})' => missing = {}
      <3> SUFFICES ASSUME missing # {} PROVE used'["fetch"] > 0
        BY DEF Never
      <3>1. Fault({"fetch"}) /\ used \in [FaultKinds -> Nat]
        BY <1>1 DEF DeskTypes
      <3> QED BY <3>1, FaultCounts DEF FaultKinds
    <2> QED BY <2>1 DEF Fetched, Stale
  <1>7. \A s \in DOMAIN C : s \in Frames(worker.horizon) /\ C[s].id \in Ids /\ C[s].id.series = s
    <2> SUFFICES ASSUME NEW s \in DOMAIN C
                 PROVE  s \in Frames(worker.horizon) /\ C[s].id \in Ids /\ C[s].id.series = s
      OBVIOUS
    <2>1. C = Retain(retained[worker.horizon], F)
      OBVIOUS
    <2> HIDE DEF C, F
    <2> QED BY <1>3, <1>4, <2>1, RetainIs
  <1>8. worker' = [worker EXCEPT !.at = "load", !.queue = N, !.life = L]
    BY <1>2
  <1> HIDE DEF F, C, N, L
  <1>9. /\ DOMAIN worker' = DOMAIN worker
        /\ worker'.at = "load" /\ worker'.horizon = worker.horizon
        /\ worker'.queue = N /\ worker'.life = L
    BY <1>8 DEF DeskTypes, WorkerTypes
  <1>10. ASSUME NEW i \in N
         PROVE  /\ i.series \in F \intersect DOMAIN C
                /\ i = C[i.series].id
                /\ L[i] \in Rows
                /\ L[i].stage \in {"CANDIDATE", "REVIEWED"}
                /\ L[i].stage = "REVIEWED" => ~Opposed(i.series[1], C)
    <2>1. PICK s \in F \intersect DOMAIN C : i = C[s].id
      BY DEF N, F, C
    <2>2. i.series = s
      BY <2>1, <1>7
    <2> DEFINE c == CHOOSE d \in D : d.id = i
    <2>3. c.id = i
      <3>1. C[s] \in D /\ C[s].id = i
        BY <2>1 DEF F, C
      <3> HIDE DEF D
      <3> QED BY <3>1
    <2>4. L[i] = Verdict(c, C, passed)
      BY DEF L
    <2> HIDE DEF c
    <2>5. /\ Verdict(c, C, passed) \in Rows
          /\ Verdict(c, C, passed).stage \in {"CANDIDATE", "REVIEWED"}
          /\ Verdict(c, C, passed).stage = "REVIEWED" => ~Refused(c, C)
      BY DEF Verdict, Record, Rows, Stages
    <2>6. ~Refused(c, C) => ~Opposed(i.series[1], C)
      BY <2>3 DEF Refused
    <2> QED BY <2>1, <2>2, <2>4, <2>5, <2>6
  <1>11. ScanOf(F, C)
    <2>1. C = Retain(retained[worker.horizon], F)
      BY DEF C, F
    <2>2. /\ last' = [s \in Series |-> IF s \in F THEN market[s].candle ELSE last[s]]
          /\ retained' = [retained EXCEPT ![worker.horizon] = C]
          /\ seen' = [s \in (DOMAIN seen \ F) \union (F \intersect DOMAIN C) |->
                          IF s \in F THEN C[s].id ELSE seen[s]]
      BY <1>1 DEF C, F
    <2>3. N \subseteq DOMAIN L
      BY DEF L
    <2> QED BY <1>3, <1>5, <1>6, <1>9, <1>10, <2>1, <2>2, <2>3 DEF ScanOf
  <1> QED BY <1>11

-----------------------------------------------------------------------------
(* Types.                                                                  *)

\* The part of the types that is about the tables.
TableTypes ==
    /\ DOMAIN decisions \subseteq Ids
    /\ \A i \in DOMAIN decisions : decisions[i] \in Rows
    /\ IsFiniteSet(DOMAIN positions)
    /\ \A i \in DOMAIN positions : positions[i] \in {"OPEN", "CLOSED"}

\* ... and about the market and what a cycle remembers of it.
MemoryTypes ==
    /\ market \in [Series -> [candle : Nat, output : [Strategies -> Sides \union {"none"}]]]
    /\ last \in [Series -> Nat]
    /\ \A s \in Series : last[s] <= market[s].candle
    /\ DOMAIN retained = Horizons
    /\ \A h \in Horizons : \A s \in DOMAIN retained[h] :
           s \in Frames(h) /\ retained[h][s].id \in Ids /\ retained[h][s].id.series = s
    /\ DOMAIN seen \subseteq Series

\* The tables keep their types.
LEMMA TableTypesStep ==
    ASSUME DeskTypes, RowsInv, [Next]_vars
    PROVE  TableTypes'
  <1>1. TableTypes
    BY DEF DeskTypes, TableTypes
  <1>2. CASE UNCHANGED <<decisions, positions>>
    BY <1>1, <1>2 DEF TableTypes
  <1>3. ASSUME NEW i \in Ids, NEW row \in Rows, Persist(i, row), UNCHANGED positions
        PROVE  TableTypes'
    <2>1. DOMAIN decisions' = DOMAIN decisions \union {i}
      BY <1>3 DEF Persist, Put
    <2>2. \A j \in DOMAIN decisions' : decisions'[j] = row \/ (j \in DOMAIN decisions /\ decisions'[j] = decisions[j])
      BY <1>3 DEF Persist, Put
    <2> QED BY <1>1, <1>3, <2>1, <2>2 DEF TableTypes
  <1>4. CASE Boot \/ Scan \/ Load \/ EndPass \/ Publish \/ Crash \/ UNCHANGED vars
    <2>1. UNCHANGED <<decisions, positions>>
      BY <1>4 DEF Boot, Scan, Load, EndPass, Publish, Crash, vars, tables
    <2> QED BY <2>1, <1>2
  <1>5. CASE Fill
    <2>1. UNCHANGED decisions /\ worker.doing \in Ids
      BY <1>5 DEF Fill, RowsInv, Writing, DeskTypes, WorkerTypes
    <2>2. \/ UNCHANGED positions
          \/ positions' = Put(positions, worker.doing, "OPEN")
      BY <1>5 DEF Fill
    <2>3. IsFiniteSet(DOMAIN positions \union {worker.doing})
      BY <1>1, FS_AddElement DEF TableTypes
    <2>4. CASE positions' = Put(positions, worker.doing, "OPEN")
      <3>1. DOMAIN positions' = DOMAIN positions \union {worker.doing}
        BY <2>4 DEF Put
      <3>2. \A i \in DOMAIN positions' :
                positions'[i] = "OPEN" \/ (i \in DOMAIN positions /\ positions'[i] = positions[i])
        BY <2>4 DEF Put
      <3> QED BY <1>1, <2>1, <2>3, <3>1, <3>2 DEF TableTypes
    <2> QED BY <2>1, <2>2, <2>4, <1>2
  <1>6. CASE Confirm
    <2>1. worker.doing \in Ids
      BY <1>6 DEF Confirm, RowsInv, Writing, DeskTypes, WorkerTypes
    <2>2. UNCHANGED positions /\ \E row \in Rows : Persist(worker.doing, row)
      BY <1>6 DEF Confirm, Record, Rows, Stages
    <2> QED BY <2>1, <2>2, <1>3
  <1>7. ASSUME NEW i \in worker.queue, Decide(i)
        PROVE  TableTypes'
    <2>1. i \in Ids /\ UNCHANGED positions /\ worker.life[i] \in Rows
      BY <1>7 DEF Decide, DeskTypes, WorkerTypes, Passing
    <2>2. UNCHANGED decisions \/ \E row \in Rows : Persist(i, row)
      BY <1>7, <2>1 DEF Decide, Accept, Record, Rows, Stages
    <2> QED BY <2>1, <2>2, <1>2, <1>3
  <1>8. ASSUME NEW i \in worker.queue, Manage(i)
        PROVE  TableTypes'
    <2>1. CASE UNCHANGED tables
      BY <2>1, <1>2 DEF tables
    <2>2. CASE Close(i) /\ i \in DOMAIN decisions
      <3>1. DOMAIN decisions' = DOMAIN decisions /\ DOMAIN positions' = DOMAIN positions
        BY <2>2 DEF Close
      <3>2. \A j \in DOMAIN positions' : positions'[j] \in {"OPEN", "CLOSED"}
        BY <2>2, <1>1 DEF Close, TableTypes
      <3>3. \A j \in DOMAIN decisions' : decisions'[j] \in Rows
        BY <2>2, <1>1 DEF Close, TableTypes, Rows, Stages
      <3> QED BY <1>1, <3>1, <3>2, <3>3 DEF TableTypes
    <2> QED BY <1>8, <2>1, <2>2 DEF Manage
  <1>9. ASSUME NEW s \in Series, Settle(s) PROVE TableTypes'
    BY <1>2, <1>9 DEF Settle, tables
  <1>10. ASSUME NEW g \in Strategies, Review(g) PROVE TableTypes'
    BY <1>2, <1>10 DEF Review, tables
  <1> QED BY <1>4, <1>5, <1>6, <1>7, <1>8, <1>9, <1>10 DEF Next, Work

\* The primed facts about memory that a scan gives.
LEMMA ScanMemory ==
    ASSUME DeskTypes, NEW fresh, NEW context, ScanOf(fresh, context), UNCHANGED market
    PROVE  MemoryTypes'
  <1> DEFINE h == worker.horizon
  <1>1. h \in Horizons
    BY DEF DeskTypes, WorkerTypes
  <1>2. Frames(h) \subseteq Series /\ fresh \in SUBSET Frames(h)
    BY DEF Frames, ScanOf
  <1>3. \A s \in Series : market[s].candle \in Nat /\ last[s] \in Nat /\ last[s] <= market[s].candle
    BY DEF DeskTypes
  <1>4. last' \in [Series -> Nat] /\ \A s \in Series : last'[s] <= market'[s].candle
    BY <1>3 DEF ScanOf
  <1>5. DOMAIN retained' = Horizons /\ retained'[h] = context
        /\ \A k \in Horizons : k # h => retained'[k] = retained[k]
    BY <1>1 DEF ScanOf, DeskTypes
  <1>6. ASSUME NEW k \in Horizons, NEW s \in DOMAIN retained'[k]
        PROVE  s \in Frames(k) /\ retained'[k][s].id \in Ids /\ retained'[k][s].id.series = s
    <2>1. CASE k = h
      <3>1. context = Retain(retained[h], fresh)
        BY DEF ScanOf
      <3>2. s \in DOMAIN Retain(retained[h], fresh)
        BY <2>1, <1>5, <3>1, <1>6
      <3> QED BY <2>1, <1>1, <1>2, <1>5, <3>1, <3>2, RetainIs
    <2>2. CASE k # h
      BY <2>2, <1>5 DEF DeskTypes
    <2> QED BY <2>1, <2>2
  <1>7. DOMAIN seen' \subseteq Series
    BY <1>2 DEF ScanOf, DeskTypes
  <1>8. market' \in [Series -> [candle : Nat, output : [Strategies -> Sides \union {"none"}]]]
    BY DEF DeskTypes
  <1>9. \A k \in Horizons : \A s \in DOMAIN retained'[k] :
           s \in Frames(k) /\ retained'[k][s].id \in Ids /\ retained'[k][s].id.series = s
    BY <1>6
  <1> QED BY <1>4, <1>5, <1>7, <1>8, <1>9 DEF MemoryTypes

\* So does the process's memory.
LEMMA MemoryTypesStep ==
    ASSUME DeskTypes, [Next]_vars
    PROVE  MemoryTypes'
  <1>1. MemoryTypes
    BY DEF DeskTypes, MemoryTypes
  <1>2. CASE UNCHANGED <<market, last, retained, seen>>
    BY <1>1, <1>2 DEF MemoryTypes
  <1>3. CASE Scan
    <2>1. PICK fresh, context : ScanOf(fresh, context)
      BY <1>3, ScanGives
    <2>2. UNCHANGED market
      BY <1>3 DEF Scan, environment
    <2> QED BY <2>1, <2>2, ScanMemory
  <1>4. CASE Boot
    <2>1. /\ UNCHANGED <<market, seen>>
          /\ last' = [s \in Series |-> 0]
          /\ retained' = [h \in Horizons |-> <<>>]
      BY <1>4 DEF Boot, environment
    <2>2. \A h \in Horizons : DOMAIN retained'[h] = {}
      BY <2>1
    <2>3. \A s \in Series : market[s].candle \in Nat
      BY <1>1 DEF MemoryTypes
    <2> QED BY <1>1, <2>1, <2>2, <2>3 DEF MemoryTypes
  <1>5. ASSUME NEW s \in Series, Settle(s) PROVE MemoryTypes'
    <2>1. PICK output \in Outputs :
              market' = [market EXCEPT ![s] = [candle |-> @.candle + 1, output |-> output]]
      BY <1>5 DEF Settle
    <2>2. output \in [Strategies -> Sides \union {"none"}]
      BY DeskAssumption
    <2>3. \A r \in Series : market[r].candle \in Nat /\ last[r] \in Nat /\ last[r] <= market[r].candle
      BY <1>1 DEF MemoryTypes
    <2>4. market' \in [Series -> [candle : Nat, output : [Strategies -> Sides \union {"none"}]]]
      BY <1>1, <2>1, <2>2, <2>3 DEF MemoryTypes
    <2>5. \A r \in Series : last[r] <= market'[r].candle
      <3>1. market'[s].candle = market[s].candle + 1
        BY <1>1, <2>1 DEF MemoryTypes
      <3>2. \A r \in Series : r # s => market'[r] = market[r]
        BY <1>1, <2>1 DEF MemoryTypes
      <3> QED BY <2>3, <3>1, <3>2
    <2>6. UNCHANGED <<last, retained, seen>>
      BY <1>5 DEF Settle, memory
    <2> QED BY <1>1, <2>4, <2>5, <2>6 DEF MemoryTypes
  <1>6. ASSUME NEW i \in worker.queue, Decide(i) \/ Manage(i) PROVE MemoryTypes'
    BY <1>2, <1>6 DEF Decide, Manage, environment, memory
  <1>7. CASE Load \/ Fill \/ Confirm \/ EndPass \/ Publish \/ Crash \/ UNCHANGED vars
    BY <1>2, <1>7 DEF Load, Fill, Confirm, EndPass, Publish, Crash, vars, environment, memory
  <1>8. ASSUME NEW g \in Strategies, Review(g) PROVE MemoryTypes'
    BY <1>2, <1>8 DEF Review, memory
  <1> QED BY <1>3, <1>4, <1>5, <1>6, <1>7, <1>8 DEF Next, Work

\* The fields of a worker between two passes.
LEMMA IdleIs ==
    /\ DOMAIN Idle = {"at", "horizon", "queue", "life", "book", "doing"}
    /\ Idle.at = "scan" /\ Idle.horizon = "SWING" /\ Idle.queue = {} /\ Idle.book = {}
  BY DEF Idle

\* A pass goes on with the candidates it has not decided.
LEMMA PassGoesOn ==
    ASSUME WorkerTypes, worker.at \in Passing, DOMAIN worker' = DOMAIN worker,
           worker'.at \in Passing, worker'.horizon = worker.horizon,
           worker'.queue \subseteq worker.queue, worker'.life = worker.life
    PROVE  WorkerTypes'
  BY DEF WorkerTypes, Passing, Writing, Places

\* So does the worker.
LEMMA WorkerTypesStep ==
    ASSUME DeskTypes, RowsInv, [Next]_vars
    PROVE  WorkerTypes'
  <1>1. WorkerTypes /\ Open \subseteq Ids
    BY DEF DeskTypes, RowsInv, Open
  <1>2. CASE UNCHANGED worker
    BY <1>1, <1>2 DEF WorkerTypes
  <1>3. CASE Boot \/ Publish \/ Crash
    <2>1. worker' = Idle \/ worker' = [Idle EXCEPT !.at = "down"]
      BY <1>3 DEF Boot, Publish, Crash
    <2>2. /\ DOMAIN worker' = {"at", "horizon", "queue", "life", "book", "doing"}
          /\ worker'.at \in {"scan", "down"} /\ worker'.horizon = "SWING" /\ worker'.queue = {}
      BY <2>1, IdleIs
    <2> QED BY <2>2 DEF WorkerTypes, Passing, Writing, Places, Horizons
  <1>4. CASE Scan
    <2>1. PICK fresh, context : ScanOf(fresh, context)
      BY <1>4, ScanGives
    <2>2. worker.horizon \in Horizons /\ Frames(worker.horizon) \subseteq Series
      BY <1>1 DEF WorkerTypes, Frames
    <2>3. ASSUME NEW i \in worker'.queue PROVE i \in Ids
      <3>1. context = Retain(retained[worker.horizon], fresh) /\ fresh \in SUBSET Frames(worker.horizon)
        BY <2>1 DEF ScanOf
      <3>2. i.series \in DOMAIN Retain(retained[worker.horizon], fresh) /\ i = context[i.series].id
        BY <2>1, <3>1 DEF ScanOf
      <3>3. Retain(retained[worker.horizon], fresh)[i.series].id \in Ids
        BY <2>2, <3>1, <3>2, RetainIs
      <3> QED BY <3>1, <3>2, <3>3
    <2> QED BY <1>1, <2>1, <2>3 DEF WorkerTypes, ScanOf, Passing, Writing, Places
  <1>5. CASE Load
    <2>1. \/ worker' = [worker EXCEPT !.at = "decide", !.book = Open]
          \/ worker' = [worker EXCEPT !.at = "decide"]
      BY <1>5 DEF Load
    <2>2. worker.at = "load" BY <1>5 DEF Load
    <2>3. /\ DOMAIN worker' = DOMAIN worker /\ worker'.at = "decide"
          /\ worker'.horizon = worker.horizon
          /\ worker'.queue = worker.queue /\ worker'.life = worker.life
      BY <1>1, <2>1 DEF WorkerTypes
    <2> QED BY <1>1, <2>2, <2>3, PassGoesOn DEF Passing, Writing
  <1>6. CASE Fill
    <2>1. worker' = [worker EXCEPT !.at = "filled"] \/ worker' = [worker EXCEPT !.at = "repeated"]
      BY <1>6 DEF Fill
    <2>2. worker.at = "fill" BY <1>6 DEF Fill
    <2>3. /\ DOMAIN worker' = DOMAIN worker /\ worker'.at \in {"filled", "repeated"}
          /\ worker'.horizon = worker.horizon
          /\ worker'.queue = worker.queue /\ worker'.life = worker.life
      BY <1>1, <2>1 DEF WorkerTypes
    <2> QED BY <1>1, <2>2, <2>3, PassGoesOn DEF Passing, Writing
  <1>7. CASE Confirm
    <2>2. worker.at \in Writing BY <1>7 DEF Confirm, Writing
    <2>3. /\ DOMAIN worker' = DOMAIN worker /\ worker'.at = "decide"
          /\ worker'.horizon = worker.horizon
          /\ worker'.queue \subseteq worker.queue /\ worker'.life = worker.life
      BY <1>1, <1>7 DEF WorkerTypes, Confirm
    <2> QED BY <1>1, <2>2, <2>3, PassGoesOn DEF Passing
  <1>8. CASE EndPass
    <2>1. \/ worker' = [Idle EXCEPT !.horizon = "SCALP"]
          \/ worker' = [Idle EXCEPT !.at = "manage", !.queue = Open]
      BY <1>8 DEF EndPass
    <2>2. /\ DOMAIN worker' = {"at", "horizon", "queue", "life", "book", "doing"}
          /\ worker'.at \in {"scan", "manage"} /\ worker'.horizon \in Horizons
          /\ worker'.queue \in {{}, Open}
      BY <2>1, IdleIs DEF Horizons
    <2> QED BY <1>1, <2>2 DEF WorkerTypes, Passing, Writing, Places
  <1>9. ASSUME NEW i \in worker.queue, Decide(i) PROVE WorkerTypes'
    <2>1. \/ worker' = [worker EXCEPT !.queue = @ \ {i}]
          \/ worker' = [worker EXCEPT !.at = "fill", !.doing = i]
      BY <1>9 DEF Decide
    <2>2. worker.at = "decide" BY <1>9 DEF Decide
    <2>3. /\ DOMAIN worker' = DOMAIN worker /\ worker'.at \in {"decide", "fill"}
          /\ worker'.horizon = worker.horizon
          /\ worker'.queue \subseteq worker.queue /\ worker'.life = worker.life
      BY <1>1, <2>1, <2>2 DEF WorkerTypes
    <2> QED BY <1>1, <2>2, <2>3, PassGoesOn DEF Passing, Writing
  <1>10. ASSUME NEW i \in worker.queue, Manage(i) PROVE WorkerTypes'
    <2>1. worker' = [worker EXCEPT !.queue = @ \ {i}] /\ worker.at = "manage"
      BY <1>10 DEF Manage
    <2>2. /\ DOMAIN worker' = DOMAIN worker /\ worker'.at = "manage"
          /\ worker'.horizon = worker.horizon /\ worker'.queue \subseteq worker.queue
      BY <1>1, <2>1 DEF WorkerTypes
    <2> QED BY <1>1, <2>2 DEF WorkerTypes, Passing, Writing, Places
  <1>11. CASE UNCHANGED vars
    BY <1>2, <1>11 DEF vars
  <1>12. ASSUME NEW s \in Series, Settle(s) PROVE WorkerTypes'
    BY <1>2, <1>12 DEF Settle
  <1>13. ASSUME NEW g \in Strategies, Review(g) PROVE WorkerTypes'
    BY <1>2, <1>13 DEF Review
  <1> QED BY <1>3, <1>4, <1>5, <1>6, <1>7, <1>8, <1>9, <1>10, <1>11, <1>12, <1>13 DEF Next, Work

\* Well-formed tables, memory and worker stay so.
LEMMA TypesStep ==
    ASSUME DeskTypes, RowsInv, [Next]_vars
    PROVE  DeskTypes'
  <1>1. TableTypes' /\ MemoryTypes' /\ WorkerTypes'
    BY TableTypesStep, MemoryTypesStep, WorkerTypesStep
  <1>2. used' \in [FaultKinds -> Nat]
    BY UsedStep DEF DeskTypes
  <1>3. approved' \subseteq Strategies
    <2>1. UNCHANGED approved \/ \E g \in Strategies : Review(g)
      BY DEF Next, Work, Boot, Scan, Load, Fill, Confirm, EndPass, Publish, Decide, Manage, Crash,
             Settle, environment, vars
    <2>2. ASSUME NEW g \in Strategies, Review(g) PROVE approved' \subseteq Strategies
      BY <2>2 DEF Review, DeskTypes
    <2> QED BY <2>1, <2>2 DEF DeskTypes
  <1> QED BY <1>1, <1>2, <1>3 DEF DeskTypes, TableTypes, MemoryTypes

-----------------------------------------------------------------------------
(* The rows of a decision.                                                 *)

\* What the tables say of each other, wherever the worker is.
Linked ==
    /\ DOMAIN positions \subseteq DOMAIN decisions
    /\ \A i \in DOMAIN positions : <<"entry", i>> \in orders
    /\ \A o \in orders : o[1] = "entry" => o[2] \in DOMAIN positions

\* Positions and decisions stay linked.
LEMMA LinkedStep ==
    ASSUME DeskTypes, RowsInv, [Next]_vars
    PROVE  Linked'
  <1>1. Linked
    BY DEF RowsInv, Linked
  <1>2. CASE UNCHANGED tables
    BY <1>1, <1>2 DEF tables, Linked
  <1>3. ASSUME UNCHANGED <<orders, positions>>, DOMAIN decisions \subseteq DOMAIN decisions'
        PROVE  Linked'
    BY <1>1, <1>3 DEF Linked
  <1>4. CASE Boot \/ Scan \/ Load \/ EndPass \/ Publish \/ Crash \/ UNCHANGED vars
    BY <1>2, <1>4 DEF Boot, Scan, Load, EndPass, Publish, Crash, vars
  <1>5. CASE Fill
    <2>1. worker.doing \in DOMAIN decisions /\ UNCHANGED decisions
      BY <1>5 DEF Fill, RowsInv, Writing
    <2>2. orders' = orders \union {<<"entry", worker.doing>>}
      BY <1>5 DEF Fill
    <2>3. CASE <<"entry", worker.doing>> \notin orders
      <3>1. DOMAIN positions' = DOMAIN positions \union {worker.doing}
        BY <1>5, <2>3 DEF Fill, Put
      <3>2. \A o \in orders' : o[1] = "entry" => o[2] \in DOMAIN positions'
        BY <1>1, <2>2, <3>1 DEF Linked
      <3> QED BY <1>1, <2>1, <2>2, <3>1, <3>2 DEF Linked
    <2>4. CASE <<"entry", worker.doing>> \in orders
      <3>1. UNCHANGED positions /\ UNCHANGED orders
        BY <1>5, <2>2, <2>4 DEF Fill
      <3> QED BY <1>1, <2>1, <3>1 DEF Linked
    <2> QED BY <2>3, <2>4
  <1>6. CASE Confirm
    BY <1>3, <1>6 DEF Confirm, Persist, Put
  <1>7. ASSUME NEW i \in worker.queue, Decide(i)
        PROVE  Linked'
    BY <1>3, <1>7 DEF Decide, Accept, Persist, Put
  <1>8. ASSUME NEW i \in worker.queue, Manage(i)
        PROVE  Linked'
    <2>1. CASE Close(i)
      <3>1. DOMAIN decisions' = DOMAIN decisions /\ DOMAIN positions' = DOMAIN positions
        BY <2>1 DEF Close
      <3>2. orders' = orders \union {<<"exit", i, Reason(i)>>} /\ <<"exit", i, Reason(i)>>[1] # "entry"
        BY <2>1 DEF Close
      <3> HIDE DEF Reason
      <3> QED BY <1>1, <3>1, <3>2 DEF Linked
    <2> QED BY <1>2, <1>8, <2>1 DEF Manage
  <1>9. ASSUME NEW s \in Series, Settle(s) PROVE Linked'
    BY <1>2, <1>9 DEF Settle
  <1>10. ASSUME NEW g \in Strategies, Review(g) PROVE Linked'
    BY <1>2, <1>10 DEF Review
  <1> QED BY <1>4, <1>5, <1>6, <1>7, <1>8, <1>9, <1>10 DEF Next, Work

\* What the worker knows of the decision it is writing or the positions it manages.
Written ==
    /\ worker.at \in Writing => /\ worker.doing \in worker.queue
                                /\ worker.doing \in DOMAIN decisions
                                /\ worker.life[worker.doing].stage = "REVIEWED"
    /\ worker.at = "fill" => decisions[worker.doing] = Record("FINAL", "PAPER")
    /\ worker.at = "filled" => worker.doing \in Open
    /\ worker.at = "manage" => worker.queue \subseteq Open

\* What the worker has in hand was written.
LEMMA WrittenStep ==
    ASSUME DeskTypes, RowsInv, [Next]_vars
    PROVE  Written'
  <1> USE DEF Writing
  <1>1. Written /\ Linked /\ WorkerTypes
    BY DEF RowsInv, Written, Linked, DeskTypes
  <1>2. CASE UNCHANGED <<worker, tables>>
    BY <1>1, <1>2 DEF Written, tables, Open
  <1>3. ASSUME worker'.at \in {"down", "scan", "load", "decide"}
        PROVE  Written'
    BY <1>3 DEF Written
  <1>4. CASE Boot \/ Publish \/ Crash
    BY <1>3, <1>4, IdleIs DEF Boot, Publish, Crash
  <1>5. CASE Scan
    BY <1>3, <1>5, ScanGives DEF ScanOf
  <1>6. CASE Load
    BY <1>1, <1>3, <1>6 DEF Load, WorkerTypes
  <1>7. CASE Confirm
    BY <1>1, <1>3, <1>7 DEF Confirm, WorkerTypes
  <1>8. CASE EndPass
    <2>1. \/ worker' = [Idle EXCEPT !.horizon = "SCALP"]
          \/ worker' = [Idle EXCEPT !.at = "manage", !.queue = Open]
      BY <1>8 DEF EndPass
    <2>2. worker'.at = "scan" \/ (worker'.at = "manage" /\ worker'.queue = Open)
      BY <2>1, IdleIs
    <2>3. Open' = Open
      BY <1>8 DEF EndPass, tables, Open
    <2> QED BY <2>2, <2>3 DEF Written
  <1>9. CASE Fill
    <2>1. worker.at = "fill" /\ UNCHANGED decisions
      BY <1>9 DEF Fill
    <2>2. /\ worker'.at \in {"filled", "repeated"}
          /\ worker'.doing = worker.doing /\ worker'.queue = worker.queue /\ worker'.life = worker.life
      BY <1>1, <1>9 DEF Fill, WorkerTypes
    <2>3. ASSUME worker'.at = "filled" PROVE worker.doing \in Open'
      <3>1. <<"entry", worker.doing>> \notin orders
        BY <1>1, <1>9, <2>3 DEF Fill, WorkerTypes
      <3>2. positions' = Put(positions, worker.doing, "OPEN")
        BY <1>9, <3>1 DEF Fill
      <3>3. worker.doing \in DOMAIN positions' /\ positions'[worker.doing] = "OPEN"
        BY <3>2 DEF Put
      <3> QED BY <3>3 DEF Open
    <2> QED BY <1>1, <2>1, <2>2, <2>3 DEF Written
  <1>10. ASSUME NEW i \in worker.queue, Decide(i) PROVE Written'
    <2>1. CASE worker' = [worker EXCEPT !.queue = @ \ {i}]
      BY <1>1, <1>3, <1>10, <2>1 DEF Decide, WorkerTypes
    <2>2. CASE worker' = [worker EXCEPT !.at = "fill", !.doing = i] /\ Accept(i)
                /\ worker.life[i].stage = "REVIEWED"
      <3>1. worker'.at = "fill" /\ worker'.doing = i /\ worker'.queue = worker.queue
            /\ worker'.life = worker.life
        BY <1>1, <2>2 DEF WorkerTypes
      <3>2. i \in DOMAIN decisions' /\ decisions'[i] = Record("FINAL", "PAPER")
        BY <2>2 DEF Accept, Persist, Put
      <3> QED BY <2>2, <3>1, <3>2 DEF Written
    <2> QED BY <1>10, <2>1, <2>2 DEF Decide
  <1>11. ASSUME NEW i \in worker.queue, Manage(i) PROVE Written'
    <2>1. worker.at = "manage" /\ worker'.at = "manage" /\ worker'.queue = worker.queue \ {i}
      BY <1>1, <1>11 DEF Manage, WorkerTypes
    <2>2. UNCHANGED tables \/ positions' = [positions EXCEPT ![i] = "CLOSED"]
      BY <1>11 DEF Manage, Close
    <2>3. Open \ {i} \subseteq Open'
      BY <2>2 DEF Open, tables
    <2> QED BY <1>1, <2>1, <2>3 DEF Written
  <1>12. CASE UNCHANGED vars
    BY <1>2, <1>12 DEF vars
  <1>13. ASSUME NEW s \in Series, Settle(s) PROVE Written'
    BY <1>2, <1>13 DEF Settle
  <1>14. ASSUME NEW g \in Strategies, Review(g) PROVE Written'
    BY <1>2, <1>14 DEF Review
  <1> QED BY <1>4, <1>5, <1>6, <1>7, <1>8, <1>9, <1>10, <1>11, <1>12, <1>13, <1>14 DEF Next, Work

\* The rows of each decision are written in order, and the worker knows which.
LEMMA RowsStep ==
    ASSUME DeskTypes, RowsInv, [Next]_vars
    PROVE  RowsInv'
  BY LinkedStep, WrittenStep DEF RowsInv, Linked, Written

-----------------------------------------------------------------------------
(* The book.                                                               *)

\* The step that opens a position, and what it knows of it.
Opens ==
    /\ Fill
    /\ worker.doing \notin DOMAIN positions
    /\ positions' = Put(positions, worker.doing, "OPEN")
    /\ Open' = Open \union {worker.doing}
    /\ worker'.at = "filled"

\* A step leaves the book as it is, closes one position or opens one.
LEMMA BookMoves ==
    ASSUME DeskTypes, RowsInv, [Next]_vars
    PROVE  \/ UNCHANGED positions
           \/ \E i \in worker.queue : Manage(i) /\ Close(i) /\ Open' = Open \ {i}
           \/ Opens
  <1>1. CASE Fill
    <2>1. CASE <<"entry", worker.doing>> \notin orders
      <3>1. worker.doing \notin DOMAIN positions
        BY <2>1 DEF RowsInv
      <3>2. positions' = Put(positions, worker.doing, "OPEN")
        BY <1>1, <2>1 DEF Fill
      <3>3. Open' = Open \union {worker.doing}
        BY <3>1, <3>2 DEF Put, Open
      <3>4. worker'.at = "filled"
        BY <1>1, <2>1 DEF Fill, DeskTypes, WorkerTypes
      <3> QED BY <1>1, <3>1, <3>2, <3>3, <3>4 DEF Opens
    <2>2. CASE <<"entry", worker.doing>> \in orders
      BY <1>1, <2>2 DEF Fill
    <2> QED BY <2>1, <2>2
  <1>2. ASSUME NEW i \in worker.queue, Manage(i)
        PROVE  \/ UNCHANGED positions
               \/ Close(i) /\ Open' = Open \ {i}
    <2>1. CASE Close(i)
      BY <2>1 DEF Close, Open
    <2>2. CASE UNCHANGED tables
      BY <2>2 DEF tables
    <2> QED BY <1>2, <2>1, <2>2 DEF Manage
  <1>3. CASE ~Fill /\ ~\E i \in worker.queue : Manage(i)
    BY <1>3 DEF Next, Work, Boot, Scan, Load, Confirm, EndPass, Publish, Decide, Crash, Settle,
                Review, tables, vars
  <1> QED BY <1>1, <1>2, <1>3

\* Every step keeps the book of positions.
LEMMA BookStep ==
    ASSUME DeskTypes, RowsInv, BookInv, [Next]_vars
    PROVE  BookInv'
  <1> SUFFICES ASSUME Never({"load"})'
               PROVE  BookInv'
    BY DEF BookInv
  <1>1. /\ worker.at \in {"decide", "fill", "repeated"} => worker.book = Open
        /\ worker.at = "filled" => Open = worker.book \union {worker.doing}
        /\ worker.at = "fill" => ~Blocked(worker.doing, worker.book, worker.horizon)
    BY NeverBefore DEF BookInv, DeskTypes
  <1>2. WorkerTypes
    BY DEF DeskTypes
  <1>3. ASSUME worker'.at \in {"down", "scan", "load", "manage"}
        PROVE  BookInv'
    BY <1>3 DEF BookInv
  <1>4. CASE UNCHANGED <<worker, positions, quote>>
    BY <1>1, <1>4 DEF BookInv, Open, Blocked, Unsizable
  <1>5. CASE Boot \/ Publish \/ Crash
    BY <1>3, <1>5, IdleIs DEF Boot, Publish, Crash
  <1>6. CASE Scan
    BY <1>3, <1>6, ScanGives DEF ScanOf
  <1>7. CASE EndPass
    <2>1. worker'.at \in {"scan", "manage"}
      BY <1>7, IdleIs DEF EndPass
    <2> QED BY <2>1, <1>3
  <1>8. CASE Load
    <2>1. ~Fault({"load"})
      <3> SUFFICES ASSUME Fault({"load"}) PROVE used'["load"] > 0
        BY DEF Never
      <3> QED BY FaultCounts DEF DeskTypes, FaultKinds
    <2>2. worker' = [worker EXCEPT !.at = "decide", !.book = Open] /\ UNCHANGED positions
      BY <1>8, <2>1 DEF Load, tables
    <2>3. worker'.at = "decide" /\ worker'.book = Open' /\ Open' = Open
      BY <1>2, <2>2 DEF WorkerTypes, Open
    <2> QED BY <2>3 DEF BookInv
  <1>9. ASSUME NEW i \in worker.queue, Decide(i) PROVE BookInv'
    <2>1. worker.at = "decide" /\ worker.book = Open /\ UNCHANGED <<positions, quote>> /\ Open' = Open
      BY <1>1, <1>9 DEF Decide, Open
    <2>2. CASE worker' = [worker EXCEPT !.queue = @ \ {i}]
      <3>1. worker'.at = "decide" /\ worker'.book = worker.book
        BY <1>2, <2>1, <2>2 DEF WorkerTypes
      <3> QED BY <2>1, <3>1 DEF BookInv
    <2>3. CASE worker' = [worker EXCEPT !.at = "fill", !.doing = i]
                /\ ~Blocked(i, worker.book, worker.horizon)
      <3>1. /\ worker'.at = "fill" /\ worker'.book = worker.book /\ worker'.doing = i
            /\ worker'.horizon = worker.horizon
        BY <1>2, <2>3 DEF WorkerTypes
      <3>2. ~Blocked(worker.doing, worker.book, worker.horizon)'
        BY <2>1, <2>3, <3>1 DEF Blocked, Unsizable
      <3> QED BY <2>1, <3>1, <3>2 DEF BookInv
    <2> QED BY <1>9, <2>2, <2>3 DEF Decide
  <1>10. CASE Fill
    <2>1. worker.at = "fill" /\ worker.book = Open
      BY <1>1, <1>10 DEF Fill
    <2>2. /\ worker'.at \in {"filled", "repeated"}
          /\ worker'.book = worker.book /\ worker'.doing = worker.doing
      BY <1>2, <1>10 DEF Fill, WorkerTypes
    <2>3. CASE worker'.at = "filled"
      <3>1. Opens
        <4>1. positions' # positions
          <5>1. <<"entry", worker.doing>> \notin orders
            BY <1>2, <1>10, <2>3 DEF Fill, WorkerTypes
          <5>2. worker.doing \notin DOMAIN positions
            BY <5>1 DEF RowsInv
          <5>3. worker.doing \in DOMAIN positions'
            BY <1>10, <5>1 DEF Fill, Put
          <5> QED BY <5>2, <5>3
        <4>2. ~\E i \in worker.queue : Manage(i)
          BY <2>1 DEF Manage
        <4> QED BY <4>1, <4>2, BookMoves
      <3> QED BY <2>1, <2>2, <2>3, <3>1 DEF BookInv, Opens
    <2>4. CASE worker'.at = "repeated"
      <3>1. UNCHANGED positions
        BY <1>2, <1>10, <2>4 DEF Fill, WorkerTypes
      <3> QED BY <2>1, <2>2, <2>4, <3>1 DEF BookInv, Open
    <2> QED BY <2>2, <2>3, <2>4
  <1>11. CASE Confirm
    <2>1. /\ worker'.at = "decide" /\ UNCHANGED positions
          /\ worker'.book = IF worker.at = "filled" THEN worker.book \union {worker.doing}
                            ELSE worker.book
      BY <1>2, <1>11 DEF Confirm, WorkerTypes
    <2>2. worker'.book = Open /\ Open' = Open
      BY <1>1, <1>11, <2>1 DEF Confirm, Open
    <2> QED BY <2>1, <2>2 DEF BookInv
  <1>12. ASSUME NEW i \in worker.queue, Manage(i) PROVE BookInv'
    <2>1. worker'.at = "manage"
      BY <1>2, <1>12 DEF Manage, WorkerTypes
    <2> QED BY <1>3, <2>1
  <1>13. CASE UNCHANGED vars
    BY <1>4, <1>13 DEF vars, tables
  <1>14. ASSUME NEW s \in Series, Settle(s) PROVE BookInv'
    BY <1>4, <1>14 DEF Settle, tables
  <1>15. ASSUME NEW g \in Strategies, Review(g) PROVE BookInv'
    BY <1>4, <1>15 DEF Review, tables
  <1> QED BY <1>5, <1>6, <1>7, <1>8, <1>9, <1>10, <1>11, <1>12, <1>13, <1>14, <1>15 DEF Next, Work

\* What the risk gate saw before the worker opened a position.
LEMMA OpensWithin ==
    ASSUME DeskTypes, RowsInv, BookInv, Never({"load"}), Opens
    PROVE  /\ ~Blocked(worker.doing, Open, worker.horizon)
           /\ worker.doing \in Ids /\ worker.doing \notin Open
           /\ worker.horizon \in Horizons
           /\ Open' = Open \union {worker.doing}
           /\ IsFiniteSet(Open) /\ Cardinality(Open) \in Nat
  <1>1. worker.at = "fill"
    BY DEF Opens, Fill
  <1>2. worker.doing \in Ids /\ worker.horizon \in Horizons
    BY <1>1 DEF RowsInv, Writing, DeskTypes, WorkerTypes
  <1>3. Open \subseteq DOMAIN positions
    BY DEF Open
  <1>4. IsFiniteSet(Open)
    BY <1>3, FS_Subset DEF DeskTypes
  <1> QED BY <1>1, <1>2, <1>3, <1>4, FS_CardinalityType DEF BookInv, Opens

\* The cap of either horizon is no more than the larger one.
LEMMA MaxOpenIs ==
    ASSUME NEW h \in Horizons
    PROVE  /\ Max({MaxOpen[k] : k \in Horizons}) \in Nat
           /\ MaxOpen[h] <= Max({MaxOpen[k] : k \in Horizons})
  <1> DEFINE S == {MaxOpen[k] : k \in Horizons}
             m == IF MaxOpen["SWING"] >= MaxOpen["SCALP"] THEN MaxOpen["SWING"] ELSE MaxOpen["SCALP"]
  <1>1. MaxOpen["SWING"] \in Nat /\ MaxOpen["SCALP"] \in Nat
    BY DeskAssumption DEF Horizons
  <1>2. m \in S /\ m \in Nat /\ \A x \in S : m >= x
    BY <1>1 DEF Horizons
  <1>3. S \subseteq Nat /\ MaxOpen[h] \in S
    BY <1>1 DEF Horizons
  <1>4. Max(S) \in S /\ \A x \in S : Max(S) >= x
    <2> HIDE DEF S, m
    <2> QED BY <1>2 DEF Max
  <1> QED BY <1>3, <1>4

\* The open positions in a currency.
In(c, book) == {i \in book : c \in Pair(i)}

\* Every step keeps the book within the caps.
LEMMA CapsStep ==
    ASSUME DeskTypes, RowsInv, BookInv, BookInCaps, [Next]_vars
    PROVE  BookInCaps'
  <1> DEFINE top == Max({MaxOpen[h] : h \in Horizons})
  <1>1. SUFFICES ASSUME Never({"load"})'
                 PROVE  /\ \A i, j \in Open' : i.series[1] = j.series[1] => i = j
                        /\ Cardinality(Open') <= top
                        /\ \A c \in Currencies : Cardinality(In(c, Open')) <= MaxShared
    BY DEF BookInCaps, In
  <1>2. Never({"load"})
    BY <1>1, NeverBefore DEF DeskTypes
  <1>3. /\ \A i, j \in Open : i.series[1] = j.series[1] => i = j
        /\ Cardinality(Open) <= top
        /\ \A c \in Currencies : Cardinality(In(c, Open)) <= MaxShared
    BY <1>2 DEF BookInCaps, In
  <1>4. top \in Nat /\ MaxShared \in Nat
    BY MaxOpenIs, DeskAssumption DEF Horizons
  <1> HIDE DEF top
  <1>5. IsFiniteSet(Open)
    BY FS_Subset DEF Open, DeskTypes
  <1>6. ASSUME Open' \subseteq Open
        PROVE  /\ \A i, j \in Open' : i.series[1] = j.series[1] => i = j
               /\ Cardinality(Open') <= top
               /\ \A c \in Currencies : Cardinality(In(c, Open')) <= MaxShared
    <2>1. Cardinality(Open') <= Cardinality(Open) /\ Cardinality(Open) \in Nat
          /\ IsFiniteSet(Open') /\ Cardinality(Open') \in Nat
      BY <1>5, <1>6, FS_Subset, FS_CardinalityType
    <2>2. ASSUME NEW c \in Currencies PROVE Cardinality(In(c, Open')) <= MaxShared
      <3>1. In(c, Open') \subseteq In(c, Open) /\ In(c, Open) \subseteq Open
        BY <1>6 DEF In
      <3>2. IsFiniteSet(In(c, Open))
        BY <1>5, <3>1, FS_Subset
      <3>3. Cardinality(In(c, Open')) <= Cardinality(In(c, Open)) /\ IsFiniteSet(In(c, Open'))
        BY <3>1, <3>2, FS_Subset
      <3>4. Cardinality(In(c, Open)) \in Nat /\ Cardinality(In(c, Open')) \in Nat
        BY <3>2, <3>3, FS_CardinalityType
      <3> QED BY <1>3, <1>4, <3>3, <3>4
    <2> QED BY <1>3, <1>4, <1>6, <2>1, <2>2
  <1>7. CASE Opens
    <2> DEFINE d == worker.doing
    <2>1. /\ ~Blocked(d, Open, worker.horizon)
          /\ worker.horizon \in Horizons /\ d \notin Open
          /\ Open' = Open \union {d} /\ Cardinality(Open) \in Nat
      BY <1>2, <1>7, OpensWithin
    <2>2. /\ ~(Cardinality(Open) >= MaxOpen[worker.horizon])
          /\ \A j \in Open : j.series[1] # d.series[1]
          /\ ~(Cardinality(Sharing(d, Open)) >= MaxShared)
      BY <2>1 DEF Blocked
    <2> HIDE DEF d
    <2>3. \A i, j \in Open' : i.series[1] = j.series[1] => i = j
      BY <1>3, <2>1, <2>2
    <2>4. Cardinality(Open') <= top
      <3>1. Cardinality(Open') = Cardinality(Open) + 1
        BY <1>5, <2>1, FS_AddElement
      <3>2. MaxOpen[worker.horizon] \in Nat
        BY <2>1, DeskAssumption
      <3>3. MaxOpen[worker.horizon] <= top
        BY <2>1, MaxOpenIs DEF top
      <3> QED BY <1>4, <2>1, <2>2, <3>1, <3>2, <3>3
    <2>5. ASSUME NEW c \in Currencies PROVE Cardinality(In(c, Open')) <= MaxShared
      <3>1. CASE c \notin Pair(d)
        <4>1. In(c, Open') = In(c, Open)
          BY <2>1, <3>1 DEF In
        <4> QED BY <4>1, <1>3
      <3>2. CASE c \in Pair(d)
        <4>1. In(c, Open') \subseteq Sharing(d, Open) \union {d}
          BY <2>1, <3>2 DEF In, Sharing
        <4>2. IsFiniteSet(Sharing(d, Open))
          BY <1>5, FS_Subset DEF Sharing
        <4>3. /\ IsFiniteSet(Sharing(d, Open) \union {d})
              /\ Cardinality(Sharing(d, Open) \union {d}) <= Cardinality(Sharing(d, Open)) + 1
          BY <4>2, FS_AddElement, FS_CardinalityType
        <4>4. /\ Cardinality(In(c, Open')) <= Cardinality(Sharing(d, Open) \union {d})
              /\ IsFiniteSet(In(c, Open'))
          BY <4>1, <4>3, FS_Subset
        <4>5. /\ Cardinality(In(c, Open')) \in Nat
              /\ Cardinality(Sharing(d, Open) \union {d}) \in Nat
              /\ Cardinality(Sharing(d, Open)) \in Nat
          BY <4>2, <4>3, <4>4, FS_CardinalityType
        <4> QED BY <1>4, <2>2, <4>3, <4>4, <4>5
      <3> QED BY <3>1, <3>2
    <2> QED BY <2>3, <2>4, <2>5
  <1>8. CASE ~Opens
    <2>1. Open' \subseteq Open
      BY <1>8, BookMoves DEF Open
    <2> QED BY <2>1, <1>6
  <1> QED BY <1>7, <1>8

\* An opening leaves each currency within its cap.
LEMMA CurrencyStep ==
    ASSUME DeskTypes, RowsInv, BookInv, [Next]_vars,
           Never({"load"}), Open' \ Open # {}, NEW c \in Currencies
    PROVE  Abs(Exposure(Open', c)) <= MaxCurrency
  <1> DEFINE d == worker.doing
             sum(n, book) == {i \in book : Signed(i, c) = n}
  <1>1. Opens
    BY BookMoves DEF Open
  <1>2. /\ ~Blocked(d, Open, worker.horizon)
        /\ d \notin Open /\ Open' = Open \union {d} /\ IsFiniteSet(Open)
    BY <1>1, OpensWithin
  <1>3. ~(Abs(Exposure(Open, c)) >= MaxCurrency)
    BY <1>2 DEF Blocked
  <1>4. MaxCurrency \in Nat
    BY DeskAssumption
  <1>5. Signed(d, c) \in {1, 0, -1}
    BY DEF Signed
  <1> HIDE DEF d
  <1>6. ASSUME NEW n \in {1, -1}
        PROVE  /\ Cardinality(sum(n, Open)) \in Nat
               /\ Cardinality(sum(n, Open')) = Cardinality(sum(n, Open))
                                               + (IF Signed(d, c) = n THEN 1 ELSE 0)
    <2>1. IsFiniteSet(sum(n, Open)) /\ d \notin sum(n, Open)
      BY <1>2, FS_Subset
    <2>2. sum(n, Open') = IF Signed(d, c) = n THEN sum(n, Open) \union {d} ELSE sum(n, Open)
      BY <1>2
    <2> DEFINE S == sum(n, Open)
    <2> HIDE DEF sum, S
    <2>3. Cardinality(S) \in Nat
      BY <2>1, FS_CardinalityType DEF S
    <2>4. Cardinality(S \union {d}) = Cardinality(S) + 1
      BY <2>1, FS_AddElement DEF S
    <2> QED BY <2>2, <2>3, <2>4 DEF S
  <1>7. /\ Exposure(Open, c) = Cardinality(sum(1, Open)) - Cardinality(sum(-1, Open))
        /\ Exposure(Open', c) = Cardinality(sum(1, Open')) - Cardinality(sum(-1, Open'))
    BY DEF Exposure
  <1> HIDE DEF sum
  <1>8. /\ Exposure(Open, c) \in Int
        /\ Exposure(Open', c) \in {Exposure(Open, c) - 1, Exposure(Open, c), Exposure(Open, c) + 1}
    BY <1>5, <1>6, <1>7
  <1> QED BY <1>3, <1>4, <1>8 DEF Abs

-----------------------------------------------------------------------------
(* The journal.                                                            *)

\* A row that no step touches stays true.
LEMMA RowStays ==
    ASSUME NEW i, RowTrue(i), decisions'[i] = decisions[i],
           i \in DOMAIN positions' <=> i \in DOMAIN positions,
           i \in DOMAIN positions => positions'[i] = positions[i]
    PROVE  RowTrue(i)'
  BY DEF RowTrue, Open

\* Steps that write no table.
LEMMA JournalIdles ==
    ASSUME JournalHolds, UNCHANGED <<tables, last>>, worker.at \notin Writing \union {"down"},
           worker'.at \notin Writing \union {"down"},
           worker'.at \in Passing => worker.at \in Passing /\ worker'.queue \subseteq worker.queue
    PROVE  JournalHolds'
  <1>1. \A i \in DOMAIN decisions' : RowTrue(i)'
    BY RowStays DEF JournalHolds, tables
  <1> QED BY <1>1 DEF JournalHolds, tables, Writing

\* A scan keeps the journal of decisions.
LEMMA JournalScans ==
    ASSUME DeskTypes, RowsInv, JournalHolds, Scan
    PROVE  JournalHolds'
  <1>1. PICK fresh, context : ScanOf(fresh, context)
    BY ScanGives
  <1>2. worker.at = "scan" /\ UNCHANGED tables
    BY DEF Scan
  <1>3. /\ worker.horizon \in Horizons /\ Frames(worker.horizon) \subseteq Series
        /\ fresh \in SUBSET Frames(worker.horizon)
        /\ context = Retain(retained[worker.horizon], fresh)
    BY <1>1 DEF DeskTypes, WorkerTypes, Frames, ScanOf
  <1>4. \A s \in Series : /\ last[s] \in Nat /\ market[s].candle \in Nat /\ last[s] <= last'[s]
                          /\ s \in fresh => last'[s] = market[s].candle /\ last[s] < market[s].candle
    <2>1. \A s \in Series : last[s] \in Nat /\ market[s].candle \in Nat
      BY DEF DeskTypes
    <2> QED BY <2>1, <1>1 DEF ScanOf
  <1>5. \A i \in DOMAIN decisions : i \in Ids /\ i.series \in Series /\ i.candle \in Nat
                                    /\ i.candle <= last[i.series]
    BY <1>2 DEF DeskTypes, Ids, JournalHolds
  <1>6. \A i \in DOMAIN decisions' : i.candle <= last'[i.series]
    <2> SUFFICES ASSUME NEW i \in DOMAIN decisions PROVE i.candle <= last'[i.series]
      BY <1>2 DEF tables
    <2>1. last'[i.series] \in Nat
      BY <1>4, <1>5, <1>1 DEF ScanOf
    <2> QED BY <2>1, <1>4, <1>5
  <1>7. ASSUME NEW i \in worker'.queue
        PROVE  i.candle <= last'[i.series] /\ i \notin DOMAIN decisions
    <2>1. i.series \in fresh /\ i.series \in DOMAIN Retain(retained[worker.horizon], fresh)
          /\ i = Retain(retained[worker.horizon], fresh)[i.series].id
      BY <1>1, <1>3 DEF ScanOf
    <2>2. Retain(retained[worker.horizon], fresh)[i.series].id.candle = market[i.series].candle
      BY <1>3, <2>1, RetainIs
    <2>3. i.candle = market[i.series].candle /\ i.series \in Series
      BY <1>3, <2>1, <2>2
    <2> QED BY <1>4, <1>5, <2>1, <2>3
  <1>8. \A i \in DOMAIN decisions' : RowTrue(i)'
    BY <1>2, RowStays DEF JournalHolds, tables, Writing
  <1>9. worker'.at = "load"
    BY <1>1 DEF ScanOf
  <1> QED BY <1>2, <1>6, <1>7, <1>8, <1>9 DEF JournalHolds, Writing, tables

\* So does a decision.
LEMMA JournalDecides ==
    ASSUME DeskTypes, RowsInv, JournalHolds, NEW i \in worker.queue, Decide(i)
    PROVE  JournalHolds'
  <1>1. worker.at = "decide" /\ UNCHANGED <<positions, last>>
    BY DEF Decide, memory
  <1>2. /\ i \notin DOMAIN decisions /\ i \notin DOMAIN positions /\ i.candle <= last[i.series]
        /\ \A j \in worker.queue : j.candle <= last[j.series] /\ j \notin DOMAIN decisions
        /\ \A j \in DOMAIN decisions : j.candle <= last[j.series] /\ RowTrue(j)
    BY <1>1 DEF JournalHolds, RowsInv, Passing, Writing
  <1>3. worker.life[i].stage \in {"CANDIDATE", "REVIEWED"} /\ DOMAIN worker = {"at", "horizon", "queue", "life", "book", "doing"}
    BY <1>1 DEF DeskTypes, WorkerTypes, Passing
  <1>4. ASSUME NEW row, Persist(i, row)
        PROVE  /\ DOMAIN decisions' = DOMAIN decisions \union {i}
               /\ decisions'[i] = row
               /\ \A j \in DOMAIN decisions : j # i => RowTrue(j)'
               /\ \A j \in DOMAIN decisions' : j.candle <= last'[j.series]
    <2>1. DOMAIN decisions' = DOMAIN decisions \union {i} /\ decisions'[i] = row
      BY <1>4 DEF Persist, Put
    <2>2. \A j \in DOMAIN decisions : j # i => decisions'[j] = decisions[j]
      BY <1>4 DEF Persist, Put
    <2> QED BY <1>1, <1>2, <2>1, <2>2, RowStays
  <1>5. ASSUME worker' = [worker EXCEPT !.queue = @ \ {i}], UNCHANGED decisions
        PROVE  JournalHolds'
    <2>1. worker'.at = "decide" /\ worker'.queue = worker.queue \ {i}
      BY <1>1, <1>3, <1>5
    <2>2. \A j \in DOMAIN decisions : RowTrue(j)'
      BY <1>1, <1>2, <1>5, RowStays
    <2> QED BY <1>1, <1>2, <1>5, <2>1, <2>2 DEF JournalHolds, Writing
  <1>6. ASSUME worker' = [worker EXCEPT !.queue = @ \ {i}], NEW row, Persist(i, row),
               row.stage \in {"CANDIDATE", "REVIEWED"}
        PROVE  JournalHolds'
    <2>1. worker'.at = "decide" /\ worker'.queue = worker.queue \ {i}
      BY <1>1, <1>3, <1>6
    <2>2. RowTrue(i)'
      BY <1>1, <1>2, <1>4, <1>6 DEF RowTrue, Open
    <2> QED BY <1>1, <1>2, <1>4, <1>6, <2>1, <2>2 DEF JournalHolds, Writing
  <1>7. ASSUME worker' = [worker EXCEPT !.at = "fill", !.doing = i], NEW row, Persist(i, row)
        PROVE  JournalHolds'
    <2>1. worker'.at = "fill" /\ worker'.queue = worker.queue /\ worker'.doing = i
      BY <1>3, <1>7
    <2> QED BY <1>1, <1>2, <1>4, <1>7, <2>1 DEF JournalHolds, Writing
  <1>8. Record("REVIEWED", "REJECT").stage = "REVIEWED"
    BY DEF Record
  <1> QED BY <1>3, <1>5, <1>6, <1>7, <1>8 DEF Decide, Accept

\* So does a fill.
LEMMA JournalFills ==
    ASSUME DeskTypes, RowsInv, JournalHolds, Fill
    PROVE  JournalHolds'
  <1>1. worker.at = "fill" /\ UNCHANGED <<decisions, last>> /\ DOMAIN worker = {"at", "horizon", "queue", "life", "book", "doing"}
    BY DEF Fill, memory, DeskTypes, WorkerTypes
  <1>2. worker.doing \notin DOMAIN positions /\ <<"entry", worker.doing>> \notin orders
    BY <1>1 DEF JournalHolds, RowsInv
  <1>3. positions' = Put(positions, worker.doing, "OPEN") /\ worker' = [worker EXCEPT !.at = "filled"]
    BY <1>2 DEF Fill
  <1>4. worker'.at = "filled" /\ worker'.queue = worker.queue /\ worker'.doing = worker.doing
    BY <1>1, <1>3
  <1>5. ASSUME NEW j, j # worker.doing, RowTrue(j) PROVE RowTrue(j)'
    BY <1>1, <1>3, <1>5, RowStays DEF Put
  <1> QED BY <1>1, <1>4, <1>5 DEF JournalHolds, Writing, Passing

\* So does a confirmation.
LEMMA JournalConfirms ==
    ASSUME DeskTypes, RowsInv, JournalHolds, Confirm
    PROVE  JournalHolds'
  <1>0. PICK d : d = worker.doing
    OBVIOUS
  <1>1. /\ worker.at = "filled" /\ UNCHANGED <<positions, last>>
        /\ d \in worker.queue /\ d \in DOMAIN decisions /\ d \in Open
        /\ DOMAIN worker = {"at", "horizon", "queue", "life", "book", "doing"}
    BY <1>0 DEF Confirm, JournalHolds, memory, RowsInv, Writing, DeskTypes, WorkerTypes
  <1>2. /\ worker'.at = "decide" /\ worker'.queue = worker.queue \ {d}
        /\ decisions' = Put(decisions, d, Record("OPEN", "PAPER"))
    BY <1>0, <1>1 DEF Confirm, Persist
  <1>3. /\ DOMAIN decisions' = DOMAIN decisions
        /\ decisions'[d] = Record("OPEN", "PAPER")
        /\ \A j \in DOMAIN decisions : j # d => decisions'[j] = decisions[j]
    BY <1>1, <1>2 DEF Put
  <1>4. RowTrue(d)'
    BY <1>1, <1>3 DEF RowTrue, Record, Open
  <1>5. ASSUME NEW j \in DOMAIN decisions, j # d PROVE RowTrue(j)'
    BY <1>0, <1>1, <1>3, <1>5, RowStays DEF JournalHolds
  <1> QED BY <1>1, <1>2, <1>3, <1>4, <1>5 DEF JournalHolds, Writing, Passing

\* So does the management of a position.
LEMMA JournalManages ==
    ASSUME DeskTypes, RowsInv, JournalHolds, NEW i \in worker.queue, Manage(i)
    PROVE  JournalHolds'
  <1>1. /\ worker.at = "manage" /\ worker'.at = "manage" /\ UNCHANGED last
        /\ i \in Open
    BY DEF Manage, memory, RowsInv, DeskTypes, WorkerTypes
  <1>2. CASE UNCHANGED tables
    BY <1>1, <1>2, JournalIdles DEF Manage, Writing, Passing, memory
  <1>3. CASE Close(i)
    <2>1. /\ DOMAIN decisions' = DOMAIN decisions /\ DOMAIN positions' = DOMAIN positions
          /\ positions'[i] = "CLOSED"
          /\ \A j \in DOMAIN positions : j # i => positions'[j] = positions[j]
          /\ \A j \in DOMAIN decisions : j # i => decisions'[j] = decisions[j]
      BY <1>1, <1>3 DEF Close, Open
    <2>2. \A j \in DOMAIN decisions : RowTrue(j)
      BY <1>1 DEF JournalHolds, Writing
    <2>3. i \in DOMAIN decisions /\ decisions[i] \in Rows /\ RowTrue(i)
      BY <1>1, <2>2 DEF RowsInv, Open, DeskTypes
    <2>4. decisions'[i].stage = "CLOSED" /\ decisions'[i].action = decisions[i].action
      BY <1>3, <2>3 DEF Close, Rows
    <2>5. RowTrue(i)'
      BY <1>1, <2>1, <2>3, <2>4 DEF RowTrue, Open
    <2>6. ASSUME NEW j \in DOMAIN decisions, j # i PROVE RowTrue(j)'
      BY <2>1, <2>2, <2>6, RowStays
    <2> QED BY <1>1, <2>1, <2>5, <2>6 DEF JournalHolds, Writing, Passing
  <1> QED BY <1>2, <1>3 DEF Manage

\* Every step keeps the journal.
LEMMA JournalStep ==
    ASSUME DeskTypes, RowsInv, JournalInv, [Next]_vars
    PROVE  JournalInv'
  <1>1. SUFFICES ASSUME Never({"crash"})' PROVE JournalHolds'
    BY DEF JournalInv
  <1>2. JournalHolds
    BY <1>1, NeverBefore DEF JournalInv, DeskTypes
  <1>3. CASE Boot
    <2>1. worker.at = "down" /\ UNCHANGED tables /\ worker'.at = "scan"
      BY <1>3, IdleIs DEF Boot
    <2> QED BY <1>2, <2>1 DEF JournalHolds, tables, Passing, Writing
  <1>4. CASE Crash
    <2>1. Fault({"crash"}) /\ used \in [FaultKinds -> Nat]
      BY <1>4 DEF Crash, DeskTypes
    <2>2. used'["crash"] > 0 /\ used' \in [FaultKinds -> Nat]
      BY <2>1, FaultCounts DEF FaultKinds
    <2> QED BY <1>1, <2>2 DEF Never
  <1>5. CASE Load
    <2>1. /\ worker.at = "load" /\ worker'.at = "decide" /\ worker'.queue = worker.queue
          /\ UNCHANGED <<tables, last>>
      BY <1>5 DEF Load, memory, DeskTypes, WorkerTypes
    <2> QED BY <1>2, <2>1, JournalIdles DEF Writing, Passing
  <1>6. CASE EndPass
    <2>1. /\ worker.at = "decide" /\ worker'.at \in {"scan", "manage"}
          /\ UNCHANGED <<tables, last>>
      BY <1>6, IdleIs DEF EndPass, memory
    <2> QED BY <1>2, <2>1, JournalIdles DEF Writing, Passing
  <1>7. CASE Publish
    <2>1. worker.at = "manage" /\ worker'.at = "scan" /\ UNCHANGED <<tables, last>>
      BY <1>7, IdleIs DEF Publish, memory
    <2> QED BY <1>2, <2>1, JournalIdles DEF Writing, Passing
  <1>8. CASE \E s \in Series : Settle(s)
    <2>1. worker.at = "scan" /\ worker' = worker /\ UNCHANGED <<tables, last>>
      BY <1>8 DEF Settle, memory
    <2> QED BY <1>2, <2>1, JournalIdles DEF Writing, Passing
  <1>9. CASE \E g \in Strategies : Review(g)
    <2>1. worker.at = "scan" /\ worker' = worker /\ UNCHANGED <<tables, last>>
      BY <1>9 DEF Review, memory
    <2> QED BY <1>2, <2>1, JournalIdles DEF Writing, Passing
  <1>10. CASE UNCHANGED vars
    <2>1. UNCHANGED <<worker, tables, last, seen>>
      BY <1>10 DEF vars, memory
    <2>2. \A i \in DOMAIN decisions : RowTrue(i) => RowTrue(i)'
      BY <2>1, RowStays DEF tables
    <2> QED BY <1>2, <2>1, <2>2 DEF JournalHolds, tables
  <1> QED BY <1>2, <1>3, <1>4, <1>5, <1>6, <1>7, <1>8, <1>9, <1>10, JournalScans, JournalDecides,
             JournalFills, JournalConfirms, JournalManages DEF Next, Work

-----------------------------------------------------------------------------
(* The evidence of the timeframes.                                         *)

\* Every series has one horizon.
LEMMA HorizonIs ==
    ASSUME NEW s \in Series
    PROVE  HorizonOf(s) \in Horizons /\ \A h \in Horizons : s \in Frames(h) <=> h = HorizonOf(s)
  BY DEF HorizonOf, Horizons, Frames

\* Steps that evaluate nothing.
LEMMA EvidenceIdles ==
    ASSUME DeskTypes, EvidenceInv, used' \in [FaultKinds -> Nat],
           Never({"crash"})' => Never({"crash"}), Never({"fetch"})' => Never({"fetch"}),
           UNCHANGED <<memory, seen>>,
           \A s \in Series : market[s].candle > 0 => market'[s].candle > 0,
           worker'.at \in Passing => /\ worker.at \in Passing /\ worker'.queue \subseteq worker.queue
                                     /\ worker'.life = worker.life
    PROVE  EvidenceInv'
  <1>1. UNCHANGED <<seen, last, retained>>
    BY DEF memory
  <1>2. ASSUME NEW i, Agreed(i) PROVE Agreed(i)'
    BY <1>1, <1>2 DEF Agreed
  <1>3. ASSUME NEW s, Kept(s) PROVE Kept(s)'
    BY <1>1, <1>3 DEF Kept
  <1>4. DOMAIN seen \subseteq Series
    BY DEF DeskTypes
  <1> QED BY <1>1, <1>2, <1>3, <1>4 DEF EvidenceInv

\* What a pass reviews agrees with everything ever seen of its timeframes.
LEMMA EvidenceScans ==
    ASSUME DeskTypes, EvidenceInv, Scan, [Next]_vars
    PROVE  EvidenceInv'
  <1>1. SUFFICES ASSUME Never({"crash"})' \/ Never({"fetch"})' PROVE EvidenceInv'
    BY DEF EvidenceInv
  <1>2. /\ \A s \in DOMAIN seen :
               market[s].candle > 0 /\ (Kept(s) \/ (last[s] = 0 /\ ~Never({"crash"})))
        /\ ~Never({"crash"}) => ~Never({"crash"})'
    BY <1>1, NeverBefore DEF EvidenceInv, DeskTypes
  <1>3. PICK fresh, context : ScanOf(fresh, context)
    BY ScanGives
  <1>4. PICK h \in Horizons : h = worker.horizon
    BY DEF DeskTypes, WorkerTypes
  <1>5. /\ fresh \in SUBSET Frames(h) /\ Frames(h) \subseteq Series
        /\ context = Retain(retained[h], fresh)
        /\ retained' = [retained EXCEPT ![h] = context]
        /\ UNCHANGED market
    BY <1>3, <1>4 DEF ScanOf, Frames, Scan, environment
  <1>6. DOMAIN retained = Horizons /\ DOMAIN seen \subseteq Series
    BY DEF DeskTypes
  <1>7. ASSUME NEW s \in DOMAIN seen'
        PROVE  /\ s \in Series /\ market'[s].candle > 0
               /\ s \in fresh => s \in DOMAIN context /\ seen'[s] = context[s].id
               /\ Kept(s)' \/ (s \notin fresh /\ last'[s] = 0 /\ ~Never({"crash"})')
    <2>1. CASE s \in fresh
      <3>1. s \in DOMAIN context /\ seen'[s] = context[s].id /\ s \in Series /\ HorizonOf(s) = h
        BY <1>3, <1>5, <2>1, HorizonIs DEF ScanOf
      <3>2. retained'[HorizonOf(s)] = context
        BY <1>4, <1>5, <1>6, <3>1
      <3>3. market[s].candle > 0
        BY <1>3, <2>1 DEF ScanOf
      <3> QED BY <1>5, <2>1, <3>1, <3>2, <3>3 DEF Kept
    <2>2. CASE s \notin fresh
      <3>1. s \in DOMAIN seen /\ seen'[s] = seen[s] /\ s \in Series
        BY <1>3, <1>6, <2>2 DEF ScanOf
      <3>2. last'[s] = last[s]
        BY <1>3, <2>2, <3>1 DEF ScanOf
      <3>3. CASE Kept(s)
        <4>1. CASE HorizonOf(s) = h
          <5>1. s \in DOMAIN context /\ context[s] = retained[h][s]
            BY <1>5, <2>2, <3>3, <4>1 DEF Retain, Kept
          <5>2. retained'[HorizonOf(s)] = context
            BY <1>4, <1>5, <1>6, <4>1
          <5>3. Kept(s)'
            BY <3>1, <3>3, <4>1, <5>1, <5>2 DEF Kept
          <5> QED BY <1>2, <1>5, <2>2, <3>1, <5>3
        <4>2. CASE HorizonOf(s) # h
          <5>1. retained'[HorizonOf(s)] = retained[HorizonOf(s)]
            BY <1>5, <1>6, <3>1, <4>2, HorizonIs
          <5>2. Kept(s)'
            BY <3>1, <3>3, <5>1 DEF Kept
          <5> QED BY <1>2, <1>5, <2>2, <3>1, <5>2
        <4> QED BY <4>1, <4>2
      <3>4. CASE ~Kept(s)
        BY <1>2, <1>5, <2>2, <3>1, <3>2, <3>4
      <3> QED BY <3>3, <3>4
    <2> QED BY <2>1, <2>2
  <1>8. ASSUME NEW s \in DOMAIN seen', HorizonOf(s) = h
        PROVE  s \in DOMAIN context /\ context[s].id = seen'[s]
    <2>1. CASE s \in fresh
      BY <1>7, <2>1
    <2>2. CASE s \notin fresh
      <3>1. retained'[h] = context
        BY <1>4, <1>5, <1>6
      <3>2. CASE Kept(s)'
        BY <1>8, <3>1, <3>2 DEF Kept
      <3>3. CASE last'[s] = 0 /\ ~Never({"crash"})'
        <4>1. s \in Series /\ s \in Frames(h) /\ market[s].candle > 0
          BY <1>5, <1>7, <1>8, HorizonIs
        <4>2. last[s] = 0
          BY <1>3, <2>2, <3>3, <4>1 DEF ScanOf
        <4>3. s \in fresh
          BY <1>1, <1>3, <1>4, <3>3, <4>1, <4>2 DEF ScanOf
        <4> QED BY <2>2, <4>3
      <3> QED BY <1>7, <3>2, <3>3
    <2> QED BY <2>1, <2>2
  <1>9. ASSUME NEW i \in worker'.queue, worker'.life[i].stage = "REVIEWED",
               NEW s \in DOMAIN seen', s[1] = i.series[1], HorizonOf(s) = HorizonOf(i.series)
        PROVE  seen'[s].side = i.side
    <2>1. /\ i.series \in fresh /\ i.series \in DOMAIN context /\ i = context[i.series].id
          /\ ~Opposed(i.series[1], context)
      BY <1>3, <1>9 DEF ScanOf
    <2>2. HorizonOf(i.series) = h
      BY <1>5, <2>1, HorizonIs
    <2>3. s \in DOMAIN context /\ context[s].id = seen'[s]
      BY <1>8, <1>9, <2>2
    <2>4. s \in Of(i.series[1], context) /\ i.series \in Of(i.series[1], context)
      BY <1>9, <2>1, <2>3 DEF Of
    <2>5. context[s].id.side \in Sides /\ context[i.series].id.side \in Sides
      <3>1. context[s].id \in Ids /\ context[i.series].id \in Ids
        BY <1>5, <2>1, <2>3, RetainIs
      <3> QED BY <3>1 DEF Ids
    <2>6. PICK side \in Sides : \A o \in Of(i.series[1], context) : context[o].id.side # side
      BY <2>1 DEF Opposed
    <2>7. context[s].id.side = context[i.series].id.side
      BY <2>4, <2>5, <2>6 DEF Sides
    <2> QED BY <2>1, <2>3, <2>7
  <1>10. \A i \in worker'.queue : worker'.life[i].stage = "REVIEWED" => Agreed(i)'
    BY <1>9 DEF Agreed
  <1> QED BY <1>7, <1>10 DEF EvidenceInv

\* Every step keeps the evidence behind a decision.
LEMMA EvidenceStep ==
    ASSUME DeskTypes, RowsInv, JournalInv, EvidenceInv, [Next]_vars
    PROVE  EvidenceInv'
  <1>1. /\ used' \in [FaultKinds -> Nat]
        /\ Never({"crash"})' => Never({"crash"})
        /\ Never({"fetch"})' => Never({"fetch"})
    BY UsedStep, NeverBefore DEF DeskTypes
  <1>2. DOMAIN worker = {"at", "horizon", "queue", "life", "book", "doing"}
    BY DEF DeskTypes, WorkerTypes
  <1>3. ASSUME UNCHANGED <<market, memory, seen>>,
               worker'.at \in Passing => /\ worker.at \in Passing /\ worker'.queue \subseteq worker.queue
                                         /\ worker'.life = worker.life
        PROVE  EvidenceInv'
    BY <1>1, <1>3, EvidenceIdles
  <1>4. CASE Load
    <2>1. /\ UNCHANGED <<market, memory, seen>> /\ worker.at = "load"
          /\ worker'.queue = worker.queue /\ worker'.life = worker.life
      BY <1>2, <1>4 DEF Load, environment
    <2> QED BY <1>3, <2>1 DEF Passing
  <1>5. ASSUME NEW i \in worker.queue, Decide(i) PROVE EvidenceInv'
    <2>1. /\ UNCHANGED <<market, memory, seen>> /\ worker.at = "decide"
          /\ worker'.queue \subseteq worker.queue /\ worker'.life = worker.life
      BY <1>2, <1>5 DEF Decide, environment
    <2> QED BY <1>3, <2>1 DEF Passing
  <1>6. CASE Fill
    <2>1. /\ UNCHANGED <<market, memory, seen>> /\ worker.at = "fill"
          /\ worker'.queue = worker.queue /\ worker'.life = worker.life
      BY <1>2, <1>6 DEF Fill, environment
    <2> QED BY <1>3, <2>1 DEF Passing, Writing
  <1>14. CASE Confirm
    <2>1. /\ UNCHANGED <<market, memory, seen>> /\ worker.at \in Writing
          /\ worker'.queue \subseteq worker.queue /\ worker'.life = worker.life
      BY <1>2, <1>14 DEF Confirm, environment, Writing
    <2> QED BY <1>3, <2>1 DEF Passing
  <1>7. ASSUME NEW i \in worker.queue, Manage(i) PROVE EvidenceInv'
    <2>1. UNCHANGED <<market, memory, seen>> /\ worker'.at = "manage"
      BY <1>2, <1>7 DEF Manage, environment
    <2> QED BY <1>3, <2>1 DEF Passing, Writing
  <1>8. CASE EndPass \/ Publish
    <2>1. UNCHANGED <<market, memory, seen>> /\ worker'.at \in {"scan", "manage"}
      BY <1>8, IdleIs DEF EndPass, Publish, environment
    <2> QED BY <1>3, <2>1 DEF Passing, Writing
  <1>9. CASE Crash
    <2>1. UNCHANGED <<market, memory, seen>> /\ worker'.at = "down"
      BY <1>9, IdleIs DEF Crash, environment
    <2> QED BY <1>3, <2>1 DEF Passing, Writing
  <1>10. CASE Boot
    <2>1. /\ UNCHANGED <<market, seen, used>> /\ worker'.at = "scan" /\ worker.at = "down"
          /\ last' = [s \in Series |-> 0]
      BY <1>10, IdleIs DEF Boot, environment
    <2>2. Never({"crash"}) => DOMAIN seen = {}
      BY <2>1 DEF JournalInv, JournalHolds
    <2>3. DOMAIN seen \subseteq Series
      BY DEF DeskTypes
    <2>4. UNCHANGED <<Never({"crash"}), Never({"fetch"})>>
      BY <2>1 DEF Never
    <2>5. \A s \in DOMAIN seen : last'[s] = 0
      BY <2>1, <2>3
    <2> QED BY <2>1, <2>2, <2>4, <2>5 DEF EvidenceInv, Passing, Writing
  <1>11. ASSUME NEW t \in Series, Settle(t) PROVE EvidenceInv'
    <2>1. UNCHANGED <<memory, seen, worker>> /\ worker.at = "scan"
      BY <1>11 DEF Settle
    <2>2. \A s \in Series : market[s].candle > 0 => market'[s].candle > 0
      <3>1. market \in [Series -> [candle : Nat, output : [Strategies -> Sides \union {"none"}]]]
        BY DEF DeskTypes
      <3>2. PICK output : market' = [market EXCEPT ![t] = [candle |-> market[t].candle + 1, output |-> output]]
        BY <1>11 DEF Settle
      <3>3. ASSUME NEW s \in Series, market[s].candle > 0 PROVE market'[s].candle > 0
        <4>1. market[s].candle \in Nat /\ (s = t => market'[s].candle = market[s].candle + 1)
              /\ (s # t => market'[s] = market[s])
          BY <3>1, <3>2
        <4> QED BY <3>3, <4>1
      <3> QED BY <3>3
    <2> QED BY <1>1, <2>1, <2>2, EvidenceIdles DEF Passing, Writing
  <1>12. CASE \E g \in Strategies : Review(g)
    <2>1. UNCHANGED <<market, memory, seen, worker>>
      BY <1>12 DEF Review
    <2> QED BY <1>3, <2>1
  <1>13. CASE UNCHANGED vars
    <2>1. UNCHANGED <<market, memory, seen, worker>>
      BY <1>13 DEF vars, environment
    <2> QED BY <1>3, <2>1
  <1> QED BY <1>4, <1>5, <1>6, <1>7, <1>8, <1>9, <1>10, <1>11, <1>12, <1>13, <1>14, EvidenceScans DEF Next, Work

-----------------------------------------------------------------------------
(* The results.                                                            *)

\* The desk starts in its invariant.
LEMMA DeskInvInit ==
    ASSUME Init
    PROVE  DeskInv
  <1>1. /\ decisions = <<>> /\ positions = <<>> /\ orders = {} /\ seen = <<>>
        /\ used = [kind \in FaultKinds |-> 0] /\ approved = Strategies
        /\ last = [s \in Series |-> 0] /\ retained = [h \in Horizons |-> <<>>]
        /\ market = [s \in Series |-> [candle |-> 0, output |-> [g \in Strategies |-> "none"]]]
        /\ worker = [Idle EXCEPT !.at = "down"]
    BY DEF Init, InitAt
  <1>2. DOMAIN <<>> = {}
    OBVIOUS
  <1>3. /\ DOMAIN worker = {"at", "horizon", "queue", "life", "book", "doing"}
        /\ worker.at = "down" /\ worker.horizon = "SWING" /\ worker.queue = {}
    BY <1>1 DEF Idle
  <1>4. Open = {} /\ IsFiniteSet({}) /\ Cardinality({}) = 0
    BY <1>1, <1>2, FS_EmptySet DEF Open
  <1>5. DeskTypes
    <2>1. WorkerTypes
      BY <1>3 DEF WorkerTypes, Places, Passing, Writing, Horizons
    <2> QED BY <1>1, <1>2, <1>4, <2>1 DEF DeskTypes
  <1>6. RowsInv /\ BookInv
    BY <1>1, <1>2, <1>3 DEF RowsInv, BookInv, Writing
  <1>7. BookInCaps
    <2>1. \A c \in Currencies : {i \in Open : c \in Pair(i)} = {}
      BY <1>4
    <2>2. Max({MaxOpen[h] : h \in Horizons}) \in Nat /\ MaxShared \in Nat
      BY MaxOpenIs, DeskAssumption DEF Horizons
    <2> HIDE DEF Open
    <2> QED BY <1>4, <2>1, <2>2 DEF BookInCaps
  <1>8. JournalInv
    BY <1>1, <1>2, <1>3 DEF JournalInv, JournalHolds, Passing, Writing
  <1>9. EvidenceInv
    BY <1>1, <1>2, <1>3 DEF EvidenceInv, Passing, Writing
  <1> QED BY <1>5, <1>6, <1>7, <1>8, <1>9 DEF DeskInv

\* Every step keeps the invariant of the desk.
LEMMA DeskInvStep ==
    ASSUME DeskInv, [Next]_vars
    PROVE  DeskInv'
  BY TypesStep, RowsStep, BookStep, CapsStep, JournalStep, EvidenceStep DEF DeskInv

\* Every state the worker and its tables reach, over any crashes and faults.
THEOREM DeskInvHolds == Spec => []DeskInv
  BY DeskInvInit, DeskInvStep, PTL DEF Spec

\* Journal and book agree when no pass writes them, a position can always be
\* closed and both passes together stay in the caps (persist_decision,
\* persist_paper_fill, persist_paper_close, evaluate_forex_pretrade).
THEOREM BookIsTrueHolds == Spec => []BookIsTrue
  <1>1. ASSUME DeskInv PROVE BookIsTrue
    <2>1. JournalTrue
      BY <1>1 DEF DeskInv, JournalInv, JournalHolds, RowTrue, JournalTrue, Settled, Writing
    <2>2. Closable
      BY <1>1 DEF DeskInv, RowsInv, Closable, Open
    <2> QED BY <1>1, <2>1, <2>2 DEF DeskInv, BookIsTrue
  <1> QED BY <1>1, DeskInvHolds, PTL

\* No opening leaves more of a currency than is allowed, long or short
\* (evaluate_forex_pretrade, over the positions of both passes).
THEOREM CurrencyInCapsHolds == Spec => CurrencyInCaps
  <1>1. ASSUME DeskInv, [Next]_vars
        PROVE  [Never({"load"}) /\ Open' \ Open # {} =>
                    \A c \in Currencies : Abs(Exposure(Open', c)) <= MaxCurrency]_vars
    BY <1>1, CurrencyStep DEF DeskInv
  <1> QED BY <1>1, DeskInvHolds, PTL DEF Spec, CurrencyInCaps

\* Nothing is opened against the evidence of another timeframe of its pass,
\* nothing that was closed is opened or filled again, and no opening leaves more
\* of a currency than is allowed (classify_instrument_conflicts,
\* persist_paper_fill, evaluate_forex_pretrade).
THEOREM OpeningsAreSoundHolds == Spec => OpeningsAreSound
  <1> DEFINE HeededNow ==
                 \A i \in DOMAIN positions' \ DOMAIN positions :
                     Never({"crash"}) \/ Never({"fetch"}) =>
                         \A s \in DOMAIN seen :
                             s[1] = i.series[1] /\ (s[2] \in SwingFrames <=> i.series[2] \in SwingFrames)
                                 => seen[s].side = i.side
             ClosedNow ==
                 \A i \in DOMAIN positions : positions[i] = "CLOSED" => positions'[i] = "CLOSED"
  <1>1. ASSUME DeskInv, [Next]_vars PROVE HeededNow /\ ClosedNow
    <2>1. DeskTypes /\ RowsInv /\ EvidenceInv
      BY <1>1 DEF DeskInv
    <2>2. CASE UNCHANGED positions
      BY <2>2
    <2>3. ASSUME NEW i, Close(i) PROVE HeededNow /\ ClosedNow
      BY <2>3 DEF Close
    <2>4. CASE Opens
      <3>1. /\ worker.at = "fill" /\ positions' = Put(positions, worker.doing, "OPEN")
            /\ worker.doing \notin DOMAIN positions
        BY <2>4 DEF Opens, Fill
      <3>2. ClosedNow
        BY <3>1 DEF Put
      <3>3. DOMAIN positions' \ DOMAIN positions = {worker.doing}
        BY <3>1 DEF Put
      <3>4. worker.doing \in worker.queue /\ worker.life[worker.doing].stage = "REVIEWED"
        BY <2>1, <3>1 DEF RowsInv, Writing
      <3>5. Never({"crash"}) \/ Never({"fetch"}) => Agreed(worker.doing)
        BY <2>1, <3>1, <3>4 DEF EvidenceInv, Passing, Writing
      <3>6. HeededNow
        BY <3>3, <3>5 DEF Agreed, HorizonOf
      <3> QED BY <3>2, <3>6
    <2> QED BY <1>1, <2>1, <2>2, <2>3, <2>4, BookMoves
  <1>2. [][HeededNow /\ ClosedNow]_vars => [][HeededNow]_vars /\ [][ClosedNow]_vars
    BY PTL
  <1>3. Spec => [][HeededNow /\ ClosedNow]_vars
    BY <1>1, DeskInvHolds, PTL DEF Spec
  <1> QED BY <1>2, <1>3, CurrencyInCapsHolds DEF OpeningsAreSound, Heeded, ClosedForGood
=============================================================================
