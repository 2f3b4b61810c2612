--------------------------- MODULE ResearchProofs ---------------------------
(***************************************************************************)
(* What is trusted of the past: formulas scored again, verdicts on         *)
(* strategies, the search for formulas, the candles a scan is woken for.   *)
(* The parts share no state: the invariant of each holds of the behaviours *)
(* of its own next-state relation, and of those that take turns.           *)
(*                                                                         *)
(* Inductions over bars, trades and nodes go by a minimal counterexample.  *)
(***************************************************************************)
EXTENDS MCResearch, FiniteSetTheorems, SequenceTheorems, WellFoundedInduction, NaturalsInduction, TLAPS

\* A set of naturals has a least element ...
LEMMA LeastIs ==
    ASSUME NEW T \in SUBSET Nat, T # {}
    PROVE  Min(T) \in T /\ \A m \in T : Min(T) <= m
  <1>1. PICK n \in T : \A m \in T : <<m, n>> \notin OpToRel(<, Nat)
    BY NatLessThanWellFounded, WFMin
  <1>2. \A m \in T : ~(m < n)
    BY <1>1 DEF OpToRel
  <1>3. \A m \in T : n <= m
    BY <1>2
  <1> QED BY <1>3 DEF Min

\* ... and a bounded one has a greatest.
LEMMA GreatestIs ==
    ASSUME NEW n \in Nat, NEW T \in SUBSET (0..n), T # {}
    PROVE  Max(T) \in T /\ \A m \in T : m <= Max(T)
  <1> DEFINE Gaps == {g \in 0..n : n - g \in T}
  <1>1. Gaps \in SUBSET Nat /\ Gaps # {}
    <2>1. PICK m \in T : TRUE
      OBVIOUS
    <2>2. n - m \in 0..n /\ n - (n - m) = m
      BY <2>1
    <2> QED BY <2>1, <2>2
  <1>2. PICK g \in Gaps : \A h \in Gaps : g <= h
    <2> HIDE DEF Gaps
    <2> QED BY <1>1, LeastIs
  <1>3. n - g \in T
    BY <1>2
  <1>4. \A m \in T : m <= n - g
    <2> TAKE m \in T
    <2>1. n - m \in 0..n /\ n - (n - m) = m
      OBVIOUS
    <2>2. n - m \in Gaps
      BY <2>1
    <2>3. g <= n - m
      BY <1>2, <2>2
    <2> QED BY <1>2, <2>3
  <1> HIDE DEF Gaps
  <1> QED BY <1>3, <1>4 DEF Max

-----------------------------------------------------------------------------
(* Formulas: what a node is worth on a bar depends on no later bar.         *)

PanelRows == [Tickers -> Closes \cup {NaN}]

Follows(m, f, rows, n) == m = [i \in 1..n |-> Apply(f[i], m, rows)]

\* A node looks at nothing but its operands.
LEMMA ApplyIsLocal ==
    ASSUME NEW f \in Trees, NEW i \in DOMAIN f, NEW rows, NEW m, NEW k,
           \A j \in 1..(i - 1) : m[j] = k[j]
    PROVE  Apply(f[i], m, rows) = Apply(f[i], k, rows)
  <1>1. f[i].op \in {"Close", "Rank", "Sub", "Delay", "TS_Sum"} /\ Operands(f[i]) \subseteq 1..(i - 1)
    BY FormulaAssumption
  <1>2. CASE f[i].op = "Close"
    BY <1>2 DEF Apply
  <1>3. CASE f[i].op = "Rank"
    <2>1. m[f[i].x] = k[f[i].x]
      BY <1>1, <1>3 DEF Operands
    <2> QED BY <1>3, <2>1 DEF Apply
  <1>4. CASE f[i].op = "Sub"
    <2>1. m[f[i].x] = k[f[i].x] /\ m[f[i].y] = k[f[i].y]
      BY <1>1, <1>4 DEF Operands
    <2> QED BY <1>4, <2>1 DEF Apply
  <1>5. CASE f[i].op = "Delay"
    <2>1. m[f[i].x] = k[f[i].x]
      BY <1>1, <1>5 DEF Operands
    <2> QED BY <1>5, <2>1 DEF Apply
  <1>6. CASE f[i].op = "TS_Sum"
    <2>1. m[f[i].x] = k[f[i].x]
      BY <1>1, <1>6 DEF Operands
    <2> QED BY <1>6, <2>1 DEF Apply
  <1> QED BY <1>1, <1>2, <1>3, <1>4, <1>5, <1>6

\* There are matrices for the first nodes of a formula, however many: one more node
\* is worked out from those before it.
LEMMA MatricesExist ==
    ASSUME NEW f \in Trees, NEW rows, NEW n \in 0..Len(f)
    PROVE  \E m : Follows(m, f, rows, n)
  <1> DEFINE Bad == {a \in 0..Len(f) : \A m : ~Follows(m, f, rows, a)}
  <1>0. Len(f) \in Nat /\ DOMAIN f = 1..Len(f)
    BY FormulaAssumption
  <1>1. SUFFICES ASSUME Bad # {} PROVE FALSE
    OBVIOUS
  <1>2. PICK a \in Bad : \A b \in Bad : a <= b
    <2>1. Bad \in SUBSET Nat
      BY <1>0
    <2> HIDE DEF Bad
    <2> QED BY <1>1, <2>1, LeastIs
  <1>3. CASE a = 0
    <2>1. Follows([i \in 1..a |-> 0], f, rows, a)
      BY <1>3 DEF Follows
    <2> QED BY <1>2, <2>1
  <1>4. CASE a # 0
    <2>1. a - 1 \in 0..Len(f) /\ a - 1 \notin Bad /\ 1..a \subseteq DOMAIN f
      BY <1>0, <1>2, <1>4
    <2>2. PICK m : Follows(m, f, rows, a - 1)
      BY <2>1
    <2> DEFINE h == [i \in 1..a |-> Apply(f[i], m, rows)]
    <2>3. \A i \in 1..(a - 1) : m[i] = h[i]
      <3>1. \A i \in 1..(a - 1) : m[i] = Apply(f[i], m, rows)
        BY <2>2 DEF Follows
      <3>2. 1..(a - 1) \subseteq 1..a
        BY <1>0, <2>1
      <3> QED BY <3>1, <3>2
    <2>4. \A i \in 1..a : \A j \in 1..(i - 1) : j \in 1..(a - 1)
      BY <1>0, <2>1
    <2>5. \A i \in 1..a : Apply(f[i], m, rows) = Apply(f[i], h, rows)
      <3> TAKE i \in 1..a
      <3> HIDE DEF h
      <3>1. i \in DOMAIN f /\ \A j \in 1..(i - 1) : m[j] = h[j]
        BY <2>1, <2>3, <2>4
      <3> QED BY <3>1, ApplyIsLocal
    <2>6. [i \in 1..a |-> Apply(f[i], m, rows)] = [i \in 1..a |-> Apply(f[i], h, rows)]
      <3> HIDE DEF h
      <3> QED BY <2>5
    <2>7. Follows(h, f, rows, a)
      BY <2>6 DEF Follows
    <2> QED BY <1>2, <2>7
  <1> QED BY <1>3, <1>4

\* The matrices are those the nodes describe.
LEMMA MatricesAre ==
    ASSUME NEW f \in Trees, NEW rows
    PROVE  \A i \in DOMAIN f : Matrices(f, rows)[i] = Apply(f[i], Matrices(f, rows), rows)
  <1>1. DOMAIN f = 1..Len(f) /\ Len(f) \in Nat
    BY FormulaAssumption
  <1> DEFINE m == CHOOSE m : Follows(m, f, rows, Len(f))
  <1>2. Matrices(f, rows) = m
    BY <1>1 DEF Matrices, Follows
  <1>3. Follows(m, f, rows, Len(f))
    <2>1. Len(f) \in 0..Len(f)
      BY <1>1
    <2> QED BY <2>1, MatricesExist
  <1> HIDE DEF m
  <1>4. \A i \in DOMAIN f : m[i] = Apply(f[i], m, rows)
    BY <1>1, <1>3 DEF Follows
  <1> QED BY <1>2, <1>4

\* They have the bars of the panel.
LEMMA MatrixBars ==
    ASSUME NEW f \in Trees, NEW rows, NEW i \in DOMAIN f
    PROVE  DOMAIN Matrices(f, rows)[i] = DOMAIN rows
  <1> DEFINE m == Matrices(f, rows)
  <1>1. m[i] = Apply(f[i], m, rows)
    BY MatricesAre
  <1>2. f[i].op \in {"Close", "Rank", "Sub", "Delay", "TS_Sum"}
    BY FormulaAssumption
  <1> HIDE DEF m
  <1>3. DOMAIN Apply(f[i], m, rows) = DOMAIN rows
    BY <1>2 DEF Apply
  <1> QED BY <1>1, <1>3 DEF m

\* What an evaluable formula is worth on a bar is the same in a panel that ends there.
LEMMA NoLookAhead ==
    ASSUME NEW f \in Trees, Evaluable(f), NEW n \in Nat, NEW rows, DOMAIN rows = 1..n,
           NEW t \in 1..n, NEW old, old = [u \in 1..t |-> rows[u]]
    PROVE  \A i \in DOMAIN f : \A u \in 1..t : Matrices(f, old)[i][u] = Matrices(f, rows)[i][u]
  <1> DEFINE k == Matrices(f, old)
             m == Matrices(f, rows)
             Bad == {i \in DOMAIN f : \E u \in 1..t : k[i][u] # m[i][u]}
  <1>0. DOMAIN f = 1..Len(f) /\ Len(f) \in Nat
    BY FormulaAssumption
  <1>1. SUFFICES ASSUME Bad # {} PROVE FALSE
    OBVIOUS
  <1>2. PICK i \in Bad : \A j \in Bad : i <= j
    <2>1. Bad \in SUBSET Nat
      BY <1>0
    <2> HIDE DEF Bad
    <2> QED BY <1>1, <2>1, LeastIs
  <1>3. i \in DOMAIN f /\ i \in 1..Len(f) /\ \A j \in 1..(i - 1) : j \in DOMAIN f /\ j \notin Bad
    <2>1. i \in DOMAIN f
      BY <1>2
    <2> HIDE DEF Bad
    <2>2. \A j \in 1..(i - 1) : j \in 1..Len(f) /\ ~(i <= j)
      BY <1>0, <2>1
    <2> QED BY <1>0, <1>2, <2>1, <2>2
  <1>4. \A j \in 1..(i - 1) : \A u \in 1..t : k[j][u] = m[j][u]
    BY <1>3
  <1>5. \A j \in 1..(i - 1) : DOMAIN k[j] = 1..t /\ DOMAIN m[j] = 1..n
    BY <1>3, MatrixBars
  <1>6. k[i] = Apply(f[i], k, old) /\ m[i] = Apply(f[i], m, rows)
    BY <1>3, MatricesAre
  <1>7. /\ f[i].op \in {"Close", "Rank", "Sub", "Delay", "TS_Sum"} /\ Operands(f[i]) \subseteq 1..(i - 1)
        /\ f[i].op \in {"Delay", "TS_Sum"} => f[i].d \in Int /\ f[i].d >= 2
    <2>1. f[i].op \in {"Delay", "TS_Sum"} => f[i].d \in Int
      BY <1>3, FormulaAssumption
    <2>2. f[i].op \in {"Delay", "TS_Sum"} => f[i].d >= 2
      BY <1>3 DEF Evaluable, WindowOk
    <2> QED BY <1>3, <2>1, <2>2, FormulaAssumption
  <1>8. PICK u \in 1..t : k[i][u] # m[i][u]
    BY <1>2
  <1>9. u \in 1..n /\ u \in DOMAIN rows /\ u \in DOMAIN old /\ old[u] = rows[u] /\ u \in Nat /\ t \in Nat
    OBVIOUS
  <1> HIDE DEF k, m, Bad
  <1>10. \A j \in 1..(i - 1) : \A v \in Int : v <= u => RowAt(k[j], v) = RowAt(m[j], v)
    <2> TAKE j \in 1..(i - 1)
    <2> TAKE v \in Int
    <2> HAVE v <= u
    <2>1. CASE v >= 1
      <3>1. v \in 1..t /\ v \in 1..n
        BY <1>9, <2>1
      <3> QED BY <1>4, <1>5, <3>1 DEF RowAt
    <2>2. CASE ~(v >= 1)
      <3>1. v \notin 1..t /\ v \notin 1..n
        BY <2>2
      <3> QED BY <1>5, <3>1 DEF RowAt
    <2> QED BY <2>1, <2>2
  <1>11. CASE f[i].op = "Close"
    BY <1>6, <1>8, <1>9, <1>11 DEF Apply
  <1>12. CASE f[i].op = "Rank"
    <2>1. k[f[i].x][u] = m[f[i].x][u]
      BY <1>4, <1>7, <1>12 DEF Operands
    <2>2. k[i][u] = [s \in Tickers |-> RankOf(k[f[i].x][u], s)]
      BY <1>6, <1>9, <1>12 DEF Apply
    <2>3. m[i][u] = [s \in Tickers |-> RankOf(m[f[i].x][u], s)]
      BY <1>6, <1>9, <1>12 DEF Apply
    <2> QED BY <1>8, <2>1, <2>2, <2>3
  <1>13. CASE f[i].op = "Sub"
    <2>1. k[f[i].x][u] = m[f[i].x][u] /\ k[f[i].y][u] = m[f[i].y][u]
      BY <1>4, <1>7, <1>13 DEF Operands
    <2>2. k[i][u] = [s \in Tickers |-> Minus(k[f[i].x][u][s], k[f[i].y][u][s])]
      BY <1>6, <1>9, <1>13 DEF Apply
    <2>3. m[i][u] = [s \in Tickers |-> Minus(m[f[i].x][u][s], m[f[i].y][u][s])]
      BY <1>6, <1>9, <1>13 DEF Apply
    <2> QED BY <1>8, <2>1, <2>2, <2>3
  <1>14. CASE f[i].op = "Delay"
    <2>1. u - f[i].d \in Int /\ u - f[i].d <= u
      BY <1>7, <1>9, <1>14
    <2>2. f[i].x \in 1..(i - 1)
      BY <1>7, <1>14 DEF Operands
    <2>3. RowAt(k[f[i].x], u - f[i].d) = RowAt(m[f[i].x], u - f[i].d)
      BY <1>10, <2>1, <2>2
    <2>4. k[i][u] = RowAt(k[f[i].x], u - f[i].d) /\ m[i][u] = RowAt(m[f[i].x], u - f[i].d)
      BY <1>6, <1>9, <1>14 DEF Apply
    <2> QED BY <1>8, <2>3, <2>4
  <1>15. CASE f[i].op = "TS_Sum"
    <2> DEFINE a == u - f[i].d + 1
    <2>1. f[i].x \in 1..(i - 1) /\ a \in Int
      BY <1>7, <1>9, <1>15 DEF Operands
    <2> DEFINE w == [v \in a..u |-> RowAt(k[f[i].x], v)]
               z == [v \in a..u |-> RowAt(m[f[i].x], v)]
    <2>2. w = z
      <3>1. \A v \in a..u : v \in Int /\ v <= u
        BY <1>9, <2>1
      <3> HIDE DEF a
      <3> QED BY <1>10, <2>1, <3>1
    <2>3. k[i][u] = [s \in Tickers |-> WindowSum(w, s)]
      BY <1>6, <1>9, <1>15 DEF Apply
    <2>4. m[i][u] = [s \in Tickers |-> WindowSum(z, s)]
      BY <1>6, <1>9, <1>15 DEF Apply
    <2> HIDE DEF w, z
    <2> QED BY <1>8, <2>2, <2>3, <2>4
  <1> QED BY <1>7, <1>11, <1>12, <1>13, <1>14, <1>15

\* Every bar was scored when it was the newest, on the panel that ended there.
PanelInv ==
    /\ formula \in Trees /\ panel \in Seq(PanelRows)
    /\ seen = [t \in 1..Len(panel) |-> LatestCrossSection(formula, LivePanel(SubSeq(panel, 1, t)))]

LEMMA PanelStep == ASSUME PanelInv, [FNext]_fVars PROVE PanelInv'
  <1>1. CASE UNCHANGED fVars
    BY <1>1 DEF PanelInv, fVars
  <1>2. CASE FNext
    <2>1. PICK row \in PanelRows :
             /\ panel' = Append(panel, row) /\ formula' = formula
             /\ seen' = Append(seen, LatestCrossSection(formula, LivePanel(Append(panel, row))))
      BY <1>2 DEF FNext, Settle, PanelRows
    <2> DEFINE n == Len(panel)
               newest == LatestCrossSection(formula, LivePanel(Append(panel, row)))
    <2>2. n \in Nat /\ DOMAIN panel = 1..n /\ panel \in Seq(PanelRows)
      BY DEF PanelInv
    <2>3. panel' \in Seq(PanelRows) /\ Len(panel') = n + 1 /\ DOMAIN panel' = 1..(n + 1)
      BY <2>1, <2>2
    <2>4. \A t \in 1..n : SubSeq(panel', 1, t) = SubSeq(panel, 1, t)
      <3> TAKE t \in 1..n
      <3>1. \A i \in 1..t : Append(panel, row)[i] = panel[i]
        BY <2>2
      <3> QED BY <2>1, <2>2, <3>1
    <2>5. SubSeq(panel', 1, n + 1) = Append(panel, row)
      BY <2>1, <2>2, <2>3
    <2>6. DOMAIN seen' = 1..(n + 1) /\ seen' = [t \in 1..(n + 1) |-> seen'[t]]
          /\ seen'[n + 1] = newest /\ \A t \in 1..n : seen'[t] = seen[t]
      <3> DEFINE Marks == {seen[t] : t \in 1..n} \cup {newest}
      <3>1. seen \in Seq(Marks)
        <4>1. seen \in [1..n -> Marks]
          BY DEF PanelInv
        <4> QED BY <2>2, <4>1
      <3>2. Len(seen) = n
        BY <2>2, <3>1 DEF PanelInv
      <3>3. newest \in Marks
        OBVIOUS
      <3>4. seen' = Append(seen, newest)
        BY <2>1
      <3> HIDE DEF Marks, newest, n
      <3>5. seen' \in Seq(Marks) /\ Len(seen') = n + 1
        BY <2>2, <3>1, <3>2, <3>3, <3>4
      <3>6. \A t \in 1..n : t \in 1..Len(seen) /\ seen'[t] = seen[t]
        BY <2>2, <3>1, <3>2, <3>3, <3>4
      <3>7. seen'[n + 1] = newest
        BY <2>2, <3>1, <3>2, <3>3, <3>4
      <3> QED BY <3>5, <3>6, <3>7
    <2>7. \A t \in 1..(n + 1) : seen'[t] = LatestCrossSection(formula', LivePanel(SubSeq(panel', 1, t)))
      <3> TAKE t \in 1..(n + 1)
      <3>1. CASE t = n + 1
        BY <2>1, <2>5, <2>6, <3>1
      <3>2. CASE t \in 1..n
        BY <2>1, <2>4, <2>6, <3>2 DEF PanelInv
      <3> QED BY <2>2, <3>1, <3>2
    <2> HIDE DEF n, newest
    <2>8. seen' = [t \in 1..(n + 1) |-> LatestCrossSection(formula', LivePanel(SubSeq(panel', 1, t)))]
      BY <2>6, <2>7
    <2> QED BY <2>1, <2>3, <2>8 DEF PanelInv
  <1> QED BY <1>1, <1>2

\* What research can score today was scored live, alike.
LEMMA PanelSafe == ASSUME PanelInv PROVE RescoredIsSame
  <1> SUFFICES ASSUME Evaluable(formula), NEW t \in DOMAIN panel,
                      Changed(SubSeq(panel, 1, t)) = Tickers, Usable(Value(formula, panel)[t])
               PROVE  seen[t] = <<t, Value(formula, panel)[t]>>
    BY DEF RescoredIsSame
  <1> DEFINE n == Len(panel)
             old == [u \in 1..t |-> panel[u]]
  <1>1. n \in Nat /\ DOMAIN panel = 1..n /\ t \in 1..n /\ formula \in Trees /\ Len(formula) \in DOMAIN formula
    BY FormulaAssumption DEF PanelInv
  <1>2. SubSeq(panel, 1, t) = old /\ DOMAIN old = 1..t
    BY <1>1 DEF PanelInv
  <1>3. LivePanel(SubSeq(panel, 1, t)) = old
    <2>1. \A u \in 1..t : panel[u] \in PanelRows
      BY <1>1 DEF PanelInv
    <2>2. \A u \in 1..t : [s \in Tickers |-> panel[u][s]] = panel[u]
      BY <2>1 DEF PanelRows
    <2>3. LivePanel(old) = [u \in 1..t |-> [s \in Tickers |-> IF s \in Changed(old) THEN old[u][s] ELSE NaN]]
      BY <1>2 DEF LivePanel
    <2>4. Changed(old) = Tickers
      BY <1>2
    <2>5. LivePanel(old) = [u \in 1..t |-> [s \in Tickers |-> panel[u][s]]]
      BY <2>3, <2>4
    <2> QED BY <1>2, <2>2, <2>5
  <1>4. \A u \in 1..t : Value(formula, old)[u] = Value(formula, panel)[u]
    <2> HIDE DEF n
    <2> QED BY <1>1, NoLookAhead DEF Value
  <1> DEFINE factor == Value(formula, old)
             ok == {u \in DOMAIN old : Usable(factor[u])}
  <1>5. t \in ok /\ ok \subseteq 0..t
    BY <1>1, <1>2, <1>4
  <1>6. Max(ok) = t
    <2>1. Max(ok) \in ok /\ \A u \in ok : u <= Max(ok)
      <3> HIDE DEF ok, factor
      <3>1. t \in Nat /\ ok # {} /\ ok \in SUBSET (0..t)
        BY <1>1, <1>5
      <3> QED BY <3>1, GreatestIs
    <2>2. Max(ok) \in 0..t /\ t <= Max(ok)
      BY <1>5, <2>1
    <2> QED BY <1>1, <2>2
  <1>7. seen[t] = LatestCrossSection(formula, old)
    BY <1>1, <1>3 DEF PanelInv
  <1>8. LatestCrossSection(formula, old) = <<Max(ok), factor[Max(ok)]>>
    BY <1>5 DEF LatestCrossSection
  <1> HIDE DEF ok
  <1> QED BY <1>1, <1>4, <1>6, <1>7, <1>8

\* Whatever the formula, the symbols and the bars: no window that is evaluated looks ahead.
THEOREM RescoredIsSameHolds == FInit /\ [][FNext]_fVars => []RescoredIsSame
  <1>1. FInit => PanelInv
    BY FormulaAssumption DEF FInit, PanelInv
  <1>2. PanelInv /\ [FNext]_fVars => PanelInv'
    BY PanelStep
  <1>3. PanelInv => RescoredIsSame
    BY PanelSafe
  <1> QED BY <1>1, <1>2, <1>3, PTL

-----------------------------------------------------------------------------
(* Discovery: what is saved passed the corrected threshold.                 *)

\* A saved formula was significant after correction for all those tried before it.
Earned == {e \in [ic : Strengths, p : PValues, tried : Nat] : e.p * e.tried <= PLimit}

DiscoveryInv ==
    /\ timeframe \in 1..TimeframeCount
    /\ tests \in Nat /\ tried = tests
    /\ saved \in [1..TimeframeCount -> [Formulas -> {NoSignal} \cup Earned]]

LEMMA AnswerIs ==
    ASSUME NEW answer \in Answers
    PROVE  /\ Len(answer) \in Nat /\ DOMAIN answer = 1..Len(answer)
           /\ \A i \in DOMAIN answer :
                 Scored(answer, i) => answer[i].ic \in Strengths /\ answer[i].p \in PValues
                                      /\ answer[i].f \in Formulas
  <1>1. PICK n \in 0..NumSignals : answer \in [1..n -> Outcomes]
    BY DEF Answers
  <1>2. n \in Nat
    BY DiscoveryAssumption
  <1>3. Len(answer) = n /\ DOMAIN answer = 1..n
    BY <1>1, <1>2
  <1>4. \A i \in 1..n : answer[i] \in Outcomes
    BY <1>1
  <1>5. \A i \in 1..n : answer[i].kind = "scored" => answer[i].ic \in Strengths /\ answer[i].p \in PValues
                                                   /\ answer[i].f \in Formulas
    BY <1>4 DEF Outcomes
  <1> QED BY <1>2, <1>3, <1>5 DEF Scored

\* However many formulas of an answer were scored, they are counted.
LEMMA CountsAre ==
    ASSUME NEW answer \in Answers, NEW k \in 0..Len(answer)
    PROVE  Cardinality({j \in 1..k : Scored(answer, j)}) \in Nat
  <1>1. k \in Nat
    BY AnswerIs
  <1>2. IsFiniteSet(1..k)
    BY <1>1, FS_Interval
  <1>3. IsFiniteSet({j \in 1..k : Scored(answer, j)})
    BY <1>2, FS_Subset
  <1> QED BY <1>3, FS_CardinalityType

\* Of those accepted one is the strongest, and the first of them is saved.
LEMMA WinnerIs ==
    ASSUME NEW answer \in Answers, Accepted(answer) # {}
    PROVE  Winner(answer) \in Accepted(answer)
  <1> DEFINE A == Accepted(answer)
             Beats(i, j) == answer[j].ic < answer[i].ic \/ (answer[j].ic = answer[i].ic /\ i <= j)
             Best(k) == \E i \in A : i <= k /\ \A j \in A : j <= k => Beats(i, j)
             Bad == {k \in 1..Len(answer) : (\E i \in A : i <= k) /\ ~Best(k)}
  <1>1. Len(answer) \in Nat /\ A \subseteq 1..Len(answer) /\ \A i \in A : answer[i].ic \in Int
    BY AnswerIs, DiscoveryAssumption DEF Accepted
  <1>2. Best(Len(answer))
    <2>1. SUFFICES ASSUME Bad # {} PROVE FALSE
      <3>1. \E i \in A : i <= Len(answer)
        BY <1>1
      <3>2. Len(answer) \in 1..Len(answer)
        BY <1>1, <3>1
      <3> HIDE DEF A, Best
      <3> QED BY <3>1, <3>2
    <2>2. PICK k \in Bad : \A m \in Bad : k <= m
      <3>1. Bad \in SUBSET Nat
        OBVIOUS
      <3> HIDE DEF Bad
      <3> QED BY <2>1, <3>1, LeastIs
    <2>3. k \in 1..Len(answer) /\ k \in Nat /\ ~Best(k) /\ \E i \in A : i <= k
      BY <2>2
    <2> HIDE DEF A, Beats
    <2>4. CASE \E i \in A : i <= k - 1
      <3>0. PICK h \in A : h <= k - 1
        BY <2>4
      <3>a. k - 1 \in 1..Len(answer) /\ ~(k <= k - 1)
        <4>1. h \in 1..Len(answer)
          BY <1>1, <3>0
        <4>2. h \in Nat /\ 1 <= h /\ h <= k - 1 /\ k \in Nat /\ k <= Len(answer) /\ Len(answer) \in Nat
          BY <1>1, <2>3, <3>0, <4>1
        <4> QED BY <4>2
      <3>1. k - 1 \in 1..Len(answer) /\ k - 1 \notin Bad
        BY <2>2, <3>a
      <3>2. Best(k - 1)
        BY <2>4, <3>1
      <3>3. PICK i \in A : i <= k - 1 /\ \A j \in A : j <= k - 1 => Beats(i, j)
        BY <3>2
      <3>b. i \in 1..Len(answer) /\ i <= k
        <4>1. i \in 1..Len(answer)
          BY <1>1, <3>3
        <4>2. i \in Nat /\ i <= k - 1 /\ k \in Nat
          BY <1>1, <2>3, <3>3, <4>1
        <4> QED BY <4>1, <4>2
      <3>4. CASE k \notin A \/ Beats(i, k)
        <4>1. \A j \in A : j <= k => j <= k - 1 \/ j = k
          BY <1>1, <2>3
        <4>2. i <= k /\ \A j \in A : j <= k => Beats(i, j)
          BY <3>3, <3>b, <3>4, <4>1
        <4> QED BY <2>3, <4>2
      <3>5. CASE k \in A /\ ~Beats(i, k)
        <4>1. answer[i].ic < answer[k].ic
          <5>1. answer[i].ic \in Int /\ answer[k].ic \in Int /\ i <= k
            BY <1>1, <3>3, <3>b, <3>5
          <5>2. ~(answer[k].ic < answer[i].ic) /\ answer[k].ic # answer[i].ic
            BY <3>5, <5>1 DEF Beats
          <5> QED BY <5>1, <5>2
        <4>2. \A j \in A : j <= k => Beats(k, j)
          <5> SUFFICES ASSUME NEW j \in A, j <= k PROVE Beats(k, j)
            OBVIOUS
          <5>1. CASE j = k
            BY <1>1, <5>1 DEF Beats
          <5>2. CASE j # k
            <6>1. j <= k - 1
              BY <1>1, <2>3, <5>2
            <6>2. Beats(i, j)
              BY <3>3, <6>1
            <6>3. answer[i].ic \in Int /\ answer[k].ic \in Int /\ answer[j].ic \in Int
              BY <1>1, <3>3, <3>5
            <6>4. answer[j].ic <= answer[i].ic
              BY <6>2, <6>3 DEF Beats
            <6>5. answer[j].ic < answer[k].ic
              BY <4>1, <6>3, <6>4
            <6> QED BY <6>5 DEF Beats
          <5> QED BY <5>1, <5>2
        <4> QED BY <2>3, <3>5, <4>2
      <3> QED BY <3>4, <3>5
    <2>5. CASE ~(\E i \in A : i <= k - 1)
      <3>1. k \in A /\ \A j \in A : j <= k => j = k
        BY <1>1, <2>3, <2>5
      <3>2. Beats(k, k)
        BY <1>1, <3>1 DEF Beats
      <3> QED BY <2>3, <3>1, <3>2
    <2> QED BY <2>4, <2>5
  <1>3. \E i \in A : \A j \in A : Beats(i, j)
    <2>1. \A j \in A : j <= Len(answer)
      BY <1>1
    <2> HIDE DEF A, Beats
    <2> QED BY <1>2, <2>1
  <1> QED BY <1>3 DEF Winner

\* What an answer leaves: the counts agree, and only a winner is saved.
LEMMA OnwardsKeeps ==
    ASSUME DiscoveryInv, Onwards
    PROVE  timeframe' \in 1..TimeframeCount /\ tests' \in Nat /\ tried' = tests'
  <1>1. TimeframeCount \in Nat \ {0}
    BY DiscoveryAssumption
  <1>2. CASE timeframe < TimeframeCount
    BY <1>1, <1>2 DEF Onwards, BeginTimeframe, DiscoveryInv
  <1>3. CASE ~(timeframe < TimeframeCount)
    BY <1>3 DEF Onwards, DiscoveryInv
  <1> QED BY <1>2, <1>3

LEMMA SaveKeeps ==
    ASSUME DiscoveryInv, NEW answer \in Answers, Accepted(answer) # {}, Save(answer)
    PROVE  saved' \in [1..TimeframeCount -> [Formulas -> {NoSignal} \cup Earned]]
  <1> DEFINE w == Winner(answer)
             c == Cardinality({j \in 1..w : Scored(answer, j)})
             e == [ic |-> answer[w].ic, p |-> answer[w].p, tried |-> tried + c]
  <1>1. w \in Accepted(answer)
    BY WinnerIs
  <1>2. w \in 1..Len(answer) /\ Scored(answer, w) /\ answer[w].p * (tests + c) <= PLimit
    BY <1>1, AnswerIs DEF Accepted, CorrectedOk, Ordinal
  <1>3. answer[w].ic \in Strengths /\ answer[w].p \in PValues /\ answer[w].f \in Formulas
    BY <1>2, AnswerIs
  <1>4. c \in Nat
    <2>1. w \in 0..Len(answer)
      BY <1>2, AnswerIs
    <2> HIDE DEF w
    <2> QED BY <2>1, CountsAre
  <1>5. saved' = [saved EXCEPT ![timeframe][answer[w].f] = e]
    BY DEF Save
  <1> HIDE DEF w, c
  <1>6. e \in Earned
    <2>1. tried + c = tests + c /\ tried + c \in Nat
      BY <1>4 DEF DiscoveryInv
    <2> QED BY <1>2, <1>3, <2>1 DEF Earned
  <1> HIDE DEF e
  <1> QED BY <1>3, <1>5, <1>6 DEF DiscoveryInv

LEMMA EvaluateKeeps ==
    ASSUME DiscoveryInv, NEW answer \in Answers, Evaluate(answer)
    PROVE  DiscoveryInv'
  <1> DEFINE n == Len(answer)
             c == Cardinality({j \in 1..n : Scored(answer, j)})
  <1>1. CASE Onwards /\ UNCHANGED saved
    BY <1>1, OnwardsKeeps DEF DiscoveryInv
  <1>2. CASE Accepted(answer) # {} /\ Save(answer) /\ Onwards
    BY <1>2, OnwardsKeeps, SaveKeeps DEF DiscoveryInv
  <1>3. CASE tests' = tests + c /\ tried' = tried + c /\ UNCHANGED <<timeframe, saved>>
    <2>1. n \in 0..Len(answer)
      BY AnswerIs
    <2>2. c \in Nat
      BY <2>1, CountsAre
    <2> HIDE DEF c
    <2> QED BY <1>3, <2>2 DEF DiscoveryInv
  <1> QED BY <1>1, <1>2, <1>3 DEF Evaluate, Ordinal

LEMMA DiscoveryStep == ASSUME DiscoveryInv, [SNext]_sVars PROVE DiscoveryInv'
  <1>1. CASE UNCHANGED sVars
    BY <1>1 DEF DiscoveryInv, sVars
  <1>2. CASE MaybeStart \/ ForceRun \/ WorkerRestarts
    <2>1. BeginTimeframe(1) /\ UNCHANGED saved
      BY <1>2 DEF MaybeStart, ForceRun, WorkerRestarts, StartRun
    <2> QED BY <2>1, DiscoveryAssumption DEF BeginTimeframe, DiscoveryInv
  <1>3. CASE BuildPanel \/ CallFails
    <2>1. UNCHANGED saved /\ (Onwards \/ UNCHANGED <<timeframe, tests, tried>>)
      BY <1>3 DEF BuildPanel, CallFails
    <2> QED BY <2>1, OnwardsKeeps DEF DiscoveryInv
  <1>4. CASE Generate
    BY <1>4, EvaluateKeeps DEF Generate
  <1>5. CASE Feedback \/ Stamp \/ Hour
    BY <1>5 DEF Feedback, Stamp, Hour, search, DiscoveryInv
  <1> QED BY <1>1, <1>2, <1>3, <1>4, <1>5 DEF SNext

\* A formula that tilts live probabilities was significant after correction for every
\* formula its run had scored before it, whatever failed, restarted or was forced.
THEOREM LiveSignalsEarnedItHolds == SInit /\ [][SNext]_sVars => []LiveSignalsEarnedIt
  <1>1. SInit => DiscoveryInv
    BY DiscoveryAssumption DEF SInit, SStartsAt, DiscoveryInv
  <1>2. DiscoveryInv /\ [SNext]_sVars => DiscoveryInv'
    BY DiscoveryStep
  <1>3. DiscoveryInv => LiveSignalsEarnedIt
    <2> SUFFICES ASSUME DiscoveryInv, NEW t \in 1..TimeframeCount, NEW f \in LoadAccepted(t)
                 PROVE  saved[t][f].ic >= icLimit /\ saved[t][f].p * saved[t][f].tried <= PLimit
      BY DEF LiveSignalsEarnedIt
    <2>1. saved[t][f] \in Earned
      BY DEF DiscoveryInv, LoadAccepted
    <2> QED BY <2>1 DEF Earned, LoadAccepted
  <1> QED BY <1>1, <1>2, <1>3, PTL

-----------------------------------------------------------------------------
(* Walk-forward: an entry belongs to one fold, and what is counted is net.   *)

LEMMA PairIs ==
    ASSUME NEW a \in Int, NEW b \in Int
    PROVE  /\ Min({a, b}) \in {a, b} /\ Min({a, b}) <= a /\ Min({a, b}) <= b
           /\ Max({a, b}) \in {a, b} /\ Max({a, b}) >= a /\ Max({a, b}) >= b
  <1>1. \E x \in {a, b} : \A y \in {a, b} : x <= y
    OBVIOUS
  <1>2. \E x \in {a, b} : \A y \in {a, b} : x >= y
    OBVIOUS
  <1>3. Min({a, b}) \in {a, b} /\ \A y \in {a, b} : Min({a, b}) <= y
    BY <1>1 DEF Min
  <1>4. Max({a, b}) \in {a, b} /\ \A y \in {a, b} : Max({a, b}) >= y
    BY <1>2 DEF Max
  <1> QED BY <1>3, <1>4

\* The k-th window after the warm-up, where it begins and ends, and the least it must hold.
From(k) == Warmup + k * TestBars
Until(k) == Min({From(k) + TestBars, Length})
Least == Max({MinRemnant, TestBars \div 2})

LEMMA WindowsAre ==
    /\ Least \in Nat \ {0}
    /\ \A k \in Nat : /\ From(k) \in Nat /\ k <= From(k)
                      /\ Until(k) \in {From(k) + TestBars, Length} /\ Until(k) \in Nat
                      /\ Until(k) <= From(k) + TestBars /\ Until(k) <= Length
    /\ \A j, k \in Nat : j < k => From(j) + TestBars <= From(k)
    /\ \A k \in Nat : From(k + 1) = From(k) + TestBars
    /\ \A f : f \in Folds <=> \E k \in 0..Length : f = <<From(k), Until(k)>> /\ Until(k) - From(k) >= Least
  <1>0. TestBars \in Nat \ {0} /\ Length \in Nat \ {0} /\ MinRemnant \in Nat \ {0} /\ Warmup \in Nat
    BY WalkAssumption
  <1>1. Least \in Nat \ {0}
    <2>1. TestBars \div 2 \in Nat
      BY <1>0
    <2>2. Least \in {MinRemnant, TestBars \div 2} /\ Least >= MinRemnant
      BY <1>0, <2>1, PairIs DEF Least
    <2> QED BY <1>0, <2>1, <2>2
  <1>2. \A k \in Nat : From(k) \in Nat /\ k <= From(k)
    <2> TAKE k \in Nat
    <2>1. k * TestBars \in Nat /\ k <= k * TestBars
      <3>1. \A a \in Nat, b \in Nat \ {0} : a * b \in Nat /\ a <= a * b
        <4> TAKE a \in Nat, b \in Nat \ {0}
        <4>1. b - 1 \in Nat /\ a * (b - 1) \in Nat
          OBVIOUS
        <4>2. a * b = a * (b - 1) + a
          OBVIOUS
        <4> HIDE <4>2
        <4> QED BY <4>1, <4>2
      <3> QED BY <1>0, <3>1
    <2> QED BY <1>0, <2>1 DEF From
  <1>3. \A k \in Nat : /\ Until(k) \in {From(k) + TestBars, Length} /\ Until(k) \in Nat
                       /\ Until(k) <= From(k) + TestBars /\ Until(k) <= Length
    <2> TAKE k \in Nat
    <2>1. From(k) + TestBars \in Nat
      BY <1>0, <1>2
    <2> QED BY <1>0, <2>1, PairIs DEF Until
  <1>4. \A k \in Nat : From(k + 1) = From(k) + TestBars
    <2> TAKE k \in Nat
    <2>1. \A a, b \in Nat : (a + 1) * b = a * b + b /\ a * b \in Nat
      OBVIOUS
    <2>2. (k + 1) * TestBars = k * TestBars + TestBars /\ k * TestBars \in Nat
      BY <1>0, <2>1
    <2> QED BY <1>0, <2>2 DEF From
  <1>5. \A j, k \in Nat : j < k => From(j) + TestBars <= From(k)
    <2> SUFFICES ASSUME NEW j \in Nat, NEW k \in Nat, j < k PROVE From(j) + TestBars <= From(k)
      OBVIOUS
    <2> DEFINE d == k - j - 1
    <2>1. d \in Nat /\ k = j + 1 + d
      OBVIOUS
    <2> HIDE DEF d
    <2>2. \A a, b, c \in Nat : (a + 1 + c) * b = a * b + b + c * b /\ a * b \in Nat /\ c * b \in Nat
      OBVIOUS
    <2>3. k * TestBars = j * TestBars + TestBars + d * TestBars /\ j * TestBars \in Nat /\ d * TestBars \in Nat
      BY <1>0, <2>1, <2>2
    <2> QED BY <1>0, <2>3 DEF From
  <1>6. \A f : f \in Folds <=> \E k \in 0..Length : f = <<From(k), Until(k)>> /\ Until(k) - From(k) >= Least
    BY DEF Folds, FoldStarts, From, Until, Least
  <1> QED BY <1>1, <1>2, <1>3, <1>4, <1>5, <1>6

\* The folds leave no gap between the warm-up and the end of the last, and do not overlap.
LEMMA OneFold ==
    ASSUME NEW p \in 0..(Length - 1)
    PROVE  LET end == Max({f[2] : f \in Folds} \cup {Warmup})
           IN Cardinality({f \in Folds : f[1] <= p /\ p < f[2]})
                = IF Warmup <= p /\ p < end THEN 1 ELSE 0
  <1> DEFINE Ends == {f[2] : f \in Folds} \cup {Warmup}
             end == Max(Ends)
             Around == {f \in Folds : f[1] <= p /\ p < f[2]}
  <1>0. TestBars \in Nat \ {0} /\ Length \in Nat \ {0} /\ Warmup \in Nat /\ p \in Nat /\ Least \in Nat \ {0}
    BY WalkAssumption, WindowsAre
  <1>1. \A f \in Folds : \E k \in 0..Length : f = <<From(k), Until(k)>> /\ Until(k) - From(k) >= Least
    BY WindowsAre
  <1>2. \A k \in 0..Length :
           /\ k \in Nat /\ From(k) \in Nat /\ k <= From(k) /\ Until(k) \in Nat
           /\ Until(k) <= From(k) + TestBars /\ Until(k) <= Length
           /\ Until(k) \in {From(k) + TestBars, Length}
    BY <1>0, WindowsAre
  <1>3. \A f \in Folds : f[1] \in Nat /\ f[2] \in Nat /\ f[2] <= Length /\ f[1] >= Warmup
    <2> TAKE f \in Folds
    <2>1. PICK k \in 0..Length : f = <<From(k), Until(k)>>
      BY <1>1
    <2>2. From(k) >= Warmup
      <3>1. From(0) = Warmup
        BY <1>0 DEF From
      <3>2. CASE k = 0
        BY <1>0, <3>1, <3>2
      <3>3. CASE 0 < k
        BY <1>0, <1>2, <3>1, <3>3, WindowsAre
      <3> QED BY <3>2, <3>3
    <2>3. f[1] = From(k) /\ f[2] = Until(k)
      BY <2>1
    <2> QED BY <1>2, <2>2, <2>3
  <1>4. end \in Ends /\ \A e \in Ends : e <= end
    <2> DEFINE top == Length + Warmup
    <2>1. top \in Nat /\ Ends \in SUBSET (0..top) /\ Ends # {}
      BY <1>0, <1>3
    <2> HIDE DEF Ends, top
    <2> QED BY <2>1, GreatestIs
  <1>5. \A f, g \in Around : f = g
    <2> TAKE f, g \in Around
    <2>1. PICK k \in 0..Length : f = <<From(k), Until(k)>>
      BY <1>1
    <2>2. PICK j \in 0..Length : g = <<From(j), Until(j)>>
      BY <1>1
    <2>3. From(k) <= p /\ p < Until(k) /\ From(j) <= p /\ p < Until(j)
      BY <2>1, <2>2
    <2>4. ~(j < k)
      <3> SUFFICES ASSUME j < k PROVE FALSE
        OBVIOUS
      <3>1. From(j) + TestBars <= From(k)
        BY <1>2, WindowsAre
      <3>2. Until(j) <= From(j) + TestBars
        BY <1>2
      <3> QED BY <1>0, <1>2, <2>3, <3>1, <3>2
    <2>5. ~(k < j)
      <3> SUFFICES ASSUME k < j PROVE FALSE
        OBVIOUS
      <3>1. From(k) + TestBars <= From(j)
        BY <1>2, WindowsAre
      <3>2. Until(k) <= From(k) + TestBars
        BY <1>2
      <3> QED BY <1>0, <1>2, <2>3, <3>1, <3>2
    <2>6. k = j
      BY <1>2, <2>4, <2>5
    <2> QED BY <2>1, <2>2, <2>6
  <1>6. CASE ~(Warmup <= p /\ p < end)
    <2>1. Around = {}
      <3> SUFFICES ASSUME NEW f \in Around PROVE FALSE
        OBVIOUS
      <3>1. f[1] >= Warmup /\ f[1] <= p /\ p < f[2] /\ f[2] <= end /\ f[1] \in Nat /\ f[2] \in Nat
        BY <1>3, <1>4
      <3>2. end \in Nat
        <4> HIDE DEF end
        <4> QED BY <1>0, <1>3, <1>4
      <3> HIDE DEF end, Around
      <3> QED BY <1>0, <1>6, <3>1, <3>2
    <2>2. Cardinality(Around) = 0
      BY <2>1, FS_EmptySet
    <2> QED BY <1>6, <2>2
  <1>7. CASE Warmup <= p /\ p < end
    <2>1. PICK f \in Folds : f[2] = end
      <3> HIDE DEF end
      <3> QED BY <1>0, <1>4, <1>7
    <2>2. PICK k \in 0..Length : f = <<From(k), Until(k)>> /\ Until(k) - From(k) >= Least
      BY <1>1
    <2> HIDE DEF end
    <2>3. p < Until(k)
      BY <1>7, <2>1, <2>2
    <2>4. CASE From(k) <= p
      <3>1. f \in Around
        BY <2>2, <2>3, <2>4
      <3>2. Around = {f}
        <4> HIDE DEF Around
        <4> QED BY <1>5, <3>1
      <3>3. Cardinality({f}) = 1
        BY FS_Singleton
      <3>4. Cardinality(Around) = 1
        <4> HIDE DEF Around
        <4> QED BY <3>2, <3>3
      <3> QED BY <1>7, <3>4 DEF end
    <2>5. CASE p < From(k)
      <3> DEFINE Later == {j \in Nat : p < From(j + 1)}
      <3>0. k # 0 /\ k - 1 \in Nat /\ (k - 1) + 1 = k
        <4>1. From(0) = Warmup
          BY <1>0 DEF From
        <4> QED BY <1>0, <1>2, <1>7, <2>5, <4>1
      <3>1. k - 1 \in Later
        BY <2>5, <3>0
      <3>2. PICK j \in Later : \A i \in Later : j <= i
        <4>1. Later \in SUBSET Nat /\ Later # {}
          BY <3>1
        <4> HIDE DEF Later
        <4> QED BY <4>1, LeastIs
      <3>3. j \in Nat /\ j < k /\ j \in 0..Length /\ p < From(j) + TestBars
        <4>1. j <= k - 1 /\ j \in Nat /\ p < From(j + 1)
          BY <3>1, <3>2
        <4> HIDE DEF Later
        <4>2. From(j + 1) = From(j) + TestBars
          BY <4>1, WindowsAre
        <4>3. k \in 0..Length /\ k \in Nat /\ Length \in Nat
          BY <1>0
        <4> QED BY <3>0, <4>1, <4>2, <4>3
      <3>4. From(j) <= p
        <4>1. CASE j = 0
          BY <1>0, <1>7, <4>1 DEF From
        <4>2. CASE j # 0
          <5>1. j - 1 \in Nat /\ (j - 1) + 1 = j /\ ~(j <= j - 1)
            BY <3>3, <4>2
          <5>2. ~(p < From(j))
            BY <3>2, <5>1
          <5> QED BY <1>0, <1>2, <3>3, <5>2
        <4> QED BY <4>1, <4>2
      <3> HIDE DEF Later
      <3>5. From(j) + TestBars <= From(k) /\ From(k) < Length
        <4>1. From(j) + TestBars <= From(k)
          BY <1>2, <3>3, WindowsAre
        <4> QED BY <1>0, <1>2, <2>2, <4>1
      <3>6. Until(j) = From(j) + TestBars
        BY <1>0, <1>2, <3>3, <3>5
      <3>7. Until(j) - From(j) >= Least
        <4>1. Until(k) - From(k) <= TestBars
          BY <1>0, <1>2
        <4>2. Least <= TestBars
          BY <1>0, <1>2, <2>2, <4>1
        <4> QED BY <1>0, <1>2, <3>3, <3>6, <4>2
      <3> DEFINE g == <<From(j), Until(j)>>
      <3>8. g \in Folds
        BY <3>3, <3>7, WindowsAre
      <3>9. g \in Around
        BY <3>3, <3>4, <3>6, <3>8
      <3>10. Around = {g}
        <4> HIDE DEF Around, g
        <4> QED BY <1>5, <3>9
      <3> HIDE DEF g
      <3>11. Cardinality({g}) = 1
        BY FS_Singleton
      <3>12. Cardinality(Around) = 1
        <4> HIDE DEF Around
        <4> QED BY <3>10, <3>11
      <3> QED BY <1>7, <3>12 DEF end
    <2> QED BY <1>0, <1>2, <2>4, <2>5
  <1> QED BY <1>6, <1>7

\* A sequence, of whatever.
IsSequence(s) == \E S : s \in Seq(S)

LEMMA AppendIs ==
    ASSUME NEW s, IsSequence(s), NEW x
    PROVE  /\ Len(s) \in Nat /\ DOMAIN s = 1..Len(s) /\ IsSequence(Append(s, x))
           /\ DOMAIN Append(s, x) = 1..(Len(s) + 1)
           /\ Append(s, x)[Len(s) + 1] = x
           /\ \A i \in 1..Len(s) : Append(s, x)[i] = s[i]
  <1>1. PICK S : s \in Seq(S)
    BY DEF IsSequence
  <1> DEFINE T == S \cup {x}
  <1>2. s \in Seq(T) /\ x \in T
    BY <1>1
  <1> HIDE DEF T
  <1>3. Append(s, x) \in Seq(T)
    BY <1>2
  <1>4. IsSequence(Append(s, x))
    BY <1>3 DEF IsSequence
  <1> QED BY <1>2, <1>4

\* An exit books what the entry was charged and earned ...
TradeOk(t) == t.at \in 0..(Length - 1) /\ t.pnl = t.fills - t.charges

\* ... and a report counts the trades alike in its two sums.
WalkInv ==
    /\ bar \in Nat /\ (Open => entry.at \in 0..(Length - 1))
    /\ IsSequence(trades) /\ \A i \in DOMAIN trades : TradeOk(trades[i])
    /\ IsSequence(reports) /\ \A i \in DOMAIN reports : reports[i].pnl = reports[i].earned
    /\ verdict = "VALIDATED" => name \notin Names /\ Total([i \in DOMAIN reports |-> reports[i].earned]) > 0

LEMMA ExitKeeps ==
    ASSUME WalkInv, Open, NEW price, NEW when, Exit(price, when)
    PROVE  IsSequence(trades') /\ (\A i \in DOMAIN trades' : TradeOk(trades'[i])) /\ ~Open'
  <1> DEFINE fill == FillPrice(price, "SELL")
             charge == Charges(fill)
             gross == fill - entry.price
             t == [at |-> entry.at, out |-> when, fills |-> gross, charges |-> entry.charge + charge,
                   pnl |-> NetPnl(gross, entry.charge, charge)]
  <1>1. trades' = Append(trades, t) /\ ~Open'
    BY DEF Exit, Open
  <1>2. TradeOk(t)
    BY DEF WalkInv, TradeOk, NetPnl
  <1> HIDE DEF t
  <1>3. /\ Len(trades) \in Nat /\ IsSequence(trades') /\ DOMAIN trades' = 1..(Len(trades) + 1)
        /\ DOMAIN trades = 1..Len(trades)
        /\ trades'[Len(trades) + 1] = t /\ \A i \in 1..Len(trades) : trades'[i] = trades[i]
    BY <1>1, AppendIs DEF WalkInv
  <1>4. \A i \in DOMAIN trades' : TradeOk(trades'[i])
    <2> TAKE i \in DOMAIN trades'
    <2>1. CASE i = Len(trades) + 1
      BY <1>2, <1>3, <2>1
    <2>2. CASE i \in 1..Len(trades)
      <3>1. TradeOk(trades[i])
        BY <1>3, <2>2 DEF WalkInv
      <3> QED BY <1>3, <2>2, <3>1
    <2> QED BY <1>3, <2>1, <2>2
  <1> QED BY <1>1, <1>3, <1>4

LEMMA ReportIsNet == ASSUME WalkInv PROVE Report.pnl = Report.earned
  <1> DEFINE booked == [i \in DOMAIN trades |-> IF i \in Oos THEN trades[i].pnl ELSE 0]
             net == [i \in DOMAIN trades |-> IF i \in Oos THEN trades[i].fills - trades[i].charges ELSE 0]
  <1>1. \A i \in DOMAIN trades : trades[i].pnl = trades[i].fills - trades[i].charges
    BY DEF WalkInv, TradeOk
  <1>2. booked = net
    BY <1>1
  <1>3. Report.pnl = Total(booked) /\ Report.earned = Total(net)
    BY DEF Report, Pnl
  <1> HIDE DEF booked, net
  <1> QED BY <1>2, <1>3

LEMMA WalkStep == ASSUME WalkInv, [WNext]_wVars PROVE WalkInv'
  <1>0. Length \in Nat \ {0}
    BY WalkAssumption
  <1>1. CASE UNCHANGED wVars
    BY <1>1 DEF WalkInv, wVars, Open
  <1>2. CASE name \in Names /\ Bar
    <2>1. bar \in 0..(Length - 1) /\ bar' = bar + 1 /\ UNCHANGED <<name, reports, verdict>>
      BY <1>0, <1>2 DEF Bar, WalkInv
    <2>2. PICK price \in Prices, signal \in Signals(bar) :
             IF signal = "BUY" /\ ~Open THEN Enter(price, bar)
             ELSE IF signal = "SELL" /\ Open THEN Exit(price, bar)
             ELSE UNCHANGED <<capital, trades, entry>>
      BY <1>2 DEF Bar
    <2>3. CASE Enter(price, bar)
      BY <2>1, <2>3 DEF Enter, WalkInv, Open
    <2>4. CASE Open /\ Exit(price, bar)
      BY <2>1, <2>4, ExitKeeps DEF WalkInv
    <2>5. CASE UNCHANGED <<capital, trades, entry>>
      BY <2>1, <2>5 DEF WalkInv, Open
    <2> QED BY <2>2, <2>3, <2>4, <2>5
  <1>3. CASE name \in Names /\ CloseOut
    <2>1. Open /\ Exit(close, Length - 1) /\ UNCHANGED <<name, bar, close, reports, verdict>>
      BY <1>3 DEF CloseOut
    <2> QED BY <2>1, ExitKeeps DEF WalkInv
  <1>4. CASE name \in Names /\ RunWalkForward
    <2>1. /\ reports' = Append(reports, Report) /\ trades' = <<>> /\ bar' = Lookback
          /\ ~Open /\ entry' = entry /\ verdict' = verdict
      BY <1>4 DEF RunWalkForward
    <2>2. IsSequence(trades') /\ DOMAIN trades' = {}
      <3>1. <<>> \in Seq(Nat) /\ DOMAIN <<>> = {}
        OBVIOUS
      <3> QED BY <2>1, <3>1 DEF IsSequence
    <2>3. /\ IsSequence(reports') /\ Len(reports) \in Nat /\ DOMAIN reports = 1..Len(reports)
          /\ DOMAIN reports' = 1..(Len(reports) + 1)
          /\ reports'[Len(reports) + 1] = Report /\ \A i \in 1..Len(reports) : reports'[i] = reports[i]
      BY <2>1, AppendIs DEF WalkInv
    <2>4. \A i \in DOMAIN reports' : reports'[i].pnl = reports'[i].earned
      <3> TAKE i \in DOMAIN reports'
      <3>1. CASE i = Len(reports) + 1
        <4> HIDE DEF Report
        <4> QED BY <2>3, <3>1, ReportIsNet
      <3>2. CASE i \in 1..Len(reports)
        <4>1. reports[i].pnl = reports[i].earned
          BY <2>3, <3>2 DEF WalkInv
        <4> QED BY <2>3, <3>2, <4>1
      <3> QED BY <2>3, <3>1, <3>2
    <2>5. verdict' # "VALIDATED"
      BY <1>4, <2>1 DEF WalkInv
    <2>6. bar' \in Nat /\ ~Open'
      BY <2>1, WalkAssumption DEF Open
    <2> QED BY <2>2, <2>3, <2>4, <2>5, <2>6 DEF WalkInv
  <1>5. CASE Aggregate
    <2>1. name \notin Names /\ UNCHANGED <<name, bar, close, entry, capital, trades, reports>>
      BY <1>5 DEF Aggregate
    <2>2. verdict' = "VALIDATED" => Total([i \in DOMAIN reports |-> reports[i].pnl]) > 0
      BY <1>5 DEF Aggregate
    <2>3. [i \in DOMAIN reports |-> reports[i].pnl] = [i \in DOMAIN reports |-> reports[i].earned]
      BY DEF WalkInv
    <2>4. Total([i \in DOMAIN reports |-> reports[i].pnl]) = Total([i \in DOMAIN reports |-> reports[i].earned])
      BY <2>3
    <2> QED BY <2>1, <2>2, <2>4 DEF WalkInv, Open
  <1> QED BY <1>1, <1>2, <1>3, <1>4, <1>5 DEF WNext

LEMMA WalkSafe == ASSUME WalkInv PROVE VerdictIsEarned
  <1>1. OosCountedOnce
    <2> SUFFICES ASSUME NEW i \in DOMAIN trades
                 PROVE  LET end == Max({f[2] : f \in Folds} \cup {Warmup})
                            p == EntryPosition(trades[i])
                        IN Cardinality({f \in Folds : f[1] <= p /\ p < f[2]})
                             = IF Warmup <= p /\ p < end THEN 1 ELSE 0
      BY DEF OosCountedOnce
    <2> DEFINE dated == {j \in 0..(Length - 1) : Date(j) = Date(trades[i].at)}
    <2>1. dated \in SUBSET Nat /\ trades[i].at \in dated
      BY DEF WalkInv, TradeOk
    <2>2. Min(dated) \in dated
      <3> HIDE DEF dated
      <3> QED BY <2>1, LeastIs
    <2>3. EntryPosition(trades[i]) \in 0..(Length - 1)
      <3>1. EntryPosition(trades[i]) = Min(dated)
        BY DEF EntryPosition
      <3>2. Min(dated) \in 0..(Length - 1)
        BY <2>2
      <3> QED BY <3>1, <3>2
    <2> HIDE DEF dated
    <2> QED BY <2>3, OneFold
  <1>2. VerdictIsNet
    BY DEF WalkInv, VerdictIsNet
  <1> QED BY <1>1, <1>2 DEF VerdictIsEarned

LEMMA WalkStarts == ASSUME WInit PROVE WalkInv
  <1>1. <<>> \in Seq(Nat) /\ DOMAIN <<>> = {}
    OBVIOUS
  <1>2. IsSequence(trades) /\ IsSequence(reports) /\ DOMAIN trades = {} /\ DOMAIN reports = {}
    BY <1>1 DEF WInit, IsSequence
  <1> QED BY <1>2, WalkAssumption DEF WInit, WalkInv, Open

\* A verdict was earned outside the warm-up, each entry in one fold, after all charges:
\* for any bars, folds, prices, signals and costs.
THEOREM VerdictIsEarnedHolds == WInit /\ [][WNext]_wVars => []VerdictIsEarned
  <1>1. WInit => WalkInv
    BY WalkStarts
  <1>2. WalkInv /\ [WNext]_wVars => WalkInv'
    BY WalkStep
  <1>3. WalkInv => VerdictIsEarned
    BY WalkSafe
  <1> QED BY <1>1, <1>2, <1>3, PTL

-----------------------------------------------------------------------------
(* Candles: derived rows that are kept are those of the rows in memory.      *)

\* The native rows that went into the derived ones.
Cached == {s \in Slots : \E n : <<s, n>> \in derived.of[SessionBucket(s)]}

\* No row that was there when they were derived is lost before they are derived again,
\* also when a reader writes back a copy of the frame that quotes were appended to since.
KeptInv ==
    /\ DOMAIN frame = Slots /\ DOMAIN reader.copy = Slots
    /\ reader = [at |-> reader.at, wants |-> reader.wants, copy |-> reader.copy,
                 got |-> reader.got, since |-> reader.since]
    /\ derived.token # {} =>
          /\ Cached # {} /\ derived.token = {<<Max(Cached), Cardinality(Cached)>>}
          /\ Cached \subseteq Rows(frame)
          /\ reader.at \in {"store", "ask", "merge"} => Cached \subseteq Rows(reader.copy)

LEMMA BucketsAre ==
    \A s \in Slots : SessionBucket(s) \in Slots /\ SessionBucket(s) = Bucket(s)
  <1> TAKE s \in Slots
  <1>1. s \in Nat \ {0} /\ Session \in Nat
    BY HistoryAssumption DEF Slots
  <1> DEFINE q == (s - 1) \div 2
             r == (s - 1) % 2
  <1>2. q \in Nat /\ r \in {0, 1} /\ s - 1 = 2 * q + r
    BY <1>1
  <1> HIDE DEF q, r
  <1>3. 2 * q + 1 \in 1..s /\ s - r = 2 * q + 1
    BY <1>1, <1>2
  <1> QED BY <1>1, <1>3 DEF q, r, SessionBucket, Bucket, Slots

\* Every row goes into its bucket.
LEMMA ResampleIs ==
    ASSUME NEW f
    PROVE  {s \in Slots : \E n : <<s, n>> \in Resample(f)[SessionBucket(s)]} = Rows(f)
  <1>1. \A s \in Slots : \A n : <<s, n>> \in Resample(f)[SessionBucket(s)] <=> n \in f[s]
    <2> TAKE s \in Slots
    <2>1. Resample(f)[SessionBucket(s)]
            = UNION {{<<t, n>> : n \in f[t]} : t \in {t \in Slots : SessionBucket(t) = SessionBucket(s)}}
      BY BucketsAre DEF Resample
    <2> QED BY <2>1
  <1> QED BY <1>1 DEF Rows

LEMMA RowsAreFinite == ASSUME NEW f PROVE IsFiniteSet(Rows(f)) /\ Rows(f) \subseteq Slots
  <1>1. IsFiniteSet(Slots)
    BY HistoryAssumption, FS_Interval DEF Slots
  <1> QED BY <1>1, FS_Subset DEF Rows

\* Rows under the same token are the same rows.
LEMMA DeriveIs ==
    ASSUME KeptInv, Rows(frame) # {}
    PROVE  {s \in Slots : \E n : <<s, n>> \in Derive(frame)[SessionBucket(s)]} = Rows(frame)
  <1>1. CASE derived.token = Token(frame)
    <2>1. Token(frame) = {<<Max(Rows(frame)), Cardinality(Rows(frame))>>}
      BY DEF Token
    <2>2. derived.token # {} /\ derived.token = {<<Max(Cached), Cardinality(Cached)>>} /\ Cached \subseteq Rows(frame)
      BY <1>1, <2>1 DEF KeptInv
    <2>3. Cardinality(Cached) = Cardinality(Rows(frame))
      <3>1. \A x, y : {x} = {y} => x = y
        OBVIOUS
      <3>2. \A a, b, c, d : <<a, b>> = <<c, d>> => b = d
        OBVIOUS
      <3>3. {<<Max(Cached), Cardinality(Cached)>>} = {<<Max(Rows(frame)), Cardinality(Rows(frame))>>}
        BY <1>1, <2>1, <2>2
      <3>4. <<Max(Cached), Cardinality(Cached)>> = <<Max(Rows(frame)), Cardinality(Rows(frame))>>
        BY <3>1, <3>3
      <3> QED BY <3>2, <3>4
    <2>4. Cached = Rows(frame)
      BY <2>2, <2>3, RowsAreFinite, FS_Subset
    <2>5. Derive(frame) = derived.of
      BY <1>1, <2>2 DEF Derive
    <2> QED BY <2>4, <2>5 DEF Cached
  <1>2. CASE derived.token # Token(frame)
    <2>1. Derive(frame) = Resample(frame)
      BY <1>2 DEF Derive
    <2> QED BY <2>1, ResampleIs
  <1> QED BY <1>1, <1>2

LEMMA MergeIs ==
    ASSUME NEW f, NEW g
    PROVE  DOMAIN Merge(f, g) = Slots /\ Rows(f) \subseteq Rows(Merge(f, g)) /\ Rows(g) \subseteq Rows(Merge(f, g))
  BY DEF Merge, Rows

LEMMA KeptStep == ASSUME KeptInv, [HNext]_hVars PROVE KeptInv'
  <1>1. CASE UNCHANGED hVars
    BY <1>1 DEF KeptInv, hVars, memory, Cached, Rows
  <1>2. CASE Trade \/ HTick
    BY <1>2 DEF Trade, HTick, KeptInv, memory, Cached, Rows
  <1>3. CASE AppendQuote
    <2>1. frame' = Appended(frame, last, tape[last]) /\ UNCHANGED <<derived, reader>>
      BY <1>3 DEF AppendQuote
    <2>2. DOMAIN frame' = Slots /\ Rows(frame) \subseteq Rows(frame)'
      BY <2>1 DEF KeptInv, Appended, Rows
    <2>3. Cached' = Cached
      BY <2>1 DEF Cached
    <2> QED BY <2>1, <2>2, <2>3 DEF KeptInv
  <1>4. CASE \E wants \in {"native", "derived"} : Read(wants)
    <2>1. UNCHANGED <<frame, derived>> /\ \E stage, wants : reader' = [Resting EXCEPT !.at = stage, !.wants = wants, !.copy = frame]
      BY <1>4 DEF Read, memory
    <2>2. \E stage, wants : reader' = [at |-> stage, wants |-> wants, copy |-> frame, got |-> NoRows, since |-> 0]
      BY <2>1 DEF Resting
    <2>3. reader'.copy = frame /\ reader' = [at |-> reader'.at, wants |-> reader'.wants, copy |-> reader'.copy,
                                             got |-> reader'.got, since |-> reader'.since]
      BY <2>2
    <2>4. Cached' = Cached /\ Rows(frame)' = Rows(frame) /\ Rows(reader.copy)' = Rows(frame)
      BY <2>1, <2>3 DEF Cached, Rows
    <2> QED BY <2>1, <2>3, <2>4 DEF KeptInv
  <1>5. CASE ReadStore
    <2>1. PICK stored \in StoredPrefix :
             /\ frame' = IF Rows(Merge(stored, reader.copy)) = {} THEN frame ELSE Merge(stored, reader.copy)
             /\ reader' = [reader EXCEPT !.at = "ask", !.copy = Merge(stored, reader.copy)]
             /\ derived' = derived /\ reader.at = "store"
      BY <1>5 DEF ReadStore
    <2> DEFINE merged == Merge(stored, reader.copy)
    <2>2. reader' = [at |-> "ask", wants |-> reader.wants, copy |-> merged, got |-> reader.got, since |-> reader.since]
      BY <2>1 DEF KeptInv
    <2>3. DOMAIN merged = Slots /\ Rows(reader.copy) \subseteq Rows(merged)
      BY MergeIs
    <2> HIDE DEF merged
    <2>4. reader'.copy = merged /\ reader' = [at |-> reader'.at, wants |-> reader'.wants, copy |-> reader'.copy,
                                              got |-> reader'.got, since |-> reader'.since]
      BY <2>2
    <2>5. Cached' = Cached /\ Rows(reader.copy)' = Rows(merged)
      BY <2>1, <2>4 DEF Cached, Rows
    <2>6. frame' = frame \/ (frame' = merged /\ Rows(frame)' = Rows(merged))
      BY <2>1 DEF merged, Rows
    <2>7. DOMAIN frame' = Slots
      BY <2>3, <2>6 DEF KeptInv
    <2>8. derived.token # {} => Cached \subseteq Rows(merged) /\ Cached \subseteq Rows(frame)'
      <3>1. derived.token # {} => Cached \subseteq Rows(reader.copy) /\ Cached \subseteq Rows(frame)
        BY <2>1 DEF KeptInv
      <3>2. frame' = frame => Rows(frame)' = Rows(frame)
        BY DEF Rows
      <3> QED BY <2>3, <2>6, <3>1, <3>2
    <2> QED BY <2>1, <2>3, <2>4, <2>5, <2>7, <2>8 DEF KeptInv
  <1>6. CASE ReadAsk \/ ReadNotAsk
    <2>1. /\ UNCHANGED <<frame, derived>> /\ reader.at = "ask"
          /\ \E stage, got, since : reader' = [at |-> stage, wants |-> reader.wants, copy |-> reader.copy,
                                             got |-> got, since |-> since]
      <3>1. CASE ReadAsk
        BY <3>1 DEF ReadAsk, KeptInv, memory
      <3>2. CASE ReadNotAsk
        BY <3>2 DEF ReadNotAsk, KeptInv, memory
      <3> QED BY <1>6, <3>1, <3>2
    <2>2. reader'.copy = reader.copy /\ reader' = [at |-> reader'.at, wants |-> reader'.wants, copy |-> reader'.copy,
                                                   got |-> reader'.got, since |-> reader'.since]
      BY <2>1
    <2>3. Cached' = Cached /\ Rows(frame)' = Rows(frame) /\ Rows(reader.copy)' = Rows(reader.copy)
      BY <2>1, <2>2 DEF Cached, Rows
    <2> QED BY <2>1, <2>2, <2>3 DEF KeptInv
  <1>7. CASE ReadMerge
    <2>1. derived' = derived /\ reader.at = "merge"
      BY <1>7 DEF ReadMerge
    <2>2. (frame' = frame /\ (reader' = Resting \/ reader' = [reader EXCEPT !.at = "answer", !.got = NoRows]))
          \/ (frame' = Merge(reader.copy, reader.got) /\ reader' = [reader EXCEPT !.at = "answer", !.got = NoRows])
      BY <1>7 DEF ReadMerge
    <2>3. /\ reader'.at \notin {"store", "ask", "merge"} /\ DOMAIN reader'.copy = Slots
          /\ reader' = [at |-> reader'.at, wants |-> reader'.wants, copy |-> reader'.copy,
                        got |-> reader'.got, since |-> reader'.since]
      <3>1. CASE reader' = Resting
        BY <3>1 DEF Resting, NoRows
      <3>2. CASE reader' = [reader EXCEPT !.at = "answer", !.got = NoRows]
        <4>1. reader' = [at |-> "answer", wants |-> reader.wants, copy |-> reader.copy, got |-> NoRows, since |-> reader.since]
          BY <3>2 DEF KeptInv
        <4> QED BY <4>1 DEF KeptInv
      <3> QED BY <2>2, <3>1, <3>2
    <2>4. DOMAIN frame' = Slots
      BY <2>2, MergeIs DEF KeptInv
    <2>5. derived.token # {} => Cached \subseteq Rows(frame)'
      <3>1. derived.token # {} => Cached \subseteq Rows(reader.copy) /\ Cached \subseteq Rows(frame)
        BY <2>1 DEF KeptInv
      <3>2. Rows(reader.copy) \subseteq Rows(Merge(reader.copy, reader.got))
        BY MergeIs
      <3>3. frame' = frame => Rows(frame)' = Rows(frame)
        BY DEF Rows
      <3>4. frame' = Merge(reader.copy, reader.got) => Rows(frame)' = Rows(Merge(reader.copy, reader.got))
        BY DEF Rows
      <3> QED BY <2>2, <3>1, <3>2, <3>3, <3>4
    <2>6. Cached' = Cached
      BY <2>1 DEF Cached
    <2> QED BY <2>1, <2>3, <2>4, <2>5, <2>6 DEF KeptInv
  <1>8. CASE Answer
    <2>1. frame' = frame /\ reader' = Resting
      BY <1>8 DEF Answer
    <2>2. reader'.at = "idle" /\ DOMAIN reader'.copy = Slots
          /\ reader' = [at |-> reader'.at, wants |-> reader'.wants, copy |-> reader'.copy,
                        got |-> reader'.got, since |-> reader'.since]
      BY <2>1 DEF Resting, NoRows
    <2>3. Rows(frame)' = Rows(frame) /\ DOMAIN frame' = Slots
      BY <2>1 DEF Rows, KeptInv
    <2>4. CASE derived' = derived
      <3>1. Cached' = Cached
        BY <2>4 DEF Cached
      <3> QED BY <2>2, <2>3, <2>4, <3>1 DEF KeptInv
    <2>5. CASE Rows(frame) # {} /\ derived' = [token |-> Token(frame), of |-> Derive(frame)]
      <3>1. Cached' = Rows(frame)
        <4>1. derived'.of = Derive(frame)
          BY <2>5
        <4>2. Cached' = {s \in Slots : \E n : <<s, n>> \in Derive(frame)[SessionBucket(s)]}
          BY <4>1 DEF Cached
        <4> QED BY <2>5, <4>2, DeriveIs
      <3>2. derived'.token = {<<Max(Rows(frame)), Cardinality(Rows(frame))>>}
        BY <2>5 DEF Token
      <3> QED BY <2>2, <2>3, <2>5, <3>1, <3>2 DEF KeptInv
    <2> QED BY <1>8, <2>4, <2>5 DEF Answer
  <1>9. CASE Ingest
    <2>1. UNCHANGED <<frame, derived, reader>>
      BY <1>9 DEF Ingest, SyncFetch, SyncUpsert, memory
    <2> QED BY <2>1 DEF KeptInv, Cached, Rows
  <1>10. CASE HCrash
    BY <1>10 DEF HCrash, KeptInv, NoRows, NoDerived, Resting
  <1> QED BY <1>1, <1>2, <1>3, <1>4, <1>5, <1>6, <1>7, <1>8, <1>9, <1>10 DEF HNext, Reader

\* The candle an answer is asked for is in it.
LEMMA KeptSafe ==
    ASSUME KeptInv, LatestSettled # 0
    PROVE  Settled(Derive(frame))[LatestSettled] # {}
  <1> DEFINE B == {Bucket(s) : s \in {t \in Rows(frame) : BucketCloses(Bucket(t)) <= now}}
  <1>1. Session \in Nat /\ B \subseteq Slots /\ B \cup {0} \in SUBSET (0..Session)
    BY HistoryAssumption, BucketsAre DEF Rows, Slots
  <1>2. LatestSettled \in B
    <2>1. LatestSettled = Max(B \cup {0})
      BY DEF LatestSettled
    <2> HIDE DEF B
    <2> QED BY <1>1, <2>1, GreatestIs
  <1>3. PICK s \in Rows(frame) : LatestSettled = Bucket(s) /\ BucketCloses(Bucket(s)) <= now
    BY <1>2
  <1>4. s \in Slots /\ SessionBucket(s) = LatestSettled /\ LatestSettled \in Slots
    BY <1>3, BucketsAre DEF Rows
  <1>5. \E n : <<s, n>> \in Derive(frame)[LatestSettled]
    BY <1>3, <1>4, DeriveIs
  <1>6. Settled(Derive(frame))[LatestSettled] = Derive(frame)[LatestSettled]
    BY <1>3, <1>4 DEF Settled
  <1> QED BY <1>5, <1>6

\* The candle whose settlement wakes the scan is in what the scan is then given, also
\* when its rows come from the cache of derived ones: the safety half of HistoryServes.
THEOREM EventHasItsCandleHolds == HInit /\ [][HNext]_hVars => EventHasItsCandle
  <1>1. HInit => KeptInv
    BY DEF HInit, HStartsAt, KeptInv, NoRows, NoDerived, Resting
  <1>2. KeptInv /\ [HNext]_hVars => KeptInv'
    BY KeptStep
  <1>3. KeptInv => [Answer /\ reader.wants = "derived" /\ LatestSettled # 0
                      => Settled(Derive(frame))[LatestSettled] # {}]_hVars
    BY KeptSafe
  <1> QED BY <1>1, <1>2, <1>3, PTL DEF EventHasItsCandle

-----------------------------------------------------------------------------
\* Verdicts and scores together, beside the other subjects of a run, which touch neither.
THEOREM ScoresAreEarnedHolds == Spec => []ScoresAreEarned
  <1>1. Init => WalkInv /\ PanelInv
    <2> SUFFICES ASSUME Init PROVE WalkInv /\ PanelInv
      OBVIOUS
    <2>1. WInit /\ FInit
      BY DEF Init
    <2>2. PanelInv
      BY <2>1, FormulaAssumption DEF FInit, PanelInv
    <2>3. WalkInv
      BY <2>1, WalkStarts
    <2> QED BY <2>2, <2>3
  <1>2. WalkInv /\ [Next]_vars => WalkInv'
    <2> SUFFICES ASSUME WalkInv, [Next]_vars PROVE WalkInv'
      OBVIOUS
    <2>1. [WNext]_wVars
      BY DEF Next, vars
    <2> QED BY <2>1, WalkStep
  <1>3. PanelInv /\ [Next]_vars => PanelInv'
    <2> SUFFICES ASSUME PanelInv, [Next]_vars PROVE PanelInv'
      OBVIOUS
    <2>1. [FNext]_fVars
      BY DEF Next, vars
    <2> QED BY <2>1, PanelStep
  <1>4. WalkInv /\ PanelInv => ScoresAreEarned
    BY WalkSafe, PanelSafe DEF ScoresAreEarned
  <1> QED BY <1>1, <1>2, <1>3, <1>4, PTL DEF Spec

=============================================================================
