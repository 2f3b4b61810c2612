---------------------------- MODULE FormulaPanel ----------------------------
(***************************************************************************)
(* Formulas over a panel of settled bars (signal_discovery/operators.py,   *)
(* live.py).  A panel is a sequence of rows, a row a function from symbols *)
(* to a close or NaN.  The operators kept are one of each kind:            *)
(* elementwise, cross-sectional, shifted and rolling.                      *)
(***************************************************************************)
EXTENDS Integers, Sequences, FiniteSets, FiniteSetsExt

CONSTANTS Tickers, Closes, Trees, MaxRows, MinCross, NaN

(* A formula is the nodes of its syntax tree in the order _evaluate_node     *)
(* returns from them: an operand is an earlier node, the last one the factor. *)
Operands(node) ==
    IF node.op = "Close" THEN {} ELSE IF node.op = "Sub" THEN {node.x, node.y} ELSE {node.x}

ASSUME FormulaAssumption ==
    \A f \in Trees :
        /\ f \in Seq([op : {"Close"}] \cup [op : {"Rank"}, x : Nat]
                      \cup [op : {"Sub"}, x : Nat, y : Nat]
                      \cup [op : {"Delay", "TS_Sum"}, x : Nat, d : Int])
        /\ f # <<>> /\ \A i \in DOMAIN f : Operands(f[i]) \subseteq 1..(i - 1)

VARIABLES formula, panel,
          seen      \* the factor row the live scorer used when the row was the newest

fVars == <<formula, panel, seen>>

FInit == formula \in Trees /\ panel = <<>> /\ seen = <<>>

---------------------------------------------------------------------------
(* _window: an integer of at least 2; a negative one would look ahead *)
WindowOk_slip(d) == TRUE
WindowOk(d) == d >= 2

(* FormulaCompiler.compile admits unary minus on a constant, so the window *)
(* is only judged when the formula is evaluated.                           *)
Evaluable(f) == \A i \in DOMAIN f : f[i].op \in {"Delay", "TS_Sum"} => WindowOk(f[i].d)

Less(a, b) == a # NaN /\ b # NaN /\ a < b
(* DataFrame.rank(axis=1, pct=True), times twice the number of symbols *)
RankOf(row, s) ==
    IF row[s] = NaN THEN NaN
    ELSE 2 * Cardinality({u \in DOMAIN row : Less(row[u], row[s])})
         + Cardinality({u \in DOMAIN row : row[u] = row[s]}) + 1

(* The matrix of a node from those of the nodes before it; shifts and windows *)
(* that leave the matrix meet NaN.                                            *)
RowAt(m, t) == IF t \in DOMAIN m THEN m[t] ELSE [s \in Tickers |-> NaN]
WindowSum(w, s) == IF \E i \in DOMAIN w : w[i][s] = NaN THEN NaN
               ELSE MapThenSumSet(LAMBDA i : w[i][s], DOMAIN w)
Minus(a, b) == IF NaN \in {a, b} THEN NaN ELSE a - b

Apply(node, m, rows) ==
    CASE node.op = "Close" -> rows
      [] node.op = "Rank" -> LET x == m[node.x]
                             IN [t \in DOMAIN rows |-> [s \in Tickers |-> RankOf(x[t], s)]]
      [] node.op = "Sub" -> LET x == m[node.x] y == m[node.y]
                            IN [t \in DOMAIN rows |-> [s \in Tickers |-> Minus(x[t][s], y[t][s])]]
      [] node.op = "Delay" -> LET x == m[node.x]
                              IN [t \in DOMAIN rows |-> RowAt(x, t - node.d)]
      [] node.op = "TS_Sum" ->
            LET x == m[node.x]
            IN [t \in DOMAIN rows |->
                  LET w == [i \in (t - node.d + 1)..t |-> RowAt(x, i)]
                  IN [s \in Tickers |-> WindowSum(w, s)]]

(* _evaluate_node of every node; the factor is the matrix of the last *)
Matrices(f, rows) == LET m[i \in DOMAIN f] == Apply(f[i], m, rows) IN m
Value(f, rows) == Matrices(f, rows)[Len(f)]

Finite(row) == {s \in Tickers : row[s] # NaN}

(* build_ohlcv_panel and the live scan: the panel holds the symbols whose candle is new *)
Changed(rows) == {s \in Tickers : rows[Len(rows)][s] # NaN}
LivePanel(rows) == [t \in DOMAIN rows |->
    [s \in Tickers |-> IF s \in Changed(rows) THEN rows[t][s] ELSE NaN]]

(* score_panel: the newest row with a cross-section, its spread never zero *)
Usable(row) == Cardinality(Finite(row)) >= MinCross /\ Cardinality({row[s] : s \in Finite(row)}) >= 2
LatestCrossSection(f, rows) ==
    LET factor == Value(f, rows)
        ok == {t \in DOMAIN rows : Usable(factor[t])}
    IN IF ok = {} \/ ~Evaluable(f) THEN <<0, NaN>> ELSE <<Max(ok), factor[Max(ok)]>>

(* A candle settles for the symbols that traded, and the live scan scores it *)
Settle == /\ Len(panel) < MaxRows
          /\ \E row \in [Tickers -> Closes \cup {NaN}] :
                /\ \E s \in Tickers : row[s] # NaN
                /\ panel' = Append(panel, row)
                /\ seen' = Append(seen, LatestCrossSection(formula, LivePanel(Append(panel, row))))
          /\ UNCHANGED formula

FNext == Settle

---------------------------------------------------------------------------
(* No look-ahead: every bar that research, today, can score was scored live  *)
(* when it was the newest, and with the same values, if every symbol had     *)
(* traded then (_window, _evaluate_node, _latest_cross_section).             *)
RescoredIsSame ==
    Evaluable(formula) => \A t \in DOMAIN panel :
        Changed(SubSeq(panel, 1, t)) = Tickers /\ Usable(Value(formula, panel)[t])
            => seen[t] = <<t, Value(formula, panel)[t]>>
=============================================================================
