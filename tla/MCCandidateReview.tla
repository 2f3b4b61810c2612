------------------------ MODULE MCCandidateReview --------------------------
(***************************************************************************)
(* A small instance of CandidateReview: a scalp and a swing candidate for  *)
(* one symbol and a swing candidate for another, of two strategies; and,   *)
(* apart from it, one of ScalpScan, which finds the scalps: every mixture  *)
(* of five batches on three timeframes for the first symbol, fewer for the *)
(* second, which is there to be ranked and counted beside it.              *)
(***************************************************************************)
EXTENDS CandidateReview, ScalpScan, TLC

CONSTANTS infy, tcs, trend, revert, m5, m15, h1

VARIABLE subject

Proposal(symbol, horizon, strategy, required, unclear) ==
    [symbol |-> symbol, sector |-> "IT", horizon |-> horizon, strategy |-> strategy,
     required |-> required, unclear |-> unclear, risk |-> 1]

MCCandidates == {Proposal(infy, "SCALP", trend, FALSE, TRUE),
                 Proposal(infy, "SWING", revert, TRUE, FALSE),
                 Proposal(tcs, "SWING", trend, FALSE, TRUE)}

Signal(strategy, direction, confidence, adx, stop, target) ==
    [strategy |-> strategy, direction |-> direction, confidence |-> confidence, adx |-> adx,
     lean |-> "none", stop |-> stop, target |-> target]
Good == Signal("momentum", "BUY", 70, 30, 990, 1040)
Modest == Signal("breakout", "BUY", 58, 22, 1000, 1015)
Echo == Signal("breakout", "BUY", 57, 22, 990, 1030)
Misfit == Signal("momentum", "BUY", 80, 15, 990, 1040)
Down == Signal("trend_following", "SELL", 70, 30, 1040, 990)
MCBatches == {<<>>, <<Good>>, <<Modest, Echo>>, <<Misfit>>, <<Good, Down>>}
MCBatchesOf == (infy :> MCBatches) @@ (tcs :> {<<>>, <<Good>>})
MCPredictions == {[direction |-> d, abstained |-> FALSE, confidence |-> 80] : d \in {"up", "down", "flat"}}
Frame(c, busy, wick, far) == [closes |-> c, busy |-> busy, wick |-> wick, far |-> far]
MCCloses == {<<1000, 1010, 1004>>, <<1000, 1010, 1008>>, <<1000, 1006, 1000, 1009>>, <<1000, 1010, 1002, 1009>>,
             <<1010, 1002, 1016>>, <<1003, 1000, 1005, 1000, 1004>>, <<1006, 1000, 1004, 1002>>}
MCFrames == {Frame(c, 2, FALSE, far) : c \in MCCloses, far \in BOOLEAN}
            \union {Frame(<<1000, 1010, 1002>>, busy, wick, FALSE) : busy \in 0..1, wick \in BOOLEAN}
MCWatchlist == <<infy, tcs, infy>>
MCConfirming == <<m5, m15, h1>>
MCOrigins == <<m5, m15>>
MCWeights == [entry |-> 30, alignment |-> 20, volume |-> 15, regime |-> 10, history |-> 15, ml |-> 10]
MCHistory == [s \in {"momentum", "breakout", "trend_following"} |-> IF s = "momentum" THEN 60 ELSE 40]

Start == subject \in {"review", "scan"} /\ Init /\ ScanInit /\ (subject = "scan" => optimised)

Step ==
    \/ subject = "review" /\ Next /\ UNCHANGED <<subject, scanVars>>
    \/ subject = "scan" /\ ScanNext /\ UNCHANGED <<subject, vars>>

ReviewSpec == Start /\ [][Step]_<<subject, vars, scanVars>> /\ Fairness
=============================================================================
