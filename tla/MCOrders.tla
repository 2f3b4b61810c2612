------------------------------ MODULE MCOrders ------------------------------
(***************************************************************************)
(* Small instances of OrderSubmission and PaperDesk, which share no state: *)
(* a behaviour is one of either.                                           *)
(*                                                                         *)
(* Of OrderSubmission, one caller under every combination of settings,     *)
(* with three submissions and a fault; or two concurrent callers under the *)
(* only one that reaches the broker or in paper mode, with two submissions *)
(* and two faults.  Of PaperDesk, quotes that are multiples of 40, so that *)
(* fills at a twentieth of slippage and their means over two and three     *)
(* shares are integers.                                                    *)
(***************************************************************************)
EXTENDS OrderSubmission, PaperDesk

CONSTANTS k1, k2, c1, c2

VARIABLE subject

AllSettings == Configurations

Paper == [requested |-> "local_paper", allow |-> FALSE, trading |-> "paper",
          credentials |-> FALSE, executor |-> FALSE]
Armed == [requested |-> "live", allow |-> TRUE, trading |-> "live",
          credentials |-> TRUE, executor |-> TRUE]

Quotes == {280, 360, 400, 520, 560}

allVars == <<subject, vars, kVars>>

Start ==
    /\ Init /\ KInit
    /\ \/ subject = "alone"
       \/ subject = "concurrent" /\ config \in {Paper, Armed}
       \/ subject = "desk" /\ config = Paper

\* The bounds of the two ways to submit.
Bounded ==
    IF subject = "concurrent" THEN sent' <= MaxSubmits - 1
    ELSE Spent' <= MaxFaults - 1 /\ \E c \in Callers : \A d \in Callers \ {c} : call'[d] = NoCall

\* Neither a key nor a caller is told from another, in any of the three.
Symmetry == Permutations(Keys) \cup Permutations(Callers)

Step ==
    \/ subject # "desk" /\ Next /\ Bounded /\ UNCHANGED <<subject, kVars>>
    \/ subject = "desk" /\ KNext /\ UNCHANGED <<subject, vars>>

OrdersSpec == Start /\ [][Step]_allVars
=============================================================================
