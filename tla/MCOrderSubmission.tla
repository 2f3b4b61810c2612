------------------------- MODULE MCOrderSubmission -------------------------
(***************************************************************************)
(* The smallest instance of OrderSubmission in which a broker answers: one *)
(* key, one caller, live orders.                                           *)
(***************************************************************************)
EXTENDS OrderSubmission

CONSTANTS k1, c1

Armed == {[requested |-> "live", allow |-> TRUE, trading |-> "live",
           credentials |-> TRUE, executor |-> TRUE]}
=============================================================================
