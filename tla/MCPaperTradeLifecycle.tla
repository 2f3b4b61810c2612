----------------------- MODULE MCPaperTradeLifecycle -----------------------
(***************************************************************************)
(* Small instances of PaperTradeLifecycle for TLC: trades t1 and t2 may be *)
(* entered in this run, t3 is a wallet position older than the ledger.     *)
(***************************************************************************)
EXTENDS PaperTradeLifecycle, TLC

CONSTANTS t1, t2, t3, nifty, sbin

\* t1 and t2 compete for one instrument.
Rivals == (t1 :> nifty) @@ (t2 :> nifty) @@ (t3 :> sbin)
=============================================================================
