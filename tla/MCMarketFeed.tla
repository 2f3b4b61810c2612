---------------------------- MODULE MCMarketFeed ----------------------------
(***************************************************************************)
(* Small instances of the NSE worker's prices (MarketFeed), of the Forex   *)
(* worker's connection and of the order provider beside it                 *)
(* (OandaConnection).  They share no state: a behaviour is one of them.    *)
(***************************************************************************)
EXTENDS MarketFeed, OandaConnection

CONSTANTS a, b, i1

VARIABLE subject

FeedInit ==
    /\ FInit /\ OInit
    /\ \/ subject = "nse"
       \/ subject \in {"oanda", "orders"} /\ mode = "mock" /\ phase = "closed"

FeedNext ==
    \/ subject = "nse" /\ FNext /\ UNCHANGED <<subject, oVars>>
    \/ subject = "oanda" /\ (Listening \/ Working) /\ UNCHANGED <<subject, fVars>>
    \/ subject = "orders" /\ Ordering /\ UNCHANGED <<subject, fVars>>

\* FFair and OFair, each of the behaviours it is about.
Nse == subject = "nse"
Oanda == subject = "oanda"
FeedFair ==
    /\ WF_fVars(Nse /\ Start) /\ WF_fVars(Nse /\ Poll) /\ WF_fVars(Nse /\ Cycle)
    /\ WF_fVars(Nse /\ ManagePosition) /\ \A s \in Symbols : WF_fVars(Nse /\ Packet(s))
    /\ WF_oVars(Oanda /\ Pace) /\ WF_oVars(Oanda /\ Loop)

\* The Forex worker always gets to its next cycle, and its stream is heard again unless
\* it is over or silent; the other instances have no connection to come back.
OandaComesBack == Oanda => ConnectionComesBack

FeedSpec == FeedInit /\ [][FeedNext]_<<subject, fVars, oVars>> /\ FeedFair
=============================================================================
