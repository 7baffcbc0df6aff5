------------------------------- MODULE Reports -------------------------------
(***************************************************************************)
(* What an exchange reports: the histories that are fetched page by page   *)
(* (Bybit) or symbol by symbol (Binance), and the orders of the stream.    *)
(* They are of different workers and share no state.                       *)
(***************************************************************************)
EXTENDS BybitHistory, BinanceHistory, BinanceStream

reportVars == <<bybitVars, binanceVars, streamVars>>

ReportsSpec == BybitSpec /\ BinanceSpec /\ StreamSpec

\* What an exchange reports reaches the worker once and whole: what is fetched in
\* several requests, while more of it is added, and what comes in several messages.
ReportsAreWhole == FetchIsComplete /\ NothingLeftOut /\ WholeOrders
=============================================================================
