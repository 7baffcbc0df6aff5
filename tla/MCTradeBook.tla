----------------------------- MODULE MCTradeBook ----------------------------
(***************************************************************************)
(* TradeBook for TLC: two interchangeable symbols.  MaxFills executions of *)
(* at most two units give a trade at most ten, and 2520 is the common     *)
(* multiple of 1 .. 10, so every average is exact.                          *)
(***************************************************************************)
EXTENDS TradeBook, TLC

CONSTANTS BTC, ETH

MCSymbols == {BTC, ETH}
MCScale == 2520
MCQtys == {1, 2}
MCPrices == {1, 3}
Symmetry == Permutations(MCSymbols)
=============================================================================
