------------------------------ MODULE MCResync ------------------------------
(***************************************************************************)
(* Resync for TLC.  All prices are 1, so entries are Scale and exact.      *)
(***************************************************************************)
EXTENDS Resync

CONSTANTS BTC, ETH

OneSymbol == {BTC}
TwoSymbols == {BTC, ETH}
MCScale == 1
MCQtys == {1, 2}
Symmetry == Permutations(TwoSymbols)
=============================================================================
