---------------------------- MODULE MCFundPanels ----------------------------
(* FundPanels on two tokens: 1 paper USDC pays for one buy until a sale    *)
(* brings 2; every call of a multicall is a batch of its own, and of two   *)
(* trades the panel lists one.                                             *)
EXTENDS FundPanels

Interchangeable == Permutations(Tokens)
=============================================================================
