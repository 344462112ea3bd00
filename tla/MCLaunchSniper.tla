--------------------------- MODULE MCLaunchSniper ---------------------------
(* Two runs of the endpoint over two tokens; a spend of 2 is the guardrail *)
(* and 3 the paper balance, so that two buys do not fit.                   *)
EXTENDS LaunchSniper, TLC

SizesAsked == {-1, 1, 3}

Interchangeable == Permutations(Workers) \cup Permutations(Tokens)
=============================================================================
