--------------------------- MODULE MCPolicyCheck ---------------------------
(* Three venues; prices of which neighbours are inside the band, 400 and   *)
(* 402 on its edge with one between, 406 at twice the band, and one far    *)
(* outside; an empty, a thin and a deep order book.                        *)
EXTENDS PolicyCheck, TLC

VenueSymmetry == Permutations(Venues)
=============================================================================
