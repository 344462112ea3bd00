--------------------------- MODULE MCPriceOracle ---------------------------
EXTENDS PriceOracle, TLC

(* The venues are interchangeable: no definition names one of them.        *)
VenueSymmetry == Permutations(Venues)
=============================================================================
