SPECIFICATION Spec
CONSTANTS
  Venues = {coinbase, binance, uniswap}
  Prices = {400, 401, 402, 406, 800}
  Depths = {0, 1, 3}
  Times = {1, 2}
  FreshFor = 1
  Now = 2
SYMMETRY VenueSymmetry
INVARIANTS
  MedianMatchesReference
  NeverAveragesAnOutlier
  DepthMajorityDecides
  OneVenueMovesPriceWithinBand
CHECK_DEADLOCK FALSE
