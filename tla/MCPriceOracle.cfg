SPECIFICATION Spec
CONSTANTS
  Venues = {coinbase, uniswap}
  Prices = {4000, 4020, 4040}
  Depths = {1, 3}
  Times = {0, 1}
  FreshFor = 1
  FakePrices = {4020, 4040}
  FakeDepth = 3
  MaxRuns = 2
  Agent = agent
  Hashes = {"insufficient_venues", "venue_divergence"}
  MaxRoundId = 1
  MaxTime = 1
  Callers = {"scheduled","owner"}
  Lasting = {"scheduled"}
  Targets = {coinbase, uniswap}
  RealPrices = {4000}
  RealDepths = {1}
  SubUnits = 3
  MaxInstalls = 1
SYMMETRY VenueSymmetry
INVARIANTS
  TypeOK
  OneFakeIsContained
  GrantIsNeverExceeded
PROPERTIES
  ImplementsCorroboratedFeed
CHECK_DEADLOCK FALSE
