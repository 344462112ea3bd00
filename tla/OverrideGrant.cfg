SPECIFICATION FairSpec
CONSTANTS
  Venues = {coinbase, uniswap}
  Prices = {4000, 8000}
  Depths = {1, 3}
  Times = {0, 1}
  FreshFor = 1
  FakePrices = {8000}
  FakeDepth = 3
  MaxRuns = 2
  Agent = agent
  Hashes = {"insufficient_venues", "venue_divergence"}
  MaxRoundId = 1
  MaxTime = 1
  Callers = {"scheduled"}
  Lasting = {}
  Targets = {coinbase, uniswap}
  RealPrices = {4000}
  RealDepths = {1}
  SubUnits = 2
  MaxInstalls = 2
PROPERTIES
  OverrideReachesNextRun
CHECK_DEADLOCK FALSE
