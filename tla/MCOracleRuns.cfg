SPECIFICATION FairSpec
CONSTANTS
  Venues = {coinbase, uniswap}
  Prices = {4000, 8000}
  Depths = {1, 3}
  Times = {0}
  FreshFor = 1
  FakePrices = {8000}
  FakeDepth = 3
  MaxRuns = 2
  Agent = agent
  Hashes = {"insufficient_venues", "venue_divergence"}
  MaxRoundId = 2
  MaxTime = 0
  Callers = {"scheduled","owner"}
  Lasting = {}
  Targets = {coinbase}
  RealPrices = {4000}
  RealDepths = {1}
  SubUnits = 2
  MaxInstalls = 2
PROPERTIES
  OverridesExpire
  FeedRecovers
  ImplementsCorroboratedFeed
CHECK_DEADLOCK FALSE
