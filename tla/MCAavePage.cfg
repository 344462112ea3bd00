SPECIFICATION Spec
CONSTANTS
  None = None
  Venues = {coinbase, binance, uniswap}
  MaxEvents = 2
  PositionUsd = 500
  LiveReadings <- MCLiveReadings
  Contents <- MCContents
  FakePrice = 9999
  MaxCalls = 2
SYMMETRY VenueSymmetry
INVARIANTS InspectIsWhatAgentSaw PendingUnlessOverlap
PROPERTY FeedHoldsWhileReasoning
