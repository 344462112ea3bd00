SPECIFICATION ConsumersSpec
CONSTANTS
  Agent = agent
  Hashes = {h1}
  MaxRoundId = 3
  MaxTime = 4
  Reports = {0, 7}
  Readers = {"op"}
  Lookback = 2
  Slice = 2
INVARIANTS
  RoundsAreContiguous
  ReadersShowOneRound
  TimelineHasNoGap
PROPERTIES
  HistoryIsImmutable
  RefusalHaltsRisk
CHECK_DEADLOCK FALSE
