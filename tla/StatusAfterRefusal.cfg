SPECIFICATION ConsumersSpec
CONSTANTS
  Agent = agent
  Hashes = {h1}
  MaxRoundId = 2
  MaxTime = 3
  Reports = {0, 7}
  Readers = {"op", "ui"}
  Lookback = 1
  Slice = 2
INVARIANTS
  StatusShowsRefusal
CHECK_DEADLOCK FALSE
