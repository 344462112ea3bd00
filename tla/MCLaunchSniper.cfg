SPECIFICATION Spec
CONSTANTS
  Tokens = {t1, t2}
  NoToken = none
  Reasons <- Blob
  StartingUsdc = 3
  Amounts = {2}
  MaxTicks = 2
  Workers = {cron, manual}
  MaxCandidates = 2
  MaxBuy = 2
  Sizes <- SizesAsked
  Prices = {0, 1}
  Depths = {0, 9}
  MaxPools = 2
SYMMETRY Interchangeable
INVARIANTS
  NoRedecisionAfterLook
  CapUnlessOverlap
  TicksCarryTheirReason
CHECK_DEADLOCK FALSE
