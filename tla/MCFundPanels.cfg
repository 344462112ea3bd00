\* The bounds end the agents' histories, and a page is visited once.
SPECIFICATION PanelSpec
CONSTANTS
  Tokens = {t1, t2}
  NoToken = none
  Reasons = {r}
  StartingUsdc = 1
  Amounts = {0, 1, 2}
  MaxTicks = 3
  SwapSizes = {0, 1}
  MaxTrades = 2
  MaxMoves = 2
  Shown = 1
  Batch = 1
  Panels = {"sniper", "sovereign"}
SYMMETRY Interchangeable
INVARIANTS
  LedgerReplays
  TradesExplainBalances
  PanelsAgree
CHECK_DEADLOCK FALSE
