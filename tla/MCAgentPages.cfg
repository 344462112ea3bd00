SPECIFICATION Spec
CONSTANTS
  MaxEvents = 2
  None = None
  MaxCalls = 2
  LastDay = 2
  MaxBlocks = 3
  Pages = {"terra", "bridge", "governance", "aviation", "fund", "adjudicate"}
  Tried <- MCTried
INVARIANTS
  BadgeMatchesRow
  RowAgreesWithGate
  NoOrphanRow
  TradeKeepsNav
  RunIsForSelectedMarket
  NoForecastOnChain
  BadgedMarketPays
PROPERTIES
  JudgedWhatItMoves
  VerdictsAreFinal
  ResolvedIsTerminal
  PagesSettle
  AcceptedIsMined
CHECK_DEADLOCK FALSE
