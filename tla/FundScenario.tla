---------------------------- MODULE FundScenario ----------------------------
(***************************************************************************)
(* The sovereign fund page's state (fund-scenario.ts) and timeline rows.   *)
(* The page is a paper fund: a decision moves the portfolio at the price   *)
(* of the loaded market.  Sizes are chosen so that divisions are exact.    *)
(***************************************************************************)
EXTENDS Timeline

FundActions == {"HOLD", "BUY_WETH", "SELL_WETH"}

\* Price of one WETH in each market the visitor can load.
FUND_PRESETS == [calm |-> 4, bullTrend |-> 6, drawdown |-> 3, blackSwan |-> 2]

\* undefined is no settled decision either.
ASSUME DecisionAssumption ==
  None \notin [decision : FundActions, sizeUsd : Nat, after : [usdc : Int, weth : Int]]

STARTING_PORTFOLIO == [usdc |-> 1440, weth |-> 360]

initialFundScenario ==
  Fresh([market |-> "calm", portfolio |-> STARTING_PORTFOLIO], "calm")

applyFundPendingTick(s, call) == Push(s, Entry(s, "TICK", 0, call))

applyDecisionToPortfolio(portfolio, decision, price) ==
  LET spend == IF decision.sizeUsd < portfolio.usdc THEN decision.sizeUsd ELSE portfolio.usdc
      wanted == decision.sizeUsd \div price
      sell == IF wanted < portfolio.weth THEN wanted ELSE portfolio.weth
  IN  IF decision.decision = "HOLD" \/ decision.sizeUsd <= 0 THEN portfolio
      ELSE IF decision.decision = "BUY_WETH"
      THEN [usdc |-> portfolio.usdc - spend, weth |-> portfolio.weth + spend \div price]
      ELSE [usdc |-> portfolio.usdc + sell * price, weth |-> portfolio.weth - sell]

WithPortfolio(decision, after) ==
  [decision |-> decision.decision, sizeUsd |-> decision.sizeUsd, after |-> after]

\* The decision settles the head and moves the portfolio as it is now.
applyFundDecision(s, decision) ==
  LET after == applyDecisionToPortfolio(s.subject.portfolio, decision,
                                        FUND_PRESETS[s.subject.market])
  IN  IF HeadPending(s)
      THEN [Settle(s, WithPortfolio(decision, after)) EXCEPT !.subject.portfolio = after]
      ELSE Settle(s, decision)

applyFundPreset(s, key) == Load(s, [s.subject EXCEPT !.market = key], key)
setFundPending(s, pending) == [s EXCEPT !.pending = pending]
setFundPendingReasoning(s, text) == Stream(s, text)

navUsd(portfolio, price) == portfolio.usdc + portfolio.weth * price

\* A row values the portfolio before and after at the snapshot's price.
FundRow(e) ==
  LET price == FUND_PRESETS[e.snapshot.market]
  IN  [decision |-> IF Waiting(e) THEN None ELSE e.verdict.decision,
       streaming |-> Waiting(e) /\ e.streaming > 0,
       navBefore |-> navUsd(e.snapshot.portfolio, price),
       navAfter |-> IF Waiting(e) THEN None ELSE navUsd(e.verdict.after, price)]
=============================================================================
