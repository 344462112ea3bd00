--------------------------- MODULE SovereignFund ----------------------------
(***************************************************************************)
(* contracts/src/SovereignFund.sol: real balances of two tokens and the    *)
(* history of the swaps.  The router is external: it takes the whole input *)
(* it was allowed to take and returns any output that meets the floor it   *)
(* was given, or it reverts.  The deadline is one of its reasons to, so it *)
(* is left out with the reason hash and the times.  A call that reverts    *)
(* leaves everything as it was: it is no step.                             *)
(***************************************************************************)
EXTENDS Integers, Sequences, FiniteSetsExt

CONSTANTS SwapSizes,  \* amounts of a swap or a transfer
          MaxTrades,  \* bound: ticks of the fund
          MaxMoves    \* bound: transfers in and out

ASSUME SovereignAssumption == SwapSizes \subseteq Nat /\ MaxTrades \in Nat /\ MaxMoves \in Nat

VARIABLES balances,  \* what the fund holds of either token
          trades,    \* the contract's ticks
          outside    \* history: net transfers, and how many there were

sovereignVars == <<balances, trades, outside>>

SovereignInit ==
  /\ balances = [usdc |-> 0, weth |-> 0]
  /\ trades = <<>>
  /\ outside = [usdc |-> 0, weth |-> 0, moves |-> 0]

\* Where the floor on amountOut is checked, by the router and again after it.
Swap(tokenIn, tokenOut, amountIn, amountOut, minAmountOut) ==
  /\ amountIn <= balances[tokenIn]
  /\ amountOut >= minAmountOut
  /\ balances' = [balances EXCEPT ![tokenIn] = @ - amountIn, ![tokenOut] = @ + amountOut]

RecordBeforeSwap(action, amountIn, amountOut, minAmountOut) ==  \* mutant: snapshot first
  trades' = Append(trades,
    [action |-> action, amountIn |-> amountIn, amountOut |-> amountOut,
     minAmountOut |-> minAmountOut, usdcAfter |-> balances.usdc, wethAfter |-> balances.weth,
     outside |-> outside])

\* outside is a history field: the transfers before this tick.
Record(action, amountIn, amountOut, minAmountOut) ==
  trades' = Append(trades,
    [action |-> action, amountIn |-> amountIn, amountOut |-> amountOut,
     minAmountOut |-> minAmountOut, usdcAfter |-> balances'.usdc, wethAfter |-> balances'.weth,
     outside |-> outside])

SovereignTick ==
  /\ Len(trades) < MaxTrades
  /\ \E action \in {"HOLD", "BUY_WETH", "SELL_WETH"}, amountIn, amountOut, minAmountOut \in SwapSizes :
       /\ action = "HOLD" <=> amountIn = 0
       /\ \/ action = "HOLD" /\ amountOut = 0 /\ UNCHANGED balances
          \/ action = "BUY_WETH" /\ Swap("usdc", "weth", amountIn, amountOut, minAmountOut)
          \/ action = "SELL_WETH" /\ Swap("weth", "usdc", amountIn, amountOut, minAmountOut)
       /\ Record(action, amountIn, amountOut, minAmountOut)
  /\ UNCHANGED outside

Withdraw ==
  /\ outside.moves < MaxMoves
  /\ \E token \in {"usdc", "weth"}, amount \in SwapSizes :
       /\ amount <= balances[token]
       /\ balances' = [balances EXCEPT ![token] = @ - amount]
       /\ outside' = [outside EXCEPT ![token] = @ - amount, !.moves = @ + 1]
  /\ UNCHANGED trades

\* Anyone may send the fund tokens; the contract does not notice.
Receive ==
  /\ outside.moves < MaxMoves
  /\ \E token \in {"usdc", "weth"}, amount \in SwapSizes :
       /\ balances' = [balances EXCEPT ![token] = @ + amount]
       /\ outside' = [outside EXCEPT ![token] = @ + amount, !.moves = @ + 1]
  /\ UNCHANGED trades

SovereignNext == SovereignTick \/ Withdraw \/ Receive

-----------------------------------------------------------------------------
Did(n, action) == {i \in 1 .. n : trades[i].action = action}
Paid(n, action) == MapThenSumSet(LAMBDA i : trades[i].amountIn, Did(n, action))
Got(n, action) == MapThenSumSet(LAMBDA i : trades[i].amountOut, Did(n, action))

TradedUsdc(n) == Got(n, "SELL_WETH") - Paid(n, "BUY_WETH")
TradedWeth(n) == Got(n, "BUY_WETH") - Paid(n, "SELL_WETH")

(* "Append-only tick history still reflects every trade, so this is        *)
(* auditable": whatever was sent in, withdrawn and swapped in whatever     *)
(* order, the balances stored with each tick, and those held now, are what *)
(* the trades and the transfers before them add up to; no trade was filled *)
(* below its floor or out of tokens that were not there.                   *)
TradesExplainBalances ==
  /\ \A n \in DOMAIN trades :
       /\ trades[n].usdcAfter = trades[n].outside.usdc + TradedUsdc(n)
       /\ trades[n].wethAfter = trades[n].outside.weth + TradedWeth(n)
       /\ trades[n].usdcAfter >= 0 /\ trades[n].wethAfter >= 0
       /\ trades[n].action # "HOLD" => trades[n].amountOut >= trades[n].minAmountOut
  /\ balances = [usdc |-> outside.usdc + TradedUsdc(Len(trades)),
                 weth |-> outside.weth + TradedWeth(Len(trades))]
=============================================================================
