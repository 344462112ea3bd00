-------------------------- MODULE LaunchSniperFund --------------------------
(***************************************************************************)
(* contracts/src/LaunchSniperFund.sol: the paper ledger and tick history   *)
(* of the launch sniper.  A call is what tick() is given; timestamps and   *)
(* the description are left out, and `touched' is membership in `tokens'.  *)
(***************************************************************************)
EXTENDS Integers, Sequences, FiniteSets, SequencesExt

CONSTANTS
  Tokens,        \* token addresses
  NoToken,       \* address(0)
  StartingUsdc,  \* paper USDC at deployment
  Reasons,       \* reason hashes
  Amounts,       \* amounts of a call made directly
  MaxTicks       \* bound: ticks recorded

ASSUME FundAssumption ==
  /\ NoToken \notin Tokens /\ IsFiniteSet(Tokens)
  /\ StartingUsdc \in Nat /\ Amounts \subseteq Nat /\ MaxTicks \in Nat

VARIABLES paperUsdc, positions, tokens, ticks

fundVars == <<paperUsdc, positions, tokens, ticks>>

FundInit ==
  /\ paperUsdc = StartingUsdc
  /\ positions = [t \in Tokens |->
                    [amount |-> 0, costBasisUsdc |-> 0, proceedsUsdc |-> 0, open |-> FALSE]]
  /\ tokens = <<>>
  /\ ticks  = <<>>

Touch(token) == tokens' = IF token \in Range(tokens) THEN tokens ELSE Append(tokens, token)

BothLegs(call) == call.token # NoToken /\ call.amountToken > 0 /\ call.amountUsdc > 0

NoLegs(call) == call.amountToken = 0 /\ call.amountUsdc = 0

(* Where tick() does not revert.                                           *)
Accepts(call) ==
  \/ call.action = "HOLD" /\ call.token = NoToken /\ NoLegs(call)
  \/ call.action = "PASS" /\ call.token # NoToken /\ NoLegs(call)
  \/ call.action = "BUY"  /\ BothLegs(call) /\ call.amountUsdc <= paperUsdc
  \/ call.action = "SELL" /\ BothLegs(call) /\ call.amountToken <= positions[call.token].amount

Hold(call) == call.action = "HOLD" /\ UNCHANGED <<paperUsdc, positions, tokens>>

Pass(call) ==
  /\ call.action = "PASS"
  /\ Touch(call.token)
  /\ UNCHANGED <<paperUsdc, positions>>

Buy(call) ==
  /\ call.action = "BUY"
  /\ paperUsdc' = paperUsdc - call.amountUsdc
  /\ LET p == positions[call.token]
     IN positions' = [positions EXCEPT ![call.token] =
          [p EXCEPT !.amount        = p.amount + call.amountToken,
                    !.costBasisUsdc = p.costBasisUsdc + call.amountUsdc,
                    !.open          = TRUE]]
  /\ Touch(call.token)

SellNoProceeds(call) ==  \* mutant: the cost basis is reduced instead
  /\ call.action = "SELL"
  /\ paperUsdc' = paperUsdc + call.amountUsdc
  /\ LET p == positions[call.token]
     IN positions' = [positions EXCEPT ![call.token] =
          [p EXCEPT !.amount        = p.amount - call.amountToken,
                    !.costBasisUsdc = p.costBasisUsdc - call.amountUsdc,
                    !.open          = p.open /\ p.amount # call.amountToken]]
  /\ Touch(call.token)

Sell(call) ==
  /\ call.action = "SELL"
  /\ paperUsdc' = paperUsdc + call.amountUsdc
  /\ LET p == positions[call.token]
     IN positions' = [positions EXCEPT ![call.token] =
          [p EXCEPT !.amount       = p.amount - call.amountToken,
                    !.proceedsUsdc = p.proceedsUsdc + call.amountUsdc,
                    !.open         = p.open /\ p.amount # call.amountToken]]
  /\ Touch(call.token)

Tick(call) ==
  /\ Accepts(call)
  /\ Hold(call) \/ Pass(call) \/ Buy(call) \/ Sell(call)
  /\ ticks' = Append(ticks, [call |-> call, paperUsdcAfter |-> paperUsdc'])
----------------------------------------------------------------------------
(* The contract on its own: the agent may call tick() with anything.       *)
FundNext == \E call \in [action : {"HOLD", "PASS", "BUY", "SELL"}, token : Tokens \cup {NoToken},
                         amountToken : Amounts, amountUsdc : Amounts, reason : Reasons] :
              Len(ticks) < MaxTicks /\ Tick(call)

FundSpec == FundInit /\ [][FundNext]_fundVars

TicksOf(n, action, token) ==
  {i \in 1 .. n : ticks[i].call.action = action /\ ticks[i].call.token = token}

SpentOn(n, token) == MapThenSumSet(LAMBDA i : ticks[i].call.amountUsdc, TicksOf(n, "BUY", token))

EarnedOn(n, token) == MapThenSumSet(LAMBDA i : ticks[i].call.amountUsdc, TicksOf(n, "SELL", token))

Held(n, token) ==
  MapThenSumSet(LAMBDA i : ticks[i].call.amountToken, TicksOf(n, "BUY", token))
  - MapThenSumSet(LAMBDA i : ticks[i].call.amountToken, TicksOf(n, "SELL", token))

(* An observer that replays the history gets the contract's ledger: the    *)
(* balance stored with every tick, and every position's holdings, cost     *)
(* basis, proceeds and open flag.  Nothing was ever sold that was not held *)
(* nor spent that was not there.                                           *)
LedgerReplays ==
  /\ \A n \in 1 .. Len(ticks) :
       /\ ticks[n].paperUsdcAfter =
            StartingUsdc + MapThenSumSet(LAMBDA t : EarnedOn(n, t) - SpentOn(n, t), Tokens)
       /\ ticks[n].paperUsdcAfter >= 0
       /\ \A t \in Tokens : Held(n, t) >= 0
  /\ \A t \in Tokens :
       positions[t] = [amount        |-> Held(Len(ticks), t),
                       costBasisUsdc |-> SpentOn(Len(ticks), t),
                       proceedsUsdc  |-> EarnedOn(Len(ticks), t),
                       open          |-> Held(Len(ticks), t) > 0]
=============================================================================
