---------------------------- MODULE LaunchSniper ----------------------------
(***************************************************************************)
(* The launch sniper's loop (ui/src/lib/launch-sniper) against its fund    *)
(* contract.  A worker is one run of the tick endpoint: the cron job and a *)
(* manual dispatch may overlap, nothing serialises them.  Between two      *)
(* awaits of a worker anything else may happen; an error or the platform's *)
(* time limit may end it at any of them.  All workers sign with one key.   *)
(*                                                                         *)
(* Block numbers are abstracted to which PoolCreated events have left the  *)
(* indexer's window; the model's answer and the pool's price and depth are *)
(* arbitrary.  `looked' and the seen/published fields are bookkeeping.     *)
(***************************************************************************)
EXTENDS LaunchSniperFund

CONSTANTS
  Workers,        \* concurrent runs of the tick endpoint
  MaxCandidates,  \* INDEXER_MAX_CANDIDATES
  MaxBuy,         \* the size guardrail, 250 in the code
  Sizes,          \* size_usdc as the language model may answer
  Prices, Depths, \* of a pool: USDC per token (0: uninitialised or quoted in WETH), USDC held
  MaxPools        \* bound: pools created

ASSUME SniperAssumption ==
  /\ MaxCandidates \in Nat \ {0} /\ MaxBuy \in Nat \ {0}
  /\ Sizes \subseteq Int /\ Prices \subseteq Nat /\ Depths \subseteq Nat

VARIABLES
  pools,    \* tokens of the PoolCreated events with one USDC or WETH side, oldest first
  aged,     \* how many of them have left the window
  worker,   \* per worker: step, candidates still to look at, call, nonce
  mempool,  \* pending transactions, nonces nonce, nonce + 1, ...
  nonce,    \* of the agent's account
  looked    \* per tick: its sender, and what it had seen and done before

chainVars == <<mempool, nonce, looked>>
vars == <<fundVars, pools, aged, worker, chainVars>>

(* What the published JSON says: paperFill is zero when absent.            *)
Blob == [token : Tokens \cup {NoToken}, decision : {"PASS", "BUY"},
         quoteIn : 0 .. MaxBuy, tokenOut : 0 .. MaxBuy]

NoCall ==
  [action |-> "HOLD", token |-> NoToken, amountToken |-> 0, amountUsdc |-> 0,
   reason |-> [token |-> NoToken, decision |-> "PASS", quoteIn |-> 0, tokenOut |-> 0]]

Idle == [step |-> "idle", todo |-> <<>>, seen |-> 0, call |-> NoCall,
         published |-> FALSE, nonce |-> 0]

Init ==
  /\ FundInit
  /\ pools = <<>> /\ aged = 0
  /\ worker = [w \in Workers |-> Idle]
  /\ mempool = <<>> /\ nonce = 0 /\ looked = <<>>
----------------------------------------------------------------------------
(* fetchRecentCandidates: the oldest events of the window, cut to a page.  *)
Candidates == SubSeq(pools, aged + 1, IF aged + MaxCandidates < Len(pools)
                                      THEN aged + MaxCandidates ELSE Len(pools))

FetchCandidates(w) ==
  /\ worker[w].step = "idle"
  /\ Candidates # <<>>
  /\ worker' = [worker EXCEPT ![w] = [Idle EXCEPT !.step = "look", !.todo = Candidates]]

(* isAlreadyTouched of the next candidate.  Its calls enumerate a list     *)
(* that only grows, so they amount to one look; a failed read counts as    *)
(* touched.                                                                *)
SkipCandidate(w) ==
  /\ worker[w].step = "look"
  /\ worker' = [worker EXCEPT ![w] = IF Tail(@.todo) = <<>> THEN Idle
                                     ELSE [@ EXCEPT !.todo = Tail(worker[w].todo)]]

TakeUnheld(w) ==  \* mutant: looks for an open position instead of the list
  /\ worker[w].step = "look"
  /\ ~positions[Head(worker[w].todo)].open
  /\ worker' = [worker EXCEPT ![w] = [@ EXCEPT !.step = "picked", !.seen = Len(ticks)]]

TakeCandidate(w) ==
  /\ worker[w].step = "look"
  /\ Head(worker[w].todo) \notin Range(tokens)
  /\ worker' = [worker EXCEPT ![w] = [@ EXCEPT !.step = "picked", !.seen = Len(ticks)]]

----------------------------------------------------------------------------
(* evaluateDossier and the first half of executeTick: the tick to send,    *)
(* with the blob that explains it.                                         *)
GuardedAboveZero(asked) == IF asked < 0 THEN 0 ELSE asked  \* mutant: no upper guardrail

Guarded(asked) == IF asked < 0 THEN 0 ELSE IF asked > MaxBuy THEN MaxBuy ELSE asked

PaperFill(size, price) == IF price > 0 THEN size \div price ELSE 0

PassCall(token, decision) ==
  [action |-> "PASS", token |-> token, amountToken |-> 0, amountUsdc |-> 0,
   reason |-> [token |-> token, decision |-> decision, quoteIn |-> 0, tokenOut |-> 0]]

BuyCall(token, size, fill) ==
  [action |-> "BUY", token |-> token, amountToken |-> fill, amountUsdc |-> size,
   reason |-> [token |-> token, decision |-> "BUY", quoteIn |-> size, tokenOut |-> fill]]

PlanKeepingFill(token, size, price, depth) ==  \* mutant: downgraded after the blob was built
  LET fill == PaperFill(size, price)
      buy  == BuyCall(token, size, fill)
  IN IF fill = 0 \/ depth < size
     THEN [PassCall(token, "PASS") EXCEPT !.reason = buy.reason] ELSE buy

Plan(token, size, price, depth) ==
  LET fill == PaperFill(size, price)
  IN IF fill = 0 \/ depth < size  \* executor.ts downgrades the decision itself
     THEN PassCall(token, "PASS") ELSE BuyCall(token, size, fill)

Decisions(token) ==
  {PassCall(token, "PASS")}
  \cup {IF Guarded(s) = 0 THEN PassCall(token, "BUY") ELSE Plan(token, Guarded(s), p, d) :
          s \in Sizes, p \in Prices, d \in Depths}

Evaluate(w) ==
  /\ worker[w].step = "picked"
  /\ \E call \in Decisions(Head(worker[w].todo)) :
       worker' = [worker EXCEPT ![w] = [@ EXCEPT !.step = "planned", !.todo = <<>>, !.call = call]]

(* publishBlob returns a URL or null; the tick is sent either way.         *)
PublishBlob(w) ==
  /\ worker[w].step = "planned"
  /\ worker' = [worker EXCEPT ![w] = [@ EXCEPT !.step = "blob", !.published = TRUE]]

(* writeContract: gas estimation on the current state, the nonce after     *)
(* every pending transaction, then the signed transaction on its way.      *)
Prepare(w) ==
  /\ worker[w].step = "blob"
  /\ Accepts(worker[w].call)
  /\ nonce + Len(mempool) < MaxTicks
  /\ worker' = [worker EXCEPT ![w] = [@ EXCEPT !.step = "signed", !.nonce = nonce + Len(mempool)]]

Transaction(w) == [call |-> worker[w].call, seen |-> worker[w].seen, published |-> worker[w].published]

Send(w) ==
  /\ worker[w].step = "signed"
  /\ LET place == worker[w].nonce - nonce + 1
     IN \/ place = Len(mempool) + 1 /\ mempool' = Append(mempool, Transaction(w))
        \/ place \in 1 .. Len(mempool) /\ mempool' = [mempool EXCEPT ![place] = Transaction(w)]
  /\ worker' = [worker EXCEPT ![w] = Idle]

(* Any await throws, or the platform ends the run after maxDuration: an    *)
(* RPC error, a malformed answer, a revert in gas estimation, a nonce that *)
(* is used by now.                                                         *)
End(w) == worker[w].step # "idle" /\ worker' = [worker EXCEPT ![w] = Idle]

WorkerStep ==
  /\ \E w \in Workers :
       \/ /\ Send(w)
          /\ UNCHANGED <<nonce, looked>>
       \/ /\ \/ FetchCandidates(w) \/ SkipCandidate(w) \/ TakeCandidate(w)
             \/ Evaluate(w) \/ PublishBlob(w) \/ Prepare(w) \/ End(w)
          /\ UNCHANGED chainVars
  /\ UNCHANGED <<fundVars, pools, aged>>
----------------------------------------------------------------------------
Mine ==
  /\ mempool # <<>>
  /\ mempool' = Tail(mempool)
  /\ nonce' = nonce + 1
  /\ \/ /\ Tick(Head(mempool).call)
        /\ looked' = Append(looked, [by |-> "worker", seen |-> Head(mempool).seen,
                                     published |-> Head(mempool).published])
     \/ /\ ~Accepts(Head(mempool).call)  \* reverted: the nonce is spent
        /\ UNCHANGED <<fundVars, looked>>
  /\ UNCHANGED <<pools, aged, worker>>

(* The contract's other two actions, which no code of the loop sends: the  *)
(* holder of the key records a heartbeat or closes a position, mined at    *)
(* once.                                                                   *)
ByHand ==
  /\ mempool = <<>> /\ nonce < MaxTicks
  /\ \/ Tick(NoCall)
     \/ \E t \in Tokens, received \in Amounts :
          Tick([NoCall EXCEPT !.action = "SELL", !.token = t, !.amountUsdc = received,
                              !.amountToken = positions[t].amount])
  /\ nonce' = nonce + 1
  /\ looked' = Append(looked, [by |-> "hand", seen |-> 0, published |-> FALSE])
  /\ UNCHANGED <<pools, aged, worker, mempool>>

PoolCreated ==
  /\ Len(pools) < MaxPools
  /\ \E token \in Tokens : pools' = Append(pools, token)
  /\ UNCHANGED <<fundVars, aged, worker, chainVars>>

PoolAgesOut ==
  /\ aged < Len(pools)
  /\ aged' = aged + 1
  /\ UNCHANGED <<fundVars, pools, worker, chainVars>>

Next == WorkerStep \/ Mine \/ ByHand \/ PoolCreated \/ PoolAgesOut

Spec == Init /\ [][Next]_vars
----------------------------------------------------------------------------
FromWorker(i) == looked[i].by = "worker"

(* A tick of the loop names a token no earlier tick had named when its run *)
(* looked: a second decision on a token needs two runs whose looks came    *)
(* before the first one's tick.                                            *)
NoRedecisionAfterLook ==
  \A j \in DOMAIN ticks : FromWorker(j) =>
    \A i \in 1 .. looked[j].seen : ticks[i].call.token # ticks[j].call.token

(* Unless two runs overlapped on it, the fund never spends more than the   *)
(* guardrail on one token, however often its pools come back.              *)
CapUnlessOverlap ==
  \A t \in Tokens : positions[t].costBasisUsdc > MaxBuy =>
    \E i, j \in DOMAIN ticks :
      /\ i < j /\ looked[j].seen < i
      /\ ticks[i].call.token = t /\ ticks[j].call.token = t
      /\ ticks[i].call.action = "BUY" /\ ticks[j].call.action = "BUY"

(* Whatever became of its run, every tick of the loop carries a reason     *)
(* that was offered for publication first, is about its token, and states  *)
(* the very fill it committed: both legs of a BUY, none for a PASS.        *)
TicksCarryTheirReason ==
  \A i \in DOMAIN ticks : FromWorker(i) =>
    LET call == ticks[i].call IN
    /\ looked[i].published
    /\ call.reason.token = call.token
    /\ call.reason.quoteIn = call.amountUsdc /\ call.reason.tokenOut = call.amountToken
    /\ call.action = "BUY" => call.reason.decision = "BUY"

(* evaluator.ts:34: "Never exceed 250 USDC per token", with the guardrail  *)
(* that is to "mirror the contract's checks server-side" (line 119).       *)
PerTokenCap == \A t \in Tokens : positions[t].costBasisUsdc <= MaxBuy
=============================================================================
