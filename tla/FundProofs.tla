---------------------------- MODULE FundProofs -----------------------------
(***************************************************************************)
(* The two funds, their agents and their pages, for any number of runs,    *)
(* tokens, pools and trades, any answer of a model, any pool and router:   *)
(* what overlapping runs of the launch sniper cannot do, that both         *)
(* contracts' histories explain what they hold, and that what stands on    *)
(* one page belongs together.                                              *)
(***************************************************************************)
EXTENDS LaunchSniper, FundPanels, SequenceTheorems, Sums

Reason == [token : Tokens \cup {NoToken}, decision : {"PASS", "BUY"}, quoteIn : Nat, tokenOut : Nat]

AnyCall == [action : {"HOLD", "PASS", "BUY", "SELL"}, token : Tokens \cup {NoToken},
            amountToken : Nat, amountUsdc : Nat, reason : Reason]

(* What a run sends: it never holds or sells, and spends within the cap.   *)
LoopCall == [action : {"PASS", "BUY"}, token : Tokens,
             amountToken : Nat, amountUsdc : 0 .. MaxBuy, reason : Reason]

Position == [amount : Int, costBasisUsdc : Nat, proceedsUsdc : Nat, open : BOOLEAN]

FundTypes ==
  /\ paperUsdc \in Nat
  /\ positions \in [Tokens -> Position]
  /\ tokens \in Seq(Tokens)
  /\ ticks \in Seq([call : AnyCall, paperUsdcAfter : Nat])

WorkerState ==
  [step : {"idle", "look", "picked", "planned", "blob", "signed"}, todo : Seq(Tokens),
   seen : Nat, call : LoopCall \cup {NoCall}, published : BOOLEAN, nonce : Nat]

Pending == [call : LoopCall, seen : Nat, published : BOOLEAN]

LookRecord == [by : {"worker", "hand"}, seen : Nat, published : BOOLEAN]

LoopTypes ==
  /\ pools \in Seq(Tokens) /\ aged \in Nat
  /\ worker \in [Workers -> WorkerState]
  /\ mempool \in Seq(Pending)
  /\ nonce \in Nat

(* Every token a tick names is in the list the duplicate check reads.      *)
Listed == \A i \in 1 .. Len(ticks) :
            ticks[i].call.token \in Tokens => ticks[i].call.token \in Range(tokens)

(* Money was spent on a token only by a BUY of it.                         *)
Bought == \A t \in Tokens : positions[t].costBasisUsdc > 0 =>
            \E i \in 1 .. Len(ticks) : ticks[i].call.token = t /\ ticks[i].call.action = "BUY"

(* None of the first n ticks, all of which exist, names the token.         *)
Fresh(token, n) == n <= Len(ticks) /\ \A i \in 1 .. n : ticks[i].call.token # token

(* What a run has decided, and what it has sent, was fresh when it looked. *)
RunLooked(run) ==
  /\ run.step \in {"look", "picked"} => run.todo # <<>>
  /\ run.step = "picked" => Fresh(Head(run.todo), run.seen)
  /\ run.step \in {"planned", "blob", "signed"} =>
       run.call \in LoopCall /\ Fresh(run.call.token, run.seen)

RunsLooked == \A w \in Workers : RunLooked(worker[w])

PendingLooked == \A i \in 1 .. Len(mempool) : Fresh(mempool[i].call.token, mempool[i].seen)

(* Every tick has its record, of a look at a shorter history.              *)
Recorded ==
  /\ looked \in Seq(LookRecord)
  /\ Len(looked) = Len(ticks)
  /\ \A j \in 1 .. Len(looked) : looked[j].seen < j

FundInv == FundTypes /\ Listed /\ Bought

HistoryInv == FundInv /\ Recorded /\ NoRedecisionAfterLook /\ CapUnlessOverlap

Inv == HistoryInv /\ LoopTypes /\ RunsLooked /\ PendingLooked
----------------------------------------------------------------------------
(* The contract.                                                           *)

(* Touching a token keeps every listed token listed and adds this one.     *)
LEMMA TouchLists ==
  ASSUME tokens \in Seq(Tokens), NEW t \in Tokens, Touch(t)
  PROVE  tokens' \in Seq(Tokens) /\ Range(tokens') = Range(tokens) \cup {t}
<1>1. CASE t \in Range(tokens)
  BY <1>1 DEF Touch
<1>2. CASE t \notin Range(tokens)
  <2>1. tokens' = Append(tokens, t)
    BY <1>2 DEF Touch
  <2>2. /\ tokens' \in Seq(Tokens) /\ Len(tokens') = Len(tokens) + 1
        /\ \A i \in 1 .. Len(tokens) : tokens'[i] = tokens[i]
        /\ tokens'[Len(tokens) + 1] = t
    BY <2>1, AppendProperties
  <2>3. DOMAIN tokens = 1 .. Len(tokens) /\ DOMAIN tokens' = 1 .. Len(tokens) + 1
        /\ Len(tokens) \in Nat
    BY <2>2, LenProperties
  <2>4. Range(tokens') \subseteq Range(tokens) \cup {t}
    BY <2>2, <2>3 DEF Range
  <2>5. Range(tokens) \subseteq Range(tokens')
    BY <2>2, <2>3 DEF Range
  <2>6. t \in Range(tokens')
    BY <2>2, <2>3 DEF Range
  <2> QED BY <2>2, <2>4, <2>5, <2>6
<1> QED BY <1>1, <1>2

(* A tick is appended and nothing before it changes; the cost basis of its *)
(* token grows by what a BUY spends, no other moves.                       *)
LEMMA TickAppends ==
  ASSUME FundTypes, NEW call \in AnyCall, Tick(call)
  PROVE  /\ FundTypes'
         /\ Len(ticks') = Len(ticks) + 1 /\ Len(ticks) \in Nat
         /\ \A i \in 1 .. Len(ticks) : ticks'[i] = ticks[i]
         /\ ticks'[Len(ticks) + 1].call = call
         /\ \A t \in Tokens : positions'[t].costBasisUsdc =
              positions[t].costBasisUsdc
              + (IF call.action = "BUY" /\ call.token = t THEN call.amountUsdc ELSE 0)
         /\ Range(tokens') = Range(tokens) \cup ({call.token} \cap Tokens)
<1>0. /\ call.amountToken \in Nat /\ call.amountUsdc \in Nat
      /\ call.token \in Tokens \cup {NoToken}
  BY DEF AnyCall
<1>t. /\ paperUsdc \in Nat /\ tokens \in Seq(Tokens)
      /\ positions \in [Tokens -> Position]
      /\ \A t \in Tokens : positions[t].costBasisUsdc \in Nat
  BY DEF FundTypes, Position
<1> USE FundAssumption, <1>0, <1>t
<1>1. /\ paperUsdc' \in Nat /\ positions' \in [Tokens -> Position]
      /\ tokens' \in Seq(Tokens)
      /\ \A t \in Tokens : positions'[t].costBasisUsdc =
           positions[t].costBasisUsdc
           + (IF call.action = "BUY" /\ call.token = t THEN call.amountUsdc ELSE 0)
      /\ Range(tokens') = Range(tokens) \cup ({call.token} \cap Tokens)
  <2>1. CASE Hold(call)
    <3>1. call.token = NoToken /\ call.action = "HOLD"
      BY <2>1 DEF Tick, Accepts, Hold
    <3> QED BY <2>1, <3>1 DEF Hold
  <2>2. CASE Pass(call)
    <3>1. call.token \in Tokens /\ call.action = "PASS"
      BY <2>2 DEF Tick, Accepts, Pass
    <3>2. tokens' \in Seq(Tokens) /\ Range(tokens') = Range(tokens) \cup {call.token}
      BY <2>2, <3>1, TouchLists DEF Pass
    <3> QED BY <2>2, <3>1, <3>2 DEF Pass
  <2>3. CASE Buy(call)
    <3>1. /\ call.token \in Tokens /\ call.action = "BUY"
          /\ call.amountUsdc <= paperUsdc
      BY <2>3 DEF Tick, Accepts, Buy, BothLegs
    <3>2. tokens' \in Seq(Tokens) /\ Range(tokens') = Range(tokens) \cup {call.token}
      BY <2>3, <3>1, TouchLists DEF Buy
    <3> DEFINE p == positions[call.token]
               q == [p EXCEPT !.amount        = p.amount + call.amountToken,
                              !.costBasisUsdc = p.costBasisUsdc + call.amountUsdc,
                              !.open          = TRUE]
    <3>3. p \in Position /\ positions' = [positions EXCEPT ![call.token] = q]
      BY <2>3, <3>1 DEF Buy
    <3>4. q \in Position /\ q.costBasisUsdc = p.costBasisUsdc + call.amountUsdc
      <4>1. /\ p.amount \in Int /\ p.costBasisUsdc \in Nat /\ p.proceedsUsdc \in Nat
            /\ p.open \in BOOLEAN
        BY <3>3 DEF Position
      <4>2. p.amount + call.amountToken \in Int /\ p.costBasisUsdc + call.amountUsdc \in Nat
        BY <4>1
      <4> QED BY <3>3, <4>1, <4>2 DEF Position
    <3> HIDE DEF q
    <3>5. positions' \in [Tokens -> Position]
      BY <3>3, <3>4
    <3>6. \A t \in Tokens : positions'[t].costBasisUsdc =
            positions[t].costBasisUsdc + (IF call.token = t THEN call.amountUsdc ELSE 0)
      BY <3>1, <3>3, <3>4
    <3> QED BY <2>3, <3>1, <3>2, <3>5, <3>6 DEF Buy
  <2>4. CASE Sell(call)
    <3>1. call.token \in Tokens /\ call.action = "SELL"
      BY <2>4 DEF Tick, Accepts, Sell, BothLegs
    <3>2. tokens' \in Seq(Tokens) /\ Range(tokens') = Range(tokens) \cup {call.token}
      BY <2>4, <3>1, TouchLists DEF Sell
    <3> DEFINE p == positions[call.token]
               q == [p EXCEPT !.amount       = p.amount - call.amountToken,
                              !.proceedsUsdc = p.proceedsUsdc + call.amountUsdc,
                              !.open         = p.open /\ p.amount # call.amountToken]
    <3>3. p \in Position /\ positions' = [positions EXCEPT ![call.token] = q]
      BY <2>4, <3>1 DEF Sell
    <3>4. q \in Position /\ q.costBasisUsdc = p.costBasisUsdc
      <4>1. /\ p.amount \in Int /\ p.costBasisUsdc \in Nat /\ p.proceedsUsdc \in Nat
            /\ p.open \in BOOLEAN
        BY <3>3 DEF Position
      <4>2. p.amount - call.amountToken \in Int /\ p.proceedsUsdc + call.amountUsdc \in Nat
        BY <4>1
      <4> QED BY <3>3, <4>1, <4>2 DEF Position
    <3> HIDE DEF q
    <3>5. positions' \in [Tokens -> Position]
      BY <3>3, <3>4
    <3>6. \A t \in Tokens : positions'[t].costBasisUsdc = positions[t].costBasisUsdc + 0
      BY <3>1, <3>3, <3>4
    <3> QED BY <2>4, <3>1, <3>2, <3>5, <3>6 DEF Sell
  <2> QED BY <2>1, <2>2, <2>3, <2>4 DEF Tick
<1>2. ticks' = Append(ticks, [call |-> call, paperUsdcAfter |-> paperUsdc'])
  BY DEF Tick
<1>3. [call |-> call, paperUsdcAfter |-> paperUsdc'] \in [call : AnyCall, paperUsdcAfter : Nat]
  BY <1>1
<1>4. /\ ticks' \in Seq([call : AnyCall, paperUsdcAfter : Nat])
      /\ Len(ticks') = Len(ticks) + 1 /\ Len(ticks) \in Nat
      /\ \A i \in 1 .. Len(ticks) : ticks'[i] = ticks[i]
      /\ ticks'[Len(ticks) + 1] = [call |-> call, paperUsdcAfter |-> paperUsdc']
  BY <1>2, <1>3, AppendProperties, LenProperties DEF FundTypes
<1> QED BY <1>1, <1>4 DEF FundTypes

(* The contract keeps its own part of the invariant under any tick.        *)
LEMMA TickKeepsFund ==
  ASSUME FundInv, NEW call \in AnyCall, Tick(call)
  PROVE  FundInv'
<1>1. /\ FundTypes'
      /\ Len(ticks') = Len(ticks) + 1 /\ Len(ticks) \in Nat
      /\ \A i \in 1 .. Len(ticks) : ticks'[i] = ticks[i]
      /\ ticks'[Len(ticks) + 1].call = call
      /\ \A t \in Tokens : positions'[t].costBasisUsdc =
           positions[t].costBasisUsdc
           + (IF call.action = "BUY" /\ call.token = t THEN call.amountUsdc ELSE 0)
      /\ Range(tokens') = Range(tokens) \cup ({call.token} \cap Tokens)
  BY TickAppends DEF FundInv
<1>2. Listed'
  BY <1>1 DEF FundInv, Listed
<1>3. Bought'
  <2> SUFFICES ASSUME NEW t \in Tokens, positions'[t].costBasisUsdc > 0
               PROVE  \E i \in 1 .. Len(ticks') :
                        ticks'[i].call.token = t /\ ticks'[i].call.action = "BUY"
    BY DEF Bought
  <2>1. CASE call.action = "BUY" /\ call.token = t
    BY <1>1, <2>1
  <2>2. CASE ~(call.action = "BUY" /\ call.token = t)
    <3>1. positions'[t].costBasisUsdc = positions[t].costBasisUsdc + 0
      BY <1>1, <2>2
    <3>2. positions[t].costBasisUsdc \in Nat
      BY DEF FundInv, FundTypes, Position
    <3>3. PICK i \in 1 .. Len(ticks) : ticks[i].call.token = t /\ ticks[i].call.action = "BUY"
      BY <3>1, <3>2 DEF FundInv, Bought
    <3> QED BY <1>1, <3>3
  <2> QED BY <2>1, <2>2
<1> QED BY <1>1, <1>2, <1>3 DEF FundInv

(* A token that was fresh at a look stays so for that look.                *)
LEMMA FreshStays ==
  ASSUME FundInv, NEW call \in AnyCall, Tick(call),
         NEW token, NEW n \in Nat, Fresh(token, n)
  PROVE  Fresh(token, n)'
BY TickAppends DEF FundInv, Fresh

(* A tick by a run that had looked, or by hand, keeps what is said of the  *)
(* history.                                                                *)
LEMMA TickKeepsHistory ==
  ASSUME HistoryInv, NEW call \in AnyCall, Tick(call),
         NEW look \in LookRecord, looked' = Append(looked, look), look.seen <= Len(ticks),
         look.by = "worker" => Fresh(call.token, look.seen),
         call.action = "BUY" => look.by = "worker" /\ call \in LoopCall
  PROVE  HistoryInv'
<1>1. FundInv'
  BY TickKeepsFund DEF HistoryInv
<1>2. /\ Len(ticks') = Len(ticks) + 1 /\ Len(ticks) \in Nat
      /\ \A i \in 1 .. Len(ticks) : ticks'[i] = ticks[i]
      /\ ticks'[Len(ticks) + 1].call = call
      /\ \A t \in Tokens : positions'[t].costBasisUsdc =
           positions[t].costBasisUsdc
           + (IF call.action = "BUY" /\ call.token = t THEN call.amountUsdc ELSE 0)
  BY TickAppends DEF HistoryInv, FundInv
<1>3. /\ looked' \in Seq(LookRecord)
      /\ Len(looked') = Len(ticks')
      /\ \A i \in 1 .. Len(ticks) : looked'[i] = looked[i]
      /\ looked'[Len(ticks) + 1] = look
  BY <1>2, AppendProperties DEF HistoryInv, Recorded
<1>4. Recorded'
  BY <1>2, <1>3 DEF HistoryInv, Recorded, LookRecord
<1>5. DOMAIN ticks = 1 .. Len(ticks) /\ DOMAIN ticks' = 1 .. Len(ticks) + 1
  BY <1>1, <1>2, LenProperties DEF HistoryInv, FundInv, FundTypes
<1>6. NoRedecisionAfterLook'
  <2> SUFFICES ASSUME NEW j \in 1 .. Len(ticks) + 1, looked'[j].by = "worker",
                      NEW i \in 1 .. looked'[j].seen
               PROVE  ticks'[i].call.token # ticks'[j].call.token
    BY <1>5 DEF NoRedecisionAfterLook, FromWorker
  <2>1. CASE j = Len(ticks) + 1
    <3>1. looked'[j] = look /\ ticks'[j].call.token = call.token
      BY <2>1, <1>2, <1>3
    <3>2. Fresh(call.token, look.seen) /\ i \in 1 .. look.seen /\ look.seen \in Nat
      BY <3>1 DEF LookRecord
    <3>3. i \in 1 .. Len(ticks) /\ ticks[i].call.token # call.token
      BY <3>2, <1>2 DEF Fresh
    <3> QED BY <3>1, <3>3, <1>2
  <2>2. CASE j \in 1 .. Len(ticks)
    <3>1. looked'[j] = looked[j] /\ looked[j] \in LookRecord /\ looked[j].seen < j
      BY <2>2, <1>2, <1>3, LenProperties DEF HistoryInv, Recorded
    <3>2. i \in 1 .. looked[j].seen /\ i \in 1 .. Len(ticks)
      BY <3>1, <2>2, <1>2 DEF LookRecord
    <3>3. ticks[i].call.token # ticks[j].call.token
      BY <1>5, <2>2, <3>1, <3>2 DEF HistoryInv, NoRedecisionAfterLook, FromWorker
    <3> QED BY <3>2, <3>3, <2>2, <1>2
  <2> QED BY <2>1, <2>2, <1>2
<1>7. CapUnlessOverlap'
  <2> SUFFICES ASSUME NEW t \in Tokens, positions'[t].costBasisUsdc > MaxBuy
               PROVE  \E i, j \in DOMAIN ticks' :
                        /\ i < j /\ looked'[j].seen < i
                        /\ ticks'[i].call.token = t /\ ticks'[j].call.token = t
                        /\ ticks'[i].call.action = "BUY" /\ ticks'[j].call.action = "BUY"
    BY Zenon DEF CapUnlessOverlap
  <2>1. CASE positions[t].costBasisUsdc > MaxBuy
    <3>1. PICK i, j \in 1 .. Len(ticks) :
            /\ i < j /\ looked[j].seen < i
            /\ ticks[i].call.token = t /\ ticks[j].call.token = t
            /\ ticks[i].call.action = "BUY" /\ ticks[j].call.action = "BUY"
      BY <2>1, <1>5 DEF HistoryInv, CapUnlessOverlap
    <3>2. i \in DOMAIN ticks' /\ j \in DOMAIN ticks'
      BY <1>2, <1>5
    <3> QED BY <3>1, <3>2, <1>2, <1>3
  <2>2. CASE ~(positions[t].costBasisUsdc > MaxBuy)
    <3>1. positions[t].costBasisUsdc \in Nat /\ MaxBuy \in Nat
      BY SniperAssumption DEF HistoryInv, FundInv, FundTypes, Position
    <3>2. call.action = "BUY" /\ call.token = t
      BY <2>2, <3>1, <1>2
    <3>3. call.amountUsdc \in 0 .. MaxBuy /\ Fresh(t, look.seen)
      BY <3>2 DEF LoopCall
    <3>4. positions[t].costBasisUsdc > 0
      BY <3>1, <3>2, <3>3, <1>2
    <3>5. PICK i \in 1 .. Len(ticks) : ticks[i].call.token = t /\ ticks[i].call.action = "BUY"
      BY <3>4 DEF HistoryInv, FundInv, Bought
    <3>6. look.seen \in Nat /\ ~(i \in 1 .. look.seen)
      BY <3>3, <3>5 DEF Fresh, LookRecord
    <3>7. look.seen < i
      BY <3>6, <1>2
    <3>8. i \in DOMAIN ticks' /\ Len(ticks) + 1 \in DOMAIN ticks' /\ i < Len(ticks) + 1
      BY <1>2, <1>5
    <3> QED BY <3>2, <3>5, <3>7, <3>8, <1>2, <1>3
  <2> QED BY <2>1, <2>2
<1> QED BY <1>1, <1>4, <1>6, <1>7 DEF HistoryInv
----------------------------------------------------------------------------
(* The loop.                                                               *)

(* Whatever the model answers and the pool shows, the plan is a call of    *)
(* the loop about the candidate's token.                                   *)
LEMMA PlansAreLoopCalls ==
  ASSUME NEW token \in Tokens
  PROVE  \A call \in Decisions(token) : call \in LoopCall /\ call.token = token
<1>1. \A d \in {"PASS", "BUY"} : PassCall(token, d) \in LoopCall /\ PassCall(token, d).token = token
  BY SniperAssumption DEF PassCall, LoopCall, Reason
<1>2. ASSUME NEW s \in Sizes, NEW p \in Prices, NEW d \in Depths
      PROVE  /\ Plan(token, Guarded(s), p, d) \in LoopCall
             /\ Plan(token, Guarded(s), p, d).token = token
  <2> DEFINE size == Guarded(s)
             fill == PaperFill(size, p)
  <2>1. size \in 0 .. MaxBuy
    BY SniperAssumption DEF Guarded
  <2>2. fill \in Nat
    <3>1. p \in Nat /\ size \in Nat
      BY <2>1, SniperAssumption
    <3> HIDE DEF size
    <3>2. p > 0 => size \div p \in Nat
      BY <3>1
    <3> QED BY <3>1, <3>2 DEF PaperFill
  <2> HIDE DEF size, fill
  <2>3. BuyCall(token, size, fill) \in LoopCall /\ BuyCall(token, size, fill).token = token
    BY <2>1, <2>2, SniperAssumption DEF BuyCall, LoopCall, Reason
  <2>4. Plan(token, size, p, d) = PassCall(token, "PASS") \/ Plan(token, size, p, d) = BuyCall(token, size, fill)
    BY DEF Plan, fill
  <2> QED BY <1>1, <2>3, <2>4 DEF size
<1> QED BY <1>1, <1>2 DEF Decisions

(* A run that is over has decided nothing.                                 *)
LEMMA IdleRun == Idle \in WorkerState /\ RunLooked(Idle)
<1>1. <<>> \in Seq(Tokens)
  OBVIOUS
<1> QED BY <1>1 DEF Idle, WorkerState, RunLooked

(* A step of one run that leaves the contract alone touches only that run. *)
LEMMA OneRunSteps ==
  ASSUME RunsLooked, worker \in [Workers -> WorkerState], UNCHANGED ticks,
         NEW w \in Workers, NEW run \in WorkerState, RunLooked(run),
         worker' = [worker EXCEPT ![w] = run]
  PROVE  worker' \in [Workers -> WorkerState] /\ RunsLooked'
BY DEF RunsLooked, RunLooked, Fresh

(* History speaks of the contract's state and the bookkeeping only.        *)
LEMMA HistoryUnchanged ==
  ASSUME HistoryInv, UNCHANGED <<fundVars, looked>>
  PROVE  HistoryInv'
BY DEF HistoryInv, FundInv, FundTypes, Listed, Bought, Recorded, NoRedecisionAfterLook,
       CapUnlessOverlap, FromWorker, fundVars

(* No step of a run on its way to its transaction disturbs the invariant.  *)
LEMMA RunKeepsInv ==
  ASSUME Inv, UNCHANGED <<fundVars, pools, aged, chainVars>>, NEW w \in Workers,
         \/ FetchCandidates(w) \/ SkipCandidate(w) \/ TakeCandidate(w)
         \/ Evaluate(w) \/ PublishBlob(w) \/ Prepare(w) \/ End(w)
  PROVE  Inv'
<1> USE DEF Inv, LoopTypes
<1>0. worker[w] \in WorkerState /\ RunLooked(worker[w])
  BY DEF RunsLooked
<1>1. \E run \in WorkerState : RunLooked(run) /\ worker' = [worker EXCEPT ![w] = run]
  <2>1. CASE FetchCandidates(w)
    <3>1. Candidates \in Seq(Tokens)
      <4> DEFINE last == IF aged + MaxCandidates < Len(pools) THEN aged + MaxCandidates ELSE Len(pools)
      <4>1. Len(pools) \in Nat /\ \A i \in 1 .. Len(pools) : pools[i] \in Tokens
        OBVIOUS
      <4>2. last \in Int /\ last <= Len(pools)
        BY <4>1, SniperAssumption
      <4>3. \A i \in aged + 1 .. last : pools[i] \in Tokens
        BY <4>1, <4>2
      <4> QED BY <4>2, <4>3, SubSeqProperties DEF Candidates
    <3>2. [Idle EXCEPT !.step = "look", !.todo = Candidates] \in WorkerState
      BY <3>1, IdleRun DEF WorkerState
    <3>3. RunLooked([Idle EXCEPT !.step = "look", !.todo = Candidates])
      BY <2>1 DEF FetchCandidates, RunLooked, Idle
    <3> QED BY <3>2, <3>3, <2>1 DEF FetchCandidates
  <2>2. CASE SkipCandidate(w)
    <3>1. worker[w].todo \in Seq(Tokens) /\ worker[w].todo # <<>>
      BY <1>0, <2>2 DEF SkipCandidate, RunLooked, WorkerState
    <3>2. Tail(worker[w].todo) \in Seq(Tokens)
      BY <3>1
    <3> DEFINE run == [worker[w] EXCEPT !.todo = Tail(worker[w].todo)]
    <3>3. run \in WorkerState
      BY <1>0, <3>2 DEF WorkerState
    <3>4. Tail(worker[w].todo) # <<>> => RunLooked(run)
      BY <1>0, <2>2 DEF SkipCandidate, RunLooked, WorkerState
    <3> QED BY <3>3, <3>4, <2>2, IdleRun DEF SkipCandidate
  <2>3. CASE TakeCandidate(w)
    <3> DEFINE token == Head(worker[w].todo)
               run == [worker[w] EXCEPT !.step = "picked", !.seen = Len(ticks)]
    <3>1. worker[w].todo \in Seq(Tokens) /\ worker[w].todo # <<>> /\ token \in Tokens
      BY <1>0, <2>3 DEF TakeCandidate, RunLooked, WorkerState
    <3>2. Len(ticks) \in Nat
      BY LenProperties DEF HistoryInv, FundInv, FundTypes
    <3>3. Fresh(token, Len(ticks))
      <4>1. \A i \in 1 .. Len(ticks) : ticks[i].call.token # token
        BY <2>3, <3>1 DEF TakeCandidate, HistoryInv, FundInv, Listed
      <4> QED BY <3>2, <4>1 DEF Fresh
    <3>4. run \in WorkerState
      BY <1>0, <3>2 DEF WorkerState
    <3>5. RunLooked(run)
      BY <1>0, <3>1, <3>3 DEF RunLooked, WorkerState
    <3> QED BY <3>4, <3>5, <2>3 DEF TakeCandidate
  <2>4. CASE Evaluate(w)
    <3> DEFINE token == Head(worker[w].todo)
    <3>1. worker[w].todo \in Seq(Tokens) /\ worker[w].todo # <<>> /\ Fresh(token, worker[w].seen)
      BY <1>0, <2>4 DEF Evaluate, RunLooked, WorkerState
    <3>2. PICK call \in Decisions(token) :
            worker' = [worker EXCEPT ![w] =
                         [worker[w] EXCEPT !.step = "planned", !.todo = <<>>, !.call = call]]
      BY <2>4 DEF Evaluate
    <3>3. call \in LoopCall /\ call.token = token
      BY <3>1, PlansAreLoopCalls
    <3> DEFINE run == [worker[w] EXCEPT !.step = "planned", !.todo = <<>>, !.call = call]
    <3>4. run \in WorkerState
      <4>1. call \in LoopCall \cup {NoCall} /\ <<>> \in Seq(Tokens)
        BY <3>3
      <4> QED BY <1>0, <4>1 DEF WorkerState
    <3>5. RunLooked(run)
      <4>1. run.step = "planned" /\ run.call = call /\ run.seen = worker[w].seen
        BY <1>0 DEF WorkerState
      <4> QED BY <3>1, <3>3, <4>1 DEF RunLooked
    <3> QED BY <3>2, <3>4, <3>5
  <2>5. CASE PublishBlob(w)
    <3> DEFINE run == [worker[w] EXCEPT !.step = "blob", !.published = TRUE]
    <3>1. run \in WorkerState
      BY <1>0 DEF WorkerState
    <3>2. RunLooked(run)
      BY <1>0, <2>5 DEF PublishBlob, RunLooked, WorkerState
    <3> QED BY <3>1, <3>2, <2>5 DEF PublishBlob
  <2>6. CASE Prepare(w)
    <3> DEFINE run == [worker[w] EXCEPT !.step = "signed", !.nonce = nonce + Len(mempool)]
    <3>1. run \in WorkerState
      <4>1. nonce + Len(mempool) \in Nat
        BY LenProperties
      <4> QED BY <1>0, <4>1 DEF WorkerState
    <3>2. RunLooked(run)
      BY <1>0, <2>6 DEF Prepare, RunLooked, WorkerState
    <3> QED BY <3>1, <3>2, <2>6 DEF Prepare
  <2>7. CASE End(w)
    BY <2>7, IdleRun DEF End
  <2> QED BY <2>1, <2>2, <2>3, <2>4, <2>5, <2>6, <2>7
<1>2. worker' \in [Workers -> WorkerState] /\ RunsLooked'
  BY <1>1, OneRunSteps DEF fundVars
<1>3. HistoryInv'
  BY HistoryUnchanged DEF chainVars
<1>4. PendingLooked'
  BY DEF PendingLooked, Fresh, fundVars, chainVars
<1> QED BY <1>2, <1>3, <1>4 DEF chainVars

(* Handing over a transaction keeps what the run knew with it.             *)
LEMMA SendKeepsInv ==
  ASSUME Inv, UNCHANGED <<fundVars, pools, aged, nonce, looked>>, NEW w \in Workers, Send(w)
  PROVE  Inv'
<1> USE DEF Inv, LoopTypes
<1>1. /\ Transaction(w) \in Pending
      /\ Fresh(Transaction(w).call.token, Transaction(w).seen)
  <2>1. worker[w] \in WorkerState /\ RunLooked(worker[w]) /\ worker[w].step = "signed"
    BY DEF RunsLooked, Send
  <2> QED BY <2>1 DEF Transaction, Pending, WorkerState, RunLooked
<1>2. \/ mempool' = Append(mempool, Transaction(w))
      \/ \E place \in 1 .. Len(mempool) : mempool' = [mempool EXCEPT ![place] = Transaction(w)]
  BY DEF Send
<1>3. mempool' \in Seq(Pending) /\ PendingLooked'
  <2>1. CASE mempool' = Append(mempool, Transaction(w))
    <3>1. /\ mempool' \in Seq(Pending) /\ Len(mempool') = Len(mempool) + 1
          /\ \A i \in 1 .. Len(mempool) : mempool'[i] = mempool[i]
          /\ mempool'[Len(mempool) + 1] = Transaction(w)
      BY <1>1, <2>1, AppendProperties
    <3> QED BY <1>1, <3>1 DEF PendingLooked, Fresh, fundVars
  <2>2. ASSUME NEW place \in 1 .. Len(mempool),
               mempool' = [mempool EXCEPT ![place] = Transaction(w)]
        PROVE  mempool' \in Seq(Pending) /\ PendingLooked'
    <3>1. /\ mempool' \in Seq(Pending) /\ Len(mempool') = Len(mempool)
          /\ \A i \in 1 .. Len(mempool) :
               mempool'[i] = IF i = place THEN Transaction(w) ELSE mempool[i]
      BY <1>1, <2>2, ExceptSeq
    <3> QED BY <1>1, <3>1 DEF PendingLooked, Fresh, fundVars
  <2> QED BY <1>2, <2>1, <2>2
<1>4. worker' \in [Workers -> WorkerState] /\ RunsLooked'
  BY IdleRun, OneRunSteps DEF Send, fundVars
<1>5. HistoryInv'
  BY HistoryUnchanged
<1> QED BY <1>3, <1>4, <1>5

(* What runs and pending transactions know survives a tick.                *)
LEMMA TickKeepsLooks ==
  ASSUME Inv, NEW call \in AnyCall, Tick(call), UNCHANGED worker
  PROVE  RunsLooked' /\ \A token, n : n \in Nat /\ Fresh(token, n) => Fresh(token, n)'
<1>1. \A token, n : n \in Nat /\ Fresh(token, n) => Fresh(token, n)'
  BY FreshStays DEF Inv, HistoryInv
<1>2. RunsLooked'
  BY <1>1 DEF Inv, LoopTypes, WorkerState, RunsLooked, RunLooked
<1> QED BY <1>1, <1>2

(* A mined transaction is a tick of a run that looked, or reverts.         *)
LEMMA MineKeepsInv == ASSUME Inv, Mine PROVE Inv'
<1> USE DEF Inv, LoopTypes
<1>1. /\ Head(mempool) = mempool[1] /\ 1 \in 1 .. Len(mempool) /\ mempool[1] \in Pending
      /\ mempool' \in Seq(Pending) /\ Len(mempool') = Len(mempool) - 1
      /\ \A i \in 1 .. Len(mempool') : mempool'[i] = mempool[i + 1]
      /\ Len(mempool) \in Nat
  BY HeadTailProperties, LenProperties DEF Mine
<1>2. CASE Tick(Head(mempool).call)
  <2> DEFINE call == mempool[1].call
             look == [by |-> "worker", seen |-> mempool[1].seen, published |-> mempool[1].published]
  <2>1. looked' = Append(looked, look)
    BY <1>1, <1>2 DEF Mine, Tick
  <2>2. call \in LoopCall /\ call \in AnyCall /\ look \in LookRecord
    BY <1>1, SniperAssumption DEF Pending, LoopCall, AnyCall, LookRecord
  <2>3. Fresh(call.token, look.seen)
    BY <1>1 DEF PendingLooked
  <2>4. HistoryInv'
    BY <1>1, <1>2, <2>1, <2>2, <2>3, TickKeepsHistory DEF Fresh
  <2>5. RunsLooked' /\ \A token, n : n \in Nat /\ Fresh(token, n) => Fresh(token, n)'
    BY <1>1, <1>2, <2>2, TickKeepsLooks DEF Mine
  <2>6. PendingLooked'
    <3> SUFFICES ASSUME NEW i \in 1 .. Len(mempool'), NEW token, NEW n,
                        token = mempool'[i].call.token, n = mempool'[i].seen
                 PROVE  Fresh(token, n)'
      BY DEF PendingLooked, Fresh
    <3>1. mempool'[i] = mempool[i + 1] /\ i + 1 \in 1 .. Len(mempool)
      BY <1>1
    <3>2. mempool[i + 1] \in Pending
      BY <3>1
    <3>3. n \in Nat /\ Fresh(token, n)
      BY <3>1, <3>2 DEF PendingLooked, Pending
    <3> QED BY <2>5, <3>3
  <2> QED BY <1>1, <2>4, <2>5, <2>6 DEF Mine
<1>3. CASE UNCHANGED <<fundVars, looked>>
  <2>1. HistoryInv'
    BY <1>3, HistoryUnchanged
  <2>2. RunsLooked' /\ PendingLooked'
    BY <1>1, <1>3 DEF Mine, RunsLooked, RunLooked, PendingLooked, Fresh, fundVars
  <2> QED BY <1>1, <2>1, <2>2 DEF Mine
<1> QED BY <1>2, <1>3 DEF Mine

(* The key holder neither buys nor evaluates.                              *)
LEMMA ByHandTicks ==
  ASSUME Inv, ByHand
  PROVE  \E call \in AnyCall : Tick(call) /\ call.action # "BUY"
<1> USE DEF Inv
<1>1. CASE Tick(NoCall)
  <2>1. NoCall \in AnyCall /\ NoCall.action # "BUY"
    BY DEF NoCall, AnyCall, Reason
  <2> QED BY <1>1, <2>1
<1>2. ASSUME NEW t \in Tokens, NEW received \in Amounts,
             Tick([NoCall EXCEPT !.action = "SELL", !.token = t, !.amountUsdc = received,
                                 !.amountToken = positions[t].amount])
      PROVE  \E call \in AnyCall : Tick(call) /\ call.action # "BUY"
  <2> DEFINE call == [NoCall EXCEPT !.action = "SELL", !.token = t, !.amountUsdc = received,
                                    !.amountToken = positions[t].amount]
  <2>1. call.action = "SELL" /\ call.amountToken = positions[t].amount
    BY DEF NoCall
  <2>2. positions[t].amount > 0 /\ positions[t].amount \in Int
    BY <1>2, <2>1 DEF Tick, Accepts, BothLegs, HistoryInv, FundInv, FundTypes, Position
  <2>3. call \in AnyCall
    <3>1. NoCall \in AnyCall
      BY DEF NoCall, AnyCall, Reason
    <3>2. received \in Nat /\ positions[t].amount \in Nat
      BY <2>2, FundAssumption
    <3> QED BY <3>1, <3>2 DEF AnyCall
  <2> QED BY <1>2, <2>1, <2>3
<1> QED BY <1>1, <1>2 DEF ByHand

LEMMA ByHandKeepsInv == ASSUME Inv, ByHand PROVE Inv'
<1> USE DEF Inv, LoopTypes
<1>1. PICK call \in AnyCall : Tick(call) /\ call.action # "BUY"
  BY ByHandTicks
<1> DEFINE look == [by |-> "hand", seen |-> 0, published |-> FALSE]
<1>2. look \in LookRecord /\ look.seen <= Len(ticks)
  BY LenProperties DEF LookRecord, HistoryInv, FundInv, FundTypes
<1>3. looked' = Append(looked, look)
  BY DEF ByHand
<1>4. HistoryInv'
  BY <1>1, <1>2, <1>3, TickKeepsHistory
<1>5. RunsLooked' /\ \A token, n : n \in Nat /\ Fresh(token, n) => Fresh(token, n)'
  BY <1>1, TickKeepsLooks DEF ByHand
<1>6. mempool = <<>> /\ nonce' = nonce + 1 /\ UNCHANGED <<pools, aged, worker, mempool>>
  BY DEF ByHand
<1>7. PendingLooked' /\ LoopTypes'
  BY <1>6 DEF PendingLooked
<1> QED BY <1>4, <1>5, <1>7

----------------------------------------------------------------------------
(* The invariant, and the two properties it was made for.                  *)
LEMMA InvInitially == Init => Inv
<1> SUFFICES ASSUME Init PROVE Inv
  OBVIOUS
<1> USE DEF Init, FundInit
<1>1. FundInv
  BY FundAssumption DEF FundInv, FundTypes, Listed, Bought, Position
<1>2. HistoryInv
  BY <1>1, SniperAssumption
     DEF HistoryInv, Recorded, NoRedecisionAfterLook, CapUnlessOverlap
<1>3. LoopTypes /\ RunsLooked /\ PendingLooked
  BY IdleRun DEF LoopTypes, RunsLooked, PendingLooked
<1> QED BY <1>2, <1>3 DEF Inv

LEMMA InvIsKept == Inv /\ [Next]_vars => Inv'
<1> SUFFICES ASSUME Inv, [Next]_vars PROVE Inv'
  OBVIOUS
<1>1. CASE WorkerStep
  <2>1. PICK w \in Workers :
          \/ Send(w) /\ UNCHANGED <<nonce, looked>>
          \/ /\ \/ FetchCandidates(w) \/ SkipCandidate(w) \/ TakeCandidate(w)
                \/ Evaluate(w) \/ PublishBlob(w) \/ Prepare(w) \/ End(w)
             /\ UNCHANGED chainVars
    BY <1>1 DEF WorkerStep
  <2>2. UNCHANGED <<fundVars, pools, aged>>
    BY <1>1 DEF WorkerStep
  <2> QED BY <2>1, <2>2, SendKeepsInv, RunKeepsInv
<1>2. CASE Mine
  BY <1>2, MineKeepsInv
<1>3. CASE ByHand
  BY <1>3, ByHandKeepsInv
<1>4. CASE PoolCreated \/ PoolAgesOut \/ UNCHANGED vars
  <2>1. /\ pools' \in Seq(Tokens) /\ aged' \in Nat
        /\ UNCHANGED <<fundVars, worker, chainVars>>
    <3>1. CASE PoolCreated
      BY <3>1, AppendProperties DEF PoolCreated, Inv, LoopTypes
    <3>2. CASE PoolAgesOut
      BY <3>2 DEF PoolAgesOut, Inv, LoopTypes
    <3>3. CASE UNCHANGED vars
      BY <3>3 DEF vars, Inv, LoopTypes
    <3> QED BY <1>4, <3>1, <3>2, <3>3
  <2>2. HistoryInv'
    BY <2>1, HistoryUnchanged DEF Inv, chainVars
  <2>3. RunsLooked' /\ PendingLooked'
    BY <2>1 DEF Inv, RunsLooked, RunLooked, PendingLooked, Fresh, fundVars, chainVars
  <2> QED BY <2>1, <2>2, <2>3 DEF Inv, LoopTypes, chainVars
<1> QED BY <1>1, <1>2, <1>3, <1>4 DEF Next

LEMMA InvAlways == Spec => []Inv
BY InvInitially, InvIsKept, PTL DEF Spec

(* However many runs overlap, a tick of the loop never decides on a token  *)
(* that had been decided on when its own run looked (loop.ts:69-84).       *)
THEOREM NoTokenIsRedecided == Spec => []NoRedecisionAfterLook
<1>1. Inv => NoRedecisionAfterLook
  BY DEF Inv, HistoryInv
<1> QED BY <1>1, InvAlways, PTL

(* The guardrail of evaluator.ts:120 bounds what is spent on one token     *)
(* as long as no two runs bought it on looks that missed each other.       *)
THEOREM CapHoldsWithoutOverlap == Spec => []CapUnlessOverlap
<1>1. Inv => CapUnlessOverlap
  BY DEF Inv, HistoryInv
<1> QED BY <1>1, InvAlways, PTL

----------------------------------------------------------------------------
(* The reason of a tick, from the plan that states it to the history.      *)
Reasoned(call) ==
  /\ call.reason.token = call.token
  /\ call.reason.quoteIn = call.amountUsdc /\ call.reason.tokenOut = call.amountToken
  /\ call.action = "BUY" => call.reason.decision = "BUY"

RunExplained(run) ==
  /\ run.step \in {"planned", "blob", "signed"} => Reasoned(run.call)
  /\ run.step \in {"blob", "signed"} => run.published

ReasonInv ==
  /\ \A w \in Workers : RunExplained(worker[w])
  /\ \A i \in 1 .. Len(mempool) : Reasoned(mempool[i].call) /\ mempool[i].published
  /\ TicksCarryTheirReason

(* Every plan is downgraded before its blob is built, not after.           *)
LEMMA PlansAreExplained ==
  ASSUME NEW token, NEW call \in Decisions(token)
  PROVE  Reasoned(call)
<1>1. \A decision : Reasoned(PassCall(token, decision))
  BY DEF PassCall, Reasoned
<1>2. \A size, fill : Reasoned(BuyCall(token, size, fill))
  BY DEF BuyCall, Reasoned
<1>3. \A size, p, d : Reasoned(Plan(token, size, p, d))
  BY <1>1, <1>2 DEF Plan
<1> QED BY <1>1, <1>3 DEF Decisions

LEMMA RunKeepsReasons ==
  ASSUME Inv, ReasonInv, NEW w \in Workers,
         \/ FetchCandidates(w) \/ SkipCandidate(w) \/ TakeCandidate(w)
         \/ Evaluate(w) \/ PublishBlob(w) \/ Prepare(w) \/ End(w) \/ Send(w)
  PROVE  \A v \in Workers : RunExplained(worker'[v])
<1>0. /\ worker \in [Workers -> WorkerState] /\ worker[w] \in WorkerState
      /\ \A v \in Workers : RunExplained(worker[v])
  BY DEF Inv, LoopTypes, ReasonInv
<1>1. \E run : RunExplained(run) /\ worker' = [worker EXCEPT ![w] = run]
  <2>0. RunExplained(Idle) /\ RunExplained([Idle EXCEPT !.step = "look", !.todo = Candidates])
    BY DEF RunExplained, Idle
  <2>1. CASE FetchCandidates(w)
    BY <2>0, <2>1 DEF FetchCandidates
  <2>2. CASE SkipCandidate(w)
    <3> DEFINE run == [worker[w] EXCEPT !.todo = Tail(worker[w].todo)]
    <3>1. RunExplained(run)
      BY <1>0, <2>2 DEF SkipCandidate, RunExplained, WorkerState
    <3> QED BY <2>0, <2>2, <3>1 DEF SkipCandidate
  <2>3. CASE TakeCandidate(w)
    <3>1. RunExplained([worker[w] EXCEPT !.step = "picked", !.seen = Len(ticks)])
      BY <1>0 DEF RunExplained, WorkerState
    <3> QED BY <2>3, <3>1 DEF TakeCandidate
  <2>4. CASE Evaluate(w)
    <3>1. PICK call \in Decisions(Head(worker[w].todo)) :
            worker' = [worker EXCEPT ![w] =
                         [worker[w] EXCEPT !.step = "planned", !.todo = <<>>, !.call = call]]
      BY <2>4 DEF Evaluate
    <3>2. Reasoned(call)
      BY <3>1, PlansAreExplained
    <3> DEFINE run == [worker[w] EXCEPT !.step = "planned", !.todo = <<>>, !.call = call]
    <3>3. run.step = "planned" /\ run.call = call
      BY <1>0 DEF WorkerState
    <3> HIDE DEF run
    <3>4. RunExplained(run)
      BY <3>2, <3>3 DEF RunExplained
    <3> QED BY <3>1, <3>4 DEF run
  <2>5. CASE PublishBlob(w)
    <3> DEFINE run == [worker[w] EXCEPT !.step = "blob", !.published = TRUE]
    <3>1. run.step = "blob" /\ run.published /\ run.call = worker[w].call
      BY <1>0 DEF WorkerState
    <3> HIDE DEF run
    <3>2. RunExplained(run)
      BY <1>0, <2>5, <3>1 DEF PublishBlob, RunExplained
    <3> QED BY <2>5, <3>2 DEF PublishBlob, run
  <2>6. CASE Prepare(w)
    <3> DEFINE run == [worker[w] EXCEPT !.step = "signed", !.nonce = nonce + Len(mempool)]
    <3>1. /\ run.step = "signed" /\ run.published = worker[w].published
          /\ run.call = worker[w].call
      BY <1>0 DEF WorkerState
    <3> HIDE DEF run
    <3>2. RunExplained(run)
      BY <1>0, <2>6, <3>1 DEF Prepare, RunExplained
    <3> QED BY <2>6, <3>2 DEF Prepare, run
  <2>7. CASE End(w) \/ Send(w)
    BY <2>0, <2>7 DEF End, Send
  <2> QED BY <2>1, <2>2, <2>3, <2>4, <2>5, <2>6, <2>7
<1> QED BY <1>0, <1>1

LEMMA SendKeepsReasons ==
  ASSUME Inv, ReasonInv, NEW w \in Workers, Send(w)
  PROVE  \A i \in 1 .. Len(mempool') : Reasoned(mempool'[i].call) /\ mempool'[i].published
<1> DEFINE sent(t) == Reasoned(t.call) /\ t.published
<1>1. sent(Transaction(w)) /\ \A i \in 1 .. Len(mempool) : sent(mempool[i])
  BY DEF Send, ReasonInv, RunExplained, Transaction
<1>2. mempool \in Seq(Pending)
  BY DEF Inv, LoopTypes
<1>3. Transaction(w) \in Pending
  BY DEF Inv, LoopTypes, RunsLooked, RunLooked, Send, Transaction, Pending, WorkerState
<1> HIDE DEF sent
<1>4. CASE mempool' = Append(mempool, Transaction(w))
  <2>1. /\ Len(mempool') = Len(mempool) + 1 /\ Len(mempool) \in Nat
        /\ \A i \in 1 .. Len(mempool) : mempool'[i] = mempool[i]
        /\ mempool'[Len(mempool) + 1] = Transaction(w)
    BY <1>2, <1>3, <1>4, AppendProperties, LenProperties
  <2>2. \A i \in 1 .. Len(mempool') : sent(mempool'[i])
    BY <1>1, <2>1
  <2> QED BY <2>2 DEF sent
<1>5. ASSUME NEW place \in 1 .. Len(mempool), mempool' = [mempool EXCEPT ![place] = Transaction(w)]
      PROVE  \A i \in 1 .. Len(mempool') : Reasoned(mempool'[i].call) /\ mempool'[i].published
  <2>1. /\ Len(mempool') = Len(mempool)
        /\ \A i \in 1 .. Len(mempool) :
             mempool'[i] = IF i = place THEN Transaction(w) ELSE mempool[i]
    BY <1>2, <1>3, <1>5, ExceptSeq
  <2>2. \A i \in 1 .. Len(mempool') : sent(mempool'[i])
    BY <1>1, <2>1
  <2> QED BY <2>2 DEF sent
<1> QED BY <1>4, <1>5 DEF Send

(* A tick with its reason, or one made by hand, keeps the property.        *)
LEMMA TickKeepsReasons ==
  ASSUME Inv, TicksCarryTheirReason, NEW call \in AnyCall, Tick(call),
         NEW look \in LookRecord, looked' = Append(looked, look),
         look.by = "worker" => Reasoned(call) /\ look.published
  PROVE  TicksCarryTheirReason'
<1>1. /\ FundTypes' /\ Len(ticks') = Len(ticks) + 1 /\ Len(ticks) \in Nat
      /\ \A i \in 1 .. Len(ticks) : ticks'[i] = ticks[i]
      /\ ticks'[Len(ticks) + 1].call = call
  BY TickAppends DEF Inv, HistoryInv, FundInv
<1>2. /\ \A i \in 1 .. Len(ticks) : looked'[i] = looked[i]
      /\ looked'[Len(ticks) + 1] = look
  BY <1>1, AppendProperties DEF Inv, HistoryInv, Recorded
<1>3. DOMAIN ticks = 1 .. Len(ticks) /\ DOMAIN ticks' = 1 .. Len(ticks) + 1
  BY <1>1, LenProperties DEF Inv, HistoryInv, FundInv, FundTypes
<1> SUFFICES ASSUME NEW i \in 1 .. Len(ticks) + 1, looked'[i].by = "worker"
             PROVE  looked'[i].published /\ Reasoned(ticks'[i].call)
  BY <1>3 DEF TicksCarryTheirReason, FromWorker, Reasoned
<1>4. CASE i = Len(ticks) + 1
  BY <1>1, <1>2, <1>4
<1>5. CASE i \in 1 .. Len(ticks)
  <2>1. looked'[i] = looked[i] /\ ticks'[i] = ticks[i] /\ i \in DOMAIN ticks
    BY <1>1, <1>2, <1>3, <1>5
  <2>2. looked[i].published /\ Reasoned(ticks[i].call)
    BY <2>1 DEF TicksCarryTheirReason, FromWorker, Reasoned
  <2> QED BY <2>1, <2>2
<1>6. i = Len(ticks) + 1 \/ i \in 1 .. Len(ticks)
  BY <1>1
<1> QED BY <1>4, <1>5, <1>6

LEMMA MineKeepsReasons ==
  ASSUME Inv, ReasonInv, Mine
  PROVE  ReasonInv'
<1>1. /\ Head(mempool) = mempool[1] /\ 1 \in 1 .. Len(mempool) /\ mempool[1] \in Pending
      /\ Len(mempool') = Len(mempool) - 1 /\ Len(mempool) \in Nat
      /\ \A i \in 1 .. Len(mempool') : mempool'[i] = mempool[i + 1]
  BY HeadTailProperties, LenProperties DEF Mine, Inv, LoopTypes
<1>2. ASSUME NEW i \in 1 .. Len(mempool')
      PROVE  Reasoned(mempool'[i].call) /\ mempool'[i].published
  <2>1. i + 1 \in 1 .. Len(mempool) /\ mempool'[i] = mempool[i + 1]
    BY <1>1
  <2> QED BY <2>1 DEF ReasonInv
<1>3. TicksCarryTheirReason'
  <2>1. CASE Tick(Head(mempool).call)
    <3> DEFINE call == mempool[1].call
               look == [by |-> "worker", seen |-> mempool[1].seen, published |-> mempool[1].published]
    <3>1. Tick(call) /\ looked' = Append(looked, look)
      BY <1>1, <2>1 DEF Mine, Tick
    <3>2. call \in AnyCall /\ look \in LookRecord
      BY <1>1, SniperAssumption DEF Pending, LoopCall, AnyCall, LookRecord
    <3>3. Reasoned(call) /\ look.published
      BY <1>1 DEF ReasonInv
    <3> HIDE DEF call, look
    <3> QED BY <3>1, <3>2, <3>3, TickKeepsReasons DEF ReasonInv
  <2>2. CASE UNCHANGED <<fundVars, looked>>
    BY <2>2 DEF ReasonInv, TicksCarryTheirReason, FromWorker, fundVars
  <2> QED BY <2>1, <2>2 DEF Mine
<1>4. UNCHANGED worker
  BY DEF Mine
<1> QED BY <1>2, <1>3, <1>4 DEF ReasonInv

LEMMA ByHandKeepsReasons ==
  ASSUME Inv, ReasonInv, ByHand
  PROVE  ReasonInv'
<1>1. PICK call : Tick(call) /\ call \in AnyCall
  BY ByHandTicks
<1> DEFINE look == [by |-> "hand", seen |-> 0, published |-> FALSE]
<1>2. look \in LookRecord /\ look.by # "worker" /\ looked' = Append(looked, look)
  BY DEF LookRecord, ByHand
<1> HIDE DEF look
<1>3. TicksCarryTheirReason'
  BY <1>1, <1>2, TickKeepsReasons DEF ReasonInv
<1> QED BY <1>3 DEF ByHand, ReasonInv

LEMMA ReasonInvIsKept == Inv /\ ReasonInv /\ [Next]_vars => ReasonInv'
<1> SUFFICES ASSUME Inv, ReasonInv, [Next]_vars PROVE ReasonInv'
  OBVIOUS
<1>1. CASE WorkerStep
  <2>1. PICK w \in Workers :
          \/ Send(w) /\ UNCHANGED <<nonce, looked>>
          \/ /\ \/ FetchCandidates(w) \/ SkipCandidate(w) \/ TakeCandidate(w)
                \/ Evaluate(w) \/ PublishBlob(w) \/ Prepare(w) \/ End(w)
             /\ UNCHANGED chainVars
    BY <1>1 DEF WorkerStep
  <2>2. TicksCarryTheirReason'
    BY <1>1, <2>1 DEF WorkerStep, ReasonInv, TicksCarryTheirReason, FromWorker, fundVars, chainVars
  <2>3. \A v \in Workers : RunExplained(worker'[v])
    BY <2>1, RunKeepsReasons
  <2>4. \A i \in 1 .. Len(mempool') : Reasoned(mempool'[i].call) /\ mempool'[i].published
    <3>1. CASE UNCHANGED chainVars
      BY <3>1 DEF ReasonInv, chainVars
    <3>2. CASE Send(w)
      BY <3>2, SendKeepsReasons
    <3> QED BY <2>1, <3>1, <3>2
  <2> QED BY <2>2, <2>3, <2>4 DEF ReasonInv
<1>2. CASE Mine
  BY <1>2, MineKeepsReasons
<1>3. CASE ByHand
  BY <1>3, ByHandKeepsReasons
<1>4. CASE PoolCreated \/ PoolAgesOut \/ UNCHANGED vars
  <2>1. UNCHANGED <<fundVars, worker, chainVars>>
    BY <1>4 DEF PoolCreated, PoolAgesOut, vars
  <2> QED BY <2>1 DEF ReasonInv, TicksCarryTheirReason, FromWorker, fundVars, chainVars
<1> QED BY <1>1, <1>2, <1>3, <1>4 DEF Next

(* Whatever became of the run that made it, a tick's reason was offered    *)
(* for publication before it and states its token and both its legs, the   *)
(* buy that executor.ts downgrades for want of a price or depth included.  *)
THEOREM ReasonsAreCommittedTo == Spec => []TicksCarryTheirReason
<1>1. Init => ReasonInv
  BY DEF Init, FundInit, ReasonInv, RunExplained, Idle, TicksCarryTheirReason
<1>2. ReasonInv => TicksCarryTheirReason
  BY DEF ReasonInv
<1> QED BY <1>1, <1>2, ReasonInvIsKept, InvAlways, PTL DEF Spec

----------------------------------------------------------------------------
(* The sums of a history h up to its n-th tick, as functions of the history. *)
Named(h, n, action, token) ==
  {i \in 1 .. n : h[i].call.action = action /\ h[i].call.token = token}

Usdc(h, n, action, token) == Total([i \in Named(h, n, action, token) |-> h[i].call.amountUsdc])

Units(h, n, action, token) == Total([i \in Named(h, n, action, token) |-> h[i].call.amountToken])

HeldIn(h, n, token) == Units(h, n, "BUY", token) - Units(h, n, "SELL", token)

FlowIn(h, n, token) == Usdc(h, n, "SELL", token) - Usdc(h, n, "BUY", token)

Net(h, n) == Total([t \in Tokens |-> FlowIn(h, n, t)])

Booked(h, n) == \A i \in 1 .. n : h[i].call.amountUsdc \in Nat /\ h[i].call.amountToken \in Nat

(* A history is finite, and so is what it says of a token.                 *)
LEMMA NamedIsFinite ==
  ASSUME NEW h, NEW n \in Nat, NEW action, NEW token
  PROVE  Named(h, n, action, token) \subseteq 1 .. n /\ IsFiniteSet(Named(h, n, action, token))
<1>1. Named(h, n, action, token) \subseteq 1 .. n
  BY DEF Named
<1>2. IsFiniteSet(1 .. n)
  BY FS_Interval
<1> QED BY <1>1, <1>2, FS_Subset

(* What the observer of LedgerReplays adds up is this sum of the paper     *)
(* dollars and, next, of the units.                                        *)
LEMMA UsdcIsFold ==
  ASSUME NEW n \in Nat, NEW action, NEW token, Booked(ticks, n)
  PROVE  MapThenSumSet(LAMBDA i : ticks[i].call.amountUsdc, TicksOf(n, action, token))
           = Usdc(ticks, n, action, token)
<1> DEFINE D == TicksOf(n, action, token)
           f == [i \in D |-> ticks[i].call.amountUsdc]
           Fold(g) == g = [s \in SUBSET D |-> IF s = {} THEN 0
                             ELSE ticks[OneOf(s)].call.amountUsdc + g[s \ {OneOf(s)}]]
           it == CHOOSE g : Fold(g)
<1>1. D = Named(ticks, n, action, token)
  BY DEF TicksOf, Named
<1>2. f \in [D -> Int] /\ IsFiniteSet(D)
  BY <1>1, NamedIsFinite DEF Booked
<1>3. MapThenSumSet(LAMBDA i : ticks[i].call.amountUsdc, D) = it[D]
  BY DEF MapThenSumSet, MapThenFoldSet, OneOf
<1>4. ASSUME NEW g PROVE Fold(g) <=> IsSum(f, g)
  <2>1. \A s \in SUBSET D : s # {} => f[OneOf(s)] = ticks[OneOf(s)].call.amountUsdc
    BY DEF OneOf
  <2>2. \A s \in SUBSET D : (IF s = {} THEN 0 ELSE f[OneOf(s)] + g[s \ {OneOf(s)}])
           = (IF s = {} THEN 0 ELSE ticks[OneOf(s)].call.amountUsdc + g[s \ {OneOf(s)}])
    BY <2>1
  <2>3. DOMAIN f = D
    OBVIOUS
  <2> HIDE DEF f, D
  <2> QED BY <2>2, <2>3 DEF IsSum
<1>5. Fold(it)
  <2>1. \E g : Fold(g)
    <3> HIDE DEF f, Fold, D
    <3> QED BY <1>2, <1>4, SumExists
  <2> HIDE DEF Fold
  <2> QED BY <2>1
<1>6. Total(f) = it[D]
  <2> HIDE DEF f, Fold, D, it
  <2> QED BY <1>2, <1>4, <1>5, TotalIsSum
<1> QED BY <1>1, <1>3, <1>6 DEF Usdc

LEMMA UnitsIsFold ==
  ASSUME NEW n \in Nat, NEW action, NEW token, Booked(ticks, n)
  PROVE  MapThenSumSet(LAMBDA i : ticks[i].call.amountToken, TicksOf(n, action, token))
           = Units(ticks, n, action, token)
<1> DEFINE D == TicksOf(n, action, token)
           f == [i \in D |-> ticks[i].call.amountToken]
           Fold(g) == g = [s \in SUBSET D |-> IF s = {} THEN 0
                             ELSE ticks[OneOf(s)].call.amountToken + g[s \ {OneOf(s)}]]
           it == CHOOSE g : Fold(g)
<1>1. D = Named(ticks, n, action, token)
  BY DEF TicksOf, Named
<1>2. f \in [D -> Int] /\ IsFiniteSet(D)
  BY <1>1, NamedIsFinite DEF Booked
<1>3. MapThenSumSet(LAMBDA i : ticks[i].call.amountToken, D) = it[D]
  BY DEF MapThenSumSet, MapThenFoldSet, OneOf
<1>4. ASSUME NEW g PROVE Fold(g) <=> IsSum(f, g)
  <2>1. \A s \in SUBSET D : s # {} => f[OneOf(s)] = ticks[OneOf(s)].call.amountToken
    BY DEF OneOf
  <2>2. \A s \in SUBSET D : (IF s = {} THEN 0 ELSE f[OneOf(s)] + g[s \ {OneOf(s)}])
           = (IF s = {} THEN 0 ELSE ticks[OneOf(s)].call.amountToken + g[s \ {OneOf(s)}])
    BY <2>1
  <2>3. DOMAIN f = D
    OBVIOUS
  <2> HIDE DEF f, D
  <2> QED BY <2>2, <2>3 DEF IsSum
<1>5. Fold(it)
  <2>1. \E g : Fold(g)
    <3> HIDE DEF f, Fold, D
    <3> QED BY <1>2, <1>4, SumExists
  <2> HIDE DEF Fold
  <2> QED BY <2>1
<1>6. Total(f) = it[D]
  <2> HIDE DEF f, Fold, D, it
  <2> QED BY <1>2, <1>4, <1>5, TotalIsSum
<1> QED BY <1>1, <1>3, <1>6 DEF Units

(* The sums are numbers.                                                   *)
LEMMA SumsAreInts ==
  ASSUME NEW h, NEW n \in Nat, Booked(h, n), NEW action, NEW token
  PROVE  Usdc(h, n, action, token) \in Int /\ Units(h, n, action, token) \in Int
<1> DEFINE D == Named(h, n, action, token)
           f == [i \in D |-> h[i].call.amountUsdc]
           g == [i \in D |-> h[i].call.amountToken]
<1>1. f \in [D -> Int] /\ g \in [D -> Int] /\ IsFiniteSet(D)
  BY NamedIsFinite DEF Booked
<1>2. Total(f) \in Int /\ Total(g) \in Int
  <2> HIDE DEF f, g, D
  <2> QED BY <1>1, TotalStep
<1> QED BY <1>2 DEF Usdc, Units

(* The first n ticks of two histories.                                     *)
LEMMA SameHistory ==
  ASSUME NEW h, NEW k, NEW n \in Nat, \A i \in 1 .. n : k[i].call = h[i].call
  PROVE  /\ \A action, token : /\ Usdc(k, n, action, token) = Usdc(h, n, action, token)
                               /\ Units(k, n, action, token) = Units(h, n, action, token)
         /\ \A token : HeldIn(k, n, token) = HeldIn(h, n, token)
         /\ Net(k, n) = Net(h, n)
         /\ Booked(h, n) => Booked(k, n)
<1>1. ASSUME NEW action, NEW token
      PROVE  /\ Usdc(k, n, action, token) = Usdc(h, n, action, token)
             /\ Units(k, n, action, token) = Units(h, n, action, token)
  <2>1. Named(k, n, action, token) = Named(h, n, action, token)
    BY DEF Named
  <2>2. \A i \in Named(h, n, action, token) : k[i].call = h[i].call
    BY DEF Named
  <2> QED BY <2>1, <2>2 DEF Usdc, Units
<1>2. \A token : HeldIn(k, n, token) = HeldIn(h, n, token) /\ FlowIn(k, n, token) = FlowIn(h, n, token)
  BY <1>1 DEF HeldIn, FlowIn
<1>3. Net(k, n) = Net(h, n)
  BY <1>2 DEF Net
<1> QED BY <1>1, <1>2, <1>3 DEF Booked

(* One tick more.                                                          *)
LEMMA NextTick ==
  ASSUME NEW h, NEW n \in Nat, Booked(h, n + 1), NEW action, NEW token
  PROVE  IF h[n + 1].call.action = action /\ h[n + 1].call.token = token
         THEN /\ Usdc(h, n + 1, action, token) = Usdc(h, n, action, token) + h[n + 1].call.amountUsdc
              /\ Units(h, n + 1, action, token) = Units(h, n, action, token) + h[n + 1].call.amountToken
         ELSE /\ Usdc(h, n + 1, action, token) = Usdc(h, n, action, token)
              /\ Units(h, n + 1, action, token) = Units(h, n, action, token)
<1> DEFINE D == Named(h, n, action, token)
           E == Named(h, n + 1, action, token)
<1>0. /\ 1 .. (n + 1) = (1 .. n) \cup {n + 1} /\ n + 1 \notin 1 .. n
      /\ D \subseteq 1 .. n /\ E \subseteq 1 .. (n + 1)
  BY DEF Named
<1>1. CASE h[n + 1].call.action = action /\ h[n + 1].call.token = token
  <2> DEFINE f == [i \in E |-> h[i].call.amountUsdc]
             g == [i \in E |-> h[i].call.amountToken]
  <2>1. E = D \cup {n + 1} /\ n + 1 \notin D /\ IsFiniteSet(D)
    <3>1. \A i : i \in E <=> i \in D \/ i = n + 1
      BY <1>0, <1>1 DEF Named
    <3> QED BY <1>0, <3>1, NamedIsFinite
  <2>2. f \in [E -> Int] /\ g \in [E -> Int]
    BY <1>0 DEF Booked
  <2>3. /\ [i \in D |-> f[i]] = [i \in D |-> h[i].call.amountUsdc] /\ f[n + 1] = h[n + 1].call.amountUsdc
        /\ [i \in D |-> g[i]] = [i \in D |-> h[i].call.amountToken] /\ g[n + 1] = h[n + 1].call.amountToken
    BY <2>1
  <2>4. /\ Total(f) = Total([i \in D |-> f[i]]) + f[n + 1]
        /\ Total(g) = Total([i \in D |-> g[i]]) + g[n + 1]
    <3> HIDE DEF f, g, D, E
    <3>1. PICK x, a, b : x = n + 1 /\ a = [i \in D |-> f[i]] /\ b = [i \in D |-> g[i]]
      OBVIOUS
    <3>2. /\ IsFiniteSet(D) /\ x \notin D
          /\ f \in [D \cup {x} -> Int] /\ g \in [D \cup {x} -> Int]
      BY <2>1, <2>2, <3>1
    <3>3. Total(f) = Total(a) + f[x]
      BY <3>1, <3>2, TotalExtended
    <3>4. Total(g) = Total(b) + g[x]
      BY <3>1, <3>2, TotalExtended
    <3> QED BY <3>1, <3>3, <3>4
  <2> QED BY <1>1, <2>3, <2>4 DEF Usdc, Units
<1>2. CASE ~(h[n + 1].call.action = action /\ h[n + 1].call.token = token)
  <2>1. E = D
    BY <1>2 DEF Named
  <2> QED BY <1>2, <2>1 DEF Usdc, Units
<1> QED BY <1>1, <1>2

(* Before the first tick.                                                  *)
LEMMA NoTicksYet ==
  ASSUME NEW h
  PROVE  /\ \A action, token : Usdc(h, 0, action, token) = 0 /\ Units(h, 0, action, token) = 0
         /\ Net(h, 0) = 0
<1>1. ASSUME NEW action, NEW token PROVE Usdc(h, 0, action, token) = 0 /\ Units(h, 0, action, token) = 0
  <2>1. Named(h, 0, action, token) = {}
    BY DEF Named
  <2>2. PICK D : D = Named(h, 0, action, token)
    OBVIOUS
  <2>3. IsFiniteSet(D) /\ D = {}
    BY <2>1, <2>2, FS_EmptySet
  <2>4. [i \in D |-> h[i].call.amountUsdc] \in [D -> Int] /\ [i \in D |-> h[i].call.amountToken] \in [D -> Int]
    BY <2>3
  <2>5. Total([i \in D |-> h[i].call.amountUsdc]) = 0 /\ Total([i \in D |-> h[i].call.amountToken]) = 0
    BY <2>3, <2>4, TotalStep
  <2> QED BY <2>2, <2>5 DEF Usdc, Units
<1>2. [t \in Tokens |-> FlowIn(h, 0, t)] = [t \in Tokens |-> 0]
  BY <1>1 DEF FlowIn
<1>3. Total([t \in Tokens |-> 0]) = 0
  BY TotalOfZeros, FundAssumption
<1> QED BY <1>1, <1>2, <1>3 DEF Net

(* The observer's total over all tokens, likewise.                         *)
LEMMA NetIsFold ==
  ASSUME NEW n \in Nat, Booked(ticks, n)
  PROVE  MapThenSumSet(LAMBDA t : EarnedOn(n, t) - SpentOn(n, t), Tokens) = Net(ticks, n)
<1> DEFINE D == Tokens
           f == [t \in D |-> FlowIn(ticks, n, t)]
           Fold(g) == g = [s \in SUBSET D |-> IF s = {} THEN 0
                             ELSE EarnedOn(n, OneOf(s)) - SpentOn(n, OneOf(s)) + g[s \ {OneOf(s)}]]
           it == CHOOSE g : Fold(g)
<1>1. \A t : EarnedOn(n, t) - SpentOn(n, t) = FlowIn(ticks, n, t)
  BY UsdcIsFold DEF EarnedOn, SpentOn, FlowIn
<1>2. f \in [D -> Int] /\ IsFiniteSet(D)
  <2>1. \A t : FlowIn(ticks, n, t) \in Int
    BY SumsAreInts DEF FlowIn
  <2> QED BY <2>1, FundAssumption
<1>3. MapThenSumSet(LAMBDA t : EarnedOn(n, t) - SpentOn(n, t), D) = it[D]
  BY DEF MapThenSumSet, MapThenFoldSet, OneOf
<1>4. ASSUME NEW g PROVE Fold(g) <=> IsSum(f, g)
  <2>1. \A s \in SUBSET D : s # {} => f[OneOf(s)] = EarnedOn(n, OneOf(s)) - SpentOn(n, OneOf(s))
    BY <1>1 DEF OneOf
  <2>2. \A s \in SUBSET D : (IF s = {} THEN 0 ELSE f[OneOf(s)] + g[s \ {OneOf(s)}])
           = (IF s = {} THEN 0 ELSE EarnedOn(n, OneOf(s)) - SpentOn(n, OneOf(s)) + g[s \ {OneOf(s)}])
    BY <2>1
  <2>3. DOMAIN f = D
    OBVIOUS
  <2> HIDE DEF f, D
  <2> QED BY <2>2, <2>3 DEF IsSum
<1>5. Fold(it)
  <2>1. \E g : Fold(g)
    <3> HIDE DEF f, Fold, D
    <3> QED BY <1>2, <1>4, SumExists
  <2> HIDE DEF Fold
  <2> QED BY <2>1
<1>6. Total(f) = it[D]
  <2> HIDE DEF f, Fold, D, it
  <2> QED BY <1>2, <1>4, <1>5, TotalIsSum
<1> QED BY <1>3, <1>6 DEF Net

Holding == [amount : Nat, costBasisUsdc : Nat, proceedsUsdc : Nat, open : BOOLEAN]

(* The ledger of the contract is what its history, replayed, gives.        *)
Replays(h, n, paper, holdings) ==
  /\ paper = StartingUsdc + Net(h, n)
  /\ \A t \in Tokens :
       /\ holdings[t].amount = HeldIn(h, n, t)
       /\ holdings[t].costBasisUsdc = Usdc(h, n, "BUY", t)
       /\ holdings[t].proceedsUsdc = Usdc(h, n, "SELL", t)
       /\ holdings[t].open <=> HeldIn(h, n, t) > 0

PastReplays(h) ==
  \A n \in 1 .. Len(h) :
    /\ h[n].paperUsdcAfter = StartingUsdc + Net(h, n)
    /\ h[n].paperUsdcAfter >= 0
    /\ \A t \in Tokens : HeldIn(h, n, t) >= 0

LedgerInv ==
  /\ paperUsdc \in Nat /\ positions \in [Tokens -> Holding]
  /\ \E S : ticks \in Seq(S)
  /\ Booked(ticks, Len(ticks))
  /\ PastReplays(ticks)
  /\ Replays(ticks, Len(ticks), paperUsdc, positions)

Bookable(call) ==
  /\ call.action \in {"HOLD", "PASS", "BUY", "SELL"}
  /\ call.token \in Tokens \cup {NoToken}
  /\ call.amountToken \in Nat /\ call.amountUsdc \in Nat

(* What one call does to the ledger, in the same words as NextTick.        *)
Moves(call, action, token) == call.action = action /\ call.token = token

LEMMA CallMoves ==
  ASSUME NEW call, Bookable(call), Tick(call), paperUsdc \in Nat, positions \in [Tokens -> Holding],
         \A t \in Tokens : positions[t].open <=> positions[t].amount > 0
  PROVE  /\ paperUsdc' \in Nat /\ positions' \in [Tokens -> Holding]
         /\ paperUsdc' = paperUsdc + (IF call.action = "SELL" THEN call.amountUsdc
                                      ELSE IF call.action = "BUY" THEN - call.amountUsdc ELSE 0)
         /\ call.action \in {"BUY", "SELL"} => call.token \in Tokens
         /\ \A t \in Tokens :
              /\ positions'[t].open <=> positions'[t].amount > 0
              /\ positions'[t].amount = positions[t].amount
                   + (IF Moves(call, "BUY", t) THEN call.amountToken
                      ELSE IF Moves(call, "SELL", t) THEN - call.amountToken ELSE 0)
              /\ positions'[t].costBasisUsdc = positions[t].costBasisUsdc
                   + (IF Moves(call, "BUY", t) THEN call.amountUsdc ELSE 0)
              /\ positions'[t].proceedsUsdc = positions[t].proceedsUsdc
                   + (IF Moves(call, "SELL", t) THEN call.amountUsdc ELSE 0)
<1>0. /\ call.amountToken \in Nat /\ call.amountUsdc \in Nat
      /\ call.token \in Tokens \cup {NoToken}
  BY DEF Bookable
<1>1. CASE call.action \in {"HOLD", "PASS"}
  <2>1. paperUsdc' = paperUsdc /\ positions' = positions
    BY <1>1 DEF Tick, Hold, Pass, Buy, Sell
  <2>2. \A t \in Tokens : ~Moves(call, "BUY", t) /\ ~Moves(call, "SELL", t) /\ positions[t] \in Holding
    BY <1>1 DEF Moves
  <2>3. \A t \in Tokens : positions[t].amount \in Nat /\ positions[t].costBasisUsdc \in Nat
                          /\ positions[t].proceedsUsdc \in Nat
    BY <2>2 DEF Holding
  <2> QED BY <1>1, <2>1, <2>2, <2>3
<1>2. CASE call.action = "BUY"
  <2> DEFINE p == positions[call.token]
             q == [p EXCEPT !.amount = p.amount + call.amountToken,
                            !.costBasisUsdc = p.costBasisUsdc + call.amountUsdc, !.open = TRUE]
  <2>1. /\ call.token \in Tokens /\ call.amountToken > 0 /\ call.amountUsdc <= paperUsdc
    BY <1>0, <1>2 DEF Tick, Accepts, BothLegs
  <2>2. /\ paperUsdc' = paperUsdc - call.amountUsdc
        /\ positions' = [positions EXCEPT ![call.token] = q]
    BY <1>2 DEF Tick, Hold, Pass, Buy, Sell
  <2>3. p \in Holding
    BY <2>1
  <2>4. /\ q \in Holding /\ q.amount = p.amount + call.amountToken
        /\ q.costBasisUsdc = p.costBasisUsdc + call.amountUsdc
        /\ q.proceedsUsdc = p.proceedsUsdc /\ q.open = TRUE
    <3>1. q.amount = p.amount + call.amountToken /\ q.costBasisUsdc = p.costBasisUsdc + call.amountUsdc
          /\ q.proceedsUsdc = p.proceedsUsdc /\ q.open = TRUE
      BY <2>3 DEF Holding
    <3>2. p.amount + call.amountToken \in Nat /\ p.costBasisUsdc + call.amountUsdc \in Nat
      BY <1>0, <2>3 DEF Holding
    <3>3. q \in Holding
      BY <2>3, <3>2 DEF Holding
    <3> QED BY <3>1, <3>3
  <2>5. \A t \in Tokens : /\ positions'[t] = IF t = call.token THEN q ELSE positions[t]
                          /\ Moves(call, "BUY", t) <=> t = call.token
                          /\ ~Moves(call, "SELL", t) /\ positions[t] \in Holding
    BY <1>2, <2>2 DEF Moves
  <2>6. \A t \in Tokens : positions[t].amount \in Nat /\ positions[t].costBasisUsdc \in Nat
                          /\ positions[t].proceedsUsdc \in Nat
    BY <2>5 DEF Holding
  <2>7. paperUsdc' \in Nat /\ positions' \in [Tokens -> Holding]
    BY <1>0, <2>1, <2>2, <2>4
  <2> HIDE DEF q
  <2>8. ASSUME NEW t \in Tokens
        PROVE  /\ positions'[t].open <=> positions'[t].amount > 0
               /\ positions'[t].amount = positions[t].amount
                    + (IF Moves(call, "BUY", t) THEN call.amountToken
                       ELSE IF Moves(call, "SELL", t) THEN - call.amountToken ELSE 0)
               /\ positions'[t].costBasisUsdc = positions[t].costBasisUsdc
                    + (IF Moves(call, "BUY", t) THEN call.amountUsdc ELSE 0)
               /\ positions'[t].proceedsUsdc = positions[t].proceedsUsdc
                    + (IF Moves(call, "SELL", t) THEN call.amountUsdc ELSE 0)
    <3>1. CASE t = call.token
      BY <1>0, <2>1, <2>4, <2>5, <2>6, <3>1
    <3>2. CASE t # call.token
      BY <2>5, <2>6, <3>2
    <3> QED BY <3>1, <3>2
  <2> QED BY <1>0, <1>2, <2>1, <2>2, <2>7, <2>8
<1>3. CASE call.action = "SELL"
  <2> DEFINE p == positions[call.token]
             q == [p EXCEPT !.amount = p.amount - call.amountToken,
                            !.proceedsUsdc = p.proceedsUsdc + call.amountUsdc,
                            !.open = p.open /\ p.amount # call.amountToken]
  <2>1. call.token \in Tokens /\ call.amountToken > 0 /\ call.amountToken <= p.amount
    BY <1>0, <1>3 DEF Tick, Accepts, BothLegs
  <2>2. /\ paperUsdc' = paperUsdc + call.amountUsdc
        /\ positions' = [positions EXCEPT ![call.token] = q]
    BY <1>3 DEF Tick, Hold, Pass, Buy, Sell
  <2>3. p \in Holding
    BY <2>1
  <2>4. /\ q \in Holding /\ q.amount = p.amount - call.amountToken
        /\ q.costBasisUsdc = p.costBasisUsdc
        /\ q.proceedsUsdc = p.proceedsUsdc + call.amountUsdc
        /\ q.open <=> p.open /\ p.amount # call.amountToken
    <3>1. q.amount = p.amount - call.amountToken /\ q.costBasisUsdc = p.costBasisUsdc
          /\ q.proceedsUsdc = p.proceedsUsdc + call.amountUsdc
      BY <2>3 DEF Holding
    <3>2. p.amount - call.amountToken \in Nat /\ p.proceedsUsdc + call.amountUsdc \in Nat
      BY <1>0, <2>1, <2>3 DEF Holding
    <3>3. PICK still \in BOOLEAN : still = (p.open /\ p.amount # call.amountToken)
      OBVIOUS
    <3>4. q = [p EXCEPT !.amount = p.amount - call.amountToken,
                        !.proceedsUsdc = p.proceedsUsdc + call.amountUsdc, !.open = still]
      BY <3>3, Zenon
    <3>5. q \in Holding /\ q.open = still
      BY <2>3, <3>2, <3>4 DEF Holding
    <3> QED BY <3>1, <3>3, <3>5
  <2>5. \A t \in Tokens : /\ positions'[t] = IF t = call.token THEN q ELSE positions[t]
                          /\ Moves(call, "SELL", t) <=> t = call.token
                          /\ ~Moves(call, "BUY", t) /\ positions[t] \in Holding
    BY <1>3, <2>2 DEF Moves
  <2>6. \A t \in Tokens : positions[t].amount \in Nat /\ positions[t].costBasisUsdc \in Nat
                          /\ positions[t].proceedsUsdc \in Nat
    BY <2>5 DEF Holding
  <2>7. paperUsdc' \in Nat /\ positions' \in [Tokens -> Holding]
    BY <1>0, <2>1, <2>2, <2>4
  <2>9. p.open <=> p.amount > 0
    BY <2>1
  <2> HIDE DEF q
  <2>8. ASSUME NEW t \in Tokens
        PROVE  /\ positions'[t].open <=> positions'[t].amount > 0
               /\ positions'[t].amount = positions[t].amount
                    + (IF Moves(call, "BUY", t) THEN call.amountToken
                       ELSE IF Moves(call, "SELL", t) THEN - call.amountToken ELSE 0)
               /\ positions'[t].costBasisUsdc = positions[t].costBasisUsdc
                    + (IF Moves(call, "BUY", t) THEN call.amountUsdc ELSE 0)
               /\ positions'[t].proceedsUsdc = positions[t].proceedsUsdc
                    + (IF Moves(call, "SELL", t) THEN call.amountUsdc ELSE 0)
    <3>1. CASE t = call.token
      <4>1. positions'[t] = q /\ positions[t] = p /\ p.amount \in Nat /\ p.costBasisUsdc \in Nat
            /\ p.proceedsUsdc \in Nat
        BY <2>5, <2>6, <3>1
      <4> HIDE DEF p
      <4>2. q.open <=> q.amount > 0
        BY <1>0, <2>1, <2>4, <2>9, <4>1
      <4> QED BY <1>0, <2>4, <2>5, <3>1, <4>1, <4>2
    <3>2. CASE t # call.token
      BY <2>5, <2>6, <3>2
    <3> QED BY <3>1, <3>2
  <2> QED BY <1>0, <1>3, <2>1, <2>2, <2>7, <2>8
<1> QED BY <1>1, <1>2, <1>3 DEF Bookable

(* What the next tick adds to the sum over all tokens.                     *)
LEMMA NextNet ==
  ASSUME NEW h, NEW n \in Nat, Booked(h, n + 1), NEW call, call = h[n + 1].call,
         call.action \in {"HOLD", "PASS", "BUY", "SELL"},
         call.action \in {"BUY", "SELL"} => call.token \in Tokens
  PROVE  /\ Net(h, n) \in Int
         /\ Net(h, n + 1) = Net(h, n) + (IF call.action = "SELL" THEN call.amountUsdc
                                         ELSE IF call.action = "BUY" THEN - call.amountUsdc ELSE 0)
<1> DEFINE f == [t \in Tokens |-> FlowIn(h, n, t)]
           g == [t \in Tokens |-> FlowIn(h, n + 1, t)]
<1>1. Booked(h, n) /\ call.amountUsdc \in Nat
  BY DEF Booked
<1>2. \A action, token : Usdc(h, n, action, token) \in Int
  BY <1>1, SumsAreInts
<1>3. \A t : FlowIn(h, n, t) \in Int
  BY <1>2 DEF FlowIn
<1>4. \A t : FlowIn(h, n + 1, t) = FlowIn(h, n, t)
                 + (IF Moves(call, "SELL", t) THEN call.amountUsdc
                    ELSE IF Moves(call, "BUY", t) THEN - call.amountUsdc ELSE 0)
  <2>1. \A action, token : Usdc(h, n + 1, action, token) = Usdc(h, n, action, token)
          + (IF Moves(call, action, token) THEN call.amountUsdc ELSE 0)
    <3> TAKE action, token
    <3>1. CASE Moves(call, action, token)
      BY <3>1, NextTick DEF Moves
    <3>2. CASE ~Moves(call, action, token)
      <4>1. Usdc(h, n + 1, action, token) = Usdc(h, n, action, token)
        BY <3>2, NextTick DEF Moves
      <4> QED BY <1>2, <3>2, <4>1
    <3> QED BY <3>1, <3>2
  <2>2. \A t : ~(Moves(call, "SELL", t) /\ Moves(call, "BUY", t))
    BY DEF Moves
  <2> QED BY <1>1, <1>2, <2>1, <2>2 DEF FlowIn
<1>5. f \in [Tokens -> Int] /\ g \in [Tokens -> Int]
  BY <1>1, <1>3, <1>4
<1>6. Net(h, n) = Total(f) /\ Net(h, n + 1) = Total(g)
  BY DEF Net
<1>7. Total(f) \in Int
  <2> HIDE DEF f
  <2> QED BY <1>5, TotalStep, FundAssumption
<1>8. CASE call.action \in {"BUY", "SELL"}
  <2>1. call.token \in Tokens
    BY <1>8
  <2>2. \A t \in Tokens \ {call.token} : g[t] = f[t]
    BY <1>3, <1>4 DEF Moves
  <2>3. Total(g) = Total(f) + (g[call.token] - f[call.token])
    <3> PICK x \in Tokens : x = call.token
      BY <2>1
    <3> HIDE DEF f, g
    <3> QED BY <1>5, <2>2, TotalChanged, FundAssumption
  <2>4. g[call.token] - f[call.token] = IF call.action = "SELL" THEN call.amountUsdc ELSE - call.amountUsdc
    <3>1. PICK a \in Int : a = FlowIn(h, n, call.token)
      BY <1>3
    <3>2. FlowIn(h, n + 1, call.token) = a + (IF call.action = "SELL" THEN call.amountUsdc ELSE - call.amountUsdc)
      BY <1>4, <1>8, <3>1 DEF Moves
    <3> QED BY <1>1, <2>1, <3>1, <3>2
  <2> HIDE DEF f, g
  <2> QED BY <1>1, <1>6, <1>7, <1>8, <2>3, <2>4
<1>9. CASE call.action \in {"HOLD", "PASS"}
  <2>1. \A t \in Tokens : FlowIn(h, n + 1, t) = FlowIn(h, n, t)
    BY <1>3, <1>4, <1>9 DEF Moves
  <2>2. g = f
    BY <2>1
  <2> HIDE DEF f, g
  <2> QED BY <1>6, <1>7, <1>9, <2>2
<1> QED BY <1>8, <1>9

(* An accepted call leaves the ledger what the longer history gives, and   *)
(* takes nothing that is not there.                                        *)
LEMMA TickReplays ==
  ASSUME LedgerInv, NEW call, Bookable(call), Tick(call)
  PROVE  LedgerInv'
<1> DEFINE n == Len(ticks)
           k == ticks'
           after == positions'
<1>1. PICK S : ticks \in Seq(S)
  BY DEF LedgerInv
<1>2. /\ n \in Nat /\ Len(k) = n + 1 /\ k[n + 1] = [call |-> call, paperUsdcAfter |-> paperUsdc']
      /\ \A i \in 1 .. n : k[i] = ticks[i]
      /\ \E R : k \in Seq(R)
  <2> DEFINE x == [call |-> call, paperUsdcAfter |-> paperUsdc']
  <2>1. ticks \in Seq(S \cup {x}) /\ x \in S \cup {x}
    BY <1>1, SeqMonotonic
  <2>2. k = Append(ticks, x)
    BY DEF Tick
  <2>3. k \in Seq(S \cup {x}) /\ Len(k) = n + 1 /\ k[n + 1] = x /\ \A i \in 1 .. n : k[i] = ticks[i]
    <3> HIDE DEF x
    <3> QED BY <2>1, <2>2, AppendProperties
  <2> QED BY <1>1, <2>3, LenProperties
<1>3. k[n + 1].call = call /\ k[n + 1].paperUsdcAfter = paperUsdc'
  BY <1>2
<1>4. /\ paperUsdc \in Nat /\ positions \in [Tokens -> Holding] /\ Booked(ticks, n)
      /\ PastReplays(ticks) /\ Replays(ticks, n, paperUsdc, positions)
  BY DEF LedgerInv
<1> HIDE DEF k, n, after
<1>5. Booked(k, n + 1) /\ Booked(k, n)
  <2>1. ASSUME NEW i \in 1 .. (n + 1)
        PROVE  k[i].call.amountUsdc \in Nat /\ k[i].call.amountToken \in Nat
    <3>1. CASE i = n + 1
      BY <1>3, <3>1 DEF Bookable
    <3>2. CASE i # n + 1
      <4>1. i \in 1 .. n
        BY <1>2, <3>2
      <4>2. k[i] = ticks[i]
        BY <1>2, <4>1
      <4> QED BY <1>4, <4>1, <4>2 DEF Booked
    <3> QED BY <3>1, <3>2
  <2>2. 1 .. n \subseteq 1 .. (n + 1)
    BY <1>2
  <2>3. \A i \in 1 .. n : k[i].call.amountUsdc \in Nat /\ k[i].call.amountToken \in Nat
    BY <2>1, <2>2
  <2> QED BY <2>1, <2>3 DEF Booked
<1>6. /\ \A action, token : /\ Usdc(k, n, action, token) = Usdc(ticks, n, action, token)
                            /\ Units(k, n, action, token) = Units(ticks, n, action, token)
      /\ Net(k, n) = Net(ticks, n)
  <2>1. n \in Nat /\ \A i \in 1 .. n : k[i].call = ticks[i].call
    BY <1>2
  <2> QED BY <2>1, SameHistory
<1>7. /\ paperUsdc' \in Nat /\ after \in [Tokens -> Holding]
      /\ paperUsdc' = paperUsdc + (IF call.action = "SELL" THEN call.amountUsdc
                                   ELSE IF call.action = "BUY" THEN - call.amountUsdc ELSE 0)
      /\ call.action \in {"BUY", "SELL"} => call.token \in Tokens
      /\ \A t \in Tokens :
           /\ after[t].open <=> after[t].amount > 0
           /\ after[t].amount = positions[t].amount
                + (IF Moves(call, "BUY", t) THEN call.amountToken
                   ELSE IF Moves(call, "SELL", t) THEN - call.amountToken ELSE 0)
           /\ after[t].costBasisUsdc = positions[t].costBasisUsdc
                + (IF Moves(call, "BUY", t) THEN call.amountUsdc ELSE 0)
           /\ after[t].proceedsUsdc = positions[t].proceedsUsdc
                + (IF Moves(call, "SELL", t) THEN call.amountUsdc ELSE 0)
  <2>1. \A t \in Tokens : positions[t].open <=> positions[t].amount > 0
    BY <1>4 DEF Replays
  <2> QED BY <1>4, <2>1, CallMoves DEF after
<1>8. Net(k, n) \in Int /\ paperUsdc' = StartingUsdc + Net(k, n + 1)
  <2>1. paperUsdc = StartingUsdc + Net(k, n)
    BY <1>4, <1>6 DEF Replays
  <2>2. /\ Net(k, n) \in Int
        /\ Net(k, n + 1) = Net(k, n) + (IF call.action = "SELL" THEN call.amountUsdc
                                        ELSE IF call.action = "BUY" THEN - call.amountUsdc ELSE 0)
    <3>1. /\ n \in Nat /\ Booked(k, n + 1) /\ call = k[n + 1].call
          /\ call.action \in {"HOLD", "PASS", "BUY", "SELL"}
          /\ call.action \in {"BUY", "SELL"} => call.token \in Tokens
      BY <1>2, <1>3, <1>5, <1>7 DEF Bookable
    <3> QED BY <3>1, NextNet
  <2>3. StartingUsdc \in Nat /\ call.amountUsdc \in Nat
    BY FundAssumption DEF Bookable
  <2> QED BY <1>7, <2>1, <2>2, <2>3
<1>9. ASSUME NEW t \in Tokens
      PROVE  /\ after[t].amount = HeldIn(k, n + 1, t)
             /\ after[t].costBasisUsdc = Usdc(k, n + 1, "BUY", t)
             /\ after[t].proceedsUsdc = Usdc(k, n + 1, "SELL", t)
             /\ after[t].open <=> HeldIn(k, n + 1, t) > 0
             /\ HeldIn(k, n + 1, t) >= 0
  <2>1. ASSUME NEW action
        PROVE  /\ Usdc(k, n + 1, action, t) = Usdc(k, n, action, t)
                    + (IF Moves(call, action, t) THEN call.amountUsdc ELSE 0)
               /\ Units(k, n + 1, action, t) = Units(k, n, action, t)
                    + (IF Moves(call, action, t) THEN call.amountToken ELSE 0)
               /\ Units(k, n, action, t) \in Int
    <3>0. Usdc(k, n, action, t) \in Int /\ Units(k, n, action, t) \in Int
      BY <1>2, <1>5, SumsAreInts
    <3>1. CASE Moves(call, action, t)
      BY <1>2, <1>3, <1>5, <3>0, <3>1, NextTick DEF Moves
    <3>2. CASE ~Moves(call, action, t)
      <4>1. /\ Usdc(k, n + 1, action, t) = Usdc(k, n, action, t)
            /\ Units(k, n + 1, action, t) = Units(k, n, action, t)
        BY <1>2, <1>3, <1>5, <3>2, NextTick DEF Moves
      <4> QED BY <3>0, <3>2, <4>1
    <3> QED BY <3>0, <3>1, <3>2
  <2>2. /\ positions[t].amount = Units(k, n, "BUY", t) - Units(k, n, "SELL", t)
        /\ positions[t].costBasisUsdc = Usdc(k, n, "BUY", t)
        /\ positions[t].proceedsUsdc = Usdc(k, n, "SELL", t)
    BY <1>4, <1>6 DEF Replays, HeldIn
  <2>3. /\ Units(k, n + 1, "BUY", t) = Units(k, n, "BUY", t)
              + (IF Moves(call, "BUY", t) THEN call.amountToken ELSE 0)
        /\ Units(k, n + 1, "SELL", t) = Units(k, n, "SELL", t)
              + (IF Moves(call, "SELL", t) THEN call.amountToken ELSE 0)
        /\ Units(k, n, "BUY", t) \in Int /\ Units(k, n, "SELL", t) \in Int
    BY <2>1
  <2>4. call.amountToken \in Nat /\ ~(Moves(call, "BUY", t) /\ Moves(call, "SELL", t))
    BY DEF Bookable, Moves
  <2>5. after[t].amount = HeldIn(k, n + 1, t)
    <3>1. after[t].amount = positions[t].amount
                + (IF Moves(call, "BUY", t) THEN call.amountToken
                   ELSE IF Moves(call, "SELL", t) THEN - call.amountToken ELSE 0)
      BY <1>7
    <3> QED BY <2>2, <2>3, <2>4, <3>1 DEF HeldIn
  <2>6. after[t].amount \in Nat
    BY <1>7 DEF Holding
  <2>7. after[t].open <=> after[t].amount > 0
    BY <1>7
  <2>8. /\ after[t].costBasisUsdc = Usdc(k, n + 1, "BUY", t)
        /\ after[t].proceedsUsdc = Usdc(k, n + 1, "SELL", t)
    BY <1>7, <2>1, <2>2
  <2> QED BY <2>5, <2>6, <2>7, <2>8
<1>10. Replays(k, n + 1, paperUsdc', after)
  BY <1>8, <1>9 DEF Replays
<1>11. PastReplays(k)
  <2> SUFFICES ASSUME NEW m \in 1 .. Len(k)
               PROVE  /\ k[m].paperUsdcAfter = StartingUsdc + Net(k, m)
                      /\ k[m].paperUsdcAfter >= 0
                      /\ \A t \in Tokens : HeldIn(k, m, t) >= 0
    BY DEF PastReplays
  <2>1. CASE m = n + 1
    BY <1>3, <1>7, <1>8, <1>9, <2>1
  <2>2. CASE m # n + 1
    <3>1. m \in 1 .. n /\ m \in Nat /\ \A i \in 1 .. m : k[i].call = ticks[i].call
      BY <1>2, <2>2
    <3>2. Net(k, m) = Net(ticks, m) /\ \A t : HeldIn(k, m, t) = HeldIn(ticks, m, t)
      BY <3>1, SameHistory
    <3>3. /\ ticks[m].paperUsdcAfter = StartingUsdc + Net(ticks, m)
          /\ ticks[m].paperUsdcAfter >= 0
          /\ \A t \in Tokens : HeldIn(ticks, m, t) >= 0
      BY <1>2, <1>4, <3>1 DEF PastReplays, n
    <3> QED BY <1>2, <3>1, <3>2, <3>3
  <2> QED BY <2>1, <2>2
<1> QED BY <1>2, <1>5, <1>7, <1>10, <1>11 DEF LedgerInv, k, n, after

(* The empty history gives the ledger of deployment.                       *)
LEMMA LedgerInitially == ASSUME FundInit PROVE LedgerInv
<1>1. ticks = <<>> /\ Len(ticks) = 0 /\ ticks \in Seq({})
  BY DEF FundInit
<1>2. paperUsdc \in Nat /\ positions \in [Tokens -> Holding]
  BY FundAssumption DEF FundInit, Holding
<1>3. Booked(ticks, Len(ticks)) /\ PastReplays(ticks)
  BY <1>1 DEF Booked, PastReplays
<1>4. Replays(ticks, 0, paperUsdc, positions)
  <2>1. StartingUsdc \in Nat /\ Net(ticks, 0) = 0
    BY NoTicksYet, FundAssumption
  <2>2. \A t : /\ HeldIn(ticks, 0, t) = 0 /\ Usdc(ticks, 0, "BUY", t) = 0
               /\ Usdc(ticks, 0, "SELL", t) = 0
    BY NoTicksYet DEF HeldIn
  <2> QED BY <2>1, <2>2 DEF FundInit, Replays
<1> QED BY <1>1, <1>2, <1>3, <1>4 DEF LedgerInv

(* Whoever leaves the fund alone leaves this as it is.                     *)
LEMMA LedgerStays == ASSUME LedgerInv, UNCHANGED fundVars PROVE LedgerInv'
BY DEF LedgerInv, fundVars

(* The agent may call tick() with anything.                                *)
LEMMA FundKeepsLedger == ASSUME LedgerInv, FundNext PROVE LedgerInv'
<1>1. PICK call \in [action : {"HOLD", "PASS", "BUY", "SELL"}, token : Tokens \cup {NoToken},
                     amountToken : Amounts, amountUsdc : Amounts, reason : Reasons] : Tick(call)
  BY DEF FundNext
<1>2. Bookable(call)
  BY FundAssumption DEF Bookable
<1> QED BY <1>1, <1>2, TickReplays

(* The fields of a holding make up the record, its flag included.          *)
LEMMA HoldingIs ==
  ASSUME NEW r \in Holding, NEW held \in Int, r.amount = held, NEW cost, r.costBasisUsdc = cost,
         NEW proceeds, r.proceedsUsdc = proceeds, r.open <=> held > 0
  PROVE  r = [amount |-> held, costBasisUsdc |-> cost, proceedsUsdc |-> proceeds, open |-> held > 0]
<1>1. r = [amount |-> r.amount, costBasisUsdc |-> r.costBasisUsdc,
           proceedsUsdc |-> r.proceedsUsdc, open |-> r.open]
  BY DEF Holding
<1>2. r.open = (held > 0)
  BY DEF Holding
<1> QED BY <1>1, <1>2, Zenon

(* The invariant is what the observer finds.                               *)
LEMMA ReplaysAsStated == LedgerInv => LedgerReplays
<1> SUFFICES ASSUME LedgerInv PROVE LedgerReplays
  OBVIOUS
<1>1. /\ Len(ticks) \in Nat /\ Booked(ticks, Len(ticks)) /\ PastReplays(ticks)
      /\ Replays(ticks, Len(ticks), paperUsdc, positions)
      /\ positions \in [Tokens -> Holding]
  BY LenProperties DEF LedgerInv
<1>2. \A n \in 0 .. Len(ticks) : n \in Nat /\ Booked(ticks, n)
  BY <1>1 DEF Booked
<1>3. ASSUME NEW n \in 0 .. Len(ticks)
      PROVE  /\ MapThenSumSet(LAMBDA t : EarnedOn(n, t) - SpentOn(n, t), Tokens) = Net(ticks, n)
             /\ \A t : /\ Held(n, t) = HeldIn(ticks, n, t)
                       /\ SpentOn(n, t) = Usdc(ticks, n, "BUY", t)
                       /\ EarnedOn(n, t) = Usdc(ticks, n, "SELL", t)
                       /\ HeldIn(ticks, n, t) \in Int
  <2>0. n \in Nat /\ Booked(ticks, n)
    BY <1>2
  <2>1. MapThenSumSet(LAMBDA t : EarnedOn(n, t) - SpentOn(n, t), Tokens) = Net(ticks, n)
    BY <2>0, NetIsFold
  <2>2. ASSUME NEW t
        PROVE  /\ Held(n, t) = HeldIn(ticks, n, t)
               /\ SpentOn(n, t) = Usdc(ticks, n, "BUY", t)
               /\ EarnedOn(n, t) = Usdc(ticks, n, "SELL", t)
    BY <2>0, UsdcIsFold, UnitsIsFold DEF Held, HeldIn, SpentOn, EarnedOn
  <2>3. ASSUME NEW t PROVE HeldIn(ticks, n, t) \in Int
    BY <2>0, SumsAreInts DEF HeldIn
  <2> QED BY <2>1, <2>2, <2>3
<1>4. ASSUME NEW n \in 1 .. Len(ticks)
      PROVE  /\ ticks[n].paperUsdcAfter =
                   StartingUsdc + MapThenSumSet(LAMBDA t : EarnedOn(n, t) - SpentOn(n, t), Tokens)
             /\ ticks[n].paperUsdcAfter >= 0
             /\ \A t \in Tokens : Held(n, t) >= 0
  <2>1. n \in 0 .. Len(ticks)
    BY <1>1
  <2> QED BY <1>1, <1>3, <2>1 DEF PastReplays
<1>5. ASSUME NEW t \in Tokens
      PROVE  positions[t] = [amount        |-> Held(Len(ticks), t),
                             costBasisUsdc |-> SpentOn(Len(ticks), t),
                             proceedsUsdc  |-> EarnedOn(Len(ticks), t),
                             open          |-> Held(Len(ticks), t) > 0]
  <2>0. PICK n \in 0 .. Len(ticks) : n = Len(ticks)
    BY <1>1
  <2>1. PICK held \in Int : held = Held(n, t)
    BY <1>3
  <2>2. /\ positions[t].amount = held
        /\ positions[t].costBasisUsdc = SpentOn(n, t)
        /\ positions[t].proceedsUsdc = EarnedOn(n, t)
        /\ positions[t].open <=> held > 0
    BY <1>1, <1>3, <2>0, <2>1 DEF Replays
  <2>3. positions[t] \in Holding
    BY <1>1
  <2>4. positions[t] = [amount |-> held, costBasisUsdc |-> SpentOn(n, t),
                        proceedsUsdc |-> EarnedOn(n, t), open |-> held > 0]
    BY <2>2, <2>3, HoldingIs
  <2> QED BY <2>0, <2>1, <2>4
<1> QED BY <1>4, <1>5 DEF LedgerReplays

(* Replaying the history of the launch sniper's contract gives its ledger: *)
(* every stored balance, every position, nothing overdrawn. For any number *)
(* of tokens and ticks and any amounts.                                    *)
THEOREM HistoriesReplay == PanelSpec => []LedgerReplays
<1>1. PanelInit => LedgerInv
  BY LedgerInitially DEF PanelInit
<1>2. LedgerInv /\ [PanelNext]_panelVars => LedgerInv'
  <2> SUFFICES ASSUME LedgerInv, [PanelNext]_panelVars PROVE LedgerInv'
    OBVIOUS
  <2>1. FundNext \/ UNCHANGED fundVars
    BY DEF PanelNext, panelVars, Act, Visit, GoOn, Read, ReadFails, ReadBatch
  <2> QED BY <2>1, FundKeepsLedger, LedgerStays
<1> QED BY <1>1, <1>2, ReplaysAsStated, PTL DEF PanelSpec

(* The loop of the launch sniper only ever ticks with a call that can be   *)
(* booked, so the same holds of its fund with any number of overlapping,   *)
(* failing and superseded runs.                                            *)
LEMMA LoopBooks ==
  ASSUME Inv, [Next]_vars
  PROVE  UNCHANGED fundVars \/ \E call : Bookable(call) /\ Tick(call)
<1>1. CASE Mine
  <2>1. Head(mempool) = mempool[1] /\ mempool[1] \in Pending
    <3>1. mempool \in Seq(Pending) /\ mempool # <<>>
      BY <1>1 DEF Mine, Inv, LoopTypes
    <3>2. Len(mempool) \in Nat /\ Len(mempool) # 0
      BY <3>1, EmptySeq, LenProperties
    <3> QED BY <3>1, <3>2, LenProperties, HeadTailProperties
  <2>2. Bookable(mempool[1].call)
    BY <2>1, SniperAssumption DEF Pending, LoopCall, Bookable
  <2>3. Tick(mempool[1].call) \/ UNCHANGED fundVars
    BY <1>1, <2>1 DEF Mine
  <2> QED BY <2>2, <2>3
<1>2. CASE ByHand
  <2>1. PICK call \in AnyCall : Tick(call)
    BY <1>2, ByHandTicks
  <2> QED BY <2>1 DEF AnyCall, Bookable
<1>3. CASE WorkerStep \/ PoolCreated \/ PoolAgesOut \/ UNCHANGED vars
  BY <1>3 DEF WorkerStep, PoolCreated, PoolAgesOut, vars
<1> QED BY <1>1, <1>2, <1>3 DEF Next

(* However its runs overlap, fail and supersede each other, the launch     *)
(* sniper's history replayed gives its contract's ledger.                  *)
THEOREM LoopReplays == Spec => []LedgerReplays
<1>1. Init => LedgerInv
  BY LedgerInitially DEF Init
<1>2. Inv /\ LedgerInv /\ [Next]_vars => LedgerInv'
  BY LoopBooks, TickReplays, LedgerStays
<1> QED BY <1>1, <1>2, InvAlways, ReplaysAsStated, PTL DEF Spec

----------------------------------------------------------------------------
(* The same for the trades of the sovereign fund.                          *)
Acted(h, n, action) == {i \in 1 .. n : h[i].action = action}

PaidIn(h, n, action) == Total([i \in Acted(h, n, action) |-> h[i].amountIn])

GotIn(h, n, action) == Total([i \in Acted(h, n, action) |-> h[i].amountOut])

Settled(h, n) == \A i \in 1 .. n : h[i].amountIn \in Nat /\ h[i].amountOut \in Nat

UsdcIn(h, n) == GotIn(h, n, "SELL_WETH") - PaidIn(h, n, "BUY_WETH")

WethIn(h, n) == GotIn(h, n, "BUY_WETH") - PaidIn(h, n, "SELL_WETH")

(* A history is finite, and so are the trades of one kind.                 *)
LEMMA ActedIsFinite ==
  ASSUME NEW h, NEW n \in Nat, NEW action
  PROVE  Acted(h, n, action) \subseteq 1 .. n /\ IsFiniteSet(Acted(h, n, action))
<1>1. Acted(h, n, action) \subseteq 1 .. n
  BY DEF Acted
<1>2. IsFiniteSet(1 .. n)
  BY FS_Interval
<1> QED BY <1>1, <1>2, FS_Subset

(* The sums of TradesExplainBalances: what was paid, then what was got.    *)
LEMMA PaidIsFold ==
  ASSUME NEW n \in Nat, NEW action, Settled(trades, n)
  PROVE  Paid(n, action) = PaidIn(trades, n, action)
<1> DEFINE D == Did(n, action)
           f == [i \in D |-> trades[i].amountIn]
           Fold(g) == g = [s \in SUBSET D |-> IF s = {} THEN 0
                             ELSE trades[OneOf(s)].amountIn + g[s \ {OneOf(s)}]]
           it == CHOOSE g : Fold(g)
<1>1. D = Acted(trades, n, action)
  BY DEF Did, Acted
<1>2. f \in [D -> Int] /\ IsFiniteSet(D)
  BY <1>1, ActedIsFinite DEF Settled
<1>3. Paid(n, action) = it[D]
  BY DEF Paid, MapThenSumSet, MapThenFoldSet, OneOf
<1>4. ASSUME NEW g PROVE Fold(g) <=> IsSum(f, g)
  <2>1. \A s \in SUBSET D : s # {} => f[OneOf(s)] = trades[OneOf(s)].amountIn
    BY DEF OneOf
  <2>2. \A s \in SUBSET D : (IF s = {} THEN 0 ELSE f[OneOf(s)] + g[s \ {OneOf(s)}])
           = (IF s = {} THEN 0 ELSE trades[OneOf(s)].amountIn + g[s \ {OneOf(s)}])
    BY <2>1
  <2>3. DOMAIN f = D
    OBVIOUS
  <2> HIDE DEF f, D
  <2> QED BY <2>2, <2>3 DEF IsSum
<1>5. Fold(it)
  <2>1. \E g : Fold(g)
    <3> HIDE DEF f, Fold, D
    <3> QED BY <1>2, <1>4, SumExists
  <2> HIDE DEF Fold
  <2> QED BY <2>1
<1>6. Total(f) = it[D]
  <2> HIDE DEF f, Fold, D, it
  <2> QED BY <1>2, <1>4, <1>5, TotalIsSum
<1> QED BY <1>1, <1>3, <1>6 DEF PaidIn

LEMMA GotIsFold ==
  ASSUME NEW n \in Nat, NEW action, Settled(trades, n)
  PROVE  Got(n, action) = GotIn(trades, n, action)
<1> DEFINE D == Did(n, action)
           f == [i \in D |-> trades[i].amountOut]
           Fold(g) == g = [s \in SUBSET D |-> IF s = {} THEN 0
                             ELSE trades[OneOf(s)].amountOut + g[s \ {OneOf(s)}]]
           it == CHOOSE g : Fold(g)
<1>1. D = Acted(trades, n, action)
  BY DEF Did, Acted
<1>2. f \in [D -> Int] /\ IsFiniteSet(D)
  BY <1>1, ActedIsFinite DEF Settled
<1>3. Got(n, action) = it[D]
  BY DEF Got, MapThenSumSet, MapThenFoldSet, OneOf
<1>4. ASSUME NEW g PROVE Fold(g) <=> IsSum(f, g)
  <2>1. \A s \in SUBSET D : s # {} => f[OneOf(s)] = trades[OneOf(s)].amountOut
    BY DEF OneOf
  <2>2. \A s \in SUBSET D : (IF s = {} THEN 0 ELSE f[OneOf(s)] + g[s \ {OneOf(s)}])
           = (IF s = {} THEN 0 ELSE trades[OneOf(s)].amountOut + g[s \ {OneOf(s)}])
    BY <2>1
  <2>3. DOMAIN f = D
    OBVIOUS
  <2> HIDE DEF f, D
  <2> QED BY <2>2, <2>3 DEF IsSum
<1>5. Fold(it)
  <2>1. \E g : Fold(g)
    <3> HIDE DEF f, Fold, D
    <3> QED BY <1>2, <1>4, SumExists
  <2> HIDE DEF Fold
  <2> QED BY <2>1
<1>6. Total(f) = it[D]
  <2> HIDE DEF f, Fold, D, it
  <2> QED BY <1>2, <1>4, <1>5, TotalIsSum
<1> QED BY <1>1, <1>3, <1>6 DEF GotIn

(* The sums are numbers.                                                   *)
LEMMA TradeSumsAreInts ==
  ASSUME NEW h, NEW n \in Nat, Settled(h, n), NEW action
  PROVE  PaidIn(h, n, action) \in Int /\ GotIn(h, n, action) \in Int
<1> DEFINE D == Acted(h, n, action)
           f == [i \in D |-> h[i].amountIn]
           g == [i \in D |-> h[i].amountOut]
<1>1. f \in [D -> Int] /\ g \in [D -> Int] /\ IsFiniteSet(D)
  BY ActedIsFinite DEF Settled
<1>2. Total(f) \in Int /\ Total(g) \in Int
  <2> HIDE DEF f, g, D
  <2> QED BY <1>1, TotalStep
<1> QED BY <1>2 DEF PaidIn, GotIn

(* The first n trades of two histories.                                    *)
LEMMA SameTrades ==
  ASSUME NEW h, NEW k, NEW n \in Nat, \A i \in 1 .. n : k[i] = h[i]
  PROVE  /\ \A action : /\ PaidIn(k, n, action) = PaidIn(h, n, action)
                        /\ GotIn(k, n, action) = GotIn(h, n, action)
         /\ UsdcIn(k, n) = UsdcIn(h, n) /\ WethIn(k, n) = WethIn(h, n)
<1>1. ASSUME NEW action
      PROVE  /\ PaidIn(k, n, action) = PaidIn(h, n, action)
             /\ GotIn(k, n, action) = GotIn(h, n, action)
  <2>1. Acted(k, n, action) = Acted(h, n, action)
    BY DEF Acted
  <2>2. \A i \in Acted(h, n, action) : k[i] = h[i]
    BY DEF Acted
  <2> QED BY <2>1, <2>2 DEF PaidIn, GotIn
<1> QED BY <1>1 DEF UsdcIn, WethIn

(* One trade more.                                                         *)
LEMMA NextTrade ==
  ASSUME NEW h, NEW n \in Nat, Settled(h, n + 1), NEW action
  PROVE  IF h[n + 1].action = action
         THEN /\ PaidIn(h, n + 1, action) = PaidIn(h, n, action) + h[n + 1].amountIn
              /\ GotIn(h, n + 1, action) = GotIn(h, n, action) + h[n + 1].amountOut
         ELSE /\ PaidIn(h, n + 1, action) = PaidIn(h, n, action)
              /\ GotIn(h, n + 1, action) = GotIn(h, n, action)
<1> DEFINE D == Acted(h, n, action)
           E == Acted(h, n + 1, action)
<1>0. /\ 1 .. (n + 1) = (1 .. n) \cup {n + 1} /\ n + 1 \notin 1 .. n
      /\ D \subseteq 1 .. n /\ E \subseteq 1 .. (n + 1)
  BY DEF Acted
<1>1. CASE h[n + 1].action = action
  <2> DEFINE f == [i \in E |-> h[i].amountIn]
             g == [i \in E |-> h[i].amountOut]
  <2>1. E = D \cup {n + 1} /\ n + 1 \notin D /\ IsFiniteSet(D)
    <3>1. \A i : i \in E <=> i \in D \/ i = n + 1
      BY <1>0, <1>1 DEF Acted
    <3> QED BY <1>0, <3>1, ActedIsFinite
  <2>2. f \in [E -> Int] /\ g \in [E -> Int]
    BY <1>0 DEF Settled
  <2>3. /\ [i \in D |-> f[i]] = [i \in D |-> h[i].amountIn] /\ f[n + 1] = h[n + 1].amountIn
        /\ [i \in D |-> g[i]] = [i \in D |-> h[i].amountOut] /\ g[n + 1] = h[n + 1].amountOut
    BY <2>1
  <2>4. /\ Total(f) = Total([i \in D |-> f[i]]) + f[n + 1]
        /\ Total(g) = Total([i \in D |-> g[i]]) + g[n + 1]
    <3> HIDE DEF f, g, D, E
    <3>1. PICK x, a, b : x = n + 1 /\ a = [i \in D |-> f[i]] /\ b = [i \in D |-> g[i]]
      OBVIOUS
    <3>2. /\ IsFiniteSet(D) /\ x \notin D
          /\ f \in [D \cup {x} -> Int] /\ g \in [D \cup {x} -> Int]
      BY <2>1, <2>2, <3>1
    <3>3. Total(f) = Total(a) + f[x]
      BY <3>1, <3>2, TotalExtended
    <3>4. Total(g) = Total(b) + g[x]
      BY <3>1, <3>2, TotalExtended
    <3> QED BY <3>1, <3>3, <3>4
  <2> QED BY <1>1, <2>3, <2>4 DEF PaidIn, GotIn
<1>2. CASE h[n + 1].action # action
  <2>1. \A i : i \in E <=> i \in D
    BY <1>0, <1>2 DEF Acted
  <2>2. E = D
    BY <2>1
  <2> QED BY <1>2, <2>2 DEF PaidIn, GotIn
<1> QED BY <1>1, <1>2

(* Before the first trade.                                                 *)
LEMMA NoTradesYet == ASSUME NEW h PROVE UsdcIn(h, 0) = 0 /\ WethIn(h, 0) = 0
<1>1. ASSUME NEW action PROVE PaidIn(h, 0, action) = 0 /\ GotIn(h, 0, action) = 0
  <2>1. Acted(h, 0, action) = {}
    BY DEF Acted
  <2>2. PICK D : D = Acted(h, 0, action)
    OBVIOUS
  <2>3. IsFiniteSet(D) /\ D = {}
    BY <2>1, <2>2, FS_EmptySet
  <2>4. [i \in D |-> h[i].amountIn] \in [D -> Int] /\ [i \in D |-> h[i].amountOut] \in [D -> Int]
    BY <2>3
  <2>5. Total([i \in D |-> h[i].amountIn]) = 0 /\ Total([i \in D |-> h[i].amountOut]) = 0
    BY <2>3, <2>4, TotalStep
  <2> QED BY <2>2, <2>5 DEF PaidIn, GotIn
<1> QED BY <1>1 DEF UsdcIn, WethIn

(* What the fund recorded with its n-th trade is what came in from outside *)
(* and what its trades made of it.                                         *)
Explained(trade, h, n) ==
  /\ trade.usdcAfter = trade.outside.usdc + UsdcIn(h, n)
  /\ trade.wethAfter = trade.outside.weth + WethIn(h, n)
  /\ trade.usdcAfter >= 0 /\ trade.wethAfter >= 0
  /\ trade.action # "HOLD" => trade.amountOut >= trade.minAmountOut
  /\ trade.outside.usdc \in Int /\ trade.outside.weth \in Int

(* The same of the balances now.                                           *)
SovereignInv ==
  /\ balances \in [usdc : Nat, weth : Nat]
  /\ outside \in [usdc : Int, weth : Int, moves : Nat]
  /\ \E S : trades \in Seq(S)
  /\ Settled(trades, Len(trades))
  /\ \A n \in 1 .. Len(trades) : Explained(trades[n], trades, n)
  /\ balances.usdc = outside.usdc + UsdcIn(trades, Len(trades))
  /\ balances.weth = outside.weth + WethIn(trades, Len(trades))

(* A new fund is empty.                                                    *)
LEMMA SovereignInitially == ASSUME SovereignInit PROVE SovereignInv
<1>1. trades = <<>> /\ Len(trades) = 0 /\ trades \in Seq({})
  BY DEF SovereignInit
<1>2. balances.usdc = 0 /\ balances.weth = 0 /\ outside.usdc = 0 /\ outside.weth = 0
      /\ balances \in [usdc : Nat, weth : Nat] /\ outside \in [usdc : Int, weth : Int, moves : Nat]
  BY DEF SovereignInit
<1>3. UsdcIn(trades, 0) = 0 /\ WethIn(trades, 0) = 0
  BY NoTradesYet
<1> QED BY <1>1, <1>2, <1>3 DEF SovereignInv, Settled

(* A withdrawal or a transfer in moves balance and outside together.       *)
LEMMA TransfersAreOutside ==
  ASSUME SovereignInv, Withdraw \/ Receive PROVE SovereignInv'
<1>0. /\ balances \in [usdc : Nat, weth : Nat] /\ outside \in [usdc : Int, weth : Int, moves : Nat]
      /\ balances.usdc \in Nat /\ balances.weth \in Nat
      /\ outside.usdc \in Int /\ outside.weth \in Int /\ outside.moves \in Nat
  BY DEF SovereignInv
<1>1. trades' = trades
  BY DEF Withdraw, Receive
<1>2. /\ balances' \in [usdc : Nat, weth : Nat] /\ outside' \in [usdc : Int, weth : Int, moves : Nat]
      /\ balances'.usdc - outside'.usdc = balances.usdc - outside.usdc
      /\ balances'.weth - outside'.weth = balances.weth - outside.weth
  <2>1. CASE Withdraw
    <3>1. PICK token \in {"usdc", "weth"}, amount \in Nat :
            /\ amount <= balances[token]
            /\ balances' = [balances EXCEPT ![token] = @ - amount]
            /\ outside' = [outside EXCEPT ![token] = @ - amount, !.moves = @ + 1]
      BY <2>1, SovereignAssumption DEF Withdraw
    <3>2. CASE token = "usdc"
      <4>1. /\ balances' = [balances EXCEPT !.usdc = balances.usdc - amount]
            /\ outside' = [outside EXCEPT !.usdc = outside.usdc - amount, !.moves = outside.moves + 1]
            /\ amount <= balances.usdc
        BY <3>1, <3>2
      <4>2. balances.usdc - amount \in Nat /\ outside.usdc - amount \in Int
        BY <1>0, <4>1
      <4>3. /\ balances' \in [usdc : Nat, weth : Nat] /\ balances'.usdc = balances.usdc - amount
            /\ balances'.weth = balances.weth
        BY <1>0, <4>1, <4>2
      <4>4. /\ outside' \in [usdc : Int, weth : Int, moves : Nat]
            /\ outside'.usdc = outside.usdc - amount /\ outside'.weth = outside.weth
        <5>1. outside.usdc - amount \in Int /\ outside.moves + 1 \in Nat
          BY <1>0
        <5>2. outside' = [usdc |-> outside.usdc - amount, weth |-> outside.weth, moves |-> outside.moves + 1]
          BY <1>0, <4>1, <5>1
        <5> QED BY <1>0, <5>1, <5>2
      <4> QED BY <1>0, <4>3, <4>4
    <3>3. CASE token = "weth"
      <4>1. /\ balances' = [balances EXCEPT !.weth = balances.weth - amount]
            /\ outside' = [outside EXCEPT !.weth = outside.weth - amount, !.moves = outside.moves + 1]
            /\ amount <= balances.weth
        BY <3>1, <3>3
      <4>2. balances.weth - amount \in Nat /\ outside.weth - amount \in Int
        BY <1>0, <4>1
      <4>3. /\ balances' \in [usdc : Nat, weth : Nat] /\ balances'.weth = balances.weth - amount
            /\ balances'.usdc = balances.usdc
        BY <1>0, <4>1, <4>2
      <4>4. /\ outside' \in [usdc : Int, weth : Int, moves : Nat]
            /\ outside'.weth = outside.weth - amount /\ outside'.usdc = outside.usdc
        <5>1. outside.weth - amount \in Int /\ outside.moves + 1 \in Nat
          BY <1>0
        <5>2. outside' = [usdc |-> outside.usdc, weth |-> outside.weth - amount, moves |-> outside.moves + 1]
          BY <1>0, <4>1, <5>1
        <5> QED BY <1>0, <5>1, <5>2
      <4> QED BY <1>0, <4>3, <4>4
    <3> QED BY <3>1, <3>2, <3>3
  <2>2. CASE Receive
    <3>1. PICK token \in {"usdc", "weth"}, amount \in Nat :
            /\ balances' = [balances EXCEPT ![token] = @ + amount]
            /\ outside' = [outside EXCEPT ![token] = @ + amount, !.moves = @ + 1]
      BY <2>2, SovereignAssumption DEF Receive
    <3>2. CASE token = "usdc"
      <4>1. /\ balances' = [balances EXCEPT !.usdc = balances.usdc + amount]
            /\ outside' = [outside EXCEPT !.usdc = outside.usdc + amount, !.moves = outside.moves + 1]
        BY <3>1, <3>2
      <4>3. /\ balances' \in [usdc : Nat, weth : Nat] /\ balances'.usdc = balances.usdc + amount
            /\ balances'.weth = balances.weth
        BY <1>0, <4>1
      <4>4. /\ outside' \in [usdc : Int, weth : Int, moves : Nat]
            /\ outside'.usdc = outside.usdc + amount /\ outside'.weth = outside.weth
        <5>1. outside.usdc + amount \in Int /\ outside.moves + 1 \in Nat
          BY <1>0
        <5>2. outside' = [usdc |-> outside.usdc + amount, weth |-> outside.weth, moves |-> outside.moves + 1]
          BY <1>0, <4>1, <5>1
        <5> QED BY <1>0, <5>1, <5>2
      <4> QED BY <1>0, <4>3, <4>4
    <3>3. CASE token = "weth"
      <4>1. /\ balances' = [balances EXCEPT !.weth = balances.weth + amount]
            /\ outside' = [outside EXCEPT !.weth = outside.weth + amount, !.moves = outside.moves + 1]
        BY <3>1, <3>3
      <4>3. /\ balances' \in [usdc : Nat, weth : Nat] /\ balances'.weth = balances.weth + amount
            /\ balances'.usdc = balances.usdc
        BY <1>0, <4>1
      <4>4. /\ outside' \in [usdc : Int, weth : Int, moves : Nat]
            /\ outside'.weth = outside.weth + amount /\ outside'.usdc = outside.usdc
        <5>1. outside.weth + amount \in Int /\ outside.moves + 1 \in Nat
          BY <1>0
        <5>2. outside' = [usdc |-> outside.usdc, weth |-> outside.weth + amount, moves |-> outside.moves + 1]
          BY <1>0, <4>1, <5>1
        <5> QED BY <1>0, <5>1, <5>2
      <4> QED BY <1>0, <4>3, <4>4
    <3> QED BY <3>1, <3>2, <3>3
  <2> QED BY <2>1, <2>2
<1>3. UsdcIn(trades, Len(trades)) \in Int /\ WethIn(trades, Len(trades)) \in Int
  BY LenProperties, TradeSumsAreInts DEF SovereignInv, UsdcIn, WethIn
<1>4. /\ balances.usdc \in Int /\ balances.weth \in Int /\ outside.usdc \in Int /\ outside.weth \in Int
      /\ balances'.usdc \in Int /\ balances'.weth \in Int /\ outside'.usdc \in Int /\ outside'.weth \in Int
  BY <1>2 DEF SovereignInv
<1>5. /\ balances'.usdc = outside'.usdc + UsdcIn(trades, Len(trades))
      /\ balances'.weth = outside'.weth + WethIn(trades, Len(trades))
  <2>1. /\ balances'.usdc - outside'.usdc = balances.usdc - outside.usdc
        /\ balances'.weth - outside'.weth = balances.weth - outside.weth
    BY <1>2
  <2>2. /\ balances.usdc = outside.usdc + UsdcIn(trades, Len(trades))
        /\ balances.weth = outside.weth + WethIn(trades, Len(trades))
    BY DEF SovereignInv
  <2>3. balances'.usdc - outside'.usdc = UsdcIn(trades, Len(trades))
    BY <1>3, <1>4, <2>1, <2>2
  <2>4. balances'.weth - outside'.weth = WethIn(trades, Len(trades))
    BY <1>3, <1>4, <2>1, <2>2
  <2>5. balances'.usdc = outside'.usdc + UsdcIn(trades, Len(trades))
    BY <1>3, <1>4, <2>3
  <2>6. balances'.weth = outside'.weth + WethIn(trades, Len(trades))
    BY <1>3, <1>4, <2>4
  <2> QED BY <2>5, <2>6
<1>6. /\ \E S : trades \in Seq(S)
      /\ Settled(trades, Len(trades))
      /\ \A n \in 1 .. Len(trades) : Explained(trades[n], trades, n)
  BY DEF SovereignInv
<1>7. /\ \E S : trades' \in Seq(S)
      /\ Settled(trades', Len(trades'))
      /\ \A n \in 1 .. Len(trades') : Explained(trades'[n], trades', n)
  BY <1>1, <1>6
<1>8. /\ balances'.usdc = outside'.usdc + UsdcIn(trades', Len(trades'))
      /\ balances'.weth = outside'.weth + WethIn(trades', Len(trades'))
  BY <1>1, <1>5
<1> QED BY <1>2, <1>7, <1>8 DEF SovereignInv

(* A tick moves the balances by the very swap it records.                  *)
LEMMA TickIsExplained ==
  ASSUME SovereignInv, SovereignTick PROVE SovereignInv'
<1> DEFINE n == Len(trades)
           k == trades'
<1>1. PICK action \in {"HOLD", "BUY_WETH", "SELL_WETH"}, amountIn, amountOut, minAmountOut \in SwapSizes :
        /\ (action = "HOLD") <=> (amountIn = 0)
        /\ \/ action = "HOLD" /\ amountOut = 0 /\ UNCHANGED balances
           \/ action = "BUY_WETH" /\ Swap("usdc", "weth", amountIn, amountOut, minAmountOut)
           \/ action = "SELL_WETH" /\ Swap("weth", "usdc", amountIn, amountOut, minAmountOut)
        /\ Record(action, amountIn, amountOut, minAmountOut)
  BY DEF SovereignTick
<1>2. outside' = outside
  BY DEF SovereignTick
<1>3. amountIn \in Nat /\ amountOut \in Nat /\ minAmountOut \in Nat
  BY SovereignAssumption
<1>4. /\ balances \in [usdc : Nat, weth : Nat] /\ outside \in [usdc : Int, weth : Int, moves : Nat]
      /\ Settled(trades, n)
      /\ \A m \in 1 .. n : Explained(trades[m], trades, m)
      /\ balances.usdc = outside.usdc + UsdcIn(trades, n)
      /\ balances.weth = outside.weth + WethIn(trades, n)
  BY DEF SovereignInv
<1>5. PICK S : trades \in Seq(S)
  BY DEF SovereignInv
<1>6. /\ n \in Nat /\ Len(k) = n + 1 /\ \A i \in 1 .. n : k[i] = trades[i]
      /\ k[n + 1].action = action /\ k[n + 1].amountIn = amountIn /\ k[n + 1].amountOut = amountOut
      /\ k[n + 1].minAmountOut = minAmountOut /\ k[n + 1].usdcAfter = balances'.usdc
      /\ k[n + 1].wethAfter = balances'.weth /\ k[n + 1].outside = outside
      /\ \E R : k \in Seq(R)
  <2> DEFINE x == [action |-> action, amountIn |-> amountIn, amountOut |-> amountOut,
                   minAmountOut |-> minAmountOut, usdcAfter |-> balances'.usdc,
                   wethAfter |-> balances'.weth, outside |-> outside]
  <2>1. trades \in Seq(S \cup {x}) /\ x \in S \cup {x}
    BY <1>5, SeqMonotonic
  <2>2. k = Append(trades, x)
    BY <1>1 DEF Record
  <2>3. k \in Seq(S \cup {x}) /\ Len(k) = n + 1 /\ k[n + 1] = x /\ \A i \in 1 .. n : k[i] = trades[i]
    <3> HIDE DEF x
    <3> QED BY <2>1, <2>2, AppendProperties
  <2> QED BY <1>5, <2>3, LenProperties
<1> HIDE DEF n, k
<1>7. Settled(k, n + 1) /\ Settled(k, n)
  <2>1. ASSUME NEW i \in 1 .. (n + 1) PROVE k[i].amountIn \in Nat /\ k[i].amountOut \in Nat
    <3>1. CASE i = n + 1
      BY <1>3, <1>6, <3>1
    <3>2. CASE i # n + 1
      <4>1. i \in 1 .. n
        BY <1>6, <3>2
      <4>2. k[i] = trades[i]
        BY <1>6, <4>1
      <4> QED BY <1>4, <4>1, <4>2 DEF Settled
    <3> QED BY <3>1, <3>2
  <2>2. 1 .. n \subseteq 1 .. (n + 1)
    BY <1>6
  <2> QED BY <2>1, <2>2 DEF Settled
<1>8. UsdcIn(k, n) = UsdcIn(trades, n) /\ WethIn(k, n) = WethIn(trades, n)
  BY <1>6, SameTrades
<1>9. \A a : PaidIn(k, n, a) \in Int /\ GotIn(k, n, a) \in Int
  BY <1>6, <1>7, TradeSumsAreInts
<1>10. \A a : /\ PaidIn(k, n + 1, a) = PaidIn(k, n, a) + (IF a = action THEN amountIn ELSE 0)
              /\ GotIn(k, n + 1, a) = GotIn(k, n, a) + (IF a = action THEN amountOut ELSE 0)
  <2> TAKE a
  <2>1. CASE a = action
    BY <1>6, <1>7, <2>1, NextTrade
  <2>2. CASE a # action
    <3>1. PaidIn(k, n + 1, a) = PaidIn(k, n, a) /\ GotIn(k, n + 1, a) = GotIn(k, n, a)
      BY <1>6, <1>7, <2>2, NextTrade
    <3> QED BY <1>9, <2>2, <3>1
  <2> QED BY <2>1, <2>2
<1>11. /\ balances' \in [usdc : Nat, weth : Nat]
       /\ balances'.usdc = balances.usdc + (IF action = "SELL_WETH" THEN amountOut
                                            ELSE IF action = "BUY_WETH" THEN - amountIn ELSE 0)
       /\ balances'.weth = balances.weth + (IF action = "BUY_WETH" THEN amountOut
                                            ELSE IF action = "SELL_WETH" THEN - amountIn ELSE 0)
       /\ action # "HOLD" => amountOut >= minAmountOut
  <2>1. CASE action = "HOLD"
    <3>1. balances' = balances
      BY <1>1, <2>1
    <3>2. balances.usdc \in Nat /\ balances.weth \in Nat
      BY <1>4
    <3> QED BY <1>4, <2>1, <3>1, <3>2
  <2>2. CASE action = "BUY_WETH"
    BY <1>1, <1>3, <1>4, <2>2 DEF Swap
  <2>3. CASE action = "SELL_WETH"
    BY <1>1, <1>3, <1>4, <2>3 DEF Swap
  <2> QED BY <2>1, <2>2, <2>3
<1>12. /\ balances'.usdc = outside.usdc + UsdcIn(k, n + 1)
       /\ balances'.weth = outside.weth + WethIn(k, n + 1)
  <2>1. outside.usdc \in Int /\ outside.weth \in Int
    BY <1>4
  <2>2. /\ UsdcIn(k, n + 1) = UsdcIn(k, n) + (IF action = "SELL_WETH" THEN amountOut
                                             ELSE IF action = "BUY_WETH" THEN - amountIn ELSE 0)
        /\ WethIn(k, n + 1) = WethIn(k, n) + (IF action = "BUY_WETH" THEN amountOut
                                             ELSE IF action = "SELL_WETH" THEN - amountIn ELSE 0)
        /\ UsdcIn(k, n) \in Int /\ WethIn(k, n) \in Int
    BY <1>3, <1>9, <1>10 DEF UsdcIn, WethIn
  <2> QED BY <1>3, <1>4, <1>8, <1>11, <2>1, <2>2
<1>13. ASSUME NEW m \in 1 .. Len(k) PROVE Explained(k[m], k, m)
  <2>1. CASE m = n + 1
    <3>1. balances'.usdc >= 0 /\ balances'.weth >= 0
      BY <1>11
    <3>2. k[m].outside = outside /\ outside.usdc \in Int /\ outside.weth \in Int
      BY <1>4, <1>6, <2>1
    <3> QED BY <1>6, <1>11, <1>12, <2>1, <3>1, <3>2 DEF Explained
  <2>2. CASE m # n + 1
    <3>1. m \in 1 .. n /\ m \in Nat /\ \A i \in 1 .. m : k[i] = trades[i]
      BY <1>6, <2>2
    <3>2. UsdcIn(k, m) = UsdcIn(trades, m) /\ WethIn(k, m) = WethIn(trades, m) /\ k[m] = trades[m]
      BY <3>1, <1>6, SameTrades
    <3> QED BY <1>4, <3>1, <3>2 DEF Explained
  <2> QED BY <2>1, <2>2
<1> QED BY <1>2, <1>4, <1>6, <1>7, <1>11, <1>12, <1>13 DEF SovereignInv, k

(* Whoever leaves the fund alone leaves this as it is.                     *)
LEMMA SovereignStays == ASSUME SovereignInv, UNCHANGED sovereignVars PROVE SovereignInv'
BY DEF SovereignInv, sovereignVars

(* The invariant is what the observer of the contract finds.               *)
LEMMA ExplainedAsStated == SovereignInv => TradesExplainBalances
<1> SUFFICES ASSUME SovereignInv PROVE TradesExplainBalances
  OBVIOUS
<1>1. PICK S : trades \in Seq(S)
  BY DEF SovereignInv
<1>2. Len(trades) \in Nat /\ DOMAIN trades = 1 .. Len(trades)
  BY <1>1, LenProperties
<1>3. ASSUME NEW n \in 0 .. Len(trades)
      PROVE  TradedUsdc(n) = UsdcIn(trades, n) /\ TradedWeth(n) = WethIn(trades, n)
  <2>1. n \in Nat /\ Settled(trades, n)
    BY <1>2 DEF SovereignInv, Settled
  <2> QED BY <2>1, PaidIsFold, GotIsFold DEF TradedUsdc, TradedWeth, UsdcIn, WethIn
<1>4. ASSUME NEW n \in DOMAIN trades
      PROVE  /\ trades[n].usdcAfter = trades[n].outside.usdc + TradedUsdc(n)
             /\ trades[n].wethAfter = trades[n].outside.weth + TradedWeth(n)
             /\ trades[n].usdcAfter >= 0 /\ trades[n].wethAfter >= 0
             /\ trades[n].action # "HOLD" => trades[n].amountOut >= trades[n].minAmountOut
  <2>1. n \in 1 .. Len(trades) /\ n \in 0 .. Len(trades)
    BY <1>2
  <2> QED BY <1>3, <2>1 DEF SovereignInv, Explained
<1>5. balances = [usdc |-> outside.usdc + TradedUsdc(Len(trades)),
                  weth |-> outside.weth + TradedWeth(Len(trades))]
  <2>1. balances.usdc = outside.usdc + TradedUsdc(Len(trades)) /\ balances.weth = outside.weth + TradedWeth(Len(trades))
    BY <1>2, <1>3 DEF SovereignInv
  <2>2. balances = [usdc |-> balances.usdc, weth |-> balances.weth]
    BY DEF SovereignInv
  <2> QED BY <2>1, <2>2
<1> QED BY <1>4, <1>5 DEF TradesExplainBalances

(* The sovereign fund's balances are its trades and its transfers, at      *)
(* every trade and now, whatever the router pays out.                      *)
THEOREM TradesAddUp == PanelSpec => []TradesExplainBalances
<1>1. PanelInit => SovereignInv
  BY SovereignInitially DEF PanelInit
<1>2. SovereignInv /\ [PanelNext]_panelVars => SovereignInv'
  <2> SUFFICES ASSUME SovereignInv, [PanelNext]_panelVars PROVE SovereignInv'
    OBVIOUS
  <2>1. SovereignNext \/ UNCHANGED sovereignVars
    BY DEF PanelNext, panelVars, Act, Visit, GoOn, Read, ReadFails, ReadBatch
  <2> QED BY <2>1, TickIsExplained, TransfersAreOutside, SovereignStays DEF SovereignNext
<1> QED BY <1>1, <1>2, ExplainedAsStated, PTL DEF PanelSpec

----------------------------------------------------------------------------
(* The same ledger by the list of tokens, which is how a page adds it up.  *)
NetOf(holdings, t) == holdings[t].proceedsUsdc - holdings[t].costBasisUsdc

ListNet(list, holdings) == Total([i \in 1 .. Len(list) |-> NetOf(holdings, list[i])])

Distinct(list) == \A i, j \in DOMAIN list : list[i] = list[j] => i = j

ListInv ==
  /\ tokens \in Seq(Tokens) /\ Distinct(tokens)
  /\ \A i \in DOMAIN ticks : ticks[i].call.token \in Range(tokens) \cup {NoToken}
  /\ \A t \in Tokens \ Range(tokens) : NetOf(positions, t) = 0
  /\ paperUsdc = StartingUsdc + ListNet(tokens, positions)

(* What each token brought in is a number.                                 *)
LEMMA NetsAreInts ==
  ASSUME NEW holdings \in [Tokens -> Holding]
  PROVE  \A t \in Tokens : NetOf(holdings, t) \in Int
<1>1. \A t \in Tokens : holdings[t].proceedsUsdc \in Nat /\ holdings[t].costBasisUsdc \in Nat
  BY DEF Holding
<1> QED BY <1>1 DEF NetOf

(* And so is their sum.                                                    *)
LEMMA ListNetIsInt ==
  ASSUME NEW list \in Seq(Tokens), NEW holdings \in [Tokens -> Holding]
  PROVE  /\ [i \in 1 .. Len(list) |-> NetOf(holdings, list[i])] \in [1 .. Len(list) -> Int]
         /\ IsFiniteSet(1 .. Len(list)) /\ Len(list) \in Nat
         /\ DOMAIN list = 1 .. Len(list) /\ \A i \in 1 .. Len(list) : list[i] \in Tokens
         /\ ListNet(list, holdings) \in Int
<1>1. Len(list) \in Nat /\ DOMAIN list = 1 .. Len(list) /\ \A i \in 1 .. Len(list) : list[i] \in Tokens
  BY LenProperties
<1>2. IsFiniteSet(1 .. Len(list))
  BY <1>1, FS_Interval
<1> DEFINE f == [i \in 1 .. Len(list) |-> NetOf(holdings, list[i])]
<1>3. f \in [1 .. Len(list) -> Int]
  BY <1>1, NetsAreInts
<1>4. Total(f) \in Int
  <2> HIDE DEF f
  <2> QED BY <1>2, <1>3, TotalStep
<1> QED BY <1>1, <1>2, <1>3, <1>4 DEF ListNet

(* The empty list.                                                         *)
LEMMA ListInitially == ASSUME FundInit PROVE ListInv
<1>1. tokens = <<>> /\ ticks = <<>> /\ Len(tokens) = 0 /\ DOMAIN tokens = {} /\ DOMAIN ticks = {}
      /\ tokens \in Seq(Tokens)
  BY DEF FundInit
<1>2. \A t \in Tokens : NetOf(positions, t) = 0
  <2>1. \A t \in Tokens : positions[t].costBasisUsdc = 0 /\ positions[t].proceedsUsdc = 0
    BY DEF FundInit
  <2> QED BY <2>1 DEF NetOf
<1>3. ListNet(tokens, positions) = 0
  <2> DEFINE f == [i \in 1 .. Len(tokens) |-> NetOf(positions, tokens[i])]
  <2>1. f \in [{} -> Int] /\ IsFiniteSet({})
    BY <1>1, FS_EmptySet
  <2> HIDE DEF f
  <2>2. Total(f) = 0
    BY <2>1, TotalStep
  <2> QED BY <2>2 DEF ListNet, f
<1>4. paperUsdc = StartingUsdc + ListNet(tokens, positions)
  BY <1>3, FundAssumption DEF FundInit
<1> QED BY <1>1, <1>2, <1>4 DEF ListInv, Distinct

Shifts(before, after, token, change) ==
  \A t \in Tokens : NetOf(after, t) = NetOf(before, t) + (IF t = token THEN change ELSE 0)

(* A call that moves a token already listed, and one that lists its token. *)
LEMMA ListedMoves ==
  ASSUME NEW list \in Seq(Tokens), Distinct(list), NEW j \in 1 .. Len(list),
         NEW before \in [Tokens -> Holding], NEW after \in [Tokens -> Holding], NEW change \in Int,
         \A t \in Tokens : NetOf(after, t) = NetOf(before, t) + (IF t = list[j] THEN change ELSE 0)
  PROVE  ListNet(list, after) = ListNet(list, before) + change
<1> DEFINE f == [i \in 1 .. Len(list) |-> NetOf(before, list[i])]
           g == [i \in 1 .. Len(list) |-> NetOf(after, list[i])]
<1>1. /\ f \in [1 .. Len(list) -> Int] /\ g \in [1 .. Len(list) -> Int]
      /\ IsFiniteSet(1 .. Len(list)) /\ DOMAIN list = 1 .. Len(list)
      /\ \A i \in 1 .. Len(list) : list[i] \in Tokens
      /\ ListNet(list, before) \in Int
  BY ListNetIsInt
<1>2. \A i \in (1 .. Len(list)) \ {j} : g[i] = f[i]
  <2> TAKE i \in (1 .. Len(list)) \ {j}
  <2>1. list[i] \in Tokens /\ list[i] # list[j]
    BY <1>1 DEF Distinct
  <2>2. NetOf(after, list[i]) = NetOf(before, list[i]) + 0
    BY <2>1
  <2>3. NetOf(before, list[i]) \in Int
    BY <2>1, NetsAreInts
  <2> QED BY <2>2, <2>3
<1>3. g[j] - f[j] = change
  <2>1. NetOf(after, list[j]) = NetOf(before, list[j]) + change
    BY <1>1
  <2>2. NetOf(before, list[j]) \in Int
    BY <1>1, NetsAreInts
  <2> QED BY <2>1, <2>2
<1>4. Total(g) = Total(f) + (g[j] - f[j])
  <2> HIDE DEF f, g
  <2> QED BY <1>1, <1>2, TotalChanged
<1> QED BY <1>3, <1>4 DEF ListNet

Longer(list, token, longer) ==
  /\ token \in Tokens /\ Len(longer) = Len(list) + 1 /\ longer[Len(list) + 1] = token
  /\ \A i \in 1 .. Len(list) : longer[i] = list[i] /\ list[i] # token

LEMMA AppendedMoves ==
  ASSUME NEW list \in Seq(Tokens), NEW token, NEW longer \in Seq(Tokens), Longer(list, token, longer),
         NEW before \in [Tokens -> Holding], NEW after \in [Tokens -> Holding], NEW change \in Int,
         NetOf(before, token) = 0,
         Shifts(before, after, token, change)
  PROVE  ListNet(longer, after) = ListNet(list, before) + change
<1> DEFINE D == 1 .. Len(list)
           f == [i \in D |-> NetOf(before, list[i])]
           h == [i \in 1 .. Len(longer) |-> NetOf(after, longer[i])]
<1>0. /\ \A t \in Tokens : NetOf(after, t) = NetOf(before, t) + (IF t = token THEN change ELSE 0)
      /\ token \in Tokens /\ Len(longer) = Len(list) + 1 /\ longer[Len(list) + 1] = token
      /\ \A i \in 1 .. Len(list) : longer[i] = list[i] /\ list[i] # token
  BY DEF Longer, Shifts
<1>1. /\ f \in [D -> Int] /\ IsFiniteSet(D) /\ Len(list) \in Nat /\ \A i \in D : list[i] \in Tokens
      /\ h \in [1 .. Len(longer) -> Int]
  BY ListNetIsInt
<1>2. 1 .. Len(longer) = D \cup {Len(longer)} /\ Len(longer) \notin D
  BY <1>0, <1>1
<1>3. f = [i \in D |-> h[i]]
  <2>1. \A i \in D : NetOf(after, longer[i]) = NetOf(before, list[i])
    <3> TAKE i \in D
    <3>1. NetOf(after, list[i]) = NetOf(before, list[i]) + 0
      BY <1>0, <1>1
    <3>2. NetOf(before, list[i]) \in Int
      BY <1>1, NetsAreInts
    <3> QED BY <1>0, <3>1, <3>2
  <2> QED BY <1>2, <2>1
<1>4. h[Len(longer)] = change
  BY <1>0, <1>1
<1>5. Total(h) = Total(f) + h[Len(longer)]
  <2>1. PICK x : x = Len(longer)
    OBVIOUS
  <2> HIDE DEF f, h, D
  <2>2. h \in [D \cup {x} -> Int] /\ x \notin D /\ IsFiniteSet(D)
    BY <1>1, <1>2, <2>1
  <2>3. Total(h) = Total([i \in D |-> h[i]]) + h[x]
    BY <2>2, TotalExtended
  <2> QED BY <1>3, <2>1, <2>3
<1> QED BY <1>4, <1>5 DEF ListNet

(* An accepted call lists its token and moves the balance with the list's  *)
(* sum.                                                                    *)
LEMMA TickKeepsList ==
  ASSUME LedgerInv, ListInv, NEW call, Bookable(call), Tick(call)
  PROVE  ListInv'
<1> DEFINE change == IF call.action = "SELL" THEN call.amountUsdc
                     ELSE IF call.action = "BUY" THEN - call.amountUsdc ELSE 0
<1>1. PICK before, after, list, longer :
        before = positions /\ after = positions' /\ list = tokens /\ longer = tokens'
  OBVIOUS
<1>2. /\ before \in [Tokens -> Holding] /\ after \in [Tokens -> Holding]
      /\ paperUsdc' = paperUsdc + change /\ change \in Int
      /\ call.action \in {"BUY", "SELL"} => call.token \in Tokens
      /\ \A t \in Tokens : NetOf(after, t) = NetOf(before, t) + (IF t = call.token THEN change ELSE 0)
  <2>1. /\ positions \in [Tokens -> Holding] /\ paperUsdc \in Nat
        /\ \A t \in Tokens : positions[t].open <=> positions[t].amount > 0
    BY DEF LedgerInv, Replays
  <2>2. /\ after \in [Tokens -> Holding] /\ paperUsdc' = paperUsdc + change
        /\ call.action \in {"BUY", "SELL"} => call.token \in Tokens
        /\ \A t \in Tokens :
             /\ after[t].costBasisUsdc = before[t].costBasisUsdc
                  + (IF Moves(call, "BUY", t) THEN call.amountUsdc ELSE 0)
             /\ after[t].proceedsUsdc = before[t].proceedsUsdc
                  + (IF Moves(call, "SELL", t) THEN call.amountUsdc ELSE 0)
    BY <1>1, <2>1, CallMoves
  <2>3. \A t \in Tokens : before[t].costBasisUsdc \in Nat /\ before[t].proceedsUsdc \in Nat
    BY <1>1, <2>1 DEF Holding
  <2>4. call.amountUsdc \in Nat
    BY DEF Bookable
  <2>5. \A t \in Tokens : NetOf(after, t) = NetOf(before, t) + (IF t = call.token THEN change ELSE 0)
    BY <2>2, <2>3, <2>4 DEF Moves, NetOf
  <2>6. change \in Int
    BY <2>4
  <2> QED BY <1>1, <2>1, <2>2, <2>5, <2>6
<1>3. /\ list \in Seq(Tokens) /\ Distinct(list)
      /\ \A t \in Tokens \ Range(list) : NetOf(before, t) = 0
      /\ paperUsdc = StartingUsdc + ListNet(list, before)
      /\ \A i \in DOMAIN ticks : ticks[i].call.token \in Range(list) \cup {NoToken}
  BY <1>1 DEF ListInv
<1>4. /\ Len(list) \in Nat /\ DOMAIN list = 1 .. Len(list) /\ ListNet(list, before) \in Int
      /\ \A i \in 1 .. Len(list) : list[i] \in Tokens
  BY <1>2, <1>3, ListNetIsInt
<1>5. \A t : t \in Range(list) <=> \E i \in 1 .. Len(list) : list[i] = t
  BY <1>4 DEF Range
<1>6. StartingUsdc \in Int
  BY FundAssumption
<1> HIDE DEF change
<1>7. CASE longer = list /\ (call.token \in Range(list) \/ call.token = NoToken)
  <2>1. ListNet(longer, after) = ListNet(list, before) + change
    <3>1. CASE call.token \in Range(list)
      <4>1. PICK j \in 1 .. Len(list) : list[j] = call.token
        BY <1>5, <3>1
      <4> QED BY <1>2, <1>3, <1>7, <4>1, ListedMoves
    <3>2. CASE call.token = NoToken
      <4>1. change = 0 /\ NoToken \notin Tokens
        BY <1>2, <3>2, FundAssumption, <1>2 DEF change, Bookable
      <4>2. \A t \in Tokens : NetOf(after, t) = NetOf(before, t)
        BY <1>2, <3>2, <4>1, NetsAreInts
      <4>3. ListNet(longer, after) = ListNet(list, before)
        BY <1>4, <1>7, <4>2 DEF ListNet
      <4> QED BY <1>4, <4>1, <4>3
    <3> QED BY <1>7, <3>1, <3>2
  <2>2. paperUsdc' = StartingUsdc + ListNet(longer, after)
    BY <1>2, <1>3, <1>4, <1>6, <2>1
  <2>3. ASSUME NEW t \in Tokens \ Range(longer) PROVE NetOf(after, t) = 0
    BY <1>2, <1>3, <1>7, <2>3, FundAssumption
  <2>4. \A i \in DOMAIN ticks' : ticks'[i].call.token \in Range(longer) \cup {NoToken}
    <3>1. PICK S : ticks \in Seq(S)
      BY DEF LedgerInv
    <3>2. ticks' = Append(ticks, [call |-> call, paperUsdcAfter |-> paperUsdc'])
      BY DEF Tick
    <3>3. \A i \in DOMAIN ticks' : (i \in DOMAIN ticks /\ ticks'[i] = ticks[i]) \/ ticks'[i].call = call
      BY <3>1, <3>2, LenProperties
    <3> QED BY <1>3, <1>7, <3>3
  <2> QED BY <1>1, <1>3, <1>7, <2>2, <2>3, <2>4 DEF ListInv
<1>8. CASE longer = Append(list, call.token) /\ call.token \in Tokens \ Range(list)
  <2>1. /\ longer \in Seq(Tokens) /\ Len(longer) = Len(list) + 1 /\ longer[Len(list) + 1] = call.token
        /\ \A i \in 1 .. Len(list) : longer[i] = list[i] /\ list[i] # call.token
        /\ DOMAIN longer = 1 .. Len(longer)
    BY <1>3, <1>4, <1>5, <1>8, AppendProperties, LenProperties
  <2>2. ListNet(longer, after) = ListNet(list, before) + change
    <3>1. PICK token : token = call.token /\ token \in Tokens
      BY <1>8
    <3>2. NetOf(before, token) = 0
      BY <1>3, <1>8, <3>1
    <3>3. /\ Shifts(before, after, token, change)
          /\ Longer(list, token, longer)
      BY <1>2, <2>1, <3>1 DEF Longer, Shifts
    <3>4. /\ list \in Seq(Tokens) /\ longer \in Seq(Tokens) /\ change \in Int
          /\ before \in [Tokens -> Holding] /\ after \in [Tokens -> Holding]
      BY <1>2, <1>3, <2>1
    <3> QED BY <3>2, <3>3, <3>4, AppendedMoves
  <2>3. paperUsdc' = StartingUsdc + ListNet(longer, after)
    BY <1>2, <1>3, <1>4, <1>6, <2>2
  <2>4. \A t : t \in Range(longer) <=> t \in Range(list) \/ t = call.token
    <3>1. \A i \in 1 .. Len(longer) : i \in 1 .. Len(list) \/ i = Len(list) + 1
      BY <1>4, <2>1
    <3>2. \A i \in 1 .. Len(list) : i \in 1 .. Len(longer)
      BY <1>4, <2>1
    <3>3. Len(list) + 1 \in 1 .. Len(longer)
      BY <1>4, <2>1
    <3> QED BY <1>5, <2>1, <3>1, <3>2, <3>3 DEF Range
  <2>5. \A t \in Tokens \ Range(longer) : NetOf(after, t) = 0
    BY <1>2, <1>3, <2>4
  <2>6. Distinct(longer)
    BY <1>3, <1>4, <2>1 DEF Distinct
  <2>7. \A i \in DOMAIN ticks' : ticks'[i].call.token \in Range(longer) \cup {NoToken}
    <3>1. PICK S : ticks \in Seq(S)
      BY DEF LedgerInv
    <3>2. ticks' = Append(ticks, [call |-> call, paperUsdcAfter |-> paperUsdc'])
      BY DEF Tick
    <3>3. \A i \in DOMAIN ticks' : (i \in DOMAIN ticks /\ ticks'[i] = ticks[i]) \/ ticks'[i].call = call
      BY <3>1, <3>2, LenProperties
    <3> QED BY <1>3, <2>4, <3>3
  <2> QED BY <1>1, <2>1, <2>3, <2>5, <2>6, <2>7 DEF ListInv
<1>9. \/ longer = list /\ (call.token \in Range(list) \/ call.token = NoToken)
      \/ longer = Append(list, call.token) /\ call.token \in Tokens \ Range(list)
  <2>1. \/ call.action = "HOLD" /\ call.token = NoToken /\ tokens' = tokens
        \/ call.token \in Tokens /\ Touch(call.token)
    BY DEF Tick, Accepts, Hold, Pass, Buy, Sell, Bookable, BothLegs
  <2> QED BY <1>1, <2>1 DEF Touch
<1> QED BY <1>7, <1>8, <1>9

(* Whoever leaves the fund alone leaves this as it is.                     *)
LEMMA ListStays == ASSUME ListInv, UNCHANGED fundVars PROVE ListInv'
BY DEF ListInv, fundVars

(* The agent may call tick() with anything.                                *)
LEMMA FundKeepsList == ASSUME LedgerInv, ListInv, FundNext PROVE ListInv'
<1>1. PICK call \in [action : {"HOLD", "PASS", "BUY", "SELL"}, token : Tokens \cup {NoToken},
                     amountToken : Amounts, amountUsdc : Amounts, reason : Reasons] : Tick(call)
  BY DEF FundNext
<1>2. Bookable(call)
  BY FundAssumption DEF Bookable
<1> QED BY <1>1, <1>2, TickKeepsList

----------------------------------------------------------------------------
(* The reads of a page, the agent's further steps among them.  Has: this   *)
(* field, one of the n-th stage, has been answered.                        *)
Has(p, n, field) == p.stage > n \/ (p.stage = n /\ <<field, {}>> \notin p.asked)

(* The i-th call of this field's multicall is still to be answered.        *)
Waits(p, field, i) == \E r \in p.asked : r[1] = field /\ i \in r[2]

OneMoment(p, h, n, batch) ==
  \A i \in batch \cap DOMAIN p.positions :
    /\ p.positions[i].amount = HeldIn(h, n, p.tokens[i])
    /\ p.positions[i].costBasisUsdc = Usdc(h, n, "BUY", p.tokens[i])

(* What was read is the contract's, and stays so.                          *)
SniperRows(p, h, list) ==
  /\ p.from \in 0 .. Len(h)
  /\ Has(p, 1, "tickCount")  => p.tickCount \in p.from .. Len(h)
  /\ Has(p, 1, "tokenCount") => p.tokenCount \in 0 .. Len(list)
  /\ p.stage = 1  => DOMAIN p.tokens = {}
  /\ p.stage # 3 => DOMAIN p.positions = {} /\ DOMAIN p.ticks = {}
  /\ DOMAIN p.positions \subseteq DOMAIN p.tokens
  /\ \A i \in DOMAIN p.tokens : i \in 1 .. p.tokenCount /\ p.tokens[i] = list[i]
  /\ \A i \in DOMAIN p.ticks : i \in 1 .. p.tickCount /\ p.ticks[i] = h[i]

(* What is missing of a page without a failure is still to come.           *)
SniperWhole(p) ==
  p.complete =>
    /\ p.stage # 1 => \A i \in 1 .. p.tokenCount : i \in DOMAIN p.tokens \/ Waits(p, "tokens", i)
    /\ p.stage = 3 =>
         /\ \A i \in DOMAIN p.tokens : i \in DOMAIN p.positions \/ Waits(p, "positions", i)
         /\ \A i \in 1 .. p.tickCount : i \in DOMAIN p.ticks \/ Waits(p, "ticks", i)

(* A batch of positions is read at once.                                   *)
SniperBatches(p, h) ==
  /\ \A r \in p.asked : r[1] = "positions" => r[2] \cap DOMAIN p.positions = {}
  /\ \A batch \in Batches(DOMAIN p.tokens) : \E n \in p.from .. Len(h) : OneMoment(p, h, n, batch)

(* Nothing happened since the visit began, so what was read is what is.    *)
SniperCurrent(p, h, list, paper, holdings) ==
  p.from = Len(h) =>
    /\ Has(p, 1, "paperUsdc")  => p.paperUsdc = paper
    /\ Has(p, 1, "tokenCount") => p.tokenCount = Len(list)
    /\ \A i \in DOMAIN p.positions : p.positions[i] = holdings[p.tokens[i]]

SniperShows(p, h, list, paper, holdings) ==
  /\ SniperRows(p, h, list) /\ SniperWhole(p) /\ SniperBatches(p, h)
  /\ SniperCurrent(p, h, list, paper, holdings)

(* An undisturbed page without a failure adds up.                          *)
SniperAddsUp(p) ==
  /\ IsFiniteSet(DOMAIN p.positions) /\ \A i \in DOMAIN p.positions : p.positions[i] \in Holding
  /\ p.paperUsdc = StartingUsdc + Total([i \in DOMAIN p.positions |->
                                           p.positions[i].proceedsUsdc - p.positions[i].costBasisUsdc])
  /\ \A i \in DOMAIN p.ticks : p.ticks[i].call.token \in Range(p.tokens) \cup {NoToken}

SniperDone(p, h) ==
  /\ p.to \in p.from .. Len(h) /\ p.tickCount \in p.from .. p.to
  /\ \A batch \in Batches(DOMAIN p.tokens) : \E n \in p.from .. p.to : OneMoment(p, h, n, batch)
  /\ p.from = p.to =>
       /\ p.tickCount \in DOMAIN p.ticks => p.ticks[p.tickCount].paperUsdcAfter = p.paperUsdc
       /\ p.complete => SniperAddsUp(p)

SovereignShows(p, h, out, held) ==
  /\ p.from \in 0 .. (Len(h) + out.moves)
  /\ Has(p, 1, "tickCount") => p.tickCount \in 0 .. Len(h)
  /\ p.stage # 3 => DOMAIN p.ticks = {}
  /\ \A i \in DOMAIN p.ticks : i \in 1 .. p.tickCount /\ i <= Shown /\ p.ticks[i] = h[p.tickCount + 1 - i]
  /\ p.complete /\ p.stage = 3 =>
       \A i \in 1 .. p.tickCount : i <= Shown => i \in DOMAIN p.ticks \/ Waits(p, "ticks", i)
  /\ p.from = Len(h) + out.moves =>
       /\ Has(p, 1, "tickCount") => p.tickCount = Len(h)
       /\ Has(p, 2, "usdc") => p.usdc = held.usdc
       /\ Has(p, 2, "weth") => p.weth = held.weth

SovereignDone(p, h, out) == p.to \in p.from .. (Len(h) + out.moves)

PageShows(p) ==
  IF shop = "sniper" THEN SniperShows(p, ticks, tokens, paperUsdc, positions)
                     ELSE SovereignShows(p, trades, outside, balances)

PageDone(p) ==
  IF shop = "sniper" THEN SniperDone(p, ticks) ELSE SovereignDone(p, trades, outside)

Told(p) ==
  /\ DOMAIN p = DOMAIN Unread /\ p.stage \in 1 .. 3
  /\ p.asked \subseteq StageRequests(p.stage, p)
  /\ PageShows(p)
  /\ \/ p.display = "loading"
     \/ p.display = "figures" /\ p.stage = 3 /\ p.asked = {} /\ PageDone(p)

PanelInv ==
  /\ shop \in {"sniper", "sovereign"}
  /\ panel = Unread \/ (panel.display = "error" /\ panel.asked = {}) \/ Told(panel)

----------------------------------------------------------------------------
(* A multicall's batches share out its calls.                              *)
LEMMA BatchesPart ==
  ASSUME NEW D
  PROVE  /\ \A i \in D : \E b \in Batches(D) : i \in b
         /\ \A b \in Batches(D) : b \subseteq D
         /\ \A b, c \in Batches(D) : b = c \/ b \cap c = {}
<1>1. \A i \in D : i \in {j \in D : Chunk(j, D) = Chunk(i, D)}
  OBVIOUS
<1>2. ASSUME NEW b \in Batches(D) PROVE \E i \in D : b = {j \in D : Chunk(j, D) = Chunk(i, D)}
  BY DEF Batches
<1>3. \A i \in D : \E b \in Batches(D) : i \in b
  BY <1>1, Zenon DEF Batches
<1>4. \A b \in Batches(D) : b \subseteq D
  BY <1>2
<1>5. ASSUME NEW b \in Batches(D), NEW c \in Batches(D), NEW x \in b \cap c PROVE b = c
  <2>1. PICK i \in D : b = {j \in D : Chunk(j, D) = Chunk(i, D)}
    BY <1>2
  <2>2. PICK k \in D : c = {j \in D : Chunk(j, D) = Chunk(k, D)}
    BY <1>2
  <2>3. Chunk(x, D) = Chunk(i, D) /\ Chunk(x, D) = Chunk(k, D)
    BY <1>5, <2>1, <2>2
  <2>4. Chunk(i, D) = Chunk(k, D)
    BY <2>3
  <2> QED BY <2>1, <2>2, <2>4, Zenon
<1> QED BY <1>3, <1>4, <1>5

(* What is asked for, stage by stage.                                      *)
LEMMA StageIs ==
  ASSUME NEW p, NEW n \in 1 .. 3, NEW r \in StageRequests(n, p)
  PROVE  /\ r = <<r[1], r[2]>>
         /\ shop = "sniper" =>
              \/ n = 1 /\ r[1] \in {"paperUsdc", "tickCount", "tokenCount"} /\ r = <<r[1], {}>>
              \/ n = 2 /\ r[1] = "tokens" /\ r[2] \in Batches(1 .. p.tokenCount)
              \/ n = 3 /\ r[1] = "positions" /\ r[2] \in Batches(DOMAIN p.tokens)
              \/ n = 3 /\ r[1] = "ticks" /\ r[2] \in Batches(1 .. p.tickCount)
         /\ shop = "sovereign" =>
              \/ n = 1 /\ r[1] = "tickCount" /\ r = <<r[1], {}>>
              \/ n = 2 /\ r[1] \in {"usdc", "weth"} /\ r = <<r[1], {}>>
              \/ n = 3 /\ r[1] = "ticks" /\ r[2] \in Batches({i \in 1 .. p.tickCount : i <= Shown})
<1>1. PICK field \in STAGES[shop][n] : r \in Requests(field, p)
  BY DEF StageRequests
<1>2. /\ field \notin LISTS => r = <<field, {}>>
      /\ field \in LISTS => r[1] = field /\ r[2] \in Batches(Calls(field, p))
  BY <1>1 DEF Requests
<1>3. r = <<r[1], r[2]>>
  BY <1>1 DEF Requests
<1>4. CASE shop = "sniper"
  <2>1. \/ n = 1 /\ field \in {"paperUsdc", "tickCount", "tokenCount"}
        \/ n = 2 /\ field = "tokens"
        \/ n = 3 /\ field = "positions"
        \/ n = 3 /\ field = "ticks"
    BY <1>1, <1>4 DEF STAGES
  <2>2. /\ Calls("tokens", p) = 1 .. p.tokenCount
        /\ Calls("positions", p) = DOMAIN p.tokens
        /\ Calls("ticks", p) = 1 .. p.tickCount
    BY <1>4 DEF Calls
  <2> QED BY <1>2, <1>3, <1>4, <2>1, <2>2 DEF LISTS
<1>5. CASE shop = "sovereign"
  <2>1. \/ n = 1 /\ field = "tickCount"
        \/ n = 2 /\ field \in {"usdc", "weth"}
        \/ n = 3 /\ field = "ticks"
    BY <1>1, <1>5 DEF STAGES
  <2>2. Calls("ticks", p) = {i \in 1 .. p.tickCount : i <= Shown}
    BY <1>5 DEF Calls
  <2> QED BY <1>2, <1>3, <1>5, <2>1, <2>2 DEF LISTS
<1> QED BY <1>3, <1>4, <1>5

LEMMA AllAsked ==
  ASSUME NEW p
  PROVE  /\ shop = "sniper" =>
              /\ \A field \in {"paperUsdc", "tickCount", "tokenCount"} : <<field, {}>> \in StageRequests(1, p)
              /\ \A b \in Batches(1 .. p.tokenCount) : <<"tokens", b>> \in StageRequests(2, p)
              /\ \A b \in Batches(DOMAIN p.tokens) : <<"positions", b>> \in StageRequests(3, p)
              /\ \A b \in Batches(1 .. p.tickCount) : <<"ticks", b>> \in StageRequests(3, p)
         /\ shop = "sovereign" =>
              /\ <<"tickCount", {}>> \in StageRequests(1, p)
              /\ <<"usdc", {}>> \in StageRequests(2, p) /\ <<"weth", {}>> \in StageRequests(2, p)
              /\ \A b \in Batches({i \in 1 .. p.tickCount : i <= Shown}) :
                   <<"ticks", b>> \in StageRequests(3, p)
<1>0. /\ "paperUsdc" \notin LISTS /\ "tickCount" \notin LISTS /\ "tokenCount" \notin LISTS
      /\ "usdc" \notin LISTS /\ "weth" \notin LISTS
      /\ "tokens" \in LISTS /\ "positions" \in LISTS /\ "ticks" \in LISTS
  BY DEF LISTS
<1>1. ASSUME NEW n, NEW field \in STAGES[shop][n], field \notin LISTS
      PROVE  <<field, {}>> \in StageRequests(n, p)
  BY <1>1 DEF StageRequests, Requests
<1>2. ASSUME NEW n, NEW field \in STAGES[shop][n], field \in LISTS, NEW b \in Batches(Calls(field, p))
      PROVE  <<field, b>> \in StageRequests(n, p)
  BY <1>2 DEF StageRequests, Requests
<1>3. CASE shop = "sniper"
  <2>1. /\ Calls("tokens", p) = 1 .. p.tokenCount
        /\ Calls("positions", p) = DOMAIN p.tokens
        /\ Calls("ticks", p) = 1 .. p.tickCount
    BY <1>3 DEF Calls
  <2>2. /\ "paperUsdc" \in STAGES[shop][1] /\ "tickCount" \in STAGES[shop][1]
        /\ "tokenCount" \in STAGES[shop][1] /\ "tokens" \in STAGES[shop][2]
        /\ "positions" \in STAGES[shop][3] /\ "ticks" \in STAGES[shop][3]
    BY <1>3 DEF STAGES
  <2>3. \A field \in {"paperUsdc", "tickCount", "tokenCount"} : <<field, {}>> \in StageRequests(1, p)
    BY <1>0, <1>1, <2>2
  <2>4. \A b \in Batches(Calls("tokens", p)) : <<"tokens", b>> \in StageRequests(2, p)
    BY <1>0, <1>2, <2>2
  <2>5. \A b \in Batches(Calls("positions", p)) : <<"positions", b>> \in StageRequests(3, p)
    BY <1>0, <1>2, <2>2
  <2>6. \A b \in Batches(Calls("ticks", p)) : <<"ticks", b>> \in StageRequests(3, p)
    BY <1>0, <1>2, <2>2
  <2> QED BY <1>3, <2>1, <2>3, <2>4, <2>5, <2>6
<1>4. CASE shop = "sovereign"
  <2>1. Calls("ticks", p) = {i \in 1 .. p.tickCount : i <= Shown}
    BY <1>4 DEF Calls
  <2>2. /\ "tickCount" \in STAGES[shop][1] /\ "usdc" \in STAGES[shop][2]
        /\ "weth" \in STAGES[shop][2] /\ "ticks" \in STAGES[shop][3]
    BY <1>4 DEF STAGES
  <2>3. /\ <<"tickCount", {}>> \in StageRequests(1, p)
        /\ <<"usdc", {}>> \in StageRequests(2, p) /\ <<"weth", {}>> \in StageRequests(2, p)
    BY <1>0, <1>1, <2>2
  <2>4. \A b \in Batches(Calls("ticks", p)) : <<"ticks", b>> \in StageRequests(3, p)
    BY <1>0, <1>2, <2>2
  <2> QED BY <1>4, <2>1, <2>3, <2>4
<1> QED BY <1>3, <1>4

(* The calls of a stage are those counted before it.                       *)
LEMMA SameRequests ==
  ASSUME shop \in {"sniper", "sovereign"}, NEW p, NEW q, NEW n \in 1 .. 3,
         n = 2 => q.tokenCount = p.tokenCount,
         n = 3 => DOMAIN q.tokens = DOMAIN p.tokens /\ q.tickCount = p.tickCount
  PROVE  StageRequests(n, q) = StageRequests(n, p)
<1>1. \A field \in STAGES[shop][n] : field \in LISTS => Calls(field, q) = Calls(field, p)
  <2>1. \A field \in STAGES[shop][n] : field \in LISTS =>
          (n = 2 /\ field = "tokens") \/ (n = 3 /\ field \in {"positions", "ticks"})
    BY DEF STAGES, LISTS
  <2> QED BY <2>1 DEF Calls
<1>2. \A field \in STAGES[shop][n] : Requests(field, q) = Requests(field, p)
  BY <1>1 DEF Requests
<1> QED BY <1>2 DEF StageRequests

(* A read changes the field it is for.                                     *)
Changed(p, read, r, v, q) ==
  /\ DOMAIN q = DOMAIN Unread /\ q.display = p.display /\ q.stage = p.stage
  /\ q.asked = p.asked \ {r} /\ q.from = p.from
  /\ q.paperUsdc  = IF read = "paperUsdc" THEN v ELSE p.paperUsdc
  /\ q.tickCount  = IF read = "tickCount" THEN v ELSE p.tickCount
  /\ q.tokenCount = IF read = "tokenCount" THEN v ELSE p.tokenCount
  /\ q.tokens     = IF read = "tokens" THEN v ELSE p.tokens
  /\ q.positions  = IF read = "positions" THEN v ELSE p.positions
  /\ q.ticks      = IF read = "ticks" THEN v ELSE p.ticks
  /\ q.usdc       = IF read = "usdc" THEN v ELSE p.usdc
  /\ q.weth       = IF read = "weth" THEN v ELSE p.weth

(* The fields that are read.                                               *)
Figures == {"paperUsdc", "tickCount", "tokenCount", "tokens", "positions", "ticks", "usdc", "weth"}

(* A batch adds its results to a list.                                     *)
Adds(old, ok, new) ==
  /\ DOMAIN new = DOMAIN old \cup ok
  /\ \A i \in DOMAIN old \ ok : new[i] = old[i]

(* One batch of this list is answered, what came of it being the chain's.  *)
BatchRead(p, r, v, ok, q, read, calls) ==
  /\ r[1] = read /\ r \in p.asked /\ Changed(p, read, r, v, q)
  /\ ok \subseteq calls /\ ok \subseteq r[2] /\ Adds(p[read], ok, v)
  /\ q.complete => p.complete /\ ok = r[2]

TokensRead(p, q) ==
  \E r, v, ok : BatchRead(p, r, v, ok, q, "tokens", 1 .. p.tokenCount) /\ \A i \in ok : v[i] = tokens[i]

TicksRead(p, q) ==
  \E r, v, ok : BatchRead(p, r, v, ok, q, "ticks", 1 .. p.tickCount) /\ \A i \in ok : v[i] = ticks[i]

PositionsRead(p, q) ==
  \E r, v, ok : /\ BatchRead(p, r, v, ok, q, "positions", DOMAIN p.tokens) /\ r[2] \in Batches(DOMAIN p.tokens)
                /\ \A i \in ok : v[i] = positions[p.tokens[i]]

LastTrades(p) == {i \in 1 .. p.tickCount : i <= Shown}

TradesRead(p, q) ==
  \E r, v, ok : /\ BatchRead(p, r, v, ok, q, "ticks", LastTrades(p))
                /\ \A i \in ok : v[i] = trades[p.tickCount + 1 - i]

(* What was to come and did not is still to come.                          *)
LEMMA StillWaits ==
  ASSUME NEW p, NEW q, NEW r, q.asked = p.asked \ {r}, NEW field, NEW i, Waits(p, field, i)
  PROVE  Waits(q, field, i) \/ (r[1] = field /\ i \in r[2])
BY DEF Waits

(* The answer of the launch sniper's contract is what the page should      *)
(* show: a single call,                                                    *)
LEMMA SniperFigure ==
  ASSUME LedgerInv, ListInv, NEW p, SniperShows(p, ticks, tokens, paperUsdc, positions),
         NEW r, NEW v, NEW q, Changed(p, r[1], r, v, q), q.complete = p.complete, p.stage = 1, r = <<r[1], {}>>,
         \/ r[1] = "paperUsdc" /\ v = paperUsdc
         \/ r[1] = "tickCount" /\ v = Len(ticks)
         \/ r[1] = "tokenCount" /\ v = Len(tokens)
  PROVE  SniperShows(q, ticks, tokens, paperUsdc, positions)
<1>1. /\ Len(ticks) \in Nat /\ Len(tokens) \in Nat
  BY LenProperties DEF LedgerInv, ListInv
<1>2. /\ q.stage = 1 /\ q.from = p.from /\ q.asked = p.asked \ {r}
      /\ q.tokens = p.tokens /\ q.positions = p.positions /\ q.ticks = p.ticks
      /\ q.paperUsdc  = (IF r[1] = "paperUsdc" THEN v ELSE p.paperUsdc)
      /\ q.tickCount  = (IF r[1] = "tickCount" THEN v ELSE p.tickCount)
      /\ q.tokenCount = (IF r[1] = "tokenCount" THEN v ELSE p.tokenCount)
  BY DEF Changed
<1>3. \A field : Has(q, 1, field) => Has(p, 1, field) \/ r[1] = field
  BY <1>2 DEF Has
<1>4. /\ p.from \in 0 .. Len(ticks)
      /\ Has(p, 1, "tickCount")  => p.tickCount \in p.from .. Len(ticks)
      /\ Has(p, 1, "tokenCount") => p.tokenCount \in 0 .. Len(tokens)
      /\ DOMAIN p.tokens = {} /\ DOMAIN p.positions = {} /\ DOMAIN p.ticks = {}
  BY DEF SniperShows, SniperRows
<1>5. SniperRows(q, ticks, tokens)
  BY <1>1, <1>2, <1>3, <1>4 DEF SniperRows
<1>6. SniperWhole(q)
  BY <1>2 DEF SniperWhole
<1>7. SniperBatches(q, ticks)
  BY <1>2 DEF SniperShows, SniperBatches, OneMoment
<1>8. SniperCurrent(q, ticks, tokens, paperUsdc, positions)
  BY <1>2, <1>3, <1>4 DEF SniperShows, SniperCurrent
<1> QED BY <1>5, <1>6, <1>7, <1>8 DEF SniperShows

(* a batch of tokens,                                                      *)
LEMMA SniperTokens ==
  ASSUME LedgerInv, ListInv, NEW p, SniperShows(p, ticks, tokens, paperUsdc, positions), p.stage = 2,
         NEW q, TokensRead(p, q)
  PROVE  SniperShows(q, ticks, tokens, paperUsdc, positions)
<1> PICK r, v, ok : BatchRead(p, r, v, ok, q, "tokens", 1 .. p.tokenCount) /\ \A i \in ok : v[i] = tokens[i]
  BY DEF TokensRead
<1>0. /\ r[1] = "tokens" /\ Changed(p, r[1], r, v, q) /\ (q.complete => p.complete /\ ok = r[2])
      /\ ok \subseteq 1 .. p.tokenCount /\ Adds(p.tokens, ok, v) /\ \A i \in ok : v[i] = tokens[i]
  BY DEF BatchRead
<1>1. /\ q.stage = 2 /\ q.from = p.from /\ q.asked = p.asked \ {r}
      /\ q.tokens = v /\ q.positions = p.positions /\ q.ticks = p.ticks
      /\ q.paperUsdc = p.paperUsdc /\ q.tickCount = p.tickCount /\ q.tokenCount = p.tokenCount
  BY <1>0 DEF Changed
<1>2. \A field : Has(p, 1, field)
  BY DEF Has
<1>3. /\ Len(ticks) \in Nat /\ p.from \in 0 .. Len(ticks)
      /\ p.tickCount \in p.from .. Len(ticks) /\ p.tokenCount \in 0 .. Len(tokens)
      /\ DOMAIN p.positions = {} /\ DOMAIN p.ticks = {}
      /\ \A i \in DOMAIN p.tokens : i \in 1 .. p.tokenCount /\ p.tokens[i] = tokens[i]
  BY <1>2, LenProperties DEF SniperShows, SniperRows, LedgerInv
<1>4. SniperRows(q, ticks, tokens)
  <2>1. \A i \in DOMAIN v : i \in 1 .. p.tokenCount /\ v[i] = tokens[i]
    BY <1>0, <1>3 DEF Adds
  <2> QED BY <1>1, <1>3, <2>1 DEF SniperRows
<1>5. SniperWhole(q)
  <2> SUFFICES ASSUME q.complete
               PROVE  \A i \in 1 .. q.tokenCount : i \in DOMAIN q.tokens \/ Waits(q, "tokens", i)
    BY <1>1 DEF SniperWhole
  <2>1. \A i \in 1 .. p.tokenCount : i \in DOMAIN p.tokens \/ Waits(p, "tokens", i)
    BY <1>0 DEF SniperShows, SniperWhole
  <2>2. \A i \in 1 .. p.tokenCount : i \in DOMAIN v \/ Waits(q, "tokens", i)
    BY <1>0, <1>1, <2>1, StillWaits DEF Adds
  <2> QED BY <1>1, <2>2
<1>6. SniperBatches(q, ticks)
  <2>1. Len(ticks) \in q.from .. Len(ticks)
    BY <1>1, <1>3
  <2> QED BY <1>0, <1>1, <1>3, <2>1 DEF SniperShows, SniperBatches, OneMoment
<1>7. SniperCurrent(q, ticks, tokens, paperUsdc, positions)
  <2>1. SniperCurrent(p, ticks, tokens, paperUsdc, positions)
    BY DEF SniperShows
  <2> QED BY <1>1, <1>2, <1>3, <2>1 DEF SniperCurrent
<1> QED BY <1>4, <1>5, <1>6, <1>7 DEF SniperShows

(* a batch of ticks,                                                       *)
LEMMA SniperTicks ==
  ASSUME LedgerInv, ListInv, NEW p, SniperShows(p, ticks, tokens, paperUsdc, positions), p.stage = 3,
         NEW q, TicksRead(p, q)
  PROVE  SniperShows(q, ticks, tokens, paperUsdc, positions)
<1> PICK r, v, ok : BatchRead(p, r, v, ok, q, "ticks", 1 .. p.tickCount) /\ \A i \in ok : v[i] = ticks[i]
  BY DEF TicksRead
<1>0. /\ r[1] = "ticks" /\ Changed(p, r[1], r, v, q) /\ (q.complete => p.complete /\ ok = r[2])
      /\ ok \subseteq 1 .. p.tickCount /\ Adds(p.ticks, ok, v) /\ \A i \in ok : v[i] = ticks[i]
  BY DEF BatchRead
<1>1. /\ q.stage = 3 /\ q.from = p.from /\ q.asked = p.asked \ {r}
      /\ q.tokens = p.tokens /\ q.positions = p.positions /\ q.ticks = v
      /\ q.paperUsdc = p.paperUsdc /\ q.tickCount = p.tickCount /\ q.tokenCount = p.tokenCount
  BY <1>0 DEF Changed
<1>2. \A field : Has(p, 1, field) /\ Has(q, 1, field)
  BY <1>1 DEF Has
<1>3. SniperRows(p, ticks, tokens)
  BY DEF SniperShows
<1>4. SniperRows(q, ticks, tokens)
  <2>1. \A i \in DOMAIN v : i \in 1 .. p.tickCount /\ v[i] = ticks[i]
    BY <1>0, <1>3 DEF SniperRows, Adds
  <2> QED BY <1>1, <1>2, <1>3, <2>1 DEF SniperRows
<1>5. SniperWhole(q)
  <2> SUFFICES ASSUME q.complete
               PROVE  /\ \A i \in 1 .. q.tokenCount : i \in DOMAIN q.tokens \/ Waits(q, "tokens", i)
                      /\ \A i \in DOMAIN q.tokens : i \in DOMAIN q.positions \/ Waits(q, "positions", i)
                      /\ \A i \in 1 .. q.tickCount : i \in DOMAIN q.ticks \/ Waits(q, "ticks", i)
    BY <1>1 DEF SniperWhole
  <2>1. /\ \A i \in 1 .. p.tokenCount : i \in DOMAIN p.tokens \/ Waits(p, "tokens", i)
        /\ \A i \in DOMAIN p.tokens : i \in DOMAIN p.positions \/ Waits(p, "positions", i)
        /\ \A i \in 1 .. p.tickCount : i \in DOMAIN p.ticks \/ Waits(p, "ticks", i)
    BY <1>0 DEF SniperShows, SniperWhole
  <2>2. \A i \in 1 .. p.tokenCount : i \in DOMAIN q.tokens \/ Waits(q, "tokens", i)
    BY <1>0, <1>1, <2>1, StillWaits
  <2>3. \A i \in DOMAIN p.tokens : i \in DOMAIN q.positions \/ Waits(q, "positions", i)
    BY <1>0, <1>1, <2>1, StillWaits
  <2>4. \A i \in 1 .. p.tickCount : i \in DOMAIN v \/ Waits(q, "ticks", i)
    BY <1>0, <1>1, <2>1, StillWaits DEF Adds
  <2> QED BY <1>1, <2>2, <2>3, <2>4
<1>6. SniperBatches(q, ticks)
  BY <1>0, <1>1 DEF SniperShows, SniperBatches, OneMoment
<1>7. SniperCurrent(q, ticks, tokens, paperUsdc, positions)
  BY <1>1, <1>2 DEF SniperShows, SniperCurrent
<1> QED BY <1>4, <1>5, <1>6, <1>7 DEF SniperShows

(* a batch of positions.                                                   *)
LEMMA SniperPositions ==
  ASSUME LedgerInv, ListInv, NEW p, SniperShows(p, ticks, tokens, paperUsdc, positions), p.stage = 3,
         \A s \in p.asked : s[1] = "positions" => s[2] \in Batches(DOMAIN p.tokens) /\ s = <<s[1], s[2]>>,
         NEW q, PositionsRead(p, q)
  PROVE  SniperShows(q, ticks, tokens, paperUsdc, positions)
<1> PICK r, v, ok : /\ BatchRead(p, r, v, ok, q, "positions", DOMAIN p.tokens) /\ r[2] \in Batches(DOMAIN p.tokens)
                    /\ \A i \in ok : v[i] = positions[p.tokens[i]]
  BY DEF PositionsRead
<1>0. /\ r[1] = "positions" /\ r \in p.asked /\ r[2] \in Batches(DOMAIN p.tokens)
      /\ Changed(p, r[1], r, v, q) /\ (q.complete => p.complete /\ ok = r[2])
      /\ ok \subseteq r[2] /\ Adds(p.positions, ok, v) /\ \A i \in ok : v[i] = positions[p.tokens[i]]
  BY DEF BatchRead
<1>1. /\ q.stage = 3 /\ q.from = p.from /\ q.asked = p.asked \ {r}
      /\ q.tokens = p.tokens /\ q.positions = v /\ q.ticks = p.ticks
      /\ q.paperUsdc = p.paperUsdc /\ q.tickCount = p.tickCount /\ q.tokenCount = p.tokenCount
  BY <1>0 DEF Changed
<1>2. \A field : Has(p, 1, field) /\ Has(q, 1, field)
  BY <1>1 DEF Has
<1>3. SniperRows(p, ticks, tokens)
  BY DEF SniperShows
<1>4. r[2] \subseteq DOMAIN p.tokens
  BY <1>0, BatchesPart
<1>5. SniperRows(q, ticks, tokens)
  BY <1>0, <1>1, <1>2, <1>3, <1>4 DEF SniperRows, Adds
<1>6. SniperWhole(q)
  <2> SUFFICES ASSUME q.complete
               PROVE  /\ \A i \in 1 .. q.tokenCount : i \in DOMAIN q.tokens \/ Waits(q, "tokens", i)
                      /\ \A i \in DOMAIN q.tokens : i \in DOMAIN q.positions \/ Waits(q, "positions", i)
                      /\ \A i \in 1 .. q.tickCount : i \in DOMAIN q.ticks \/ Waits(q, "ticks", i)
    BY <1>1 DEF SniperWhole
  <2>1. /\ \A i \in 1 .. p.tokenCount : i \in DOMAIN p.tokens \/ Waits(p, "tokens", i)
        /\ \A i \in DOMAIN p.tokens : i \in DOMAIN p.positions \/ Waits(p, "positions", i)
        /\ \A i \in 1 .. p.tickCount : i \in DOMAIN p.ticks \/ Waits(p, "ticks", i)
    BY <1>0 DEF SniperShows, SniperWhole
  <2>2. \A i \in 1 .. p.tokenCount : i \in DOMAIN q.tokens \/ Waits(q, "tokens", i)
    BY <1>0, <1>1, <2>1, StillWaits
  <2>3. \A i \in 1 .. p.tickCount : i \in DOMAIN q.ticks \/ Waits(q, "ticks", i)
    BY <1>0, <1>1, <2>1, StillWaits
  <2>4. \A i \in DOMAIN p.tokens : i \in DOMAIN v \/ Waits(q, "positions", i)
    BY <1>0, <1>1, <2>1, StillWaits DEF Adds
  <2> QED BY <1>1, <2>2, <2>3, <2>4
<1>7. /\ \A s \in p.asked : s[1] = "positions" => s[2] \cap DOMAIN p.positions = {}
      /\ \A batch \in Batches(DOMAIN p.tokens) :
           \E n \in p.from .. Len(ticks) : OneMoment(p, ticks, n, batch)
  BY <1>0 DEF SniperShows, SniperBatches
<1>8. \A s \in q.asked : s[1] = "positions" => s[2] \cap DOMAIN q.positions = {}
  <2> SUFFICES ASSUME NEW s \in q.asked, s[1] = "positions" PROVE s[2] \cap DOMAIN q.positions = {}
    OBVIOUS
  <2>1. s \in p.asked /\ s # r
    BY <1>0, <1>1
  <2>2. s[2] \in Batches(DOMAIN p.tokens) /\ s = <<s[1], s[2]>> /\ r = <<r[1], r[2]>>
    BY <1>0, <2>1
  <2>3. s[2] # r[2]
    BY <1>0, <2>1, <2>2
  <2>4. s[2] \cap r[2] = {}
    BY <1>0, <2>2, <2>3, BatchesPart
  <2> QED BY <1>0, <1>1, <1>7, <2>1, <2>4 DEF Adds
<1>9. \A batch \in Batches(DOMAIN q.tokens) : \E n \in q.from .. Len(ticks) : OneMoment(q, ticks, n, batch)
  <2> SUFFICES ASSUME NEW batch \in Batches(DOMAIN p.tokens)
               PROVE  \E n \in p.from .. Len(ticks) : OneMoment(q, ticks, n, batch)
    BY <1>0, <1>1
  <2>1. CASE batch = r[2]
    <3>1. Len(ticks) \in p.from .. Len(ticks)
      BY <1>3, LenProperties DEF SniperRows, LedgerInv
    <3>2. \A t \in Tokens : /\ positions[t].amount = HeldIn(ticks, Len(ticks), t)
                            /\ positions[t].costBasisUsdc = Usdc(ticks, Len(ticks), "BUY", t)
      BY DEF LedgerInv, Replays
    <3>3. \A i \in DOMAIN p.tokens : p.tokens[i] \in Tokens
      <4>1. tokens \in Seq(Tokens) /\ Len(tokens) \in Nat /\ \A i \in 1 .. Len(tokens) : tokens[i] \in Tokens
        BY LenProperties DEF ListInv
      <4>2. \A i \in DOMAIN p.tokens : i \in 1 .. Len(tokens) /\ p.tokens[i] = tokens[i]
        BY <1>2, <1>3, <4>1 DEF SniperRows
      <4> QED BY <4>1, <4>2
    <3>4. batch \cap DOMAIN v \subseteq ok
      BY <1>0, <1>7, <2>1 DEF Adds
    <3>5. OneMoment(q, ticks, Len(ticks), batch)
      BY <1>0, <1>1, <1>4, <2>1, <3>2, <3>3, <3>4 DEF OneMoment
    <3> QED BY <3>1, <3>5
  <2>2. CASE batch # r[2]
    <3>1. batch \cap ok = {}
      BY <1>0, <2>2, BatchesPart
    <3>2. PICK n \in p.from .. Len(ticks) : OneMoment(p, ticks, n, batch)
      BY <1>0, <1>7
    <3>3. OneMoment(q, ticks, n, batch)
      BY <1>0, <1>1, <3>1, <3>2 DEF OneMoment, Adds
    <3> QED BY <3>3
  <2> QED BY <2>1, <2>2
<1>10. SniperBatches(q, ticks)
  BY <1>8, <1>9 DEF SniperBatches
<1>11. SniperCurrent(q, ticks, tokens, paperUsdc, positions)
  BY <1>0, <1>1, <1>2 DEF SniperShows, SniperCurrent, Adds
<1> QED BY <1>5, <1>6, <1>10, <1>11 DEF SniperShows

(* So is that of the sovereign fund.                                       *)
LEMMA SovereignFigure ==
  ASSUME SovereignInv, NEW p, SovereignShows(p, trades, outside, balances),
         NEW r, NEW v, NEW q, Changed(p, r[1], r, v, q), q.complete = p.complete, r = <<r[1], {}>>,
         \/ r[1] = "tickCount" /\ p.stage = 1 /\ v = Len(trades)
         \/ r[1] = "usdc" /\ p.stage = 2 /\ v = balances.usdc
         \/ r[1] = "weth" /\ p.stage = 2 /\ v = balances.weth
  PROVE  SovereignShows(q, trades, outside, balances)
<1>1. Len(trades) \in Nat /\ outside.moves \in Nat
  BY LenProperties DEF SovereignInv
<1>2. /\ p.from \in 0 .. (Len(trades) + outside.moves)
      /\ Has(p, 1, "tickCount") => p.tickCount \in 0 .. Len(trades)
      /\ DOMAIN p.ticks = {}
      /\ p.from = Len(trades) + outside.moves =>
           /\ Has(p, 1, "tickCount") => p.tickCount = Len(trades)
           /\ Has(p, 2, "usdc") => p.usdc = balances.usdc
           /\ Has(p, 2, "weth") => p.weth = balances.weth
  BY DEF SovereignShows
<1>3. /\ q.stage = p.stage /\ q.from = p.from /\ q.asked = p.asked \ {r} /\ q.ticks = p.ticks
      /\ q.tickCount = (IF r[1] = "tickCount" THEN v ELSE p.tickCount)
      /\ q.usdc = (IF r[1] = "usdc" THEN v ELSE p.usdc)
      /\ q.weth = (IF r[1] = "weth" THEN v ELSE p.weth)
  BY DEF Changed
<1>4. \A n, field : Has(q, n, field) => Has(p, n, field) \/ (n = p.stage /\ r[1] = field)
  BY <1>3 DEF Has
<1>5. /\ Has(q, 1, "tickCount") => q.tickCount \in 0 .. Len(trades)
      /\ q.from = Len(trades) + outside.moves =>
           /\ Has(q, 1, "tickCount") => q.tickCount = Len(trades)
           /\ Has(q, 2, "usdc") => q.usdc = balances.usdc
           /\ Has(q, 2, "weth") => q.weth = balances.weth
  BY <1>1, <1>2, <1>3, <1>4
<1> QED BY <1>1, <1>2, <1>3, <1>5 DEF SovereignShows

LEMMA SovereignTicks ==
  ASSUME SovereignInv, NEW p, SovereignShows(p, trades, outside, balances), p.stage = 3,
         NEW q, TradesRead(p, q)
  PROVE  SovereignShows(q, trades, outside, balances)
<1> PICK r, v, ok : /\ BatchRead(p, r, v, ok, q, "ticks", LastTrades(p))
                    /\ \A i \in ok : v[i] = trades[p.tickCount + 1 - i]
  BY DEF TradesRead
<1>0. /\ r[1] = "ticks" /\ Changed(p, r[1], r, v, q) /\ (q.complete => p.complete /\ ok = r[2])
      /\ ok \subseteq {i \in 1 .. p.tickCount : i <= Shown}
      /\ Adds(p.ticks, ok, v) /\ \A i \in ok : v[i] = trades[p.tickCount + 1 - i]
  BY DEF BatchRead, LastTrades
<1>1. /\ q.stage = 3 /\ q.from = p.from /\ q.asked = p.asked \ {r} /\ q.ticks = v
      /\ q.tickCount = p.tickCount /\ q.usdc = p.usdc /\ q.weth = p.weth
  BY <1>0 DEF Changed
<1>2. \A n \in 1 .. 2 : \A field : Has(p, n, field) /\ Has(q, n, field)
  BY <1>1 DEF Has
<1>3. /\ p.from \in 0 .. (Len(trades) + outside.moves)
      /\ p.tickCount \in 0 .. Len(trades)
      /\ \A i \in DOMAIN p.ticks : i \in 1 .. p.tickCount /\ i <= Shown
                                   /\ p.ticks[i] = trades[p.tickCount + 1 - i]
      /\ p.from = Len(trades) + outside.moves =>
           p.tickCount = Len(trades) /\ p.usdc = balances.usdc /\ p.weth = balances.weth
  BY <1>2 DEF SovereignShows
<1>4. \A i \in DOMAIN v : i \in 1 .. p.tickCount /\ i <= Shown /\ v[i] = trades[p.tickCount + 1 - i]
  BY <1>0, <1>3 DEF Adds
<1>5. ASSUME q.complete
      PROVE  \A i \in 1 .. p.tickCount : i <= Shown => i \in DOMAIN v \/ Waits(q, "ticks", i)
  <2>1. \A i \in {j \in 1 .. p.tickCount : j <= Shown} : i \in DOMAIN p.ticks \/ Waits(p, "ticks", i)
    BY <1>0, <1>5 DEF SovereignShows
  <2>2. \A i \in {j \in 1 .. p.tickCount : j <= Shown} : i \in DOMAIN v \/ Waits(q, "ticks", i)
    BY <1>0, <1>1, <1>5, <2>1, StillWaits DEF Adds
  <2> QED BY <2>2
<1> QED BY <1>1, <1>2, <1>3, <1>4, <1>5 DEF SovereignShows

(* Other fields of the record do not matter.                               *)
SameFigures(p, q) ==
  /\ q.from = p.from /\ q.complete = p.complete
  /\ q.paperUsdc = p.paperUsdc /\ q.tickCount = p.tickCount /\ q.tokenCount = p.tokenCount
  /\ q.tokens = p.tokens /\ q.positions = p.positions /\ q.ticks = p.ticks
  /\ q.usdc = p.usdc /\ q.weth = p.weth

(* The next stage asks for everything that is missing.                     *)
LEMMA SniperNextStage ==
  ASSUME shop = "sniper", NEW p, NEW h, NEW list, NEW paper, NEW holdings,
         SniperShows(p, h, list, paper, holdings), p.stage \in 1 .. 2, p.asked = {},
         NEW q, SameFigures(p, q), q.stage = p.stage + 1, q.asked = StageRequests(q.stage, q)
  PROVE  SniperShows(q, h, list, paper, holdings)
<1>1. \A field : Has(p, 1, field) /\ Has(q, 1, field)
  BY DEF Has
<1>2. DOMAIN p.positions = {} /\ DOMAIN p.ticks = {} /\ SniperRows(p, h, list)
  BY DEF SniperShows, SniperRows
<1>3. SniperRows(q, h, list)
  BY <1>1, <1>2 DEF SniperRows, SameFigures
<1>4. SniperWhole(q)
  <2>1. CASE p.stage = 1
    <3>0. PICK D : D = 1 .. q.tokenCount
      OBVIOUS
    <3>1. \A i \in D : \E b \in Batches(D) : i \in b
      BY BatchesPart
    <3>2. q.asked = StageRequests(2, q)
      BY <2>1
    <3>3. \A b \in Batches(D) : <<"tokens", b>> \in q.asked
      BY <3>0, <3>2, AllAsked
    <3>4. \A i \in 1 .. q.tokenCount : Waits(q, "tokens", i)
      BY <3>0, <3>1, <3>3 DEF Waits
    <3> QED BY <2>1, <3>4 DEF SniperWhole
  <2>2. CASE p.stage = 2
    <3>1. \A i \in DOMAIN q.tokens : \E b \in Batches(DOMAIN q.tokens) : i \in b
      BY BatchesPart
    <3>0. PICK D : D = 1 .. q.tickCount
      OBVIOUS
    <3>2. \A i \in D : \E b \in Batches(D) : i \in b
      BY BatchesPart
    <3>3. /\ \A b \in Batches(DOMAIN q.tokens) : <<"positions", b>> \in q.asked
          /\ \A b \in Batches(1 .. q.tickCount) : <<"ticks", b>> \in q.asked
      BY <2>2, AllAsked
    <3>4. \A i \in DOMAIN q.tokens : Waits(q, "positions", i)
      BY <3>1, <3>3 DEF Waits
    <3>5. \A i \in 1 .. q.tickCount : Waits(q, "ticks", i)
      BY <3>0, <3>2, <3>3 DEF Waits
    <3>6. q.complete => \A i \in 1 .. q.tokenCount : i \in DOMAIN q.tokens
      BY <2>2 DEF SniperShows, SniperWhole, Waits, SameFigures
    <3> QED BY <3>4, <3>5, <3>6 DEF SniperWhole
  <2> QED BY <2>1, <2>2
<1>5. SniperBatches(q, h)
  BY <1>2 DEF SniperShows, SniperBatches, OneMoment, SameFigures
<1>6. SniperCurrent(q, h, list, paper, holdings)
  BY <1>1 DEF SniperShows, SniperCurrent, SameFigures
<1> QED BY <1>3, <1>4, <1>5, <1>6 DEF SniperShows

LEMMA SovereignNextStage ==
  ASSUME shop = "sovereign", NEW p, NEW h, NEW out, NEW held,
         SovereignShows(p, h, out, held), p.stage \in 1 .. 2, p.asked = {},
         NEW q, SameFigures(p, q), q.stage = p.stage + 1, q.asked = StageRequests(q.stage, q)
  PROVE  SovereignShows(q, h, out, held)
<1>1. /\ \A field : Has(p, 1, field) /\ Has(q, 1, field)
      /\ \A field : Has(q, 2, field) => Has(p, 2, field) \/ (q.stage = 2 /\ <<field, {}>> \notin q.asked)
  BY DEF Has
<1>2. q.stage = 2 => <<"usdc", {}>> \in q.asked /\ <<"weth", {}>> \in q.asked
  BY AllAsked
<1>3. /\ Has(q, 2, "usdc") => Has(p, 2, "usdc")
      /\ Has(q, 2, "weth") => Has(p, 2, "weth")
  BY <1>1, <1>2
<1>4. q.stage = 3 => \A i \in 1 .. q.tickCount : i <= Shown => Waits(q, "ticks", i)
  <2> SUFFICES ASSUME q.stage = 3 PROVE \A i \in 1 .. q.tickCount : i <= Shown => Waits(q, "ticks", i)
    OBVIOUS
  <2>1. PICK D : D = {i \in 1 .. q.tickCount : i <= Shown}
    OBVIOUS
  <2>2. \A i \in D : \E b \in Batches(D) : i \in b
    BY BatchesPart
  <2>3. \A b \in Batches(D) : <<"ticks", b>> \in q.asked
    BY <2>1, AllAsked
  <2>4. \A i \in D : Waits(q, "ticks", i)
    BY <2>2, <2>3 DEF Waits
  <2> QED BY <2>1, <2>4
<1>5. DOMAIN p.ticks = {}
  BY DEF SovereignShows
<1> QED BY <1>1, <1>3, <1>4, <1>5 DEF SovereignShows, SameFigures

(* Nothing happened during the visit: the figures are of one moment and,   *)
(* where nothing is missing, add up.                                       *)
LEMMA Undisturbed ==
  ASSUME LedgerInv, ListInv, NEW p, p.stage = 3, p.asked = {}, p.from = Len(ticks),
         SniperShows(p, ticks, tokens, paperUsdc, positions)
  PROVE  /\ p.tickCount \in DOMAIN p.ticks => p.ticks[p.tickCount].paperUsdcAfter = p.paperUsdc
         /\ p.complete => SniperAddsUp(p)
<1>1. \A field : Has(p, 1, field)
  BY DEF Has
<1>2. Len(ticks) \in Nat /\ DOMAIN ticks = 1 .. Len(ticks)
  BY LenProperties DEF LedgerInv
<1>3. /\ p.paperUsdc = paperUsdc /\ p.tokenCount = Len(tokens) /\ p.tickCount = Len(ticks)
      /\ \A i \in DOMAIN p.tokens : i \in 1 .. Len(tokens) /\ p.tokens[i] = tokens[i]
      /\ DOMAIN p.positions \subseteq DOMAIN p.tokens
      /\ \A i \in DOMAIN p.positions : p.positions[i] = positions[p.tokens[i]]
      /\ \A i \in DOMAIN p.ticks : i \in 1 .. Len(ticks) /\ p.ticks[i] = ticks[i]
  BY <1>1, <1>2 DEF SniperShows, SniperRows, SniperCurrent
<1>4. /\ tokens \in Seq(Tokens) /\ positions \in [Tokens -> Holding]
      /\ paperUsdc = StartingUsdc + ListNet(tokens, positions)
      /\ \A i \in DOMAIN ticks : ticks[i].call.token \in Range(tokens) \cup {NoToken}
  BY DEF LedgerInv, ListInv
<1>5. /\ Len(tokens) \in Nat /\ DOMAIN tokens = 1 .. Len(tokens)
      /\ \A i \in 1 .. Len(tokens) : tokens[i] \in Tokens
  BY <1>4, LenProperties
<1>6. ASSUME p.tickCount \in DOMAIN p.ticks PROVE p.ticks[p.tickCount].paperUsdcAfter = p.paperUsdc
  <2>1. Len(ticks) \in 1 .. Len(ticks) /\ p.ticks[p.tickCount] = ticks[Len(ticks)]
    BY <1>3, <1>6
  <2>2. ticks[Len(ticks)].paperUsdcAfter = StartingUsdc + Net(ticks, Len(ticks))
    BY <1>2, <2>1 DEF LedgerInv, PastReplays
  <2>3. paperUsdc = StartingUsdc + Net(ticks, Len(ticks))
    BY DEF LedgerInv, Replays
  <2> QED BY <1>3, <2>1, <2>2, <2>3
<1>7. ASSUME p.complete PROVE SniperAddsUp(p)
  <2>1. /\ \A i \in 1 .. Len(tokens) : i \in DOMAIN p.tokens
        /\ \A i \in DOMAIN p.tokens : i \in DOMAIN p.positions
    BY <1>3, <1>7 DEF SniperShows, SniperWhole, Waits
  <2>2. DOMAIN p.positions = 1 .. Len(tokens) /\ DOMAIN p.tokens = 1 .. Len(tokens)
    BY <1>3, <2>1
  <2>3. IsFiniteSet(DOMAIN p.positions) /\ \A i \in DOMAIN p.positions : p.positions[i] \in Holding
    <3>1. IsFiniteSet(1 .. Len(tokens))
      BY <1>5, FS_Interval
    <3> QED BY <1>3, <1>4, <1>5, <2>2, <3>1
  <2>4. [i \in DOMAIN p.positions |-> p.positions[i].proceedsUsdc - p.positions[i].costBasisUsdc]
          = [i \in 1 .. Len(tokens) |-> NetOf(positions, tokens[i])]
    BY <1>3, <2>2 DEF NetOf
  <2>5. \A i \in DOMAIN p.ticks : p.ticks[i].call.token \in Range(p.tokens) \cup {NoToken}
    <3>1. Range(p.tokens) = Range(tokens)
      BY <1>3, <1>5, <2>2 DEF Range
    <3> QED BY <1>2, <1>3, <1>4, <3>1
  <2> QED BY <1>3, <1>4, <2>3, <2>4, <2>5 DEF SniperAddsUp, ListNet
<1> QED BY <1>6, <1>7

ToldUnchanged == UNCHANGED <<fundVars, sovereignVars, shop>>

(* A page is told what it is told, whoever else looks.                     *)
LEMMA ToldStays ==
  ASSUME NEW x, Told(x), ToldUnchanged, panel' = x, shop \in {"sniper", "sovereign"}
  PROVE  PanelInv'
<1>1. /\ ticks' = ticks /\ tokens' = tokens /\ paperUsdc' = paperUsdc /\ positions' = positions
      /\ trades' = trades /\ outside' = outside /\ balances' = balances /\ shop' = shop
  BY DEF ToldUnchanged, fundVars, sovereignVars
<1>2. StageRequests(panel.stage, panel)' = StageRequests(x.stage, x)
  BY <1>1 DEF StageRequests, Requests, Calls
<1>3. PageShows(panel)' /\ (PageDone(x) => PageDone(panel)')
  BY <1>1 DEF Told, PageShows, PageDone
<1>4. Told(panel)'
  BY <1>1, <1>2, <1>3 DEF Told
<1> QED BY <1>1, <1>4 DEF PanelInv

(* An answer to the page.                                                  *)
LEMMA ReadKeepsPanel ==
  ASSUME LedgerInv, ListInv, SovereignInv, PanelInv, NEW r \in panel.asked,
         Read(r) \/ \E ok \in SUBSET r[2] : ReadBatch(r, ok)
  PROVE  PanelInv'
<1>1. Told(panel) /\ panel.display = "loading" /\ shop \in {"sniper", "sovereign"}
  <2>1. Unread.asked = {}
    BY DEF Unread
  <2> QED BY <2>1 DEF PanelInv, Told
<1>2. /\ DOMAIN panel = DOMAIN Unread /\ panel.stage \in 1 .. 3
      /\ panel.asked \subseteq StageRequests(panel.stage, panel) /\ PageShows(panel)
  BY <1>1 DEF Told
<1>3. PICK n \in 1 .. 3 : n = panel.stage
  BY <1>2
<1>4. \A s \in panel.asked :
        /\ s = <<s[1], s[2]>>
        /\ shop = "sniper" =>
              \/ n = 1 /\ s[1] \in {"paperUsdc", "tickCount", "tokenCount"} /\ s = <<s[1], {}>>
              \/ n = 2 /\ s[1] = "tokens" /\ s[2] \in Batches(1 .. panel.tokenCount)
              \/ n = 3 /\ s[1] = "positions" /\ s[2] \in Batches(DOMAIN panel.tokens)
              \/ n = 3 /\ s[1] = "ticks" /\ s[2] \in Batches(1 .. panel.tickCount)
        /\ shop = "sovereign" =>
              \/ n = 1 /\ s[1] = "tickCount" /\ s = <<s[1], {}>>
              \/ n = 2 /\ s[1] \in {"usdc", "weth"} /\ s = <<s[1], {}>>
              \/ n = 3 /\ s[1] = "ticks" /\ s[2] \in Batches({i \in 1 .. panel.tickCount : i <= Shown})
  <2> TAKE s \in panel.asked
  <2>1. s \in StageRequests(n, panel)
    BY <1>2, <1>3
  <2> QED BY <2>1, StageIs
<1>5. r[1] \in Figures
  BY <1>1, <1>4 DEF Figures
<1>6. PICK q, v :
        /\ panel' = q /\ Changed(panel, r[1], r, v, q)
        /\ \/ r[1] \notin LISTS /\ v = Value(r[1]) /\ q.complete = panel.complete
           \/ /\ r[1] \in LISTS
              /\ \E ok \in SUBSET r[2] :
                   /\ q.complete => panel.complete /\ ok = r[2]
                   /\ Adds(panel[r[1]], ok, v) /\ \A i \in ok : v[i] = Item(r[1], i)
  <2>0. /\ DOMAIN panel = DOMAIN Unread
        /\ DOMAIN panel = {"display", "stage", "asked", "paperUsdc", "tickCount", "tokenCount", "tokens",
                            "positions", "ticks", "usdc", "weth", "complete", "from", "to"}
    BY <1>2 DEF Unread
  <2>1. PICK read \in Figures : read = r[1]
    BY <1>5
  <2>2. CASE Read(r)
    <3>1. PICK v, q : v = Value(read) /\ q = [panel EXCEPT ![read] = v, !.asked = @ \ {r}]
      OBVIOUS
    <3>2. Changed(panel, read, r, v, q) /\ q.complete = panel.complete
      BY <2>0, <2>1, <3>1 DEF Changed, Figures
    <3> QED BY <2>1, <2>2, <3>1, <3>2 DEF Read
  <2>3. CASE \E ok \in SUBSET r[2] : ReadBatch(r, ok)
    <3>1. PICK ok \in SUBSET r[2] : ReadBatch(r, ok)
      BY <2>3
    <3>2. PICK v : v = [i \in DOMAIN panel[read] \cup ok |-> IF i \in ok THEN Item(read, i) ELSE panel[read][i]]
      OBVIOUS
    <3>3. PICK c : c = (panel.complete /\ ok = r[2])
      OBVIOUS
    <3>4. PICK q : q = [panel EXCEPT ![read] = v, !.asked = @ \ {r}, !.complete = c]
      OBVIOUS
    <3>5. Changed(panel, read, r, v, q) /\ q.complete = c
      BY <2>0, <2>1, <3>4 DEF Changed, Figures
    <3>6. panel' = q /\ read \in LISTS
      BY <2>1, <3>1, <3>2, <3>3, <3>4 DEF ReadBatch
    <3>7. Adds(panel[read], ok, v) /\ \A i \in ok : v[i] = Item(read, i)
      BY <3>2 DEF Adds
    <3>8. q.complete => panel.complete /\ ok = r[2]
      BY <3>3, <3>5, Zenon
    <3>9. /\ panel' = q /\ Changed(panel, r[1], r, v, q) /\ r[1] \in LISTS
          /\ ok \in SUBSET r[2] /\ Adds(panel[r[1]], ok, v) /\ \A i \in ok : v[i] = Item(r[1], i)
      BY <2>1, <3>5, <3>6, <3>7
    <3> QED BY <3>8, <3>9, Zenon
  <2> QED BY <2>2, <2>3
<1>7. q.stage = n /\ q.display = "loading" /\ DOMAIN q = DOMAIN Unread /\ q.asked = panel.asked \ {r}
  BY <1>1, <1>3, <1>6 DEF Changed
<1>8. ASSUME NEW D, r[2] \in Batches(D) PROVE r[2] \subseteq D
  BY <1>8, BatchesPart
<1>9. PICK some, all, last : /\ some = 1 .. panel.tokenCount /\ all = 1 .. panel.tickCount
                            /\ last = {i \in 1 .. panel.tickCount : i <= Shown}
  OBVIOUS
<1>10. /\ r[2] \in Batches(some) => r[2] \subseteq some
       /\ r[2] \in Batches(all) => r[2] \subseteq all
       /\ r[2] \in Batches(last) => r[2] \subseteq last
  BY <1>8
<1>11. PageShows(q)
  <2>1. CASE shop = "sniper"
    <3>0. SniperShows(panel, ticks, tokens, paperUsdc, positions)
      BY <1>2, <2>1 DEF PageShows
    <3>1. CASE n = 1
      <4>1. r[1] \in {"paperUsdc", "tickCount", "tokenCount"} /\ r = <<r[1], {}>>
        BY <1>4, <2>1, <3>1
      <4>2. /\ q.complete = panel.complete
            /\ \/ r[1] = "paperUsdc" /\ v = paperUsdc
               \/ r[1] = "tickCount" /\ v = Len(ticks)
               \/ r[1] = "tokenCount" /\ v = Len(tokens)
        BY <1>6, <2>1, <4>1 DEF Value, LISTS
      <4>3. SniperShows(q, ticks, tokens, paperUsdc, positions)
        BY <1>3, <1>6, <3>0, <3>1, <4>1, <4>2, SniperFigure
      <4> QED BY <2>1, <4>3 DEF PageShows
    <3>2. CASE n = 2
      <4>1. r[1] = "tokens" /\ r[2] \subseteq 1 .. panel.tokenCount
        BY <1>4, <1>9, <1>10, <2>1, <3>2
      <4>2. PICK ok \in SUBSET r[2] :
              /\ q.complete => panel.complete /\ ok = r[2]
              /\ Adds(panel.tokens, ok, v) /\ \A i \in ok : v[i] = tokens[i]
        BY <1>6, <4>1 DEF Item, LISTS
      <4>3. BatchRead(panel, r, v, ok, q, "tokens", 1 .. panel.tokenCount)
        BY <1>6, <4>1, <4>2 DEF BatchRead
      <4>4. TokensRead(panel, q)
        BY <4>2, <4>3 DEF TokensRead
      <4>5. SniperShows(q, ticks, tokens, paperUsdc, positions)
        BY <1>3, <3>0, <3>2, <4>4, SniperTokens
      <4> QED BY <2>1, <4>5 DEF PageShows
    <3>3. CASE n = 3 /\ r[1] = "positions"
      <4>1. /\ r[2] \in Batches(DOMAIN panel.tokens)
            /\ \A s \in panel.asked : s[1] = "positions" =>
                 s[2] \in Batches(DOMAIN panel.tokens) /\ s = <<s[1], s[2]>>
        BY <1>4, <2>1, <3>3
      <4>2. PICK ok \in SUBSET r[2] :
              /\ q.complete => panel.complete /\ ok = r[2]
              /\ Adds(panel.positions, ok, v) /\ \A i \in ok : v[i] = positions[panel.tokens[i]]
        BY <1>6, <3>3 DEF Item, LISTS
      <4>3. BatchRead(panel, r, v, ok, q, "positions", DOMAIN panel.tokens)
        BY <1>6, <3>3, <4>1, <4>2, BatchesPart DEF BatchRead
      <4>4. PositionsRead(panel, q)
        BY <4>1, <4>2, <4>3 DEF PositionsRead
      <4>5. SniperShows(q, ticks, tokens, paperUsdc, positions)
        BY <1>3, <3>0, <3>3, <4>1, <4>4, SniperPositions
      <4> QED BY <2>1, <4>5 DEF PageShows
    <3>4. CASE n = 3 /\ r[1] = "ticks"
      <4>1. r[2] \subseteq 1 .. panel.tickCount
        BY <1>4, <1>9, <1>10, <2>1, <3>4
      <4>2. PICK ok \in SUBSET r[2] :
              /\ q.complete => panel.complete /\ ok = r[2]
              /\ Adds(panel.ticks, ok, v) /\ \A i \in ok : v[i] = ticks[i]
        BY <1>6, <2>1, <3>4 DEF Item, LISTS
      <4>3. BatchRead(panel, r, v, ok, q, "ticks", 1 .. panel.tickCount)
        BY <1>6, <3>4, <4>1, <4>2 DEF BatchRead
      <4>4. TicksRead(panel, q)
        BY <4>2, <4>3 DEF TicksRead
      <4>5. SniperShows(q, ticks, tokens, paperUsdc, positions)
        BY <1>3, <3>0, <3>4, <4>4, SniperTicks
      <4> QED BY <2>1, <4>5 DEF PageShows
    <3> QED BY <1>4, <2>1, <3>1, <3>2, <3>3, <3>4
  <2>2. CASE shop = "sovereign"
    <3>0. SovereignShows(panel, trades, outside, balances)
      BY <1>2, <2>2 DEF PageShows
    <3>1. CASE n # 3
      <4>1. /\ r = <<r[1], {}>> /\ r[1] \notin LISTS
            /\ (n = 1 /\ r[1] = "tickCount") \/ (n = 2 /\ r[1] \in {"usdc", "weth"})
        BY <1>4, <2>2, <3>1 DEF LISTS
      <4>2. /\ q.complete = panel.complete
            /\ \/ r[1] = "tickCount" /\ panel.stage = 1 /\ v = Len(trades)
               \/ r[1] = "usdc" /\ panel.stage = 2 /\ v = balances.usdc
               \/ r[1] = "weth" /\ panel.stage = 2 /\ v = balances.weth
        BY <1>3, <1>6, <2>2, <4>1 DEF Value
      <4>3. SovereignShows(q, trades, outside, balances)
        BY <1>6, <3>0, <4>1, <4>2, SovereignFigure
      <4> QED BY <2>2, <4>3 DEF PageShows
    <3>2. CASE n = 3
      <4>1. r[1] = "ticks" /\ r[2] \subseteq {i \in 1 .. panel.tickCount : i <= Shown}
        BY <1>4, <1>9, <1>10, <2>2, <3>2
      <4>2. PICK ok \in SUBSET r[2] :
              /\ q.complete => panel.complete /\ ok = r[2]
              /\ Adds(panel.ticks, ok, v) /\ \A i \in ok : v[i] = trades[panel.tickCount + 1 - i]
        BY <1>6, <2>2, <4>1 DEF Item, LISTS
      <4>3. BatchRead(panel, r, v, ok, q, "ticks", LastTrades(panel))
        BY <1>6, <4>1, <4>2 DEF BatchRead, LastTrades
      <4>4. TradesRead(panel, q)
        BY <4>2, <4>3 DEF TradesRead
      <4>5. SovereignShows(q, trades, outside, balances)
        BY <1>3, <3>0, <3>2, <4>4, SovereignTicks
      <4> QED BY <2>2, <4>5 DEF PageShows
    <3> QED BY <3>1, <3>2
  <2> QED BY <1>1, <2>1, <2>2
<1>12. q.asked \subseteq StageRequests(q.stage, q)
  <2>1. /\ n = 2 => r[1] # "tokenCount"
        /\ n = 3 => r[1] # "tokens" /\ r[1] # "tickCount"
    <3>1. CASE shop = "sniper"
      <4>1. n = 2 => r[1] = "tokens"
        BY <1>4, <3>1
      <4>2. n = 3 => r[1] = "positions" \/ r[1] = "ticks"
        BY <1>4, <3>1
      <4> QED BY <4>1, <4>2
    <3>2. CASE shop = "sovereign"
      <4>1. \/ n = 1
            \/ n = 2 /\ r[1] \in {"usdc", "weth"}
            \/ n = 3 /\ r[1] = "ticks"
        BY <1>4, <3>2
      <4> QED BY <4>1
    <3> QED BY <1>1, <3>1, <3>2
  <2>2. /\ n = 2 => q.tokenCount = panel.tokenCount
        /\ n = 3 => DOMAIN q.tokens = DOMAIN panel.tokens /\ q.tickCount = panel.tickCount
    BY <1>6, <2>1 DEF Changed
  <2>3. StageRequests(n, q) = StageRequests(n, panel)
    BY <1>1, <2>2, SameRequests
  <2> QED BY <1>2, <1>3, <1>7, <2>3
<1>13. Told(q)
  BY <1>7, <1>11, <1>12 DEF Told
<1>14. ToldUnchanged
  BY DEF Read, ReadBatch, ToldUnchanged
<1> QED BY <1>1, <1>6, <1>13, <1>14, ToldStays

(* The next stage is asked, or the page is shown.                          *)
LEMMA GoOnKeepsPanel ==
  ASSUME LedgerInv, ListInv, SovereignInv, PanelInv, GoOn PROVE PanelInv'
<1>1. Told(panel) /\ panel.display = "loading" /\ panel.asked = {} /\ shop \in {"sniper", "sovereign"}
  <2>1. Unread.stage = 0
    BY DEF Unread
  <2> QED BY <2>1 DEF PanelInv, GoOn
<1>2. DOMAIN panel = DOMAIN Unread /\ panel.stage \in 1 .. 3 /\ PageShows(panel)
  BY <1>1 DEF Told
<1>3. Len(STAGES[shop]) = 3
  BY <1>1 DEF STAGES
<1>4. DOMAIN panel = {"display", "stage", "asked", "paperUsdc", "tickCount", "tokenCount", "tokens",
                      "positions", "ticks", "usdc", "weth", "complete", "from", "to"}
  BY <1>2 DEF Unread
<1>5. ToldUnchanged
  BY DEF GoOn, ToldUnchanged
<1>6. PICK x : panel' = x
  OBVIOUS
<1>7. CASE panel.stage < 3
  <2>1. x = [panel EXCEPT !.stage = @ + 1, !.asked = StageRequests(panel.stage + 1, panel)]
    BY <1>3, <1>6, <1>7 DEF GoOn
  <2>2. /\ SameFigures(panel, x) /\ DOMAIN x = DOMAIN Unread /\ x.display = "loading"
        /\ x.stage = panel.stage + 1 /\ x.asked = StageRequests(panel.stage + 1, panel)
    BY <1>1, <1>2, <1>4, <2>1 DEF SameFigures
  <2>3. panel.stage \in 1 .. 2 /\ x.stage \in 1 .. 3
    BY <1>2, <1>7, <2>2
  <2>4. x.tokenCount = panel.tokenCount /\ x.tokens = panel.tokens /\ x.tickCount = panel.tickCount
    BY <2>2 DEF SameFigures
  <2>5. StageRequests(x.stage, x) = StageRequests(x.stage, panel)
    BY <1>1, <2>3, <2>4, SameRequests
  <2>6. PageShows(x)
    <3>1. CASE shop = "sniper"
      <4>1. SniperShows(panel, ticks, tokens, paperUsdc, positions)
        BY <1>2, <3>1 DEF PageShows
      <4>2. SniperShows(x, ticks, tokens, paperUsdc, positions)
        BY <1>1, <2>2, <2>3, <2>5, <3>1, <4>1, SniperNextStage
      <4> QED BY <3>1, <4>2 DEF PageShows
    <3>2. CASE shop = "sovereign"
      <4>1. SovereignShows(panel, trades, outside, balances)
        BY <1>2, <3>2 DEF PageShows
      <4>2. SovereignShows(x, trades, outside, balances)
        BY <1>1, <2>2, <2>3, <2>5, <3>2, <4>1, SovereignNextStage
      <4> QED BY <3>2, <4>2 DEF PageShows
    <3> QED BY <1>1, <3>1, <3>2
  <2>7. Told(x)
    BY <2>2, <2>3, <2>5, <2>6 DEF Told
  <2> QED BY <1>1, <1>5, <1>6, <2>7, ToldStays
<1>8. CASE panel.stage = 3
  <2>1. x = [panel EXCEPT !.display = "figures", !.to = Events]
    BY <1>3, <1>6, <1>8 DEF GoOn
  <2>2. /\ SameFigures(panel, x) /\ DOMAIN x = DOMAIN Unread /\ x.display = "figures"
        /\ x.stage = 3 /\ x.asked = {} /\ x.to = Events
    BY <1>1, <1>2, <1>4, <1>8, <2>1 DEF SameFigures
  <2>3. \A n, field : Has(x, n, field) <=> Has(panel, n, field)
    BY <1>1, <1>8, <2>2 DEF Has
  <2>4. \A n \in 1 .. 2 : \A field : Has(x, n, field)
    BY <2>2 DEF Has
  <2>5. \A field, i : ~Waits(panel, field, i) /\ ~Waits(x, field, i)
    BY <1>1, <2>2 DEF Waits
  <2>6. PageShows(x) /\ PageDone(x)
    <3>1. CASE shop = "sniper"
      <4>1. SniperShows(panel, ticks, tokens, paperUsdc, positions)
        BY <1>2, <3>1 DEF PageShows
      <4>2. /\ SniperRows(x, ticks, tokens) /\ SniperWhole(x)
            /\ SniperCurrent(x, ticks, tokens, paperUsdc, positions)
        BY <1>8, <2>2, <2>3, <2>5, <4>1
           DEF SniperShows, SniperRows, SniperWhole, SniperCurrent, SameFigures
      <4>3. SniperBatches(x, ticks)
        BY <2>2, <4>1 DEF SniperShows, SniperBatches, OneMoment, SameFigures
      <4>4. SniperShows(x, ticks, tokens, paperUsdc, positions)
        BY <4>2, <4>3 DEF SniperShows
      <4>5. x.to = Len(ticks) /\ Len(ticks) \in Nat
        BY <2>2, <3>1, LenProperties DEF Events, LedgerInv
      <4>6. x.from \in 0 .. Len(ticks) /\ x.tickCount \in x.from .. Len(ticks)
        BY <2>4, <4>2 DEF SniperRows
      <4>7. x.from = x.to =>
              /\ x.tickCount \in DOMAIN x.ticks => x.ticks[x.tickCount].paperUsdcAfter = x.paperUsdc
              /\ x.complete => SniperAddsUp(x)
        BY <2>2, <4>4, <4>5, Undisturbed
      <4>8. SniperDone(x, ticks)
        BY <4>3, <4>5, <4>6, <4>7 DEF SniperDone, SniperBatches
      <4> QED BY <3>1, <4>4, <4>8 DEF PageShows, PageDone
    <3>2. CASE shop = "sovereign"
      <4>1. SovereignShows(panel, trades, outside, balances)
        BY <1>2, <3>2 DEF PageShows
      <4>2. SovereignShows(x, trades, outside, balances)
        BY <1>8, <2>2, <2>3, <2>5, <4>1 DEF SovereignShows, SameFigures
      <4>3. x.to = Len(trades) + outside.moves /\ Len(trades) \in Nat /\ outside.moves \in Nat
        BY <2>2, <3>2, LenProperties DEF Events, SovereignInv
      <4>4. x.from \in 0 .. (Len(trades) + outside.moves)
        BY <4>2 DEF SovereignShows
      <4> QED BY <3>2, <4>2, <4>3, <4>4 DEF PageShows, PageDone, SovereignDone
    <3> QED BY <1>1, <3>1, <3>2
  <2>7. Told(x)
    BY <2>2, <2>6 DEF Told
  <2> QED BY <1>1, <1>5, <1>6, <2>7, ToldStays
<1> QED BY <1>2, <1>7, <1>8

(* The agent goes on: the page keeps what it was told.                     *)
LEMMA SniperGoesOn ==
  ASSUME NEW S, NEW h \in Seq(S), NEW R, NEW k \in Seq(R), Len(k) = Len(h) + 1,
         \A i \in 1 .. Len(h) : k[i] = h[i],
         NEW list, NEW longer, Len(list) \in Nat, Len(longer) \in Nat, Len(longer) >= Len(list),
         \A i \in 1 .. Len(list) : longer[i] = list[i],
         NEW paper, NEW holdings, NEW paper2, NEW holdings2, NEW p, p.stage \in 1 .. 3
  PROVE  /\ SniperShows(p, h, list, paper, holdings) => SniperShows(p, k, longer, paper2, holdings2)
         /\ SniperDone(p, h) /\ p.from \in Nat => SniperDone(p, k)
<1>1. Len(h) \in Nat /\ 0 .. Len(h) \subseteq 0 .. Len(k) /\ 0 .. Len(list) \subseteq 0 .. Len(longer)
  BY LenProperties
<1>2. \A n \in 0 .. Len(h) : \A batch : OneMoment(p, h, n, batch) => OneMoment(p, k, n, batch)
  <2> TAKE n \in 0 .. Len(h)
  <2>1. n \in Nat /\ \A i \in 1 .. n : k[i].call = h[i].call
    <3>1. n \in Nat /\ \A i \in 1 .. n : i \in 1 .. Len(h)
      BY <1>1
    <3> QED BY <3>1
  <2>2. \A t : HeldIn(k, n, t) = HeldIn(h, n, t)
    BY <2>1, SameHistory
  <2>3. \A action, token : /\ Usdc(k, n, action, token) = Usdc(h, n, action, token)
                           /\ Units(k, n, action, token) = Units(h, n, action, token)
    BY <2>1, SameHistory
  <2> QED BY <2>2, <2>3 DEF OneMoment
<1>3. ASSUME SniperShows(p, h, list, paper, holdings) PROVE SniperShows(p, k, longer, paper2, holdings2)
  <2>1. SniperRows(p, h, list) /\ SniperWhole(p) /\ SniperBatches(p, h)
    BY <1>3 DEF SniperShows
  <2>2. p.from \in 0 .. Len(k) /\ p.from # Len(k) /\ p.from .. Len(h) \subseteq p.from .. Len(k)
        /\ p.from .. Len(h) \subseteq 0 .. Len(h)
    BY <1>1, <2>1 DEF SniperRows
  <2>3. SniperBatches(p, k)
    BY <1>2, <2>1, <2>2 DEF SniperBatches
  <2>4. ASSUME NEW i \in DOMAIN p.tokens PROVE p.tokens[i] = longer[i]
    <3>1. p.stage # 1 /\ i \in 1 .. p.tokenCount /\ p.tokens[i] = list[i]
      BY <2>1, <2>4 DEF SniperRows
    <3>2. p.tokenCount \in 0 .. Len(list)
      BY <2>1, <3>1 DEF SniperRows, Has
    <3>3. i \in 1 .. Len(list)
      BY <3>1, <3>2
    <3> QED BY <3>1, <3>3
  <2>5. ASSUME NEW i \in DOMAIN p.ticks PROVE p.ticks[i] = k[i]
    <3>1. p.stage = 3 /\ i \in 1 .. p.tickCount /\ p.ticks[i] = h[i]
      BY <2>1, <2>5 DEF SniperRows
    <3>2. p.tickCount \in p.from .. Len(h) /\ p.from \in 0 .. Len(h)
      BY <2>1, <3>1 DEF SniperRows, Has
    <3>3. i \in 1 .. Len(h)
      BY <1>1, <3>1, <3>2
    <3> QED BY <3>1, <3>3
  <2>6. SniperRows(p, k, longer)
    BY <1>1, <2>1, <2>2, <2>4, <2>5 DEF SniperRows
  <2> QED BY <2>1, <2>2, <2>3, <2>6 DEF SniperShows, SniperCurrent
<1>4. ASSUME SniperDone(p, h), p.from \in Nat PROVE SniperDone(p, k)
  <2>1. p.to \in p.from .. Len(k) /\ p.from .. p.to \subseteq 0 .. Len(h)
    BY <1>1, <1>4 DEF SniperDone
  <2> QED BY <1>2, <1>4, <2>1 DEF SniperDone
<1> QED BY <1>3, <1>4

LEMMA SovereignGoesOn ==
  ASSUME NEW h, NEW k, Len(h) \in Nat, Len(k) \in Nat, Len(k) >= Len(h),
         \A i \in 1 .. Len(h) : k[i] = h[i],
         NEW out, NEW later, out.moves \in Nat, later.moves \in Nat,
         Len(k) + later.moves > Len(h) + out.moves,
         NEW held, NEW held2, NEW p, p.stage \in 1 .. 3
  PROVE  /\ SovereignShows(p, h, out, held) => SovereignShows(p, k, later, held2)
         /\ SovereignDone(p, h, out) /\ p.from \in Nat => SovereignDone(p, k, later)
<1>1. ASSUME SovereignShows(p, h, out, held) PROVE SovereignShows(p, k, later, held2)
  <2>1. /\ p.from \in 0 .. (Len(h) + out.moves)
        /\ Has(p, 1, "tickCount") => p.tickCount \in 0 .. Len(h)
        /\ \A i \in DOMAIN p.ticks : i \in 1 .. p.tickCount /\ i <= Shown /\ p.ticks[i] = h[p.tickCount + 1 - i]
        /\ p.stage # 3 => DOMAIN p.ticks = {}
        /\ p.complete /\ p.stage = 3 =>
             \A i \in 1 .. p.tickCount : i <= Shown => i \in DOMAIN p.ticks \/ Waits(p, "ticks", i)
    BY <1>1 DEF SovereignShows
  <2>2. /\ p.from \in 0 .. (Len(k) + later.moves) /\ p.from # Len(k) + later.moves
        /\ Has(p, 1, "tickCount") => p.tickCount \in 0 .. Len(k)
    BY <2>1
  <2>3. ASSUME NEW i \in DOMAIN p.ticks PROVE p.ticks[i] = k[p.tickCount + 1 - i]
    <3>1. p.tickCount \in 0 .. Len(h) /\ i \in 1 .. p.tickCount
      BY <2>1, <2>3 DEF Has
    <3>2. p.tickCount + 1 - i \in 1 .. Len(h)
      BY <3>1
    <3> QED BY <2>1, <3>2
  <2> QED BY <2>1, <2>2, <2>3 DEF SovereignShows
<1>2. ASSUME SovereignDone(p, h, out), p.from \in Nat PROVE SovereignDone(p, k, later)
  BY <1>2 DEF SovereignDone
<1> QED BY <1>1, <1>2

(* The histories only grow.                                                *)
LEMMA TickGrows ==
  ASSUME LedgerInv, ListInv, FundNext
  PROVE  /\ \E S : ticks' \in Seq(S)
         /\ Len(ticks') = Len(ticks) + 1 /\ \A i \in 1 .. Len(ticks) : ticks'[i] = ticks[i]
         /\ Len(tokens) \in Nat /\ Len(tokens') \in Nat /\ Len(tokens') >= Len(tokens)
         /\ \A i \in 1 .. Len(tokens) : tokens'[i] = tokens[i]
<1>1. PICK call \in [action : {"HOLD", "PASS", "BUY", "SELL"}, token : Tokens \cup {NoToken},
                     amountToken : Amounts, amountUsdc : Amounts, reason : Reasons] : Tick(call)
  BY DEF FundNext
<1>2. PICK S : ticks \in Seq(S)
  BY DEF LedgerInv
<1> DEFINE x == [call |-> call, paperUsdcAfter |-> paperUsdc']
<1>3. ticks \in Seq(S \cup {x}) /\ x \in S \cup {x}
  BY <1>2, SeqMonotonic
<1>4. ticks' = Append(ticks, x)
  BY <1>1 DEF Tick
<1>5. /\ ticks' \in Seq(S \cup {x}) /\ Len(ticks') = Len(ticks) + 1
      /\ \A i \in 1 .. Len(ticks) : ticks'[i] = ticks[i]
  <2> HIDE DEF x
  <2> QED BY <1>3, <1>4, AppendProperties
<1>6. tokens \in Seq(Tokens) /\ Len(tokens) \in Nat
  BY LenProperties DEF ListInv
<1>7. tokens' = tokens \/ tokens' = Append(tokens, call.token)
  BY <1>1 DEF Tick, Hold, Pass, Buy, Sell, Touch
<1>8. /\ Len(tokens') \in Nat /\ Len(tokens') >= Len(tokens)
      /\ \A i \in 1 .. Len(tokens) : tokens'[i] = tokens[i]
  <2>1. CASE tokens' = tokens
    BY <1>6, <2>1
  <2>2. CASE tokens' = Append(tokens, call.token)
    <3>1. tokens \in Seq(Tokens \cup {call.token}) /\ call.token \in Tokens \cup {call.token}
      BY <1>6, SeqMonotonic
    <3>2. Len(tokens') = Len(tokens) + 1 /\ \A i \in 1 .. Len(tokens) : tokens'[i] = tokens[i]
      <4> PICK t : t = call.token
        OBVIOUS
      <4> QED BY <2>2, <3>1, AppendProperties
    <3> QED BY <1>6, <3>2
  <2> QED BY <1>7, <2>1, <2>2
<1> QED BY <1>5, <1>6, <1>8

LEMMA TradesGrow ==
  ASSUME SovereignInv, SovereignNext
  PROVE  /\ Len(trades) \in Nat /\ Len(trades') \in Nat /\ Len(trades') >= Len(trades)
         /\ \A i \in 1 .. Len(trades) : trades'[i] = trades[i]
         /\ outside.moves \in Nat /\ outside'.moves \in Nat
         /\ Len(trades') + outside'.moves > Len(trades) + outside.moves
<1>1. PICK S : trades \in Seq(S)
  BY DEF SovereignInv
<1>2. Len(trades) \in Nat /\ outside \in [usdc : Int, weth : Int, moves : Nat]
  BY <1>1, LenProperties DEF SovereignInv
<1>3. CASE SovereignTick
  <2>1. PICK x : trades' = Append(trades, x) /\ outside' = outside
    BY <1>3 DEF SovereignTick, Record
  <2>2. trades \in Seq(S \cup {x}) /\ x \in S \cup {x}
    BY <1>1, SeqMonotonic
  <2>3. Len(trades') = Len(trades) + 1 /\ \A i \in 1 .. Len(trades) : trades'[i] = trades[i]
    BY <2>1, <2>2, AppendProperties
  <2> QED BY <1>2, <2>1, <2>3
<1>4. CASE Withdraw \/ Receive
  <2>1. trades' = trades /\ outside'.moves = outside.moves + 1
    <3>1. PICK token \in {"usdc", "weth"} :
            \E n : outside' = [outside EXCEPT ![token] = n, !.moves = @ + 1]
      BY <1>4 DEF Withdraw, Receive
    <3>2. PICK n : outside' = [outside EXCEPT ![token] = n, !.moves = @ + 1]
      BY <3>1
    <3>3. DOMAIN outside = {"usdc", "weth", "moves"}
      BY <1>2
    <3>4. outside'.moves = outside.moves + 1
      BY <3>2, <3>3
    <3> QED BY <1>4, <3>4 DEF Withdraw, Receive
  <2> QED BY <1>2, <2>1
<1> QED BY <1>3, <1>4 DEF SovereignNext

(* The agent, the owner or anybody who pays in, during a visit.            *)
LEMMA ActKeepsPanel ==
  ASSUME LedgerInv, ListInv, SovereignInv, PanelInv, Act PROVE PanelInv'
<1>1. shop' = shop /\ panel' = panel /\ shop \in {"sniper", "sovereign"}
  BY DEF Act, PanelInv
<1>2. ASSUME Told(panel) PROVE Told(panel)'
  <2>1. panel.stage \in 1 .. 3 /\ PageShows(panel)
    BY <1>2 DEF Told
  <2>2. /\ PageShows(panel)'
        /\ PageDone(panel) => PageDone(panel)'
    <3>1. CASE shop = "sniper"
      <4>1. SniperShows(panel, ticks, tokens, paperUsdc, positions) /\ panel.from \in Nat
        <5>1. SniperShows(panel, ticks, tokens, paperUsdc, positions)
          BY <2>1, <3>1 DEF PageShows
        <5> QED BY <5>1, LenProperties DEF SniperShows, SniperRows, LedgerInv
      <4>2. FundNext
        BY <3>1 DEF Act
      <4>3. PICK S, R : ticks \in Seq(S) /\ ticks' \in Seq(R)
        BY <4>2, TickGrows DEF LedgerInv
      <4>4. PICK k, longer, paper, holdings :
              k = ticks' /\ longer = tokens' /\ paper = paperUsdc' /\ holdings = positions'
        OBVIOUS
      <4>5. /\ Len(k) = Len(ticks) + 1 /\ \A i \in 1 .. Len(ticks) : k[i] = ticks[i]
            /\ Len(tokens) \in Nat /\ Len(longer) \in Nat /\ Len(longer) >= Len(tokens)
            /\ \A i \in 1 .. Len(tokens) : longer[i] = tokens[i]
        BY <4>2, <4>4, TickGrows
      <4>6. /\ SniperShows(panel, k, longer, paper, holdings)
            /\ SniperDone(panel, ticks) => SniperDone(panel, k)
        BY <2>1, <4>1, <4>3, <4>4, <4>5, SniperGoesOn
      <4> QED BY <1>1, <3>1, <4>4, <4>6 DEF PageShows, PageDone
    <3>2. CASE shop = "sovereign"
      <4>1. SovereignShows(panel, trades, outside, balances) /\ panel.from \in Nat
        <5>1. SovereignShows(panel, trades, outside, balances)
          BY <2>1, <3>2 DEF PageShows
        <5> QED BY <5>1 DEF SovereignShows
      <4>2. SovereignNext
        BY <3>2 DEF Act
      <4>3. PICK k, later, held : k = trades' /\ later = outside' /\ held = balances'
        OBVIOUS
      <4>4. /\ Len(trades) \in Nat /\ Len(k) \in Nat /\ Len(k) >= Len(trades)
            /\ \A i \in 1 .. Len(trades) : k[i] = trades[i]
            /\ outside.moves \in Nat /\ later.moves \in Nat
            /\ Len(k) + later.moves > Len(trades) + outside.moves
        BY <4>2, <4>3, TradesGrow
      <4>5. /\ SovereignShows(panel, k, later, held)
            /\ SovereignDone(panel, trades, outside) => SovereignDone(panel, k, later)
        BY <2>1, <4>1, <4>4, SovereignGoesOn
      <4> QED BY <1>1, <3>2, <4>3, <4>5 DEF PageShows, PageDone
    <3> QED BY <1>1, <3>1, <3>2
  <2>3. StageRequests(panel.stage, panel)' = StageRequests(panel.stage, panel)
    BY <1>1 DEF StageRequests, Requests, Calls
  <2> QED BY <1>1, <1>2, <2>2, <2>3 DEF Told
<1>3. panel = Unread => panel' = Unread
  BY <1>1
<1>4. (panel = Unread)' \/ (panel.display = "error" /\ panel.asked = {})' \/ Told(panel)'
  BY <1>1, <1>2 DEF PanelInv
<1> QED BY <1>1, <1>4 DEF PanelInv

(* A visit begins with nothing told.                                       *)
LEMMA VisitStartsPanel ==
  ASSUME LedgerInv, SovereignInv, PanelInv, Visit PROVE PanelInv'
<1>1. shop \in {"sniper", "sovereign"} /\ ToldUnchanged
  BY DEF PanelInv, Visit, ToldUnchanged
<1>2. PICK x : panel' = x
  OBVIOUS
<1>3. x = [Unread EXCEPT !.stage = 1, !.asked = StageRequests(1, Unread), !.from = Events]
  BY <1>2 DEF Visit
<1>4. /\ DOMAIN x = DOMAIN Unread /\ x.display = "loading" /\ x.stage = 1
      /\ x.asked = StageRequests(1, Unread) /\ x.from = Events
      /\ DOMAIN x.tokens = {} /\ DOMAIN x.positions = {} /\ DOMAIN x.ticks = {}
  BY <1>3 DEF Unread
<1>5. Len(ticks) \in Nat /\ Len(trades) \in Nat /\ outside.moves \in Nat
  BY LenProperties DEF LedgerInv, SovereignInv
<1>6. x.asked = StageRequests(1, x)
  BY <1>1, <1>4, SameRequests
<1>7. PageShows(x)
  <2>1. CASE shop = "sniper"
    <3>1. x.from \in 0 .. Len(ticks)
      BY <1>4, <1>5, <2>1 DEF Events
    <3>2. \A field \in {"paperUsdc", "tickCount", "tokenCount"} : <<field, {}>> \in x.asked
      BY <1>6, <2>1, AllAsked
    <3>3. ~Has(x, 1, "paperUsdc") /\ ~Has(x, 1, "tickCount") /\ ~Has(x, 1, "tokenCount")
      BY <1>4, <3>2 DEF Has
    <3>4. \A batch \in Batches(DOMAIN x.tokens) :
            Len(ticks) \in x.from .. Len(ticks) /\ OneMoment(x, ticks, Len(ticks), batch)
      BY <1>4, <1>5, <3>1 DEF OneMoment
    <3>5. SniperRows(x, ticks, tokens) /\ SniperWhole(x)
      BY <1>4, <3>1, <3>3 DEF SniperRows, SniperWhole
    <3>6. SniperBatches(x, ticks)
      BY <1>4, <3>4 DEF SniperBatches
    <3>7. SniperCurrent(x, ticks, tokens, paperUsdc, positions)
      BY <1>4, <3>3 DEF SniperCurrent
    <3> QED BY <2>1, <3>5, <3>6, <3>7 DEF PageShows, SniperShows
  <2>2. CASE shop = "sovereign"
    <3>1. x.from \in 0 .. (Len(trades) + outside.moves)
      BY <1>4, <1>5, <2>2 DEF Events
    <3>2. <<"tickCount", {}>> \in x.asked
      BY <1>6, <2>2, AllAsked
    <3>3. ~Has(x, 1, "tickCount") /\ ~Has(x, 2, "usdc") /\ ~Has(x, 2, "weth")
      BY <1>4, <3>2 DEF Has
    <3> QED BY <1>4, <2>2, <3>1, <3>3 DEF PageShows, SovereignShows
  <2> QED BY <1>1, <2>1, <2>2
<1>8. Told(x)
  BY <1>4, <1>6, <1>7 DEF Told
<1> QED BY <1>1, <1>2, <1>8, ToldStays

(* Every step of the composition.                                          *)
LEMMA PanelKept ==
  LedgerInv /\ ListInv /\ SovereignInv /\ PanelInv /\ [PanelNext]_panelVars => PanelInv'
<1> SUFFICES ASSUME LedgerInv, ListInv, SovereignInv, PanelInv, [PanelNext]_panelVars PROVE PanelInv'
  OBVIOUS
<1>1. ASSUME NEW r \in panel.asked, ReadFails(r) PROVE PanelInv'
  BY <1>1 DEF ReadFails, PanelInv, Unread
<1>2. CASE UNCHANGED panelVars
  <2>1. /\ panel' = panel /\ ToldUnchanged /\ shop \in {"sniper", "sovereign"}
    BY <1>2 DEF panelVars, ToldUnchanged, fundVars, sovereignVars, PanelInv
  <2>2. CASE Told(panel)
    BY <2>1, <2>2, ToldStays
  <2>3. CASE panel = Unread \/ (panel.display = "error" /\ panel.asked = {})
    BY <2>1, <2>3 DEF PanelInv, ToldUnchanged
  <2> QED BY <2>2, <2>3 DEF PanelInv
<1>3. ASSUME NEW r \in panel.asked, Read(r) \/ \E ok \in SUBSET r[2] : ReadBatch(r, ok) PROVE PanelInv'
  BY <1>3, ReadKeepsPanel
<1> QED BY <1>1, <1>2, <1>3, ActKeepsPanel, VisitStartsPanel, GoOnKeepsPanel DEF PanelNext

----------------------------------------------------------------------------
(* The page's own sums.                                                    *)
LEMMA ProceedsIsFold ==
  ASSUME IsFiniteSet(DOMAIN panel.positions), \A i \in DOMAIN panel.positions : panel.positions[i] \in Holding
  PROVE  sumProceeds = Total([i \in DOMAIN panel.positions |-> panel.positions[i].proceedsUsdc])
<1> DEFINE D == DOMAIN panel.positions
           f == [i \in D |-> panel.positions[i].proceedsUsdc]
           Fold(g) == g = [s \in SUBSET D |-> IF s = {} THEN 0
                             ELSE panel.positions[OneOf(s)].proceedsUsdc + g[s \ {OneOf(s)}]]
           it == CHOOSE g : Fold(g)
<1>1. f \in [D -> Int] /\ IsFiniteSet(D)
  BY DEF Holding
<1>2. sumProceeds = it[D]
  BY DEF sumProceeds, MapThenSumSet, MapThenFoldSet, OneOf
<1>3. ASSUME NEW g PROVE Fold(g) <=> IsSum(f, g)
  <2>1. \A s \in SUBSET D : s # {} => f[OneOf(s)] = panel.positions[OneOf(s)].proceedsUsdc
    BY DEF OneOf
  <2>2. \A s \in SUBSET D : (IF s = {} THEN 0 ELSE f[OneOf(s)] + g[s \ {OneOf(s)}])
           = (IF s = {} THEN 0 ELSE panel.positions[OneOf(s)].proceedsUsdc + g[s \ {OneOf(s)}])
    BY <2>1
  <2>3. DOMAIN f = D
    OBVIOUS
  <2> HIDE DEF f, D
  <2> QED BY <2>2, <2>3 DEF IsSum
<1>4. Fold(it)
  <2>1. \E g : Fold(g)
    <3> HIDE DEF f, Fold, D
    <3> QED BY <1>1, <1>3, SumExists
  <2> HIDE DEF Fold
  <2> QED BY <2>1
<1>5. Total(f) = it[D]
  <2> HIDE DEF f, Fold, D, it
  <2> QED BY <1>1, <1>3, <1>4, TotalIsSum
<1> QED BY <1>2, <1>5

LEMMA CostIsFold ==
  ASSUME NEW D, IsFiniteSet(D), \A i \in D : panel.positions[i] \in Holding
  PROVE  sumCostBasis(D) = Total([i \in D |-> panel.positions[i].costBasisUsdc])
<1> DEFINE f == [i \in D |-> panel.positions[i].costBasisUsdc]
           Fold(g) == g = [s \in SUBSET D |-> IF s = {} THEN 0
                             ELSE panel.positions[OneOf(s)].costBasisUsdc + g[s \ {OneOf(s)}]]
           it == CHOOSE g : Fold(g)
<1>1. f \in [D -> Int] /\ IsFiniteSet(D)
  BY DEF Holding
<1>2. sumCostBasis(D) = it[D]
  BY DEF sumCostBasis, MapThenSumSet, MapThenFoldSet, OneOf
<1>3. ASSUME NEW g PROVE Fold(g) <=> IsSum(f, g)
  <2>1. \A s \in SUBSET D : s # {} => f[OneOf(s)] = panel.positions[OneOf(s)].costBasisUsdc
    BY DEF OneOf
  <2>2. \A s \in SUBSET D : (IF s = {} THEN 0 ELSE f[OneOf(s)] + g[s \ {OneOf(s)}])
           = (IF s = {} THEN 0 ELSE panel.positions[OneOf(s)].costBasisUsdc + g[s \ {OneOf(s)}])
    BY <2>1
  <2>3. DOMAIN f = D
    OBVIOUS
  <2> HIDE DEF f
  <2> QED BY <2>2, <2>3 DEF IsSum
<1>4. Fold(it)
  <2>1. \E g : Fold(g)
    <3> HIDE DEF f, Fold
    <3> QED BY <1>1, <1>3, SumExists
  <2> HIDE DEF Fold
  <2> QED BY <2>1
<1>5. Total(f) = it[D]
  <2> HIDE DEF f, Fold, it
  <2> QED BY <1>1, <1>3, <1>4, TotalIsSum
<1> QED BY <1>2, <1>5

(* The page's sums, over all positions and over the open ones, make up the *)
(* balance it shows.                                                       *)
LEMMA PageSums ==
  ASSUME SniperAddsUp(panel)
  PROVE  panel.paperUsdc = StartingUsdc + realizedPnlUsdc - sumCostBasis(OpenPositions)
<1> DEFINE D == DOMAIN panel.positions
           cost == [i \in D |-> panel.positions[i].costBasisUsdc]
           got == [i \in D |-> panel.positions[i].proceedsUsdc]
           net == [i \in D |-> panel.positions[i].proceedsUsdc - panel.positions[i].costBasisUsdc]
           E == OpenPositions
<1>1. IsFiniteSet(D) /\ \A i \in D : panel.positions[i] \in Holding
  BY DEF SniperAddsUp
<1>2. E \in SUBSET D /\ IsFiniteSet(E) /\ IsFiniteSet(D \ E)
  <2>1. E \in SUBSET D
    BY DEF OpenPositions
  <2> QED BY <1>1, <2>1, FS_Subset
<1>3. cost \in [D -> Int] /\ got \in [D -> Int]
  BY <1>1 DEF Holding
<1>4. net = [i \in D |-> got[i] - cost[i]]
  OBVIOUS
<1>5. /\ sumProceeds = Total(got)
      /\ sumCostBasis(E) = Total([i \in E |-> cost[i]])
      /\ sumCostBasis(D \ E) = Total([i \in D \ E |-> cost[i]])
  <2>1. sumProceeds = Total(got)
    BY <1>1, ProceedsIsFold
  <2>2. sumCostBasis(E) = Total([i \in E |-> panel.positions[i].costBasisUsdc])
    <3>1. \A i \in E : panel.positions[i] \in Holding
      BY <1>1, <1>2
    <3> HIDE DEF E
    <3> QED BY <1>2, <3>1, CostIsFold
  <2>3. sumCostBasis(D \ E) = Total([i \in D \ E |-> panel.positions[i].costBasisUsdc])
    <3>1. PICK S : S = D \ E
      OBVIOUS
    <3>2. IsFiniteSet(S) /\ \A i \in S : panel.positions[i] \in Holding
      BY <1>1, <1>2, <3>1
    <3>3. sumCostBasis(S) = Total([i \in S |-> panel.positions[i].costBasisUsdc])
      BY <3>2, CostIsFold
    <3> QED BY <3>1, <3>3
  <2>4. /\ [i \in E |-> panel.positions[i].costBasisUsdc] = [i \in E |-> cost[i]]
        /\ [i \in D \ E |-> panel.positions[i].costBasisUsdc] = [i \in D \ E |-> cost[i]]
    BY <1>2
  <2> QED BY <2>1, <2>2, <2>3, <2>4
<1>6. panel.paperUsdc = StartingUsdc + Total(net)
  BY DEF SniperAddsUp
<1>7. realizedPnlUsdc = sumProceeds - sumCostBasis(D \ E)
  BY DEF realizedPnlUsdc
<1>8. /\ Total(got) \in Int /\ Total([i \in E |-> cost[i]]) \in Int
      /\ Total([i \in D \ E |-> cost[i]]) \in Int
  <2>1. [i \in E |-> cost[i]] \in [E -> Int] /\ [i \in D \ E |-> cost[i]] \in [D \ E -> Int]
    BY <1>2, <1>3
  <2> HIDE DEF cost, got, D, E
  <2> QED BY <1>1, <1>2, <1>3, <2>1, TotalStep
<1>9. Total(net) = Total(got) - Total(cost)
  <2> HIDE DEF cost, got, net, D, E
  <2> QED BY <1>1, <1>3, <1>4, TotalOfDifference
<1>10. Total(cost) = Total([i \in E |-> cost[i]]) + Total([i \in D \ E |-> cost[i]])
  <2> HIDE DEF cost, got, net, D, E
  <2>1. PICK f, S, T, g, h : /\ f = cost /\ S = D /\ T = E
                             /\ g = [i \in T |-> f[i]] /\ h = [i \in S \ T |-> f[i]]
    OBVIOUS
  <2>2. IsFiniteSet(S) /\ f \in [S -> Int] /\ T \in SUBSET S
    BY <1>1, <1>2, <1>3, <2>1
  <2>3. g = [i \in T |-> f[i]] /\ h = [i \in S \ T |-> f[i]]
    BY <2>1
  <2>4. Total(f) = Total(g) + Total(h)
    BY <2>2, <2>3, TotalOfParts
  <2> QED BY <2>1, <2>4
<1> HIDE DEF cost, got, net, D, E
<1>11. panel.paperUsdc = StartingUsdc + realizedPnlUsdc - sumCostBasis(E)
  <2>1. PICK a \in Int, b \in Int, c \in Int :
          a = Total(got) /\ b = Total([i \in E |-> cost[i]]) /\ c = Total([i \in D \ E |-> cost[i]])
    BY <1>8
  <2>2. panel.paperUsdc = StartingUsdc + (a - (b + c)) /\ realizedPnlUsdc = a - c /\ sumCostBasis(E) = b
    BY <1>5, <1>6, <1>7, <1>9, <1>10, <2>1
  <2>3. StartingUsdc \in Int
    BY FundAssumption
  <2> QED BY <2>2, <2>3
<1> QED BY <1>11 DEF E

(* The invariant is what the visitor is promised.                          *)
LEMMA AgreeAsStated == LedgerInv /\ ListInv /\ SovereignInv /\ PanelInv => PanelsAgree
<1> SUFFICES ASSUME LedgerInv, ListInv, SovereignInv, PanelInv, panel.display = "figures"
             PROVE  IF shop = "sniper" THEN SniperPageAgrees ELSE SovereignPanelAgrees
  BY DEF PanelsAgree
<1>1. /\ panel.asked = {} /\ panel.stage = 3 /\ PageShows(panel) /\ PageDone(panel)
      /\ shop \in {"sniper", "sovereign"}
  <2>1. Unread.display = "loading"
    BY DEF Unread
  <2> QED BY <2>1 DEF PanelInv, Told
<1>2. /\ \A f : Has(panel, 1, f) /\ Has(panel, 2, f)
      /\ \A f, i : ~Waits(panel, f, i)
  BY <1>1 DEF Has, Waits
<1>3. CASE shop = "sniper"
  <2>1. /\ SniperRows(panel, ticks, tokens) /\ SniperWhole(panel) /\ SniperDone(panel, ticks)
    BY <1>1, <1>3 DEF PageShows, PageDone, SniperShows
  <2>2. /\ panel.from \in 0 .. Len(ticks) /\ Len(ticks) \in Nat
        /\ panel.tokenCount \in 0 .. Len(tokens) /\ DOMAIN tokens = 1 .. Len(tokens)
        /\ DOMAIN panel.positions \subseteq DOMAIN panel.tokens
        /\ \A i \in DOMAIN panel.tokens : i \in 1 .. panel.tokenCount /\ panel.tokens[i] = tokens[i]
        /\ \A i \in DOMAIN panel.ticks : i \in 1 .. panel.tickCount /\ panel.ticks[i] = ticks[i]
    BY <1>2, <2>1, LenProperties DEF SniperRows, LedgerInv, ListInv
  <2>3. panel.to \in panel.from .. Len(ticks) /\ panel.tickCount \in panel.from .. panel.to
    BY <2>1 DEF SniperDone
  <2>4. \A i, j \in DOMAIN panel.tokens : panel.tokens[i] = panel.tokens[j] => i = j
    <3>1. \A i \in DOMAIN panel.tokens : i \in DOMAIN tokens
      BY <2>2
    <3> QED BY <2>2, <3>1 DEF ListInv, Distinct
  <2>5. ASSUME NEW batch \in Batches(DOMAIN panel.tokens)
        PROVE  \E n \in panel.from .. panel.to : \A i \in batch \cap DOMAIN panel.positions :
                 /\ panel.positions[i].amount = Held(n, panel.tokens[i])
                 /\ panel.positions[i].costBasisUsdc = SpentOn(n, panel.tokens[i])
    <3>1. PICK n \in panel.from .. panel.to : OneMoment(panel, ticks, n, batch)
      BY <2>1 DEF SniperDone
    <3>2. n \in Nat /\ n \in 0 .. Len(ticks)
      BY <2>2, <2>3
    <3>3. Booked(ticks, n)
      BY <2>2, <3>2 DEF LedgerInv, Booked
    <3>4. \A t : Held(n, t) = HeldIn(ticks, n, t) /\ SpentOn(n, t) = Usdc(ticks, n, "BUY", t)
      BY <3>2, <3>3, UsdcIsFold, UnitsIsFold DEF Held, HeldIn, SpentOn
    <3> QED BY <3>1, <3>4 DEF OneMoment
  <2>6. panel.complete =>
          /\ DOMAIN panel.ticks = 1 .. panel.tickCount
          /\ DOMAIN panel.positions = 1 .. panel.tokenCount
    <3> SUFFICES ASSUME panel.complete
                 PROVE  /\ DOMAIN panel.ticks = 1 .. panel.tickCount
                        /\ DOMAIN panel.positions = 1 .. panel.tokenCount
      OBVIOUS
    <3>1. /\ \A i \in 1 .. panel.tokenCount : i \in DOMAIN panel.tokens
          /\ \A i \in DOMAIN panel.tokens : i \in DOMAIN panel.positions
          /\ \A i \in 1 .. panel.tickCount : i \in DOMAIN panel.ticks
      BY <1>1, <1>2, <2>1 DEF SniperWhole
    <3> QED BY <2>2, <3>1
  <2>7. panel.from = panel.to =>
          /\ panel.tickCount \in DOMAIN panel.ticks =>
               panel.ticks[panel.tickCount].paperUsdcAfter = panel.paperUsdc
          /\ panel.complete =>
               /\ panel.paperUsdc = StartingUsdc + realizedPnlUsdc - sumCostBasis(OpenPositions)
               /\ \A i \in DOMAIN panel.ticks :
                    panel.ticks[i].call.token \in Range(panel.tokens) \cup {NoToken}
    BY <2>1, PageSums DEF SniperDone, SniperAddsUp
  <2> QED BY <1>3, <2>2, <2>3, <2>4, <2>5, <2>6, <2>7 DEF SniperPageAgrees
<1>4. CASE shop = "sovereign"
  <2>1. SovereignShows(panel, trades, outside, balances) /\ SovereignDone(panel, trades, outside)
    BY <1>1, <1>4 DEF PageShows, PageDone
  <2>2. /\ panel.tickCount \in 0 .. Len(trades)
        /\ \A i \in DOMAIN panel.ticks : i \in 1 .. panel.tickCount /\ i <= Shown
             /\ panel.ticks[i] = trades[panel.tickCount + 1 - i]
        /\ panel.complete => \A i \in 1 .. panel.tickCount : i <= Shown => i \in DOMAIN panel.ticks
        /\ panel.from = Len(trades) + outside.moves =>
             panel.tickCount = Len(trades) /\ panel.usdc = balances.usdc /\ panel.weth = balances.weth
    BY <1>1, <1>2, <2>1 DEF SovereignShows
  <2>3. ASSUME 1 \in DOMAIN panel.ticks, panel.from = panel.to, Events = panel.to,
               NEW newest, newest = panel.ticks[1]
        PROVE  /\ panel.usdc - newest.usdcAfter = outside.usdc - newest.outside.usdc
               /\ panel.weth - newest.wethAfter = outside.weth - newest.outside.weth
    <3>1. /\ panel.tickCount = Len(trades) /\ panel.usdc = balances.usdc /\ panel.weth = balances.weth
      BY <1>4, <2>2, <2>3 DEF Events
    <3>2. PICK n \in 1 .. Len(trades) : n = Len(trades) /\ newest = trades[n]
      BY <2>2, <2>3, <3>1
    <3>3. /\ trades[n].usdcAfter = trades[n].outside.usdc + UsdcIn(trades, n)
          /\ trades[n].wethAfter = trades[n].outside.weth + WethIn(trades, n)
          /\ trades[n].outside.usdc \in Int /\ trades[n].outside.weth \in Int
          /\ balances.usdc = outside.usdc + UsdcIn(trades, n)
          /\ balances.weth = outside.weth + WethIn(trades, n)
          /\ outside.usdc \in Int /\ outside.weth \in Int
      BY <3>2 DEF SovereignInv, Explained
    <3>4. UsdcIn(trades, n) \in Int /\ WethIn(trades, n) \in Int
      <4>1. n \in Nat /\ Settled(trades, n)
        BY <3>2 DEF SovereignInv
      <4> QED BY <4>1, TradeSumsAreInts DEF UsdcIn, WethIn
    <3>5. PICK a, b, c, d, e, f :
            /\ a = trades[n].usdcAfter /\ b = trades[n].outside.usdc /\ c = UsdcIn(trades, n)
            /\ d = trades[n].wethAfter /\ e = trades[n].outside.weth /\ f = WethIn(trades, n)
      OBVIOUS
    <3>6. balances.usdc - a = outside.usdc - b
      BY <3>3, <3>4, <3>5
    <3>7. balances.weth - d = outside.weth - e
      BY <3>3, <3>4, <3>5
    <3>8. panel.usdc - newest.usdcAfter = outside.usdc - newest.outside.usdc
      BY <3>1, <3>2, <3>5, <3>6
    <3>9. panel.weth - newest.wethAfter = outside.weth - newest.outside.weth
      BY <3>1, <3>2, <3>5, <3>7
    <3> QED BY <3>8, <3>9
  <2> QED BY <1>4, <2>2, <2>3 DEF SovereignPanelAgrees
<1> QED BY <1>1, <1>3, <1>4

(* What stands on one page belongs together: rows and tokens stand at      *)
(* their index and are missing only where a result was a failure, each     *)
(* batch of positions is of one moment of the visit, and if nothing        *)
(* happened during it and nothing is missing, the page's own sums          *)
(* reproduce the balance.                                                  *)
THEOREM PagesAgree == PanelSpec => []PanelsAgree
<1> DEFINE Kept == LedgerInv /\ ListInv /\ SovereignInv /\ PanelInv
<1>1. PanelInit => Kept
  BY LedgerInitially, ListInitially, SovereignInitially, PanelsAssumption DEF PanelInit, PanelInv
<1>2. Kept /\ [PanelNext]_panelVars => Kept'
  <2> SUFFICES ASSUME Kept, [PanelNext]_panelVars PROVE Kept'
    OBVIOUS
  <2>1. FundNext \/ UNCHANGED fundVars
    BY DEF PanelNext, panelVars, Act, Visit, GoOn, Read, ReadFails, ReadBatch
  <2>2. SovereignNext \/ UNCHANGED sovereignVars
    BY DEF PanelNext, panelVars, Act, Visit, GoOn, Read, ReadFails, ReadBatch
  <2>3. LedgerInv'
    BY <2>1, FundKeepsLedger, LedgerStays
  <2>4. ListInv'
    BY <2>1, FundKeepsList, ListStays
  <2>5. SovereignInv'
    BY <2>2, TickIsExplained, TransfersAreOutside, SovereignStays DEF SovereignNext
  <2>6. PanelInv'
    BY PanelKept
  <2> QED BY <2>3, <2>4, <2>5, <2>6
<1> QED BY <1>1, <1>2, AgreeAsStated, PTL DEF PanelSpec
============================================================================
