---------------------------- MODULE AgentServer -----------------------------
(***************************************************************************)
(* The routes under api/agent, from a page's request to the mined verdict. *)
(* A call is one request being served.  Its handler asks the model, sends  *)
(* what it hears over the wire, publishes the reasons, prepares and sends  *)
(* the transaction and says so.  It can be ended at any point (time limit, *)
(* a crash, a cancelled response), and it does not stop when its reader    *)
(* leaves: several calls may be on their way to the chain at once, all of  *)
(* them with the one account whose next nonce each asks the node for.      *)
(***************************************************************************)
EXTENDS Timeline, FiniteSets, GateContracts, AgentAnswers

CONSTANTS MaxCalls,   \* requests a visitor makes
          LastDay     \* days that pass while the visitor is there

ASSUME ServerAssumption == MaxCalls \in Nat /\ LastDay \in Nat /\ None \notin Nat

\* undefined is none of the answers a verdict can be.
ASSUME NoneAssumption ==
  /\ None \notin [decision : {"ALLOW", "REFUSE", "APPROVE", "REJECT", "CAUTION"}]
  /\ None \notin [decision : {"BUY_WETH", "SELL_WETH", "HOLD"}, sizeUsd : Nat]
  /\ None \notin [decision : {"RESOLVED"}, winningOption : Nat,
                  confidence : {"sure", "unsure", "fraction", "capped", "none"}]

VARIABLES keys,    \* the keys in the server's environment
          calls,   \* sequence of the calls made
          pool,    \* calls whose transaction the node has accepted
          mined,   \* calls whose transaction is in a block, in nonce order
          book,    \* storage of the verdict contracts
          today

serverVars == <<keys, calls, pool, mined, book, today>>

\* The markets of the adjudicator: options and last day before resolution.
MARKETS == [id \in {1001, 1004} |-> [options |-> 2, deadline |-> IF id = 1001 THEN 0 ELSE 1]]

Call(agent, key) ==
  [agent |-> agent, key |-> key, stage |-> "received", verdict |-> None, nonce |-> None,
   wire |-> <<>>, reader |-> "open", final |-> None]

\* The requests a page can make, and what the verdict will be filed under.
terraDecide(action) == Call("terra", action)

\* The bridge route names an attestation by these fields of the state.
bridgeDecide(state, amountUsd) ==
  Call("bridge", <<state.finalizedHeight, state.validatorsSigning, state.attestationAgeSec, amountUsd>>)

governanceReview(proposal) == Call("governance", proposal)
aviationReview(change) == Call("aviation", change)
fundTick == Call("fund", None)
adjudicateMarket(market) == Call("adjudicate", market)

Request(call) ==
  /\ Len(calls) < MaxCalls
  /\ calls' = Append(calls, call)
  /\ UNCHANGED <<keys, pool, mined, book, today>>

Event(type, value) == [type |-> type, value |-> value]

Step(i, stage, sent) ==
  [calls EXCEPT ![i].stage = stage,
                ![i].wire = IF calls[i].reader = "open" THEN @ \o sent ELSE <<>>]

\* The handler returns: what it held is gone, unless a transaction carries it.
Close(i, sent) ==
  [calls EXCEPT ![i].stage = "closed", ![i].verdict = None, ![i].nonce = None,
                ![i].wire = IF calls[i].reader = "open" THEN @ \o sent ELSE <<>>]

ServerInit ==
  /\ keys \in [model : BOOLEAN, agent : BOOLEAN]
  /\ calls = <<>> /\ pool = {} /\ mined = <<>> /\ book = InitBook
  /\ today = 1

\* The route answers 503 without a model key, else opens the stream.  The
\* model may get as far as some text; the adjudicator searches before it writes.
FirstWords(i) ==
  IF calls[i].agent = "adjudicate"
  THEN <<Event("search_started", i), Event("search_results", i), Event("text_delta", i)>>
  ELSE <<Event("reasoning", i)>>

ReceiveUnanswered(i) ==  \* mutant: a server without a model key never answers
  /\ calls[i].stage = "received" /\ keys.model
  /\ calls' = Step(i, "writing", <<>>)
  /\ UNCHANGED <<keys, pool, mined, book, today>>

Receive(i) ==
  /\ calls[i].stage = "received"
  /\ IF keys.model
     THEN \E sent \in {<<>>, FirstWords(i)} : calls' = Step(i, "writing", sent)
     ELSE calls' = Close(i, <<>>)
  /\ UNCHANGED <<keys, pool, mined, book, today>>

AnswerTo(call) ==
  CASE call.agent = "terra" ->
         {decideTerraStream(raw) : raw \in Completions({"ALLOW", "REFUSE"}, {0})}
    [] call.agent = "bridge" ->
         {decideBridgeStream(raw) : raw \in Completions({"ALLOW", "REFUSE"}, {0})}
    [] call.agent = "governance" ->
         {reviewGovernanceStream(raw) : raw \in Completions({"APPROVE", "CAUTION", "REJECT"}, {0})}
    [] call.agent = "aviation" ->
         {reviewAviationStream(raw) : raw \in Completions({"APPROVE", "CAUTION", "REJECT"}, {0})}
    [] call.agent = "fund" ->
         {tickFundStream(raw) : raw \in Completions({"BUY_WETH", "SELL_WETH"}, {0, 720, 5000})}
    [] call.agent = "adjudicate" ->
         {adjudicateStream(raw, MARKETS[call.key].options, MARKETS[call.key].deadline > today)
            : raw \in Completions({}, {}) \cup Resolutions}

\* The stream ends in one final verdict, or throws and the route says "error".
Answer(i) ==
  /\ calls[i].stage = "writing"
  /\ \E verdict \in AnswerTo(calls[i]) :
       calls' = IF verdict = Throws THEN Close(i, <<Event("error", i)>>)
                ELSE [Step(i, "answered", <<Event("final", verdict)>>)
                        EXCEPT ![i].verdict = verdict]
  /\ UNCHANGED <<keys, pool, mined, book, today>>

\* The paper fund's route ends with the answer; so does a gate without its key.
Skip(i) ==
  /\ calls[i].stage = "answered"
  /\ calls[i].agent = "fund" \/ ~keys.agent
  /\ calls' = Close(i, IF calls[i].agent = "fund" THEN <<>>
                      ELSE <<Event("commit_skipped", i)>>)
  /\ UNCHANGED <<keys, pool, mined, book, today>>

NextNonceCached ==  \* mutant: nonces handed out count, used or not
  Cardinality({i \in DOMAIN calls : calls[i].nonce # None})

NextNonce == Len(mined) + Cardinality(pool)

\* The reason blob is published, whether or not the upload succeeds; then the
\* arguments are encoded and the gas estimated, which may fail, and the nonce
\* is asked for.
WouldRevert(call) ==
  call.agent = "adjudicate" /\ (Resolved(book, call.key) \/ call.verdict.confidence = "fraction")

Prepare(i) ==
  /\ calls[i].stage = "answered" /\ calls[i].agent # "fund" /\ keys.agent
  /\ calls' = IF WouldRevert(calls[i]) THEN Close(i, <<Event("commit_error", i)>>)
              ELSE [calls EXCEPT ![i].stage = "prepared", ![i].nonce = NextNonce]
  /\ UNCHANGED <<keys, pool, mined, book, today>>

Taken(nonce) == \E j \in pool \cup Range(mined) : calls[j].nonce = nonce

\* The node takes the transaction if its nonce is still free.
Send(i) ==
  /\ calls[i].stage = "prepared"
  /\ IF Taken(calls[i].nonce)
     THEN calls' = Close(i, <<Event("commit_error", i)>>) /\ UNCHANGED pool
     ELSE /\ pool' = pool \cup {i}
          /\ calls' = Step(i, "closed", <<Event("committed", i)>>)
  /\ UNCHANGED <<keys, mined, book, today>>

\* The node took the transaction, its answer did not come back.
SendUnanswered(i) ==
  /\ calls[i].stage = "prepared" /\ ~Taken(calls[i].nonce)
  /\ pool' = pool \cup {i}
  /\ calls' = Step(i, "closed", <<Event("commit_error", i)>>)
  /\ UNCHANGED <<keys, mined, book, today>>

Kill(i) ==
  /\ calls[i].stage # "closed"
  /\ calls' = Close(i, <<>>)
  /\ UNCHANGED <<keys, pool, mined, book, today>>

\* What a mined transaction does to the contract its call was made for.
Filed(i) == Verdict(calls[i].verdict.decision, 0, i)

commitTerraVerdict(i) == TerraReport(book, calls[i].key, Filed(i))
commitBridgeVerdict(i) == BridgeReport(book, calls[i].key, Filed(i))
commitGovernanceVerdict(i) == GovernanceReview(book, calls[i].key, Filed(i))
commitAviationVerdict(i) == AviationReview(book, calls[i].key, Filed(i))
commitAdjudicatorVerdict(i) ==
  Resolve(book, calls[i].key, [Filed(i) EXCEPT !.winner = calls[i].verdict.winningOption])

Executed(i) ==
  CASE calls[i].agent = "terra" -> commitTerraVerdict(i)
    [] calls[i].agent = "bridge" -> commitBridgeVerdict(i)
    [] calls[i].agent = "governance" -> commitGovernanceVerdict(i)
    [] calls[i].agent = "aviation" -> commitAviationVerdict(i)
    [] calls[i].agent = "adjudicate" -> commitAdjudicatorVerdict(i)

Mine ==
  \E i \in pool :
    /\ calls[i].nonce = Len(mined)
    /\ pool' = pool \ {i} /\ mined' = Append(mined, i)
    /\ book' = Executed(i)
    /\ UNCHANGED <<keys, calls, today>>

\* The agent itself may decline, on chain, a market that is still open.
Decline(market) ==
  /\ MARKETS[market].deadline >= today
  /\ Latest(book, "adjudicate", market) = Uninitialized
  /\ book' = Refuse(book, market, 0)
  /\ UNCHANGED <<keys, calls, pool, mined, today>>

Midnight ==
  /\ today < LastDay
  /\ today' = today + 1
  /\ UNCHANGED <<keys, calls, pool, mined, book>>

Serve(i) ==
  Receive(i) \/ Answer(i) \/ Skip(i) \/ Prepare(i) \/ Send(i) \/ SendUnanswered(i)
=============================================================================
