----------------------------- MODULE AgentPages -----------------------------
(***************************************************************************)
(* One visitor's tab on one of the pages that ask an agent for a verdict,  *)
(* over the server that serves it.  view is the page's React state; a      *)
(* request's reader runs in the page until its stream ends, while the      *)
(* visitor goes on clicking whatever the page leaves enabled.              *)
(***************************************************************************)
EXTENDS AgentServer, TerraScenario, BridgeScenario, GovernanceScenario, AviationScenario,
        FundScenario

CONSTANTS Pages,      \* pages the visitor may have opened
          Tried,      \* Tried[page]: presets the visitor loads, also by link
          MaxBlocks   \* block heights a page's timeline reaches

ASSUME PagesAssumption ==
  /\ MaxBlocks \in Nat
  /\ Pages \subseteq {"terra", "bridge", "governance", "aviation", "fund", "adjudicate"}
  /\ Tried.fund \subseteq DOMAIN FUND_PRESETS

VARIABLES page, view

vars == <<page, view, serverVars>>

scenario == view.scenario

\* A page with a ?preset= link, or without one.
Opened(s, key) == [scenario |-> s, busy |-> FALSE, presetKey |-> key]

TerraPage(key) ==
  Opened(IF key = None THEN initialTerraScenario ELSE applyPreset(initialTerraScenario, key), key)
BridgePage(key) ==
  Opened(IF key = None THEN initialBridgeScenario ELSE applyBridgePreset(initialBridgeScenario, key), key)
GovernancePage(key) ==
  Opened(IF key = None THEN initialGovernanceScenario ELSE applyGovernancePreset(initialGovernanceScenario, key), key)
AviationPage(key) ==
  Opened(IF key = None THEN initialAviationScenario ELSE applyAviationPreset(initialAviationScenario, key), key)
FundPage(key) ==
  Opened(IF key = None THEN initialFundScenario ELSE applyFundPreset(initialFundScenario, key), key)

\* The adjudicator's page: ctrl is the call whose stream it is reading.
AdjudicatePage(market) ==
  [selectedId |-> market, run |-> [kind |-> "idle"], searchSteps |-> <<>>,
   typed |-> FALSE, ctrl |-> None]

Init ==
  /\ page \in Pages
  /\ CASE page = "terra" -> \E key \in Tried[page] \cup {None} : view = TerraPage(key)
       [] page = "bridge" -> \E key \in Tried[page] \cup {None} : view = BridgePage(key)
       [] page = "governance" -> \E key \in Tried[page] \cup {None} : view = GovernancePage(key)
       [] page = "aviation" -> \E key \in Tried[page] \cup {None} : view = AviationPage(key)
       [] page = "fund" -> \E key \in Tried[page] \cup {None} : view = FundPage(key)
       [] page = "adjudicate" -> \E market \in DOMAIN MARKETS : view = AdjudicatePage(market)
  /\ ServerInit

-----------------------------------------------------------------------------
\* What the forms and the preset controls leave enabled.

MintRedeemFormPending == page = "terra" /\ ~scenario.pending  \* mutant: busy is not asked

MintRedeemForm == page = "terra" /\ ~view.busy /\ ~scenario.pending
WithdrawForm == page = "bridge" /\ ~view.busy /\ ~scenario.pending
ProposalButton == page = "governance" /\ ~view.busy /\ ~scenario.pending
ChangeButton == page = "aviation" /\ ~view.busy /\ ~scenario.pending
TickButton == page = "fund" /\ ~view.busy /\ ~scenario.pending

TerraControlsOpen == page = "terra"  \* mutant: the controls stay enabled

FundControlsOpen == page = "fund"  \* mutant: the controls stay enabled

TerraScenarioControls == page = "terra" /\ ~scenario.pending
BridgeScenarioControls == page = "bridge" /\ ~scenario.pending
GovernanceScenarioControls == page = "governance" /\ ~scenario.pending
AviationScenarioControls == page = "aviation" /\ ~scenario.pending
FundScenarioControls == page = "fund" /\ ~scenario.pending

-----------------------------------------------------------------------------
\* The visitor acts: a placeholder goes up and the request goes out.

NextCall == Len(calls) + 1

Submitted(optimistic) ==
  /\ view' = [view EXCEPT !.busy = TRUE, !.scenario = optimistic]
  /\ scenario.blockOffset < MaxBlocks
  /\ UNCHANGED page

TerraAction ==
  /\ MintRedeemForm
  /\ \E action \in {"MINT", "REDEEM"} :
       /\ Submitted(applyPendingAction(scenario, action, 1, NextCall))
       /\ Request(terraDecide(action))

BridgeAction ==
  /\ WithdrawForm
  /\ Submitted(applyBridgePendingAction(scenario, 5, NextCall))
  /\ Request(bridgeDecide(scenario.subject, 5))

GovernanceAction ==
  /\ ProposalButton
  /\ Submitted(applyGovernancePendingAction(scenario, NextCall))
  /\ Request(governanceReview(scenario.subject))

AviationAction ==
  /\ ChangeButton
  /\ Submitted(applyAviationPendingAction(scenario, NextCall))
  /\ Request(aviationReview(scenario.subject))

FundAction ==
  /\ TickButton
  /\ Submitted(applyFundPendingTick(scenario, NextCall))
  /\ Request(fundTick)

\* Loading a preset and resetting.
Loaded(loaded, key) ==
  /\ view' = [view EXCEPT !.scenario = loaded, !.presetKey = key]
  /\ scenario.blockOffset < MaxBlocks
  /\ UNCHANGED <<page, serverVars>>

TerraPreset ==
  TerraScenarioControls /\ \E key \in Tried.terra : Loaded(applyPreset(scenario, key), key)
BridgePreset ==
  BridgeScenarioControls /\ \E key \in Tried.bridge : Loaded(applyBridgePreset(scenario, key), key)
GovernancePreset ==
  GovernanceScenarioControls
  /\ \E key \in Tried.governance : Loaded(applyGovernancePreset(scenario, key), key)
AviationPreset ==
  AviationScenarioControls
  /\ \E key \in Tried.aviation : Loaded(applyAviationPreset(scenario, key), key)
FundPreset ==
  FundScenarioControls /\ \E key \in Tried.fund : Loaded(applyFundPreset(scenario, key), key)

\* Only the bridge's reset link goes away on the preset it goes back to.
TerraReset == TerraScenarioControls /\ Loaded(initialTerraScenario, None)
BridgeReset ==
  /\ BridgeScenarioControls
  /\ scenario.presetLabel # "healthy"
  /\ Loaded(initialBridgeScenario, None)
GovernanceReset == GovernanceScenarioControls /\ Loaded(initialGovernanceScenario, None)
AviationReset == AviationScenarioControls /\ Loaded(initialAviationScenario, None)
FundReset == FundScenarioControls /\ Loaded(initialFundScenario, None)

-----------------------------------------------------------------------------
\* The reader of a request: what each event of the stream does to the page.

TerraEvent(e) ==
  CASE e.type = "reasoning" -> setTerraPendingReasoning(scenario, e.value)
    [] e.type = "final" -> applyAgentVerdict(scenario, e.value)
    [] e.type = "committed" -> applyTerraOnChainCommit(scenario, e.value)
    [] e.type = "commit_error" -> applyTerraCommitError(scenario)
    [] OTHER -> scenario

BridgeEvent(e) ==
  CASE e.type = "reasoning" -> setBridgePendingReasoning(scenario, e.value)
    [] e.type = "final" -> applyBridgeAgentVerdict(scenario, e.value)
    [] e.type = "committed" -> applyBridgeOnChainCommit(scenario, e.value)
    [] e.type = "commit_error" -> applyBridgeCommitError(scenario)
    [] OTHER -> scenario

GovernanceEvent(e) ==
  CASE e.type = "reasoning" -> setGovernancePendingReasoning(scenario, e.value)
    [] e.type = "final" -> applyGovernanceAgentVerdict(scenario, e.value)
    [] e.type = "committed" -> applyGovernanceOnChainCommit(scenario, e.value)
    [] e.type = "commit_error" -> applyGovernanceCommitError(scenario)
    [] OTHER -> scenario

AviationEvent(e) ==
  CASE e.type = "reasoning" -> setAviationPendingReasoning(scenario, e.value)
    [] e.type = "final" -> applyAviationAgentVerdict(scenario, e.value)
    [] e.type = "committed" -> applyAviationOnChainCommit(scenario, e.value)
    [] e.type = "commit_error" -> applyAviationCommitError(scenario)
    [] OTHER -> scenario

\* The fund's page keeps the decision until the stream has ended.
FundEvent(e) ==
  IF e.type = "reasoning" THEN setFundPendingReasoning(scenario, e.value) ELSE scenario

\* The adjudicator's page: an aborted run changes nothing any more.
AdjudicateEvent(e) ==
  CASE e.type = "search_started" ->
         [view EXCEPT !.searchSteps = Append(@, [call |-> e.value, cited |-> FALSE])]
    [] e.type = "search_results" /\ view.searchSteps # <<>> ->
         [view EXCEPT !.searchSteps[Len(view.searchSteps)].cited = TRUE]
    [] e.type = "text_delta" ->
         [view EXCEPT !.run = [kind |-> "streaming", reasoning |-> e.value]]
    [] e.type = "final" ->
         [view EXCEPT !.run = [kind |-> "done", output |-> e.value, commit |-> None,
                               commitError |-> FALSE],
                      !.typed = FALSE]
    [] e.type = "committed" /\ view.run.kind = "done" -> [view EXCEPT !.run.commit = e.value]
    [] e.type = "commit_error" /\ view.run.kind = "done" -> [view EXCEPT !.run.commitError = TRUE]
    [] OTHER -> view

ReadEvent(i) ==
  /\ calls[i].reader = "open" /\ calls[i].wire # <<>>
  /\ LET e == Head(calls[i].wire)
         taken == [calls EXCEPT ![i].wire = Tail(@)]
     IN  /\ calls' = IF e.type = "final" THEN [taken EXCEPT ![i].final = e.value] ELSE taken
         /\ view' = CASE page = "terra" -> [view EXCEPT !.scenario = TerraEvent(e)]
                      [] page = "bridge" -> [view EXCEPT !.scenario = BridgeEvent(e)]
                      [] page = "governance" -> [view EXCEPT !.scenario = GovernanceEvent(e)]
                      [] page = "aviation" -> [view EXCEPT !.scenario = AviationEvent(e)]
                      [] page = "fund" -> [view EXCEPT !.scenario = FundEvent(e)]
                      [] page = "adjudicate" -> AdjudicateEvent(e)
  /\ UNCHANGED <<page, keys, pool, mined, book, today>>

\* What is written when no verdict came: the safe answer, by the page.
TerraFallback == applyAgentVerdict(scenario, [decision |-> "REFUSE"])
BridgeFallbackUnsettled == setBridgePending(scenario, FALSE)  \* mutant: the row is left

BridgeFallback ==
  setBridgePending(applyBridgeAgentVerdict(scenario, [decision |-> "REFUSE"]), FALSE)
GovernanceFallback ==
  setGovernancePending(applyGovernanceAgentVerdict(scenario, [decision |-> "CAUTION"]), FALSE)
AviationFallback ==
  setAviationPending(applyAviationAgentVerdict(scenario, [decision |-> "CAUTION"]), FALSE)
FundFallback ==
  setFundPending(applyFundDecision(scenario, [decision |-> "HOLD", sizeUsd |-> 0]), FALSE)

Fallback ==
  CASE page = "terra" -> TerraFallback
    [] page = "bridge" -> BridgeFallback
    [] page = "governance" -> GovernanceFallback
    [] page = "aviation" -> AviationFallback
    [] page = "fund" -> FundFallback

\* A stream that ended after its verdict; the fund applies its decision now.
FundFinish(decision) == setFundPending(applyFundDecision(scenario, decision), FALSE)

Finished(final) ==
  CASE page = "terra" -> scenario
    [] page = "bridge" -> setBridgePending(scenario, FALSE)
    [] page = "governance" -> setGovernancePending(scenario, FALSE)
    [] page = "aviation" -> setAviationPending(scenario, FALSE)
    [] page = "fund" -> FundFinish(final)

Left(i, reader) ==
  [calls EXCEPT ![i].reader = reader, ![i].wire = <<>>, ![i].final = None]

\* The stream is over, or the connection breaks in the middle of it.
EndOfStream(i) ==
  /\ calls[i].reader = "open" /\ calls[i].wire = <<>> /\ calls[i].stage = "closed"
  /\ calls' = Left(i, "done")
  /\ view' = IF page # "adjudicate"
             THEN [view EXCEPT !.busy = FALSE,
                               !.scenario = IF calls[i].final = None THEN Fallback
                                            ELSE Finished(calls[i].final)]
             ELSE IF calls[i].final = None
             THEN [view EXCEPT !.run = [kind |-> "error"], !.ctrl = None]
             ELSE [view EXCEPT !.ctrl = None]
  /\ UNCHANGED <<page, keys, pool, mined, book, today>>

Disconnect(i) ==
  /\ calls[i].reader = "open"
  /\ calls' = Left(i, "gone")
  /\ view' = IF page # "adjudicate"
             THEN [view EXCEPT !.busy = FALSE, !.scenario = Fallback]
             ELSE [view EXCEPT !.run = [kind |-> "error"], !.ctrl = None]
  /\ UNCHANGED <<page, keys, pool, mined, book, today>>

-----------------------------------------------------------------------------
\* The adjudicator's page.

NotAborted == calls  \* mutant: the controller is not aborted

Aborted == IF view.ctrl = None THEN calls ELSE Left(view.ctrl, "gone")

\* Selecting a market aborts the run and clears its state.
SelectMarket ==
  /\ page = "adjudicate"
  /\ \E market \in DOMAIN MARKETS \ {view.selectedId} :
       view' = [view EXCEPT !.selectedId = market, !.run = [kind |-> "idle"],
                            !.searchSteps = <<>>, !.ctrl = None]
  /\ calls' = Aborted
  /\ UNCHANGED <<page, keys, pool, mined, book, today>>

daysUntilMorning(deadline) == deadline - today  \* mutant: the day of the deadline is over

\* Whole days until the end of the deadline's day: on that day still one.
daysUntil(deadline) == deadline + 1 - today

\* Run, re-run and try again are buttons of the three states of a run.
AdjudicateButton ==
  \/ view.run.kind = "idle" /\ daysUntil(MARKETS[view.selectedId].deadline) <= 0
  \/ view.run.kind = "done" /\ view.typed
  \/ view.run.kind = "error"

Adjudicate ==
  /\ page = "adjudicate" /\ AdjudicateButton
  /\ Len(calls) < MaxCalls
  /\ calls' = Append(Aborted, adjudicateMarket(view.selectedId))
  /\ view' = [view EXCEPT !.run = [kind |-> "streaming", reasoning |-> 0],
                          !.searchSteps = <<>>, !.ctrl = Len(calls) + 1]
  /\ UNCHANGED <<page, keys, pool, mined, book, today>>

\* The typewriter reaches the end of the summary.
CatchUp ==
  /\ page = "adjudicate" /\ view.run.kind = "done" /\ ~view.typed
  /\ view' = [view EXCEPT !.typed = TRUE]
  /\ UNCHANGED <<page, serverVars>>

-----------------------------------------------------------------------------
Visit ==
  \/ TerraAction \/ BridgeAction \/ GovernanceAction \/ AviationAction \/ FundAction
  \/ TerraPreset \/ BridgePreset \/ GovernancePreset \/ AviationPreset \/ FundPreset
  \/ TerraReset \/ BridgeReset \/ GovernanceReset \/ AviationReset \/ FundReset
  \/ SelectMarket \/ Adjudicate \/ CatchUp

Calls == 1..Len(calls)

\* The server's next step on a request, the browser's next read of one, a block.
Progress ==
  \/ \E i \in Calls : ReadEvent(i) \/ EndOfStream(i) \/ (Serve(i) /\ UNCHANGED <<page, view>>)
  \/ Mine /\ UNCHANGED <<page, view>>

Next ==
  \/ Visit
  \/ Progress
  \/ \E i \in Calls : Disconnect(i) \/ (Kill(i) /\ UNCHANGED <<page, view>>)
  \/ /\ page = "adjudicate" /\ UNCHANGED <<page, view>>
     /\ Midnight \/ \E market \in DOMAIN MARKETS : Decline(market)

\* Nothing more is assumed than that these do not all stop while one of them
\* could go on; clicks, lost connections and killed handlers are never assumed.
Fairness == WF_vars(Progress)

Spec == Init /\ [][Next]_vars /\ Fairness

-----------------------------------------------------------------------------
Rows == IF page = "adjudicate" THEN {} ELSE Range(scenario.events)

\* "Signed on Base Sepolia" stands on a row for the transaction of that row's
\* own request, which the node has, and which carries the decision shown: the
\* events of one stream never reach the row of another request
\* (applyOnChainCommit writes to whatever row is at the head).
BadgeMatchesRow ==
  \A e \in Rows : e.commit # None =>
    /\ e.commit = e.call
    /\ e.call \in pool \cup Range(mined)
    /\ e.verdict.decision = calls[e.call].verdict.decision

\* A row whose transaction is mined and is the last one filed under its key
\* agrees with what the protocol's gate answers: what the page shows allowed
\* passes, what it shows refused reverts.
RowAgreesWithGate ==
  \A e \in Rows : e.commit # None /\ e.call \in Range(mined) =>
    /\ page = "terra" /\ Latest(book, "terra", e.action).by = e.call =>
         (TerraRow(e).decision = "ALLOW") <=> (TerraGate(book, e.action) = "passes")
    /\ page = "bridge" /\ Latest(book, "bridge", calls[e.call].key).by = e.call =>
         (BridgeRow(e).decision = "ALLOW") <=> (BridgeGate(book, calls[e.call].key) = "passes")
    /\ page = "governance" /\ Latest(book, "governance", e.snapshot).by = e.call =>
         GovernanceRow(e).decision = Latest(book, "governance", e.snapshot).decision
    /\ page = "aviation" /\ Latest(book, "aviation", e.snapshot).by = e.call =>
         AviationRow(e).decision = Latest(book, "aviation", e.snapshot).decision

\* No row waits for ever: when the page takes another request, every row has a
\* decision, whatever happened to the requests before.
NoOrphanRow == page # "adjudicate" /\ ~view.busy => \A e \in Rows : ~Waiting(e)

\* A paper trade creates no value, and a purchase loses no more than the sum
\* no whole unit could be bought for: at the price of the market the agent was
\* shown, the portfolio is worth the same before and after its decision (the
\* decision is applied when the stream ends, to the page as it is then).
Spendable(e) ==
  IF e.verdict.sizeUsd < e.snapshot.portfolio.usdc THEN e.verdict.sizeUsd ELSE e.snapshot.portfolio.usdc

TradeKeepsNav ==
  page = "fund" => \A e \in Rows : ~Waiting(e) =>
    LET price == FUND_PRESETS[e.snapshot.market]
        lost == FundRow(e).navBefore - FundRow(e).navAfter
    IN  /\ lost \in 0 .. price - 1
        /\ e.verdict.decision # "BUY_WETH" \/ Spendable(e) % price = 0 => lost = 0

\* The verdict, the searches and the badge on the adjudicator's page belong to
\* the run the visitor started last, for the market now selected.
RunIsForSelectedMarket ==
  page = "adjudicate" =>
    /\ view.ctrl # None => /\ view.ctrl = Len(calls)
                           /\ calls[view.ctrl].key = view.selectedId
    /\ \A i \in Calls : calls[i].reader = "open" => i = view.ctrl
    /\ \A k \in DOMAIN view.searchSteps : calls[view.searchSteps[k].call].key = view.selectedId
    /\ Len(view.searchSteps) <= 1
    /\ view.run.kind = "done" /\ view.run.commit # None =>
         calls[view.run.commit].key = view.selectedId

\* No market is resolved on chain by the page before its deadline is over:
\* "Any verdict before then would just be a forecast, so the agent doesn't run."
NoForecastOnChain ==
  \A market \in DOMAIN MARKETS : Resolved(book, market) => today > MARKETS[market].deadline

\* A badge on the adjudicator's page means the market pays once its transaction
\* is mined, even when the transaction itself reverted because an earlier run
\* of the same market was mined first.
BadgedMarketPays ==
  page = "adjudicate" /\ view.run.kind = "done" =>
    (view.run.commit \in Range(mined) => MarketGate(book, view.selectedId) = "pays")

\* A decision that moves the vault or the portfolio was made about them as they
\* were when it was asked for: nothing moved them in between.
JudgedWhatItMoves ==
  [][page # "adjudicate" /\ scenario.events # <<>> /\ Head(scenario.events).pending
     /\ scenario'.subject # scenario.subject
     => Head(scenario.events).snapshot = scenario.subject]_vars

\* A decision once shown stays: no late failure, fallback or other answer
\* changes it, and its badge is not taken away.
VerdictsAreFinal ==
  [][page # "adjudicate" =>
       \A k \in DOMAIN scenario.events : \A n \in DOMAIN scenario'.events :
         LET e == scenario.events[k]
             f == scenario'.events[n]
         IN  e.call = f.call /\ ~Waiting(e) =>
               f.verdict = e.verdict /\ (e.commit # None => f.commit = e.commit)]_vars

\* A resolved market stays resolved with the same winner.
ResolvedIsTerminal ==
  [][\A market \in DOMAIN MARKETS :
       Resolved(book, market) =>
         Latest(book', "adjudicate", market) = Latest(book, "adjudicate", market)]_vars

Waits == IF page = "adjudicate" THEN view.run.kind = "streaming" ELSE view.busy

\* The page always becomes usable again: the stream ends or breaks, and then
\* the page has its verdict or its fallback.
PagesSettle == Waits ~> ~Waits

\* What the node accepted, and a badge was perhaps shown for, is mined in the
\* end: no nonce below it stays unused, whichever calls were dropped or refused.
AcceptedIsMined == (pool # {}) ~> (pool = {})
=============================================================================
