# Verification of the Theseus agent oracle

TLA+ models of the proof of concept in `src/`: an AI agent that writes an
Ethereum price feed, the contracts and tools around it, the consumers that read
it, and the demonstrations of the same idea that its web application serves:
agents that gate a mint, a bridge, a governance vote, a design change or a
market, agents that run a fund, and agents that merely answer. The models are
translated from the code; TLC checks them on small instances and the TLA+ proof
system (tlapm) proves the theorems for every value of the constants.

## 1. The system

| part | state | operations | talks to |
|------|-------|------------|----------|
| price oracle agent, `agents/price_oracle.ship` + `RECONCILIATION_POLICY.md` | the message list of each run, the `Reconciliation` passed between nodes | `start`, `read_venues`, `handle_tool_calls`, `reconcile`, `report_price`, `report_refusal` | venue tools, override pallet (through the runtime's tool executor), feed (through `evm_call`) |
| venue tools, `tools/src` | none | one HTTP or EVM read each, `ok = false` on every failure | Coinbase, Binance, Uniswap |
| tool-override pallet, `pallets/tool-override` | `Overrides[agent, tool]` with a run counter | `override_tool`, `clear_override`, `clear_overrides`, `tick`, `resolve` | called by `op`, by the tool executor |
| `AgentPriceFeed.sol` | `latestRoundId`, `rounds` | `reportPrice`, `reportRefusal`, Chainlink-shaped views that revert on a refusal | read by Aave, `op`, the web UI |
| `op` command line, `cli/src` | none | `tamper`, `reset`, `status`, `deposit`, `borrow`, `repay`, `withdraw`, `liquidate` | pallet, feed, Aave |
| feed panels, `ui/src/lib/feed-*.ts` | none between requests | `readFeed` (two calls), `readTimelineFromEvents` (head, then two log queries) | feed |
| Aave V3 (external; deployed by `contracts/script`) | positions | prices every asset through `latestAnswer` | feed |
| launch sniper, `ui/src/lib/launch-sniper`, `LaunchSniperFund.sol` | paper ledger, tick history, blob store | one tick per cron run: index, check, evaluate, publish blob, transact; a page that reads the ledger in stages | two chains, blob store, language model |
| verdict contracts (`TerraFailsafe`, `BridgeGuardian`, `GovernanceReviewer`, `AviationSafetyReviewer`, `PredictionMarketAdjudicator`) | the verdicts of each key, the keys ever touched | report or resolve or refuse; a gate that passes or reverts | written by the agents' account, read by protocols |
| agent routes, `ui/src/app/api/agent`, `ui/src/lib/agent-onchain` | one handler per request, the account's nonces at the node | stream the model's words, parse, publish the reasons, estimate, sign, send, tell the page | language model, blob store, node |
| verdict pages, `ui/src/app/{terra,bridge,governance,aviation,fund,adjudicate}`, `ui/src/lib/*-scenario.ts` | scenario with its timeline, busy flag, preset | submit, load a preset, reset, read a stream event by event, select a market, run again | agent routes |
| Aave page, `ui/src/app/aave`, `ui/src/lib/mock-scenario.ts` | readings, overrides, halts, depth, timeline | tamper, halt, pump, black swans, reset, each starting a run of the agent; polls of the venues | `api/agent/decide`, `api/venues` |
| sovereign fund, `SovereignFund.sol` | token balances, tick history | `tick` with a swap, `withdraw`; a panel that reads it in stages | Uniswap router |
| proof-of-agent demos, `ui/src/components/poa`, `ui/src/app/api/demo`, `ui/src/lib/poa/llm.ts` | a question and its answer per page, a comment thread, a bucket of tokens per address | ask, try another, regenerate the thread, comment | demo routes, language model |

### What is hard about it

* **Interleaving.** A run of the oracle is a chain of model calls, tool calls
  and one EVM call; the operator tampers and resets in between, and the runtime
  promises no order between a scheduled run and one the owner forces. In the web
  application a visitor goes on clicking while an answer streams, and the
  server goes on committing when its reader has left.
* **Ordering.** The override counter moves at the start of a run, its effect
  comes later in the run. Events of a stream are written to whatever row is at
  the head when they arrive. Answers to abandoned questions still land.
* **Partial failure.** Tools never raise (`handle_errors`), model calls and
  the EVM call do; a run may stop anywhere. `op status` makes three reads. A
  verdict is shown, its reasons published, its transaction sent and its badge
  told in separate steps, and the handler may end between any two.
* **Incomplete input.** The model may reconcile after any number of readings.
* **Numeric edges.** An even split of depth, a depth of zero, 50bps exactly,
  the floor when the price is scaled, the day of a deadline, the edge of an hour.
* **Readers that take several calls** while rounds, ticks and trades keep coming.
* **One signing account** shared by routes that each ask the node for a nonce.

`PROJECT.json` lists each hazard at its line with the properties that cover
it, or the reason why none does.

### What makes each part correct

* Decision rule: a price stands on two usable venues that agree within 50bps
  of a depth-weighted median; no single venue can move it.
* Agent: a tampered venue does not move the feed, whatever the runs share; the
  feed recovers from failures, round after round.
* Pallet: an override is served for no longer than was asked and needs no
  reset.
* Feed: ids are contiguous, history is immutable, a refusal stops every
  consumer that needs a price.
* Readers: what is shown is one round as it was written, without gaps.
* Launch sniper: a token is decided once, on a look that was true; no more
  than the cap is spent on it; every tick has its reason; the ledger is what the
  history says.
* Verdict contracts and routes: a badge is for the row's own transaction and
  decision; what a page shows allowed passes the gate and what it shows refused
  reverts; a resolution is final and is never a forecast; what the node accepted
  is mined.
* Verdict pages: a row never waits for a call that is gone; a decision is about
  the state it moves and does not change once shown; the page always becomes
  usable again.
* Aave page: a row shows what its own call was sent; the feed moves only when an
  answer lands.
* Funds: the balances are what the trades and transfers add up to; figures on one
  page belong together.
* Demos: an answer stands beside its question, a thread is of one regeneration,
  the limiter limits.

## 2. Modules

    Reconciliation ---- PolicyCheck --- MCPolicyCheck
        |
        +--- ToolOverride ---+
                             +--- PriceOracle --- MCPriceOracle
             AgentPriceFeed -+         \... implements CorroboratedFeed
                  |
                  +------------- FeedConsumers

    LaunchSniperFund --- LaunchSniper --- MCLaunchSniper
             |
             +---------+
    SovereignFund -----+--- FundPanels --- MCFundPanels

    Timeline -+- TerraScenario, BridgeScenario, GovernanceScenario,
              |  AviationScenario, FundScenario -----------+
              +- GateContracts, AgentAnswers - AgentServer -+- AgentPages --- MCAgentPages
    AaveScenario --- AavePage --- MCAavePage
    DemoServer --- DemoPages --- MCDemoPages

The price oracle:

* **Reconciliation** - the decision rule as operators: `Valid` (Rule 1),
  `Medians` (Rule 3), `Diverges` (Rule 4), `Verdicts` (the prompt of node
  `reconcile`). Where the code leaves the rule open, the operator is a *set* of
  outcomes: the prompt counts `ok` readings while the policy also asks for a
  fresh timestamp, and the model, given both and no clock, may apply either
  (`strict`); a median of an even split may be the lower, the upper or their
  midpoint; with all depths zero the weights are undefined and any reading may
  be the median.
* **PolicyCheck** - the rule as a machine of one step over all possible
  readings, compared with a reference definition of the depth-weighted median
  and with the "never do" list of the policy.
* **ToolOverride** - the pallet's storage for one agent. `Tick` is the
  two-pass loop of `tick`; `OverrideTool` is disabled for zero runs, which the
  extrinsic rejects.
* **AgentPriceFeed** - the contract. Both writers share `AppendRound`; a
  reverting transaction is a disabled action, a reverting view is a status.
* **CorroboratedFeed** - the promise to consumers: rounds come one by one,
  and a priced round is backed by two sources that quoted it within 0.5%.
* **PriceOracle** - the composition. `pc` is the node of each run; `calls`
  the dispatched tool calls that have not returned; `readings` the tool results
  in the message list. Each tool call, model call and EVM call is a step of its
  own. `HandleToolCalls` asks `Resolve` first and the venue otherwise; `Report`
  floors, writes a round and ends the run; `RunFails` ends it without. The
  message list belongs to the runtime, which the repository does not contain:
  `start` pushes the instructions each time and nothing clears the list. `EndRun`
  therefore lets the tool results of a trigger in `Lasting` stay for its next run,
  or not; what is claimed of the oracle holds either way.
  `faked`, `basis`, `evidence`, `grant`, `consulted`, `served` and `installs`
  are bookkeeping for the properties and bounds: no guard except the bound on
  `installs` reads them.
* **FeedConsumers** - `op status` and `readFeed` as two- and three-step
  readers, the timeline request as head, two independent queries and a merge,
  and Aave reduced to what it does with the feed: `AaveOracle.getAssetPrice`
  needs a positive answer, no fallback oracle is deployed (`DeployAave.s.sol`),
  supplying and repaying need no price, borrowing and liquidation do.

The two funds:

* **LaunchSniperFund** - the paper ledger. A call is the argument list of
  `tick`; `Accepts` is where it does not revert, `Hold`, `Pass`, `Buy` and `Sell`
  are its branches. `FundNext` is the contract alone, called with anything.
* **LaunchSniper** - the loop against that contract, extending it. A worker
  is a run of the tick endpoint; `step` names the await it has reached
  (candidates fetched, token picked, decided, blob offered, transaction
  signed) and `End` may stop it at each. `Send` puts the transaction at the nonce
  the worker was given: behind the others, or in the place of one with the same
  nonce. `Mine` executes or reverts the first. `looked` is bookkeeping.
* **SovereignFund** - balances and history around an external router.
  `SovereignTick` is `tick` with its three actions, `Withdraw` the owner's,
  `Receive` a plain transfer of which the contract learns nothing. `outside` is a
  history of the transfers.
* **FundPanels** - a visit to the page of either fund (`reader.ts` of the
  sniper, `SovereignFundLivePanel`) while its agent goes on. `STAGES` says
  which reads go out together; a read of a later stage uses what an earlier one
  returned (`Calls`: as many as were counted before). A list is read by a multicall,
  which viem (external) splits into `Batches` of about 1 KB of calldata, 28 of
  these calls: each is a request of its own, answered from a block of its own
  (`ReadBatch`), and each result in it may be a failure, which the readers leave out of
  the list. Any other failed read is an error (`ReadFails`).

The verdict pages and the server behind them:

* **Timeline** - what every scenario file does to its list of decisions:
  `Push` a placeholder, `Settle`, `Stream`, `Badge` the row at the head. The thing
  a page judges (vault, bridge state, proposal, design change, market) is its
  `subject`.
* **TerraScenario, BridgeScenario, GovernanceScenario, AviationScenario,
  FundScenario** - the reducers of the five files, under their names in the
  source, with what a verdict moves: Terra's vault, and the paper portfolio with
  its caps by what is held.
* **GateContracts** - the storage of the five contracts as one `book`.
  `TerraReport` keeps every round; the others overwrite (`Overwrite`); `Resolve`
  and `Refuse` leave a resolved market alone. `TerraGate`, `BridgeGate` and
  `MarketGate` are what a protocol that asks is told.
* **AgentAnswers** - what each of the six callers makes of a completion that
  is missing, unreadable or an object with any word and number.
* **AgentServer** - a call is one request being served: `Receive` (or 503),
  `Answer`, then `Skip` without an agent key, `Prepare` (blob, encoding, estimate,
  nonce), `Send` or `SendUnanswered`; `Kill` ends it anywhere. `Mine` takes the
  transaction with the next nonce. `Decline` is the agent's own refusal of an open
  market, which no route makes (external). `Midnight` moves the date.
* **AgentPages** - one visitor's tab on one of six pages. Forms and preset
  controls are the guards (`MintRedeemForm`, `TerraScenarioControls`, ...): a form
  asks `busy` and `pending`, the preset controls only `pending`. `ReadEvent` is one
  event of the stream written to the page, `EndOfStream` and `Disconnect` its
  end, with the page's fallback when no verdict came. On the adjudicator's page
  `SelectMarket` and `Adjudicate` abort the stream being read, and `CatchUp` is the
  end of the typewriter, which enables the re-run.

The Aave page and the demos:

* **AaveScenario** - the reducers of `mock-scenario.ts`: manipulations of
  readings, halts and depth, each with its placeholder; the answer that takes the
  place of the newest placeholder; the derived venues, feed and timeline.
* **AavePage** - the page in a deployment without a feed address, where it
  owns its state. `runWithAgent` keeps in `calls` what its closure keeps (what was
  sent and the block of the draft's newest row); `Answer`, `Unreachable` and
  `Reasoning` are its awaits. The links are disabled while a row waits, a card
  (`TamperForm`, `CardReset`) knows only its own run, and a `?scenario=` link
  (`PendingUrlScenario`) waits for the first readings.
* **DemoServer** - the demo routes: `rateLimit` is the bucket, taken before
  anything else is looked at; a handler replies no key, an error, or one of the
  answers that parse. `at` and the list of all requests are history.
* **DemoPages** - the five pages, which differ in their forms and results,
  and the Moltbook thread: `regenerateThread` sends a request per commenter,
  `Commented` is `Promise.all`'s collection of the replies, `CommentBroken` its
  rejection. `Reset` is "try another", which leaves the request on its way.

Proof modules: **ReconciliationProofs**, **PolicyCheckProofs**, **OracleProofs** (the
oracle, and the readers of its feed), **Sums** (the laws of finite sums and of
sorted lists, about no component), **FundProofs** (the launch sniper, the sovereign fund and the panels of
both), **AavePageProofs**, **AgentPagesProofs**, **DemoPagesProofs**.

Definitions marked `mutant` in a comment are the altered forms by which each
property is shown to depend on the code; no specification uses them.

### Abstractions

* The oracle's language model is taken to apply the two texts it is given.
  Nothing in the code forces this: the contract accepts whatever the agent's
  address reports. What is *not* assumed is that it reads all venues, reads each
  once, resolves the ambiguities above in a fixed way, or answers at all. The
  other agents' models may answer anything: a completion is a kind (none,
  garbled, an object) with any of the words and numbers that the callers
  tell apart.
* Prices are integers in a unit `SubUnits` times finer than the feed's, so
  the floor of `report_price` is kept; floating-point rounding below that is not.
  A reading's error text and the detail after `venue_divergence:` are left out,
  so a reason hash is the reason's name. The averages of the Aave page are
  rounded down.
* Chain reorganisations are left out. A reader of the feed may see the rounds
  of the block being built; a real node answers from the last finished one, so
  the model has more interleavings than the code, never fewer. In `FundPanels`
  reads are answered in some order from blocks that do not go back: a node that
  lags behind the one that answered before is left out.
* The sniper's block numbers are reduced to the left edge of the indexer's
  window (`aged`), its research to an arbitrary price and depth; a WETH-quoted
  pool has no fill, as an uninitialised one, so both are price 0. The reason
  hash is the blob's content, so the model says nothing of serialisation. The
  `touched` flags are membership in `tokens`. `isAlreadyTouched` reads a list
  that only grows, entry by entry up to the length it read first, so it is one
  look. A blob whose tick was never sent changes nothing and is not kept.
  Of other users of the signing key only heartbeats and sales are modelled
  (`ByHand`): no code in `src/` sends them, so they are external.
* A debt prevents withdrawal from Aave altogether (with a price, a small
  withdrawal may leave the health factor above one; it changes neither `debt` nor
  whether there is collateral, which is all the model keeps).
* The wire of a stream is a sequence of events; the text of a chunk and its
  parsing are left out, except that a stream may break after any event. A verdict's
  reason hash is the number of the call that filed it. A pending transaction is
  never replaced by another of its nonce with a higher fee: of two that were given
  one nonce, the node keeps the first (in `LaunchSniper`, whose `Send` may put a
  transaction in another's place, either). The verdict contracts'
  checks of the sender and of a non-empty hash never fail here.
* One tab and one visitor per behaviour. What several visitors add on the server
  is what several calls of one do: the routes keep nothing between requests but the
  account's nonces.
* The router takes the whole input it was allowed and returns an output that
  meets the floor, or reverts. Its deadline is one of the reasons to revert.
* The adjudicator's markets are two, with deadlines a day apart; the visitor's
  day and the server's are the same, though the page asks the browser's clock and
  the route asks none; what a
  visitor types is always within the length a form admits; the rate limit is that
  of one address on one server.

## 3. Runs

| run | question | instance |
|-----|----------|----------|
| `policy` | Does the rule do what the policy says, for all readings of three venues? | 5 prices (neighbours inside the band, two on its edge with one between, one at twice the band, one far out), depths 0, 1, 3, a fresh and a stale timestamp |
| `oracle_safety` | Is the feed safe while runs overlap and the operator tampers? | 2 venues, both triggers, tool results of scheduled runs that last or not, 1 tamper of up to 2 runs with a price on or beyond the 50bps edge, a clock that moves once, 1 round, 3 sub-units (1.4 million states) |
| `oracle_runs` | Do overrides expire, and does the feed recover and keep its promise round after round? | fairness, both triggers, 2 tampers of one venue of up to 2 runs, 2 rounds (326 000 states) |
| `feed_consumers` | Do readers, borrowers and the timeline see a consistent feed? | `op status`, whose first two calls are those of a panel, 3 rounds in 5 blocks, a zero and a positive answer, look-back of 2 blocks, the newest 2 shown (1.6 million states) |
| `fund_panels` | Are the funds' ledgers what their histories say, and do the pages' figures belong together? | 2 tokens, amounts of 0 to 2 paper USDC, 1 to start with, 3 ticks, every call a batch of its own; swaps and transfers of 0 or 1, 2 trades, 2 transfers, 1 row listed (820 000 states) |
| `sniper` | What can overlapping or dying runs of the sniper do? | 2 runs, 2 tokens, 2 pools, 2 ticks; sizes below, within and above the guardrail of 2; with and without a price and depth |
| `agent_pages` | Do page, verdict and contract agree, and does the page settle? | each of 6 pages, its calm state and one stressed preset, with and without either key, 2 calls, 2 rows, 3 blocks, 2 days (510 000 states, fairness) |
| `aave_page` | Do rows keep their inputs and the feed its value while runs overlap? | 3 venues, 2 runs, 2 rows, calm, moved and failing readings |
| `demo_pages` | Do answers, threads and the limit stay right when replies are late or lost? | 5 pages, 2 texts, 2 commenters, 4 requests, a limit of 2 in an hour of 1 tick, 3 ticks (430 000 states) |
| `override_grant` | finding: does an override reach the next run? | scheduled trigger, 2 tampers, 1 round |
| `status_after_refusal` | finding: can `op status` show a refusal? | as `feed_consumers` |
| `per_token_cap` | finding: is the cap per token kept? | as `sniper` |

What the properties say:

* `MedianMatchesReference`: the price is the textbook depth-weighted median or,
  on an even split, lies between the two that qualify. `NeverAveragesAnOutlier`:
  usable readings behind a price are within 1% of it from each other - 0.5% on
  either side, and the bound is met. `DepthMajorityDecides`: whoever has most
  of the depth sets the price. `OneVenueMovesPriceWithinBand`: replacing one
  venue's reading by any other moves a price within the band or yields a refusal.
* `OneFakeIsContained`: with one overridden reading behind a price
  there is an honest one too, and all honest ones are within 0.5% of it plus
  what the floor can lose. `GrantIsNeverExceeded`: an override granted N runs
  answers at most N scheduled runs, wherever in a run it was installed.
  `ImplementsCorroboratedFeed`: the refinement. `OverridesExpire`,
  `FeedRecovers`: liveness, see below.
* `RoundsAreContiguous`, `HistoryIsImmutable`, `ReadersShowOneRound`,
  `TimelineHasNoGap`: what readers rely on. `RefusalHaltsRisk`: while the feed
  refuses, nobody gets into debt and no position with a debt is closed
  against its collateral.
* `NoRedecisionAfterLook`: what a run of the sniper commits had not been
  decided when it looked; hence only overlapping runs decide a token twice, and
  `CapUnlessOverlap`: only they spend more than the guardrail on it.
  `TicksCarryTheirReason`: a tick's reason was offered for publication before,
  and states token and fill of the tick, on all three paths of `executeTick`.
* `LedgerReplays`: an auditor who sums up the sniper's history gets every
  balance stored with a tick and every field of every position.
  `TradesExplainBalances`: what the sovereign fund holds, and what it stored with
  each tick, is its trades plus the transfers before. `PanelsAgree`: each row and
  each token on a page is the contract's of its index, none is missing but where a
  result was a failure, the positions of one batch are of one moment of the visit,
  and in a quiet moment without failures the page's sums make up its balance. It
  does not say that a list is whole, or that the positions of two batches ever stood
  side by side: failures show fewer ticks, perhaps "No ticks yet", beside their count.
* `BadgeMatchesRow`: a badge is for the transaction of the row's own request,
  which the node has and which carries the decision shown. `RowAgreesWithGate`:
  a mined row that is the last of its key agrees with the gate. `NoOrphanRow`:
  whenever the page takes another request, every row has its decision.
  `TradeKeepsNav`: a paper trade moves value between cash and token at the price the
  agent was asked with and creates none. `JudgedWhatItMoves`: a
  decision that moves the vault or the portfolio was made about them as they
  are. `VerdictsAreFinal`: no late failure or other answer changes a decision once
  shown, or takes its badge away.
* `RunIsForSelectedMarket`: reasoning, searches, verdict and badge on the
  adjudicator's page are of the market selected, however often it was switched.
  `NoForecastOnChain`: through the page no market is resolved before its
  deadline is over. `ResolvedIsTerminal`: a resolution never changes.
  `BadgedMarketPays`: a badge there means the market pays once the transaction is
  in a block, even if that transaction itself reverted behind an earlier one.
* `PagesSettle`, `AcceptedIsMined`: liveness, see below.
* `InspectIsWhatAgentSaw`: block, readings, reasoning and cost in a row of the
  Aave page are those of its own call. `PendingUnlessOverlap`: unless runs overlap,
  a row waits exactly while its call is in flight. After an overlap (two cards,
  or a card and a link) a placeholder may wait for ever: the first answer takes
  the newest one's place, which the condition makes explicit.
  `FeedHoldsWhileReasoning`: the feed keeps its verdict until the step in which
  an answer lands.
* `AnswerIsForItsInput`, `ThreadIsOneGeneration`, `WithinTwiceTheLimit`: the
  demos. The last is the bound that a bucket refilled all at once really
  gives: an hour across two windows can be served more than the limit, never twice.

### Bounds

`MaxInstalls`, `MaxRuns`, `Targets` (the venues tampered with), `MaxRoundId`, `MaxTime`, `Lookback`, `Slice`,
`MaxTicks`, `MaxPools`, `MaxCandidates`, `MaxTrades`, `MaxMoves`, `Shown`,
`MaxCalls`, `MaxEvents`, `MaxBlocks`, `LastDay`, `MaxQuestions`, `MaxRequests` and
`MaxComments` are the named bounds; `Limit`, `Hour` and `Batch` are parameters of the
code and the library.

Two venues suffice for the oracle because the rule itself is
checked with three in `policy`, and because the arguments concern at most one
fake and one honest venue; the theorems hold for any number. One tamper of two
runs is enough for a grant to be exceeded (the mutant of `Tick` shows it).
In `oracle_runs` the second round has a first one behind it that was priced or
refused, by either trigger, with the other one's run anywhere; the two tampers
are an install and its renewal or replacement. The refinement is checked in both
oracle runs: with stale and lasting readings for one round, and over two rounds.
In `sniper`, a repeated decision takes two runs, one token and two ticks;
the second token is there to be skipped and passed over, and two buys of 2 do not
fit in 3, so that a transaction reverts after it was estimated.
In `fund_panels`, of two trades the panel lists one, a visit of three stages can be
torn by three ticks at three places, and between any two batches of a list.
In `agent_pages` two calls are one that is read and one left behind, or two
racing for a nonce or a market; the presets, three blocks and two rows let a
row scroll off; the second day ends the second market's deadline.
In `aave_page` two rows are fewer than the venues, so that the cut of
the list happens; with two runs at most one placeholder stands beside a verdict, as
in the code, whose 20 rows are more than the runs that cards, links and URL can
start at once.
In `demo_pages` three of four requests pass in an hour that straddles two windows
of two, the most there can be; a question competes with a generation of the thread
and two generations with each other. The theorems about the oracle, the
funds and their panels, the verdict pages and their server, the Aave page and the
demos hold for any number of each.
Time moves in `oracle_safety`, between a reading and its reconciliation too, and
stands still in `oracle_runs`, whose properties do not depend on it. Symmetry (venues, tokens, workers, texts) is used only in
runs without liveness. Deadlock is checked in `aave_page`, where readings never
stop, and not elsewhere: visitors and agents may stop, and the models stop
when round ids, the clock or the bounds on histories run out.

`TimelineHasNoGap` states the order and the cut-off only for rounds in different
blocks: `sort` compares blocks alone, so two rounds of one block are shown
with the priced one first. That nothing outside the look-back window is shown
and that a short timeline is complete holds without this condition.

### Fairness

Oracle: `WF(StartScheduled)`, the runtime keeps scheduling the agent
(`schedule = 10`), and `WF(RunStep(c))`, it keeps executing a run it has started.
A run step includes `RunFails`, so fairness never forces a run to succeed. Nothing
is assumed of the operator, the owner, the users, the readers or the clock.
Two things that no code guarantees appear as hypotheses *inside* the
properties: `ModelSettles` (the model does not ask for the same venues
forever: the program has no limit on that loop) and, for `FeedRecovers`,
`FailuresCease`. `FeedRecovers` therefore says that no state reached through
failures, refusals, tampering and failed venues, before the first round or after
it, blocks the rounds that may still come: the last id is reached for good.

Verdict pages: `WF(Progress)`, one assumption for all of it: handlers that run,
a browser that has something to read and a chain with a pending transaction do
not all stop. The routes justify it with their time limits (`maxDuration`, 35 to
120 seconds) and the chain with its blocks. Clicks, lost
connections, killed handlers, days and the agent's own refusals are never
assumed, and `Answer` may always be the failure. `PagesSettle`: whatever becomes
of stream and server, the page stops waiting. `AcceptedIsMined`: no dropped or
refused call leaves a gap in the nonces below an accepted transaction.

## 4. Findings

* **The last granted run never sees an override** (`override_grant`).
  `tick` runs at the start of a scheduled run and drops entries with
  `runs_remaining <= 1` before the first tool call resolves. An override for N
  runs reaches N - 1, and the default of `op tamper`, one run, reaches none,
  against the comment on `override_tool` ("The next `runs_remaining` scheduled
  runs of the agent will see `value`"). Counterexample: `Tamper`, `StartScheduled`.
* **`op status` cannot show a refusal** (`status_after_refusal`) to a user with
  collateral: the position read reverts with the feed, and `status` gives up
  before printing. `scripts/demo.sh` runs it at just that moment.
* **Two runs exceed the cap on a token** (`per_token_cap`). Nothing
  serialises the runs of the endpoint (cron, `workflow_dispatch`, or any request
  to the public route), the duplicate check comes a model call before the
  transaction, and `tick` has no limit per token. Two runs that overlap buy
  the same token, each up to the guardrail, against "Never exceed 250 USDC per
  token" (`evaluator.ts:34`).

Met while modelling, without a line of the repository that says otherwise: the
placeholder that waits for ever after an overlap on the Aave page; "No ticks
yet" after failed reads; the sniper's realized P&L, which counts all
proceeds but only the cost of closed positions.

## 5. Proofs

36 theorems in 8 modules, checked by tlapm. Assumptions on the constants are the
`ASSUME`s of the modules: finitely many venues and tokens, natural prices, depths
and bounds, `SubUnits`, `Lookback`, `Slice` and `Limit` positive, at least one commenter, `None`
different from the values it stands beside (the verdicts and decisions too), the
pages visited among the six there are, and the presets tried among those of the
file.

* **The rule.** `VerdictIsSupported` is the key lemma: a verdict is well formed
  and, if priced, rests on two usable readings none of which diverges. From it
  and `VerdictAlwaysFollows` (a machine of one step keeps verdict and readings
  together): `NoOutlierIsAveraged` and `OneVenueCannotMoveThePrice`. The latter
  needs a reading shared by both verdicts: two usable readings each side, one
  venue changed. `DepthDecides` and `PriceIsTextbookMedian` rest on depth being a
  measure (`DepthAddsUp`): a set of venues with more than half of it cannot lie
  strictly on one side of a median (`MajorityReachesMedian`), and what bounds the
  medians bounds their midpoints (`MediansLieBetween`). The proof
  corrected the property: it used to say that on an even split the price lies
  below the *next price up*, and a reading without depth between the two halves
  refutes that (400 and 402 with depth 1, 401 with none: 402 qualifies). The prices of
  the run now contain the case.
* **Types.** `TypeCorrectness` (`TypeOK` is inductive as it stands).
* **Grants.** `GrantsAreRespected` needs `GrantCovers`: while an override is
  installed, the runs it was consulted in, the runs it may still see after the
  ticks before them (`runs_remaining - 1`), and the scheduled run in progress if
  it has not been served yet (`Pending`) stay together within the grant. A bare
  bound on `consulted` is not inductive, because the tick of a run and its
  first resolve are separate steps and an install may fall between them. The
  account of an override is closed when it is removed (`ClosingSettles`).
* **The feed.** `EvidenceInv` carries the support of a verdict from `Reconcile`
  through `result` and `basis` to the round: each run about to report, and the
  latest round, have a basis in which no reading diverges. `FloorBounds` bounds
  the floor. From it `OneFakeCannotMoveTheFeed` and `Refinement`, the
  implementation of `CorroboratedFeed`: only `Report` is visible to a
  consumer, every other step is a stutter.
* **Readers.** `FeedInv` (ids contiguous, times monotonic and not in the future)
  and `ReaderInv` (the id a reader holds is one that was latest since it
  started) give `HistoryHasNoGap`, `HistoryNeverChanges`, `RefusalHalts` and
  `ReadersAreConsistent`. `TimelinesAreWhole` needs `TimelineInv`: the head
  of a request is a block that has ended, so its window no longer changes
  (`WindowStays`), and the query that returned has the whole of it; `SortExists`
  shows that a finite set in a linear order can be listed, `CutShows` that the first
  entries of the list are what the property asks.
* **Launch sniper.** The invariant of `FundProofs` follows a look
  from the run to the history: a picked token, a decided call and a pending
  transaction are each `Fresh` for the history the run had seen (`RunsLooked`,
  `PendingLooked`); that history only grows (`FreshStays`), and `Listed` (every
  token of the history is in `tokens`) is what makes a look worth
  something. From it `NoTokenIsRedecided`. `CapHoldsWithoutOverlap` adds
  `Bought` (a cost basis comes from a recorded BUY): a BUY on top of one
  that was there when its run looked would not have been fresh.
  `ReasonsAreCommittedTo` follows the reason the same way (`ReasonInv`): every
  plan is explained when it is made, because the downgrade comes before the blob
  (`PlansAreExplained`); a signed plan is also published; the mempool holds
  only such, and so the history.
* **Funds.** What a fund holds is a sum, and the prover has no laws of sums.
  `Sums` proves those needed, by induction over a finite set that grows by one
  element: the empty sum, a step (`TotalStep`), a term changed or added
  (`TotalChanged`, `TotalExtended`), sums of differences and over two parts.
  `HistoriesReplay` and `LoopReplays` (the same property of the contract that the
  panels read and of the contract under the loop) need `LedgerInv`:
  the ledger equals the replay of *every* prefix of the history, not only of the
  whole, because each tick anchors its balance. `TradesAddUp` needs
  `SovereignInv`: per token, recorded balance and transfers; the router may
  deliver any amount, and what it delivers is what is recorded.
  `PagesAgree` adds `ListInv` (the list a panel shows adds up to
  the balance) and `PanelInv`: of each answer on the page, the moment it is of, batch
  by batch, and of each list, the calls that are still out or were failures. No
  invariant about finished pages alone is inductive; this one says that a
  visit that no tick disturbed holds answers that are all of the present, and that
  a visit that was torn apart is told so by what it read.
* **Aave page.** `RowsShowWhatWasSent`: `PageInv` says that every row, the
  waiting ones included, has the block and the inputs of its call, and a settled
  one that call's reasoning. `WaitsForItsCall` adds
  `AloneInv`: without an overlap there is one run at most, only the head waits,
  and for that run. `FeedKeepsItsVerdict` has to show that the cut of the list never
  drops the last settled row: `OriginInv` gives each run in flight a control of its
  own (a venue's card, the links, or the URL, none of which takes a click while busy),
  so the placeholders above that row are at most the venues plus two (`LeadInv`,
  counted with `Sums`). The hypothesis, a list longer than that, is the code's: 20 rows,
  three venues.
* **Markets.** `MarketInv` has three parts. `Signed`: the shape of storage and
  requests, and no pending transaction is the paper fund's. `Timely`: every
  request to the adjudicator is for a market that is over. `Attended`: on the
  adjudicator's page a run that is not idle, and every stream still read, is of
  the selected market, which is over; it is needed because a re-run asks for no
  date. With `ResolvedStays` (what is written under other keys, or refused,
  leaves a resolution alone) they give `ResolutionIsFinal` and `NothingIsForecast`.
* **Verdict pages.** The invariant of `AgentPagesProofs`, `AgentInv`, extends
  `MarketInv` by one part for each side of the stream; TLC found it to hold in
  every state of `agent_pages`. None of the eight properties is inductive, because the
  badge that is shown late is decided early: what counts is what is still on the
  wire.
  `ServerInv`: of every request, what its handler has told and what its
  reader has read agree with where it is (`CallOK`: a "committed" event waits on the wire
  only of a request that is on chain, behind the "final" event with the verdict that
  is in the transaction; a search is announced once and first), and every verdict
  in the contracts' storage is `Attributed` to a mined request (`Tied`).
  `PageInv`: each row has the number of its request, numbers fall from the head
  down, only the head may wait, and only while the page is busy; an open
  stream is the last request's, whose row is the head (`TimelineOK`), and
  it has either its verdict still to come or the one the head shows (`Awaits`). From
  these: `BadgesAreTheirRows`, `RowsAreSettled`, and `GateAgreesWithRow`,
  which looks up the latest verdict of the row's key and finds its request.
  `SubjectWaits` and `DecisionsStay` are step properties: `RowsKept` is proved of
  every reducer, and the head can be rewritten only while it waits.
  `AdjInv`: what the adjudicator's page shows, and the one stream it still reads,
  is of the market selected; `OldRunsStaySilent` and `BadgeMeansResolved`
  follow, the latter with the part of `Tied` that says a mined request to the
  adjudicator, reverted or not, leaves its market resolved.
  `TradesKeepTheirWorth` adds `TradeInv`: a decision on a row of the paper fund
  stands beside the portfolio it makes of the *snapshot*, at the snapshot's price. It
  is inductive because the head's snapshot is the page's state as long as the head
  waits (`TimelineOK`). With whole numbers a purchase the price does not divide loses
  the rest, less than one unit's price; the property says so, and that nothing is lost
  otherwise (the code's floating point has no such rest).
* **Demos.** Requests are only added (`Grown`) or answered and read (`Kept`), and
  never change once read. `AnswersMeetTheirQuestions`: `LiveInv` names the request
  behind what is on show. `ThreadsAreWhole`: `ThreadInv` says that each
  generation was asked of each commenter (`Numbered`), and that the generation
  on show was told by all of them; the last reply read finds all of its
  generation landed. `LimiterHolds`: the invariant `Window` counts what passed since
  the bucket's window opened, within the limit together with the tokens left, and
  what passed in the hour before it opened, *below* the limit: the window before
  was opened by a request more than an hour older. An hour that reaches into the
  window lies in those two.

Only model-checked:

* `OverridesExpire`, `FeedRecovers`, `PagesSettle`, `AcceptedIsMined`: liveness
  under fairness, and the hypotheses of the first two, are out of the prover's reach.

## 6. Not modelled

* The live mode of the Aave page (with a feed address the page polls the feed,
  which is the panels of `FeedConsumers`) and its position panel; the state
  that the server keeps for mock answers (`mock-state.ts`) and the routes that
  serve it: pages in mock mode keep their own state and ask only the position
  route, which then answers with a constant.
* Prompts, and the parsing of a stream into chunks and of a completion into an
  object: what a caller may conclude is in `AgentAnswers`, every outcome allowed.
* The HTTP readers of the UI and of the venue tools and the TWAP arithmetic:
  stateless, and their results are inputs.
* Retrieval and pinning of blobs; the local signature play of the demos
  (`sim-sig`, and of `TamperTest` all but the form and result of its event):
  no state that another component reads.
* ABI encoding, presentation and formatting, except what a row of a
  timeline says.
* Deployment scripts and contract mocks: their outcome is the initial state.
