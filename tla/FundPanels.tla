----------------------------- MODULE FundPanels -----------------------------
(***************************************************************************)
(* What a visitor sees of the two agents that own a fund: the page of the  *)
(* launch sniper and the live panel of the sovereign fund.  Both are       *)
(* composed by a server out of several reads of the chain, in stages: the  *)
(* reads of one stage go out together, and each may be answered from a     *)
(* later block than the last.  A list is read by a multicall, which the    *)
(* client splits into batches: requests of their own, each answered from a *)
(* block of its own.  A result that is a failure is left out of the list,  *)
(* the others keep their index.  Meanwhile the agent goes on.  The two     *)
(* contracts know nothing of each other; a behaviour is about one of them. *)
(***************************************************************************)
EXTENDS LaunchSniperFund, SovereignFund

CONSTANTS Shown,   \* ticks listed by the sovereign fund's panel: 5
          Batch,   \* calls of a multicall sent in one request: 28
          Panels   \* which of "sniper", "sovereign" are visited

ASSUME PanelsAssumption ==
  Shown \in Nat /\ Batch \in Nat \ {0} /\ Panels \subseteq {"sniper", "sovereign"}

VARIABLES shop,   \* the page visited
          panel   \* the reads made for it

panelVars == <<fundVars, sovereignVars, shop, panel>>

STAGES ==
  [sniper    |-> <<{"paperUsdc", "tickCount", "tokenCount"}, {"tokens"}, {"positions", "ticks"}>>,
   sovereign |-> <<{"tickCount"}, {"usdc", "weth"}, {"ticks"}>>]

LISTS == {"tokens", "positions", "ticks"}  \* read by a multicall

\* How much has happened: a history value, to tell whether a visit was torn.
Events == IF shop = "sniper" THEN Len(ticks) ELSE Len(trades) + outside.moves

\* A list holds the results there are, each at the place of its call: its
\* domain may have gaps.  complete: no result was a failure.  from and to are
\* history.
Unread ==
  [display |-> "loading", stage |-> 0, asked |-> {}, paperUsdc |-> 0, tickCount |-> 0, tokenCount |-> 0,
   tokens |-> <<>>, positions |-> <<>>, ticks |-> <<>>, usdc |-> 0, weth |-> 0,
   complete |-> TRUE, from |-> 0, to |-> 0]

PanelInit ==
  /\ FundInit /\ SovereignInit
  /\ shop \in Panels
  /\ panel = Unread

-----------------------------------------------------------------------------
\* The calls of a multicall, by their place in it.
Calls(field, p) ==
  CASE field = "tokens"    -> 1 .. p.tokenCount
    [] field = "positions" -> DOMAIN p.tokens
    [] field = "ticks"     -> {i \in 1 .. p.tickCount : shop = "sniper" \/ i <= Shown}

Chunk(i, calls) == (Cardinality({j \in calls : j <= i}) - 1) \div Batch

Batches(calls) == {{j \in calls : Chunk(j, calls) = Chunk(i, calls)} : i \in calls}

\* A request is the field it is for and the calls it carries.
Requests(field, p) ==
  IF field \in LISTS THEN {<<field, batch>> : batch \in Batches(Calls(field, p))}
                     ELSE {<<field, {}>>}

StageRequests(n, p) == UNION {Requests(field, p) : field \in STAGES[shop][n]}

Visit ==
  /\ panel = Unread
  /\ panel' = [panel EXCEPT !.stage = 1, !.asked = StageRequests(1, panel), !.from = Events]
  /\ UNCHANGED <<fundVars, sovereignVars, shop>>

Value(field) ==
  CASE field = "paperUsdc"  -> paperUsdc
    [] field = "tickCount"  -> IF shop = "sniper" THEN Len(ticks) ELSE Len(trades)
    [] field = "tokenCount" -> Len(tokens)
    [] field = "usdc"       -> balances.usdc
    [] field = "weth"       -> balances.weth

Read(request) ==
  /\ request \in panel.asked /\ request[1] \notin LISTS
  /\ panel' = [panel EXCEPT ![request[1]] = Value(request[1]), !.asked = @ \ {request}]
  /\ UNCHANGED <<fundVars, sovereignVars, shop>>

\* It raises, and the visitor sees the error.
ReadFails(request) ==
  /\ request \in panel.asked /\ request[1] \notin LISTS
  /\ panel' = [Unread EXCEPT !.display = "error"]
  /\ UNCHANGED <<fundVars, sovereignVars, shop>>

ItemFromEnd(field, i) ==  \* mutant: a tick is counted from the current end
  CASE field = "tokens"    -> tokens[i]
    [] field = "positions" -> positions[panel.tokens[i]]
    [] field = "ticks"     -> IF shop = "sniper" THEN ticks[Len(ticks) - panel.tickCount + i]
                                                 ELSE trades[Len(trades) + 1 - i]

\* The fund's panel asks for the newest tick first.
Item(field, i) ==
  CASE field = "tokens"    -> tokens[i]
    [] field = "positions" -> positions[panel.tokens[i]]
    [] field = "ticks"     -> IF shop = "sniper" THEN ticks[i] ELSE trades[panel.tickCount + 1 - i]

\* ok: the calls whose result is a success, none if the request itself fails.
ReadBatch(request, ok) ==
  /\ request \in panel.asked /\ request[1] \in LISTS
  /\ panel' = [panel EXCEPT
       ![request[1]] = [i \in DOMAIN @ \cup ok |-> IF i \in ok THEN Item(request[1], i) ELSE @[i]],
       !.asked = @ \ {request}, !.complete = @ /\ ok = request[2]]
  /\ UNCHANGED <<fundVars, sovereignVars, shop>>

\* When the last answer of a stage is in.
GoOn ==
  /\ panel.display = "loading" /\ panel.stage > 0 /\ panel.asked = {}
  /\ panel' = IF panel.stage < Len(STAGES[shop])
              THEN [panel EXCEPT !.stage = @ + 1, !.asked = StageRequests(panel.stage + 1, panel)]
              ELSE [panel EXCEPT !.display = "figures", !.to = Events]
  /\ UNCHANGED <<fundVars, sovereignVars, shop>>

Act ==
  /\ \/ shop = "sniper" /\ FundNext /\ UNCHANGED sovereignVars
     \/ shop = "sovereign" /\ SovereignNext /\ UNCHANGED fundVars
  /\ UNCHANGED <<shop, panel>>

PanelNext ==
  \/ Act
  \/ Visit \/ GoOn
  \/ \E request \in panel.asked :
       \/ Read(request) \/ ReadFails(request)
       \/ \E ok \in SUBSET request[2] : ReadBatch(request, ok)

PanelSpec == PanelInit /\ [][PanelNext]_panelVars

-----------------------------------------------------------------------------
\* FundOverview and PositionsPanel.

OpenPositions == {i \in DOMAIN panel.positions : panel.positions[i].open}

sumProceeds ==
  MapThenSumSet(LAMBDA i : panel.positions[i].proceedsUsdc, DOMAIN panel.positions)

sumCostBasis(which) == MapThenSumSet(LAMBDA i : panel.positions[i].costBasisUsdc, which)

\* Proceeds count in full, the cost only of what is closed.
realizedPnlUsdc == sumProceeds - sumCostBasis(DOMAIN panel.positions \ OpenPositions)

(* What stands on one page belongs together.  A row is the contract's tick *)
(* of its index, a listed token the contract's, each once; rows or tokens  *)
(* are missing only where a result was a failure.  The count is one of a   *)
(* moment of the visit, and so are the positions of one batch, of two      *)
(* batches perhaps not.  If nothing happened while the page was composed,  *)
(* the newest row bears the paper USDC shown; and if no result was a       *)
(* failure either, the page's own sums, the start, the P&L and the open    *)
(* positions, make up that balance, and every row's token is listed.       *)
SniperPageAgrees ==
  /\ \A i \in DOMAIN panel.ticks : i \in 1 .. panel.tickCount /\ panel.ticks[i] = ticks[i]
  /\ \A i \in DOMAIN panel.tokens : i \in 1 .. panel.tokenCount /\ panel.tokens[i] = tokens[i]
  /\ \A i, j \in DOMAIN panel.tokens : panel.tokens[i] = panel.tokens[j] => i = j
  /\ panel.tickCount \in panel.from .. panel.to
  /\ \A batch \in Batches(DOMAIN panel.tokens) :
       \E n \in panel.from .. panel.to : \A i \in batch \cap DOMAIN panel.positions :
         /\ panel.positions[i].amount = Held(n, panel.tokens[i])
         /\ panel.positions[i].costBasisUsdc = SpentOn(n, panel.tokens[i])
  /\ panel.complete =>
       /\ DOMAIN panel.ticks = 1 .. panel.tickCount
       /\ DOMAIN panel.positions = 1 .. panel.tokenCount
  /\ panel.from = panel.to =>
       /\ panel.tickCount \in DOMAIN panel.ticks =>
            panel.ticks[panel.tickCount].paperUsdcAfter = panel.paperUsdc
       /\ panel.complete =>
            /\ panel.paperUsdc = StartingUsdc + realizedPnlUsdc - sumCostBasis(OpenPositions)
            /\ \A i \in DOMAIN panel.ticks :
                 panel.ticks[i].call.token \in Range(panel.tokens) \cup {NoToken}

(* The rows of the fund's panel are the contract's ticks, newest first and *)
(* each at its place, of the last Shown counted none is missing but where  *)
(* a result was a failure.  If nothing has happened since the visit began, *)
(* the balances are the newest tick's but for transfers since.             *)
SovereignPanelAgrees ==
  /\ \A i \in DOMAIN panel.ticks :
       i \in 1 .. panel.tickCount /\ i <= Shown /\ panel.ticks[i] = trades[panel.tickCount + 1 - i]
  /\ panel.complete =>
       \A i \in 1 .. panel.tickCount : i <= Shown => i \in DOMAIN panel.ticks
  /\ panel.from = panel.to /\ Events = panel.to /\ 1 \in DOMAIN panel.ticks =>
       LET newest == panel.ticks[1]
       IN  /\ panel.usdc - newest.usdcAfter = outside.usdc - newest.outside.usdc
           /\ panel.weth - newest.wethAfter = outside.weth - newest.outside.weth

PanelsAgree ==
  panel.display = "figures" =>
    IF shop = "sniper" THEN SniperPageAgrees ELSE SovereignPanelAgrees
=============================================================================
