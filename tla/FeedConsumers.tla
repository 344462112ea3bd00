--------------------------- MODULE FeedConsumers ---------------------------
(***************************************************************************)
(* Everything that reads the feed: `op status' (cli/src), the web panels   *)
(* (ui/src/lib/feed-state.ts, feed-events.ts) and Aave, whose contracts    *)
(* are external and modelled by the one thing they do with the feed.  Each *)
(* RPC call of a reader is a step of its own; the agent may report and a   *)
(* block may end between any two.  The agent is free to report anything.   *)
(***************************************************************************)
EXTENDS AgentPriceFeed, Sequences, SequencesExt

CONSTANTS
  Reports,    \* answers the agent may report in this model
  Readers,    \* concurrent readers: "op" runs op status, the rest readFeed
  Lookback,   \* LOOKBACK_BLOCKS of the timeline
  Slice       \* the timeline keeps this many entries

ASSUME ConsumersAssumption ==
  Reports \subseteq Int /\ Lookback \in Nat \ {0} /\ Slice \in Nat \ {0}

VARIABLES
  reader,     \* per reader: step, id read first, round read second
  startedAt,  \* bookkeeping: latestRoundId when the reader's command began
  timeline,   \* the timeline request: step, head, logs, entries
  collateral, \* the user has WETH in the pool
  debt        \* the user owes USDC

userVars == <<collateral, debt>>
consumerVars == <<feedVars, reader, startedAt, timeline, userVars>>

Idle == [step |-> "idle", id |-> 0, round |-> NoRound]

NoTimeline == [step |-> "idle", head |-> 0, priced |-> {}, refused |-> {},
               asked |-> {}, entries |-> <<>>]

ConsumersInit ==
  /\ FeedInit
  /\ reader     = [r \in Readers |-> Idle]
  /\ startedAt  = [r \in Readers |-> 0]
  /\ timeline   = NoTimeline
  /\ collateral = FALSE
  /\ debt       = FALSE

AgentReports ==
  /\ \/ \E a \in Reports : ReportPrice(Agent, a)
     \/ \E h \in Hashes : ReportRefusal(Agent, h)
  /\ UNCHANGED <<reader, startedAt, timeline, userVars>>

BlockEnds == AdvanceTime /\ UNCHANGED <<reader, startedAt, timeline, userVars>>

----------------------------------------------------------------------------
(* Aave.  AaveOracle.getAssetPrice takes a positive latestAnswer; a revert *)
(* of the feed propagates, and no fallback oracle is deployed.  Supplying  *)
(* and repaying need no price, withdrawing needs one only against a debt.  *)
AavePriceAvailable == LatestAnswer.status = "ok" /\ LatestAnswer.answer > 0

Supply == ~collateral /\ collateral' = TRUE /\ UNCHANGED debt

Borrow == collateral /\ AavePriceAvailable /\ debt' = TRUE /\ UNCHANGED collateral

Repay == debt /\ debt' = FALSE /\ UNCHANGED collateral

Withdraw ==
  /\ collateral
  /\ ~debt     \* with a debt the health factor would fall below one
  /\ collateral' = FALSE
  /\ UNCHANGED debt

(* liquidationCall by a third party closes the position.                   *)
Liquidate ==
  /\ debt /\ AavePriceAvailable
  /\ debt' = FALSE /\ collateral' = FALSE

User ==
  /\ Supply \/ Borrow \/ Repay \/ Withdraw \/ Liquidate
  /\ UNCHANGED <<feedVars, reader, startedAt, timeline>>

----------------------------------------------------------------------------
(* feed_status and readFeed: latestRoundId first, then rounds(id).  The    *)
(* panel of the web page is done then; op status goes on.                  *)
ReadLatestRoundId(r) ==
  /\ reader[r].step \in {"idle", "done", "failed"}
  /\ reader' = [reader EXCEPT ![r] = [Idle EXCEPT !.step = "id", !.id = latestRoundId]]
  /\ startedAt' = [startedAt EXCEPT ![r] = latestRoundId]

ReadRoundTorn(r) ==  \* mutant: the decision is asked of latestDecision()
  /\ reader[r].step = "id"
  /\ reader' = [reader EXCEPT ![r] =
       [@ EXCEPT !.step  = IF r = "op" THEN "position" ELSE "done",
                 !.round = [GetRoundData(reader[r].id) EXCEPT !.decision = LatestDecision]]]
  /\ UNCHANGED startedAt

ReadRound(r) ==
  /\ reader[r].step = "id"
  /\ reader' = [reader EXCEPT ![r] =
       [@ EXCEPT !.step  = IF r = "op" THEN "position" ELSE "done",
                 !.round = GetRoundData(reader[r].id)]]
  /\ UNCHANGED startedAt

(* user_position: getUserAccountData prices every asset the user holds, so *)
(* it reverts with the feed, and status gives up on the first error.       *)
ReadPosition(r) ==
  /\ reader[r].step = "position"
  /\ reader' = [reader EXCEPT ![r].step =
                  IF collateral /\ ~AavePriceAvailable THEN "failed" ELSE "done"]
  /\ UNCHANGED startedAt

Read(r) ==
  /\ ReadLatestRoundId(r) \/ ReadRound(r) \/ ReadPosition(r)
  /\ UNCHANGED <<feedVars, timeline, userVars>>

----------------------------------------------------------------------------
(* readTimelineFromEvents.  The head is the last block that has ended; the *)
(* two log queries run concurrently, both up to that head.                 *)
RoundsWith(decision, from, to) ==
  {id \in 1 .. latestRoundId :
     rounds[id].decision = decision /\ rounds[id].updatedAt \in from .. to}

Newer(i, j) ==   \* the order sort() leaves: by block, priced logs first, then log order
  \/ rounds[i].updatedAt > rounds[j].updatedAt
  \/ /\ rounds[i].updatedAt = rounds[j].updatedAt
     /\ \/ rounds[i].decision = "PRICED" /\ rounds[j].decision = "REFUSED"
        \/ rounds[i].decision = rounds[j].decision /\ i < j

Sorted(ids) ==
  CHOOSE s \in [1 .. Cardinality(ids) -> ids] :
    \A k, l \in DOMAIN s : k < l => Newer(s[k], s[l])

From(head) == IF head > Lookback THEN head - Lookback ELSE 0

ReadHead ==
  /\ timeline.step \in {"idle", "done"}
  /\ now > 0
  /\ timeline' = [NoTimeline EXCEPT !.step = "query", !.head = now - 1]

QueryLogsToLatest(decision) ==  \* mutant: toBlock left at the default, "latest"
  /\ timeline.step = "query"
  /\ decision \notin timeline.asked
  /\ LET ids == RoundsWith(decision, From(timeline.head), now)
     IN  timeline' = [timeline EXCEPT
           !.asked = @ \cup {decision},
           !.priced = IF decision = "PRICED" THEN ids ELSE @,
           !.refused = IF decision = "REFUSED" THEN ids ELSE @]

QueryLogs(decision) ==
  /\ timeline.step = "query"
  /\ decision \notin timeline.asked
  /\ LET ids == RoundsWith(decision, From(timeline.head), timeline.head)
     IN  timeline' = [timeline EXCEPT
           !.asked = @ \cup {decision},
           !.priced = IF decision = "PRICED" THEN ids ELSE @,
           !.refused = IF decision = "REFUSED" THEN ids ELSE @]

MergeLogs ==
  /\ timeline.step = "query"
  /\ timeline.asked = {"PRICED", "REFUSED"}
  /\ LET sorted == Sorted(timeline.priced \cup timeline.refused)
     IN  timeline' = [timeline EXCEPT
           !.step = "done",
           !.entries = SubSeq(sorted, 1, IF Len(sorted) < Slice THEN Len(sorted) ELSE Slice)]

Timeline ==
  /\ ReadHead \/ (\E d \in {"PRICED", "REFUSED"} : QueryLogs(d)) \/ MergeLogs
  /\ UNCHANGED <<feedVars, reader, startedAt, userVars>>

ConsumersNext ==
  \/ AgentReports
  \/ BlockEnds
  \/ User
  \/ \E r \in Readers : Read(r)
  \/ Timeline

ConsumersSpec == ConsumersInit /\ [][ConsumersNext]_consumerVars

----------------------------------------------------------------------------
(* A reader that makes two calls still shows one round as it was written,  *)
(* never the decision of one and the price of another, and never one that  *)
(* was already superseded when the command began.                          *)
ReadersShowOneRound ==
  \A r \in Readers : reader[r].step \in {"position", "done"} =>
    /\ reader[r].round = rounds[reader[r].id]
    /\ reader[r].id \in startedAt[r] .. latestRoundId

(* "halts new borrows, liquidations, and any LTV-sensitive operation"      *)
(* (AgentPriceFeed.sol): while the feed refuses, a position may only be    *)
(* opened, repaid or closed debt-free.                                     *)
RefusalHaltsRisk ==
  [][LatestDecision = "REFUSED" => /\ debt' => debt
                                   /\ debt /\ collateral => collateral']_consumerVars

(* The timeline shows the window of history that ends at its head without  *)
(* a gap, newest first, although its logs come from two separate queries   *)
(* (as long as no two rounds share a block: see README).                   *)
TimelineHasNoGap ==
  LET shown  == ToSet(timeline.entries)
      window == {id \in 1 .. latestRoundId :
                   rounds[id].updatedAt \in From(timeline.head) .. timeline.head}
      apart  == \A i, j \in window : i # j => rounds[i].updatedAt # rounds[j].updatedAt
  IN  timeline.step = "done" =>
        /\ shown \subseteq window
        /\ Cardinality(shown) = Slice \/ shown = window
        /\ apart => /\ \A i \in shown, j \in window \ shown : j < i
                    /\ \A k, l \in DOMAIN timeline.entries :
                         k < l => timeline.entries[k] > timeline.entries[l]

(* "Print current state: agent decision, latest price, user position"      *)
(* (cli/src/main.rs): scripts/demo.sh runs op status under set -e once the *)
(* agent has refused, collateral deposited, to "Check feed state".         *)
StatusShowsRefusal ==
  \A r \in Readers : reader[r].round.decision = "REFUSED" => reader[r].step # "failed"
=============================================================================
