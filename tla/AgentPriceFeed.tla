--------------------------- MODULE AgentPriceFeed ---------------------------
(***************************************************************************)
(* contracts/src/AgentPriceFeed.sol: the Chainlink-shaped feed that the    *)
(* agent writes and Aave reads.  A transaction that reverts changes        *)
(* nothing, so a revert is a disabled action; a view that reverts returns  *)
(* a record that names the error.                                          *)
(***************************************************************************)
EXTENDS Integers

CONSTANTS
  Agent,        \* the only address allowed to write
  Hashes,       \* reason hashes
  MaxRoundId,   \* 2^80 - 1 in the contract: latestRoundId + 1 reverts beyond it
  MaxTime       \* bound on the block timestamp

ASSUME FeedAssumption == MaxRoundId \in Nat /\ MaxTime \in Nat

VARIABLES
  latestRoundId,
  rounds,         \* mapping(uint80 => Round): unwritten ids read as zero
  now             \* block.timestamp

feedVars == <<latestRoundId, rounds, now>>

NoHash == "bytes32(0)"

RoundIds == 0 .. MaxRoundId

Round == [answer : Int, updatedAt : 0 .. MaxTime,
          decision : {"UNINITIALIZED", "PRICED", "REFUSED"}, reasonHash : Hashes \cup {NoHash}]

NoRound == [answer |-> 0, updatedAt |-> 0, decision |-> "UNINITIALIZED", reasonHash |-> NoHash]

FeedInit ==
  /\ latestRoundId = 0
  /\ rounds = [id \in RoundIds |-> NoRound]
  /\ now = 0

(***************************************************************************)
(* Writing.  Both entry points append one round and move latestRoundId to  *)
(* it in the same transaction.  startedAt always equals updatedAt.         *)
(***************************************************************************)
OverwriteRound(round) ==  \* mutant: latestRoundId is not moved first
  /\ latestRoundId < MaxRoundId
  /\ rounds' = [rounds EXCEPT ![latestRoundId] = round]
  /\ latestRoundId' = latestRoundId + 1
  /\ UNCHANGED now

AppendRound(round) ==
  /\ latestRoundId < MaxRoundId
  /\ rounds' = [rounds EXCEPT ![latestRoundId + 1] = round]
  /\ latestRoundId' = latestRoundId + 1
  /\ UNCHANGED now

ReportPrice(sender, answer) ==
  /\ sender = Agent
  /\ AppendRound([answer |-> answer, updatedAt |-> now,
                  decision |-> "PRICED", reasonHash |-> NoHash])

ReportRefusal(sender, reasonHash) ==
  /\ sender = Agent
  /\ AppendRound([answer |-> 0, updatedAt |-> now,
                  decision |-> "REFUSED", reasonHash |-> reasonHash])

AdvanceTime ==
  /\ now < MaxTime
  /\ now' = now + 1
  /\ UNCHANGED <<latestRoundId, rounds>>

(***************************************************************************)
(* Reading.                                                                *)
(***************************************************************************)
LatestDecision == rounds[latestRoundId].decision

LastGoodAnswer ==  \* mutant: a refusal serves the previous round's answer
  LET r == rounds[latestRoundId]
  IN  IF r.decision = "REFUSED" THEN [status |-> "ok", answer |-> rounds[latestRoundId - 1].answer]
      ELSE IF r.decision = "UNINITIALIZED" THEN [status |-> "StaleRound", answer |-> 0]
      ELSE [status |-> "ok", answer |-> r.answer]

LatestAnswer ==
  LET r == rounds[latestRoundId]
  IN  IF r.decision = "REFUSED" THEN [status |-> "PriceRefused", answer |-> 0]
      ELSE IF r.decision = "UNINITIALIZED" THEN [status |-> "StaleRound", answer |-> 0]
      ELSE [status |-> "ok", answer |-> r.answer]

GetRoundData(id) == rounds[id]

----------------------------------------------------------------------------
FeedTypeOK ==
  /\ latestRoundId \in RoundIds
  /\ rounds \in [RoundIds -> Round]
  /\ now \in 0 .. MaxTime

(* "Round IDs are monotonic" (AgentPriceFeed.sol, reportPrice): the ids    *)
(* written so far are exactly 1 .. latestRoundId, without a gap, and no    *)
(* round carries a timestamp older than its predecessor's.                 *)
RoundsAreContiguous ==
  /\ \A id \in RoundIds : (rounds[id].decision # "UNINITIALIZED") <=> (id \in 1 .. latestRoundId)
  /\ \A i, j \in 1 .. latestRoundId : i <= j => rounds[i].updatedAt <= rounds[j].updatedAt

(* getRoundData serves auditors: a round that was written never changes.   *)
HistoryIsImmutable ==
  [][\A id \in 1 .. latestRoundId : rounds'[id] = rounds[id]]_feedVars
=============================================================================
