-------------------------- MODULE GovernanceScenario --------------------------
(***************************************************************************)
(* The governance page's state (governance-scenario.ts) and its timeline rows. *)
(* A proposal is its number, which is what the verdict is filed under.     *)
(***************************************************************************)
EXTENDS Timeline

ROUTINE_PROPOSAL == 138

GOVERNANCE_PRESETS == [routine |-> ROUTINE_PROPOSAL, dustStake |-> 139, hostileFork |-> 140, beanstalk |-> 141]

initialGovernanceScenario == Fresh(ROUTINE_PROPOSAL, "routine")

applyGovernancePendingAction(s, call) == Push(s, Entry(s, "REVIEW", 0, call))
applyGovernanceAgentVerdict(s, verdict) == Settle(s, verdict)
applyGovernancePreset(s, key) == Load(s, GOVERNANCE_PRESETS[key], key)
setGovernancePending(s, pending) == [s EXCEPT !.pending = pending]
setGovernancePendingReasoning(s, text) == Stream(s, text)
applyGovernanceOnChainCommit(s, commit) == Badge(s, commit)
applyGovernanceCommitError(s) == BadgeError(s)

GovernanceLabel(decision) == IF decision \in {"APPROVE", "REJECT"} THEN decision ELSE "CAUTION"

GovernanceRow(e) ==
  [decision |-> IF Waiting(e) THEN None ELSE GovernanceLabel(e.verdict.decision),
   streaming |-> Waiting(e) /\ e.streaming > 0,
   cost |-> FALSE,
   badge |-> Signature(e)]
=============================================================================
