--------------------------- MODULE BridgeScenario ---------------------------
(***************************************************************************)
(* The bridge guardian page's state (bridge-scenario.ts), its timeline     *)
(* rows and their counterfactual.  Heights are blocks above or below the   *)
(* relayers' source height.                                                *)
(***************************************************************************)
EXTENDS Timeline

BridgeState(finalized, signing, rotated, slashed, age, claimed, rate) ==
  [finalizedHeight |-> finalized, validatorsSigning |-> signing,
   validatorSetRotated24h |-> rotated, recentSlashEvents24h |-> slashed,
   attestationAgeSec |-> age, attestationAlreadyClaimed |-> claimed,
   withdrawRate1h |-> rate]     \* rate in tenths of a percent

validatorQuorum == 5

HEALTHY_BRIDGE == BridgeState(-12, 9, FALSE, 0, 18, FALSE, 2)

BRIDGE_PRESETS ==
  [healthy         |-> HEALTHY_BRIDGE,
   validatorOutage |-> BridgeState(-40, 7, FALSE, 0, 42, FALSE, 4),
   ronin           |-> BridgeState(-18, 5, TRUE, 2, 24, FALSE, 18),
   wormhole        |-> BridgeState(212, 9, FALSE, 0, 6, FALSE, 61),
   nomad           |-> BridgeState(-10, 8, FALSE, 0, 31, TRUE, 42)]

initialBridgeScenario == Fresh(HEALTHY_BRIDGE, "healthy")

applyBridgePendingAction(s, amountUsd, call) == Push(s, Entry(s, "WITHDRAW", amountUsd, call))
applyBridgeAgentVerdict(s, verdict) == Settle(s, verdict)
applyBridgePreset(s, key) == Load(s, BRIDGE_PRESETS[key], key)
setBridgePending(s, pending) == [s EXCEPT !.pending = pending]
setBridgePendingReasoning(s, text) == Stream(s, text)
applyBridgeOnChainCommit(s, commit) == Badge(s, commit)
applyBridgeCommitError(s) == BadgeError(s)

\* A bridge without a guardian releases whenever the quorum is cleared.
Releases(state) == state.validatorsSigning >= validatorQuorum

\* What the page says such a bridge would have done: the first shape of an
\* attack that fits decides, then the quorum.
bridgeCounterfactual(state, verdict) ==
  LET diverges == (verdict.decision = "ALLOW") # Releases(state)
      tight == state.validatorSetRotated24h /\ state.validatorsSigning = validatorQuorum
      attack == \/ state.attestationAlreadyClaimed
                \/ state.finalizedHeight > 0
                \/ tight \/ state.recentSlashEvents24h > 0
      pressed == state.withdrawRate1h > 40
  IN  IF attack \/ pressed
      THEN [naiveDecision |-> "RELEASE", severity |-> IF attack THEN "high" ELSE "med",
            divergesFromAgent |-> diverges]
      ELSE [naiveDecision |-> IF Releases(state) THEN "RELEASE" ELSE "REVERT",
            severity |-> "low", divergesFromAgent |-> FALSE]

BridgeRow(e) ==
  [decision |-> IF Waiting(e) THEN None
                ELSE IF e.verdict.decision = "ALLOW" THEN "ALLOW" ELSE "REFUSE",
   streaming |-> Waiting(e) /\ e.streaming > 0,
   cost |-> e.verdict # None /\ bridgeCounterfactual(e.snapshot, e.verdict).divergesFromAgent,
   badge |-> Signature(e)]
=============================================================================
