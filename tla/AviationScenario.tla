-------------------------- MODULE AviationScenario --------------------------
(***************************************************************************)
(* The aviation page's state (aviation-scenario.ts) and its timeline rows. *)
(* A change is its number, which is what the verdict is filed under.       *)
(***************************************************************************)
EXTENDS Timeline

ROUTINE_WINGLET == 2401

AVIATION_PRESETS == [routine |-> ROUTINE_WINGLET, fadec |-> 2402, mcasShape |-> 2403, eicas |-> 2404]

initialAviationScenario == Fresh(ROUTINE_WINGLET, "routine")

applyAviationPendingAction(s, call) == Push(s, Entry(s, "REVIEW", 0, call))
applyAviationAgentVerdict(s, verdict) == Settle(s, verdict)
applyAviationPreset(s, key) == Load(s, AVIATION_PRESETS[key], key)
setAviationPending(s, pending) == [s EXCEPT !.pending = pending]
setAviationPendingReasoning(s, text) == Stream(s, text)
applyAviationOnChainCommit(s, commit) == Badge(s, commit)
applyAviationCommitError(s) == BadgeError(s)

AviationLabel(decision) == IF decision \in {"APPROVE", "REJECT"} THEN decision ELSE "CAUTION"

AviationRow(e) ==
  [decision |-> IF Waiting(e) THEN None ELSE AviationLabel(e.verdict.decision),
   streaming |-> Waiting(e) /\ e.streaming > 0,
   cost |-> FALSE,
   badge |-> Signature(e)]
=============================================================================
