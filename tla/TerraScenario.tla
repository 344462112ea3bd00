--------------------------- MODULE TerraScenario ----------------------------
(***************************************************************************)
(* The Terra failsafe page's state (terra-scenario.ts), its timeline rows  *)
(* and their counterfactual.  Amounts are in units of a visitor's request, *)
(* the vault's metrics are named by the preset they come from.             *)
(***************************************************************************)
EXTENDS Timeline

\* Vaults of the collapse, day by day: LUND owed for one unit of USTD grows.
PRESETS ==
  [healthy  |-> [regime |-> "healthy",  ustdSupply |-> 4, lundSupply |-> 2],
   wobble   |-> [regime |-> "wobble",   ustdSupply |-> 4, lundSupply |-> 2],
   cracking |-> [regime |-> "cracking", ustdSupply |-> 3, lundSupply |-> 3],
   bankRun  |-> [regime |-> "bankRun",  ustdSupply |-> 2, lundSupply |-> 6],
   spiral   |-> [regime |-> "spiral",   ustdSupply |-> 1, lundSupply |-> 9]]

LundPerUstd == [healthy |-> 1, wobble |-> 1, cracking |-> 2, bankRun |-> 4, spiral |-> 8]

initialTerraScenario == Fresh(PRESETS.healthy, "healthy")

applyPendingAction(s, action, ustd, call) == Push(s, Entry(s, action, ustd, call))

Floor0(n) == IF n < 0 THEN 0 ELSE n

\* ALLOW also moves the supplies, of the vault as it is now.
applyAgentVerdict(s, verdict) ==
  LET head == Head(s.events)
      lund == head.amount * LundPerUstd[head.snapshot.regime]
      moved == IF head.action = "MINT"
               THEN [s.subject EXCEPT !.ustdSupply = @ + head.amount, !.lundSupply = Floor0(@ - lund)]
               ELSE [s.subject EXCEPT !.ustdSupply = Floor0(@ - head.amount), !.lundSupply = @ + lund]
  IN  IF HeadPending(s) /\ verdict.decision = "ALLOW"
      THEN [Settle(s, verdict) EXCEPT !.subject = moved]
      ELSE Settle(s, verdict)

applyPreset(s, key) == Load(s, PRESETS[key], key)
setTerraPendingReasoning(s, text) == Stream(s, text)
applyTerraOnChainCommit(s, commit) == Badge(s, commit)
applyTerraCommitError(s) == BadgeError(s)

\* The vault shows stress in every regime but the first.
terraCounterfactual(e) ==
  LET stressed == e.snapshot.regime # "healthy"
      lundOut == e.amount * LundPerUstd[e.snapshot.regime]
  IN  [severity |-> IF ~stressed THEN "low"
                    ELSE IF e.action = "MINT" \/ 20 * lundOut > e.snapshot.lundSupply
                         THEN "high" ELSE "med",
       divergesFromAgent |-> e.verdict.decision = "REFUSE"]

TerraRow(e) ==
  [decision |-> IF Waiting(e) THEN None ELSE e.verdict.decision,
   streaming |-> Waiting(e) /\ e.streaming > 0,
   cost |-> e.verdict # None /\ terraCounterfactual(e).divergesFromAgent,
   badge |-> Signature(e)]
=============================================================================
