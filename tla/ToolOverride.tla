---------------------------- MODULE ToolOverride ----------------------------
(***************************************************************************)
(* pallets/tool-override: an admin installs a fabricated reading for one   *)
(* tool of the oracle agent; the tool executor asks resolve before every   *)
(* tool call and dispatches tick at the start of every scheduled run.      *)
(*                                                                         *)
(* Storage is keyed by (agent, tool); every extrinsic works on the prefix  *)
(* of one agent, so one agent is modelled.  Names and values longer than   *)
(* the bounds are rejected before any write and are left out.              *)
(***************************************************************************)
EXTENDS Reconciliation

CONSTANTS
  FakePrices,   \* prices an operator tampers with
  FakeDepth,    \* "Depth is set high" (cli/src/agent.rs)
  MaxRuns       \* largest runs_remaining an operator asks for

ASSUME OverrideAssumption == /\ FakePrices \subseteq Prices
                             /\ FakeDepth \in Depths
                             /\ MaxRuns \in Nat

VARIABLE overrides   \* StorageDoubleMap restricted to the agent: tool -> entry

NoEntry == [value |-> FailedReading, runs_remaining |-> 0]
Entry   == [value : OkReadings, runs_remaining : 1 .. MaxRuns]

Installed(tool) == overrides[tool] # NoEntry

OverrideInit == overrides = [v \in Venues |-> NoEntry]

(* The wire value the CLI encodes: ok = true, stamped when it is built.    *)
FakeReading(price, now) ==
  [ok |-> TRUE, price |-> price, depth |-> FakeDepth, timestamp |-> now]

OverrideTool(tool, value, runs_remaining) ==
  /\ runs_remaining > 0
  /\ overrides' = [overrides EXCEPT
                     ![tool] = [value |-> value, runs_remaining |-> runs_remaining]]

ClearOverride(tool) == overrides' = [overrides EXCEPT ![tool] = NoEntry]

ClearOverrides == overrides' = [v \in Venues |-> NoEntry]

LateTick ==  \* mutant: an entry is dropped one run too late
  overrides' = [v \in Venues |->
                  IF overrides[v].runs_remaining <= 0 THEN NoEntry
                  ELSE [overrides[v] EXCEPT !.runs_remaining = @ - 1]]

StuckTick ==  \* mutant: the counter is compared and never written back
  overrides' = [v \in Venues |->
                  IF overrides[v].runs_remaining <= 1 THEN NoEntry ELSE overrides[v]]

Tick ==
  overrides' = [v \in Venues |->
                  IF overrides[v].runs_remaining <= 1 THEN NoEntry
                  ELSE [overrides[v] EXCEPT !.runs_remaining = @ - 1]]

(* resolve does not consume the entry: tick is the consumer.               *)
Resolve(tool) == overrides[tool].value

----------------------------------------------------------------------------
OverrideTypeOK == overrides \in [Venues -> Entry \cup {NoEntry}]
=============================================================================
