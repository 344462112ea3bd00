---------------------------- MODULE PriceOracle ----------------------------
(***************************************************************************)
(* The price oracle end to end: agents/price_oracle.ship running against   *)
(* the override pallet, the venue tools and the AgentPriceFeed contract.   *)
(*                                                                         *)
(* A run is started by the scheduler or by the agent's owner.  The runtime *)
(* that hosts the agent is not part of the repository and promises no      *)
(* order between the two triggers, so an owner's run may overlap a         *)
(* scheduled one; runs of one trigger follow each other.  Tool calls,      *)
(* model calls and the EVM call are separate steps, and other runs, the    *)
(* operator and the clock may move between any two of them.                *)
(***************************************************************************)
EXTENDS ToolOverride, AgentPriceFeed

CONSTANTS
  Callers,      \* triggers in use, out of "scheduled" and "owner"
  Lasting,      \* those whose tool results may outlive a run
  Targets,      \* bound: the venues an operator tampers with
  RealPrices,   \* what the venues really quote
  RealDepths,
  SubUnits,     \* price units of a reading per unit of the feed
  MaxInstalls   \* bound on the number of tampers

ASSUME OracleAssumption ==
  /\ Callers \subseteq {"scheduled", "owner"} /\ Lasting \subseteq Callers
  /\ Targets \subseteq Venues
  /\ RealPrices \subseteq Prices /\ RealDepths \subseteq Depths
  /\ SubUnits \in Nat \ {0}
  /\ Reasons \subseteq Hashes
  /\ 0 .. MaxTime \subseteq Times
  /\ MaxInstalls \in Nat

VARIABLES
  pc,         \* node of the SHIP program each run has reached
  unread,     \* venues the run's model has not asked for yet
  calls,      \* tool calls of the last message that have not returned
  readings,   \* tool results in the run's message list
  result,     \* the Reconciliation passed to the report nodes
  (* Bookkeeping that no code keeps, for the properties. *)
  faked,      \* readings of the run that an override supplied
  basis,      \* the usable readings behind a price in `result', and their provenance
  evidence,   \* the basis of the latest round of the feed
  grant,      \* runs_remaining asked for by the last install, per tool
  consulted,  \* scheduled runs that were served that override
  served,     \* overrides that answered the scheduled run in progress
  installs

agentVars == <<pc, unread, calls, readings, result, faked, basis>>
auxVars   == <<evidence, grant, consulted, served, installs>>
vars      == <<feedVars, overrides, agentVars, auxVars>>

Nodes == {"idle", "read_venues", "handle_tool_calls", "reconcile", "report"}

NoReadings == [v \in Venues |-> FailedReading]
NoResult   == Refused("insufficient_venues")
NoBasis    == [v \in {} |-> 0]

Init ==
  /\ FeedInit
  /\ OverrideInit
  /\ pc        = [c \in Callers |-> "idle"]
  /\ unread    = [c \in Callers |-> Venues]
  /\ calls     = [c \in Callers |-> {}]
  /\ readings  = [c \in Callers |-> NoReadings]
  /\ result    = [c \in Callers |-> NoResult]
  /\ faked     = [c \in Callers |-> {}]
  /\ basis     = [c \in Callers |-> NoBasis]
  /\ evidence  = NoBasis
  /\ grant     = [v \in Venues |-> 0]
  /\ consulted = [v \in Venues |-> 0]
  /\ served    = {}
  /\ installs  = 0

Goto(c, from, to) ==
  /\ c \in Callers
  /\ pc[c] = from
  /\ pc' = [pc EXCEPT ![c] = to]

(* A run ends.  The message list is the runtime's, which the repository    *)
(* does not contain: the tool results die with the run, as a program       *)
(* expects that pushes its instructions at every start, or, for a trigger  *)
(* in Lasting, may still be there when the next one begins.                *)
EndRun(c) ==
  /\ unread' = [unread EXCEPT ![c] = Venues]
  /\ calls'  = [calls  EXCEPT ![c] = {}]
  /\ result' = [result EXCEPT ![c] = NoResult]
  /\ basis'  = [basis  EXCEPT ![c] = NoBasis]
  /\ \/ /\ readings' = [readings EXCEPT ![c] = NoReadings]
        /\ faked'    = [faked    EXCEPT ![c] = {}]
     \/ c \in Lasting /\ UNCHANGED <<readings, faked>>
  /\ served' = IF c = "scheduled" THEN {} ELSE served

(* The account of an override is closed when it is removed.                *)
CloseAccounts ==
  /\ grant'     = [v \in Venues |-> IF Installed(v)' THEN grant[v] ELSE 0]
  /\ consulted' = [v \in Venues |-> IF Installed(v)' THEN consulted[v] ELSE 0]
  /\ served'    = {v \in served : Installed(v)'}

----------------------------------------------------------------------------
(* Node start, by caller: the tool executor ticks the pallet first on a    *)
(* scheduled run, and only then does the first tool resolve.               *)
StartScheduled ==
  /\ Goto("scheduled", "idle", "read_venues")
  /\ Tick
  /\ CloseAccounts
  /\ UNCHANGED <<feedVars, unread, calls, readings, result, faked, basis, evidence, installs>>

StartOwner ==
  /\ Goto("owner", "idle", "read_venues")
  /\ UNCHANGED <<feedVars, overrides, unread, calls, readings, result, faked, basis, auxVars>>

(* Node read_venues: the model asks for some venues, or for none.  Nothing *)
(* in the program counts the calls: it may stop before it has read them    *)
(* all, and it may ask for a venue again.                                  *)
ReadVenues(c) ==
  \E T \in SUBSET Venues :
    /\ Goto(c, "read_venues", IF T = {} THEN "reconcile" ELSE "handle_tool_calls")
    /\ calls'  = [calls EXCEPT ![c] = T]
    /\ unread' = [unread EXCEPT ![c] = @ \ T]
    /\ UNCHANGED <<feedVars, overrides, readings, result, faked, basis, auxVars>>

(* Node handle_tool_calls, one dispatched call: the override when there is *)
(* one, else the venue.  Every failure of a tool, an Err included, becomes *)
(* a reading with ok = false (handle_errors).  A second answer supersedes  *)
(* the first.                                                              *)
VenueTool(v) ==
  {FailedReading} \cup
    [ok : {TRUE}, price : RealPrices, depth : RealDepths, timestamp : 0 .. now]

HandleToolCalls(c, v) ==
  /\ v \in calls[c]
  /\ Goto(c, "handle_tool_calls",
          IF calls[c] = {v} THEN "read_venues" ELSE "handle_tool_calls")
  /\ calls' = [calls EXCEPT ![c] = @ \ {v}]
  /\ \/ /\ Installed(v)
        /\ readings' = [readings EXCEPT ![c][v] = Resolve(v)]
        /\ faked' = [faked EXCEPT ![c] = @ \cup {v}]
        /\ IF c = "scheduled" /\ v \notin served
           THEN /\ consulted' = [consulted EXCEPT ![v] = @ + 1]
                /\ served' = served \cup {v}
           ELSE UNCHANGED <<consulted, served>>
     \/ /\ ~Installed(v)
        /\ \E r \in VenueTool(v) : readings' = [readings EXCEPT ![c][v] = r]
        /\ faked' = [faked EXCEPT ![c] = @ \ {v}]
        /\ UNCHANGED <<consulted, served>>
  /\ UNCHANGED <<feedVars, overrides, unread, result, basis, evidence, grant, installs>>

(* What a price rests on.                                                  *)
Behind(c, verdict, strict) ==
  [v \in {u \in Valid(readings[c], strict, now) : verdict.decision = "priced"} |->
     [price |-> readings[c][v].price, faked |-> v \in faked[c]]]

ReconcileOrRetry(c) ==  \* mutant: too few venues, so ask again instead of refusing
  \E strict \in BOOLEAN :
    LET V == Valid(readings[c], strict, now)
    IN  /\ Goto(c, "reconcile", IF Cardinality(V) < 2 THEN "read_venues" ELSE "report")
        /\ \E verdict \in Verdicts(readings[c], strict, now) :
             /\ result' = [result EXCEPT ![c] = verdict]
             /\ basis' = [basis EXCEPT ![c] = Behind(c, verdict, strict)]
        /\ UNCHANGED <<feedVars, overrides, unread, calls, readings, faked, auxVars>>

(* Node reconcile.                                                         *)
Reconcile(c) ==
  /\ Goto(c, "reconcile", "report")
  /\ \E strict \in BOOLEAN : \E verdict \in Verdicts(readings[c], strict, now) :
       /\ result' = [result EXCEPT ![c] = verdict]
       /\ basis' = [basis EXCEPT ![c] = Behind(c, verdict, strict)]
  /\ unread' = [unread EXCEPT ![c] = Venues]
  /\ UNCHANGED <<feedVars, overrides, calls, readings, faked, auxVars>>

(* Nodes report_price and report_refusal: floor(price * 10^8), then one    *)
(* evm_call.  The feed's unit is SubUnits price units.                     *)
Scaled(price) == price \div SubUnits

Report(c) ==
  /\ Goto(c, "report", "idle")
  /\ IF result[c].decision = "priced"
     THEN ReportPrice(Agent, Scaled(result[c].price))
     ELSE ReportRefusal(Agent, result[c].reason)
  /\ evidence' = basis[c]
  /\ EndRun(c)
  /\ UNCHANGED <<overrides, grant, consulted, installs>>

(* A run ends without a round when a model call errors, or when the EVM    *)
(* call does not take effect (out of gas, the zero address before deploy,  *)
(* round ids exhausted).  Only handle_tool_calls handles errors.           *)
RunFails(c) ==
  /\ pc[c] \in {"read_venues", "reconcile", "report"}
  /\ Goto(c, pc[c], "idle")
  /\ EndRun(c)
  /\ UNCHANGED <<feedVars, overrides, evidence, grant, consulted, installs>>

----------------------------------------------------------------------------
(* op tamper, op reset and the passage of time.                            *)
Tamper(v) ==
  /\ installs < MaxInstalls
  /\ \E price \in FakePrices, runs \in 0 .. MaxRuns :
       /\ OverrideTool(v, FakeReading(price, now), runs)
       /\ grant' = [grant EXCEPT ![v] = runs]
  /\ consulted' = [consulted EXCEPT ![v] = 0]
  /\ served' = served \ {v}
  /\ installs' = installs + 1
  /\ UNCHANGED <<feedVars, agentVars, evidence>>

Clear(v) ==
  /\ ClearOverride(v)
  /\ CloseAccounts
  /\ UNCHANGED <<feedVars, agentVars, evidence, installs>>

Reset ==
  /\ ClearOverrides
  /\ CloseAccounts
  /\ UNCHANGED <<feedVars, agentVars, evidence, installs>>

Time == AdvanceTime /\ UNCHANGED <<overrides, agentVars, auxVars>>

RunStep(c) ==
  \/ ReadVenues(c)
  \/ \E v \in Venues : HandleToolCalls(c, v)
  \/ Reconcile(c)
  \/ Report(c)
  \/ RunFails(c)

Operator ==
  \/ \E v \in Targets : Tamper(v)
  \/ \E v \in Venues : Clear(v)
  \/ Reset

Next ==
  \/ StartScheduled
  \/ StartOwner
  \/ \E c \in Callers : RunStep(c)
  \/ Operator
  \/ Time

Spec == Init /\ [][Next]_vars

(* The runtime keeps executing a run it has started and keeps scheduling   *)
(* (schedule = 10).  A run may fail at any model or EVM call; nothing is   *)
(* assumed of the operator, of the owner or of the clock.                  *)
Fairness == WF_vars(StartScheduled) /\ \A c \in Callers : WF_vars(RunStep(c))

FairSpec == Spec /\ Fairness

----------------------------------------------------------------------------
Basis == UNION {[S -> [price : Prices, faked : BOOLEAN]] : S \in SUBSET Venues}

TypeOK ==
  /\ FeedTypeOK
  /\ OverrideTypeOK
  /\ pc        \in [Callers -> Nodes]
  /\ unread    \in [Callers -> SUBSET Venues]
  /\ calls     \in [Callers -> SUBSET Venues]
  /\ readings  \in [Callers -> [Venues -> Reading]]
  /\ result    \in [Callers -> Verdict]
  /\ faked     \in [Callers -> SUBSET Venues]
  /\ basis     \in [Callers -> Basis]
  /\ evidence  \in Basis
  /\ grant     \in [Venues -> Nat]
  /\ consulted \in [Venues -> Nat]
  /\ served    \in SUBSET Venues
  /\ installs  \in 0 .. MaxInstalls

(* One tampered venue never moves the feed: if at most one reading behind  *)
(* the latest price came from an override, some honest venue stands behind *)
(* it too, and every honest one is within 0.5% of it, up to the floor.     *)
OneFakeIsContained ==
  LET fakes  == {v \in DOMAIN evidence : evidence[v].faked}
      honest == DOMAIN evidence \ fakes
      price  == SubUnits * rounds[latestRoundId].answer
  IN  LatestDecision = "PRICED" /\ Cardinality(fakes) <= 1 =>
        /\ honest # {}
        /\ \A v \in honest :
             200 * Distance(evidence[v].price, price) <= price + 201 * (SubUnits - 1)

(* An override outlives its grant under no interleaving: installed for N   *)
(* runs, before or in the middle of a run, it is served to at most N       *)
(* scheduled runs.                                                         *)
GrantIsNeverExceeded == \A v \in Venues : consulted[v] <= grant[v]

(* The oracle implements the corroborated feed.                            *)
Promise == INSTANCE CorroboratedFeed
             WITH Sources   <- Venues,
                  LastRound <- MaxRoundId,
                  round     <- latestRoundId,
                  decision  <- LatestDecision,
                  answer    <- rounds[latestRoundId].answer,
                  quotes    <- [v \in DOMAIN evidence |-> evidence[v].price]

ImplementsCorroboratedFeed == Promise!Spec

(* The model settles when it no longer asks for venues it has read.        *)
ModelSettles   == <>[][\A c \in Callers : calls'[c] \ calls[c] \subseteq unread[c]]_vars
FailuresCease  == <>[][\A c \in Callers : ~RunFails(c)]_vars

(* An override needs no reset: the counter that only a scheduled run moves *)
(* removes every entry, even though a run may read, fail or be overtaken.  *)
OverridesExpire == ModelSettles => <>[](\A v \in Venues : ~Installed(v))

(* "The next `runs_remaining' scheduled runs of the agent will see `value'"*)
(* (pallets/tool-override/src/lib.rs, override_tool): an override that no  *)
(* scheduled run has started under yet is still there when one does.       *)
OverrideReachesNextRun ==
  [][StartScheduled => \A v \in Venues :
       Installed(v) /\ overrides[v].runs_remaining = grant[v] => Installed(v)']_vars

(* The feed recovers from every round: once the model and the EVM call     *)
(* stop failing, rounds follow each other until the ids run out, whatever  *)
(* was published before, whatever the operator does, however many venues   *)
(* fail and however runs of both triggers interleave.                      *)
FeedRecovers == ModelSettles /\ FailuresCease => <>[](latestRoundId = MaxRoundId)
=============================================================================
