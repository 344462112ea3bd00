------------------------------ MODULE AavePage ------------------------------
(***************************************************************************)
(* The Aave page of a deployment without a feed address, where the page    *)
(* owns its state for good (mode is "mock").  Every manipulation starts a  *)
(* run: one request to /api/agent/decide, whose stream is read while the   *)
(* visitor goes on.  The scenario links are disabled while a run waits for *)
(* its answer; the venue cards only know whether they are busy themselves, *)
(* and a ?scenario= link waits for the first readings, not for the others. *)
(***************************************************************************)
EXTENDS AaveScenario

CONSTANTS LiveReadings,  \* what /api/venues may answer
          Contents,      \* what the model may answer: decision, price, reason
          FakePrice,     \* $100000, the price the page tampers and pumps to
          MaxCalls       \* bound on the runs

ASSUME CallsAssumption == MaxCalls \in Nat /\ "controls" \notin Venues /\ "url" \notin Venues

VARIABLES scenario,   \* the page's ScenarioState
          calls,      \* the runs: what was sent for each, and whether it runs
          cards,      \* venues whose card is busy
          controls,   \* ScenarioControls is busy
          url         \* a ?scenario= waiting for the venues to load

vars == <<scenario, calls, cards, controls, url>>

Running == {c \in DOMAIN calls : calls[c].running}
NextCall == Len(calls) + 1

Scenarios == {"pump-all", "depth-collapse", "subtle-pump", "flash-crash"}

\* What a link names: a scenario, or a venue to halt or to tamper with.
Links(venueKinds) ==
  [kind : Scenarios, venue : {None}] \cup [kind : venueKinds, venue : Venues]

Init ==
  /\ scenario = initialScenario
  /\ calls = <<>>
  /\ cards = {}
  /\ controls = FALSE
  /\ url \in {None} \cup Links({"halt", "tamper"})

-----------------------------------------------------------------------------
(* A run.  Its closure keeps what was sent: the venues and the reference   *)
(* of the draft, and the block of the draft's newest row.                  *)

runWithAgent(draft, origin) ==
  /\ Len(calls) < MaxCalls
  /\ scenario' = draft
  /\ calls' = Append(calls,
       [sent |-> Inspect(draft),
        block |-> IF draft.events = <<>> THEN draft.blockOffset ELSE Head(draft.events).block,
        origin |-> origin, running |-> TRUE, alone |-> Running = {}])

Reasoning(c) ==
  /\ c \in Running
  /\ scenario' = setPendingReasoning(scenario, c)
  /\ UNCHANGED <<calls, cards, controls, url>>

VerdictWithPlainInputs(c, output) ==  \* mutant: the inputs are read when the answer lands
  [block |-> calls[c].block, decision |-> output.decision, pending |-> FALSE,
   price |-> output.price, reason |-> output.reason, reasoning |-> c,
   inspect |-> Inspect(scenario), call |-> c]

Verdict(c, output) ==
  [block |-> calls[c].block, decision |-> output.decision, pending |-> FALSE,
   price |-> output.price, reason |-> output.reason, reasoning |-> c,
   inspect |-> calls[c].sent, call |-> c]

\* The handler that awaits the run lets go of its controls.
Done(c) ==
  /\ calls' = [calls EXCEPT ![c].running = FALSE]
  /\ controls' = IF calls[c].origin = "controls" THEN FALSE ELSE controls
  /\ cards' = cards \ {calls[c].origin}
  /\ UNCHANGED url

\* Anything but PRICED is a refusal; a price that is no positive number is
\* dropped, the decision stays.
decide(content) ==
  [decision |-> IF content.decision = "PRICED" THEN "PRICED" ELSE "REFUSED",
   price |-> IF content.decision = "PRICED" /\ content.price \in Nat \ {0}
             THEN content.price ELSE None,
   reason |-> content.reason]

Answer(c) ==
  /\ c \in Running
  /\ \E content \in Contents : scenario' = applyAgentEvent(scenario, Verdict(c, decide(content)))
  /\ Done(c)

OnlyLogged(c) ==  \* mutant: the failure is logged and the placeholder left
  /\ c \in Running
  /\ UNCHANGED scenario
  /\ Done(c)

\* No key, a timeout, a broken stream or an answer that is no JSON.
Unreachable(c) ==
  /\ c \in Running
  /\ scenario' = applyAgentEvent(scenario,
       Verdict(c, [decision |-> "REFUSED", price |-> None, reason |-> "agent unreachable"]))
  /\ Done(c)

-----------------------------------------------------------------------------
\* The handlers, each a run over the scenario of the last render.

handleTamper(venue, origin) ==
  runWithAgent(applyTamper(scenario, venue, FakePrice, NextCall), origin)
handleReset(origin) == runWithAgent(applyReset(scenario, NextCall), origin)
handlePumpAll(origin) == runWithAgent(applyPumpAll(scenario, FakePrice, NextCall), origin)

handleHaltToggle(venue, origin) ==
  runWithAgent(IF venue \in scenario.halted THEN applyUnhalt(scenario, venue, NextCall)
               ELSE applyHalt(scenario, venue, NextCall), origin)

handleBlackSwan(kind, origin) ==
  runWithAgent(CASE kind = "depth-collapse" -> applyDepthCollapse(scenario, 5, NextCall)
                 [] kind = "subtle-pump"    -> applyProportionalMove(scenario, 149, NextCall)
                 [] kind = "flash-crash"    -> applyProportionalMove(scenario, 70, NextCall), origin)

handleScenario(link, origin) ==
  CASE link.kind = "pump-all" -> handlePumpAll(origin)
    [] link.kind = "halt"     -> handleHaltToggle(link.venue, origin)
    [] link.kind = "tamper"   -> handleTamper(link.venue, origin)
    [] OTHER                  -> handleBlackSwan(link.kind, origin)

\* The links under the feed: one at a time, and none while a row waits.
ScenarioControls ==
  /\ ~controls /\ ~scenario.pending
  /\ controls' = TRUE
  /\ \/ \E link \in Links({"halt"}) : handleScenario(link, "controls")
     \/ /\ \/ scenario.halted # {} \/ scenario.depthPercent # 100
           \/ \E v \in Venues : scenario.overrides[v] # None
        /\ handleReset("controls")
  /\ UNCHANGED <<cards, url>>

\* A venue's card knows only its own run.  Its form may have been open since
\* before the venue was tampered with, and opening it is not an action here.
TamperForm(v) ==
  /\ v \notin cards
  /\ cards' = cards \cup {v}
  /\ handleTamper(v, v)
  /\ UNCHANGED <<controls, url>>

CardReset(v) ==
  /\ v \notin cards /\ deriveVenues(scenario)[v].tampered
  /\ cards' = cards \cup {v}
  /\ handleReset(v)
  /\ UNCHANGED <<controls, url>>

\* The readings of the exchanges arrive; a failed poll changes nothing.
refreshVenues ==
  /\ \E readings \in LiveReadings : scenario' = applyLiveReadings(scenario, readings)
  /\ UNCHANGED <<calls, cards, controls, url>>

venuesStillLoading == \A v \in Venues : scenario.liveBase[v].status = "loading"

\* The link's scenario runs once, as soon as there are readings.
PendingUrlScenario ==
  /\ url # None /\ ~venuesStillLoading
  /\ url' = None
  /\ handleScenario(url, "url")
  /\ UNCHANGED <<cards, controls>>

Next ==
  \/ ScenarioControls
  \/ \E v \in Venues : TamperForm(v) \/ CardReset(v)
  \/ refreshVenues
  \/ PendingUrlScenario
  \/ \E c \in DOMAIN calls : Reasoning(c) \/ Answer(c) \/ Unreachable(c)

Spec == Init /\ [][Next]_vars

-----------------------------------------------------------------------------
(* What a row says the agent saw is what its own call sent: the block, the *)
(* venues and the reference, and with them the quorum price its cost line  *)
(* names, although runs overlap, rows are replaced by answers to other     *)
(* calls and the readings move on while the agent reasons (types.ts:        *)
(* "Snapshot of the venues exactly as the agent saw them").                *)
InspectIsWhatAgentSaw ==
  \A i \in DOMAIN deriveTimeline(scenario) :
    LET e == deriveTimeline(scenario)[i]
        row == TimelineRow(e)
    IN  row.saw # None =>
          /\ row.block = calls[e.call].block
          /\ row.saw = calls[e.call].sent
          /\ row.reasoning = e.call
          /\ row.cost = IF row.decision = "REFUSED"
                        THEN aaveCounterfactual(calls[e.call].sent, "REFUSED", e.price).quorumPrice
                        ELSE None

(* A row waits for its answer while, and only while, its own call is in    *)
(* flight, and the links are disabled just then - as long as no run was    *)
(* started while another one was waiting.  After that a placeholder may    *)
(* wait for ever: the first answer takes the newest one's place.           *)
Overlapped == \E c \in DOMAIN calls : ~calls[c].alone

PendingUnlessOverlap ==
  Overlapped \/
    /\ \A i \in DOMAIN scenario.events :
         scenario.events[i].pending <=> scenario.events[i].call \in Running
    /\ scenario.pending <=> \E i \in DOMAIN scenario.events : scenario.events[i].pending

(* Once there is a verdict the feed keeps it while the agent reasons over  *)
(* the next one, whatever the visitor does to the venues; it changes only  *)
(* in the step that an answer lands, and to that answer.                   *)
FeedHoldsWhileReasoning ==
  [][Committed(scenario) # {} =>
       \/ deriveFeed(scenario') = deriveFeed(scenario)
       \/ \E c \in Running :
            /\ ~calls'[c].running
            /\ Head(scenario'.events).call = c
            /\ deriveFeed(scenario')
                 = deriveFeed([scenario' EXCEPT !.events = <<Head(scenario'.events)>>])]_vars
=============================================================================
