---------------------------- MODULE AaveScenario ----------------------------
(***************************************************************************)
(* The state of the Aave page when no chain is configured                  *)
(* (mock-scenario.ts): the exchanges' readings, the manipulations layered  *)
(* over them, and the list of decisions.  Every reducer that pushes a      *)
(* placeholder takes the number of the request made for it, a history      *)
(* field.  A streamed reasoning is named by the call that produced it.     *)
(*                                                                         *)
(* A reading's status stands for ok and error; ages and the position of    *)
(* the user are left out.  Prices and depths are integers: the factors     *)
(* 1.49, 0.7 and 0.05 are percentages, and averages are rounded down.      *)
(***************************************************************************)
EXTENDS Integers, Sequences, FiniteSets, FiniteSetsExt, Functions

CONSTANTS Venues,      \* coinbase, binance, uniswap
          MaxEvents,   \* decisions kept: 20
          PositionUsd, \* POSITION_USD of the counterfactual
          None         \* TypeScript's undefined and null

ASSUME AaveAssumption == IsFiniteSet(Venues) /\ MaxEvents \in Nat \ {0}

Ok(reading) == reading.status = "ok"
OkVenues(readings) == {v \in Venues : Ok(readings[v])}

DEFAULT_BASE == [v \in Venues |-> [price |-> 0, depth |-> 0, status |-> "loading",
                                   tampered |-> FALSE]]

initialScenario ==
  [overrides |-> [v \in Venues |-> None], depthPercent |-> 100, halted |-> {},
   liveBase |-> DEFAULT_BASE, referencePrice |-> 0, blockOffset |-> 0,
   events |-> <<>>, pending |-> FALSE]

currentBlock(offset) == 5513807 + offset * 10

\* Named a median in the code; it is the depth-weighted mean.
depthWeightedMedian(readings) ==
  LET V == {v \in OkVenues(readings) : readings[v].depth > 0}
  IN  IF V = {} THEN 0
      ELSE SumFunctionOnSet([v \in V |-> readings[v].price * readings[v].depth], V)
             \div SumFunctionOnSet([v \in V |-> readings[v].depth], V)

\* A halt wins over an override, and an override revives a failed venue.
deriveVenues(s) ==
  LET Overridden(r, price) ==
        IF price = None THEN r
        ELSE [r EXCEPT !.price = price, !.status = "ok", !.tampered = TRUE]
      Thinned(r) ==
        IF s.depthPercent = 100 THEN r
        ELSE [r EXCEPT !.depth = (@ * s.depthPercent) \div 100, !.tampered = TRUE]
  IN  [v \in Venues |->
         IF v \in s.halted THEN [s.liveBase[v] EXCEPT !.status = "halted"]
         ELSE Thinned(Overridden(s.liveBase[v], s.overrides[v]))]

Inspect(s) == [venues |-> deriveVenues(s), referencePrice |-> s.referencePrice]

-----------------------------------------------------------------------------
\* The list of decisions, newest first.

Latest(events) ==
  SubSeq(events, 1, IF Len(events) < MaxEvents THEN Len(events) ELSE MaxEvents)

pendingEvent(s, call) ==
  [block |-> currentBlock(s.blockOffset), decision |-> "UNINITIALIZED", pending |-> TRUE,
   price |-> None, reason |-> None, reasoning |-> None, inspect |-> Inspect(s), call |-> call]

withPending(s, call) ==
  [s EXCEPT !.events = Latest(<<pendingEvent(s, call)>> \o s.events), !.pending = TRUE]

HeadPending(s) == s.events # <<>> /\ Head(s.events).pending

setPendingReasoning(s, text) ==
  IF HeadPending(s)
  THEN [s EXCEPT !.events = <<[Head(s.events) EXCEPT !.reasoning = text]>> \o Tail(s.events)]
  ELSE s

\* The head placeholder gives way to the answer, whichever call it is of;
\* without one the answer is prepended.
applyAgentEvent(s, event) ==
  [s EXCEPT !.events = IF HeadPending(s) THEN <<event>> \o Tail(s.events)
                       ELSE Latest(<<event>> \o s.events),
            !.pending = FALSE]

-----------------------------------------------------------------------------
\* Manipulations: each moves the block on and puts a placeholder up.

Manipulated(s, call) == withPending([s EXCEPT !.blockOffset = @ + 1], call)

applyTamper(s, venue, price, call) == Manipulated([s EXCEPT !.overrides[venue] = price], call)

applyPumpAll(s, price, call) ==
  Manipulated([s EXCEPT !.overrides = [v \in Venues |-> price]], call)

applyHalt(s, venue, call) == Manipulated([s EXCEPT !.halted = @ \cup {venue}], call)
applyUnhalt(s, venue, call) == Manipulated([s EXCEPT !.halted = @ \ {venue}], call)

applyReset(s, call) ==
  Manipulated([s EXCEPT !.overrides = initialScenario.overrides, !.depthPercent = 100,
                        !.halted = {}], call)

applyDepthCollapse(s, percent, call) == Manipulated([s EXCEPT !.depthPercent = percent], call)

\* Without a live venue nothing is moved and no placeholder goes up.
applyProportionalMove(s, percent, call) ==
  IF OkVenues(s.liveBase) = {} THEN s
  ELSE Manipulated([s EXCEPT !.overrides =
                      [v \in Venues |-> IF Ok(s.liveBase[v])
                                        THEN (s.liveBase[v].price * percent) \div 100
                                        ELSE None]], call)

\* The reference stays at the price before the manipulation.
applyLiveReadings(s, liveBase) ==
  LET dirty == s.halted # {} \/ \E v \in Venues : s.overrides[v] # None
  IN  [s EXCEPT !.liveBase = liveBase,
                !.referencePrice = IF dirty \/ Cardinality(OkVenues(liveBase)) < 2 THEN @
                                   ELSE depthWeightedMedian(liveBase)]

-----------------------------------------------------------------------------
\* What the page shows.

hashForReason(decision, reason) ==
  CASE decision = "PRICED"     -> "PRICED_HASH"
    [] reason = "exitability"  -> "REFUSED_HASH_EXITABILITY"
    [] reason = "halted"       -> "REFUSED_HASH_HALT"
    [] OTHER                   -> "REFUSED_HASH_DIVERGENCE"

Committed(s) == {i \in DOMAIN s.events : ~s.events[i].pending}

FeedOfHead(s) ==  \* mutant: the placeholder is taken for the last verdict
  IF s.events = <<>> THEN [decision |-> "UNINITIALIZED", price |-> 0, hash |-> "PRICED_HASH"]
  ELSE LET e == Head(s.events)
       IN  [decision |-> IF e.decision = "REFUSED" THEN "REFUSED" ELSE "PRICED",
            price |-> IF e.price = None THEN 0 ELSE e.price,
            hash |-> hashForReason(e.decision, e.reason)]

\* The newest settled decision; before there is one, the readings' average.
deriveFeed(s) ==
  LET V == {v \in OkVenues(deriveVenues(s)) : deriveVenues(s)[v].depth > 0}
      last == s.events[Min(Committed(s))]
  IN  IF Committed(s) # {}
      THEN IF last.decision = "REFUSED"
           THEN [decision |-> "REFUSED", price |-> 0,
                 hash |-> hashForReason("REFUSED", last.reason)]
           ELSE [decision |-> "PRICED", price |-> IF last.price = None THEN 0 ELSE last.price,
                 hash |-> "PRICED_HASH"]
      ELSE IF Cardinality(V) >= 2
      THEN [decision |-> "PRICED", price |-> depthWeightedMedian(deriveVenues(s)),
            hash |-> "PRICED_HASH"]
      ELSE [decision |-> "UNINITIALIZED", price |-> 0, hash |-> "PRICED_HASH"]

\* Three invented rows follow the visitor's own, a few bps off the reference.
deriveTimeline(s) ==
  LET seed(blocks) == [block |-> currentBlock(s.blockOffset) - blocks, decision |-> "PRICED",
                       pending |-> FALSE, price |-> s.referencePrice, reason |-> None,
                       reasoning |-> None, inspect |-> None, call |-> None]
      seeds == IF s.referencePrice > 0 THEN <<seed(10), seed(20), seed(30)>> ELSE <<>>
  IN  Latest(s.events \o seeds)

median(readings, V) ==
  LET price == [v \in V |-> readings[v].price]
      middle == {price[v] : v \in {u \in V :
                   /\ 2 * Cardinality({w \in V : price[w] < price[u]}) <= Cardinality(V)
                   /\ 2 * Cardinality({w \in V : price[w] > price[u]}) <= Cardinality(V)}}
  IN  (Min(middle) + Max(middle)) \div 2

\* What a quorum oracle would have answered to the same readings.
aaveCounterfactual(inspect, decision, agentPrice) ==
  LET V == OkVenues(inspect.venues)
      depth == SumFunctionOnSet([v \in V |-> inspect.venues[v].depth], V)
      ref == inspect.referencePrice
      quorum == IF Cardinality(V) >= 2 THEN median(inspect.venues, V)
                ELSE IF ref > 0 THEN ref ELSE agentPrice
      base == IF ref > 0 THEN ref ELSE quorum
      off == IF quorum > base THEN quorum - base ELSE base - quorum
  IN  [quorumPrice |-> quorum,
       severity |-> IF Cardinality(V) < 2 THEN "med"
                    ELSE IF 20 * off > base THEN "high"
                    ELSE IF depth > 0 /\ 2 * depth < PositionUsd THEN "med" ELSE "low",
       divergesFromAgent |-> decision = "REFUSED"]

InspectPanel(e) == IF e.pending THEN None ELSE e.inspect

TimelineRow(e) ==
  LET cf == aaveCounterfactual(e.inspect, e.decision, e.price)
  IN  [block |-> e.block,
       decision |-> IF e.pending THEN "reasoning" ELSE e.decision,
       reasoning |-> e.reasoning,
       saw |-> InspectPanel(e),
       cost |-> IF InspectPanel(e) # None /\ cf.divergesFromAgent THEN cf.quorumPrice ELSE None]
=============================================================================
