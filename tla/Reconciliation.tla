--------------------------- MODULE Reconciliation ---------------------------
(***************************************************************************)
(* The decision rule of the price oracle agent: the prompt of node         *)
(* reconcile in agents/price_oracle.ship together with the policy document *)
(* that the agent includes as a system message.                            *)
(*                                                                         *)
(* Prices are natural numbers of a unit finer than the feed's own (the     *)
(* agent computes with floats and floors only when it reports); depths are *)
(* naturals, zero included: coinbase_orderbook returns ok = true with an   *)
(* empty 50bps window.  A reading's free text is left out.                 *)
(***************************************************************************)
EXTENDS Integers, FiniteSets, FiniteSetsExt, Functions

CONSTANTS
  Venues,         \* the three venue tools
  Prices,         \* prices a reading can carry
  Depths,         \* depths a reading can carry
  Times,          \* timestamps
  FreshFor        \* how long the policy accepts a reading (60 seconds)

ASSUME VenuesAssumption == IsFiniteSet(Venues)
ASSUME PricesAssumption == Prices \subseteq Nat \ {0}
ASSUME DepthsAssumption == Depths \subseteq Nat
ASSUME TimesAssumption  == Times \subseteq Nat /\ FreshFor \in Nat

(* One VenueReading.  Failed readings carry zero price and depth; their    *)
(* timestamp never matters, so it is normalised to 0.                      *)
OkReadings    == [ok : {TRUE}, price : Prices, depth : Depths, timestamp : Times]
FailedReading == [ok |-> FALSE, price |-> 0, depth |-> 0, timestamp |-> 0]
Reading       == OkReadings \cup {FailedReading}

Reasons == {"insufficient_venues", "venue_divergence"}
Verdict == [decision : {"refused"}, price : {0}, reason : Reasons]
             \cup [decision : {"priced"}, price : Nat, reason : {"reconciled"}]

Refused(reason) == [decision |-> "refused", price |-> 0, reason |-> reason]
PricedAt(price) == [decision |-> "priced", price |-> price, reason |-> "reconciled"]

(***************************************************************************)
(* Rule 1.  The prompt counts a reading as usable when ok is true; the     *)
(* policy also asks for a timestamp younger than FreshFor.  The model is   *)
(* given both texts and no clock, so `strict' says which one it applied.   *)
(***************************************************************************)
Valid(readings, strict, now) ==
  {v \in Venues : readings[v].ok /\ (strict => now - readings[v].timestamp < FreshFor)}

DepthOn(readings, S) == SumFunctionOnSet([v \in S |-> readings[v].depth], S)

(***************************************************************************)
(* Rule 3.  A reading is a depth-weighted median when no more than half of *)
(* the depth lies strictly on either side of it.  With an even split there *)
(* is a lower and an upper one, and the usual conventions (lower, upper,   *)
(* midpoint) are all open to the model.  When every depth is zero the      *)
(* weights are undefined, and any reading qualifies.                       *)
(***************************************************************************)
IsPlainMedian(readings, V, v) ==  \* mutant: every venue weighs the same
  /\ 2 * Cardinality({u \in V : readings[u].price < readings[v].price}) <= Cardinality(V)
  /\ 2 * Cardinality({u \in V : readings[u].price > readings[v].price}) <= Cardinality(V)

IsMedian(readings, V, v) ==
  /\ 2 * DepthOn(readings, {u \in V : readings[u].price < readings[v].price})
       <= DepthOn(readings, V)
  /\ 2 * DepthOn(readings, {u \in V : readings[u].price > readings[v].price})
       <= DepthOn(readings, V)

WeightedMean(readings, V) ==  \* mutant: the depth-weighted mean instead
  IF DepthOn(readings, V) = 0 THEN {}
  ELSE {SumFunctionOnSet([v \in V |-> readings[v].price * readings[v].depth], V)
          \div DepthOn(readings, V)}

Medians(readings, V) ==
  LET P      == {readings[v].price : v \in {u \in V : IsMedian(readings, V, u)}}
      bounds == {b \in P \X P : \A p \in P : b[1] <= p /\ p <= b[2]}
  IN  P \cup {(b[1] + b[2]) \div 2 : b \in bounds}

(* Rule 4: |price - median| / median > 0.005, in integers.                 *)
Distance(p, q) == IF p < q THEN q - p ELSE p - q

DivergesLoosely(p, median) == 100 * Distance(p, median) > 2 * median \* mutant: 200bps
Diverges(p, median)        == 200 * Distance(p, median) > median

(* Rules 1, 4 and 5 in the order of the prompt.                            *)
VerdictOn(readings, V, median) ==
  IF \E v \in V : Diverges(readings[v].price, median)
  THEN Refused("venue_divergence")
  ELSE PricedAt(median)

VerdictsFromOneVenue(readings, strict, now) ==  \* mutant: one venue is enough
  LET V == Valid(readings, strict, now)
  IN  IF V = {} THEN {Refused("insufficient_venues")}
                ELSE {VerdictOn(readings, V, m) : m \in Medians(readings, V)}

Verdicts(readings, strict, now) ==
  LET V == Valid(readings, strict, now)
  IN  IF Cardinality(V) < 2 THEN {Refused("insufficient_venues")}
                            ELSE {VerdictOn(readings, V, m) : m \in Medians(readings, V)}
=============================================================================
