------------------------ MODULE ReconciliationProofs ------------------------
(***************************************************************************)
(* What a verdict rests on, for every set of venues, prices and depths.    *)
(***************************************************************************)
EXTENDS Reconciliation, FiniteSetTheorems, TLAPS

(* A price stands on these readings: at least two of them, each within the *)
(* policy's 50bps.                                                         *)
Supported(S, prices, price) ==
  /\ Cardinality(S) >= 2
  /\ \A v \in S : 200 * Distance(prices[v].price, price) <= price

(* The usable venues returned a price.                                     *)
LEMMA ValidReadings ==
  ASSUME NEW readings \in [Venues -> Reading], NEW strict \in BOOLEAN, NEW now
  PROVE  /\ Valid(readings, strict, now) \subseteq Venues
         /\ \A v \in Valid(readings, strict, now) :
              readings[v] \in OkReadings /\ readings[v].price \in Nat \ {0}
<1> SUFFICES ASSUME NEW v \in Valid(readings, strict, now)
             PROVE  v \in Venues /\ readings[v] \in OkReadings /\ readings[v].price \in Nat \ {0}
  OBVIOUS
<1>1. v \in Venues /\ readings[v].ok
  BY DEF Valid
<1>2. readings[v] \in OkReadings \/ readings[v] = FailedReading
  BY <1>1 DEF Reading
<1>3. readings[v] # FailedReading
  BY <1>1 DEF FailedReading
<1> QED BY <1>1, <1>2, <1>3, PricesAssumption DEF OkReadings

(* There are finitely many of them.                                        *)
LEMMA ValidIsFinite ==
  ASSUME NEW readings, NEW strict, NEW now
  PROVE  Cardinality(Valid(readings, strict, now)) \in Nat
<1>1. Valid(readings, strict, now) \subseteq Venues
  BY DEF Valid
<1> QED BY <1>1, VenuesAssumption, FS_Subset, FS_CardinalityType

(* A depth-weighted median of natural prices is natural, midpoints too.    *)
LEMMA MediansAreNatural ==
  ASSUME NEW readings, NEW V, \A v \in V : readings[v].price \in Nat
  PROVE  Medians(readings, V) \subseteq Nat
<1> DEFINE P == {readings[v].price : v \in {u \in V : IsMedian(readings, V, u)}}
           bounds == {b \in P \X P : \A p \in P : b[1] <= p /\ p <= b[2]}
<1>1. P \subseteq Nat
  OBVIOUS
<1>2. ASSUME NEW b \in bounds PROVE (b[1] + b[2]) \div 2 \in Nat
  <2>1. b[1] \in Nat /\ b[2] \in Nat
    BY <1>1, <1>2
  <2> QED BY <2>1
<1> QED BY <1>1, <1>2 DEF Medians

(* A verdict is a well-formed Reconciliation, and a priced one stands on   *)
(* at least two usable readings, none further than 50bps from the price.   *)
LEMMA VerdictIsSupported ==
  ASSUME NEW readings \in [Venues -> Reading], NEW strict \in BOOLEAN, NEW now,
         NEW verdict \in Verdicts(readings, strict, now)
  PROVE  /\ verdict \in Verdict
         /\ verdict.decision = "priced" =>
              Supported(Valid(readings, strict, now), readings, verdict.price)
<1> DEFINE V == Valid(readings, strict, now)
<1>0. V \subseteq Venues /\ \A v \in V : readings[v].price \in Nat
  BY ValidReadings
<1>1. CASE Cardinality(V) < 2
  BY <1>1 DEF Verdicts, Refused, Verdict, Reasons
<1>2. CASE ~(Cardinality(V) < 2)
  <2>1. PICK m \in Medians(readings, V) : verdict = VerdictOn(readings, V, m)
    BY <1>2 DEF Verdicts
  <2>2. m \in Nat
    BY <1>0, <2>1, MediansAreNatural
  <2>3. CASE \E v \in V : Diverges(readings[v].price, m)
    BY <2>1, <2>3 DEF VerdictOn, Refused, Verdict, Reasons
  <2>4. CASE \A v \in V : ~Diverges(readings[v].price, m)
    <3>1. verdict = PricedAt(m)
      BY <2>1, <2>4 DEF VerdictOn
    <3>2. \A v \in V : 200 * Distance(readings[v].price, m) <= m
      BY <1>0, <2>2, <2>4 DEF Diverges, Distance
    <3>3. Cardinality(V) >= 2
      BY <1>2, ValidIsFinite
    <3> QED BY <2>2, <3>1, <3>2, <3>3 DEF PricedAt, Verdict, Supported
  <2> QED BY <2>3, <2>4
<1> QED BY <1>1, <1>2

(* Support comes from two different venues.                                *)
LEMMA TwoMembers ==
  ASSUME NEW S, Cardinality(S) >= 2
  PROVE  \A x : \E y \in S : y # x
<1> SUFFICES ASSUME NEW x, S \subseteq {x} PROVE FALSE
  OBVIOUS
<1>1. S = {} \/ S = {x}
  OBVIOUS
<1>2. Cardinality({}) = 0 /\ Cardinality({x}) = 1
  BY FS_EmptySet, FS_Singleton
<1> QED BY <1>1, <1>2
=============================================================================
