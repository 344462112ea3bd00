-------------------------- MODULE PolicyCheckProofs --------------------------
(***************************************************************************)
(* What the decision rule guarantees about one verdict, for every number   *)
(* of venues and every price, depth and timestamp they can report.         *)
(***************************************************************************)
EXTENDS PolicyCheck, ReconciliationProofs, Sums

(* The readings are what tools return, and a verdict is one that the rule  *)
(* admits for exactly these readings.                                      *)
VerdictFollowsReadings ==
  /\ readings \in [Venues -> Reading]
  /\ \/ verdict = NoVerdict
     \/ /\ verdict.strict \in BOOLEAN
        /\ verdict.outcome \in Verdicts(readings, verdict.strict, Now)

(* No step takes a verdict away from the readings it was formed on.        *)
LEMMA VerdictAlwaysFollows == Spec => []VerdictFollowsReadings
<1>1. Init => VerdictFollowsReadings
  BY DEF Init, VerdictFollowsReadings
<1>2. VerdictFollowsReadings /\ [Next]_vars => VerdictFollowsReadings'
  <2> SUFFICES ASSUME VerdictFollowsReadings, [Next]_vars
               PROVE  VerdictFollowsReadings'
    OBVIOUS
  <2>1. CASE Reconcile
    <3>1. PICK strict \in BOOLEAN :
            verdict' \in [strict : {strict}, outcome : Verdicts(readings, strict, Now)]
      BY <2>1 DEF Reconcile
    <3>2. verdict'.strict \in BOOLEAN
          /\ verdict'.outcome \in Verdicts(readings, verdict'.strict, Now)
      BY <3>1
    <3>3. readings' = readings
      BY <2>1 DEF Reconcile
    <3> QED BY <3>2, <3>3 DEF VerdictFollowsReadings
  <2>2. CASE UNCHANGED vars
    BY <2>2 DEF vars, VerdictFollowsReadings
  <2> QED BY <2>1, <2>2 DEF Next
<1> QED BY <1>1, <1>2, PTL DEF Spec

(* "Never average across an outlier" holds of every verdict the rule can   *)
(* return, whatever convention is used for the median.                     *)
THEOREM NoOutlierIsAveraged == Spec => []NeverAveragesAnOutlier
<1>1. VerdictFollowsReadings => NeverAveragesAnOutlier
  <2> SUFFICES ASSUME VerdictFollowsReadings, Priced,
                      NEW u \in Usable, NEW v \in Usable
               PROVE  200 * Distance(readings[u].price, readings[v].price)
                        <= 2 * verdict.outcome.price
    BY DEF NeverAveragesAnOutlier
  <2> DEFINE price == verdict.outcome.price
  <2>1. /\ readings \in [Venues -> Reading]
        /\ verdict.strict \in BOOLEAN
        /\ verdict.outcome \in Verdicts(readings, verdict.strict, Now)
    BY DEF VerdictFollowsReadings, Priced, NoVerdict
  <2>2. price \in Nat /\ Supported(Usable, readings, price)
    BY <2>1, VerdictIsSupported DEF Priced, Usable, Verdict
  <2>3. readings[u].price \in Nat /\ readings[v].price \in Nat
    BY <2>1, ValidReadings DEF Usable
  <2>4. /\ 200 * Distance(readings[u].price, price) <= price
        /\ 200 * Distance(readings[v].price, price) <= price
    BY <2>2 DEF Supported
  <2> QED BY <2>2, <2>3, <2>4 DEF Distance
<1> QED BY <1>1, VerdictAlwaysFollows, PTL

(* One venue alone, whatever it reports, moves a published price by no     *)
(* more than half a per cent of the sum of the two prices.                 *)
THEOREM OneVenueCannotMoveThePrice == Spec => []OneVenueMovesPriceWithinBand
<1>1. VerdictFollowsReadings => OneVenueMovesPriceWithinBand
  <2> SUFFICES ASSUME VerdictFollowsReadings, Priced,
                      NEW w \in Venues, NEW other \in Reading,
                      NEW o \in Verdicts([readings EXCEPT ![w] = other], verdict.strict, Now),
                      o.decision = "priced"
               PROVE  200 * Distance(verdict.outcome.price, o.price)
                        <= verdict.outcome.price + o.price
    BY DEF OneVenueMovesPriceWithinBand
  <2> DEFINE p == verdict.outcome.price
             changed == [readings EXCEPT ![w] = other]
             W == Valid(changed, verdict.strict, Now)
  <2>1. /\ readings \in [Venues -> Reading]
        /\ verdict.strict \in BOOLEAN
        /\ verdict.outcome \in Verdicts(readings, verdict.strict, Now)
    BY DEF VerdictFollowsReadings, Priced, NoVerdict
  <2>2. changed \in [Venues -> Reading]
    BY <2>1
  <2>3. p \in Nat /\ Supported(Usable, readings, p)
    BY <2>1, VerdictIsSupported DEF Priced, Usable, Verdict
  <2>4. o.price \in Nat /\ Supported(W, changed, o.price)
    <3>1. o \in Verdicts(changed, verdict.strict, Now)
      OBVIOUS
    <3>2. o \in Verdict /\ (o.decision = "priced" => Supported(W, changed, o.price))
      BY <2>1, <2>2, <3>1, VerdictIsSupported
    <3> HIDE DEF changed, W
    <3> QED BY <3>2 DEF Verdict
  <2>5. Usable \ {w} = W \ {w}
    <3>1. \A u \in Venues \ {w} : changed[u] = readings[u]
      BY <2>1
    <3> QED BY <3>1 DEF Usable, Valid
  <2>6. PICK u \in Usable \cap W : u # w
    <3>1. Cardinality(Usable) >= 2
      BY <2>3 DEF Supported
    <3>2. \E x \in Usable : x # w
      BY <3>1, TwoMembers
    <3> QED BY <2>5, <3>2
  <2>7. u \in Venues /\ changed[u] = readings[u] /\ readings[u].price \in Nat
    BY <2>1, <2>6, ValidReadings DEF Usable
  <2>8. /\ 200 * Distance(readings[u].price, p) <= p
        /\ 200 * Distance(readings[u].price, o.price) <= o.price
    BY <2>3, <2>4, <2>6, <2>7 DEF Supported
  <2>9. ASSUME NEW r \in Nat, NEW q \in Nat, 200 * Distance(r, p) <= p,
               200 * Distance(r, q) <= q
        PROVE  200 * Distance(p, q) <= p + q
    BY <2>3, <2>9 DEF Distance
  <2> QED BY <2>4, <2>7, <2>8, <2>9
<1> QED BY <1>1, VerdictAlwaysFollows, PTL

-----------------------------------------------------------------------------
(* Depth, and what it says about medians.                                  *)

(* Depth is a measure: none is negative, and disjoint venues add up.       *)
LEMMA DepthAddsUp ==
  ASSUME NEW r, NEW V, IsFiniteSet(V), \A v \in V : r[v].depth \in Nat
  PROVE  \A S \in SUBSET V :
           /\ DepthOn(r, S) \in Nat
           /\ \A T \in SUBSET S : DepthOn(r, S) = DepthOn(r, T) + DepthOn(r, S \ T)
<1> DEFINE Of(S) == [v \in S |-> r[v].depth]
<1>1. ASSUME NEW S \in SUBSET V
      PROVE  DepthOn(r, S) = Total(Of(S)) /\ DepthOn(r, S) \in Nat
  <2>1. IsFiniteSet(S) /\ Of(S) \in [S -> Int] /\ Of(S) \in [S -> Nat]
    BY FS_Subset
  <2>2. DepthOn(r, S) = SumFunctionOnSet(Of(S), S)
    BY DEF DepthOn
  <2> HIDE DEF Of
  <2> QED BY <2>1, <2>2, SumIsTotal, TotalOfNaturals
<1>2. ASSUME NEW S \in SUBSET V, NEW T \in SUBSET S
      PROVE  DepthOn(r, S) = DepthOn(r, T) + DepthOn(r, S \ T)
  <2>1. PICK D, E, f, g, h : D = S /\ E = T /\ f = Of(D) /\ g = Of(E) /\ h = Of(D \ E)
    OBVIOUS
  <2>2. IsFiniteSet(D) /\ f \in [D -> Int] /\ E \in SUBSET D
    BY <2>1, FS_Subset
  <2>3. g = [i \in E |-> f[i]] /\ h = [i \in D \ E |-> f[i]]
    BY <2>1
  <2> HIDE DEF Of
  <2>5. Total(f) = Total(g) + Total(h)
    BY <2>2, <2>3, TotalOfParts
  <2>4. S \ T \in SUBSET V /\ T \in SUBSET V
    OBVIOUS
  <2> QED BY <1>1, <2>1, <2>4, <2>5
<1> QED BY <1>1, <1>2

(* So more venues have no less.                                            *)
LEMMA DepthGrows ==
  ASSUME NEW r, NEW V, IsFiniteSet(V), \A v \in V : r[v].depth \in Nat
  PROVE  /\ \A S \in SUBSET V : DepthOn(r, S) \in Nat
         /\ \A S \in SUBSET V : \A T \in SUBSET S : DepthOn(r, T) <= DepthOn(r, S)
<1>0. \A S \in SUBSET V : /\ DepthOn(r, S) \in Nat
        /\ \A T \in SUBSET S : DepthOn(r, S) = DepthOn(r, T) + DepthOn(r, S \ T)
  BY DepthAddsUp
<1>1. ASSUME NEW S \in SUBSET V, NEW T \in SUBSET S
      PROVE  DepthOn(r, T) <= DepthOn(r, S)
  <2>1. S \ T \in SUBSET V /\ T \in SUBSET V
    OBVIOUS
  <2>2. DepthOn(r, S) = DepthOn(r, T) + DepthOn(r, S \ T)
        /\ DepthOn(r, T) \in Nat /\ DepthOn(r, S \ T) \in Nat
    BY <1>0, <2>1
  <2> QED BY <2>2
<1> QED BY <1>0, <1>1

(* Venues that together hold more than half of the depth cannot lie        *)
(* strictly on one side of a median.                                       *)
LEMMA MajorityReachesMedian ==
  ASSUME NEW r, NEW V, IsFiniteSet(V), \A u \in V : r[u].depth \in Nat,
         \A u \in V : r[u].price \in Nat,
         NEW S \in SUBSET V, 2 * DepthOn(r, S) > DepthOn(r, V),
         NEW v \in V, IsMedian(r, V, v)
  PROVE  /\ \E u \in S : r[u].price <= r[v].price
         /\ \E u \in S : r[u].price >= r[v].price
<1> DEFINE below == {u \in V : r[u].price < r[v].price}
           over  == {u \in V : r[u].price > r[v].price}
<1>1. 2 * DepthOn(r, below) <= DepthOn(r, V) /\ 2 * DepthOn(r, over) <= DepthOn(r, V)
  BY DEF IsMedian
<1>2. ASSUME NEW T \in SUBSET V, S \subseteq T PROVE ~(2 * DepthOn(r, T) <= DepthOn(r, V))
  <2>1. DepthOn(r, S) \in Nat /\ DepthOn(r, T) \in Nat /\ DepthOn(r, V) \in Nat
        /\ DepthOn(r, S) <= DepthOn(r, T)
    BY <1>2, DepthGrows
  <2> QED BY <2>1
<1>3. ~(S \subseteq below) /\ ~(S \subseteq over)
  <2>1. below \in SUBSET V /\ over \in SUBSET V
    OBVIOUS
  <2> HIDE DEF below, over
  <2> QED BY <1>1, <1>2, <2>1
<1> QED BY <1>3

(* What bounds the prices that are medians bounds midpoints as well.       *)
LEMMA MediansLieBetween ==
  ASSUME NEW r, NEW V, \A v \in V : r[v].price \in Nat, NEW low \in Nat, NEW high \in Nat,
         \A v \in V : IsMedian(r, V, v) => low <= r[v].price /\ r[v].price <= high
  PROVE  Medians(r, V) \subseteq low .. high
<1> DEFINE P == {r[v].price : v \in {u \in V : IsMedian(r, V, u)}}
           bounds == {b \in P \X P : \A p \in P : b[1] <= p /\ p <= b[2]}
<1>1. \A p \in P : p \in Nat /\ low <= p /\ p <= high
  OBVIOUS
<1>2. ASSUME NEW b \in bounds PROVE (b[1] + b[2]) \div 2 \in low .. high
  <2>1. b[1] \in P /\ b[2] \in P
    OBVIOUS
  <2> HIDE DEF P, bounds
  <2>2. /\ b[1] \in Nat /\ low <= b[1] /\ b[1] <= high
        /\ b[2] \in Nat /\ low <= b[2] /\ b[2] <= high
    BY <1>1, <2>1
  <2> QED BY <2>2
<1>3. Medians(r, V) = P \cup {(b[1] + b[2]) \div 2 : b \in bounds}
  BY DEF Medians
<1>4. P \subseteq low .. high
  BY <1>1
<1> QED BY <1>2, <1>3, <1>4

(* Of finitely many readings one has the highest price.                    *)
LEMMA HighestPrice ==
  ASSUME NEW r, NEW V, IsFiniteSet(V), \A v \in V : r[v].price \in Nat, V # {}
  PROVE  \E v \in V : \A u \in V : r[u].price <= r[v].price
<1> DEFINE Tops(T) == \E v \in T : \A u \in T : r[u].price <= r[v].price
           Good == {T \in SUBSET V : T = {} \/ Tops(T)}
<1>1. ASSUME NEW T \in SUBSET V, \A x \in T : T \ {x} \in Good PROVE T \in Good
  <2> SUFFICES ASSUME T # {} PROVE Tops(T)
    OBVIOUS
  <2>1. PICK x \in T : TRUE
    OBVIOUS
  <2>2. CASE T \ {x} = {}
    BY <2>1, <2>2
  <2>3. CASE T \ {x} # {}
    <3>1. PICK w \in T \ {x} : \A u \in T \ {x} : r[u].price <= r[w].price
      BY <1>1, <2>1, <2>3
    <3>2. r[w].price \in Nat /\ r[x].price \in Nat /\ \A u \in T : r[u].price \in Nat
      OBVIOUS
    <3>3. CASE r[x].price <= r[w].price
      BY <3>1, <3>3
    <3>4. CASE r[w].price <= r[x].price
      <4>1. \A u \in T : r[u].price <= r[x].price
        BY <3>1, <3>2, <3>4
      <4> QED BY <2>1, <4>1
    <3> QED BY <3>2, <3>3, <3>4
  <2> QED BY <2>2, <2>3
<1>2. V \in Good
  <2> HIDE DEF Good
  <2>1. SUBSET V \subseteq Good
    BY <1>1, EverySubset
  <2> QED BY <2>1
<1> QED BY <1>2

(* A priced verdict is a median of usable readings.                        *)
LEMMA PriceIsMedian ==
  ASSUME VerdictFollowsReadings, Priced
  PROVE  /\ IsFiniteSet(Usable)
         /\ \A v \in Usable : readings[v].price \in Nat /\ readings[v].depth \in Nat
         /\ verdict.outcome.price \in Medians(readings, Usable)
<1>1. /\ readings \in [Venues -> Reading] /\ verdict.strict \in BOOLEAN
      /\ verdict.outcome \in Verdicts(readings, verdict.strict, Now)
  BY DEF VerdictFollowsReadings, Priced, NoVerdict
<1>2. Usable \subseteq Venues /\ \A v \in Usable : readings[v] \in OkReadings
  BY <1>1, ValidReadings DEF Usable
<1>3. \A v \in Usable : readings[v].price \in Nat /\ readings[v].depth \in Nat
  BY <1>2, PricesAssumption, DepthsAssumption DEF OkReadings
<1>4. verdict.outcome \in {VerdictOn(readings, Usable, m) : m \in Medians(readings, Usable)}
  <2>1. verdict.outcome # Refused("insufficient_venues")
    BY DEF Priced, Refused
  <2> QED BY <1>1, <2>1 DEF Verdicts, Usable
<1>5. PICK m \in Medians(readings, Usable) : verdict.outcome = VerdictOn(readings, Usable, m)
  BY <1>4
<1>6. verdict.outcome = PricedAt(m)
  BY <1>5 DEF VerdictOn, Priced, Refused
<1> QED BY <1>2, <1>3, <1>5, <1>6, VenuesAssumption, FS_Subset DEF PricedAt

(* Whoever agrees on a price and has most of the depth sets the price.     *)
THEOREM DepthDecides == Spec => []DepthMajorityDecides
<1>1. VerdictFollowsReadings => DepthMajorityDecides
  <2> SUFFICES ASSUME VerdictFollowsReadings, Priced, NEW p \in Prices,
                      2 * DepthOn(readings, {v \in Usable : readings[v].price = p})
                        > DepthOn(readings, Usable)
               PROVE  verdict.outcome.price = p
    BY DEF DepthMajorityDecides
  <2>1. PICK V, S : V = Usable /\ S = {v \in Usable : readings[v].price = p}
    OBVIOUS
  <2>2. /\ IsFiniteSet(V) /\ \A v \in V : readings[v].price \in Nat
        /\ \A v \in V : readings[v].depth \in Nat
        /\ S \in SUBSET V /\ 2 * DepthOn(readings, S) > DepthOn(readings, V)
    BY <2>1, PriceIsMedian
  <2>3. ASSUME NEW v \in V, IsMedian(readings, V, v)
        PROVE  p <= readings[v].price /\ readings[v].price <= p
    <3>1. /\ \E u \in S : readings[u].price <= readings[v].price
          /\ \E u \in S : readings[u].price >= readings[v].price
      BY <2>2, <2>3, MajorityReachesMedian
    <3> QED BY <2>1, <3>1
  <2>4. p \in Nat
    BY PricesAssumption
  <2>5. Medians(readings, V) \subseteq p .. p
    BY <2>2, <2>3, <2>4, MediansLieBetween
  <2>6. verdict.outcome.price \in p .. p
    BY <2>1, <2>5, PriceIsMedian
  <2> QED BY <2>4, <2>6
<1> QED BY <1>1, VerdictAlwaysFollows, PTL

(* The price is between the two textbook medians, which is to say that it  *)
(* is the one there is unless the depth splits evenly.                     *)
THEOREM PriceIsTextbookMedian == Spec => []MedianMatchesReference
<1>1. VerdictFollowsReadings => MedianMatchesReference
  <2> SUFFICES ASSUME VerdictFollowsReadings, Priced, DepthOn(readings, Usable) > 0
               PROVE  verdict.outcome.price \in LowerMedian(Usable) .. UpperMedian(Usable)
    BY DEF MedianMatchesReference
  <2>1. PICK V, total : V = Usable /\ total = DepthOn(readings, V)
    OBVIOUS
  <2>2. /\ IsFiniteSet(V) /\ \A v \in V : readings[v].price \in Nat
        /\ \A v \in V : readings[v].depth \in Nat
    BY <2>1, PriceIsMedian
  <2>3. /\ \A S \in SUBSET V : DepthOn(readings, S) \in Nat
        /\ \A S \in SUBSET V : \A T \in SUBSET S : DepthOn(readings, T) <= DepthOn(readings, S)
        /\ \A S \in SUBSET V : total = DepthOn(readings, S) + DepthOn(readings, V \ S)
    BY <2>1, <2>2, DepthAddsUp, DepthGrows
  <2> DEFINE prices == {readings[v].price : v \in V}
             reach  == {p \in prices : 2 * DepthUpTo(V, p) >= total}
             pass   == {p \in prices : 2 * DepthUpTo(V, p) > total}
  <2>4. \A p : {u \in V : readings[u].price <= p} \in SUBSET V
    OBVIOUS
  <2>5. \A p : DepthUpTo(V, p) \in Nat
    BY <2>3, <2>4 DEF DepthUpTo
  <2>6. total \in Nat /\ total > 0
    BY <2>1, <2>3
  \* Up to the highest price, all the depth has passed.
  <2>7. pass # {} /\ reach # {} /\ pass \subseteq Nat /\ reach \subseteq Nat
    <3>1. PICK v \in V : \A u \in V : readings[u].price <= readings[v].price
      <4>1. V # {}
        <5>1. V = {} => total = total + total
          BY <2>1, <2>3
        <5> QED BY <2>6, <5>1
      <4> QED BY <2>2, <4>1, HighestPrice
    <3>2. {u \in V : readings[u].price <= readings[v].price} = V
      BY <3>1
    <3>3. DepthUpTo(V, readings[v].price) = total
      BY <2>1, <3>2 DEF DepthUpTo
    <3>4. readings[v].price \in pass /\ readings[v].price \in reach
      BY <2>6, <3>3
    <3> QED BY <2>2, <3>4
  <2>8. PICK low, high : low = Min(reach) /\ high = Min(pass)
    OBVIOUS
  <2>9. /\ low \in reach /\ \A p \in reach : low <= p
        /\ high \in pass /\ \A p \in pass : high <= p
    <3> HIDE DEF reach, pass
    <3> QED BY <2>7, <2>8, LeastOf
  <2>10. /\ low \in Nat /\ high \in Nat /\ LowerMedian(Usable) = low
         /\ UpperMedian(Usable) = high
    BY <2>1, <2>7, <2>8, <2>9 DEF LowerMedian, UpperMedian
  <2>11. ASSUME NEW v \in V, IsMedian(readings, V, v)
         PROVE  low <= readings[v].price /\ readings[v].price <= high
    <3> DEFINE below == {u \in V : readings[u].price < readings[v].price}
               over  == {u \in V : readings[u].price > readings[v].price}
               upto(p) == {u \in V : readings[u].price <= p}
    <3>1. 2 * DepthOn(readings, below) <= total /\ 2 * DepthOn(readings, over) <= total
      BY <2>1, <2>11 DEF IsMedian
    <3>2. low <= readings[v].price
      <4>1. readings[v].price \in prices /\ over = V \ upto(readings[v].price)
        BY <2>2
      <4>2. upto(readings[v].price) \in SUBSET V
        OBVIOUS
      <4>3. total = DepthUpTo(V, readings[v].price) + DepthOn(readings, over)
        BY <2>3, <4>1, <4>2 DEF DepthUpTo
      <4>4. over \in SUBSET V
        OBVIOUS
      <4>5. DepthOn(readings, over) \in Nat /\ DepthUpTo(V, readings[v].price) \in Nat
        BY <2>3, <2>5, <4>4
      <4>6. 2 * DepthUpTo(V, readings[v].price) >= total
        <5> HIDE DEF over, below
        <5> QED BY <2>6, <3>1, <4>3, <4>5
      <4> QED BY <2>9, <4>1, <4>6
    <3>3. readings[v].price <= high
      <4> SUFFICES ASSUME high < readings[v].price PROVE FALSE
        BY <2>2, <2>10
      <4>1. upto(high) \in SUBSET below /\ below \in SUBSET V /\ upto(high) \in SUBSET V
        BY <2>2, <2>10
      <4>2. DepthUpTo(V, high) <= DepthOn(readings, below) /\ DepthOn(readings, below) \in Nat
        BY <2>3, <4>1 DEF DepthUpTo
      <4>3. 2 * DepthUpTo(V, high) > total
        BY <2>9
      <4> HIDE DEF below, over, upto
      <4> QED BY <2>5, <2>6, <3>1, <4>2, <4>3
    <3> QED BY <3>2, <3>3
  <2>12. Medians(readings, V) \subseteq low .. high
    <3> HIDE DEF reach, pass
    <3> QED BY <2>2, <2>10, <2>11, MediansLieBetween
  <2> QED BY <2>1, <2>10, <2>12, PriceIsMedian
<1> QED BY <1>1, VerdictAlwaysFollows, PTL
=============================================================================
