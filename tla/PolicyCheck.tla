---------------------------- MODULE PolicyCheck ----------------------------
(***************************************************************************)
(* Node reconcile as a state machine of one step: any readings the venue   *)
(* tools can return, then one verdict.  The properties relate the verdict  *)
(* to what the policy document promises in prose.                          *)
(***************************************************************************)
EXTENDS Reconciliation

CONSTANT Now      \* when the verdict is formed

VARIABLES
  readings,   \* what the tools returned to this run
  verdict     \* the Reconciliation record, and under which reading of Rule 1

vars == <<readings, verdict>>

NoVerdict == [strict |-> FALSE, outcome |-> [decision |-> "none"]]

Init ==
  /\ readings \in [Venues -> Reading]
  /\ verdict = NoVerdict

Reconcile ==
  /\ verdict = NoVerdict
  /\ \E strict \in BOOLEAN :
       verdict' \in [strict : {strict}, outcome : Verdicts(readings, strict, Now)]
  /\ UNCHANGED readings

Next == Reconcile

Spec == Init /\ [][Next]_vars

----------------------------------------------------------------------------
Usable == Valid(readings, verdict.strict, Now)
Priced == verdict.outcome.decision = "priced"

(* Textbook form of the depth-weighted median, after sorting by price: the *)
(* first price at which the running depth reaches half of the total, and   *)
(* the first at which it exceeds half.  They differ on an even split only. *)
DepthUpTo(V, p) == DepthOn(readings, {u \in V : readings[u].price <= p})

LowerMedian(V) ==
  Min({p \in {readings[v].price : v \in V} : 2 * DepthUpTo(V, p) >= DepthOn(readings, V)})

UpperMedian(V) ==
  Min({p \in {readings[v].price : v \in V} : 2 * DepthUpTo(V, p) > DepthOn(readings, V)})

(* Rule 3 (RECONCILIATION_POLICY.md, price_oracle.ship step 2): the price  *)
(* reported is a depth-weighted median in the textbook sense or, on an     *)
(* even split of the depth, lies between the two that qualify.  Readings   *)
(* without depth may lie between those.                                    *)
MedianMatchesReference ==
  Priced /\ DepthOn(readings, Usable) > 0 =>
    verdict.outcome.price \in LowerMedian(Usable) .. UpperMedian(Usable)

(* "Never average across an outlier": whenever the agent prices, any two   *)
(* usable readings lie within one per cent of the price from each other,   *)
(* so no price is ever formed out of readings that disagree.               *)
NeverAveragesAnOutlier ==
  Priced => \A u, v \in Usable :
              200 * Distance(readings[u].price, readings[v].price) <= 2 * verdict.outcome.price

(* A venue thinner than the rest cannot pull the price: when readings that *)
(* agree on p hold more than half of the usable depth, the price is p.     *)
DepthMajorityDecides ==
  Priced => \A p \in Prices :
    2 * DepthOn(readings, {v \in Usable : readings[v].price = p}) > DepthOn(readings, Usable)
      => verdict.outcome.price = p

(* Whatever a single venue says instead, the agent either refuses or stays *)
(* within the policy's band: two priced verdicts that differ in what one   *)
(* venue reported are at most 0.5% of their sum apart.                     *)
OneVenueMovesPriceWithinBand ==
  Priced => \A w \in Venues, other \in Reading :
    \A o \in Verdicts([readings EXCEPT ![w] = other], verdict.strict, Now) :
      o.decision = "priced" =>
        200 * Distance(verdict.outcome.price, o.price) <= verdict.outcome.price + o.price
=============================================================================
