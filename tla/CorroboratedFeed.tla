-------------------------- MODULE CorroboratedFeed --------------------------
(***************************************************************************)
(* What the oracle promises to a consumer of the feed, with the agent, its *)
(* tools and the prompts left out: rounds are published one after another, *)
(* and a round carries a price only when at least two sources quoted it to *)
(* within 0.5%.  Otherwise it refuses.                                     *)
(***************************************************************************)
EXTENDS Integers

CONSTANTS
  Sources,
  SubUnits,   \* the quotes' unit is this much finer than the answers'
  LastRound   \* rounds stop here

VARIABLES round, decision, answer, quotes

vars == <<round, decision, answer, quotes>>

Init ==
  /\ round = 0
  /\ decision = "UNINITIALIZED"
  /\ answer = 0
  /\ quotes = [s \in {} |-> 0]

Near(quote, price) ==
  /\ 200 * (quote - price) <= price
  /\ 200 * (price - quote) <= price

(* The price behind an answer, before the agent floors it.                 *)
PricesBehind(a) == SubUnits * a .. SubUnits * a + SubUnits - 1

PublishPrice ==
  /\ decision' = "PRICED"
  /\ \E s, t \in DOMAIN quotes' : s # t
  /\ \E price \in PricesBehind(answer') :
       \A s \in DOMAIN quotes' : Near(quotes'[s], price)

PublishRefusal ==
  /\ decision' = "REFUSED"
  /\ answer' = 0

Next ==
  /\ round < LastRound
  /\ round' = round + 1
  /\ DOMAIN quotes' \subseteq Sources
  /\ PublishPrice \/ PublishRefusal

Spec == Init /\ [][Next]_vars
=============================================================================
