--------------------------- MODULE GateContracts ----------------------------
(***************************************************************************)
(* The storage of the five verdict contracts, what a verdict does to it    *)
(* and what a protocol that asks before it acts is told.  Only the agent's *)
(* account writes, and every reason hash is the hash of a real blob, so    *)
(* those two checks never fail here.  "by" is the call that filed a        *)
(* verdict, standing for its reason hash (0: filed by no page's call).     *)
(***************************************************************************)
EXTENDS Integers, Sequences, SequencesExt

Verdict(decision, winner, by) == [decision |-> decision, winner |-> winner, by |-> by]

Uninitialized == Verdict("UNINITIALIZED", 0, 0)

\* TerraFailsafe keeps every round of an action; the others keep the last
\* verdict of a key and the keys ever touched, in order.
InitBook ==
  [terra |-> [MINT |-> <<>>, REDEEM |-> <<>>], verdicts |-> {}, touched |-> <<>>]

Latest(book, agent, key) ==
  IF agent = "terra"
  THEN IF book.terra[key] = <<>> THEN Uninitialized ELSE Last(book.terra[key])
  ELSE LET filed == {f \in book.verdicts : f.agent = agent /\ f.key = key}
       IN  IF filed = {} THEN Uninitialized ELSE (CHOOSE f \in filed : TRUE).verdict

Overwrite(book, agent, key, verdict) ==
  [book EXCEPT !.verdicts = {f \in book.verdicts : f.agent # agent \/ f.key # key}
                            \cup {[agent |-> agent, key |-> key, verdict |-> verdict]},
               !.touched = IF Latest(book, agent, key) = Uninitialized
                           THEN Append(@, <<agent, key>>) ELSE @]

\* TerraFailsafe.reportAllow and reportRefuse: a new round of the action.
TerraReport(book, key, verdict) == [book EXCEPT !.terra[key] = Append(@, verdict)]

BridgeReport(book, key, verdict) == Overwrite(book, "bridge", key, verdict)
GovernanceReview(book, key, verdict) == Overwrite(book, "governance", key, verdict)
AviationReview(book, key, verdict) == Overwrite(book, "aviation", key, verdict)

\* PredictionMarketAdjudicator: a resolved market is resolved for good, a
\* refused one may still be resolved.
Resolved(book, key) == Latest(book, "adjudicate", key).decision = "RESOLVED"

ResolveAgain(book, key, verdict) ==  \* mutant: no AlreadyResolved check
  Overwrite(book, "adjudicate", key, verdict)

ResolveUndecided(book, key, verdict) ==  \* mutant: a refusal is as final as a resolution
  IF Latest(book, "adjudicate", key) = Uninitialized
  THEN Overwrite(book, "adjudicate", key, verdict) ELSE book

Resolve(book, key, verdict) ==
  IF Resolved(book, key) THEN book ELSE Overwrite(book, "adjudicate", key, verdict)

Refuse(book, key, by) ==
  IF Resolved(book, key) THEN book
  ELSE Overwrite(book, "adjudicate", key, Verdict("REFUSED", 0, by))

TerraGateFirst(book, key) ==  \* mutant: the first round of the action is read
  IF book.terra[key] = <<>> THEN "StaleRound"
  ELSE IF Head(book.terra[key]).decision = "REFUSE" THEN "ActionRefused" ELSE "passes"

\* What a protocol's own call to the gate does: pass, or revert with a reason.
TerraGate(book, key) ==
  CASE Latest(book, "terra", key).decision = "UNINITIALIZED" -> "StaleRound"
    [] Latest(book, "terra", key).decision = "REFUSE" -> "ActionRefused"
    [] OTHER -> "passes"

BridgeGate(book, key) ==
  CASE Latest(book, "bridge", key).decision = "UNINITIALIZED" -> "AttestationUnverified"
    [] Latest(book, "bridge", key).decision = "REFUSE" -> "AttestationRefused"
    [] OTHER -> "passes"

MarketGate(book, key) ==
  CASE Latest(book, "adjudicate", key).decision = "UNINITIALIZED" -> "MarketUnresolved"
    [] Latest(book, "adjudicate", key).decision = "REFUSED" -> "MarketRefused"
    [] OTHER -> "pays"
=============================================================================
