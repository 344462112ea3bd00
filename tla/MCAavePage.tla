---------------------------- MODULE MCAavePage ----------------------------
(* What the exchanges answer: calm, moved up, or an outage of one venue.   *)
EXTENDS AavePage, TLC

Reading(p) == [price |-> p, depth |-> 100, status |-> "ok", tampered |-> FALSE]
Down == [price |-> 0, depth |-> 0, status |-> "down", tampered |-> FALSE]

MCLiveReadings ==
  {[v \in Venues |-> Reading(200)]}
    \cup {[v \in Venues |-> IF v = u THEN Down ELSE Reading(220)] : u \in Venues}

MCContents ==
  {[decision |-> "PRICED", price |-> 200, reason |-> "other"],
   [decision |-> "PRICED", price |-> 0, reason |-> "other"],
   [decision |-> "REFUSED", price |-> 0, reason |-> "exitability"]}

VenueSymmetry == Permutations(Venues)
=============================================================================
