---------------------------- MODULE AgentAnswers ----------------------------
(***************************************************************************)
(* What the six language model callers make of a completion.  A model's    *)
(* completion is "none" (HTTP error, timeout or empty stream), "garbled"   *)
(* (no JSON in it), or the object it holds: a decision word and, where the *)
(* agent has them, a number.  A caller either throws or yields one final   *)
(* verdict; the words a verdict may hold are what its contract accepts.    *)
(***************************************************************************)
EXTENDS Integers

Throws == [decision |-> "throws"]

Words(raw, accepted, otherwise) ==
  IF raw.word \in accepted THEN raw.word ELSE otherwise

decideTerraStream(raw) ==
  IF raw.kind # "object" THEN Throws
  ELSE [decision |-> Words(raw, {"ALLOW"}, "REFUSE")]

decideBridgeStream(raw) ==
  IF raw.kind # "object" THEN Throws
  ELSE [decision |-> Words(raw, {"ALLOW"}, "REFUSE")]

reviewGovernanceStream(raw) ==
  IF raw.kind # "object" THEN Throws
  ELSE [decision |-> Words(raw, {"APPROVE", "REJECT"}, "CAUTION")]

reviewAviationStream(raw) ==
  IF raw.kind # "object" THEN Throws
  ELSE [decision |-> Words(raw, {"APPROVE", "REJECT"}, "CAUTION")]

tickFundStream(raw) ==
  IF raw.kind # "object" THEN Throws
  ELSE [decision |-> Words(raw, {"BUY_WETH", "SELL_WETH"}, "HOLD"), sizeUsd |-> raw.number]

\* The adjudicator never gives up on a text it cannot read: the first option
\* wins with no confidence.  Before the deadline confidence is capped.
adjudicateStream(raw, numOptions, deadlineFuture) ==
  LET read == raw.kind = "object"
      confidence == IF read /\ raw.word \in {"sure", "unsure", "fraction"} THEN raw.word ELSE "none"
  IN  IF raw.kind = "none" THEN Throws
      ELSE [decision |-> "RESOLVED",
            winningOption |-> IF read /\ raw.number \in 0..(numOptions - 1) THEN raw.number ELSE 0,
            confidence |-> IF deadlineFuture /\ confidence \in {"sure", "fraction"}
                           THEN "capped" ELSE confidence]

\* The completions worth telling apart for an agent whose prompt asks for one
\* of the words, and a number.
Completions(words, numbers) ==
  {[kind |-> "none"], [kind |-> "garbled"]}
  \cup [kind : {"object"}, word : words \cup {"another word"}, number : numbers]

\* A readable resolution, and one with an option there is not and a confidence
\* that is not a whole number.
Resolutions ==
  {[kind |-> "object", word |-> "sure", number |-> 1],
   [kind |-> "object", word |-> "fraction", number |-> 7]}
=============================================================================
