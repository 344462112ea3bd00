----------------------------- MODULE DemoServer -----------------------------
(***************************************************************************)
(* The routes under api/demo that the proof-of-agent pages post to, and    *)
(* the limit they share: a bucket of tokens per address, refilled an hour  *)
(* after it was first used.  One address and one server process.  What a   *)
(* visitor types is a value of Texts, always within the length its form    *)
(* admits, so the routes' 400 is out of the pages' reach.                  *)
(***************************************************************************)
EXTENDS Integers, Sequences, FiniteSets

CONSTANTS Limit,    \* RATE_LIMIT_PER_HOUR: 30
          Hour,     \* an hour, in ticks of the clock
          MaxTime,  \* bound on the clock
          Texts,    \* what visitors submit
          None      \* TypeScript's null and undefined

ASSUME LimitAssumption ==
  /\ Limit \in Nat \ {0} /\ Hour \in Nat /\ MaxTime \in Nat
  /\ None \notin Int /\ None \notin [tokens : Int, resetAt : Int]

VARIABLES now,        \* Date.now()
          bucket,     \* the address's bucket, None before its first request
          hasKey,     \* DEEPSEEK_API_KEY is set
          requests    \* every request ever sent, with the reply it got

serverVars == <<now, bucket, hasKey, requests>>

ServerInit ==
  /\ now = 0
  /\ bucket = None
  /\ hasKey \in BOOLEAN
  /\ requests = <<>>

\* at is the time the limiter let the request pass, a history field.
Request(route, to, text) ==
  [route |-> route, to |-> to, text |-> text, status |-> "sent", answer |-> None,
   at |-> None, landed |-> FALSE]

Bucket ==
  IF bucket = None \/ bucket.resetAt < now
  THEN [tokens |-> Limit, resetAt |-> now + Hour] ELSE bucket

\* mutant: the decrement is made on a copy
rateLimitOnCopy(allowed) == (allowed <=> Bucket.tokens > 0) /\ bucket' = Bucket

rateLimit(allowed) ==
  /\ allowed <=> Bucket.tokens > 0
  /\ bucket' = IF allowed THEN [Bucket EXCEPT !.tokens = @ - 1] ELSE Bucket

Reply(status, answer) == [status |-> status, answer |-> answer]

\* What a handler may reply: no key, a model that failed or whose answer did
\* not parse, or one of the answers that do.
callDemoLLM(answers) ==
  IF ~hasKey THEN {Reply("no_key", None)}
  ELSE {Reply("error", None)} \cup {Reply("ok", a) : a \in answers}

quillHandler     == callDemoLLM({"verified", "distinguishable", "fabricated"})
apertureHandler  == callDemoLLM({"accepted", "refused"})
marcellusHandler == callDemoLLM({"accepted", "refused"})
vellumHandler    == callDemoLLM({"accepted", "refused"})
calderHandler    == callDemoLLM({"dispatch"})
commentHandler   == callDemoLLM({"comment"})

HANDLERS(slug) ==
  CASE slug = "quill"         -> quillHandler
    [] slug = "aperture-0312" -> apertureHandler
    [] slug = "marcellus"     -> marcellusHandler
    [] slug = "vellum-1492"   -> vellumHandler
    [] slug = "calder"        -> calderHandler

\* A request arrives.  The token goes before anything else is looked at.
Arrives(r, replies) ==
  /\ requests[r].status = "sent"
  /\ \/ /\ rateLimit(TRUE)
        /\ \E reply \in replies :
             requests' = [requests EXCEPT ![r].status = reply.status,
                                          ![r].answer = reply.answer, ![r].at = now]
     \/ /\ rateLimit(FALSE)
        /\ requests' = [requests EXCEPT ![r].status = "rate_limited"]
  /\ UNCHANGED <<now, hasKey>>

POST(r) == requests[r].route = "demo" /\ Arrives(r, HANDLERS(requests[r].to))
commentPOST(r) == requests[r].route = "comment" /\ Arrives(r, commentHandler)

Tick == now < MaxTime /\ now' = now + 1 /\ UNCHANGED <<bucket, hasKey, requests>>

-----------------------------------------------------------------------------
(* The limiter counts by fixed windows, so an hour that straddles two of   *)
(* them may be served more than the 30 that llm.ts and the pages' error    *)
(* name, but always less than twice that, whatever mix of questions and    *)
(* comment threads the requests come from and however late they arrive.    *)
Passed == {r \in DOMAIN requests : requests[r].at # None}

WithinTwiceTheLimit ==
  \A first \in Passed :
    LET start == requests[first].at
    IN  Cardinality({r \in Passed : requests[r].at \in start .. start + Hour}) < 2 * Limit
=============================================================================
