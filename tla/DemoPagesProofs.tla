--------------------------- MODULE DemoPagesProofs ---------------------------
(***************************************************************************)
(* What a visitor of a proof-of-agent page can rely on, for any number of  *)
(* requests, commenters and hours: an answer stands beside its question,   *)
(* a thread is of one regeneration, and the limiter's two windows.         *)
(***************************************************************************)
EXTENDS DemoPages, SequenceTheorems, FiniteSetTheorems, TLAPS

Slugs == {"quill", "aperture-0312", "marcellus", "vellum-1492", "calder"}

-----------------------------------------------------------------------------
(* Requests.  What was asked of whom never changes, and a request whose    *)
(* reply was read never changes at all.                                    *)

RequestFields == {"route", "to", "text", "status", "answer", "at", "landed"}
Statuses == {"sent", "no_key", "error", "ok", "rate_limited", "broken"}

Lawful(x) ==
  /\ DOMAIN x = RequestFields
  /\ x.landed \in BOOLEAN /\ x.status \in Statuses /\ (x.status = "sent" => ~x.landed /\ x.at = None)
  /\ x.route = "demo" => x.to \in Slugs
  /\ x.status = "ok" /\ x.route = "demo" /\ x.to = "calder" => x.answer = "dispatch"
  /\ x.status = "ok" /\ x.route = "comment" => x.answer = "comment"

Requests(q) ==
  /\ \E S : q \in Seq(S)
  /\ \A r \in 1 .. Len(q) : Lawful(q[r])

Asks(x, y) == y.route = x.route /\ y.to = x.to /\ y.text = x.text

Kept(p, q) ==
  /\ Requests(q) /\ Len(q) = Len(p)
  /\ \A r \in 1 .. Len(p) : Asks(p[r], q[r]) /\ (p[r].landed => q[r] = p[r])

Grown(p, q) ==
  /\ Requests(q) /\ Len(p) \in Nat /\ Len(q) \in Nat /\ Len(p) <= Len(q)
  /\ \A r \in 1 .. Len(p) : q[r] = p[r]
  /\ \A r \in Len(p) + 1 .. Len(q) : ~q[r].landed /\ q[r].at = None

LEMMA Replaced ==
  ASSUME Requests(requests), NEW r \in 1 .. Len(requests), ~requests[r].landed,
         NEW c, Lawful(c), Asks(requests[r], c), requests' = [requests EXCEPT ![r] = c]
  PROVE  /\ Kept(requests, requests')
         /\ \A i \in 1 .. Len(requests) : requests'[i] = IF i = r THEN c ELSE requests[i]
<1>1. PICK S : requests \in Seq(S)
  BY DEF Requests
<1>2. requests \in Seq(S \cup {c}) /\ c \in S \cup {c}
  BY <1>1, SeqMonotonic
<1>3. /\ requests' \in Seq(S \cup {c}) /\ Len(requests') = Len(requests)
      /\ \A j \in 1 .. Len(requests) : requests'[j] = IF j = r THEN c ELSE requests[j]
  BY <1>2, ExceptSeq
<1>4. Kept(requests, requests')
  BY <1>3 DEF Requests, Kept, Asks
<1> QED BY <1>3, <1>4

LEMMA SentIsLawful ==
  ASSUME NEW route, NEW to, NEW text, route = "demo" => to \in Slugs
  PROVE  Lawful(Request(route, to, text)) /\ Request(route, to, text).status = "sent"
BY DEF Request, Lawful, RequestFields, Statuses

LEMMA SubmitGrows ==
  ASSUME Requests(requests), NEW slug \in Slugs, Submit(slug)
  PROVE  /\ Grown(requests, requests')
         /\ live'.kind = "loading"
         /\ \E r \in 1 .. Len(requests') :
              /\ r > Len(requests)
              /\ requests'[r] = Request("demo", slug, live'.submitted)
         /\ Len(requests') = Len(requests) + 1
<1>1. PICK text \in Texts :
        /\ live' = [kind |-> "loading", submitted |-> text, answer |-> None]
        /\ requests' = Append(requests, Request("demo", slug, text))
  BY DEF Submit
<1> DEFINE c == Request("demo", slug, text)
<1>2. Lawful(c) /\ ~c.landed /\ c.at = None
  BY SentIsLawful DEF Request
<1>3. PICK S : requests \in Seq(S)
  BY DEF Requests
<1> HIDE DEF c
<1>4. requests \in Seq(S \cup {c}) /\ c \in S \cup {c} /\ Len(requests) \in Nat
  BY <1>3, SeqMonotonic, LenProperties
<1>5. /\ requests' \in Seq(S \cup {c}) /\ Len(requests') = Len(requests) + 1
      /\ requests'[Len(requests) + 1] = c
      /\ \A i \in 1 .. Len(requests) : requests'[i] = requests[i]
  BY <1>1, <1>4, AppendProperties DEF c
<1>6. \A i \in 1 .. Len(requests) + 1 : i \in 1 .. Len(requests) \/ i = Len(requests) + 1
  BY <1>4
<1>7. Requests(requests')
  BY <1>2, <1>5, <1>6 DEF Requests
<1>8. \A i \in Len(requests) + 1 .. Len(requests') : i = Len(requests) + 1
  BY <1>4, <1>5
<1>9. Len(requests) + 1 \in 1 .. Len(requests') /\ Len(requests) + 1 > Len(requests)
  BY <1>4, <1>5
<1> QED BY <1>1, <1>2, <1>4, <1>5, <1>7, <1>8, <1>9 DEF Grown, c

LEMMA RegenerateGrows ==
  ASSUME Requests(requests), regenerateThread
  PROVE  /\ Grown(requests, requests')
         /\ Len(requests') = Len(requests) + Len(Commenters)
         /\ \A i \in 1 .. Len(Commenters) :
              requests'[Len(requests) + i] = Request("comment", Commenters[i], regen.generation + 1)
<1> DEFINE n == Len(requests)  m == Len(Commenters)
           new(i) == Request("comment", Commenters[i], regen.generation + 1)
           more == [i \in DOMAIN Commenters |-> new(i)]
<1>1. requests' = requests \o more
  BY DEF regenerateThread
<1>2. \A i : Lawful(new(i)) /\ ~new(i).landed /\ new(i).at = None
  BY SentIsLawful DEF Request
<1>3. PICK S : requests \in Seq(S)
  BY DEF Requests
<1>4. DOMAIN Commenters = 1 .. m /\ m \in Nat /\ n \in Nat
  BY <1>3, LenProperties, CommentersAssumption
<1> DEFINE T == S \cup {new(i) : i \in 1 .. m}
<1> HIDE DEF new
<1>5. /\ more \in Seq(T) /\ Len(more) = m
      /\ \A i \in 1 .. m : more[i] = new(i)
  BY <1>4
<1>6. requests \in Seq(T)
  BY <1>3, SeqMonotonic
<1> HIDE DEF T, more
<1>7. /\ requests' \in Seq(T) /\ Len(requests') = n + m
      /\ \A i \in 1 .. n + m : requests'[i] = IF i <= n THEN requests[i] ELSE more[i - n]
  <2>1. /\ requests \o more \in Seq(T)
        /\ Len(requests \o more) = Len(requests) + Len(more)
        /\ \A i \in 1 .. Len(requests) + Len(more) :
             (requests \o more)[i] = IF i <= Len(requests) THEN requests[i] ELSE more[i - Len(requests)]
    BY <1>5, <1>6, ConcatProperties
  <2> QED BY <1>1, <1>5, <2>1
<1>8. \A i \in 1 .. n : requests'[i] = requests[i]
  BY <1>4, <1>7
<1>9. ASSUME NEW i \in 1 .. m PROVE requests'[n + i] = new(i)
  <2>1. n + i \in 1 .. n + m /\ ~(n + i <= n) /\ (n + i) - n = i
    BY <1>4
  <2> QED BY <1>5, <1>7, <2>1
<1>10. ASSUME NEW i \in n + 1 .. n + m PROVE requests'[i] = new(i - n)
  <2>1. i - n \in 1 .. m /\ n + (i - n) = i
    BY <1>4
  <2> QED BY <1>9, <2>1
<1>11. Requests(requests')
  <2>1. \A i \in 1 .. n + m : i \in 1 .. n \/ i \in n + 1 .. n + m
    BY <1>4
  <2> QED BY <1>2, <1>7, <1>8, <1>10, <2>1 DEF Requests
<1>12. \A i \in n + 1 .. Len(requests') : ~requests'[i].landed /\ requests'[i].at = None
  BY <1>2, <1>7, <1>10
<1>13. Grown(requests, requests')
  BY <1>4, <1>7, <1>8, <1>11, <1>12 DEF Grown
<1> QED BY <1>7, <1>9, <1>13 DEF new

LEMMA ModelAnswers ==
  ASSUME NEW A, NEW reply \in callDemoLLM(A)
  PROVE  reply.status \in {"no_key", "error", "ok"} /\ (reply.status = "ok" => reply.answer \in A)
BY DEF callDemoLLM, Reply

(* The times at which requests were let pass: one more, or the same.       *)
OneMore(p, q, r) ==
  /\ p[r].at = None /\ q[r].at = now
  /\ \A i \in 1 .. Len(p) : i # r => q[i].at = p[i].at

LEMMA ReplyKeeps ==
  ASSUME Requests(requests), NEW r \in 1 .. Len(requests), POST(r) \/ commentPOST(r)
  PROVE  /\ Kept(requests, requests') /\ UNCHANGED now
         /\ \A i \in 1 .. Len(requests) : requests'[i].landed = requests[i].landed
         /\ \/ rateLimit(TRUE) /\ OneMore(requests, requests', r)
            \/ rateLimit(FALSE) /\ \A i \in 1 .. Len(requests) : requests'[i].at = requests[i].at
<1> DEFINE x == requests[r]
<1>1. /\ Lawful(x) /\ DOMAIN x = RequestFields /\ r \in DOMAIN requests
      /\ x.status = "sent" /\ ~x.landed /\ x.at = None
  BY LenProperties DEF Requests, Lawful, POST, commentPOST, Arrives
<1>2. PICK replies :
        /\ Arrives(r, replies)
        /\ \A reply \in replies :
             /\ reply.status \in {"no_key", "error", "ok"}
             /\ reply.status = "ok" /\ x.route = "demo" /\ x.to = "calder" => reply.answer = "dispatch"
             /\ reply.status = "ok" /\ x.route = "comment" => reply.answer = "comment"
  <2>1. CASE POST(r)
    <3>1. x.route = "demo" /\ x.to \in Slugs /\ Arrives(r, HANDLERS(x.to))
      BY <1>1, <2>1 DEF POST, Lawful
    <3>2. ASSUME NEW reply \in HANDLERS(x.to)
          PROVE  reply.status \in {"no_key", "error", "ok"} /\ (reply.status = "ok" /\ x.to = "calder" => reply.answer = "dispatch")
      <4>1. /\ x.to = "quill" => HANDLERS(x.to) = quillHandler
            /\ x.to = "aperture-0312" => HANDLERS(x.to) = apertureHandler
            /\ x.to = "marcellus" => HANDLERS(x.to) = marcellusHandler
            /\ x.to = "vellum-1492" => HANDLERS(x.to) = vellumHandler
            /\ x.to = "calder" => HANDLERS(x.to) = calderHandler
        BY DEF HANDLERS
      <4>2. CASE x.to = "calder"
        BY <3>2, <4>1, <4>2, ModelAnswers DEF calderHandler
      <4>3. CASE x.to # "calder"
        BY <3>1, <3>2, <4>1, <4>3, ModelAnswers
           DEF Slugs, quillHandler, apertureHandler, marcellusHandler, vellumHandler
      <4> QED BY <4>2, <4>3
    <3> QED BY <3>1, <3>2
  <2>2. CASE commentPOST(r)
    <3>1. x.route = "comment" /\ Arrives(r, commentHandler)
      BY <2>2 DEF commentPOST
    <3>2. \A reply \in commentHandler :
            reply.status \in {"no_key", "error", "ok"} /\ (reply.status = "ok" => reply.answer = "comment")
      BY ModelAnswers DEF commentHandler
    <3> QED BY <3>1, <3>2
  <2> QED BY <2>1, <2>2
<1>3. UNCHANGED now
  BY <1>2 DEF Arrives
<1>4. ASSUME rateLimit(TRUE), NEW reply \in replies,
             requests' = [requests EXCEPT ![r].status = reply.status,
                                          ![r].answer = reply.answer, ![r].at = now]
      PROVE  /\ Kept(requests, requests') /\ OneMore(requests, requests', r)
             /\ \A i \in 1 .. Len(requests) : requests'[i].landed = requests[i].landed
  <2> DEFINE c == [x EXCEPT !.status = reply.status, !.answer = reply.answer, !.at = now]
  <2>1. /\ DOMAIN c = RequestFields /\ Asks(x, c) /\ c.landed = x.landed
        /\ c.status = reply.status /\ c.answer = reply.answer /\ c.at = now
    BY <1>1 DEF RequestFields, Asks
  <2>2. requests' = [requests EXCEPT ![r] = c]
    BY <1>1, <1>4 DEF RequestFields
  <2> HIDE DEF c
  <2>3. Lawful(c)
    BY <1>1, <1>2, <2>1 DEF Lawful, Asks, Statuses
  <2>4. /\ Kept(requests, requests')
        /\ \A i \in 1 .. Len(requests) : requests'[i] = IF i = r THEN c ELSE requests[i]
    BY <1>1, <2>1, <2>2, <2>3, Replaced
  <2> QED BY <1>1, <2>1, <2>4 DEF OneMore
<1>5. ASSUME rateLimit(FALSE), requests' = [requests EXCEPT ![r].status = "rate_limited"]
      PROVE  /\ Kept(requests, requests')
             /\ \A i \in 1 .. Len(requests) : /\ requests'[i].landed = requests[i].landed
                                              /\ requests'[i].at = requests[i].at
  <2> DEFINE c == [x EXCEPT !.status = "rate_limited"]
  <2>1. /\ DOMAIN c = RequestFields /\ Asks(x, c) /\ c.landed = x.landed
        /\ c.status = "rate_limited" /\ c.at = x.at
    BY <1>1 DEF RequestFields, Asks
  <2>2. requests' = [requests EXCEPT ![r] = c]
    BY <1>1, <1>5 DEF RequestFields
  <2> HIDE DEF c
  <2>3. Lawful(c)
    BY <1>1, <2>1 DEF Lawful, Asks, Statuses
  <2>4. /\ Kept(requests, requests')
        /\ \A i \in 1 .. Len(requests) : requests'[i] = IF i = r THEN c ELSE requests[i]
    BY <1>1, <2>1, <2>2, <2>3, Replaced
  <2> QED BY <1>1, <2>1, <2>4
<1> QED BY <1>2, <1>3, <1>4, <1>5 DEF Arrives

(* A reply that is read, and a connection that breaks.                     *)
LEMMA ReadKeeps ==
  ASSUME Requests(requests), NEW r \in 1 .. Len(requests), ~requests[r].landed,
         \/ Landed(r) /\ requests[r].status # "sent"
         \/ requests' = [requests EXCEPT ![r].landed = TRUE, ![r].status = "broken",
                                         ![r].answer = None]
  PROVE  /\ Kept(requests, requests')
         /\ \A i \in 1 .. Len(requests) : /\ requests'[i].at = requests[i].at
                                          /\ i # r => requests'[i] = requests[i]
         /\ requests'[r].landed
         /\ Landed(r) => /\ requests'[r].status = requests[r].status
                         /\ requests'[r].answer = requests[r].answer
<1> DEFINE x == requests[r]
<1>1. Lawful(x) /\ DOMAIN x = RequestFields /\ r \in DOMAIN requests /\ ~x.landed
  BY LenProperties DEF Requests, Lawful
<1>2. CASE Landed(r) /\ x.status # "sent"
  <2> DEFINE c == [x EXCEPT !.landed = TRUE]
  <2>1. /\ DOMAIN c = RequestFields /\ Asks(x, c) /\ c.landed = TRUE
        /\ c.status = x.status /\ c.answer = x.answer /\ c.at = x.at
    BY <1>1 DEF RequestFields, Asks
  <2>2. requests' = [requests EXCEPT ![r] = c]
    BY <1>1, <1>2 DEF Landed, RequestFields
  <2> HIDE DEF c
  <2>3. Lawful(c)
    BY <1>1, <1>2, <2>1 DEF Lawful, Asks, Statuses
  <2>4. /\ Kept(requests, requests')
        /\ \A i \in 1 .. Len(requests) : requests'[i] = IF i = r THEN c ELSE requests[i]
    BY <1>1, <2>1, <2>2, <2>3, Replaced
  <2> QED BY <2>1, <2>4
<1>3. CASE ~(Landed(r) /\ x.status # "sent")
  <2> DEFINE c == [x EXCEPT !.landed = TRUE, !.status = "broken", !.answer = None]
  <2>1. /\ DOMAIN c = RequestFields /\ Asks(x, c) /\ c.landed = TRUE
        /\ c.status = "broken" /\ c.at = x.at
    BY <1>1 DEF RequestFields, Asks
  <2>2. requests' = [requests EXCEPT ![r] = c]
    BY <1>1, <1>3 DEF RequestFields
  <2> HIDE DEF c
  <2>3. Lawful(c)
    BY <1>1, <2>1 DEF Lawful, Asks, Statuses
  <2>4. /\ Kept(requests, requests')
        /\ \A i \in 1 .. Len(requests) : requests'[i] = IF i = r THEN c ELSE requests[i]
    BY <1>1, <2>1, <2>2, <2>3, Replaced
  <2>5. Landed(r) => requests'[r].status = x.status /\ requests'[r].answer = x.answer
    BY <1>1 DEF Landed, RequestFields
  <2> QED BY <2>1, <2>4, <2>5
<1> QED BY <1>2, <1>3

LEMMA AllNumbered ==
  ASSUME Requests(requests)
  PROVE  DOMAIN requests = 1 .. Len(requests) /\ Len(requests) \in Nat
BY LenProperties DEF Requests

-----------------------------------------------------------------------------
(* The answer and its question                                             *)

Answers(r) ==
  /\ requests[r].route = "demo" /\ requests[r].text = live.submitted
  /\ requests[r].landed /\ requests[r].status = "ok" /\ requests[r].answer = live.answer

Awaited(r) ==
  /\ requests[r].route = "demo" /\ requests[r].text = live.submitted
  /\ ~requests[r].landed

LiveInv ==
  /\ Requests(requests)
  /\ \A r \in 1 .. Len(requests) : requests[r].route = "demo" => requests[r].to = page
  /\ live.kind = "ok" => \E r \in 1 .. Len(requests) : Answers(r)
  /\ live.kind = "loading" => \E r \in 1 .. Len(requests) : Awaited(r)

LEMMA SubmitKeepsLive ==
  ASSUME LiveInv, NEW slug \in Slugs, Form(slug), Submit(slug)
  PROVE  LiveInv'
<1>1. page = slug /\ page' = page
  BY DEF Form, Submit
<1>2. Requests(requests) /\ Len(requests) \in Nat
  BY AllNumbered DEF LiveInv
<1>3. PICK r \in 1 .. Len(requests') :
        /\ Grown(requests, requests') /\ live'.kind = "loading"
        /\ r > Len(requests) /\ Len(requests') = Len(requests) + 1
        /\ requests'[r] = Request("demo", slug, live'.submitted)
  BY <1>2, SubmitGrows
<1>4. \A i \in 1 .. Len(requests') : i = r \/ i \in 1 .. Len(requests)
  BY <1>2, <1>3
<1>5. /\ requests'[r].route = "demo" /\ requests'[r].to = slug
      /\ requests'[r].text = live'.submitted /\ ~requests'[r].landed
  BY <1>3 DEF Request
<1> QED BY <1>1, <1>3, <1>4, <1>5 DEF LiveInv, Grown, Awaited

LEMMA RegenerateKeepsLive ==
  ASSUME LiveInv, regenerateThread
  PROVE  LiveInv'
<1>1. UNCHANGED <<page, live>>
  BY DEF regenerateThread
<1>2. Requests(requests) /\ Len(requests) \in Nat
  BY AllNumbered DEF LiveInv
<1>3. /\ Grown(requests, requests') /\ Len(requests') = Len(requests) + Len(Commenters)
      /\ \A i \in 1 .. Len(Commenters) :
           requests'[Len(requests) + i] = Request("comment", Commenters[i], regen.generation + 1)
  BY <1>2, RegenerateGrows
<1>4. Len(Commenters) \in Nat
  BY CommentersAssumption, LenProperties
<1>5. ASSUME NEW i \in 1 .. Len(requests'), i \notin 1 .. Len(requests)
      PROVE  requests'[i].route = "comment"
  <2>1. i - Len(requests) \in 1 .. Len(Commenters) /\ Len(requests) + (i - Len(requests)) = i
    BY <1>2, <1>3, <1>4, <1>5
  <2> DEFINE k == i - Len(requests)
  <2>2. requests'[Len(requests) + k] = Request("comment", Commenters[k], regen.generation + 1)
    BY <1>3, <2>1
  <2> HIDE DEF k
  <2>3. requests'[Len(requests) + k].route = "comment"
    BY <2>2 DEF Request
  <2> QED BY <2>1, <2>3 DEF k
<1>6. \A r \in 1 .. Len(requests) : r \in 1 .. Len(requests') /\ requests'[r] = requests[r]
  BY <1>3 DEF Grown
<1> QED BY <1>1, <1>3, <1>5, <1>6 DEF LiveInv, Grown, Answers, Awaited

\* The server answers, and replies to the thread's requests are read.
LEMMA LiveIsKept ==
  ASSUME LiveInv, UNCHANGED <<page, live>>, Kept(requests, requests'),
         \A i \in 1 .. Len(requests) :
           requests[i].route = "demo" => requests'[i].landed = requests[i].landed
  PROVE  LiveInv'
BY DEF LiveInv, Kept, Asks, Answers, Awaited

LEMMA AnsweredKeepsLive ==
  ASSUME LiveInv, NEW r \in 1 .. Len(requests), Answered(r)
  PROVE  LiveInv'
<1>1. /\ Requests(requests) /\ ~requests[r].landed /\ requests[r].status # "sent"
      /\ Landed(r) /\ requests[r].route = "demo" /\ page' = page
      /\ live' = LandsOn(r, IF requests[r].status = "rate_limited" THEN "error"
                            ELSE requests[r].status)
  BY DEF LiveInv, Answered
<1>2. /\ Kept(requests, requests') /\ requests'[r].landed
      /\ requests'[r].status = requests[r].status
      /\ requests'[r].answer = requests[r].answer
  BY <1>1, ReadKeeps
<1>3. Lawful(requests[r])
  BY <1>1 DEF Requests
<1>4. /\ live'.submitted = requests[r].text /\ live'.answer = requests[r].answer
      /\ live'.kind # "loading" /\ (live'.kind = "ok" => requests[r].status = "ok")
  BY <1>1, <1>3 DEF LandsOn, Lawful, Statuses
<1> QED BY <1>1, <1>2, <1>4 DEF LiveInv, Kept, Asks, Answers

LEMMA BrokenKeepsLive ==
  ASSUME LiveInv, NEW r \in 1 .. Len(requests), Broken(r)
  PROVE  LiveInv'
<1>1. /\ Requests(requests) /\ ~requests[r].landed /\ page' = page /\ live'.kind = "error"
      /\ requests' = [requests EXCEPT ![r].landed = TRUE, ![r].status = "broken",
                                      ![r].answer = None]
  BY DEF LiveInv, Broken
<1>2. Kept(requests, requests')
  BY <1>1, ReadKeeps
<1> QED BY <1>1, <1>2 DEF LiveInv, Kept, Asks

LEMMA CommentsKeepLive ==
  ASSUME LiveInv, NEW r \in 1 .. Len(requests), Commented(r) \/ CommentBroken(r)
  PROVE  LiveInv'
<1>1. /\ Requests(requests) /\ ~requests[r].landed /\ UNCHANGED <<page, live>>
      /\ requests[r].route = "comment"
      /\ \/ Landed(r) /\ requests[r].status # "sent"
         \/ requests' = [requests EXCEPT ![r].landed = TRUE, ![r].status = "broken",
                                         ![r].answer = None]
  BY DEF LiveInv, Commented, CommentBroken
<1>2. /\ Kept(requests, requests')
      /\ \A i \in 1 .. Len(requests) : i # r => requests'[i] = requests[i]
  BY <1>1, ReadKeeps
<1> QED BY <1>1, <1>2, LiveIsKept

LEMMA LiveInvIsKept ==
  ASSUME LiveInv, [Next]_vars
  PROVE  LiveInv'
<1>1. DOMAIN requests = 1 .. Len(requests) /\ Requests(requests)
  BY AllNumbered DEF LiveInv
<1>2. CASE QuillSubmit \/ ApertureSubmit \/ MarcellusSubmit \/ VellumSubmit \/ submitEvent
  BY <1>2, SubmitKeepsLive
     DEF Slugs, QuillSubmit, ApertureSubmit, MarcellusSubmit, VellumSubmit, submitEvent,
         CitationForm, CommissionForm, AssignmentForm, EditForm, EventForm
<1>3. CASE Reset
  BY <1>3 DEF Reset, Idle, serverVars, LiveInv
<1>4. CASE regenerateThread
  BY <1>4, RegenerateKeepsLive
<1>5. CASE UNCHANGED <<page, live, requests>>
  BY <1>5 DEF LiveInv, Answers, Awaited
<1>6. ASSUME NEW r \in DOMAIN requests, POST(r) \/ commentPOST(r), UNCHANGED pageVars
      PROVE  LiveInv'
  BY <1>1, <1>6, ReplyKeeps, LiveIsKept DEF pageVars
<1>7. ASSUME NEW r \in DOMAIN requests,
             Answered(r) \/ Broken(r) \/ Commented(r) \/ CommentBroken(r)
      PROVE  LiveInv'
  BY <1>1, <1>7, AnsweredKeepsLive, BrokenKeepsLive, CommentsKeepLive
<1>8. (submitComment \/ (Tick /\ UNCHANGED pageVars) \/ UNCHANGED vars) =>
        UNCHANGED <<page, live, requests>>
  BY DEF submitComment, Tick, pageVars, serverVars, vars
<1> QED BY <1>2, <1>3, <1>4, <1>5, <1>6, <1>7, <1>8 DEF Next

(* An answer on show stands beside the text it answers, however many       *)
(* questions were left unanswered and in whatever order their replies      *)
(* land; and a page that says its agent is at work is still owed a reply   *)
(* to the text it quotes.                                                  *)
THEOREM AnswersMeetTheirQuestions == Spec => []AnswerIsForItsInput
<1>1. Init => LiveInv
  BY EmptySeq DEF Init, ServerInit, Idle, LiveInv, Requests
<1>2. LiveInv /\ [Next]_vars => LiveInv'
  BY LiveInvIsKept
<1>3. LiveInv => AnswerIsForItsInput
  <2> SUFFICES ASSUME LiveInv PROVE AnswerIsForItsInput
    OBVIOUS
  <2>1. DOMAIN requests = 1 .. Len(requests)
    BY AllNumbered DEF LiveInv
  <2>2. live.kind = "loading" =>
          \E r \in DOMAIN requests : /\ requests[r].route = "demo" /\ ~requests[r].landed
                                     /\ requests[r].text = live.submitted
    BY <2>1 DEF LiveInv, Awaited
  <2>3. ASSUME live.kind = "ok"
        PROVE  /\ page \in Slugs /\ live.answer \in AnswersTo(live.submitted)
               /\ page = "calder" => live.answer = "dispatch"
    <3>1. PICK r \in 1 .. Len(requests) : Answers(r)
      BY <2>3 DEF LiveInv
    <3>2. Lawful(requests[r]) /\ requests[r].to = page
      BY <3>1 DEF LiveInv, Requests, Answers
    <3>3. live.answer \in AnswersTo(live.submitted)
      BY <2>1, <3>1 DEF AnswersTo, Answers
    <3> QED BY <3>1, <3>2, <3>3 DEF Lawful, Answers
  <2>4. CASE live.kind # "ok"
    BY <2>2, <2>4 DEF AnswerIsForItsInput
  <2>5. CASE live.kind = "ok"
    <3> DEFINE answers == AnswersTo(live.submitted)
    <3>1. page = "quill" =>
            \E a \in answers : CitationResult.label =
              IF a = "distinguishable" THEN "real, abrogated" ELSE a
      <4>1. CitationResult.label =
              IF live.answer = "distinguishable" THEN "real, abrogated" ELSE live.answer
        BY DEF CitationResult
      <4> QED BY <2>3, <2>5, <4>1
    <3>2. CommissionResult.label = live.answer /\ EditResult.label = live.answer
      BY DEF CommissionResult, EditResult
    <3>3. AssignmentResult.label = "filed" => live.answer = "accepted"
      BY DEF AssignmentResult
    <3>4. EventResult.submitted = live.submitted
      BY DEF EventResult
    <3>5. page \in Slugs /\ live.answer \in answers /\ (page = "calder" => live.answer = "dispatch")
      BY <2>3, <2>5
    <3> HIDE DEF answers
    <3>6. CASE page = "quill"
      BY <2>2, <2>5, <3>1, <3>6 DEF AnswerIsForItsInput, answers
    <3>7. CASE page = "aperture-0312"
      BY <2>2, <2>5, <3>2, <3>5, <3>7 DEF AnswerIsForItsInput, answers
    <3>8. CASE page = "marcellus"
      BY <2>2, <2>5, <3>3, <3>5, <3>8 DEF AnswerIsForItsInput, answers
    <3>9. CASE page = "vellum-1492"
      BY <2>2, <2>5, <3>2, <3>5, <3>9 DEF AnswerIsForItsInput, answers
    <3>10. CASE page = "calder"
      BY <2>2, <2>5, <3>4, <3>5, <3>10 DEF AnswerIsForItsInput, answers
    <3> QED BY <3>5, <3>6, <3>7, <3>8, <3>9, <3>10 DEF Slugs
  <2> QED BY <2>4, <2>5
<1> QED BY <1>1, <1>2, <1>3, PTL DEF Spec

-----------------------------------------------------------------------------
(* The thread                                                              *)

Asked(g, i) ==
  \E r \in 1 .. Len(requests) :
    requests[r].route = "comment" /\ requests[r].text = g /\ requests[r].to = Commenters[i]

Told(g, i) ==
  \E r \in 1 .. Len(requests) :
    /\ requests[r].route = "comment" /\ requests[r].text = g /\ requests[r].to = Commenters[i]
    /\ requests[r].landed /\ requests[r].answer = "comment"

\* What is on show is generation g of the agents', and then the visitor's.
Shows(g) ==
  /\ \E S : thread \in Seq(S)
  /\ Len(Commenters) <= Len(thread)
  /\ \A i \in 1 .. Len(Commenters) : thread[i] = Comment(Commenters[i], g)
  /\ \A i \in Len(Commenters) + 1 .. Len(thread) : thread[i].by = "You"

Current(g) ==
  /\ g \in 0 .. regen.generation
  /\ g > 0 => \A i \in 1 .. Len(Commenters) : Told(g, i)
  /\ regen.kind = "ok" => g = regen.generation

Numbered ==
  /\ DOMAIN regen = {"kind", "generation"} /\ regen.generation \in Nat
  /\ \A r \in 1 .. Len(requests) :
       requests[r].route = "comment" => requests[r].text \in 1 .. regen.generation
  /\ \A g \in 1 .. regen.generation : \A i \in 1 .. Len(Commenters) : Asked(g, i)

ThreadInv ==
  Requests(requests) /\ Numbered /\ \E g : Shows(g) /\ Current(g)

LEMMA Audience == DOMAIN Commenters = 1 .. Len(Commenters) /\ Len(Commenters) \in Nat \ {0}
<1>1. DOMAIN Commenters = 1 .. Len(Commenters) /\ Len(Commenters) \in Nat
  BY CommentersAssumption, LenProperties
<1> QED BY <1>1, CommentersAssumption, EmptySeq

LEMMA AgentsShow ==
  ASSUME NEW g, thread' = AgentsOf(g)
  PROVE  Shows(g)'
<1> DEFINE S == {Comment(Commenters[i], g) : i \in 1 .. Len(Commenters)}
<1>1. /\ AgentsOf(g) \in Seq(S) /\ Len(AgentsOf(g)) = Len(Commenters)
      /\ \A i \in 1 .. Len(Commenters) : AgentsOf(g)[i] = Comment(Commenters[i], g)
  BY Audience DEF AgentsOf
<1> HIDE DEF S
<1>2. \A i : i \notin Len(Commenters) + 1 .. Len(Commenters)
  BY Audience
<1> QED BY <1>1, <1>2, Audience DEF Shows

LEMMA YouFollow ==
  ASSUME NEW g, Shows(g), submitComment
  PROVE  Shows(g)'
<1> DEFINE c == Comment("You", None)
<1>1. PICK S : thread \in Seq(S)
  BY DEF Shows
<1>2. thread \in Seq(S \cup {c}) /\ c \in S \cup {c} /\ Len(thread) \in Nat
  BY <1>1, SeqMonotonic, LenProperties
<1>3. thread' = Append(thread, c) /\ c.by = "You"
  BY DEF submitComment, Comment
<1> HIDE DEF c
<1>4. /\ thread' \in Seq(S \cup {c}) /\ Len(thread') = Len(thread) + 1
      /\ thread'[Len(thread) + 1] = c
      /\ \A i \in 1 .. Len(thread) : thread'[i] = thread[i]
  BY <1>2, <1>3, AppendProperties
<1>5. \A i \in Len(Commenters) + 1 .. Len(thread') :
        i = Len(thread) + 1 \/ (i \in 1 .. Len(thread) /\ i \in Len(Commenters) + 1 .. Len(thread))
  BY <1>2, <1>4, Audience
<1>6. \A i \in 1 .. Len(Commenters) : i \in 1 .. Len(thread)
  BY <1>2, Audience DEF Shows
<1>7. Len(Commenters) <= Len(thread')
  BY <1>2, <1>4, Audience DEF Shows
<1>8. \A i \in Len(Commenters) + 1 .. Len(thread') : thread'[i].by = "You"
  BY <1>3, <1>4, <1>5 DEF Shows
<1> QED BY <1>4, <1>6, <1>7, <1>8 DEF Shows

(* What was asked and told stays so while requests are only added, or      *)
(* answered and read.                                                      *)
LEMMA ToldStays ==
  ASSUME Requests(requests), Grown(requests, requests') \/ Kept(requests, requests'),
         NEW g, NEW i
  PROVE  (Asked(g, i) => Asked(g, i)') /\ (Told(g, i) => Told(g, i)')
<1>1. \A r \in 1 .. Len(requests) :
        /\ r \in 1 .. Len(requests') /\ Asks(requests[r], requests'[r])
        /\ requests[r].landed => requests'[r] = requests[r]
  BY DEF Grown, Kept, Asks
<1> QED BY <1>1 DEF Asked, Told, Asks

LEMMA SubmitKeepsThread ==
  ASSUME ThreadInv, NEW slug \in Slugs, Submit(slug)
  PROVE  ThreadInv'
<1>1. Requests(requests) /\ Len(requests) \in Nat /\ UNCHANGED <<thread, regen>>
  BY AllNumbered DEF ThreadInv, Submit
<1>2. PICK r \in 1 .. Len(requests') :
        /\ Grown(requests, requests')
        /\ r > Len(requests) /\ Len(requests') = Len(requests) + 1
        /\ requests'[r] = Request("demo", slug, live'.submitted)
  BY <1>1, SubmitGrows
<1>3. requests'[r].route = "demo"
  BY <1>2 DEF Request
<1>4. \A i \in 1 .. Len(requests') : i = r \/ i \in 1 .. Len(requests)
  BY <1>1, <1>2
<1>5. Numbered'
  <2>1. \A g \in 1 .. regen.generation : \A i \in 1 .. Len(Commenters) : Asked(g, i)'
    BY <1>1, <1>2, ToldStays DEF ThreadInv, Numbered
  <2> QED BY <1>1, <1>2, <1>3, <1>4, <2>1 DEF ThreadInv, Numbered, Grown
<1>6. ASSUME NEW g, Shows(g), Current(g) PROVE Shows(g)' /\ Current(g)'
  BY <1>1, <1>2, <1>6, ToldStays DEF Shows, Current
<1> QED BY <1>2, <1>5, <1>6 DEF ThreadInv, Grown

LEMMA RegenerateKeepsThread ==
  ASSUME ThreadInv, regenerateThread
  PROVE  ThreadInv'
<1>0. PICK k : k = regen.generation + 1
  OBVIOUS
<1> DEFINE n == Len(requests)  m == Len(Commenters)
<1>1. /\ Requests(requests) /\ n \in Nat /\ m \in Nat \ {0} /\ regen.generation \in Nat
      /\ thread' = thread /\ regen' = [kind |-> "loading", generation |-> k]
  BY <1>0, AllNumbered, Audience DEF ThreadInv, Numbered, regenerateThread
<1>2. /\ Grown(requests, requests') /\ Len(requests') = n + m
      /\ \A i \in 1 .. m : requests'[n + i] = Request("comment", Commenters[i], k)
  BY <1>0, <1>1, RegenerateGrows
<1>3. /\ DOMAIN regen' = {"kind", "generation"} /\ regen'.generation = k
      /\ regen'.kind = "loading" /\ k \in Nat
  BY <1>0, <1>1
<1>4. ASSUME NEW i \in 1 .. m
      PROVE  /\ requests'[n + i].route = "comment" /\ requests'[n + i].text = k
             /\ requests'[n + i].to = Commenters[i] /\ n + i \in 1 .. Len(requests')
  <2>1. n + i \in 1 .. n + m
    BY <1>1
  <2>2. requests'[n + i] = Request("comment", Commenters[i], k) /\ n + i \in 1 .. Len(requests')
    BY <1>2, <2>1
  <2> HIDE DEF n
  <2> QED BY <2>2 DEF Request
<1>5. \A i \in 1 .. m : Asked(k, i)'
  BY <1>4 DEF Asked
<1>6. ASSUME NEW r \in 1 .. Len(requests'), requests'[r].route = "comment"
      PROVE  requests'[r].text \in 1 .. k
  <2>1. CASE r \in 1 .. n
    BY <1>0, <1>1, <1>2, <1>6, <2>1 DEF ThreadInv, Numbered, Grown
  <2>2. CASE r \notin 1 .. n
    <3> DEFINE i == r - n
    <3>1. i \in 1 .. m /\ n + i = r /\ k \in 1 .. k
      BY <1>0, <1>1, <1>2, <2>2
    <3> HIDE DEF i
    <3> QED BY <1>4, <3>1
  <2> QED BY <2>1, <2>2
<1>7. ASSUME NEW g \in 1 .. k, NEW i \in 1 .. m PROVE Asked(g, i)'
  <2>1. CASE g = k
    BY <1>5, <2>1
  <2>2. CASE g # k
    <3>1. g \in 1 .. regen.generation
      BY <1>0, <1>1, <2>2
    <3>2. Asked(g, i)
      BY <3>1 DEF ThreadInv, Numbered
    <3> QED BY <1>1, <1>2, <3>2, ToldStays
  <2> QED BY <2>1, <2>2
<1>8. Numbered'
  BY <1>3, <1>6, <1>7 DEF Numbered
<1>9. ASSUME NEW g, Shows(g), Current(g) PROVE Shows(g)' /\ Current(g)'
  <2>1. g \in 0 .. k
    BY <1>0, <1>1, <1>9 DEF Current
  <2>2. g > 0 => \A i \in 1 .. m : Told(g, i)'
    BY <1>1, <1>2, <1>9, ToldStays DEF Current
  <2>3. Shows(g)'
    BY <1>1, <1>9 DEF Shows
  <2> QED BY <1>3, <2>1, <2>2, <2>3 DEF Current
<1> QED BY <1>2, <1>8, <1>9 DEF ThreadInv, Grown

\* Requests are answered and read, and the thread is not replaced.
LEMMA ThreadIsKept ==
  ASSUME ThreadInv, Kept(requests, requests'), thread' = thread,
         DOMAIN regen' = {"kind", "generation"}, regen'.generation = regen.generation,
         regen'.kind = "ok" => regen.kind = "ok"
  PROVE  ThreadInv'
<1>1. Requests(requests)
  BY DEF ThreadInv
<1>2. Numbered'
  <2>1. \A g \in 1 .. regen.generation : \A i \in 1 .. Len(Commenters) : Asked(g, i)'
    BY <1>1, ToldStays DEF ThreadInv, Numbered
  <2> QED BY <2>1 DEF ThreadInv, Numbered, Kept, Asks
<1>3. ASSUME NEW g, Shows(g), Current(g) PROVE Shows(g)' /\ Current(g)'
  BY <1>1, <1>3, ToldStays DEF Shows, Current
<1> QED BY <1>2, <1>3 DEF ThreadInv, Kept

LEMMA CommentedKeepsThread ==
  ASSUME ThreadInv, NEW r \in 1 .. Len(requests), Commented(r)
  PROVE  ThreadInv'
<1>0. PICK k : k = requests[r].text
  OBVIOUS
<1> DEFINE all == Generation(k)
           last == /\ regen.kind = "loading" /\ regen.generation = k
                   /\ \A q \in all \ {r} : requests[q].landed
           kind == IF \E q \in all : requests[q].status = "no_key" THEN "no_key"
                   ELSE IF \E q \in all : requests[q].status # "ok" THEN "error" ELSE "ok"
<1>1. /\ Requests(requests) /\ ~requests[r].landed /\ requests[r].status # "sent"
      /\ Landed(r) /\ requests[r].route = "comment"
      /\ regen' = IF last THEN [regen EXCEPT !.kind = kind] ELSE regen
      /\ thread' = IF last /\ kind = "ok" THEN AgentsOf(k) ELSE thread
  BY <1>0 DEF ThreadInv, Commented
<1>2. /\ Kept(requests, requests') /\ requests'[r].landed
      /\ requests'[r].status = requests[r].status
      /\ requests'[r].answer = requests[r].answer
  BY <1>1, ReadKeeps
<1>3. k \in 1 .. regen.generation /\ regen.generation \in Nat
      /\ DOMAIN regen = {"kind", "generation"}
  BY <1>0, <1>1 DEF ThreadInv, Numbered
<1>4. CASE last /\ kind = "ok"
  <2>1. /\ thread' = AgentsOf(k) /\ DOMAIN regen' = {"kind", "generation"}
        /\ regen'.generation = k /\ regen'.generation = regen.generation
    BY <1>1, <1>3, <1>4
  <2>2. ASSUME NEW i \in 1 .. Len(Commenters) PROVE Told(k, i)'
    <3>1. PICK q \in 1 .. Len(requests) :
            requests[q].route = "comment" /\ requests[q].text = k /\ requests[q].to = Commenters[i]
      BY <1>3 DEF ThreadInv, Numbered, Asked
    <3>2. q \in all /\ requests[q].status = "ok" /\ Lawful(requests[q])
      BY <1>1, <1>4, <3>1, AllNumbered DEF Generation, Requests
    <3>3. requests[q].answer = "comment" /\ (q # r => requests[q].landed)
      BY <1>4, <3>1, <3>2 DEF Lawful
    <3> QED BY <1>2, <3>1, <3>3 DEF Told, Kept, Asks
  <2>3. Shows(k)' /\ Current(k)'
    BY <1>3, <2>1, <2>2, AgentsShow DEF Current
  <2>4. Numbered'
    <3>1. \A g \in 1 .. regen.generation : \A i \in 1 .. Len(Commenters) : Asked(g, i)'
      BY <1>1, <1>2, ToldStays DEF ThreadInv, Numbered
    <3> QED BY <1>2, <1>3, <2>1, <3>1 DEF ThreadInv, Numbered, Kept, Asks
  <2> QED BY <1>2, <2>3, <2>4 DEF ThreadInv, Kept
<1>5. CASE ~(last /\ kind = "ok")
  <2>1. /\ thread' = thread /\ DOMAIN regen' = {"kind", "generation"}
        /\ regen'.generation = regen.generation
        /\ regen'.kind = "ok" => regen.kind = "ok"
    BY <1>1, <1>3, <1>5
  <2> QED BY <1>2, <2>1, ThreadIsKept
<1> QED BY <1>4, <1>5

LEMMA ReadsKeepThread ==
  ASSUME ThreadInv, NEW r \in 1 .. Len(requests), Answered(r) \/ Broken(r) \/ CommentBroken(r)
  PROVE  ThreadInv'
<1>1. /\ Requests(requests) /\ ~requests[r].landed /\ thread' = thread
      /\ \/ Landed(r) /\ requests[r].status # "sent"
         \/ requests' = [requests EXCEPT ![r].landed = TRUE, ![r].status = "broken",
                                         ![r].answer = None]
  BY DEF ThreadInv, Answered, Broken, CommentBroken
<1>2. Kept(requests, requests')
  BY <1>1, ReadKeeps
<1>3. DOMAIN regen = {"kind", "generation"}
  BY DEF ThreadInv, Numbered
<1>4. /\ DOMAIN regen' = {"kind", "generation"} /\ regen'.generation = regen.generation
      /\ regen'.kind = "ok" => regen.kind = "ok"
  BY <1>3 DEF Answered, Broken, CommentBroken
<1> QED BY <1>1, <1>2, <1>4, ThreadIsKept

LEMMA ThreadInvIsKept ==
  ASSUME ThreadInv, [Next]_vars
  PROVE  ThreadInv'
<1>1. /\ DOMAIN requests = 1 .. Len(requests) /\ Requests(requests)
      /\ DOMAIN regen = {"kind", "generation"}
  BY AllNumbered DEF ThreadInv, Numbered
<1>2. CASE QuillSubmit \/ ApertureSubmit \/ MarcellusSubmit \/ VellumSubmit \/ submitEvent
  BY <1>2, SubmitKeepsThread
     DEF Slugs, QuillSubmit, ApertureSubmit, MarcellusSubmit, VellumSubmit, submitEvent
<1>3. CASE submitComment
  <2>1. UNCHANGED <<requests, regen>>
    BY <1>3 DEF submitComment, serverVars
  <2>2. ASSUME NEW g, Shows(g), Current(g) PROVE Shows(g)' /\ Current(g)'
    BY <1>3, <2>1, <2>2, YouFollow DEF Current, Told
  <2>3. Requests(requests') /\ Numbered'
    BY <2>1 DEF ThreadInv, Numbered, Asked
  <2> QED BY <2>2, <2>3 DEF ThreadInv
<1>4. CASE regenerateThread
  BY <1>4, RegenerateKeepsThread
<1>5. CASE UNCHANGED <<thread, regen, requests>>
  <2>1. ASSUME NEW g, Shows(g), Current(g) PROVE Shows(g)' /\ Current(g)'
    BY <1>5, <2>1 DEF Shows, Current, Told
  <2>2. Requests(requests') /\ Numbered'
    BY <1>5 DEF ThreadInv, Numbered, Asked
  <2> QED BY <2>1, <2>2 DEF ThreadInv
<1>6. ASSUME NEW r \in DOMAIN requests, POST(r) \/ commentPOST(r), UNCHANGED pageVars
      PROVE  ThreadInv'
  <2>1. Kept(requests, requests') /\ UNCHANGED <<thread, regen>>
    BY <1>1, <1>6, ReplyKeeps DEF pageVars
  <2> QED BY <1>1, <2>1, ThreadIsKept
<1>7. ASSUME NEW r \in DOMAIN requests,
             Answered(r) \/ Broken(r) \/ Commented(r) \/ CommentBroken(r)
      PROVE  ThreadInv'
  BY <1>1, <1>7, ReadsKeepThread, CommentedKeepsThread
<1>8. (Reset \/ (Tick /\ UNCHANGED pageVars) \/ UNCHANGED vars) =>
        UNCHANGED <<thread, regen, requests>>
  BY DEF Reset, Tick, pageVars, serverVars, vars
<1> QED BY <1>2, <1>3, <1>4, <1>5, <1>6, <1>7, <1>8 DEF Next

(* The thread on show is one regeneration whole: a comment of each agent,  *)
(* in the order of the list, each a reply it gave to that regeneration,    *)
(* and then the visitor's own; one that failed, was throttled or broke off *)
(* in part shows nothing of itself.                                        *)
THEOREM ThreadsAreWhole == Spec => []ThreadIsOneGeneration
<1>1. Init => ThreadInv
  <2> SUFFICES ASSUME Init PROVE ThreadInv
    OBVIOUS
  <2>1. requests = <<>> /\ thread = AgentsOf(0) /\ regen = [kind |-> "idle", generation |-> 0]
    BY DEF Init, ServerInit
  <2>2. Requests(requests) /\ Numbered
    BY <2>1, EmptySeq DEF Requests, Numbered
  <2>3. Current(0)
    BY <2>1 DEF Current
  <2>4. Shows(0)
    <3> DEFINE S == {Comment(Commenters[i], 0) : i \in 1 .. Len(Commenters)}
    <3>1. /\ AgentsOf(0) \in Seq(S) /\ Len(AgentsOf(0)) = Len(Commenters)
          /\ \A i \in 1 .. Len(Commenters) : AgentsOf(0)[i] = Comment(Commenters[i], 0)
      BY Audience DEF AgentsOf
    <3> HIDE DEF S
    <3>2. \A i : i \notin Len(Commenters) + 1 .. Len(Commenters)
      BY Audience
    <3> QED BY <2>1, <3>1, <3>2, Audience DEF Shows
  <2> QED BY <2>2, <2>3, <2>4 DEF ThreadInv
<1>2. ThreadInv /\ [Next]_vars => ThreadInv'
  BY ThreadInvIsKept
<1>3. ThreadInv => ThreadIsOneGeneration
  <2> SUFFICES ASSUME ThreadInv PROVE ThreadIsOneGeneration
    OBVIOUS
  <2>1. PICK g : Shows(g) /\ Current(g)
    BY DEF ThreadInv
  <2>2. PICK S : thread \in Seq(S)
    BY <2>1 DEF Shows
  <2>3. thread[1].generation = g
    <3>1. 1 \in 1 .. Len(Commenters)
      BY Audience
    <3>2. thread[1] = Comment(Commenters[1], g)
      BY <2>1, <3>1 DEF Shows
    <3> QED BY <3>2 DEF Comment
  <2>4. SubSeq(thread, 1, Len(Commenters)) = AgentsOf(g)
    <3>1. Len(thread) \in Nat
      BY <2>2, LenProperties
    <3>2. SubSeq(thread, 1, Len(Commenters)) = [i \in 1 .. Len(Commenters) |-> thread[i]]
      BY <2>2, <3>1, Audience
    <3> QED BY <2>1, <3>2, Audience DEF Shows, AgentsOf
  <2>5. g > 0 => \A i \in DOMAIN Commenters :
          \E r \in Generation(g) : requests[r].to = Commenters[i] /\ requests[r].answer = "comment"
    BY <2>1, Audience, AllNumbered DEF ThreadInv, Current, Told, Generation
  <2> QED BY <2>1, <2>3, <2>4, <2>5 DEF ThreadIsOneGeneration, Shows, Current
<1> QED BY <1>1, <1>2, <1>3, PTL DEF Spec

-----------------------------------------------------------------------------
(* The limit.  A window of the bucket opens with a request that it lets    *)
(* pass, and the next one opens more than an hour later: of the hour       *)
(* before a window, the request that opened the one before is no part.     *)

In(q, a, b) == {r \in 1 .. Len(q) : q[r].at \in a .. b}

Window(q, b, n) ==
  LET first == b.resetAt - Hour
  IN  /\ \A r \in 1 .. Len(q) : q[r].at # None => q[r].at \in 0 .. n
      /\ b = None => \A r \in 1 .. Len(q) : q[r].at = None
      /\ b # None =>
           /\ DOMAIN b = {"tokens", "resetAt"} /\ b.tokens \in Nat /\ b.resetAt \in Int
           /\ first \in 0 .. n
           /\ \A r \in 1 .. Len(q) : q[r].at # None => q[r].at <= b.resetAt
           /\ \E r \in 1 .. Len(q) : q[r].at = first
           /\ Cardinality(In(q, first, n)) + b.tokens <= Limit
           /\ Cardinality(In(q, first - Hour, first - 1)) < Limit

Bounded(q) == \A t \in Int : Cardinality(In(q, t, t + Hour)) < 2 * Limit

LimitInv ==
  /\ Requests(requests) /\ now \in Nat
  /\ Window(requests, bucket, now) /\ Bounded(requests)

LEMMA Counted ==
  ASSUME NEW q, Len(q) \in Nat, NEW a, NEW b
  PROVE  IsFiniteSet(In(q, a, b)) /\ Cardinality(In(q, a, b)) \in Nat
<1>1. IsFiniteSet(1 .. Len(q))
  BY FS_Interval
<1>2. In(q, a, b) \subseteq 1 .. Len(q)
  BY DEF In
<1> QED BY <1>1, <1>2, FS_Subset, FS_CardinalityType

LEMMA Fewer ==
  ASSUME NEW T, IsFiniteSet(T), NEW S \in SUBSET T
  PROVE  IsFiniteSet(S) /\ Cardinality(S) \in Nat /\ Cardinality(S) <= Cardinality(T)
         /\ Cardinality(T) \in Nat
BY FS_Subset, FS_CardinalityType

\* An hour that ends now or later lies in a window and the hour before it.
LEMMA LastHour ==
  ASSUME NEW q, Len(q) \in Nat, NEW b, b # None, NEW n \in Nat, Window(q, b, n),
         NEW t \in Int, t + Hour >= n
  PROVE  Cardinality(In(q, t, t + Hour)) < 2 * Limit
<1> DEFINE first == b.resetAt - Hour
           before == In(q, first - Hour, first - 1)
           since == In(q, first, n)
<1>1. /\ first \in 0 .. n /\ b.tokens \in Nat /\ Limit \in Nat /\ Hour \in Nat
      /\ \A r \in 1 .. Len(q) : q[r].at # None => q[r].at \in 0 .. n
      /\ Cardinality(since) + b.tokens <= Limit /\ Cardinality(before) < Limit
  BY LimitAssumption DEF Window
<1>2. In(q, t, t + Hour) \subseteq before \cup since
  BY <1>1, LimitAssumption DEF In
<1>3. /\ IsFiniteSet(before) /\ IsFiniteSet(since)
      /\ Cardinality(before) \in Nat /\ Cardinality(since) \in Nat
  BY Counted
<1> HIDE DEF before, since, first
<1>4. /\ IsFiniteSet(before \cup since)
      /\ Cardinality(before \cup since) <= Cardinality(before) + Cardinality(since)
  <2>1. /\ IsFiniteSet(before \cup since)
        /\ Cardinality(before \cup since) =
             Cardinality(before) + Cardinality(since) - Cardinality(before \cap since)
    BY <1>3, FS_Union
  <2>2. Cardinality(before \cap since) \in Nat
    BY <1>3, Fewer
  <2> QED BY <1>3, <2>1, <2>2
<1>5. /\ Cardinality(In(q, t, t + Hour)) <= Cardinality(before \cup since)
      /\ Cardinality(In(q, t, t + Hour)) \in Nat
      /\ Cardinality(before \cup since) \in Nat
  BY <1>2, <1>4, Fewer
<1> QED BY <1>1, <1>3, <1>4, <1>5

\* Requests are sent, refused or read.
LEMMA NoneMore ==
  ASSUME LimitInv, Requests(requests'), Len(requests) <= Len(requests'), UNCHANGED <<now, bucket>>,
         \A r \in 1 .. Len(requests) : requests'[r].at = requests[r].at,
         \A r \in Len(requests) + 1 .. Len(requests') : requests'[r].at = None
  PROVE  LimitInv'
<1>1. Len(requests) \in Nat /\ Len(requests') \in Nat
  <2>1. Len(requests) \in Nat
    BY AllNumbered DEF LimitInv
  <2>2. PICK S : requests' \in Seq(S)
    BY DEF Requests
  <2> QED BY <2>1, <2>2, LenProperties
<1>2. \A r \in 1 .. Len(requests') :
        r \in 1 .. Len(requests) \/ r \in Len(requests) + 1 .. Len(requests')
  BY <1>1
<1>3. \A r \in 1 .. Len(requests) : r \in 1 .. Len(requests')
  BY <1>1
<1>4. ASSUME NEW a \in Int, NEW b \in Int PROVE In(requests', a, b) = In(requests, a, b)
  <2>1. None \notin a .. b
    BY LimitAssumption
  <2> QED BY <1>2, <1>3, <2>1 DEF In
<1>5. Bounded(requests')
  <2>1. \A t \in Int : t + Hour \in Int
    BY LimitAssumption
  <2> QED BY <1>4, <2>1 DEF LimitInv, Bounded
<1>6. Window(requests', bucket, now)
  <2> DEFINE first == bucket.resetAt - Hour
  <2>1. bucket # None => /\ In(requests', first, now) = In(requests, first, now)
                         /\ In(requests', first - Hour, first - 1) =
                              In(requests, first - Hour, first - 1)
    <3>1. bucket # None => first \in Int /\ now \in Int /\ first - Hour \in Int /\ first - 1 \in Int
      BY LimitAssumption DEF LimitInv, Window
    <3> HIDE DEF first
    <3> QED BY <1>4, <3>1
  <2> QED BY <1>2, <1>3, <2>1 DEF LimitInv, Window
<1> QED BY <1>5, <1>6 DEF LimitInv

LEMMA TimePasses ==
  ASSUME LimitInv, Tick
  PROVE  LimitInv'
<1>1. now \in Nat /\ now' = now + 1 /\ UNCHANGED <<bucket, requests>>
  BY DEF LimitInv, Tick
<1> DEFINE first == bucket.resetAt - Hour
<1>2. bucket # None => In(requests, first, now + 1) = In(requests, first, now)
  BY <1>1, LimitAssumption DEF LimitInv, Window, In
<1>3. 0 .. now \subseteq 0 .. now + 1
  BY <1>1
<1>4. Window(requests, bucket, now + 1)
  BY <1>2, <1>3 DEF LimitInv, Window
<1> QED BY <1>1, <1>4 DEF LimitInv

\* A request passes: it opens a window, or it is one more of the window's.
LEMMA OnePasses ==
  ASSUME LimitInv, rateLimit(TRUE), NEW r \in 1 .. Len(requests),
         OneMore(requests, requests', r), Kept(requests, requests'), now' = now
  PROVE  LimitInv'
<1> DEFINE p == requests
           first == bucket.resetAt - Hour
           stale == bucket = None \/ bucket.resetAt < now
<1>1. /\ Len(p) \in Nat /\ Len(requests') = Len(p) /\ Requests(requests') /\ now \in Nat
      /\ Limit \in Nat \ {0} /\ Hour \in Nat
  BY AllNumbered, LimitAssumption DEF LimitInv, Kept
<1>2. PICK q : q = requests'
  OBVIOUS
<1>3. /\ Len(q) = Len(p) /\ r \in 1 .. Len(q) /\ q[r].at = now /\ p[r].at = None
      /\ \A i \in 1 .. Len(p) : i # r => q[i].at = p[i].at
  BY <1>1, <1>2 DEF OneMore
<1>4. /\ Window(p, bucket, now) /\ Bounded(p)
      /\ \A i \in 1 .. Len(q) : q[i].at # None => q[i].at \in 0 .. now
  <2>1. Window(p, bucket, now) /\ Bounded(p)
    BY DEF LimitInv
  <2>2. \A i \in 1 .. Len(p) : p[i].at # None => p[i].at \in 0 .. now
    BY <2>1 DEF Window
  <2>3. now \in 0 .. now
    BY <1>1
  <2> QED BY <1>3, <2>1, <2>2, <2>3
<1>5. ASSUME NEW a \in Int, NEW b \in Int
      PROVE  In(q, a, b) = IF now \in a .. b THEN In(p, a, b) \cup {r} ELSE In(p, a, b)
  BY <1>3, LimitAssumption DEF In
<1>6. ASSUME NEW a \in Int, NEW b \in Int
      PROVE  r \notin In(p, a, b)
  BY <1>3, LimitAssumption DEF In
<1>7. bucket' # None /\ Window(q, bucket', now)
  <2>1. CASE stale
    <3>1. bucket' = [tokens |-> Limit - 1, resetAt |-> now + Hour]
      BY <2>1 DEF rateLimit, Bucket
    <3>2. /\ DOMAIN bucket' = {"tokens", "resetAt"} /\ bucket'.tokens = Limit - 1
          /\ bucket'.resetAt = now + Hour /\ bucket'.resetAt - Hour = now
          /\ bucket' \in [tokens : Int, resetAt : Int]
      BY <1>1, <3>1
    <3>3. In(p, now, now) = {}
      BY <1>1, <1>4, <2>1, LimitAssumption DEF In, Window
    <3>4. In(q, now, now) = {r}
      BY <1>1, <1>5, <3>3
    <3>5. Cardinality(In(q, now, now)) = 1
      BY <3>4, FS_Singleton
    <3>6. In(q, now - Hour, now - 1) = In(p, now - Hour, now - 1)
      BY <1>1, <1>5
    <3>7. Cardinality(In(p, now - Hour, now - 1)) < Limit
      <4>1. CASE bucket = None
        <5>1. In(p, now - Hour, now - 1) = {}
          BY <1>1, <1>4, <4>1, LimitAssumption DEF In, Window
        <5> QED BY <1>1, <5>1, FS_EmptySet
      <4>2. CASE bucket # None
        <5> DEFINE w == In(p, first, now)
        <5>1. /\ bucket.tokens \in Nat /\ bucket.resetAt \in Int /\ first \in 0 .. now
              /\ \A i \in 1 .. Len(p) : p[i].at # None => p[i].at <= bucket.resetAt
              /\ Cardinality(w) + bucket.tokens <= Limit /\ bucket.resetAt < now
          BY <1>4, <2>1, <4>2 DEF Window
        <5>2. PICK o \in 1 .. Len(p) : p[o].at = first
          BY <1>4, <4>2 DEF Window
        <5>3. o \in w
          BY <1>1, <5>1, <5>2 DEF In
        <5>4. In(p, now - Hour, now - 1) \subseteq w \ {o}
          BY <1>1, <5>1, <5>2 DEF In
        <5>5. IsFiniteSet(w) /\ Cardinality(w) \in Nat
          BY <1>1, Counted
        <5> HIDE DEF w
        <5>6. IsFiniteSet(w \ {o}) /\ Cardinality(w \ {o}) = Cardinality(w) - 1
          BY <5>3, <5>5, FS_RemoveElement
        <5>7. Cardinality(In(p, now - Hour, now - 1)) <= Cardinality(w) - 1
              /\ Cardinality(In(p, now - Hour, now - 1)) \in Nat
          BY <5>4, <5>6, Fewer
        <5>8. Limit \in Nat /\ bucket.tokens \in Nat /\ Cardinality(w) + bucket.tokens <= Limit
          BY <1>1, <5>1
        <5> QED BY <5>5, <5>7, <5>8
      <4> QED BY <4>1, <4>2
    <3>8. \A i \in 1 .. Len(q) : q[i].at # None => q[i].at <= now + Hour
      BY <1>1, <1>4
    <3>9. bucket' # None
      BY <3>2, LimitAssumption
    <3>10. PICK c : c = bucket'
      OBVIOUS
    <3>11. /\ c.resetAt - Hour = now /\ c.resetAt = now + Hour /\ c.tokens = Limit - 1
           /\ DOMAIN c = {"tokens", "resetAt"} /\ c # None
      BY <3>2, <3>9, <3>10
    <3>12. Window(q, c, now)
      BY <1>1, <1>3, <1>4, <3>5, <3>6, <3>7, <3>8, <3>11 DEF Window
    <3> QED BY <3>9, <3>10, <3>12
  <2>2. CASE ~stale
    <3>1. bucket # None /\ bucket.resetAt >= now /\ Bucket = bucket
      BY <1>1, <1>4, <2>2 DEF Window, Bucket
    <3>2. /\ DOMAIN bucket = {"tokens", "resetAt"} /\ bucket.tokens \in Nat \ {0}
          /\ bucket.resetAt \in Int /\ first \in 0 .. now
          /\ \A i \in 1 .. Len(p) : p[i].at # None => p[i].at <= bucket.resetAt
          /\ Cardinality(In(p, first, now)) + bucket.tokens <= Limit
          /\ Cardinality(In(p, first - Hour, first - 1)) < Limit
      BY <1>4, <3>1 DEF Window, rateLimit
    <3>3. PICK c : c = bucket'
      OBVIOUS
    <3>4. /\ DOMAIN c = {"tokens", "resetAt"} /\ c.tokens = bucket.tokens - 1
          /\ c.resetAt = bucket.resetAt /\ c \in [tokens : Int, resetAt : Int]
      <4>1. bucket' = [bucket EXCEPT !.tokens = @ - 1]
        BY <3>1 DEF rateLimit
      <4>2. /\ DOMAIN c = {"tokens", "resetAt"} /\ c.tokens = bucket.tokens - 1
            /\ c.resetAt = bucket.resetAt
        BY <3>2, <3>3, <4>1
      <4>3. c = [tokens |-> bucket.tokens - 1, resetAt |-> bucket.resetAt]
        BY <3>2, <3>3, <4>1
      <4> QED BY <3>2, <4>2, <4>3
    <3>5. /\ In(q, first, now) = In(p, first, now) \cup {r} /\ r \notin In(p, first, now)
          /\ In(q, first - Hour, first - 1) = In(p, first - Hour, first - 1)
      BY <1>1, <1>5, <1>6, <3>2
    <3>6. Cardinality(In(q, first, now)) = Cardinality(In(p, first, now)) + 1
          /\ Cardinality(In(p, first, now)) \in Nat
      BY <1>1, <3>5, Counted, FS_AddElement
    <3>7. \A i \in 1 .. Len(q) : q[i].at # None => q[i].at <= bucket.resetAt
      BY <1>1, <1>4, <1>3, <3>1, <3>2
    <3>8. \E i \in 1 .. Len(q) : q[i].at = first
      <4>1. PICK i \in 1 .. Len(p) : p[i].at = first
        BY <1>4, <3>1 DEF Window
      <4>2. i # r
        BY <1>3, <3>2, <4>1, LimitAssumption
      <4> QED BY <1>3, <4>1, <4>2
    <3>9. c # None /\ c.resetAt - Hour = first
      BY <3>4, LimitAssumption
    <3>10. /\ c.tokens \in Nat /\ Cardinality(In(q, first, now)) + c.tokens <= Limit
           /\ Cardinality(In(q, first - Hour, first - 1)) < Limit
      <4>1. c.tokens \in Nat
        BY <3>2, <3>4
      <4>2. Cardinality(In(q, first - Hour, first - 1)) < Limit
        BY <3>2, <3>5
      <4>3. /\ Cardinality(In(p, first, now)) + bucket.tokens <= Limit
            /\ Cardinality(In(q, first, now)) = Cardinality(In(p, first, now)) + 1
            /\ Cardinality(In(p, first, now)) \in Nat /\ bucket.tokens \in Nat
            /\ c.tokens = bucket.tokens - 1 /\ Limit \in Nat
        BY <1>1, <3>2, <3>4, <3>6
      <4> HIDE DEF first, p
      <4>4. Cardinality(In(q, first, now)) + c.tokens <= Limit
        BY <4>3
      <4> QED BY <4>1, <4>2, <4>4
    <3>11. Window(q, c, now)
      <4> HIDE DEF first
      <4> QED BY <1>4, <3>2, <3>4, <3>7, <3>8, <3>9, <3>10 DEF Window
    <3> QED BY <3>3, <3>9, <3>11
  <2> QED BY <2>1, <2>2
<1>8. Bounded(q)
  <2> SUFFICES ASSUME NEW t \in Int PROVE Cardinality(In(q, t, t + Hour)) < 2 * Limit
    BY DEF Bounded
  <2>1. CASE t + Hour >= now
    BY <1>1, <1>3, <1>7, <2>1, LastHour
  <2>2. CASE ~(t + Hour >= now)
    <3>1. In(q, t, t + Hour) = In(p, t, t + Hour)
      BY <1>1, <1>5, <2>2
    <3> QED BY <1>4, <3>1 DEF Bounded
  <2> QED BY <2>1, <2>2
<1> QED BY <1>1, <1>2, <1>7, <1>8 DEF LimitInv

LEMMA LimitInvIsKept ==
  ASSUME LimitInv, [Next]_vars
  PROVE  LimitInv'
<1>1. /\ DOMAIN requests = 1 .. Len(requests) /\ Len(requests) \in Nat
      /\ Requests(requests) /\ now \in Nat
  BY AllNumbered DEF LimitInv
<1>2. ASSUME Grown(requests, requests'), UNCHANGED <<now, bucket>> PROVE LimitInv'
  BY <1>2, NoneMore DEF Grown
<1>3. ASSUME Kept(requests, requests'), UNCHANGED <<now, bucket>>,
             \A r \in 1 .. Len(requests) : requests'[r].at = requests[r].at
      PROVE  LimitInv'
  <2>1. \A r : r \notin Len(requests) + 1 .. Len(requests')
    BY <1>1, <1>3 DEF Kept
  <2> QED BY <1>1, <1>3, <2>1, NoneMore DEF Kept
<1>4. CASE QuillSubmit \/ ApertureSubmit \/ MarcellusSubmit \/ VellumSubmit \/ submitEvent
  <2>1. PICK slug \in Slugs : Submit(slug)
    BY <1>4 DEF Slugs, QuillSubmit, ApertureSubmit, MarcellusSubmit, VellumSubmit, submitEvent
  <2>2. UNCHANGED <<now, bucket>>
    BY <2>1 DEF Submit
  <2> QED BY <1>1, <1>2, <2>1, <2>2, SubmitGrows
<1>5. CASE regenerateThread
  <2>1. UNCHANGED <<now, bucket>>
    BY <1>5 DEF regenerateThread
  <2> QED BY <1>1, <1>2, <1>5, <2>1, RegenerateGrows
<1>6. ASSUME NEW r \in DOMAIN requests, POST(r) \/ commentPOST(r)
      PROVE  LimitInv'
  <2>1. /\ Kept(requests, requests') /\ now' = now
        /\ \/ rateLimit(TRUE) /\ OneMore(requests, requests', r)
           \/ rateLimit(FALSE) /\ \A i \in 1 .. Len(requests) : requests'[i].at = requests[i].at
    BY <1>1, <1>6, ReplyKeeps
  <2>2. CASE rateLimit(TRUE) /\ OneMore(requests, requests', r)
    BY <1>1, <2>1, <2>2, OnePasses
  <2>3. CASE rateLimit(FALSE) /\ \A i \in 1 .. Len(requests) : requests'[i].at = requests[i].at
    <3>1. Bucket.tokens = 0 \/ ~(Bucket.tokens > 0)
      BY <2>3 DEF rateLimit
    <3>2. bucket # None /\ ~(bucket.resetAt < now)
      <4>1. bucket = None \/ bucket.resetAt < now => Bucket.tokens = Limit
        BY DEF Bucket
      <4> QED BY <3>1, <4>1, LimitAssumption
    <3>3. bucket' = bucket
      BY <2>3, <3>2 DEF rateLimit, Bucket
    <3> QED BY <1>3, <2>1, <2>3, <3>3
  <2> QED BY <2>1, <2>2, <2>3
<1>7. ASSUME NEW r \in DOMAIN requests,
             Answered(r) \/ Broken(r) \/ Commented(r) \/ CommentBroken(r)
      PROVE  LimitInv'
  <2>1. /\ ~requests[r].landed /\ UNCHANGED <<now, bucket>>
        /\ \/ Landed(r) /\ requests[r].status # "sent"
           \/ requests' = [requests EXCEPT ![r].landed = TRUE, ![r].status = "broken",
                                           ![r].answer = None]
    BY <1>7 DEF Answered, Broken, Commented, CommentBroken
  <2>2. /\ Kept(requests, requests')
        /\ \A i \in 1 .. Len(requests) : requests'[i].at = requests[i].at
    BY <1>1, <2>1, ReadKeeps
  <2> QED BY <1>3, <2>1, <2>2
<1>8. CASE Tick
  BY <1>8, TimePasses
<1>9. (Reset \/ submitComment \/ UNCHANGED vars) => UNCHANGED <<now, bucket, requests>>
  BY DEF Reset, submitComment, serverVars, vars
<1>10. CASE UNCHANGED <<now, bucket, requests>>
  BY <1>10 DEF LimitInv
<1> QED BY <1>4, <1>5, <1>6, <1>7, <1>8, <1>9, <1>10 DEF Next

(* No hour sees twice the limit pass, whatever limit, hour and mix of      *)
(* questions and comments: the window before was opened by a request more  *)
(* than an hour older than any of the window after.                        *)
THEOREM LimiterHolds == Spec => []WithinTwiceTheLimit
<1>1. Init => LimitInv
  <2> SUFFICES ASSUME Init PROVE LimitInv
    OBVIOUS
  <2>1. requests = <<>> /\ now = 0 /\ bucket = None /\ Limit \in Nat \ {0}
    BY LimitAssumption DEF Init, ServerInit
  <2>2. Requests(requests) /\ Len(requests) = 0
    BY <2>1, EmptySeq DEF Requests
  <2>3. Window(requests, bucket, now)
    BY <2>1, <2>2 DEF Window
  <2>4. \A a, b : In(requests, a, b) = {}
    BY <2>2 DEF In
  <2>5. Bounded(requests)
    BY <2>1, <2>4, FS_EmptySet DEF Bounded
  <2> QED BY <2>1, <2>2, <2>3, <2>5 DEF LimitInv
<1>2. LimitInv /\ [Next]_vars => LimitInv'
  BY LimitInvIsKept
<1>3. LimitInv => WithinTwiceTheLimit
  <2> SUFFICES ASSUME LimitInv, NEW first \in Passed
               PROVE  Cardinality({r \in Passed : requests[r].at \in
                        requests[first].at .. requests[first].at + Hour}) < 2 * Limit
    BY DEF WithinTwiceTheLimit
  <2> DEFINE t == requests[first].at
  <2>1. DOMAIN requests = 1 .. Len(requests)
    BY AllNumbered DEF LimitInv
  <2>2. t \in Int /\ Hour \in Int
    BY <2>1, LimitAssumption DEF LimitInv, Window, Passed
  <2> HIDE DEF t
  <2>3. {r \in Passed : requests[r].at \in t .. t + Hour} = In(requests, t, t + Hour)
    BY <2>1, <2>2, LimitAssumption DEF Passed, In
  <2>4. Cardinality(In(requests, t, t + Hour)) < 2 * Limit
    BY <2>2 DEF LimitInv, Bounded
  <2> QED BY <2>3, <2>4 DEF t
<1> QED BY <1>1, <1>2, <1>3, PTL DEF Spec
=============================================================================
