------------------------------ MODULE DemoPages -----------------------------
(***************************************************************************)
(* A visitor's tab on one of the five proof-of-agent pages.  All of them   *)
(* ask one question at a time of their agent, and offer "try another"      *)
(* while the answer is still awaited; the answer then lands on whatever    *)
(* the page shows.  Aperture's page also holds a Moltbook thread, whose    *)
(* agents' comments are regenerated by parallel requests.                  *)
(***************************************************************************)
EXTENDS DemoServer

CONSTANTS Pages,            \* slugs of the pages visited
          Commenters,       \* COMMENTER_IDS: marcellus, moltbook-maker, calder, vellum
          MaxQuestions,     \* bound on the questions asked, per page
          MaxRequests,      \* bound on the requests sent
          MaxComments       \* bound on the length of the thread

ASSUME CommentersAssumption == Commenters \in Seq(STRING) /\ Commenters # <<>>

VARIABLES page,
          live,     \* the page's LiveState
          thread,   \* MoltbookPost: who commented, and which generation it is of
          regen     \* MoltbookPost's LiveThreadState, with its generation

pageVars == <<page, live, thread, regen>>
vars == <<pageVars, serverVars>>

Idle == [kind |-> "idle", submitted |-> None, answer |-> None]

Comment(by, generation) == [by |-> by, generation |-> generation]

\* The scripted comments, then the agents' of one regeneration.
AgentsOf(generation) == [i \in DOMAIN Commenters |-> Comment(Commenters[i], generation)]

Init ==
  /\ ServerInit
  /\ page \in Pages
  /\ live = Idle
  /\ thread = AgentsOf(0)
  /\ regen = [kind |-> "idle", generation |-> 0]

Questions == {r \in DOMAIN requests : requests[r].route = "demo"}

-----------------------------------------------------------------------------
\* The forms are only there while the page is idle.

Form(slug)     == page = slug /\ live.kind = "idle"
CitationForm   == Form("quill")
CommissionForm == Form("aperture-0312")
AssignmentForm == Form("marcellus")
EditForm       == Form("vellum-1492")
EventForm      == Form("calder")

Submit(slug) ==
  /\ Cardinality(Questions) < MaxQuestions[page] /\ Len(requests) < MaxRequests
  /\ \E text \in Texts :
       /\ live' = [kind |-> "loading", submitted |-> text, answer |-> None]
       /\ requests' = Append(requests, Request("demo", slug, text))
  /\ UNCHANGED <<page, thread, regen, now, bucket, hasKey>>

QuillSubmit     == CitationForm   /\ Submit("quill")
ApertureSubmit  == CommissionForm /\ Submit("aperture-0312")
MarcellusSubmit == AssignmentForm /\ Submit("marcellus")
VellumSubmit    == EditForm       /\ Submit("vellum-1492")
submitEvent     == EventForm      /\ Submit("calder")

\* "try another": offered in every other state, loading included.
Reset ==
  /\ live.kind # "idle"
  /\ live' = Idle
  /\ UNCHANGED <<page, thread, regen, serverVars>>

LandsOnShown(r, kind) ==  \* mutant: the answer is put beside the text on show
  [kind |-> kind, submitted |-> live.submitted, answer |-> requests[r].answer]

\* What an answer makes of the page, whatever it showed.
LandsOn(r, kind) ==
  [kind |-> kind, submitted |-> requests[r].text, answer |-> requests[r].answer]

Landed(r) == requests' = [requests EXCEPT ![r].landed = TRUE]

\* A reply is read; a rate limit is one of the errors.
Answered(r) ==
  /\ ~requests[r].landed /\ requests[r].route = "demo"
  /\ requests[r].status # "sent"
  /\ live' = LandsOn(r, IF requests[r].status = "rate_limited" THEN "error"
                        ELSE requests[r].status)
  /\ Landed(r)
  /\ UNCHANGED <<page, thread, regen, now, bucket, hasKey>>

\* The connection broke, before or after the server saw the request.
Broken(r) ==
  /\ ~requests[r].landed /\ requests[r].route = "demo"
  /\ live' = [kind |-> "error", submitted |-> requests[r].text, answer |-> None]
  /\ requests' = [requests EXCEPT ![r].landed = TRUE, ![r].status = "broken",
                                  ![r].answer = None]
  /\ UNCHANGED <<page, thread, regen, now, bucket, hasKey>>

-----------------------------------------------------------------------------
\* The Moltbook thread under Aperture's canvas.

Generation(g) == {r \in DOMAIN requests : requests[r].route = "comment" /\ requests[r].text = g}

regenerateThread ==
  /\ page = "aperture-0312" /\ regen.kind # "loading"
  /\ Len(requests) + Len(Commenters) <= MaxRequests
  /\ regen' = [kind |-> "loading", generation |-> regen.generation + 1]
  /\ requests' = requests \o [i \in DOMAIN Commenters |->
                                Request("comment", Commenters[i], regen.generation + 1)]
  /\ UNCHANGED <<page, live, thread, now, bucket, hasKey>>

\* mutant: a comment is shown as soon as it arrives
CommentedAtOnce(r) ==
  LET g == requests[r].text
  IN  /\ ~requests[r].landed /\ requests[r].route = "comment"
      /\ requests[r].status # "sent"
      /\ Landed(r)
      /\ thread' = IF requests[r].status = "ok"
                   THEN [i \in DOMAIN thread |-> IF thread[i].by = requests[r].to
                                                 THEN Comment(thread[i].by, g) ELSE thread[i]]
                   ELSE thread
      /\ regen' = IF \A q \in Generation(g) \ {r} : requests[q].landed
                  THEN [regen EXCEPT !.kind = "ok"] ELSE regen
      /\ UNCHANGED <<page, live, now, bucket, hasKey>>

\* A reply of a commenter.  The last one decides: a missing key or an error
\* of any leaves the thread alone, else the whole thread is replaced, the
\* visitor's own comments with it.
Commented(r) ==
  LET g == requests[r].text
      all == Generation(g)
      last == /\ regen.kind = "loading" /\ regen.generation = g
              /\ \A q \in all \ {r} : requests[q].landed
      kind == IF \E q \in all : requests[q].status = "no_key" THEN "no_key"
              ELSE IF \E q \in all : requests[q].status # "ok" THEN "error" ELSE "ok"
  IN  /\ ~requests[r].landed /\ requests[r].route = "comment"
      /\ requests[r].status # "sent"
      /\ Landed(r)
      /\ regen' = IF last THEN [regen EXCEPT !.kind = kind] ELSE regen
      /\ thread' = IF last /\ kind = "ok" THEN AgentsOf(g) ELSE thread
      /\ UNCHANGED <<page, live, now, bucket, hasKey>>

\* One broken connection fails the whole regeneration at once; the other
\* replies are then read for nothing.
CommentBroken(r) ==
  /\ ~requests[r].landed /\ requests[r].route = "comment"
  /\ requests' = [requests EXCEPT ![r].landed = TRUE, ![r].status = "broken",
                                  ![r].answer = None]
  /\ regen' = IF regen.kind = "loading" /\ regen.generation = requests[r].text
              THEN [regen EXCEPT !.kind = "error"] ELSE regen
  /\ UNCHANGED <<page, live, thread, now, bucket, hasKey>>

submitComment ==
  /\ page = "aperture-0312" /\ Len(thread) < MaxComments
  /\ thread' = Append(thread, Comment("You", None))
  /\ UNCHANGED <<page, live, regen, serverVars>>

Next ==
  \/ QuillSubmit \/ ApertureSubmit \/ MarcellusSubmit \/ VellumSubmit \/ submitEvent
  \/ Reset
  \/ regenerateThread \/ submitComment
  \/ \E r \in DOMAIN requests :
       \/ (POST(r) \/ commentPOST(r)) /\ UNCHANGED pageVars
       \/ Answered(r) \/ Broken(r) \/ Commented(r) \/ CommentBroken(r)
  \/ Tick /\ UNCHANGED pageVars

Spec == Init /\ [][Next]_vars

-----------------------------------------------------------------------------
\* What the result of each page shows of an answer.

CitationResult ==
  [submitted |-> live.submitted,
   label |-> CASE live.answer = "distinguishable" -> "real, abrogated"
               [] OTHER -> live.answer]
CommissionResult == [submitted |-> live.submitted, label |-> live.answer]
AssignmentResult ==
  [submitted |-> live.submitted, label |-> IF live.answer = "accepted" THEN "filed" ELSE "refused"]
EditResult == [submitted |-> live.submitted, label |-> live.answer]
EventResult == [submitted |-> live.submitted, label |-> "filed"]

(* An answer on show stands beside the text it answers, although a visitor *)
(* may leave a question unanswered, ask another, and have the two answers  *)
(* land in any order; and a page that says its agent is at work has sent   *)
(* the text it quotes and is still owed the reply.                         *)
AnswersTo(text) == {requests[r].answer : r \in {q \in DOMAIN requests :
                      requests[q].landed /\ requests[q].route = "demo" /\ requests[q].text = text}}

AnswerIsForItsInput ==
  /\ live.kind = "ok" =>
       LET answers == AnswersTo(live.submitted)
       IN  CASE page = "quill" ->
                  \E a \in answers : CitationResult.label =
                    IF a = "distinguishable" THEN "real, abrogated" ELSE a
             [] page = "aperture-0312" -> CommissionResult.label \in answers
             [] page = "marcellus" -> (AssignmentResult.label = "filed") => "accepted" \in answers
             [] page = "vellum-1492" -> EditResult.label \in answers
             [] page = "calder" -> "dispatch" \in AnswersTo(EventResult.submitted)
  /\ live.kind = "loading" =>
       \E r \in DOMAIN requests : /\ requests[r].route = "demo" /\ ~requests[r].landed
                                  /\ requests[r].text = live.submitted

(* The agents' comments are of one regeneration, one per commenter in the  *)
(* order of the list, each a reply its agent gave; the visitor's come      *)
(* after them.  A regeneration that failed in part, was throttled in part  *)
(* or broke off shows nothing of itself.                                   *)
ThreadIsOneGeneration ==
  LET g == thread[1].generation
  IN  /\ SubSeq(thread, 1, Len(Commenters)) = AgentsOf(g)
      /\ \A i \in Len(Commenters) + 1 .. Len(thread) : thread[i].by = "You"
      /\ g > 0 => \A i \in DOMAIN Commenters :
           \E r \in Generation(g) : requests[r].to = Commenters[i] /\ requests[r].answer = "comment"
      /\ regen.kind = "ok" => g = regen.generation
=============================================================================
