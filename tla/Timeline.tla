------------------------------ MODULE Timeline ------------------------------
(***************************************************************************)
(* The list of decisions a demo page keeps, and the reducers every page    *)
(* builds on it: a placeholder is pushed at the head when the visitor      *)
(* acts, and everything the agent's answer brings later is written to the  *)
(* head.  What a page judges (vault, bridge state, proposal, design        *)
(* change, market) is its "subject".                                       *)
(*                                                                         *)
(* An entry's "call" is a history field: the request made for it.  The     *)
(* streamed text of the reasoning is its length, 0 standing for undefined. *)
(***************************************************************************)
EXTENDS Integers, Sequences

CONSTANTS MaxEvents,   \* entries kept by a page: 30 in every scenario file
          None         \* TypeScript's undefined and null

ASSUME TimelineAssumption == MaxEvents \in Nat \ {0}

\* A page's state before anything happened, with the subject and its label.
Fresh(subject, label) ==
  [subject |-> subject, events |-> <<>>, blockOffset |-> 0, pending |-> FALSE,
   presetLabel |-> label]

Entry(s, action, amount, call) ==
  [block |-> 7000000 + s.blockOffset + 1, action |-> action, amount |-> amount,
   pending |-> TRUE, verdict |-> None, streaming |-> 0, commit |-> None,
   commitError |-> FALSE, snapshot |-> s.subject, label |-> s.presetLabel,
   call |-> call]

Push(s, e) ==
  LET all == <<e>> \o s.events
  IN  [s EXCEPT !.events = SubSeq(all, 1, IF Len(all) < MaxEvents THEN Len(all) ELSE MaxEvents),
                !.blockOffset = s.blockOffset + 1, !.pending = TRUE]

HeadPending(s) == s.events # <<>> /\ Head(s.events).pending

WithHead(s, e) == [s EXCEPT !.events = <<e>> \o Tail(s.events)]

SettleAny(s, verdict) ==  \* mutant: a settled head is settled again
  [WithHead(s, [Head(s.events) EXCEPT !.pending = FALSE, !.verdict = verdict, !.streaming = 0])
     EXCEPT !.pending = FALSE]

\* The verdict lands on the head if the head still waits for one.
Settle(s, verdict) ==
  IF HeadPending(s)
  THEN [WithHead(s, [Head(s.events) EXCEPT !.pending = FALSE, !.verdict = verdict,
                                            !.streaming = 0]) EXCEPT !.pending = FALSE]
  ELSE [s EXCEPT !.pending = FALSE]

Stream(s, text) ==
  IF HeadPending(s) THEN WithHead(s, [Head(s.events) EXCEPT !.streaming = text]) ELSE s

Badge(s, commit) ==
  IF s.events = <<>> THEN s ELSE WithHead(s, [Head(s.events) EXCEPT !.commit = commit])

BadgeError(s) ==
  IF s.events = <<>> THEN s ELSE WithHead(s, [Head(s.events) EXCEPT !.commitError = TRUE])

Load(s, subject, label) ==
  [s EXCEPT !.subject = subject, !.presetLabel = label, !.blockOffset = s.blockOffset + 1]

\* What a timeline row shows of an entry: a decision only once it is settled.
Waiting(e) == e.pending \/ e.verdict = None
Signature(e) == IF e.commit # None THEN "signed" ELSE IF e.commitError THEN "failed" ELSE "none"
=============================================================================
