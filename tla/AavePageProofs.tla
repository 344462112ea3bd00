--------------------------- MODULE AavePageProofs ---------------------------
(***************************************************************************)
(* What the rows of the Aave page tell and when its feed moves, for any    *)
(* venues, any number of runs, and any answers and readings.               *)
(***************************************************************************)
EXTENDS AavePage, Sums

-----------------------------------------------------------------------------
(* The list of decisions.                                                  *)

(* A pushed row is the head, the others move down by one.                  *)
LEMMA Pushed ==
  ASSUME NEW S, NEW q \in Seq(S), NEW e \in S, NEW r, r = Latest(<<e>> \o q)
  PROVE  /\ r \in Seq(S) /\ Len(r) \in 1 .. Len(q) + 1
         /\ Len(q) < MaxEvents => Len(r) = Len(q) + 1
         /\ Len(q) >= MaxEvents => Len(r) = MaxEvents
         /\ r[1] = e /\ Head(r) = e
         /\ \A i \in 2 .. Len(r) : i - 1 \in 1 .. Len(q) /\ r[i] = q[i - 1]
<1> DEFINE l == <<e>> \o q
           n == IF Len(l) < MaxEvents THEN Len(l) ELSE MaxEvents
<1>1. l \in Seq(S) /\ Len(l) = Len(q) + 1 /\ Len(q) \in Nat
  BY ConcatProperties, LenProperties, <<e>> \in Seq(S), Len(<<e>>) = 1
<1>2. l[1] = e /\ \A i \in 2 .. Len(l) : l[i] = q[i - 1]
  BY <1>1, ConcatProperties, <<e>> \in Seq(S), Len(<<e>>) = 1, <<e>>[1] = e
<1>3. n \in Nat /\ n >= 1 /\ n <= Len(l)
  BY <1>1, AaveAssumption
<1>4. \A i \in 1 .. n : l[i] \in S
  BY <1>1, <1>3, ElementOfSeq
<1>5. /\ SubSeq(l, 1, n) \in Seq(S) /\ Len(SubSeq(l, 1, n)) = n
      /\ \A i \in 1 .. n : SubSeq(l, 1, n)[i] = l[i]
  <2> HIDE DEF l, n
  <2> QED BY <1>3, <1>4, SubSeqProperties
<1>6. Latest(<<e>> \o q) = SubSeq(l, 1, n)
  BY DEF Latest
<1>7. Head(SubSeq(l, 1, n)) = SubSeq(l, 1, n)[1]
  BY <1>5, <1>3
<1>8. /\ r \in Seq(S) /\ Len(r) = n /\ Head(r) = r[1]
      /\ \A i \in 1 .. n : r[i] = l[i]
  BY <1>5, <1>6, <1>7
<1>9. n = IF Len(q) < MaxEvents THEN Len(q) + 1 ELSE MaxEvents
  BY <1>1, AaveAssumption
<1> HIDE DEF l, n
<1>10. Len(r) <= Len(l) /\ r[1] = e /\ Head(r) = e
  BY <1>1, <1>2, <1>3, <1>8
<1>11. ASSUME NEW i \in 2 .. Len(r) PROVE i - 1 \in 1 .. Len(q) /\ r[i] = q[i - 1]
  <2>1. i \in 1 .. n /\ i \in 2 .. Len(l) /\ i - 1 \in 1 .. Len(q)
    BY <1>1, <1>3, <1>8
  <2>2. r[i] = l[i]
    BY <1>8, <2>1
  <2>3. l[i] = q[i - 1]
    BY <1>2, <2>1
  <2> QED BY <2>1, <2>2, <2>3
<1>12. /\ Len(r) \in 1 .. Len(q) + 1
       /\ Len(q) < MaxEvents => Len(r) = Len(q) + 1
       /\ Len(q) >= MaxEvents => Len(r) = MaxEvents
  BY <1>1, <1>3, <1>8, <1>9, AaveAssumption
<1> QED BY <1>8, <1>10, <1>11, <1>12

(* A row that takes the head's place leaves the others alone.              *)
LEMMA Replaced ==
  ASSUME NEW S, NEW q \in Seq(S), q # <<>>, NEW e \in S
  PROVE  LET r == <<e>> \o Tail(q)
         IN  /\ r \in Seq(S) /\ Len(r) = Len(q) /\ Len(q) \in Nat \ {0}
             /\ r[1] = e /\ Head(r) = e
             /\ \A i \in 2 .. Len(r) : r[i] = q[i]
<1> DEFINE t == Tail(q)  r == <<e>> \o t
<1>1. t \in Seq(S) /\ Len(t) = Len(q) - 1 /\ \A i \in 1 .. Len(t) : t[i] = q[i + 1]
  BY HeadTailProperties
<1>2. Len(q) \in Nat \ {0}
  BY EmptySeq
<1>3. <<e>> \in Seq(S) /\ Len(<<e>>) = 1 /\ <<e>>[1] = e
  OBVIOUS
<1> HIDE DEF t
<1>4. /\ r \in Seq(S) /\ Len(r) = 1 + Len(t)
      /\ \A i \in 1 .. 1 + Len(t) : r[i] = IF i <= 1 THEN <<e>>[i] ELSE t[i - 1]
  BY <1>1, <1>3, ConcatProperties
<1>5. r[1] = e
  BY <1>1, <1>2, <1>3, <1>4
<1>6. \A i \in 2 .. Len(r) : r[i] = q[i]
  BY <1>1, <1>2, <1>4
<1>7. Head(r) = r[1]
  BY <1>4, <1>1, <1>2
<1> QED BY <1>1, <1>2, <1>4, <1>5, <1>6, <1>7 DEF t

-----------------------------------------------------------------------------
(* The inductive invariant behind the first theorem.                       *)

Shape(s) ==
  s = [overrides |-> s.overrides, depthPercent |-> s.depthPercent, halted |-> s.halted,
       liveBase |-> s.liveBase, referencePrice |-> s.referencePrice,
       blockOffset |-> s.blockOffset, events |-> s.events, pending |-> s.pending]

EventShape(e) ==
  e = [block |-> e.block, decision |-> e.decision, pending |-> e.pending, price |-> e.price,
       reason |-> e.reason, reasoning |-> e.reasoning, inspect |-> e.inspect, call |-> e.call]

CallShape(c) == DOMAIN c = {"sent", "block", "origin", "running", "alone"}

(* A row carries the block and the inputs of its call; a settled one that  *)
(* call's reasoning too.                                                   *)
RowOf(e, cs) ==
  /\ EventShape(e) /\ e.pending \in BOOLEAN
  /\ e.call \in DOMAIN cs
  /\ e.block = cs[e.call].block
  /\ e.inspect = cs[e.call].sent
  /\ ~e.pending => e.reasoning = e.call

CallsInv ==
  /\ \E S : calls \in Seq(S)
  /\ \A c \in DOMAIN calls : CallShape(calls[c]) /\ calls[c].running \in BOOLEAN
                             /\ calls[c].alone \in BOOLEAN

RowsInv ==
  /\ Shape(scenario)
  /\ \E S : scenario.events \in Seq(S)
  /\ \A i \in 1 .. Len(scenario.events) : RowOf(scenario.events[i], calls)

UrlInv == url \in {None} \cup Links({"halt", "tamper"})

PageInv == CallsInv /\ RowsInv /\ UrlInv

(* The kinds of step the page takes.                                       *)
Drafted(origin) ==
  \E draft :
    /\ \/ draft = scenario
       \/ \E s : Shape(s) /\ s.events = scenario.events /\ draft = Manipulated(s, NextCall)
    /\ runWithAgent(draft, origin)

Settled(c) ==
  /\ c \in Running
  /\ \E output : scenario' = applyAgentEvent(scenario, Verdict(c, output))
  /\ Done(c)

Polled ==
  \E readings : scenario' = applyLiveReadings(scenario, readings)

Origins == Venues \cup {"controls", "url"}

(* Every handler is a run over a manipulated scenario, or, when there is   *)
(* nothing to move, over the scenario as it is.                            *)
LEMMA HandlersDraft ==
  ASSUME Shape(scenario), NEW origin, NEW link \in Links({"halt", "tamper"}),
         handleScenario(link, origin)
  PROVE  Drafted(origin)
<1> USE DEF Drafted
<1>1. CASE link.kind = "pump-all"
  <2> DEFINE s == [scenario EXCEPT !.overrides = [v \in Venues |-> FakePrice]]
  <2>1. Shape(s) /\ s.events = scenario.events
    BY DEF Shape
  <2> QED BY <1>1, <2>1 DEF handleScenario, handlePumpAll, applyPumpAll
<1>2. CASE link.kind = "halt"
  <2> DEFINE v == link.venue
             s == [scenario EXCEPT !.halted = @ \cup {v}]
             t == [scenario EXCEPT !.halted = @ \ {v}]
  <2>1. Shape(s) /\ s.events = scenario.events /\ Shape(t) /\ t.events = scenario.events
    BY DEF Shape
  <2> QED BY <1>2, <2>1 DEF handleScenario, handleHaltToggle, applyHalt, applyUnhalt
<1>3. CASE link.kind = "tamper"
  <2> DEFINE s == [scenario EXCEPT !.overrides[link.venue] = FakePrice]
  <2>1. Shape(s) /\ s.events = scenario.events
    BY DEF Shape
  <2> QED BY <1>3, <2>1 DEF handleScenario, handleTamper, applyTamper
<1>4. CASE link.kind \in {"depth-collapse", "subtle-pump", "flash-crash"}
  <2> DEFINE move(percent) ==
               [scenario EXCEPT !.overrides =
                  [v \in Venues |-> IF Ok(scenario.liveBase[v])
                                    THEN (scenario.liveBase[v].price * percent) \div 100
                                    ELSE None]]
             s == [scenario EXCEPT !.depthPercent = 5]
  <2>1. /\ Shape(s) /\ s.events = scenario.events
        /\ Shape(move(149)) /\ move(149).events = scenario.events
        /\ Shape(move(70)) /\ move(70).events = scenario.events
    BY DEF Shape
  <2>2. handleBlackSwan(link.kind, origin)
    BY <1>4 DEF handleScenario
  <2>3. CASE link.kind = "depth-collapse"
    BY <2>1, <2>2, <2>3 DEF handleBlackSwan, applyDepthCollapse
  <2>4. CASE link.kind = "subtle-pump"
    <3>1. runWithAgent(applyProportionalMove(scenario, 149, NextCall), origin)
      BY <2>2, <2>4 DEF handleBlackSwan
    <3>2. applyProportionalMove(scenario, 149, NextCall) \in {scenario, Manipulated(move(149), NextCall)}
      BY DEF applyProportionalMove
    <3> QED BY <2>1, <3>1, <3>2
  <2>5. CASE link.kind = "flash-crash"
    <3>1. runWithAgent(applyProportionalMove(scenario, 70, NextCall), origin)
      BY <2>2, <2>5 DEF handleBlackSwan
    <3>2. applyProportionalMove(scenario, 70, NextCall) \in {scenario, Manipulated(move(70), NextCall)}
      BY DEF applyProportionalMove
    <3> QED BY <2>1, <3>1, <3>2
  <2> QED BY <1>4, <2>3, <2>4, <2>5
<1> QED BY <1>1, <1>2, <1>3, <1>4 DEF Links, Scenarios

LEMMA ResetDrafts ==
  ASSUME Shape(scenario), NEW origin, handleReset(origin)
  PROVE  Drafted(origin)
<1> DEFINE s(o) == [scenario EXCEPT !.overrides = o, !.depthPercent = 100, !.halted = {}]
<1>1. ASSUME NEW o PROVE Shape(s(o)) /\ s(o).events = scenario.events
  <2> DEFINE x == [scenario EXCEPT !.overrides = o]
             y == [x EXCEPT !.depthPercent = 100]
             z == [y EXCEPT !.halted = {}]
  <2>1. Shape(x) /\ x.events = scenario.events
    BY DEF Shape
  <2> HIDE DEF x
  <2>2. Shape(y) /\ y.events = scenario.events
    BY <2>1 DEF Shape
  <2> HIDE DEF y
  <2>3. Shape(z) /\ z.events = scenario.events
    BY <2>2 DEF Shape
  <2> QED BY <2>3 DEF x, y
<1>2. runWithAgent(Manipulated(s(initialScenario.overrides), NextCall), origin)
  BY DEF handleReset, applyReset
<1> QED BY <1>1, <1>2 DEF Drafted

(* What a handler does to the controls it was started from.                *)
Busies(origin) ==
  \/ origin \in Venues \ cards /\ cards' = cards \cup {origin} /\ UNCHANGED <<controls, url>>
  \/ origin = "controls" /\ ~controls /\ controls' = TRUE /\ UNCHANGED <<cards, url>>
  \/ origin = "url" /\ url # None /\ url' = None /\ UNCHANGED <<cards, controls>>

(* What a step of the page is, whoever takes it.                           *)
Acted == \E origin \in Origins : Drafted(origin) /\ Busies(origin)

LEMMA StepKinds ==
  ASSUME Shape(scenario), UrlInv, [Next]_vars
  PROVE  \/ Acted
         \/ Polled /\ UNCHANGED <<calls, cards, controls, url>>
         \/ \E c : Reasoning(c)
         \/ \E c : Settled(c)
         \/ UNCHANGED vars
<1>1. CASE ScenarioControls
  <2>1. ASSUME NEW link \in Links({"halt"}), handleScenario(link, "controls")
        PROVE  Drafted("controls")
    <3>1. Links({"halt"}) \subseteq Links({"halt", "tamper"})
      BY DEF Links
    <3> QED BY <2>1, <3>1, HandlersDraft
  <2>2. ASSUME handleReset("controls") PROVE Drafted("controls")
    BY <2>2, ResetDrafts
  <2>3. \/ \E link \in Links({"halt"}) : handleScenario(link, "controls")
        \/ handleReset("controls")
    BY <1>1, Zenon DEF ScenarioControls
  <2>4. Drafted("controls")
    BY <2>1, <2>2, <2>3
  <2>5. Busies("controls")
    BY <1>1 DEF ScenarioControls, Busies
  <2> QED BY <2>4, <2>5 DEF Acted, Origins
<1>2. ASSUME NEW v \in Venues, TamperForm(v) PROVE Acted
  <2> DEFINE link == [kind |-> "tamper", venue |-> v]
  <2>1. link \in Links({"halt", "tamper"}) /\ handleScenario(link, v)
    BY <1>2 DEF Links, TamperForm, handleScenario
  <2>2. Drafted(v)
    BY <2>1, HandlersDraft
  <2>3. Busies(v)
    BY <1>2 DEF TamperForm, Busies
  <2> QED BY <2>2, <2>3 DEF Acted, Origins
<1>3. ASSUME NEW v \in Venues, CardReset(v) PROVE Acted
  <2>1. Drafted(v)
    BY <1>3, ResetDrafts DEF CardReset
  <2>2. Busies(v)
    BY <1>3 DEF CardReset, Busies
  <2> QED BY <2>1, <2>2 DEF Acted, Origins
<1>4. CASE PendingUrlScenario
  <2>1. url \in Links({"halt", "tamper"}) /\ handleScenario(url, "url")
    BY <1>4 DEF PendingUrlScenario, UrlInv
  <2>2. Drafted("url")
    BY <2>1, HandlersDraft
  <2>3. Busies("url")
    BY <1>4 DEF PendingUrlScenario, Busies
  <2> QED BY <2>2, <2>3 DEF Acted, Origins
<1>5. CASE refreshVenues
  BY <1>5 DEF refreshVenues, Polled
<1>6. ASSUME NEW c \in DOMAIN calls, Answer(c) PROVE Settled(c)
  BY <1>6 DEF Answer, Settled
<1>7. ASSUME NEW c \in DOMAIN calls, Unreachable(c) PROVE Settled(c)
  BY <1>7 DEF Unreachable, Settled
<1> QED BY <1>1, <1>2, <1>3, <1>4, <1>5, <1>6, <1>7 DEF Next

-----------------------------------------------------------------------------
(* The rows.                                                               *)

(* What is known of a call that was sent never changes.                    *)
LEMMA RowsKept ==
  ASSUME NEW e, RowOf(e, calls), DOMAIN calls \subseteq DOMAIN calls',
         \A c \in DOMAIN calls : calls'[c].sent = calls[c].sent /\ calls'[c].block = calls[c].block
  PROVE  RowOf(e, calls')
BY DEF RowOf

LEMMA PendingShape ==
  ASSUME NEW s, NEW call
  PROVE  /\ EventShape(pendingEvent(s, call)) /\ pendingEvent(s, call).pending = TRUE
         /\ pendingEvent(s, call).call = call
         /\ pendingEvent(s, call).block = currentBlock(s.blockOffset)
         /\ pendingEvent(s, call).inspect = Inspect(s)
BY DEF EventShape, pendingEvent

(* A manipulation puts the placeholder of the next call on top, with what  *)
(* that call is about to send.                                             *)
LEMMA ManipulatedRow ==
  ASSUME NEW s, Shape(s)
  PROVE  LET t == [s EXCEPT !.blockOffset = @ + 1]  m == Manipulated(s, NextCall)
         IN  /\ Shape(m) /\ m.pending = TRUE
             /\ m.events = Latest(<<pendingEvent(t, NextCall)>> \o s.events)
             /\ Inspect(m) = Inspect(t) /\ m.blockOffset = t.blockOffset
<1> DEFINE t == [s EXCEPT !.blockOffset = @ + 1]
           r == Latest(<<pendingEvent(t, NextCall)>> \o s.events)
           m == Manipulated(s, NextCall)
<1>1. Shape(t) /\ t.events = s.events
  BY DEF Shape
<1>2. m = [t EXCEPT !.events = r, !.pending = TRUE]
  BY <1>1 DEF Manipulated, withPending
<1> HIDE DEF t, r, m
<1>3. /\ Shape(m) /\ m.pending = TRUE /\ m.events = r /\ m.blockOffset = t.blockOffset
      /\ m.overrides = t.overrides /\ m.depthPercent = t.depthPercent /\ m.halted = t.halted
      /\ m.liveBase = t.liveBase /\ m.referencePrice = t.referencePrice
  BY <1>1, <1>2 DEF Shape
<1>4. Inspect(m) = Inspect(t)
  BY <1>3 DEF Inspect, deriveVenues
<1> QED BY <1>3, <1>4 DEF t, r, m

(* A run appends its call and leaves the others as they were.              *)
LEMMA RunAppends ==
  ASSUME CallsInv, NEW draft, NEW origin, runWithAgent(draft, origin)
  PROVE  LET r == calls'[NextCall]
         IN  /\ CallsInv' /\ Len(calls) \in Nat /\ NextCall = Len(calls) + 1
             /\ DOMAIN calls = 1 .. Len(calls) /\ DOMAIN calls' = 1 .. NextCall
             /\ \A c \in DOMAIN calls : calls'[c] = calls[c]
             /\ r.sent = Inspect(draft) /\ r.origin = origin /\ r.running = TRUE
             /\ r.alone = (Running = {})
             /\ r.block = IF draft.events = <<>> THEN draft.blockOffset ELSE Head(draft.events).block
<1> DEFINE r == [sent |-> Inspect(draft),
                 block |-> IF draft.events = <<>> THEN draft.blockOffset
                           ELSE Head(draft.events).block,
                 origin |-> origin, running |-> TRUE, alone |-> Running = {}]
<1>1. calls' = Append(calls, r)
  BY DEF runWithAgent
<1>2. PICK S : calls \in Seq(S)
  BY DEF CallsInv
<1>3. /\ CallShape(r) /\ r.running = TRUE /\ r.alone \in BOOLEAN /\ r.origin = origin
      /\ r.sent = Inspect(draft) /\ r.alone = (Running = {})
      /\ r.block = IF draft.events = <<>> THEN draft.blockOffset ELSE Head(draft.events).block
  BY DEF CallShape
<1> HIDE DEF r
<1>4. calls \in Seq(S \cup {r}) /\ r \in S \cup {r}
  BY <1>2, SeqMonotonic
<1>5. /\ calls' \in Seq(S \cup {r}) /\ Len(calls') = Len(calls) + 1 /\ Len(calls) \in Nat
      /\ \A c \in 1 .. Len(calls) : calls'[c] = calls[c]
      /\ calls'[Len(calls) + 1] = r
  BY <1>1, <1>4, AppendProperties, LenProperties
<1>6. DOMAIN calls = 1 .. Len(calls) /\ DOMAIN calls' = 1 .. Len(calls')
  BY <1>4, <1>5, LenProperties
<1>7. CallsInv'
  <2>1. \A c \in DOMAIN calls' : c \in DOMAIN calls \/ c = Len(calls) + 1
    BY <1>5, <1>6
  <2> QED BY <1>3, <1>5, <1>6, <2>1 DEF CallsInv
<1> QED BY <1>3, <1>5, <1>6, <1>7 DEF NextCall

(* A run that ends only stops running.                                     *)
LEMMA RunEnds ==
  ASSUME CallsInv, NEW c \in Running, Done(c)
  PROVE  /\ CallsInv' /\ DOMAIN calls' = DOMAIN calls /\ Running' = Running \ {c}
         /\ \A d \in DOMAIN calls : /\ calls'[d].sent = calls[d].sent
                                    /\ calls'[d].block = calls[d].block
                                    /\ calls'[d].origin = calls[d].origin
                                    /\ calls'[d].alone = calls[d].alone
<1> DEFINE r == [calls[c] EXCEPT !.running = FALSE]
<1>1. c \in DOMAIN calls /\ calls' = [calls EXCEPT ![c] = r]
  BY DEF Done, Running
<1>2. PICK S : calls \in Seq(S)
  BY DEF CallsInv
<1>3. /\ CallShape(r) /\ r.running = FALSE /\ r.alone = calls[c].alone
      /\ r.origin = calls[c].origin /\ r.sent = calls[c].sent /\ r.block = calls[c].block
  <2> DEFINE x == calls[c]
  <2>1. CallShape(x)
    BY <1>1 DEF CallsInv
  <2> HIDE DEF x
  <2> DEFINE y == [x EXCEPT !.running = FALSE]
  <2>2. CallShape(y)
    BY <2>1 DEF CallShape
  <2>3. /\ y.running = FALSE /\ y.alone = x.alone /\ y.origin = x.origin
        /\ y.sent = x.sent /\ y.block = x.block
    BY <2>1 DEF CallShape
  <2> QED BY <2>2, <2>3 DEF x
<1> HIDE DEF r
<1>4. calls \in Seq(S \cup {r}) /\ r \in S \cup {r} /\ c \in 1 .. Len(calls)
  BY <1>1, <1>2, SeqMonotonic, LenProperties
<1>5. calls' \in Seq(S \cup {r})
  BY <1>1, <1>4, ExceptSeq
<1>6. /\ DOMAIN calls' = DOMAIN calls /\ calls'[c] = r
      /\ \A d \in DOMAIN calls : d # c => calls'[d] = calls[d]
  BY <1>1
<1>7. CallsInv'
  BY <1>3, <1>5, <1>6 DEF CallsInv
<1> QED BY <1>3, <1>6, <1>7 DEF Running

(* The list after an answer: the head gives way, or the others move down.  *)
LEMMA AnswerRows ==
  ASSUME RowsInv, NEW c, NEW output, scenario' = applyAgentEvent(scenario, Verdict(c, output))
  PROVE  LET q == scenario.events  r == scenario'.events
         IN  /\ Shape(scenario') /\ scenario'.pending = FALSE
             /\ \E S : r \in Seq(S)
             /\ Len(r) \in Nat \ {0} /\ r[1] = Verdict(c, output) /\ Head(r) = r[1]
             /\ HeadPending(scenario) =>
                  /\ q # <<>> /\ Len(r) = Len(q) /\ q[1].pending
                  /\ \A i \in 2 .. Len(r) : r[i] = q[i]
             /\ ~HeadPending(scenario) =>
                  /\ q # <<>> => ~q[1].pending
                  /\ \A i \in 2 .. Len(r) : i - 1 \in 1 .. Len(q) /\ r[i] = q[i - 1]
<1> DEFINE e == Verdict(c, output)  q == scenario.events  r == scenario'.events
<1>1. PICK S0 : q \in Seq(S0)
  BY DEF RowsInv
<1> DEFINE S == S0 \cup {e}
<1>2. q \in Seq(S) /\ e \in S
  BY <1>1, SeqMonotonic
<1> HIDE DEF e, S
<1>3. /\ Shape(scenario') /\ scenario'.pending = FALSE
      /\ r = IF HeadPending(scenario) THEN <<e>> \o Tail(q) ELSE Latest(<<e>> \o q)
  <2> DEFINE n == IF HeadPending(scenario) THEN <<e>> \o Tail(q) ELSE Latest(<<e>> \o q)
  <2>1. scenario' = [scenario EXCEPT !.events = n, !.pending = FALSE]
    BY DEF applyAgentEvent, e
  <2> HIDE DEF n
  <2>2. Shape(scenario') /\ scenario'.pending = FALSE /\ scenario'.events = n
    BY <2>1 DEF RowsInv, Shape
  <2> QED BY <2>2 DEF n
<1>4. q # <<>> => Head(q) = q[1]
  OBVIOUS
<1>5. CASE HeadPending(scenario)
  <2>1. q # <<>> /\ r = <<e>> \o Tail(q) /\ q[1].pending
    BY <1>3, <1>4, <1>5 DEF HeadPending
  <2> HIDE DEF q, r
  <2>2. /\ r \in Seq(S) /\ Len(r) = Len(q) /\ Len(q) \in Nat \ {0}
        /\ r[1] = e /\ Head(r) = e
        /\ \A i \in 2 .. Len(r) : r[i] = q[i]
    BY <1>2, <2>1, Replaced
  <2> QED BY <1>3, <1>5, <2>1, <2>2 DEF e, q, r
<1>6. CASE ~HeadPending(scenario)
  <2>1. r = Latest(<<e>> \o q)
    BY <1>3, <1>6
  <2>3. q # <<>> => ~q[1].pending
    BY <1>4, <1>6 DEF HeadPending
  <2> HIDE DEF q, r
  <2>2. r \in Seq(S) /\ r[1] = e /\ Head(r) = e
    BY <1>2, <2>1, Pushed
  <2>4. Len(r) \in 1 .. Len(q) + 1
    BY <1>2, <2>1, Pushed
  <2>5. \A i \in 2 .. Len(r) : i - 1 \in 1 .. Len(q) /\ r[i] = q[i - 1]
    BY <1>2, <2>1, Pushed
  <2>6. Len(r) \in Nat \ {0}
    BY <1>2, <2>4, LenProperties
  <2> QED BY <1>3, <1>6, <2>2, <2>3, <2>5, <2>6 DEF e, q, r
<1> QED BY <1>5, <1>6

(* The list after a manipulation: the placeholder, and the others below.   *)
LEMMA DraftRows ==
  ASSUME RowsInv, NEW s, Shape(s), s.events = scenario.events,
         scenario' = Manipulated(s, NextCall)
  PROVE  LET q == scenario.events  r == scenario'.events
         IN  /\ Shape(scenario') /\ scenario'.pending = TRUE
             /\ \E S : r \in Seq(S)
             /\ Len(r) \in Nat \ {0} /\ Head(r) = r[1]
             /\ EventShape(r[1]) /\ r[1].pending = TRUE /\ r[1].call = NextCall
             /\ r[1].block = currentBlock(scenario'.blockOffset)
             /\ r[1].inspect = Inspect(scenario')
             /\ \A i \in 2 .. Len(r) : i - 1 \in 1 .. Len(q) /\ r[i] = q[i - 1]
             /\ Len(q) < MaxEvents => Len(r) = Len(q) + 1
             /\ Len(q) >= MaxEvents => Len(r) = MaxEvents
<1> DEFINE t == [s EXCEPT !.blockOffset = @ + 1]
           e == pendingEvent(t, NextCall)  q == scenario.events  r == scenario'.events
<1>1. PICK S0 : q \in Seq(S0)
  BY DEF RowsInv
<1> DEFINE S == S0 \cup {e}
<1>2. q \in Seq(S) /\ e \in S
  BY <1>1, SeqMonotonic
<1>3. /\ EventShape(e) /\ e.pending = TRUE /\ e.call = NextCall
      /\ e.block = currentBlock(t.blockOffset) /\ e.inspect = Inspect(t)
  BY PendingShape
<1>4. /\ Shape(scenario') /\ scenario'.pending = TRUE /\ r = Latest(<<e>> \o q)
      /\ Inspect(scenario') = Inspect(t) /\ scenario'.blockOffset = t.blockOffset
  BY ManipulatedRow
<1> HIDE DEF e, S, q, r, t
<1>5. r = Latest(<<e>> \o q)
  BY <1>4
<1>6. r \in Seq(S) /\ r[1] = e /\ Head(r) = e
  BY <1>2, <1>5, Pushed
<1>7. Len(r) \in 1 .. Len(q) + 1
  BY <1>2, <1>5, Pushed
<1>8. \A i \in 2 .. Len(r) : i - 1 \in 1 .. Len(q) /\ r[i] = q[i - 1]
  BY <1>2, <1>5, Pushed
<1>9. Len(q) < MaxEvents => Len(r) = Len(q) + 1
  BY <1>2, <1>5, Pushed
<1>10. Len(q) >= MaxEvents => Len(r) = MaxEvents
  BY <1>2, <1>5, Pushed
<1>11. Len(r) \in Nat \ {0}
  BY <1>2, <1>7, LenProperties
<1> QED BY <1>3, <1>4, <1>6, <1>8, <1>9, <1>10, <1>11 DEF q, r

(* The list while the reasoning streams in: only the head's text moves.    *)
LEMMA ReasoningRows ==
  ASSUME RowsInv, NEW c, scenario' = setPendingReasoning(scenario, c)
  PROVE  LET q == scenario.events  r == scenario'.events
         IN  /\ Shape(scenario') /\ scenario'.pending = scenario.pending
             /\ \E S : r \in Seq(S)
             /\ Len(r) = Len(q) /\ Len(q) \in Nat
             /\ \A i \in 2 .. Len(q) : r[i] = q[i]
             /\ Len(q) > 0 => \/ r[1] = q[1]
                              \/ /\ q[1].pending /\ EventShape(r[1])
                                 /\ r[1].pending = q[1].pending /\ r[1].call = q[1].call
                                 /\ r[1].block = q[1].block /\ r[1].inspect = q[1].inspect
<1> DEFINE q == scenario.events  r == scenario'.events
<1>1. PICK S0 : q \in Seq(S0)
  BY DEF RowsInv
<1>2. CASE ~HeadPending(scenario)
  BY <1>1, <1>2, LenProperties DEF setPendingReasoning, RowsInv
<1>3. CASE HeadPending(scenario)
  <2> DEFINE h == Head(q)  e == [h EXCEPT !.reasoning = c]
             S == S0 \cup {e}  n == <<e>> \o Tail(q)
  <2>1. q # <<>> /\ h.pending /\ h = q[1]
    BY <1>3 DEF HeadPending
  <2>2. EventShape(h)
    BY <1>1, <2>1, EmptySeq, LenProperties DEF RowsInv, RowOf
  <2>3. scenario' = [scenario EXCEPT !.events = n]
    BY <1>3 DEF setPendingReasoning
  <2>4. q \in Seq(S) /\ e \in S
    BY <1>1, SeqMonotonic
  <2> HIDE DEF n
  <2>5. Shape(scenario') /\ r = n /\ scenario'.pending = scenario.pending
    BY <2>3 DEF RowsInv, Shape
  <2> HIDE DEF h
  <2>6. EventShape(e)
    BY <2>2 DEF EventShape
  <2>7. e.pending = h.pending /\ e.call = h.call /\ e.block = h.block /\ e.inspect = h.inspect
    BY <2>2 DEF EventShape
  <2> HIDE DEF e, S, q, r
  <2>8. r = <<e>> \o Tail(q)
    BY <2>5 DEF n
  <2>9. /\ r \in Seq(S) /\ Len(r) = Len(q) /\ Len(q) \in Nat \ {0}
        /\ r[1] = e /\ Head(r) = e
        /\ \A i \in 2 .. Len(r) : r[i] = q[i]
    BY <2>1, <2>4, <2>8, Replaced
  <2> QED BY <2>1, <2>5, <2>6, <2>7, <2>9 DEF q, r
<1> QED BY <1>2, <1>3

LEMMA PageInvInit == Init => PageInv
<1> SUFFICES ASSUME Init PROVE PageInv
  OBVIOUS
<1>1. scenario.events = <<>> /\ Shape(scenario)
  BY DEF Init, initialScenario, Shape
<1>2. CallsInv
  BY <<>> \in Seq({}) DEF Init, CallsInv
<1>3. RowsInv
  <2> HIDE DEF Init
  <2> QED BY <1>1, <<>> \in Seq({}), Len(<<>>) = 0 DEF RowsInv
<1> QED BY <1>2, <1>3 DEF Init, PageInv, UrlInv

LEMMA PageInvNext == PageInv /\ [Next]_vars => PageInv'
<1> SUFFICES ASSUME PageInv, [Next]_vars PROVE PageInv'
  OBVIOUS
<1> USE DEF PageInv
<1>0. Shape(scenario) /\ RowsInv /\ CallsInv /\ UrlInv
  BY DEF RowsInv
<1> DEFINE q == scenario.events  r == scenario'.events
<1>1. CASE Acted
  <2>1. PICK origin, draft :
          /\ origin \in Origins
          /\ \/ draft = scenario
             \/ \E s : Shape(s) /\ s.events = scenario.events /\ draft = Manipulated(s, NextCall)
          /\ runWithAgent(draft, origin)
    BY <1>1, Zenon DEF Acted, Drafted
  <2> DEFINE new == calls'[NextCall]
  <2>2. /\ CallsInv' /\ DOMAIN calls \subseteq DOMAIN calls' /\ NextCall \in DOMAIN calls'
        /\ \A c \in DOMAIN calls : calls'[c] = calls[c]
        /\ new.sent = Inspect(draft)
        /\ new.block = IF draft.events = <<>> THEN draft.blockOffset ELSE Head(draft.events).block
    <3>1. runWithAgent(draft, origin)
      BY <2>1
    <3>2. CallsInv' /\ Len(calls) \in Nat /\ NextCall = Len(calls) + 1
      BY <1>0, <3>1, RunAppends
    <3>3. /\ DOMAIN calls = 1 .. Len(calls) /\ DOMAIN calls' = 1 .. NextCall
          /\ \A c \in DOMAIN calls : calls'[c] = calls[c]
      BY <1>0, <3>1, RunAppends
    <3>4. /\ new.sent = Inspect(draft)
          /\ new.block = IF draft.events = <<>> THEN draft.blockOffset ELSE Head(draft.events).block
      BY <1>0, <3>1, RunAppends
    <3> QED BY <3>2, <3>3, <3>4
  <2>3. scenario' = draft
    BY <2>1 DEF runWithAgent
  <2>4. UrlInv'
    BY <1>1 DEF Acted, Busies, UrlInv
  <2>5. \A i \in 1 .. Len(q) : RowOf(q[i], calls')
    BY <1>0, <2>2, RowsKept DEF RowsInv
  <2>6. CASE draft = scenario
    BY <1>0, <2>2, <2>3, <2>4, <2>5, <2>6 DEF RowsInv
  <2>7. CASE \E s : Shape(s) /\ s.events = scenario.events /\ draft = Manipulated(s, NextCall)
    <3>1. /\ Shape(scenario') /\ (\E S : r \in Seq(S))
          /\ Len(r) \in Nat \ {0} /\ Head(r) = r[1]
          /\ EventShape(r[1]) /\ r[1].pending = TRUE /\ r[1].call = NextCall
          /\ r[1].inspect = Inspect(scenario')
          /\ \A i \in 2 .. Len(r) : i - 1 \in 1 .. Len(q) /\ r[i] = q[i - 1]
      BY <1>0, <2>3, <2>7, DraftRows
    <3>2. r # <<>>
      BY <3>1
    <3>3. RowOf(r[1], calls')
      BY <2>2, <2>3, <3>1, <3>2 DEF RowOf
    <3>4. \A i \in 2 .. Len(r) : RowOf(r[i], calls')
      BY <2>5, <3>1
    <3> HIDE DEF r
    <3>5. \A i \in 1 .. Len(r) : RowOf(r[i], calls')
      <4> SUFFICES ASSUME NEW i \in 1 .. Len(r) PROVE RowOf(r[i], calls')
        OBVIOUS
      <4>1. i = 1 \/ i \in 2 .. Len(r)
        BY <3>1
      <4> QED BY <3>3, <3>4, <4>1
    <3> QED BY <2>2, <2>4, <3>1, <3>5 DEF r, RowsInv
  <2> QED BY <2>1, <2>6, <2>7
<1>2. CASE Polled /\ UNCHANGED <<calls, cards, controls, url>>
  <2>1. PICK readings : scenario' = applyLiveReadings(scenario, readings)
    BY <1>2 DEF Polled
  <2>2. Shape(scenario') /\ r = q
    BY <1>0, <2>1 DEF applyLiveReadings, Shape
  <2> QED BY <1>0, <1>2, <2>2 DEF RowsInv, CallsInv, UrlInv
<1>3. ASSUME NEW c, Reasoning(c) PROVE PageInv'
  <2>1. UNCHANGED <<calls, url>> /\ scenario' = setPendingReasoning(scenario, c)
    BY <1>3 DEF Reasoning
  <2>2. /\ Shape(scenario') /\ (\E S : r \in Seq(S))
        /\ Len(r) = Len(q) /\ Len(q) \in Nat
        /\ \A i \in 2 .. Len(q) : r[i] = q[i]
        /\ Len(q) > 0 => \/ r[1] = q[1]
                         \/ /\ q[1].pending /\ EventShape(r[1])
                            /\ r[1].pending = q[1].pending /\ r[1].call = q[1].call
                            /\ r[1].block = q[1].block /\ r[1].inspect = q[1].inspect
    BY <1>0, <2>1, ReasoningRows
  <2>3. ASSUME NEW i \in 1 .. Len(r) PROVE RowOf(r[i], calls')
    <3>1. RowOf(q[i], calls)
      BY <1>0, <2>2 DEF RowsInv
    <3>2. CASE i = 1
      <4> HIDE DEF q, r
      <4> QED BY <2>1, <2>2, <2>3, <3>1, <3>2 DEF RowOf
    <3>3. CASE i # 1
      BY <2>1, <2>2, <3>1, <3>3
    <3> QED BY <3>2, <3>3
  <2> QED BY <1>0, <2>1, <2>2, <2>3 DEF RowsInv, CallsInv, UrlInv
<1>4. ASSUME NEW c, Settled(c) PROVE PageInv'
  <2>1. PICK output : scenario' = applyAgentEvent(scenario, Verdict(c, output))
    BY <1>4 DEF Settled
  <2>2. c \in Running /\ Done(c) /\ c \in DOMAIN calls /\ UNCHANGED url
    BY <1>4 DEF Settled, Running, Done
  <2>3. /\ CallsInv' /\ DOMAIN calls' = DOMAIN calls
        /\ \A d \in DOMAIN calls : calls'[d].sent = calls[d].sent /\ calls'[d].block = calls[d].block
    BY <1>0, <2>2, RunEnds
  <2>4. /\ Shape(scenario') /\ (\E S : r \in Seq(S))
        /\ Len(r) \in Nat \ {0} /\ r[1] = Verdict(c, output)
        /\ HeadPending(scenario) => Len(r) = Len(q) /\ \A i \in 2 .. Len(r) : r[i] = q[i]
        /\ ~HeadPending(scenario) =>
             \A i \in 2 .. Len(r) : i - 1 \in 1 .. Len(q) /\ r[i] = q[i - 1]
    BY <1>0, <2>1, AnswerRows
  <2>5. RowOf(r[1], calls')
    <3> DEFINE e == Verdict(c, output)
    <3>1. /\ EventShape(e) /\ e.pending = FALSE /\ e.call = c /\ e.block = calls[c].block
          /\ e.inspect = calls[c].sent /\ e.reasoning = c
      BY DEF EventShape, Verdict
    <3> HIDE DEF e
    <3>2. RowOf(e, calls')
      BY <2>2, <2>3, <3>1 DEF RowOf
    <3> QED BY <2>4, <3>2 DEF e
  <2>6. \A i \in 1 .. Len(q) : RowOf(q[i], calls')
    BY <1>0, <2>3, RowsKept DEF RowsInv
  <2> HIDE DEF q, r
  <2>7. \A i \in 2 .. Len(r) : RowOf(r[i], calls')
    BY <2>4, <2>6
  <2>8. ASSUME NEW i \in 1 .. Len(r) PROVE RowOf(r[i], calls')
    <3>1. i = 1 \/ i \in 2 .. Len(r)
      BY <2>4
    <3> QED BY <2>5, <2>7, <3>1
  <2> QED BY <1>0, <2>2, <2>3, <2>4, <2>8 DEF r, RowsInv, UrlInv
<1>5. CASE UNCHANGED vars
  BY <1>5 DEF vars, RowsInv, CallsInv, UrlInv
<1> QED BY <1>0, <1>1, <1>2, <1>3, <1>4, <1>5, StepKinds

-----------------------------------------------------------------------------
(* The rows show what was sent.                                            *)

(* The shown rows are the decisions, and seeds that claim no inputs.       *)
LEMMA ShownRows ==
  ASSUME PageInv, NEW i \in DOMAIN deriveTimeline(scenario)
  PROVE  \/ deriveTimeline(scenario)[i].inspect = None /\ ~deriveTimeline(scenario)[i].pending
         \/ RowOf(deriveTimeline(scenario)[i], calls)
<1> DEFINE q == scenario.events
           seed(blocks) == [block |-> currentBlock(scenario.blockOffset) - blocks,
                            decision |-> "PRICED", pending |-> FALSE,
                            price |-> scenario.referencePrice, reason |-> None,
                            reasoning |-> None, inspect |-> None, call |-> None]
           seeds == IF scenario.referencePrice > 0 THEN <<seed(10), seed(20), seed(30)>> ELSE <<>>
           all == q \o seeds
           n == IF Len(all) < MaxEvents THEN Len(all) ELSE MaxEvents
<1>1. PICK S0 : q \in Seq(S0)
  BY DEF PageInv, RowsInv
<1> DEFINE Seeds == {seed(10), seed(20), seed(30)}
           S == S0 \cup Seeds
<1>2. \A s \in Seeds : s.inspect = None /\ s.pending = FALSE
  OBVIOUS
<1>3. seeds \in Seq(Seeds) /\ deriveTimeline(scenario) = SubSeq(all, 1, n)
  <2>1. <<seed(10), seed(20), seed(30)>> \in Seq(Seeds)
    <3> HIDE DEF seed
    <3> QED OBVIOUS
  <2>2. <<>> \in Seq(Seeds)
    OBVIOUS
  <2> QED BY <2>1, <2>2 DEF deriveTimeline, Latest
<1> HIDE DEF seed, seeds, Seeds, q
<1>4. q \in Seq(S) /\ seeds \in Seq(S)
  BY <1>1, <1>3, SeqMonotonic
<1> HIDE DEF S
<1>5. /\ all \in Seq(S) /\ Len(all) = Len(q) + Len(seeds) /\ Len(q) \in Nat /\ Len(seeds) \in Nat
      /\ \A k \in 1 .. Len(q) + Len(seeds) :
           all[k] = IF k <= Len(q) THEN q[k] ELSE seeds[k - Len(q)]
  BY <1>4, ConcatProperties, LenProperties
<1> HIDE DEF all
<1>6. n \in Nat /\ n <= Len(all)
  BY <1>5, AaveAssumption
<1>7. \A k \in 1 .. n : all[k] \in S
  BY <1>5, <1>6, ElementOfSeq
<1>8. /\ SubSeq(all, 1, n) \in Seq(S) /\ Len(SubSeq(all, 1, n)) = n
      /\ \A k \in 1 .. n : SubSeq(all, 1, n)[k] = all[k]
  <2> HIDE DEF n
  <2> QED BY <1>6, <1>7, SubSeqProperties
<1>9. i \in 1 .. n /\ deriveTimeline(scenario)[i] = all[i]
  BY <1>3, <1>6, <1>8, LenProperties
<1>10. i \in 1 .. Len(q) + Len(seeds)
  BY <1>5, <1>6, <1>9
<1>11. CASE i <= Len(q)
  <2>1. i \in 1 .. Len(q) /\ all[i] = q[i]
    BY <1>5, <1>10, <1>11
  <2> QED BY <1>9, <2>1 DEF PageInv, RowsInv, q
<1>12. CASE i > Len(q)
  <2>1. i - Len(q) \in 1 .. Len(seeds) /\ all[i] = seeds[i - Len(q)]
    BY <1>5, <1>10, <1>12
  <2>2. seeds[i - Len(q)] \in Seeds
    BY <1>3, <2>1, ElementOfSeq
  <2> QED BY <1>2, <1>9, <2>1, <2>2
<1> QED BY <1>5, <1>10, <1>11, <1>12

(* A row that shows inputs shows the block, the venues, the reference and  *)
(* the reasoning of its own call, and the cost of that call's verdict.     *)
LEMMA ShownIsSent == PageInv => InspectIsWhatAgentSaw
<1> SUFFICES ASSUME PageInv, NEW i \in DOMAIN deriveTimeline(scenario)
             PROVE  LET e == deriveTimeline(scenario)[i]
                        row == TimelineRow(e)
                    IN  row.saw # None =>
                          /\ row.block = calls[e.call].block
                          /\ row.saw = calls[e.call].sent
                          /\ row.reasoning = e.call
                          /\ row.cost = IF row.decision = "REFUSED"
                                        THEN aaveCounterfactual(calls[e.call].sent, "REFUSED",
                                                                e.price).quorumPrice
                                        ELSE None
  BY DEF InspectIsWhatAgentSaw
<1> DEFINE e == deriveTimeline(scenario)[i]
           cf == aaveCounterfactual(e.inspect, e.decision, e.price)
<1>1. (e.inspect = None /\ ~e.pending) \/ RowOf(e, calls)
  BY ShownRows
<1> HIDE DEF e
<1>2. cf.divergesFromAgent <=> e.decision = "REFUSED"
  BY DEF aaveCounterfactual
<1>3. /\ TimelineRow(e).block = e.block /\ TimelineRow(e).reasoning = e.reasoning
      /\ TimelineRow(e).saw = InspectPanel(e)
      /\ TimelineRow(e).decision = IF e.pending THEN "reasoning" ELSE e.decision
      /\ TimelineRow(e).cost = IF InspectPanel(e) # None /\ cf.divergesFromAgent
                               THEN cf.quorumPrice ELSE None
  BY DEF TimelineRow
<1> HIDE DEF cf
<1>4. SUFFICES ASSUME TimelineRow(e).saw # None
               PROVE  /\ TimelineRow(e).block = calls[e.call].block
                      /\ TimelineRow(e).saw = calls[e.call].sent
                      /\ TimelineRow(e).reasoning = e.call
                      /\ TimelineRow(e).cost =
                           IF TimelineRow(e).decision = "REFUSED"
                           THEN aaveCounterfactual(calls[e.call].sent, "REFUSED",
                                                   e.price).quorumPrice
                           ELSE None
  BY DEF e
<1>5. ~e.pending /\ e.inspect # None /\ TimelineRow(e).saw = e.inspect
  BY <1>3, <1>4 DEF InspectPanel
<1>6. e.block = calls[e.call].block /\ e.inspect = calls[e.call].sent /\ e.reasoning = e.call
  BY <1>1, <1>5 DEF RowOf
<1>7. TimelineRow(e).decision = e.decision
  BY <1>3, <1>5
<1>8. CASE e.decision = "REFUSED"
  BY <1>2, <1>3, <1>4, <1>5, <1>6, <1>7, <1>8 DEF cf
<1>9. CASE e.decision # "REFUSED"
  BY <1>2, <1>3, <1>4, <1>5, <1>6, <1>7, <1>9
<1> QED BY <1>8, <1>9

(* Whatever runs overlap and in whatever order their answers land, a row   *)
(* of the Aave page is about the inputs its own call was sent.             *)
THEOREM RowsShowWhatWasSent == Spec => []InspectIsWhatAgentSaw
<1>1. Spec => []PageInv
  BY PageInvInit, PageInvNext, PTL DEF Spec
<1> QED BY <1>1, ShownIsSent, PTL

-----------------------------------------------------------------------------
(* Placeholders and the runs they wait for.                                *)

(* While runs follow one another, at most one runs, and the one row that   *)
(* may wait, the head, waits for it.                                       *)
AloneInv ==
  ~Overlapped =>
    /\ \A c, d \in Running : c = d
    /\ \A i \in 1 .. Len(scenario.events) :
         /\ scenario.events[i].pending <=> scenario.events[i].call \in Running
         /\ scenario.events[i].pending => i = 1
    /\ scenario.pending <=> \E i \in 1 .. Len(scenario.events) : scenario.events[i].pending

(* Two lists of rows that wait for the same calls.                         *)
LEMMA SameWaiting ==
  ASSUME AloneInv, scenario'.pending = scenario.pending, calls' = calls,
         NEW q, q = scenario.events, NEW r, r = scenario'.events, Len(r) = Len(q),
         \A i \in 1 .. Len(q) : r[i].pending = q[i].pending /\ r[i].call = q[i].call
  PROVE  AloneInv'
BY DEF AloneInv, Overlapped, Running

(* A run overlaps, or it starts when no row waits.                         *)
LEMMA AloneOnStart ==
  ASSUME PageInv, AloneInv, Acted
  PROVE  AloneInv'
<1> DEFINE q == scenario.events  r == scenario'.events
<1>1. PICK origin, draft :
        /\ \/ draft = scenario
           \/ \E s : Shape(s) /\ s.events = scenario.events /\ draft = Manipulated(s, NextCall)
        /\ runWithAgent(draft, origin)
  BY Zenon DEF Acted, Drafted
<1>2. CallsInv /\ RowsInv
  BY DEF PageInv
<1>3. /\ Len(calls) \in Nat /\ NextCall = Len(calls) + 1
      /\ DOMAIN calls = 1 .. Len(calls) /\ DOMAIN calls' = 1 .. NextCall
      /\ \A c \in DOMAIN calls : calls'[c] = calls[c]
  BY <1>1, <1>2, RunAppends
<1>4. calls'[NextCall].running = TRUE /\ calls'[NextCall].alone = (Running = {})
  BY <1>1, <1>2, RunAppends
<1>5. scenario' = draft
  BY <1>1 DEF runWithAgent
<1>6. NextCall \in DOMAIN calls' /\ NextCall \notin DOMAIN calls
  BY <1>3
<1>7. Overlapped => Overlapped'
  BY <1>3 DEF Overlapped
<1>8. Running # {} => Overlapped'
  BY <1>4, <1>6 DEF Overlapped
<1>9. SUFFICES ASSUME ~Overlapped, Running = {} PROVE AloneInv'
  BY <1>7, <1>8 DEF AloneInv
<1>10. Running' = {NextCall}
  BY <1>3, <1>4, <1>6, <1>9 DEF Running
<1>11. \A i \in 1 .. Len(q) : ~q[i].pending /\ q[i].call \in DOMAIN calls
  BY <1>2, <1>9 DEF AloneInv, RowsInv, RowOf
<1>12. \A i \in 1 .. Len(q) : ~q[i].pending /\ q[i].call \notin Running'
  BY <1>6, <1>10, <1>11
<1>13. CASE draft = scenario
  <2>1. scenario'.pending = scenario.pending /\ r = q
    BY <1>5, <1>13
  <2>2. ~scenario.pending
    BY <1>9, <1>11 DEF AloneInv
  <2> HIDE DEF q, r
  <2> QED BY <1>10, <1>12, <2>1, <2>2 DEF AloneInv, r
<1>14. CASE \E s : Shape(s) /\ s.events = scenario.events /\ draft = Manipulated(s, NextCall)
  <2>1. /\ scenario'.pending = TRUE /\ Len(r) \in Nat \ {0}
        /\ r[1].pending = TRUE /\ r[1].call = NextCall
        /\ \A i \in 2 .. Len(r) : i - 1 \in 1 .. Len(q) /\ r[i] = q[i - 1]
    BY <1>2, <1>5, <1>14, DraftRows
  <2> HIDE DEF q, r
  <2>2. \A i \in 2 .. Len(r) : ~r[i].pending /\ r[i].call \notin Running'
    BY <1>12, <2>1
  <2>3. 1 \in 1 .. Len(r) /\ \A i \in 1 .. Len(r) : i = 1 \/ i \in 2 .. Len(r)
    BY <2>1
  <2> QED BY <1>10, <2>1, <2>2, <2>3 DEF AloneInv, r
<1> QED BY <1>1, <1>13, <1>14

(* The only run ends, and with it the only wait.                           *)
LEMMA AloneOnEnd ==
  ASSUME PageInv, AloneInv, NEW c, Settled(c)
  PROVE  AloneInv'
<1> DEFINE q == scenario.events  r == scenario'.events
<1>1. PICK output : scenario' = applyAgentEvent(scenario, Verdict(c, output))
  BY DEF Settled
<1>2. CallsInv /\ RowsInv /\ c \in Running /\ Done(c)
  BY DEF PageInv, Settled
<1>3. /\ DOMAIN calls' = DOMAIN calls /\ Running' = Running \ {c}
      /\ \A d \in DOMAIN calls : calls'[d].alone = calls[d].alone
  BY <1>2, RunEnds
<1>4. Overlapped <=> Overlapped'
  BY <1>3 DEF Overlapped
<1>5. SUFFICES ASSUME ~Overlapped PROVE AloneInv'
  BY <1>4 DEF AloneInv
<1>6. Running' = {}
  BY <1>2, <1>3, <1>5 DEF AloneInv
<1>7. /\ scenario'.pending = FALSE /\ Len(r) \in Nat \ {0} /\ r[1] = Verdict(c, output)
      /\ HeadPending(scenario) => Len(r) = Len(q) /\ \A i \in 2 .. Len(r) : r[i] = q[i]
  BY <1>1, <1>2, AnswerRows
<1>8. ~HeadPending(scenario) =>
        /\ q # <<>> => ~q[1].pending
        /\ \A i \in 2 .. Len(r) : i - 1 \in 1 .. Len(q) /\ r[i] = q[i - 1]
  BY <1>1, <1>2, AnswerRows
<1>9. \A i \in 1 .. Len(q) : q[i].pending => i = 1
  BY <1>5 DEF AloneInv
<1>10. Verdict(c, output).pending = FALSE
  BY DEF Verdict
<1> HIDE DEF q, r
<1>11. ASSUME NEW i \in 2 .. Len(r) PROVE ~r[i].pending
  <2>1. CASE HeadPending(scenario)
    BY <1>7, <1>9, <2>1
  <2>2. CASE ~HeadPending(scenario)
    <3>1. i - 1 \in 1 .. Len(q) /\ r[i] = q[i - 1]
      BY <1>8, <2>2
    <3>2. q # <<>>
      BY <3>1
    <3> QED BY <1>8, <1>9, <2>2, <3>1, <3>2
  <2> QED BY <2>1, <2>2
<1>12. \A i \in 1 .. Len(r) : ~r[i].pending
  <2> SUFFICES ASSUME NEW i \in 1 .. Len(r) PROVE ~r[i].pending
    OBVIOUS
  <2>1. i = 1 \/ i \in 2 .. Len(r)
    BY <1>7
  <2> QED BY <1>7, <1>10, <1>11, <2>1
<1> QED BY <1>6, <1>7, <1>12 DEF AloneInv, r

LEMMA AloneNext == PageInv /\ AloneInv /\ [Next]_vars => AloneInv'
<1> SUFFICES ASSUME PageInv, AloneInv, [Next]_vars PROVE AloneInv'
  OBVIOUS
<1> DEFINE q == scenario.events  r == scenario'.events
<1>0. Shape(scenario) /\ RowsInv /\ UrlInv
  BY DEF PageInv, RowsInv
<1>1. CASE Acted
  BY <1>1, AloneOnStart
<1>2. CASE Polled /\ UNCHANGED <<calls, cards, controls, url>>
  <2>1. PICK readings : scenario' = applyLiveReadings(scenario, readings)
    BY <1>2 DEF Polled
  <2>2. scenario'.pending = scenario.pending /\ r = q
    BY <1>0, <2>1 DEF applyLiveReadings, Shape
  <2> HIDE DEF q, r
  <2> QED BY <1>2, <2>2, SameWaiting DEF q, r
<1>3. ASSUME NEW c, Reasoning(c) PROVE AloneInv'
  <2>1. calls' = calls /\ scenario' = setPendingReasoning(scenario, c)
    BY <1>3 DEF Reasoning
  <2>2. /\ scenario'.pending = scenario.pending
        /\ Len(r) = Len(q) /\ Len(q) \in Nat
        /\ \A i \in 2 .. Len(q) : r[i] = q[i]
        /\ Len(q) > 0 => r[1].pending = q[1].pending /\ r[1].call = q[1].call
    BY <1>0, <2>1, ReasoningRows
  <2> HIDE DEF q, r
  <2>3. ASSUME NEW i \in 1 .. Len(q) PROVE r[i].pending = q[i].pending /\ r[i].call = q[i].call
    <3>1. Len(q) > 0 /\ (i = 1 \/ i \in 2 .. Len(q))
      BY <2>2
    <3> QED BY <2>2, <3>1
  <2> QED BY <2>1, <2>2, <2>3, SameWaiting DEF q, r
<1>4. ASSUME NEW c, Settled(c) PROVE AloneInv'
  BY <1>4, AloneOnEnd
<1>5. CASE UNCHANGED vars
  BY <1>5, SameWaiting DEF vars
<1> QED BY <1>0, <1>1, <1>2, <1>3, <1>4, <1>5, StepKinds

(* Until two runs overlap, a row waits while its own call is in flight and *)
(* no longer, and the links are disabled just as long.                     *)
THEOREM WaitsForItsCall == Spec => []PendingUnlessOverlap
<1>1. Init => PageInv /\ AloneInv
  <2> SUFFICES ASSUME Init PROVE AloneInv
    BY PageInvInit
  <2>1. /\ scenario.events = <<>> /\ scenario.pending = FALSE /\ calls = <<>>
    BY DEF Init, initialScenario
  <2>2. Len(scenario.events) = 0 /\ Running = {}
    BY <2>1 DEF Running
  <2> QED BY <2>1, <2>2 DEF AloneInv
<1>2. (PageInv /\ AloneInv) /\ [Next]_vars => (PageInv /\ AloneInv)'
  BY PageInvNext, AloneNext
<1>3. PageInv /\ AloneInv => PendingUnlessOverlap
  <2> SUFFICES ASSUME PageInv, AloneInv PROVE PendingUnlessOverlap
    OBVIOUS
  <2>1. PICK S : scenario.events \in Seq(S)
    BY DEF PageInv, RowsInv
  <2>2. DOMAIN scenario.events = 1 .. Len(scenario.events)
    BY <2>1, LenProperties
  <2> QED BY <2>2 DEF AloneInv, PendingUnlessOverlap
<1> QED BY <1>1, <1>2, <1>3, PTL DEF Spec

-----------------------------------------------------------------------------
(* The feed and the runs that may overlap.                                 *)

(* Two runs that overlap were started from different controls, which are   *)
(* busy until their run ends; the link that was waiting ran once.          *)
OriginInv ==
  /\ \A c, d \in Running : calls[c].origin = calls[d].origin => c = d
  /\ \A c \in Running :
       \/ calls[c].origin \in Venues \cap cards
       \/ calls[c].origin = "controls" /\ controls
       \/ calls[c].origin = "url" /\ url = None

(* The rows above the last verdict.                                        *)
Leading(n) == \A i \in 1 .. n : scenario.events[i].pending

(* Each of them waits for a run of its own that is still in flight.        *)
LeadInv ==
  \A n \in 1 .. Len(scenario.events) : Leading(n) =>
    /\ scenario.events[n].call \in Running
    /\ \A i \in 1 .. n - 1 : scenario.events[i].call # scenario.events[n].call

LEMMA OriginNext ==
  ASSUME PageInv, OriginInv, [Next]_vars
  PROVE  OriginInv'
<1>0. Shape(scenario) /\ UrlInv /\ CallsInv
  BY DEF PageInv, RowsInv
<1>1. CASE Acted
  <2>1. PICK origin, draft : runWithAgent(draft, origin) /\ Busies(origin)
    BY <1>1, Zenon DEF Acted, Drafted
  <2>2. /\ DOMAIN calls = 1 .. Len(calls) /\ DOMAIN calls' = 1 .. NextCall
        /\ NextCall = Len(calls) + 1 /\ Len(calls) \in Nat
        /\ \A c \in DOMAIN calls : calls'[c] = calls[c]
    BY <1>0, <2>1, RunAppends
  <2>3. calls'[NextCall].origin = origin /\ calls'[NextCall].running = TRUE
    BY <1>0, <2>1, RunAppends
  <2>4. ASSUME NEW c \in Running'
        PROVE  c = NextCall \/ (c \in Running /\ calls'[c] = calls[c])
    <3>1. c \in DOMAIN calls' /\ calls'[c].running
      BY DEF Running
    <3>2. c = NextCall \/ c \in DOMAIN calls
      BY <2>2, <3>1
    <3> QED BY <2>2, <3>1, <3>2 DEF Running
  <2>5. \A c \in Running : calls[c].origin # origin
    BY <2>1, CallsAssumption DEF OriginInv, Busies
  <2>6. \/ origin \in Venues \cap cards'
        \/ origin = "controls" /\ controls'
        \/ origin = "url" /\ url' = None
    BY <2>1 DEF Busies
  <2>7. cards \subseteq cards' /\ (controls => controls') /\ (url = None => url' = None)
    BY <2>1 DEF Busies
  <2>8. ASSUME NEW c \in Running', NEW d \in Running', calls'[c].origin = calls'[d].origin
        PROVE  c = d
    BY <2>3, <2>4, <2>5, <2>8 DEF OriginInv
  <2>9. ASSUME NEW c \in Running'
        PROVE  \/ calls'[c].origin \in Venues \cap cards'
               \/ calls'[c].origin = "controls" /\ controls'
               \/ calls'[c].origin = "url" /\ url' = None
    BY <2>3, <2>4, <2>6, <2>7 DEF OriginInv
  <2> QED BY <2>8, <2>9 DEF OriginInv
<1>2. CASE UNCHANGED <<calls, cards, controls, url>>
  BY <1>2 DEF OriginInv, Running
<1>3. ASSUME NEW c, Settled(c) PROVE OriginInv'
  <2>1. c \in Running /\ Done(c)
    BY <1>3 DEF Settled
  <2>2. /\ Running' = Running \ {c}
        /\ \A d \in DOMAIN calls : calls'[d].origin = calls[d].origin
    BY <1>0, <2>1, RunEnds
  <2>3. \A d \in Running' : /\ d \in Running /\ calls'[d].origin = calls[d].origin
                            /\ calls[d].origin # calls[c].origin
    BY <2>1, <2>2 DEF OriginInv, Running
  <2>4. /\ cards' = cards \ {calls[c].origin} /\ url' = url
        /\ calls[c].origin # "controls" => controls' = controls
    BY <2>1 DEF Done
  <2>5. \A d \in Running' :
          \/ calls'[d].origin \in Venues \cap cards'
          \/ calls'[d].origin = "controls" /\ controls'
          \/ calls'[d].origin = "url" /\ url' = None
    BY <2>3, <2>4 DEF OriginInv
  <2> QED BY <2>3, <2>5 DEF OriginInv
<1> QED BY <1>0, <1>1, <1>2, <1>3, StepKinds DEF Reasoning, vars

(* Rows that wait for the calls they waited for.                           *)
LEMMA SameLead ==
  ASSUME LeadInv, calls' = calls,
         NEW q, q = scenario.events, NEW r, r = scenario'.events, Len(r) = Len(q), Len(q) \in Nat,
         \A i \in 1 .. Len(q) : r[i].pending = q[i].pending /\ r[i].call = q[i].call
  PROVE  LeadInv'
<1> SUFFICES ASSUME NEW n \in 1 .. Len(r), \A i \in 1 .. n : r[i].pending
             PROVE  r[n].call \in Running' /\ \A i \in 1 .. n - 1 : r[i].call # r[n].call
  BY DEF LeadInv, Leading
<1>1. \A i \in 1 .. n : i \in 1 .. Len(q)
  OBVIOUS
<1>2. \A i \in 1 .. n : q[i].pending /\ r[i].call = q[i].call
  BY <1>1
<1>3. q[n].call \in Running /\ \A i \in 1 .. n - 1 : q[i].call # q[n].call
  BY <1>2 DEF LeadInv, Leading
<1>4. Running' = Running
  BY DEF Running
<1> QED BY <1>2, <1>3, <1>4

LEMMA LeadNext ==
  ASSUME PageInv, LeadInv, [Next]_vars
  PROVE  LeadInv'
<1> DEFINE q == scenario.events  r == scenario'.events
<1>0. Shape(scenario) /\ RowsInv /\ UrlInv /\ CallsInv /\ Len(q) \in Nat
  BY LenProperties DEF PageInv, RowsInv
<1>1. CASE Acted
  <2>1. PICK origin, draft :
          /\ \/ draft = scenario
             \/ \E s : Shape(s) /\ s.events = scenario.events /\ draft = Manipulated(s, NextCall)
          /\ runWithAgent(draft, origin)
    BY <1>1, Zenon DEF Acted, Drafted
  <2>2. /\ DOMAIN calls = 1 .. Len(calls) /\ DOMAIN calls' = 1 .. NextCall
        /\ NextCall = Len(calls) + 1 /\ Len(calls) \in Nat
        /\ \A c \in DOMAIN calls : calls'[c] = calls[c]
    BY <1>0, <2>1, RunAppends
  <2>3. calls'[NextCall].running = TRUE
    BY <1>0, <2>1, RunAppends
  <2>4. Running \subseteq Running' /\ NextCall \in Running'
    BY <2>2, <2>3 DEF Running
  <2>5. scenario' = draft
    BY <2>1 DEF runWithAgent
  <2>6. CASE draft = scenario
    <3>1. r = q
      BY <2>5, <2>6
    <3> HIDE DEF q, r
    <3> QED BY <2>4, <3>1 DEF LeadInv, Leading, q, r
  <2>7. CASE \E s : Shape(s) /\ s.events = scenario.events /\ draft = Manipulated(s, NextCall)
    <3>1. /\ r[1].call = NextCall
          /\ \A i \in 2 .. Len(r) : i - 1 \in 1 .. Len(q) /\ r[i] = q[i - 1]
          /\ Len(r) \in Nat \ {0}
      BY <1>0, <2>5, <2>7, DraftRows
    <3>2. \A i \in 1 .. Len(q) : q[i].call # NextCall
      BY <1>0, <2>2 DEF RowsInv, RowOf
    <3> HIDE DEF q, r
    <3>3. SUFFICES ASSUME NEW n \in 1 .. Len(r), \A i \in 1 .. n : r[i].pending
                   PROVE  r[n].call \in Running' /\ \A i \in 1 .. n - 1 : r[i].call # r[n].call
      BY DEF LeadInv, Leading, r
    <3>4. CASE n = 1
      BY <2>4, <3>1, <3>4
    <3>5. CASE n # 1
      <4>1. n - 1 \in 1 .. Len(q) /\ r[n] = q[n - 1] /\ n \in 2 .. Len(r)
        BY <3>1, <3>5
      <4>2. \A i \in 1 .. n - 1 : i + 1 \in 2 .. Len(r) /\ i + 1 \in 1 .. n
        BY <3>1, <4>1
      <4>3. ASSUME NEW i \in 1 .. n - 1 PROVE q[i] = r[i + 1] /\ q[i].pending
        <5>1. r[i + 1] = q[(i + 1) - 1] /\ r[i + 1].pending
          BY <3>1, <3>3, <4>2
        <5>2. (i + 1) - 1 = i
          OBVIOUS
        <5> QED BY <5>1, <5>2
      <4>4. /\ q[n - 1].call \in Running
            /\ \A i \in 1 .. (n - 1) - 1 : q[i].call # q[n - 1].call
        BY <4>1, <4>3 DEF LeadInv, Leading, q
      <4>5. ASSUME NEW i \in 1 .. n - 1 PROVE r[i].call # r[n].call
        <5>1. CASE i = 1
          BY <3>1, <3>2, <4>1, <5>1
        <5>2. CASE i # 1
          <6>1. i - 1 \in 1 .. (n - 1) - 1 /\ i \in 2 .. Len(r)
            BY <4>1, <5>2
          <6> QED BY <3>1, <4>1, <4>4, <6>1
        <5> QED BY <5>1, <5>2
      <4> QED BY <2>4, <4>1, <4>4, <4>5
    <3> QED BY <3>4, <3>5
  <2> QED BY <2>1, <2>6, <2>7
<1>2. CASE Polled /\ UNCHANGED <<calls, cards, controls, url>>
  <2>1. PICK readings : scenario' = applyLiveReadings(scenario, readings)
    BY <1>2 DEF Polled
  <2>2. r = q
    BY <1>0, <2>1 DEF applyLiveReadings, Shape
  <2> HIDE DEF q, r
  <2> QED BY <1>0, <1>2, <2>2, SameLead DEF q, r
<1>3. ASSUME NEW c, Reasoning(c) PROVE LeadInv'
  <2>1. calls' = calls /\ scenario' = setPendingReasoning(scenario, c)
    BY <1>3 DEF Reasoning
  <2>2. /\ Len(r) = Len(q) /\ Len(q) \in Nat
        /\ \A i \in 2 .. Len(q) : r[i] = q[i]
        /\ Len(q) > 0 => r[1].pending = q[1].pending /\ r[1].call = q[1].call
    BY <1>0, <2>1, ReasoningRows
  <2> HIDE DEF q, r
  <2>3. ASSUME NEW i \in 1 .. Len(q) PROVE r[i].pending = q[i].pending /\ r[i].call = q[i].call
    <3>1. Len(q) > 0 /\ (i = 1 \/ i \in 2 .. Len(q))
      BY <2>2
    <3> QED BY <2>2, <3>1
  <2> QED BY <2>1, <2>2, <2>3, SameLead DEF q, r
<1>4. ASSUME NEW c, Settled(c) PROVE LeadInv'
  <2>1. PICK output : scenario' = applyAgentEvent(scenario, Verdict(c, output))
    BY <1>4 DEF Settled
  <2>2. Len(r) \in Nat \ {0} /\ r[1] = Verdict(c, output)
    BY <1>0, <2>1, AnswerRows
  <2>3. ~r[1].pending
    BY <2>2 DEF Verdict
  <2> HIDE DEF r
  <2>4. \A n \in 1 .. Len(r) : 1 \in 1 .. n
    BY <2>2
  <2> QED BY <2>3, <2>4 DEF LeadInv, Leading, r
<1>5. CASE UNCHANGED vars
  BY <1>0, <1>5, SameLead DEF vars
<1> QED BY <1>0, <1>1, <1>2, <1>3, <1>4, <1>5, StepKinds

(* A visitor has a control for each venue, one set of links and one link   *)
(* to come in by: so many runs can be in flight above the last verdict.    *)
LEMMA LeadIsShort ==
  PageInv /\ OriginInv /\ LeadInv =>
    \A n \in 1 .. Len(scenario.events) : Leading(n) => n <= Cardinality(Venues) + 2
<1> SUFFICES ASSUME PageInv, OriginInv, LeadInv,
                    NEW n \in 1 .. Len(scenario.events), Leading(n)
             PROVE  n <= Cardinality(Venues) + 2
  OBVIOUS
<1> DEFINE q == scenario.events
           f == [i \in 1 .. n |-> calls[q[i].call].origin]
<1>1. Len(q) \in Nat
  BY LenProperties DEF PageInv, RowsInv
<1>2. \A i \in 1 .. n : i \in 1 .. Len(q) /\ Leading(i)
  BY <1>1 DEF Leading
<1>3. \A i \in 1 .. n : /\ q[i].call \in Running
                        /\ \A j \in 1 .. i - 1 : q[j].call # q[i].call
  BY <1>2 DEF LeadInv
<1>4. \A i, j \in 1 .. n : q[i].call = q[j].call => i = j
  <2> SUFFICES ASSUME NEW i \in 1 .. n, NEW j \in 1 .. n, q[i].call = q[j].call PROVE i = j
    OBVIOUS
  <2>1. i \in 1 .. j - 1 \/ j \in 1 .. i - 1 \/ i = j
    BY <1>1
  <2> QED BY <1>3, <2>1
<1>5. f \in Injection(1 .. n, Origins)
  <2>1. \A i \in 1 .. n : calls[q[i].call].origin \in Origins
    BY <1>3 DEF OriginInv, Origins
  <2>2. \A i, j \in 1 .. n : f[i] = f[j] => i = j
    BY <1>3, <1>4 DEF OriginInv
  <2>3. f \in [1 .. n -> Origins]
    BY <2>1
  <2> HIDE DEF f
  <2> QED BY <2>2, <2>3 DEF Injection, IsInjective
<1>6. IsFiniteSet(Origins) /\ Cardinality(Origins) <= Cardinality(Venues) + 2
  <2>1. /\ IsFiniteSet(Venues) /\ Cardinality(Venues) \in Nat
    BY AaveAssumption, FS_CardinalityType
  <2> DEFINE A == Venues \cup {"controls"}
  <2>2. IsFiniteSet(A) /\ Cardinality(A) \in Nat /\ Cardinality(A) <= Cardinality(Venues) + 1
    <3>1. /\ IsFiniteSet(A)
          /\ Cardinality(A) = IF "controls" \in Venues THEN Cardinality(Venues)
                             ELSE Cardinality(Venues) + 1
      BY <2>1, FS_AddElement, Zenon
    <3> HIDE DEF A
    <3> QED BY <2>1, <3>1
  <2>3. Origins = A \cup {"url"}
    BY DEF Origins
  <2> HIDE DEF A
  <2>4. IsFiniteSet(A \cup {"url"}) /\ Cardinality(A \cup {"url"}) <= Cardinality(A) + 1
    <3>1. /\ IsFiniteSet(A \cup {"url"})
          /\ Cardinality(A \cup {"url"}) = IF "url" \in A THEN Cardinality(A)
                                          ELSE Cardinality(A) + 1
      BY <2>2, FS_AddElement, Zenon
    <3> QED BY <2>2, <3>1
  <2>5. Cardinality(A \cup {"url"}) \in Nat
    BY <2>4, FS_CardinalityType
  <2> QED BY <2>1, <2>2, <2>3, <2>4, <2>5
<1>7. Cardinality(1 .. n) <= Cardinality(Origins) /\ Cardinality(1 .. n) = n
  <2> HIDE DEF f
  <2>1. Cardinality(1 .. n) <= Cardinality(Origins)
    BY <1>5, <1>6, FS_Injection
  <2>2. n \in Int /\ 1 <= n
    BY <1>1
  <2> QED BY <2>1, <2>2, FS_Interval
<1>8. Cardinality(Origins) \in Nat /\ Cardinality(Venues) \in Nat /\ n \in Nat
  BY <1>1, <1>6, AaveAssumption, FS_CardinalityType
<1> QED BY <1>6, <1>7, <1>8

(* The feed is what the last verdict says.                                 *)
FeedOf(e) ==
  IF e.decision = "REFUSED"
  THEN [decision |-> "REFUSED", price |-> 0, hash |-> hashForReason("REFUSED", e.reason)]
  ELSE [decision |-> "PRICED", price |-> IF e.price = None THEN 0 ELSE e.price,
        hash |-> "PRICED_HASH"]

Last(q, n) ==
  /\ DOMAIN q = 1 .. Len(q) /\ Len(q) \in Nat /\ n \in 1 .. Len(q)
  /\ ~q[n].pending /\ \A i \in 1 .. n - 1 : q[i].pending

LEMMA FeedIsLast ==
  ASSUME NEW s, NEW n, Last(s.events, n)
  PROVE  deriveFeed(s) = FeedOf(s.events[n])
<1> DEFINE C == Committed(s)
<1>1. n \in C /\ C \in SUBSET Nat /\ \A i \in C : n <= i
  <2>1. n \in C /\ C \subseteq 1 .. Len(s.events)
    BY DEF Last, Committed
  <2>2. ASSUME NEW i \in C PROVE i \in Nat /\ n <= i
    <3>1. i \in 1 .. Len(s.events) /\ ~s.events[i].pending
      BY DEF Last, Committed
    <3> QED BY <3>1 DEF Last
  <2> QED BY <2>1, <2>2
<1> HIDE DEF C
<1>2. Min(C) \in C /\ \A i \in C : Min(C) <= i
  BY <1>1, LeastOf
<1>3. Min(C) = n
  <2>1. Min(C) \in Nat /\ n \in Nat /\ Min(C) <= n /\ n <= Min(C)
    BY <1>1, <1>2
  <2> QED BY <2>1
<1> QED BY <1>1, <1>3 DEF deriveFeed, FeedOf, C

LEMMA LastExists ==
  ASSUME PageInv, Committed(scenario) # {}
  PROVE  \E n : Last(scenario.events, n)
<1> DEFINE C == Committed(scenario)  n == Min(C)
<1>1. DOMAIN scenario.events = 1 .. Len(scenario.events) /\ Len(scenario.events) \in Nat
  BY LenProperties DEF PageInv, RowsInv
<1>2. C \in SUBSET Nat
  BY <1>1 DEF Committed
<1>3. C # {}
  OBVIOUS
<1> HIDE DEF C
<1>4. n \in C /\ \A i \in C : n <= i
  BY <1>2, <1>3, LeastOf
<1> HIDE DEF n
<1>5. n \in 1 .. Len(scenario.events) /\ ~scenario.events[n].pending
  BY <1>1, <1>4 DEF C, Committed
<1>6. ASSUME NEW i \in 1 .. n - 1 PROVE scenario.events[i].pending
  <2>1. i \in 1 .. Len(scenario.events) /\ i \in Nat /\ n \in Nat /\ ~(n <= i)
    BY <1>1, <1>5
  <2>2. i \notin C
    BY <1>4, <2>1
  <2> QED BY <1>1, <2>1, <2>2 DEF C, Committed
<1> QED BY <1>1, <1>5, <1>6 DEF Last

Held ==
  \/ deriveFeed(scenario') = deriveFeed(scenario)
  \/ \E c \in Running :
       /\ ~calls'[c].running
       /\ Head(scenario'.events).call = c
       /\ deriveFeed(scenario')
            = deriveFeed([scenario' EXCEPT !.events = <<Head(scenario'.events)>>])

(* The feed's row only moves down, and what may be put above it fits in.   *)
LEMMA FeedHeld ==
  ASSUME MaxEvents > Cardinality(Venues) + 2, PageInv, PageInv', OriginInv', LeadInv',
         (\A n \in 1 .. Len(scenario.events) : Leading(n) => n <= Cardinality(Venues) + 2)',
         [Next]_vars, Committed(scenario) # {}
  PROVE  Held
<1> DEFINE q == scenario.events  r == scenario'.events
<1>0. Shape(scenario) /\ RowsInv /\ UrlInv /\ CallsInv /\ RowsInv'
  BY DEF PageInv, RowsInv
<1>1. PICK n : Last(q, n)
  BY LastExists
<1>2. deriveFeed(scenario) = FeedOf(q[n])
  BY <1>1, FeedIsLast
<1>3. DOMAIN r = 1 .. Len(r) /\ Len(r) \in Nat
  BY <1>0, LenProperties DEF RowsInv
<1>4. ASSUME NEW m, Last(r, m), FeedOf(r[m]) = FeedOf(q[n]) PROVE Held
  <2>1. deriveFeed(scenario') = FeedOf(r[m])
    BY <1>4, FeedIsLast
  <2> QED BY <1>2, <1>4, <2>1 DEF Held
<1>5. CASE Acted
  <2>1. PICK origin, draft :
          /\ \/ draft = scenario
             \/ \E s : Shape(s) /\ s.events = scenario.events /\ draft = Manipulated(s, NextCall)
          /\ runWithAgent(draft, origin)
    BY <1>5, Zenon DEF Acted, Drafted
  <2>2. scenario' = draft
    BY <2>1 DEF runWithAgent
  <2>3. CASE draft = scenario
    BY <2>2, <2>3 DEF Held
  <2>4. CASE \E s : Shape(s) /\ s.events = scenario.events /\ draft = Manipulated(s, NextCall)
    <3>1. /\ r[1].pending = TRUE
          /\ \A i \in 2 .. Len(r) : i - 1 \in 1 .. Len(q) /\ r[i] = q[i - 1]
          /\ Len(q) < MaxEvents => Len(r) = Len(q) + 1
          /\ Len(q) >= MaxEvents => Len(r) = MaxEvents
      BY <1>0, <2>2, <2>4, DraftRows
    <3> HIDE DEF q, r
    <3>2. ASSUME NEW i \in 1 .. n, i \in 1 .. Len(r) PROVE r[i].pending
      <4>1. CASE i = 1
        BY <3>1, <4>1
      <4>2. CASE i # 1
        <5>1. i \in 2 .. Len(r) /\ i - 1 \in 1 .. n - 1
          BY <1>1, <1>3, <3>2, <4>2 DEF Last
        <5> QED BY <1>1, <3>1, <5>1 DEF Last
      <4> QED BY <4>1, <4>2
    <3>3. n + 1 \in 2 .. Len(r)
      <4>1. n \in Nat /\ n >= 1 /\ n <= Len(q) /\ Len(q) \in Nat /\ MaxEvents \in Nat
        BY <1>1, AaveAssumption DEF Last
      <4>2. CASE Len(q) < MaxEvents
        BY <3>1, <4>1, <4>2
      <4>3. CASE Len(q) >= MaxEvents
        <5>1. Len(r) = MaxEvents
          BY <3>1, <4>3
        <5>2. CASE n < MaxEvents
          BY <4>1, <5>1, <5>2
        <5>3. CASE n >= MaxEvents
          <6>1. MaxEvents \in 1 .. Len(r) /\ MaxEvents >= 1
            BY <5>1, AaveAssumption
          <6>2. \A i \in 1 .. MaxEvents : i \in 1 .. n /\ i \in 1 .. Len(r)
            BY <4>1, <5>1, <5>3
          <6>3. \A i \in 1 .. MaxEvents : r[i].pending
            BY <3>2, <6>2
          <6>4. MaxEvents <= Cardinality(Venues) + 2
            BY <6>1, <6>3 DEF Leading, r
          <6>5. Cardinality(Venues) \in Nat
            BY AaveAssumption, FS_CardinalityType
          <6> QED BY <4>1, <6>4, <6>5
        <5> QED BY <4>1, <5>2, <5>3
      <4> QED BY <4>1, <4>2, <4>3
    <3>4. r[n + 1] = q[n]
      <4>1. r[n + 1] = q[(n + 1) - 1] /\ n \in Nat
        BY <1>1, <3>1, <3>3 DEF Last
      <4> QED BY <4>1
    <3>5. n \in Nat /\ n + 1 \in 1 .. Len(r) /\ n + 1 <= Len(r)
      BY <1>1, <3>3 DEF Last
    <3>6. \A i \in 1 .. (n + 1) - 1 : r[i].pending
      BY <1>3, <3>2, <3>5
    <3>7. Last(r, n + 1)
      BY <1>1, <1>3, <3>4, <3>5, <3>6 DEF Last
    <3> QED BY <1>4, <3>4, <3>7
  <2> QED BY <2>1, <2>3, <2>4
<1>6. CASE Polled /\ UNCHANGED <<calls, cards, controls, url>>
  <2>1. PICK readings : scenario' = applyLiveReadings(scenario, readings)
    BY <1>6 DEF Polled
  <2>2. r = q
    BY <1>0, <2>1 DEF applyLiveReadings, Shape
  <2> QED BY <1>1, <1>4, <2>2
<1>7. ASSUME NEW c, Reasoning(c) PROVE Held
  <2>1. scenario' = setPendingReasoning(scenario, c)
    BY <1>7 DEF Reasoning
  <2>2. /\ Len(r) = Len(q) /\ \A i \in 2 .. Len(q) : r[i] = q[i]
        /\ Len(q) > 0 => r[1] = q[1] \/ (q[1].pending /\ r[1].pending = q[1].pending)
    BY <1>0, <2>1, ReasoningRows
  <2> HIDE DEF q, r
  <2>3. ASSUME NEW i \in 1 .. n PROVE r[i].pending = q[i].pending /\ (~q[i].pending => r[i] = q[i])
    <3>1. Len(q) > 0 /\ (i = 1 \/ i \in 2 .. Len(q))
      BY <1>1 DEF Last
    <3> QED BY <2>2, <3>1
  <2>4. n \in 1 .. n /\ \A i \in 1 .. n - 1 : i \in 1 .. n
    BY <1>1 DEF Last
  <2>5. r[n] = q[n]
    BY <1>1, <2>3, <2>4 DEF Last
  <2>6. \A i \in 1 .. n - 1 : r[i].pending
    BY <1>1, <2>3, <2>4 DEF Last
  <2>7. Last(r, n)
    BY <1>1, <1>3, <2>2, <2>5, <2>6 DEF Last
  <2> QED BY <1>4, <2>5, <2>7
<1>8. ASSUME NEW c, Settled(c) PROVE Held
  <2>1. PICK output : scenario' = applyAgentEvent(scenario, Verdict(c, output))
    BY <1>8 DEF Settled
  <2>2. c \in Running /\ Done(c) /\ c \in DOMAIN calls
    BY <1>8 DEF Settled, Running
  <2>3. /\ Shape(scenario') /\ Len(r) \in Nat \ {0}
        /\ r[1] = Verdict(c, output) /\ Head(r) = r[1]
    BY <1>0, <2>1, AnswerRows
  <2>4. ~r[1].pending /\ r[1].call = c
    BY <2>3 DEF Verdict
  <2>5. ~calls'[c].running
    <3>1. Running' = Running \ {c} /\ DOMAIN calls' = DOMAIN calls
      BY <1>0, <2>2, RunEnds
    <3> QED BY <2>2, <3>1 DEF Running
  <2> DEFINE t == [scenario' EXCEPT !.events = <<Head(r)>>]
  <2>6. t.events = <<r[1]>>
    BY <2>3 DEF Shape
  <2>7. Last(t.events, 1) /\ t.events[1] = r[1]
    BY <2>4, <2>6 DEF Last
  <2>8. Last(r, 1)
    BY <1>3, <2>3, <2>4 DEF Last
  <2>9. deriveFeed(scenario') = FeedOf(r[1])
    BY <2>8, FeedIsLast
  <2>10. deriveFeed(t) = FeedOf(r[1])
    <3> HIDE DEF t
    <3>1. deriveFeed(t) = FeedOf(t.events[1])
      BY <2>7, FeedIsLast
    <3> QED BY <2>7, <3>1
  <2> QED BY <2>2, <2>3, <2>4, <2>5, <2>9, <2>10 DEF Held
<1>9. CASE UNCHANGED vars
  BY <1>9 DEF vars, Held
<1> QED BY <1>0, <1>5, <1>6, <1>7, <1>8, <1>9, StepKinds

(* The feed keeps its verdict until an answer lands, provided the list can *)
(* hold a placeholder for every control and a verdict below them: the page *)
(* has three venues and room for twenty.                                   *)
THEOREM FeedKeepsItsVerdict ==
  ASSUME MaxEvents > Cardinality(Venues) + 2
  PROVE  Spec => FeedHoldsWhileReasoning
<1> DEFINE I == PageInv /\ OriginInv /\ LeadInv
           Short == \A n \in 1 .. Len(scenario.events) : Leading(n) => n <= Cardinality(Venues) + 2
<1>1. Init => I
  <2> SUFFICES ASSUME Init PROVE OriginInv /\ LeadInv
    BY PageInvInit
  <2>1. scenario.events = <<>> /\ calls = <<>>
    BY DEF Init, initialScenario
  <2>2. Len(scenario.events) = 0 /\ Running = {}
    BY <2>1 DEF Running
  <2> QED BY <2>2 DEF OriginInv, LeadInv
<1>2. I /\ [Next]_vars => I'
  BY PageInvNext, OriginNext, LeadNext
<1>3. I => Short
  BY LeadIsShort
<1>4. I' => Short'
  BY <1>3, PTL
<1>5. I /\ I' /\ Short' /\ [Next]_vars => [Committed(scenario) # {} => Held]_vars
  BY FeedHeld
<1>6. FeedHoldsWhileReasoning <=> [][Committed(scenario) # {} => Held]_vars
  BY DEF FeedHoldsWhileReasoning, Held
<1> HIDE DEF I, Short
<1> QED BY <1>1, <1>2, <1>4, <1>5, <1>6, PTL DEF Spec
=============
