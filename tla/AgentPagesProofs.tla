-------------------------- MODULE AgentPagesProofs --------------------------
(***************************************************************************)
(* What the agents' pages show and what they can make the contracts hold,  *)
(* for any number of requests, days, blocks and presets.  First the market *)
(* contract: a resolution is final and none comes before its deadline is   *)
(* over.  Then what every row, badge and run on a page stands for; that    *)
(* rests on AgentInv, which ties a page to the events still on their way   *)
(* to it, those to the verdict their handler holds, and that verdict to    *)
(* what is, or will be, on chain.                                          *)
(***************************************************************************)
EXTENDS AgentPages, SequenceTheorems, TLAPS

Agents == {"terra", "bridge", "governance", "aviation", "fund", "adjudicate"}

CallFields == {"agent", "key", "stage", "verdict", "nonce", "wire", "reader", "final"}

ViewFields == {"selectedId", "run", "searchSteps", "typed", "ctrl"}

-----------------------------------------------------------------------------
(* The contract's storage.                                                 *)

BookTyped(b) == DOMAIN b = {"terra", "verdicts", "touched"}

FiledUnder(b, agent, key) == {f \in b.verdicts : f.agent = agent /\ f.key = key}

(* The latest verdict of a key depends on what is filed under it alone.    *)
LEMMA SameFiled ==
  ASSUME NEW b, NEW c, NEW agent, agent # "terra", NEW key,
         FiledUnder(c, agent, key) = FiledUnder(b, agent, key)
  PROVE  Latest(c, agent, key) = Latest(b, agent, key)
<1> DEFINE pick(filed) == IF filed = {} THEN Uninitialized ELSE (CHOOSE f \in filed : TRUE).verdict
<1>1. Latest(c, agent, key) = pick(FiledUnder(c, agent, key))
  BY DEF Latest, FiledUnder
<1>2. Latest(b, agent, key) = pick(FiledUnder(b, agent, key))
  BY DEF Latest, FiledUnder
<1> HIDE DEF pick
<1> QED BY <1>1, <1>2

LEMMA FiledLast ==
  ASSUME NEW b, BookTyped(b), NEW agent, agent # "terra", NEW key, NEW verdict
  PROVE  /\ BookTyped(Overwrite(b, agent, key, verdict))
         /\ Latest(Overwrite(b, agent, key, verdict), agent, key) = verdict
<1> DEFINE new == [agent |-> agent, key |-> key, verdict |-> verdict]
           c == Overwrite(b, agent, key, verdict)
           filed == {f \in c.verdicts : f.agent = agent /\ f.key = key}
<1>1. /\ BookTyped(c)
      /\ c.verdicts = {f \in b.verdicts : f.agent # agent \/ f.key # key} \cup {new}
  BY DEF Overwrite, BookTyped
<1>2. filed = {new}
  BY <1>1
<1>3. (CHOOSE f \in filed : TRUE) = new
  BY <1>2
<1>4. Latest(c, agent, key) = (CHOOSE f \in filed : TRUE).verdict
  BY <1>2 DEF Latest
<1> QED BY <1>1, <1>3, <1>4

(* What is filed under one key leaves what is filed under another.         *)
LEMMA OthersStay ==
  ASSUME NEW b, BookTyped(b), NEW agent, NEW key, NEW verdict,
         NEW other, other # "terra", NEW market, other # agent \/ market # key
  PROVE  Latest(Overwrite(b, agent, key, verdict), other, market) = Latest(b, other, market)
<1> DEFINE new == [agent |-> agent, key |-> key, verdict |-> verdict]
           c == Overwrite(b, agent, key, verdict)
<1>1. c.verdicts = {f \in b.verdicts : f.agent # agent \/ f.key # key} \cup {new}
  BY DEF Overwrite, BookTyped
<1>2. \A f \in b.verdicts : f.agent = other /\ f.key = market => f.agent # agent \/ f.key # key
  OBVIOUS
<1>3. ~(new.agent = other /\ new.key = market)
  OBVIOUS
<1> HIDE DEF new
<1>4. FiledUnder(c, other, market) = FiledUnder(b, other, market)
  BY <1>1, <1>2, <1>3 DEF FiledUnder
<1> QED BY <1>4, SameFiled

LEMMA TerraApart ==
  ASSUME NEW b, BookTyped(b), NEW key, NEW verdict, NEW market
  PROVE  /\ BookTyped(TerraReport(b, key, verdict))
         /\ Latest(TerraReport(b, key, verdict), "adjudicate", market)
              = Latest(b, "adjudicate", market)
<1>1. /\ TerraReport(b, key, verdict).verdicts = b.verdicts
      /\ BookTyped(TerraReport(b, key, verdict))
  BY DEF TerraReport, BookTyped
<1> QED BY <1>1 DEF Latest

-----------------------------------------------------------------------------
(* Requests.  Once made, a request keeps its agent and its key; serving it *)
(* and reading it never opens a reader that was closed.                    *)

Requests(q) ==
  /\ \E S : q \in Seq(S)
  /\ \A i \in 1 .. Len(q) : /\ DOMAIN q[i] = CallFields /\ q[i].agent \in Agents
                            /\ q[i].stage = "prepared" => q[i].agent # "fund"

Kept(p, q) ==
  /\ Requests(q) /\ Len(q) = Len(p)
  /\ \A i \in 1 .. Len(p) : /\ q[i].agent = p[i].agent /\ q[i].key = p[i].key
                            /\ q[i].reader = "open" => p[i].reader = "open"

LEMMA Changed ==
  ASSUME NEW p, Requests(p), NEW i \in 1 .. Len(p), NEW c, DOMAIN c = CallFields,
         c.agent = p[i].agent, c.key = p[i].key, c.reader = "open" => p[i].reader = "open",
         c.stage = "prepared" => c.agent # "fund"
  PROVE  Kept(p, [p EXCEPT ![i] = c])
<1> DEFINE q == [p EXCEPT ![i] = c]
<1>1. PICK S : p \in Seq(S)
  BY DEF Requests
<1>2. p \in Seq(S \cup {c}) /\ c \in S \cup {c}
  BY <1>1, SeqMonotonic
<1>3. /\ q \in Seq(S \cup {c}) /\ Len(q) = Len(p)
      /\ \A j \in 1 .. Len(p) : q[j] = IF j = i THEN c ELSE p[j]
  BY <1>2, ExceptSeq
<1>4. /\ \E T : q \in Seq(T)
      /\ Len(q) = Len(p)
      /\ \A j \in 1 .. Len(p) : q[j] = IF j = i THEN c ELSE p[j]
  BY <1>3
<1> HIDE DEF q
<1>5. Kept(p, q)
  BY <1>4 DEF Requests, Kept
<1> QED BY <1>5 DEF q

LEMMA Added ==
  ASSUME NEW p, Requests(p), NEW c, DOMAIN c = CallFields, c.agent \in Agents,
         c.stage # "prepared"
  PROVE  LET q == Append(p, c)
         IN  /\ Requests(q) /\ Len(p) \in Nat /\ Len(q) = Len(p) + 1 /\ q[Len(p) + 1] = c
             /\ \A i \in 1 .. Len(p) : q[i] = p[i]
<1> DEFINE q == Append(p, c)
<1>1. PICK S : p \in Seq(S)
  BY DEF Requests
<1>2. p \in Seq(S \cup {c}) /\ c \in S \cup {c} /\ Len(p) \in Nat
  BY <1>1, SeqMonotonic, LenProperties
<1>3. /\ q \in Seq(S \cup {c}) /\ Len(q) = Len(p) + 1 /\ q[Len(p) + 1] = c
      /\ \A i \in 1 .. Len(p) : q[i] = p[i]
  BY <1>2, AppendProperties
<1>4. \A i \in 1 .. Len(p) + 1 : i \in 1 .. Len(p) \/ i = Len(p) + 1
  BY <1>2
<1> HIDE DEF q
<1>5. Requests(q)
  BY <1>3, <1>4 DEF Requests
<1> QED BY <1>2, <1>3, <1>5 DEF q

LEMMA KeptSame ==
  ASSUME NEW p, Requests(p) PROVE Kept(p, p)
BY DEF Kept

(* What the handler and the reader do to a request.                        *)
LEMMA Served ==
  ASSUME Requests(calls), NEW i \in 1 .. Len(calls), NEW sent
  PROVE  /\ Kept(calls, Close(i, sent))
         /\ \A stage : stage # "prepared" => Kept(calls, Step(i, stage, sent))
         /\ \A reader : reader # "open" => Kept(calls, Left(i, reader))
<1>1. DOMAIN calls[i] = CallFields
  BY DEF Requests
<1>2. Kept(calls, Close(i, sent))
  <2> DEFINE c == [calls[i] EXCEPT !.stage = "closed", !.verdict = None, !.nonce = None,
                      !.wire = IF calls[i].reader = "open" THEN @ \o sent ELSE <<>>]
  <2>1. /\ DOMAIN c = CallFields /\ c.agent = calls[i].agent /\ c.key = calls[i].key
        /\ c.reader = calls[i].reader /\ c.stage # "prepared"
    BY <1>1 DEF CallFields
  <2>2. Close(i, sent) = [calls EXCEPT ![i] = c]
    BY <1>1 DEF Close, CallFields, Requests
  <2> HIDE DEF c
  <2>3. Kept(calls, [calls EXCEPT ![i] = c])
    BY <2>1, Changed
  <2> QED BY <2>2, <2>3
<1>3. ASSUME NEW stage, stage # "prepared" PROVE Kept(calls, Step(i, stage, sent))
  <2> DEFINE c == [calls[i] EXCEPT !.stage = stage,
                      !.wire = IF calls[i].reader = "open" THEN @ \o sent ELSE <<>>]
  <2>1. /\ DOMAIN c = CallFields /\ c.agent = calls[i].agent /\ c.key = calls[i].key
        /\ c.reader = calls[i].reader /\ c.stage # "prepared"
    BY <1>1, <1>3 DEF CallFields
  <2>2. Step(i, stage, sent) = [calls EXCEPT ![i] = c]
    BY <1>1 DEF Step, CallFields, Requests
  <2> HIDE DEF c
  <2>3. Kept(calls, [calls EXCEPT ![i] = c])
    BY <2>1, Changed
  <2> QED BY <2>2, <2>3
<1>4. ASSUME NEW reader, reader # "open" PROVE Kept(calls, Left(i, reader))
  <2> DEFINE c == [calls[i] EXCEPT !.reader = reader, !.wire = <<>>, !.final = None]
  <2>1. /\ DOMAIN c = CallFields /\ c.agent = calls[i].agent /\ c.key = calls[i].key
        /\ c.reader = reader /\ c.stage = calls[i].stage
    BY <1>1 DEF CallFields
  <2>2. Left(i, reader) = [calls EXCEPT ![i] = c]
    BY <1>1 DEF Left, CallFields, Requests
  <2>3. c.stage = "prepared" => c.agent # "fund"
    BY <2>1 DEF Requests
  <2> HIDE DEF c
  <2>4. Kept(calls, [calls EXCEPT ![i] = c])
    BY <1>4, <2>1, <2>3, Changed
  <2> QED BY <2>2, <2>4
<1> QED BY <1>2, <1>3, <1>4

LEMMA ServeKeeps ==
  ASSUME Requests(calls), NEW i \in 1 .. Len(calls), Serve(i) \/ Kill(i)
  PROVE  /\ Kept(calls, calls') /\ UNCHANGED <<keys, book, today, mined>>
         /\ pool' = pool \/ (pool' = pool \cup {i} /\ calls[i].stage = "prepared")
<1>0. DOMAIN calls[i] = CallFields /\ "received" # "prepared"
  BY DEF Requests
<1>1. CASE Receive(i)
  BY <1>1, Served DEF Receive
<1>2. CASE Answer(i)
  <2>1. PICK verdict : calls' = IF verdict = Throws THEN Close(i, <<Event("error", i)>>)
                                ELSE [Step(i, "answered", <<Event("final", verdict)>>)
                                        EXCEPT ![i].verdict = verdict]
    BY <1>2 DEF Answer
  <2>2. Kept(calls, calls')
    <3>1. CASE verdict = Throws
      BY <2>1, <3>1, Served
    <3>2. CASE verdict # Throws
      <4> DEFINE sent == <<Event("final", verdict)>>
                 c == [calls[i] EXCEPT !.stage = "answered",
                         !.wire = IF calls[i].reader = "open" THEN @ \o sent ELSE <<>>,
                         !.verdict = verdict]
      <4>1. /\ DOMAIN c = CallFields /\ c.agent = calls[i].agent /\ c.key = calls[i].key
            /\ c.reader = calls[i].reader /\ c.stage # "prepared"
        BY <1>0 DEF CallFields
      <4>2. calls' = [calls EXCEPT ![i] = c]
        BY <1>0, <2>1, <3>2 DEF Step, CallFields, Requests
      <4> HIDE DEF c
      <4>3. Kept(calls, [calls EXCEPT ![i] = c])
        BY <4>1, Changed
      <4> QED BY <4>2, <4>3
    <3> QED BY <3>1, <3>2
  <2> QED BY <1>2, <2>2 DEF Answer
<1>3. CASE Skip(i)
  BY <1>3, Served DEF Skip
<1>4. CASE Prepare(i)
  <2>1. CASE WouldRevert(calls[i])
    BY <1>4, <2>1, Served DEF Prepare
  <2>2. CASE ~WouldRevert(calls[i])
    <3> DEFINE c == [calls[i] EXCEPT !.stage = "prepared", !.nonce = NextNonce]
    <3>1. /\ DOMAIN c = CallFields /\ c.agent = calls[i].agent /\ c.key = calls[i].key
          /\ c.reader = calls[i].reader
      BY <1>0 DEF CallFields
    <3>2. calls' = [calls EXCEPT ![i] = c]
      BY <1>0, <1>4, <2>2 DEF Prepare, CallFields, Requests
    <3>3. c.stage = "prepared" => c.agent # "fund"
      BY <1>4, <3>1 DEF Prepare
    <3> HIDE DEF c
    <3>4. Kept(calls, [calls EXCEPT ![i] = c])
      BY <3>1, <3>3, Changed
    <3> QED BY <1>4, <3>2, <3>4 DEF Prepare
  <2> QED BY <2>1, <2>2
<1>5. CASE Send(i)
  BY <1>5, Served DEF Send
<1>6. CASE SendUnanswered(i)
  BY <1>6, Served DEF SendUnanswered
<1>7. CASE Kill(i)
  BY <1>7, Served DEF Kill
<1> QED BY <1>1, <1>2, <1>3, <1>4, <1>5, <1>6, <1>7 DEF Serve

LEMMA ReadKeeps ==
  ASSUME Requests(calls), NEW i \in 1 .. Len(calls), ReadEvent(i) \/ EndOfStream(i) \/ Disconnect(i)
  PROVE  Kept(calls, calls') /\ UNCHANGED <<page, keys, book, today, pool, mined>>
<1>0. DOMAIN calls[i] = CallFields
  BY DEF Requests
<1>1. CASE ReadEvent(i)
  <2> DEFINE e == Head(calls[i].wire)
             taken == [calls[i] EXCEPT !.wire = Tail(@)]
             c == IF e.type = "final" THEN [taken EXCEPT !.final = e.value] ELSE taken
  <2>1. /\ DOMAIN c = CallFields /\ c.agent = calls[i].agent /\ c.key = calls[i].key
        /\ c.reader = calls[i].reader /\ c.stage = calls[i].stage
    BY <1>0 DEF CallFields
  <2>2. calls' = [calls EXCEPT ![i] = c]
    BY <1>0, <1>1 DEF ReadEvent, CallFields, Requests
  <2>3. c.stage = "prepared" => c.agent # "fund"
    BY <2>1 DEF Requests
  <2> HIDE DEF c
  <2>4. Kept(calls, [calls EXCEPT ![i] = c])
    BY <2>1, <2>3, Changed
  <2> QED BY <1>1, <2>2, <2>4 DEF ReadEvent
<1>2. CASE EndOfStream(i)
  BY <1>2, Served DEF EndOfStream
<1>3. CASE Disconnect(i)
  BY <1>3, Served DEF Disconnect
<1> QED BY <1>1, <1>2, <1>3

-----------------------------------------------------------------------------
(* The invariant.  Nobody asks about a market that is not over: on the     *)
(* adjudicator's page a run that is not idle, and a reader that is open,   *)
(* are those of the market selected, and its first run came from the       *)
(* button that waits for the deadline.                                     *)

Over(day, market) == market \in DOMAIN MARKETS /\ day > MARKETS[market].deadline

Signed ==
  /\ BookTyped(book)
  /\ Requests(calls)
  /\ \A i \in pool : i \in 1 .. Len(calls) /\ calls[i].agent # "fund"

Timely ==
  /\ today \in Nat
  /\ \A i \in 1 .. Len(calls) : calls[i].agent = "adjudicate" => Over(today, calls[i].key)
  /\ NoForecastOnChain

Attended ==
  page = "adjudicate" =>
    /\ DOMAIN view = ViewFields
    /\ view.selectedId \in DOMAIN MARKETS
    /\ view.run.kind # "idle" => Over(today, view.selectedId)
    /\ view.ctrl = None \/ view.ctrl \in 1 .. Len(calls)
    /\ \A i \in 1 .. Len(calls) :
         /\ calls[i].agent = "adjudicate"
         /\ calls[i].reader = "open" => i = view.ctrl /\ calls[i].key = view.selectedId

MarketInv == Signed /\ Timely /\ Attended

LEMMA MarketInit == Init => MarketInv
<1> SUFFICES ASSUME Init PROVE MarketInv
  OBVIOUS
<1>1. calls = <<>> /\ pool = {} /\ book = InitBook /\ today = 1
  BY DEF Init, ServerInit
<1>2. \A market : ~Resolved(book, market)
  BY <1>1 DEF InitBook, Resolved, Latest, Uninitialized, Verdict
<1>3. Signed
  BY <1>1 DEF Signed, BookTyped, InitBook, Requests
<1>4. Timely
  BY <1>1, <1>2 DEF Timely, NoForecastOnChain
<1>5. Attended
  <2> SUFFICES ASSUME page = "adjudicate" PROVE Attended
    BY DEF Attended
  <2>1. PICK market \in DOMAIN MARKETS : view = AdjudicatePage(market)
    BY DEF Init
  <2> QED BY <1>1, <2>1 DEF Attended, AdjudicatePage, ViewFields
<1> QED BY <1>3, <1>4, <1>5 DEF MarketInv

(* Requests that are only served or read keep what was said of them.       *)
LEMMA KeptTimely ==
  ASSUME MarketInv, Kept(calls, calls'), UNCHANGED <<book, today>>
  PROVE  Requests(calls') /\ Timely'
<1>1. Len(calls') = Len(calls)
  BY DEF Kept
<1>2. \A i \in 1 .. Len(calls) : calls'[i].agent = calls[i].agent /\ calls'[i].key = calls[i].key
  BY DEF Kept
<1>3. \A i \in 1 .. Len(calls') : calls'[i].agent = "adjudicate" => Over(today', calls'[i].key)
  BY <1>1, <1>2 DEF MarketInv, Timely, Over
<1>4. NoForecastOnChain'
  BY DEF MarketInv, Timely, NoForecastOnChain, Resolved
<1> QED BY <1>3, <1>4 DEF MarketInv, Timely, Kept

LEMMA KeptSigned ==
  ASSUME MarketInv, Kept(calls, calls'), UNCHANGED book,
         \A i \in pool' : i \in 1 .. Len(calls) /\ calls[i].agent # "fund"
  PROVE  Signed'
BY DEF MarketInv, Signed, Kept

LEMMA ServePreserves ==
  ASSUME MarketInv, NEW i \in 1 .. Len(calls), Serve(i) \/ Kill(i), UNCHANGED <<page, view>>
  PROVE  MarketInv'
<1>1. /\ Kept(calls, calls') /\ UNCHANGED <<book, today>>
      /\ pool' = pool \/ (pool' = pool \cup {i} /\ calls[i].stage = "prepared")
  BY ServeKeeps DEF MarketInv, Signed
<1>2. calls[i].stage = "prepared" => calls[i].agent # "fund"
  BY DEF MarketInv, Signed, Requests
<1>3. \A j \in pool' : j \in 1 .. Len(calls) /\ calls[j].agent # "fund"
  BY <1>1, <1>2 DEF MarketInv, Signed
<1>4. Attended'
  BY <1>1 DEF MarketInv, Attended, Kept, Over
<1> QED BY <1>1, <1>3, <1>4, KeptTimely, KeptSigned DEF MarketInv

(* What the reader does to the adjudicator's page: the fields stay, the    *)
(* market stays selected, and the controller is this run's or gone.        *)
LEMMA ReadView ==
  ASSUME NEW i, ReadEvent(i) \/ EndOfStream(i) \/ Disconnect(i), page = "adjudicate",
         DOMAIN view = ViewFields
  PROVE  /\ DOMAIN view' = ViewFields /\ view'.selectedId = view.selectedId
         /\ \/ view'.ctrl = view.ctrl
            \/ view'.ctrl = None /\ (EndOfStream(i) \/ Disconnect(i))
<1>1. CASE ReadEvent(i)
  <2>1. PICK e : view' = AdjudicateEvent(e)
    BY <1>1 DEF ReadEvent
  <2>2. \/ view' = [view EXCEPT !.searchSteps = Append(@, [call |-> e.value, cited |-> FALSE])]
        \/ view' = [view EXCEPT !.searchSteps[Len(view.searchSteps)].cited = TRUE]
        \/ view' = [view EXCEPT !.run = [kind |-> "streaming", reasoning |-> e.value]]
        \/ view' = [view EXCEPT !.run = [kind |-> "done", output |-> e.value, commit |-> None,
                                         commitError |-> FALSE],
                                !.typed = FALSE]
        \/ view' = [view EXCEPT !.run.commit = e.value]
        \/ view' = [view EXCEPT !.run.commitError = TRUE]
        \/ view' = view
    BY <2>1, Zenon DEF AdjudicateEvent
  <2> QED BY <2>2 DEF ViewFields
<1>2. CASE EndOfStream(i)
  BY <1>2 DEF EndOfStream, ViewFields
<1>3. CASE Disconnect(i)
  BY <1>3 DEF Disconnect, ViewFields
<1> QED BY <1>1, <1>2, <1>3

LEMMA ReadPreserves ==
  ASSUME MarketInv, NEW i \in 1 .. Len(calls), ReadEvent(i) \/ EndOfStream(i) \/ Disconnect(i)
  PROVE  MarketInv'
<1>1. Kept(calls, calls') /\ UNCHANGED <<page, book, today, pool>>
  BY ReadKeeps DEF MarketInv, Signed
<1>2. \A j \in pool' : j \in 1 .. Len(calls) /\ calls[j].agent # "fund"
  BY <1>1 DEF MarketInv, Signed
<1>3. Attended'
  <2> SUFFICES ASSUME page = "adjudicate" PROVE Attended'
    BY <1>1 DEF Attended
  <2>1. calls[i].reader = "open"
    BY DEF ReadEvent, EndOfStream, Disconnect
  <2>2. i = view.ctrl /\ Over(today, view.selectedId) /\ DOMAIN view = ViewFields
    BY <2>1 DEF MarketInv, Attended, Timely
  <2>3. /\ DOMAIN view' = ViewFields /\ view'.selectedId = view.selectedId
        /\ \/ view'.ctrl = view.ctrl
           \/ view'.ctrl = None /\ (EndOfStream(i) \/ Disconnect(i))
    BY <2>2, ReadView
  <2>4. EndOfStream(i) \/ Disconnect(i) => calls'[i].reader # "open"
    <3>1. DOMAIN calls[i] = CallFields /\ i \in DOMAIN calls
      BY LenProperties DEF MarketInv, Signed, Requests
    <3>2. \A reader : Left(i, reader)[i].reader = reader
      BY <3>1 DEF Left, CallFields
    <3> QED BY <3>2 DEF EndOfStream, Disconnect
  <2>5. ASSUME NEW j \in 1 .. Len(calls'), calls'[j].reader = "open"
        PROVE  j = view'.ctrl /\ calls'[j].key = view'.selectedId
    <3>1. j \in 1 .. Len(calls) /\ calls[j].reader = "open" /\ calls'[j].key = calls[j].key
      BY <1>1, <2>5 DEF Kept
    <3>2. j = view.ctrl /\ calls[j].key = view.selectedId
      BY <3>1 DEF MarketInv, Attended
    <3> QED BY <2>2, <2>3, <2>4, <2>5, <3>1, <3>2
  <2>6. \A j \in 1 .. Len(calls') : calls'[j].agent = "adjudicate"
    BY <1>1 DEF MarketInv, Attended, Kept
  <2>7. Over(today', view'.selectedId)
    BY <1>1, <2>2, <2>3 DEF Over
  <2>8. view'.selectedId \in DOMAIN MARKETS /\ (view'.ctrl = None \/ view'.ctrl \in 1 .. Len(calls'))
    BY <1>1, <2>2, <2>3 DEF Over, Kept
  <2> QED BY <2>3, <2>5, <2>6, <2>7, <2>8 DEF Attended
<1> QED BY <1>1, <1>2, <1>3, KeptTimely, KeptSigned DEF MarketInv

-----------------------------------------------------------------------------
(* The visitor.  On the other pages nobody asks about a market.            *)
PageActions ==
  \/ TerraAction \/ BridgeAction \/ GovernanceAction \/ AviationAction \/ FundAction

Loads ==
  \/ TerraPreset \/ BridgePreset \/ GovernancePreset \/ AviationPreset \/ FundPreset
  \/ TerraReset \/ BridgeReset \/ GovernanceReset \/ AviationReset \/ FundReset

LEMMA Asked ==
  ASSUME PageActions
  PROVE  /\ page # "adjudicate" /\ page' = page /\ UNCHANGED <<book, pool, today>>
         /\ \E c : /\ calls' = Append(calls, c) /\ DOMAIN c = CallFields
                   /\ c.agent \in Agents \ {"adjudicate"} /\ c.stage # "prepared"
<1> DEFINE plain(c) == /\ DOMAIN c = CallFields
                       /\ c.agent \in Agents \ {"adjudicate"} /\ c.stage # "prepared"
<1>1. \A agent \in Agents \ {"adjudicate"} : \A key : plain(Call(agent, key))
  BY DEF Call, CallFields, Agents
<1> HIDE DEF plain
<1>2. CASE TerraAction
  <2>1. PICK action : Request(terraDecide(action)) /\ page' = page
    BY <1>2 DEF TerraAction, Submitted
  <2> QED BY <1>1, <1>2, <2>1
          DEF TerraAction, MintRedeemForm, Request, terraDecide, Agents, plain
<1>3. CASE BridgeAction
  <2>1. /\ page = "bridge" /\ page' = page
        /\ Request(bridgeDecide(scenario.subject, 5))
    BY <1>3 DEF BridgeAction, WithdrawForm, Submitted
  <2> QED BY <1>1, <2>1 DEF Request, bridgeDecide, Agents, plain
<1>4. CASE GovernanceAction
  <2>1. /\ page = "governance" /\ page' = page
        /\ Request(governanceReview(scenario.subject))
    BY <1>4 DEF GovernanceAction, ProposalButton, Submitted
  <2> QED BY <1>1, <2>1 DEF Request, governanceReview, Agents, plain
<1>5. CASE AviationAction
  <2>1. /\ page = "aviation" /\ page' = page
        /\ Request(aviationReview(scenario.subject))
    BY <1>5 DEF AviationAction, ChangeButton, Submitted
  <2> QED BY <1>1, <2>1 DEF Request, aviationReview, Agents, plain
<1>6. CASE FundAction
  <2>1. page = "fund" /\ page' = page /\ Request(fundTick)
    BY <1>6 DEF FundAction, TickButton, Submitted
  <2> QED BY <1>1, <2>1 DEF Request, fundTick, Agents, plain
<1> QED BY <1>2, <1>3, <1>4, <1>5, <1>6 DEF PageActions

LEMMA AskPreserves == MarketInv /\ PageActions => MarketInv'
<1> SUFFICES ASSUME MarketInv, PageActions PROVE MarketInv'
  OBVIOUS
<1>1. /\ page # "adjudicate" /\ page' = page /\ UNCHANGED <<book, pool, today>>
      /\ \E c : /\ calls' = Append(calls, c) /\ DOMAIN c = CallFields
                /\ c.agent \in Agents \ {"adjudicate"} /\ c.stage # "prepared"
  BY Asked
<1>2. PICK c : /\ calls' = Append(calls, c) /\ DOMAIN c = CallFields
               /\ c.agent \in Agents \ {"adjudicate"} /\ c.stage # "prepared"
  BY <1>1
<1>3. /\ Requests(calls') /\ Len(calls) \in Nat /\ Len(calls') = Len(calls) + 1
      /\ calls'[Len(calls) + 1] = c
      /\ \A i \in 1 .. Len(calls) : calls'[i] = calls[i]
  BY <1>2, Added DEF MarketInv, Signed
<1>4. \A i \in 1 .. Len(calls') : i \in 1 .. Len(calls) \/ i = Len(calls) + 1
  BY <1>3
<1>5. Signed'
  BY <1>1, <1>3 DEF MarketInv, Signed
<1>6. NoForecastOnChain'
  BY <1>1 DEF MarketInv, Timely, NoForecastOnChain, Resolved
<1>7. \A i \in 1 .. Len(calls') : calls'[i].agent = "adjudicate" => Over(today', calls'[i].key)
  BY <1>1, <1>2, <1>3, <1>4 DEF MarketInv, Timely
<1> QED BY <1>1, <1>5, <1>6, <1>7 DEF MarketInv, Timely, Attended

LEMMA LoadPreserves == MarketInv /\ Loads => MarketInv'
<1> SUFFICES ASSUME MarketInv, Loads PROVE MarketInv'
  OBVIOUS
<1>1. page # "adjudicate" /\ \E loaded, key : Loaded(loaded, key)
  BY DEF Loads, TerraPreset, BridgePreset, GovernancePreset, AviationPreset, FundPreset,
         TerraReset, BridgeReset, GovernanceReset, AviationReset, FundReset,
         TerraScenarioControls, BridgeScenarioControls, GovernanceScenarioControls,
         AviationScenarioControls, FundScenarioControls
<1>2. page' # "adjudicate" /\ UNCHANGED <<calls, pool, book, today>>
  BY <1>1 DEF Loaded, serverVars
<1> QED BY <1>2 DEF MarketInv, Signed, Timely, Attended, NoForecastOnChain, Resolved

(* On the adjudicator's page whoever leaves a run closes its reader.       *)
LEMMA Aborts ==
  ASSUME MarketInv, page = "adjudicate"
  PROVE  /\ Kept(calls, Aborted)
         /\ \A i \in 1 .. Len(calls) : Aborted[i].reader # "open"
<1>1. Requests(calls) /\ Attended
  BY DEF MarketInv, Signed
<1>2. CASE view.ctrl = None
  <2>1. \A i \in 1 .. Len(calls) : i # None
    BY <1>1, LenProperties, ServerAssumption DEF Requests
  <2> QED BY <1>1, <1>2, <2>1, KeptSame DEF Aborted, Attended
<1>3. CASE view.ctrl # None
  <2>1. view.ctrl \in 1 .. Len(calls) /\ Aborted = Left(view.ctrl, "gone")
    BY <1>1, <1>3 DEF Attended, Aborted
  <2>2. Kept(calls, Aborted)
    BY <1>1, <2>1, Served
  <2>3. DOMAIN calls = 1 .. Len(calls) /\ DOMAIN calls[view.ctrl] = CallFields
    BY <1>1, <2>1, LenProperties DEF Requests
  <2>4. Aborted[view.ctrl].reader = "gone"
    BY <2>1, <2>3 DEF Left, CallFields
  <2>5. \A i \in 1 .. Len(calls) : Aborted[i].reader = "open" => calls[i].reader = "open"
    BY <2>2 DEF Kept
  <2> QED BY <1>1, <2>2, <2>4, <2>5 DEF Attended
<1> QED BY <1>2, <1>3

LEMMA SelectPreserves == MarketInv /\ SelectMarket => MarketInv'
<1> SUFFICES ASSUME MarketInv, SelectMarket PROVE MarketInv'
  OBVIOUS
<1>1. page = "adjudicate" /\ calls' = Aborted /\ UNCHANGED <<page, pool, book, today>>
  BY DEF SelectMarket
<1>2. /\ Kept(calls, calls')
      /\ \A i \in 1 .. Len(calls) : calls'[i].reader # "open"
  BY <1>1, Aborts
<1>3. PICK market \in DOMAIN MARKETS :
        view' = [view EXCEPT !.selectedId = market, !.run = [kind |-> "idle"],
                             !.searchSteps = <<>>, !.ctrl = None]
  BY DEF SelectMarket
<1>4. /\ DOMAIN view' = ViewFields /\ view'.selectedId = market
      /\ view'.run.kind = "idle" /\ view'.ctrl = None
  BY <1>1, <1>3 DEF MarketInv, Attended, ViewFields
<1>5. Attended'
  BY <1>1, <1>2, <1>4 DEF MarketInv, Attended, Kept
<1>6. \A i \in pool' : i \in 1 .. Len(calls) /\ calls[i].agent # "fund"
  BY <1>1 DEF MarketInv, Signed
<1> QED BY <1>1, <1>2, <1>5, <1>6, KeptTimely, KeptSigned DEF MarketInv

(* The run that asks is for a market that is over: the first one by the    *)
(* button's own test, the later ones because an earlier one was made.      *)
LEMMA AdjudicatePreserves == MarketInv /\ Adjudicate => MarketInv'
<1> SUFFICES ASSUME MarketInv, Adjudicate PROVE MarketInv'
  OBVIOUS
<1> DEFINE c == adjudicateMarket(view.selectedId)
<1>1. /\ page = "adjudicate" /\ calls' = Append(Aborted, c)
      /\ UNCHANGED <<page, pool, book, today>>
  BY DEF Adjudicate
<1>2. /\ Kept(calls, Aborted)
      /\ \A i \in 1 .. Len(calls) : Aborted[i].reader # "open"
  BY <1>1, Aborts
<1>3. /\ DOMAIN c = CallFields /\ c.agent = "adjudicate" /\ c.agent \in Agents
      /\ c.stage # "prepared" /\ c.key = view.selectedId
  BY DEF adjudicateMarket, Call, CallFields, Agents
<1> HIDE DEF c
<1>4. Over(today, view.selectedId)
  <2>1. view.selectedId \in DOMAIN MARKETS /\ today \in Nat
        /\ (view.run.kind # "idle" => Over(today, view.selectedId))
    BY <1>1 DEF MarketInv, Attended, Timely
  <2>2. CASE daysUntil(MARKETS[view.selectedId].deadline) <= 0
    <3>1. MARKETS[view.selectedId].deadline \in Nat
      BY <2>1 DEF MARKETS
    <3> QED BY <2>1, <2>2, <3>1 DEF daysUntil, Over
  <2> QED BY <2>1, <2>2 DEF Adjudicate, AdjudicateButton
<1>5. /\ Requests(calls') /\ Len(calls) \in Nat /\ Len(calls') = Len(calls) + 1
      /\ calls'[Len(calls) + 1] = c
      /\ \A i \in 1 .. Len(calls) : calls'[i] = Aborted[i]
  BY <1>1, <1>2, <1>3, Added DEF Kept
<1>6. \A i \in 1 .. Len(calls') : i \in 1 .. Len(calls) \/ i = Len(calls) + 1
  BY <1>5
<1>7. \A i \in 1 .. Len(calls) : /\ calls'[i].agent = calls[i].agent
                                 /\ calls'[i].key = calls[i].key
                                 /\ calls'[i].reader # "open"
  BY <1>2, <1>5 DEF Kept
<1>8. Signed'
  BY <1>1, <1>5, <1>7 DEF MarketInv, Signed
<1>9. Timely'
  <2>1. NoForecastOnChain'
    BY <1>1 DEF MarketInv, Timely, NoForecastOnChain, Resolved
  <2>2. \A i \in 1 .. Len(calls') : calls'[i].agent = "adjudicate" => Over(today', calls'[i].key)
    BY <1>1, <1>3, <1>4, <1>5, <1>6, <1>7 DEF MarketInv, Timely
  <2> QED BY <1>1, <2>1, <2>2 DEF MarketInv, Timely
<1>10. Attended'
  <2>1. /\ DOMAIN view' = ViewFields /\ view'.selectedId = view.selectedId
        /\ view'.ctrl = Len(calls) + 1
    BY <1>1 DEF Adjudicate, MarketInv, Attended, ViewFields
  <2>2. \A i \in 1 .. Len(calls') :
          /\ calls'[i].agent = "adjudicate"
          /\ calls'[i].reader = "open" => i = view'.ctrl /\ calls'[i].key = view'.selectedId
    BY <1>1, <1>3, <1>5, <1>6, <1>7, <2>1 DEF MarketInv, Attended
  <2>3. Over(today', view'.selectedId) /\ view'.ctrl \in 1 .. Len(calls')
    BY <1>1, <1>4, <1>5, <2>1
  <2> QED BY <2>1, <2>2, <2>3 DEF Attended, Over
<1> QED BY <1>8, <1>9, <1>10 DEF MarketInv

LEMMA CatchUpPreserves == MarketInv /\ CatchUp => MarketInv'
<1> SUFFICES ASSUME MarketInv, CatchUp PROVE MarketInv'
  OBVIOUS
<1>1. /\ page = "adjudicate" /\ UNCHANGED <<page, calls, pool, book, today>>
      /\ view' = [view EXCEPT !.typed = TRUE]
  BY DEF CatchUp, serverVars
<1>2. /\ DOMAIN view' = ViewFields /\ view'.selectedId = view.selectedId
      /\ view'.ctrl = view.ctrl /\ view'.run = view.run
  BY <1>1 DEF MarketInv, Attended, ViewFields
<1> QED BY <1>1, <1>2 DEF MarketInv, Signed, Timely, Attended, NoForecastOnChain, Resolved

-----------------------------------------------------------------------------
(* The chain.                                                              *)

(* A mined transaction resolves the market it was made for, if any, and    *)
(* never one that is resolved already.                                     *)
LEMMA MinedBook ==
  ASSUME MarketInv, NEW i \in pool, NEW market
  PROVE  /\ BookTyped(Executed(i))
         /\ \/ Latest(Executed(i), "adjudicate", market) = Latest(book, "adjudicate", market)
            \/ /\ calls[i].agent = "adjudicate" /\ calls[i].key = market
               /\ ~Resolved(book, market)
<1>1. /\ BookTyped(book) /\ i \in 1 .. Len(calls)
      /\ calls[i].agent \in Agents \ {"fund"}
  BY DEF MarketInv, Signed, Requests
<1>2. CASE calls[i].agent = "terra"
  BY <1>1, <1>2, TerraApart DEF Executed, commitTerraVerdict
<1>3. ASSUME NEW agent \in {"bridge", "governance", "aviation"}, NEW key, NEW verdict
      PROVE  /\ BookTyped(Overwrite(book, agent, key, verdict))
             /\ Latest(Overwrite(book, agent, key, verdict), "adjudicate", market)
                  = Latest(book, "adjudicate", market)
  <2>1. agent # "terra" /\ "adjudicate" # "terra" /\ "adjudicate" # agent
    OBVIOUS
  <2> QED BY <1>1, <2>1, FiledLast, OthersStay
<1>4. CASE calls[i].agent = "bridge"
  BY <1>3, <1>4 DEF Executed, commitBridgeVerdict, BridgeReport
<1>5. CASE calls[i].agent = "governance"
  BY <1>3, <1>5 DEF Executed, commitGovernanceVerdict, GovernanceReview
<1>6. CASE calls[i].agent = "aviation"
  BY <1>3, <1>6 DEF Executed, commitAviationVerdict, AviationReview
<1>7. CASE calls[i].agent = "adjudicate"
  <2> DEFINE key == calls[i].key
             verdict == [Filed(i) EXCEPT !.winner = calls[i].verdict.winningOption]
  <2>1. Executed(i) = IF Resolved(book, key) THEN book
                      ELSE Overwrite(book, "adjudicate", key, verdict)
    BY <1>7 DEF Executed, commitAdjudicatorVerdict, Resolve
  <2> HIDE DEF verdict
  <2>2. BookTyped(Overwrite(book, "adjudicate", key, verdict))
    BY <1>1, FiledLast
  <2>3. market # key => Latest(Overwrite(book, "adjudicate", key, verdict), "adjudicate", market)
                          = Latest(book, "adjudicate", market)
    BY <1>1, OthersStay
  <2> QED BY <1>1, <1>7, <2>1, <2>2, <2>3
<1> QED BY <1>1, <1>2, <1>4, <1>5, <1>6, <1>7 DEF Agents

LEMMA MinePreserves == MarketInv /\ Mine /\ UNCHANGED <<page, view>> => MarketInv'
<1> SUFFICES ASSUME MarketInv, Mine, UNCHANGED <<page, view>> PROVE MarketInv'
  OBVIOUS
<1>1. PICK i \in pool : pool' = pool \ {i} /\ book' = Executed(i) /\ UNCHANGED <<calls, today>>
  BY DEF Mine
<1>2. Signed'
  BY <1>1, MinedBook DEF MarketInv, Signed
<1>3. NoForecastOnChain'
  <2> SUFFICES ASSUME NEW market \in DOMAIN MARKETS, Resolved(book', market)
               PROVE  today' > MARKETS[market].deadline
    BY DEF NoForecastOnChain
  <2>1. CASE Latest(book', "adjudicate", market) = Latest(book, "adjudicate", market)
    BY <1>1, <2>1 DEF MarketInv, Timely, NoForecastOnChain, Resolved
  <2>2. CASE calls[i].agent = "adjudicate" /\ calls[i].key = market
    BY <1>1, <2>2 DEF MarketInv, Signed, Timely, Over
  <2> QED BY <1>1, <2>1, <2>2, MinedBook
<1>4. Timely' /\ Attended'
  BY <1>1, <1>3 DEF MarketInv, Timely, Attended
<1> QED BY <1>2, <1>4 DEF MarketInv

LEMMA DeclinedBook ==
  ASSUME MarketInv, NEW declined, Decline(declined), NEW market
  PROVE  /\ BookTyped(book')
         /\ \/ Latest(book', "adjudicate", market) = Latest(book, "adjudicate", market)
            \/ market = declined /\ ~Resolved(book, market) /\ ~Resolved(book', market)
<1> DEFINE verdict == Verdict("REFUSED", 0, 0)
<1>1. ~Resolved(book, declined)
  BY DEF Decline, Resolved, Uninitialized, Verdict
<1>2. book' = Overwrite(book, "adjudicate", declined, verdict)
  BY <1>1 DEF Decline, Refuse
<1>3. BookTyped(book) /\ verdict.decision = "REFUSED"
  BY DEF MarketInv, Signed, Verdict
<1> HIDE DEF verdict
<1>4. BookTyped(book') /\ Latest(book', "adjudicate", declined) = verdict
  BY <1>2, <1>3, FiledLast
<1>5. market # declined => Latest(book', "adjudicate", market) = Latest(book, "adjudicate", market)
  BY <1>2, <1>3, OthersStay
<1> QED BY <1>1, <1>3, <1>4, <1>5 DEF Resolved

LEMMA ChainPreserves ==
  ASSUME MarketInv, UNCHANGED <<page, view>>,
         Midnight \/ \E market \in DOMAIN MARKETS : Decline(market)
  PROVE  MarketInv'
<1>1. CASE Midnight
  <2>1. today' = today + 1 /\ UNCHANGED <<calls, pool, book>>
    BY <1>1 DEF Midnight
  <2>2. today \in Nat /\ \A market \in DOMAIN MARKETS : MARKETS[market].deadline \in Nat
    BY DEF MarketInv, Timely, MARKETS
  <2>3. \A market : Over(today, market) => Over(today', market)
    BY <2>1, <2>2 DEF Over
  <2>4. NoForecastOnChain'
    BY <2>1, <2>2 DEF MarketInv, Timely, NoForecastOnChain, Resolved
  <2> QED BY <2>1, <2>2, <2>3, <2>4 DEF MarketInv, Signed, Timely, Attended
<1>2. ASSUME NEW declined \in DOMAIN MARKETS, Decline(declined) PROVE MarketInv'
  <2>1. UNCHANGED <<calls, pool, today>>
    BY <1>2 DEF Decline
  <2>2. BookTyped(book')
    BY <1>2, DeclinedBook
  <2>3. \A market : Latest(book', "adjudicate", market) = Latest(book, "adjudicate", market)
                    \/ ~Resolved(book', market)
    BY <1>2, DeclinedBook
  <2>4. NoForecastOnChain'
    BY <2>1, <2>3 DEF MarketInv, Timely, NoForecastOnChain, Resolved
  <2> QED BY <2>1, <2>2, <2>4 DEF MarketInv, Signed, Timely, Attended
<1> QED BY <1>1, <1>2

-----------------------------------------------------------------------------
(* The steps of the specification, by what they touch.                     *)
LEMMA StepKinds ==
  [Next]_vars =>
    \/ PageActions \/ Loads \/ SelectMarket \/ Adjudicate \/ CatchUp
    \/ \E i \in 1 .. Len(calls) : ReadEvent(i) \/ EndOfStream(i) \/ Disconnect(i)
    \/ \E i \in 1 .. Len(calls) : (Serve(i) \/ Kill(i)) /\ UNCHANGED <<page, view>>
    \/ Mine /\ UNCHANGED <<page, view>>
    \/ UNCHANGED <<page, view>> /\ (Midnight \/ \E market \in DOMAIN MARKETS : Decline(market))
    \/ UNCHANGED vars
<1>1. Visit => PageActions \/ Loads \/ SelectMarket \/ Adjudicate \/ CatchUp
  BY DEF Visit, PageActions, Loads
<1> QED BY <1>1, Zenon DEF Next, Progress, Calls

LEMMA MarketNext == MarketInv /\ [Next]_vars => MarketInv'
<1> SUFFICES ASSUME MarketInv, [Next]_vars PROVE MarketInv'
  OBVIOUS
<1>1. CASE PageActions
  BY <1>1, AskPreserves
<1>2. CASE Loads
  BY <1>2, LoadPreserves
<1>3. CASE SelectMarket
  BY <1>3, SelectPreserves
<1>4. CASE Adjudicate
  BY <1>4, AdjudicatePreserves
<1>5. CASE CatchUp
  BY <1>5, CatchUpPreserves
<1>6. ASSUME NEW i \in 1 .. Len(calls), ReadEvent(i) \/ EndOfStream(i) \/ Disconnect(i)
      PROVE  MarketInv'
  BY <1>6, ReadPreserves
<1>7. ASSUME NEW i \in 1 .. Len(calls), Serve(i) \/ Kill(i), UNCHANGED <<page, view>>
      PROVE  MarketInv'
  BY <1>7, ServePreserves
<1>8. CASE Mine /\ UNCHANGED <<page, view>>
  BY <1>8, MinePreserves
<1>9. CASE UNCHANGED <<page, view>> /\ (Midnight \/ \E market \in DOMAIN MARKETS : Decline(market))
  BY <1>9, ChainPreserves
<1>10. CASE UNCHANGED vars
  BY <1>10 DEF vars, serverVars, MarketInv, Signed, Timely, Attended, NoForecastOnChain, Resolved
<1> QED BY <1>1, <1>2, <1>3, <1>4, <1>5, <1>6, <1>7, <1>8, <1>9, <1>10, StepKinds

(* Only a mined transaction and the agent's own refusal write a verdict.   *)
LEMMA ResolvedStays ==
  ASSUME MarketInv, [Next]_vars, NEW market, Resolved(book, market)
  PROVE  Latest(book', "adjudicate", market) = Latest(book, "adjudicate", market)
<1>1. CASE Mine
  BY <1>1, MinedBook DEF Mine
<1>2. CASE \E declined \in DOMAIN MARKETS : Decline(declined)
  BY <1>2, DeclinedBook
<1>3. CASE UNCHANGED book
  BY <1>3
<1>4. Mine \/ (\E declined \in DOMAIN MARKETS : Decline(declined)) \/ UNCHANGED book
  <2>1. PageActions => UNCHANGED book
    BY Asked
  <2>2. Loads => UNCHANGED book
    BY DEF Loads, TerraPreset, BridgePreset, GovernancePreset, AviationPreset, FundPreset,
           TerraReset, BridgeReset, GovernanceReset, AviationReset, FundReset, Loaded, serverVars
  <2>3. SelectMarket \/ Adjudicate \/ CatchUp => UNCHANGED book
    BY DEF SelectMarket, Adjudicate, CatchUp, serverVars
  <2>4. ASSUME NEW i \in 1 .. Len(calls), ReadEvent(i) \/ EndOfStream(i) \/ Disconnect(i)
        PROVE  UNCHANGED book
    BY <2>4, ReadKeeps DEF MarketInv, Signed
  <2>5. ASSUME NEW i \in 1 .. Len(calls), Serve(i) \/ Kill(i) PROVE UNCHANGED book
    BY <2>5, ServeKeeps DEF MarketInv, Signed
  <2>6. Midnight \/ UNCHANGED vars => UNCHANGED book
    BY DEF Midnight, vars, serverVars
  <2> QED BY <2>1, <2>2, <2>3, <2>4, <2>5, <2>6, StepKinds
<1> QED BY <1>1, <1>2, <1>3, <1>4

(* Nothing the pages can make the adjudicator do changes the winner of a   *)
(* market that is resolved: not a second run of it, not a run that was     *)
(* left and goes on, not a refusal after the fact.                         *)
THEOREM ResolutionIsFinal == Spec => ResolvedIsTerminal
<1>1. MarketInv /\ [Next]_vars =>
        [\A market \in DOMAIN MARKETS :
           Resolved(book, market) =>
             Latest(book', "adjudicate", market) = Latest(book, "adjudicate", market)]_vars
  BY ResolvedStays
<1> QED BY <1>1, MarketInit, MarketNext, PTL DEF Spec, ResolvedIsTerminal

(* The market contract takes a resolution at any time; that none comes     *)
(* before the deadline rests on the page, which lets the first run of a    *)
(* market start on the day after it and lets nothing else start one.       *)
THEOREM NothingIsForecast == Spec => []NoForecastOnChain
<1>1. MarketInv => NoForecastOnChain
  BY DEF MarketInv, Timely
<1> QED BY <1>1, MarketInit, MarketNext, PTL DEF Spec

-----------------------------------------------------------------------------
(* Streams.                                                                *)

IsSeq(w) == \E S : w \in Seq(S)

LEMMA OneMore ==
  ASSUME NEW w, IsSeq(w), NEW e, NEW q, q = w \o <<e>>
  PROVE  /\ IsSeq(q) /\ Len(w) \in Nat /\ Len(q) = Len(w) + 1 /\ q[Len(w) + 1] = e
         /\ \A k \in 1 .. Len(w) : q[k] = w[k]
<1>1. PICK S : w \in Seq(S)
  BY DEF IsSeq
<1>2. w \in Seq(S \cup {e}) /\ <<e>> \in Seq(S \cup {e}) /\ Len(w) \in Nat
  BY <1>1, SeqMonotonic, LenProperties
<1>3. /\ q \in Seq(S \cup {e}) /\ Len(q) = Len(w) + 1
      /\ \A k \in 1 .. Len(w) + 1 : q[k] = IF k <= Len(w) THEN w[k] ELSE <<e>>[k - Len(w)]
  BY <1>2, ConcatProperties
<1>4. Len(w) + 1 \in 1 .. Len(w) + 1 /\ ~(Len(w) + 1 <= Len(w)) /\ Len(w) + 1 - Len(w) = 1
  BY <1>2
<1>5. q[Len(w) + 1] = e
  BY <1>3, <1>4
<1>6. IsSeq(q)
  BY <1>3 DEF IsSeq
<1> QED BY <1>2, <1>3, <1>5, <1>6

LEMMA Appended ==
  ASSUME NEW w, IsSeq(w), NEW e, NEW q, q = Append(w, e)
  PROVE  /\ IsSeq(q) /\ Len(w) \in Nat /\ Len(q) = Len(w) + 1 /\ q[Len(w) + 1] = e
         /\ \A k \in 1 .. Len(w) : q[k] = w[k]
<1>1. PICK S : w \in Seq(S)
  BY DEF IsSeq
<1>2. w \in Seq(S \cup {e}) /\ e \in S \cup {e} /\ Len(w) \in Nat
  BY <1>1, SeqMonotonic, LenProperties
<1>3. /\ q \in Seq(S \cup {e}) /\ Len(q) = Len(w) + 1 /\ q[Len(w) + 1] = e
      /\ \A k \in 1 .. Len(w) : q[k] = w[k]
  BY <1>2, AppendProperties
<1> QED BY <1>2, <1>3 DEF IsSeq

LEMMA FirstThree ==
  ASSUME NEW a, NEW b, NEW c, NEW w, w = <<a, b, c>>
  PROVE  IsSeq(w) /\ Len(w) = 3 /\ w[1] = a /\ w[2] = b /\ w[3] = c
<1>1. w \in Seq({a, b, c})
  OBVIOUS
<1> QED BY <1>1 DEF IsSeq

LEMMA OnlyOne ==
  ASSUME NEW a, NEW w, w = <<a>>
  PROVE  IsSeq(w) /\ Len(w) = 1 /\ w[1] = a
<1>1. w \in Seq({a})
  OBVIOUS
<1> QED BY <1>1 DEF IsSeq

LEMMA NoMore ==
  ASSUME NEW w, IsSeq(w) PROVE w \o <<>> = w /\ Len(w) \in Nat
BY ConcatEmptySeq, LenProperties DEF IsSeq

LEMMA OneLess ==
  ASSUME NEW w, IsSeq(w), w # <<>>
  PROVE  /\ Head(w) = w[1] /\ Len(w) \in Nat \ {0}
         /\ IsSeq(Tail(w)) /\ Len(Tail(w)) = Len(w) - 1
         /\ \A k \in 1 .. Len(Tail(w)) : Tail(w)[k] = w[k + 1]
<1>1. PICK S : w \in Seq(S)
  BY DEF IsSeq
<1>2. /\ Tail(w) \in Seq(S) /\ Len(Tail(w)) = Len(w) - 1
      /\ \A k \in 1 .. Len(Tail(w)) : Tail(w)[k] = w[k + 1]
  BY <1>1, HeadTailProperties
<1>3. Len(w) \in Nat \ {0} /\ Head(w) = w[1]
  BY <1>1, EmptySeq
<1> QED BY <1>2, <1>3 DEF IsSeq

-----------------------------------------------------------------------------
(* One request.  A verdict stands from the answer on, and stays when the   *)
(* transaction is accepted; the stream says "final" before "committed",    *)
(* both at most once, and both of this request.                            *)

Given(agent) ==
  CASE agent \in {"terra", "bridge"} -> [decision : {"ALLOW", "REFUSE"}]
    [] agent \in {"governance", "aviation"} -> [decision : {"APPROVE", "REJECT", "CAUTION"}]
    [] agent = "fund" -> [decision : {"BUY_WETH", "SELL_WETH", "HOLD"}, sizeUsd : Nat]
    [] agent = "adjudicate" -> [decision : {"RESOLVED"}, winningOption : Nat,
                                  confidence : {"sure", "unsure", "fraction", "capped", "none"}]

OnChain == pool \cup Range(mined)

Early(c) == c.stage \in {"received", "writing"}

Stands(c, i, O) == c.stage \in {"answered", "prepared"} \/ i \in O

VerdictOK(c, i, O) ==
  /\ DOMAIN c = CallFields /\ c.agent \in Agents
  /\ i \in O => c.stage = "closed"
  /\ Stands(c, i, O) => c.verdict \in Given(c.agent)
  /\ Early(c) => c.final = None
  /\ c.final # None => c.final \in Given(c.agent)
  /\ c.final # None /\ Stands(c, i, O) => c.final = c.verdict

HasFinal(c, n) == c.final # None \/ \E j \in 1 .. n : c.wire[j].type = "final"

EventOK(c, i, O, k) ==
  /\ c.wire[k].type \in {"search_started", "committed"} => c.wire[k].value = i
  /\ c.wire[k].type = "final" =>
       /\ c.final = None /\ ~Early(c) /\ c.wire[k].value \in Given(c.agent)
       /\ Stands(c, i, O) => c.wire[k].value = c.verdict
  /\ c.wire[k].type = "committed" => i \in O /\ HasFinal(c, k - 1)
  /\ c.wire[k].type \in {"final", "search_started"} =>
       \A j \in 1 .. (k - 1) : c.wire[j].type # c.wire[k].type

WireOK(c, i, O) ==
  /\ IsSeq(c.wire)
  /\ c.stage = "received" => c.wire = <<>>
  /\ Stands(c, i, O) => HasFinal(c, Len(c.wire))
  /\ \A k \in 1 .. Len(c.wire) : EventOK(c, i, O, k)

CallOK(c, i, O) ==
  /\ VerdictOK(c, i, O)
  /\ c.reader = "open" => WireOK(c, i, O)
  /\ c.reader # "open" => c.wire = <<>>

NoSearch(c) ==
  c.stage # "received" /\ \A k \in 1 .. Len(c.wire) : c.wire[k].type # "search_started"

(* A step of the handler leaves the rest of its request alone.             *)
Follows(c, d, i, O, P) ==
  /\ DOMAIN d = CallFields
  /\ d.agent = c.agent /\ d.key = c.key /\ d.final = c.final /\ d.reader = c.reader
  /\ d.stage # "received"
  /\ Early(d) => Early(c)
  /\ i \in O => i \in P
  /\ i \in P => d.stage = "closed"
  /\ Stands(d, i, P) => Stands(c, i, O) /\ d.verdict = c.verdict

LEMMA FollowedVerdict ==
  ASSUME NEW c, NEW d, NEW i, NEW O, NEW P, VerdictOK(c, i, O), Follows(c, d, i, O, P)
  PROVE  VerdictOK(d, i, P)
<1>1. DOMAIN d = CallFields /\ d.agent \in Agents /\ (i \in P => d.stage = "closed")
  BY DEF VerdictOK, Follows
<1>2. Stands(d, i, P) => d.verdict \in Given(d.agent)
  BY DEF VerdictOK, Follows
<1>3. Early(d) => d.final = None
  BY DEF VerdictOK, Follows
<1>4. d.final # None => d.final \in Given(d.agent)
  BY DEF VerdictOK, Follows
<1>5. d.final # None /\ Stands(d, i, P) => d.final = d.verdict
  BY DEF VerdictOK, Follows
<1> QED BY <1>1, <1>2, <1>3, <1>4, <1>5 DEF VerdictOK

LEMMA Silent ==
  ASSUME NEW c, NEW d, NEW i, NEW O, NEW P, CallOK(c, i, O),
         Follows(c, d, i, O, P), d.wire = c.wire
  PROVE  CallOK(d, i, P) /\ (NoSearch(c) => NoSearch(d))
<1>1. VerdictOK(d, i, P)
  BY FollowedVerdict DEF CallOK
<1>2. d.reader = c.reader /\ d.stage # "received"
  BY DEF Follows
<1>3. ASSUME WireOK(c, i, O) PROVE WireOK(d, i, P)
  <2>1. \A n : HasFinal(c, n) => HasFinal(d, n)
    BY DEF HasFinal, Follows
  <2>2. ASSUME NEW k \in 1 .. Len(c.wire) PROVE EventOK(d, i, P, k)
    <3>1. EventOK(c, i, O, k)
      BY <1>3 DEF WireOK
    <3> QED BY <2>1, <3>1 DEF EventOK, Follows
  <2> QED BY <1>2, <1>3, <2>1, <2>2 DEF WireOK, Follows
<1> QED BY <1>1, <1>2, <1>3 DEF CallOK, NoSearch

LEMMA Says ==
  ASSUME NEW c, NEW d, NEW i, NEW O, NEW P, CallOK(c, i, O), Follows(c, d, i, O, P),
         NEW e, d.wire = IF c.reader = "open" THEN c.wire \o <<e>> ELSE <<>>,
         e.type \notin {"final", "search_started"},
         e.type = "committed" => e.value = i /\ i \in P /\ Stands(c, i, O)
  PROVE  CallOK(d, i, P) /\ (NoSearch(c) => NoSearch(d))
<1>1. VerdictOK(d, i, P)
  BY FollowedVerdict DEF CallOK
<1>2. d.reader = c.reader /\ d.stage # "received"
  BY DEF Follows
<1>3. CASE c.reader = "open"
  <2>0. IsSeq(c.wire) /\ (Stands(c, i, O) => HasFinal(c, Len(c.wire)))
        /\ \A k \in 1 .. Len(c.wire) : EventOK(c, i, O, k)
    BY <1>3 DEF CallOK, WireOK
  <2>1. /\ IsSeq(d.wire) /\ Len(c.wire) \in Nat /\ Len(d.wire) = Len(c.wire) + 1
        /\ d.wire[Len(c.wire) + 1] = e
        /\ \A k \in 1 .. Len(c.wire) : d.wire[k] = c.wire[k]
    <3>1. d.wire = c.wire \o <<e>>
      BY <1>3
    <3> QED BY <2>0, <3>1, OneMore, SMTT(30)
  <2>2. \A n \in 0 .. Len(c.wire) : HasFinal(c, n) => HasFinal(d, n)
    BY <2>1 DEF HasFinal, Follows
  <2>3. HasFinal(c, Len(c.wire)) => HasFinal(d, Len(d.wire)) /\ HasFinal(d, Len(c.wire))
    BY <2>1, <2>2 DEF HasFinal
  <2>4. ASSUME NEW k \in 1 .. Len(c.wire) PROVE EventOK(d, i, P, k)
    <3>1. EventOK(c, i, O, k)
      BY <2>0
    <3>2. d.wire[k] = c.wire[k] /\ \A j \in 1 .. (k - 1) : d.wire[j] = c.wire[j]
      BY <2>1
    <3>3. HasFinal(c, k - 1) => HasFinal(d, k - 1)
      BY <2>1, <2>2
    <3> QED BY <3>1, <3>2, <3>3 DEF EventOK, Follows
  <2>5. EventOK(d, i, P, Len(c.wire) + 1)
    <3> DEFINE k == Len(c.wire) + 1
    <3>1. d.wire[k] = e /\ k - 1 = Len(c.wire)
      BY <2>1
    <3>2. e.type = "committed" => HasFinal(d, k - 1)
      BY <2>0, <2>3, <3>1
    <3> HIDE DEF k
    <3>3. EventOK(d, i, P, k)
      BY <3>1, <3>2 DEF EventOK
    <3> QED BY <3>3 DEF k
  <2>6. \A k \in 1 .. Len(d.wire) : k \in 1 .. Len(c.wire) \/ k = Len(c.wire) + 1
    BY <2>1
  <2>7. NoSearch(c) => NoSearch(d)
    BY <1>2, <2>1, <2>6 DEF NoSearch
  <2>8. Stands(d, i, P) => HasFinal(d, Len(d.wire))
    BY <2>0, <2>3 DEF Follows
  <2>9. WireOK(d, i, P)
    BY <1>2, <2>1, <2>4, <2>5, <2>6, <2>8 DEF WireOK
  <2> QED BY <1>1, <1>2, <1>3, <2>7, <2>9 DEF CallOK
<1>4. CASE c.reader # "open"
  <2>1. d.wire = <<>> /\ Len(d.wire) = 0
    BY <1>4
  <2> QED BY <1>1, <1>2, <1>4, <2>1 DEF CallOK, NoSearch
<1> QED BY <1>3, <1>4
LEMMA Elsewhere ==
  ASSUME NEW c, NEW i, NEW O, NEW P, CallOK(c, i, O), i \in O <=> i \in P
  PROVE  CallOK(c, i, P)
<1>1. Stands(c, i, P) <=> Stands(c, i, O)
  BY DEF Stands
<1>2. VerdictOK(c, i, P)
  BY <1>1 DEF CallOK, VerdictOK
<1>3. \A k : EventOK(c, i, O, k) => EventOK(c, i, P, k)
  BY <1>1 DEF EventOK
<1>4. WireOK(c, i, O) => WireOK(c, i, P)
  BY <1>1, <1>3 DEF WireOK
<1> QED BY <1>2, <1>4 DEF CallOK

(* The request after its handler has returned, and after a step of it.     *)
ClosedCall(c, sent) ==
  [c EXCEPT !.stage = "closed", !.verdict = None, !.nonce = None,
            !.wire = IF c.reader = "open" THEN @ \o sent ELSE <<>>]

SteppedCall(c, stage, sent) ==
  [c EXCEPT !.stage = stage, !.wire = IF c.reader = "open" THEN @ \o sent ELSE <<>>]

SameCall(c, d) ==
  DOMAIN d = CallFields /\ d.agent = c.agent /\ d.key = c.key /\ d.final = c.final /\ d.reader = c.reader

LEMMA CloseForm ==
  ASSUME Requests(calls), NEW i \in 1 .. Len(calls), NEW sent, NEW d,
         d = ClosedCall(calls[i], sent)
  PROVE  /\ Close(i, sent) = [calls EXCEPT ![i] = d]
         /\ SameCall(calls[i], d) /\ d.stage = "closed" /\ d.verdict = None
         /\ d.wire = IF calls[i].reader = "open" THEN calls[i].wire \o sent ELSE <<>>
<1>1. DOMAIN calls[i] = CallFields /\ i \in DOMAIN calls
  BY LenProperties DEF Requests
<1> QED BY <1>1 DEF Close, CallFields, ClosedCall, SameCall

LEMMA StepForm ==
  ASSUME Requests(calls), NEW i \in 1 .. Len(calls), NEW stage, NEW sent, NEW d,
         d = SteppedCall(calls[i], stage, sent)
  PROVE  /\ Step(i, stage, sent) = [calls EXCEPT ![i] = d]
         /\ SameCall(calls[i], d) /\ d.stage = stage /\ d.verdict = calls[i].verdict
         /\ d.wire = IF calls[i].reader = "open" THEN calls[i].wire \o sent ELSE <<>>
<1>1. DOMAIN calls[i] = CallFields /\ i \in DOMAIN calls
  BY LenProperties DEF Requests
<1> QED BY <1>1 DEF Step, CallFields, SteppedCall, SameCall

(* What serving a request does to it: P is who is on the chain afterwards. *)
Serves(c, d, i, P) ==
  /\ SameCall(c, d) /\ CallOK(d, i, P) /\ (NoSearch(c) => NoSearch(d))

LEMMA Closes ==
  ASSUME Requests(calls), NEW i \in 1 .. Len(calls), NEW O, CallOK(calls[i], i, O),
         calls[i].stage # "closed", NEW sent,
         sent = <<>> \/ \E type \in {"error", "commit_skipped", "commit_error"} :
                          sent = <<Event(type, i)>>
  PROVE  \E d : Close(i, sent) = [calls EXCEPT ![i] = d] /\ Serves(calls[i], d, i, O)
<1> DEFINE c == calls[i]
           d == ClosedCall(c, sent)
<1> HIDE DEF d
<1>1. /\ Close(i, sent) = [calls EXCEPT ![i] = d]
      /\ SameCall(c, d) /\ d.stage = "closed" /\ d.verdict = None
      /\ d.wire = IF c.reader = "open" THEN c.wire \o sent ELSE <<>>
  BY CloseForm DEF d
<1>2. i \notin O
  BY DEF CallOK, VerdictOK
<1>3. Follows(c, d, i, O, O)
  BY <1>1, <1>2 DEF Follows, SameCall, Early, Stands
<1>4. CASE sent = <<>>
  <2>1. d.wire = c.wire
    BY <1>1, <1>4, NoMore DEF CallOK, WireOK
  <2> QED BY <1>1, <1>3, <2>1, Silent DEF Serves
<1>5. ASSUME NEW type \in {"error", "commit_skipped", "commit_error"}, sent = <<Event(type, i)>>
      PROVE  Serves(c, d, i, O)
  <2> DEFINE e == Event(type, i)
  <2>1. e.type \notin {"final", "search_started", "committed"}
    BY DEF Event
  <2> HIDE DEF e
  <2>2. d.wire = IF c.reader = "open" THEN c.wire \o <<e>> ELSE <<>>
    BY <1>1, <1>5 DEF e
  <2> HIDE DEF c
  <2>3. CallOK(d, i, O) /\ (NoSearch(c) => NoSearch(d))
    BY <1>3, <2>1, <2>2, Says DEF c
  <2> QED BY <1>1, <2>3 DEF Serves
<1> QED BY <1>1, <1>4, <1>5
LEMMA Objects ==
  ASSUME NEW words, NEW numbers, NEW raw \in Completions(words, numbers), raw.kind = "object"
  PROVE  raw.word \in words \cup {"another word"} /\ raw.number \in numbers
<1>1. raw # [kind |-> "none"] /\ raw # [kind |-> "garbled"]
  OBVIOUS
<1>2. raw \in [kind : {"object"}, word : words \cup {"another word"}, number : numbers]
  BY <1>1 DEF Completions
<1> QED BY <1>2

(* Whatever a completion says, the answer is one the verdict's contract    *)
(* takes, or none.                                                         *)
LEMMA AnswersFit ==
  ASSUME NEW c, c.agent \in Agents, NEW verdict \in AnswerTo(c), verdict # Throws
  PROVE  verdict \in Given(c.agent)
<1>1. CASE c.agent = "terra"
  <2>1. PICK raw : verdict = decideTerraStream(raw)
    BY <1>1 DEF AnswerTo
  <2>2. verdict = [decision |-> "ALLOW"] \/ verdict = [decision |-> "REFUSE"]
    BY <2>1 DEF decideTerraStream, Words
  <2> QED BY <1>1, <2>2 DEF Given
<1>2. CASE c.agent = "bridge"
  <2>1. PICK raw : verdict = decideBridgeStream(raw)
    BY <1>2 DEF AnswerTo
  <2>2. verdict = [decision |-> "ALLOW"] \/ verdict = [decision |-> "REFUSE"]
    BY <2>1 DEF decideBridgeStream, Words
  <2> QED BY <1>2, <2>2 DEF Given
<1>3. ASSUME NEW raw,
             verdict = (IF raw.kind # "object" THEN Throws
                        ELSE [decision |-> Words(raw, {"APPROVE", "REJECT"}, "CAUTION")])
      PROVE  verdict \in [decision : {"APPROVE", "REJECT", "CAUTION"}]
  BY <1>3 DEF Words
<1>4. CASE c.agent = "governance"
  <2>1. PICK raw : verdict = reviewGovernanceStream(raw)
    BY <1>4 DEF AnswerTo
  <2> QED BY <1>3, <1>4, <2>1 DEF Given, reviewGovernanceStream
<1>5. CASE c.agent = "aviation"
  <2>1. PICK raw : verdict = reviewAviationStream(raw)
    BY <1>5 DEF AnswerTo
  <2> QED BY <1>3, <1>5, <2>1 DEF Given, reviewAviationStream
<1>6. CASE c.agent = "fund"
  <2>0. \E numbers, words, raw : /\ numbers \in SUBSET Nat /\ raw \in Completions(words, numbers)
                                 /\ verdict = tickFundStream(raw)
    BY <1>6 DEF AnswerTo
  <2>1. PICK numbers, words, raw :
          /\ numbers \in SUBSET Nat /\ raw \in Completions(words, numbers)
          /\ verdict = tickFundStream(raw)
    BY <2>0
  <2>2. raw.kind = "object"
    BY <2>1 DEF tickFundStream
  <2>3. raw.number \in Nat
    <3>1. raw.number \in numbers
      BY <2>1, <2>2, Objects
    <3> QED BY <2>1, <3>1
  <2>4. Words(raw, {"BUY_WETH", "SELL_WETH"}, "HOLD") \in {"BUY_WETH", "SELL_WETH", "HOLD"}
    BY DEF Words
  <2> QED BY <1>6, <2>1, <2>2, <2>3, <2>4 DEF Given, tickFundStream
<1>7. CASE c.agent = "adjudicate"
  <2>1. PICK raw \in Completions({}, {}) \cup Resolutions :
          verdict = adjudicateStream(raw, MARKETS[c.key].options, MARKETS[c.key].deadline > today)
    BY <1>7 DEF AnswerTo
  <2>2. raw.kind = "object" => raw.number \in {1, 7} /\ raw.word \in {"sure", "fraction"}
    BY <2>1 DEF Completions, Resolutions
  <2>3. /\ verdict = [decision |-> verdict.decision, winningOption |-> verdict.winningOption,
                      confidence |-> verdict.confidence]
        /\ verdict.decision = "RESOLVED" /\ verdict.winningOption \in {0, 1, 7}
        /\ verdict.confidence \in {"capped", "sure", "unsure", "fraction", "none"}
    <3> DEFINE read == raw.kind = "object"
               given == IF read /\ raw.word \in {"sure", "unsure", "fraction"} THEN raw.word ELSE "none"
               future == MARKETS[c.key].deadline > today
               winner == IF read /\ raw.number \in 0 .. (MARKETS[c.key].options - 1) THEN raw.number ELSE 0
               confidence == IF future /\ given \in {"sure", "fraction"} THEN "capped" ELSE given
    <3>1. verdict = [decision |-> "RESOLVED", winningOption |-> winner, confidence |-> confidence]
      BY <2>1, Zenon DEF adjudicateStream
    <3>2. winner \in {0, 1, 7}
      BY <2>2
    <3>3. confidence \in {"capped", "sure", "unsure", "fraction", "none"}
      BY <2>2
    <3> HIDE DEF winner, confidence
    <3> QED BY <3>1, <3>2, <3>3
  <2>4. verdict.winningOption \in Nat
    <3>2. \A o \in {0, 1, 7} : o \in Nat
      OBVIOUS
    <3> QED BY <2>3, <3>2, Zenon
  <2>5. verdict \in [decision : {"RESOLVED"}, winningOption : Nat,
                                  confidence : {"sure", "unsure", "fraction", "capped", "none"}]
    <3> DEFINE o == verdict.winningOption
               f == verdict.confidence
    <3>1. verdict = [decision |-> "RESOLVED", winningOption |-> o, confidence |-> f]
      BY <2>3
    <3>2. o \in Nat /\ f \in {"sure", "unsure", "fraction", "capped", "none"}
      BY <2>3, <2>4
    <3> HIDE DEF o, f
    <3> QED BY <3>1, <3>2
  <2> QED BY <1>7, <2>5 DEF Given
<1> QED BY <1>1, <1>2, <1>4, <1>5, <1>6, <1>7 DEF Agents

(* The request as the answer leaves it: the model was still writing, so    *)
(* nothing final was said before.                                          *)
LEMMA Answered ==
  ASSUME NEW c, NEW d, NEW i, NEW O, CallOK(c, i, O), SameCall(c, d),
         c.stage = "writing", d.stage = "answered", d.verdict \in Given(c.agent),
         NEW e, e = Event("final", d.verdict),
         d.wire = IF c.reader = "open" THEN c.wire \o <<e>> ELSE <<>>
  PROVE  Serves(c, d, i, O)
<1>0. e.type = "final" /\ e.value = d.verdict
  BY DEF Event
<1>1. /\ i \notin O /\ c.final = None /\ c.agent \in Agents /\ Early(c) /\ ~Early(d)
      /\ ~Stands(c, i, O)
  BY DEF CallOK, VerdictOK, Early, Stands
<1>2. d.final = None /\ d.reader = c.reader /\ d.agent = c.agent /\ DOMAIN d = CallFields
  BY <1>1 DEF SameCall
<1>3. VerdictOK(d, i, O)
  BY <1>1, <1>2 DEF VerdictOK
<1>4. CASE c.reader = "open"
  <2>0. IsSeq(c.wire) /\ \A k \in 1 .. Len(c.wire) : EventOK(c, i, O, k)
    BY <1>4 DEF CallOK, WireOK
  <2>1. /\ IsSeq(d.wire) /\ Len(c.wire) \in Nat /\ Len(d.wire) = Len(c.wire) + 1
        /\ d.wire[Len(c.wire) + 1] = e
        /\ \A k \in 1 .. Len(c.wire) : d.wire[k] = c.wire[k]
    <3>1. d.wire = c.wire \o <<e>>
      BY <1>4
    <3> QED BY <2>0, <3>1, OneMore
  <2>2. \A k \in 1 .. Len(c.wire) : c.wire[k].type \notin {"final", "committed"}
    BY <1>1, <2>0 DEF EventOK
  <2>3. ASSUME NEW k \in 1 .. Len(c.wire) PROVE EventOK(d, i, O, k)
    <3>1. EventOK(c, i, O, k)
      BY <2>0
    <3>2. d.wire[k] = c.wire[k] /\ \A j \in 1 .. (k - 1) : d.wire[j] = c.wire[j]
      BY <2>1
    <3> QED BY <2>2, <3>1, <3>2 DEF EventOK
  <2>4. EventOK(d, i, O, Len(c.wire) + 1)
    <3> DEFINE k == Len(c.wire) + 1
    <3>1. d.wire[k] = e /\ \A j \in 1 .. (k - 1) : d.wire[j].type # "final"
      BY <2>1, <2>2
    <3> HIDE DEF k
    <3>2. EventOK(d, i, O, k)
      BY <1>0, <1>1, <1>2, <3>1 DEF EventOK
    <3> QED BY <3>2 DEF k
  <2>5. \A k \in 1 .. Len(d.wire) : k \in 1 .. Len(c.wire) \/ k = Len(c.wire) + 1
    BY <2>1
  <2>6. HasFinal(d, Len(d.wire))
    <3>1. Len(c.wire) + 1 \in 1 .. Len(d.wire)
      BY <2>1
    <3> QED BY <1>0, <2>1, <3>1 DEF HasFinal
  <2>7. WireOK(d, i, O)
    BY <2>1, <2>3, <2>4, <2>5, <2>6 DEF WireOK
  <2>8. NoSearch(c) => NoSearch(d)
    BY <1>0, <2>1, <2>5 DEF NoSearch
  <2> QED BY <1>2, <1>3, <1>4, <2>7, <2>8 DEF Serves, CallOK
<1>5. CASE c.reader # "open"
  <2>1. d.wire = <<>> /\ Len(d.wire) = 0
    BY <1>5
  <2> QED BY <1>2, <1>3, <1>5, <2>1 DEF Serves, CallOK, NoSearch
<1> QED BY <1>4, <1>5

(* The first words of a stream name the search once.                       *)
LEMMA Received ==
  ASSUME NEW c, NEW d, NEW i, NEW O, CallOK(c, i, O), SameCall(c, d),
         c.stage = "received", d.stage = "writing", d.verdict = c.verdict, NEW sent,
         sent \in {<<>>, <<Event("search_started", i), Event("search_results", i), Event("text_delta", i)>>,
                  <<Event("reasoning", i)>>},
         d.wire = IF c.reader = "open" THEN c.wire \o sent ELSE <<>>
  PROVE  Serves(c, d, i, O)
<1>1. /\ i \notin O /\ c.final = None /\ c.agent \in Agents /\ ~NoSearch(c)
      /\ ~Stands(d, i, O)
  BY DEF CallOK, VerdictOK, Early, Stands, NoSearch
<1>2. d.final = None /\ d.reader = c.reader /\ d.agent = c.agent /\ DOMAIN d = CallFields
  BY <1>1 DEF SameCall
<1>3. VerdictOK(d, i, O)
  BY <1>1, <1>2 DEF VerdictOK
<1>4. CASE c.reader = "open"
  <2>1. d.wire = sent
    <3>1. c.wire = <<>>
      BY <1>4 DEF CallOK, WireOK
    <3> QED BY <1>4, <3>1
  <2> DEFINE a == Event("search_started", i)
             b == Event("search_results", i)
             t == Event("text_delta", i)
             r == Event("reasoning", i)
  <2>5. /\ a.type = "search_started" /\ a.value = i /\ b.type = "search_results"
        /\ t.type = "text_delta" /\ r.type = "reasoning"
    BY DEF Event
  <2> HIDE DEF a, b, t, r
  <2>6. sent = <<>> \/ sent = <<a, b, t>> \/ sent = <<r>>
    BY DEF a, b, t, r
  <2>7. ASSUME NEW w, w = <<a, b, t>> PROVE Len(w) = 3 /\ w[1] = a /\ w[2] = b /\ w[3] = t
    BY <2>7
  <2>2. IsSeq(d.wire)
    <3>1. IsSeq(<<>>)
      BY DEF IsSeq
    <3> QED BY <2>1, <2>6, <3>1, FirstThree, OnlyOne
  <2>3. \A k \in 1 .. Len(d.wire) : EventOK(d, i, O, k)
    <3>1. CASE sent = <<>>
      BY <2>1, <3>1
    <3>2. CASE sent = <<a, b, t>>
      <4>1. /\ Len(d.wire) = 3
            /\ d.wire[1].type = "search_started" /\ d.wire[1].value = i
            /\ d.wire[2].type = "search_results" /\ d.wire[3].type = "text_delta"
        <5>1. d.wire = <<a, b, t>>
          BY <2>1, <3>2
        <5>2. Len(d.wire) = 3 /\ d.wire[1] = a /\ d.wire[2] = b /\ d.wire[3] = t
          BY <2>7, <5>1
        <5> QED BY <2>5, <5>2
      <4>2. \A k \in 1 .. Len(d.wire) : k = 1 \/ k = 2 \/ k = 3
        BY <4>1
      <4>3. EventOK(d, i, O, 1) /\ EventOK(d, i, O, 2) /\ EventOK(d, i, O, 3)
        BY <4>1 DEF EventOK
      <4> QED BY <4>2, <4>3
    <3>3. CASE sent = <<r>>
      <4>1. Len(d.wire) = 1 /\ d.wire[1].type = "reasoning"
        <5>1. d.wire = <<r>>
          BY <2>1, <3>3
        <5>2. Len(d.wire) = 1 /\ d.wire[1] = r
          BY <5>1, OnlyOne
        <5> QED BY <2>5, <5>2
      <4>2. \A k \in 1 .. Len(d.wire) : k = 1
        BY <4>1
      <4>3. EventOK(d, i, O, 1)
        BY <4>1 DEF EventOK
      <4> QED BY <4>2, <4>3
    <3> QED BY <2>6, <3>1, <3>2, <3>3
  <2>4. WireOK(d, i, O)
    BY <1>1, <2>2, <2>3 DEF WireOK
  <2> QED BY <1>1, <1>2, <1>3, <1>4, <2>4 DEF Serves, CallOK
<1>5. CASE c.reader # "open"
  BY <1>1, <1>2, <1>3, <1>5 DEF Serves, CallOK
<1> QED BY <1>4, <1>5
LEMMA ServeCall ==
  ASSUME Requests(calls), NEW i \in 1 .. Len(calls), CallOK(calls[i], i, OnChain),
         Serve(i) \/ Kill(i)
  PROVE  /\ i \notin OnChain /\ UNCHANGED mined /\ (OnChain' = OnChain \/ OnChain' = OnChain \cup {i})
         /\ \E d : calls' = [calls EXCEPT ![i] = d] /\ Serves(calls[i], d, i, OnChain')
<1> DEFINE c == calls[i]
<1>0. c.stage # "closed" /\ i \notin OnChain
  <2>1. c.stage # "closed"
    BY DEF Serve, Receive, Answer, Skip, Prepare, Send, SendUnanswered, Kill
  <2> QED BY <2>1 DEF CallOK, VerdictOK
<1>1. ASSUME NEW sent, calls' = Close(i, sent), UNCHANGED <<pool, mined>>,
             sent = <<>> \/ \E type \in {"error", "commit_skipped", "commit_error"} :
                              sent = <<Event(type, i)>>
      PROVE  /\ UNCHANGED mined /\ OnChain' = OnChain
             /\ \E d : calls' = [calls EXCEPT ![i] = d] /\ Serves(c, d, i, OnChain')
  <2>1. UNCHANGED mined /\ OnChain' = OnChain
    BY <1>1 DEF OnChain
  <2>2. \E d : Close(i, sent) = [calls EXCEPT ![i] = d] /\ Serves(c, d, i, OnChain)
    BY <1>0, <1>1, Closes
  <2> QED BY <1>1, <2>1, <2>2
<1>2. CASE Receive(i)
  <2>1. UNCHANGED <<pool, mined>> /\ c.stage = "received"
    BY <1>2 DEF Receive
  <2>2. OnChain' = OnChain
    BY <2>1 DEF OnChain
  <2>3. CASE ~keys.model
    BY <1>0, <1>1, <1>2, <2>1, <2>3 DEF Receive
  <2>4. CASE keys.model
    <3>1. PICK sent \in {<<>>, FirstWords(i)} : calls' = Step(i, "writing", sent)
      BY <1>2, <2>4 DEF Receive
    <3> DEFINE d == SteppedCall(c, "writing", sent)
    <3> HIDE DEF d
    <3>2. /\ calls' = [calls EXCEPT ![i] = d]
          /\ SameCall(c, d) /\ d.stage = "writing" /\ d.verdict = c.verdict
          /\ d.wire = IF c.reader = "open" THEN c.wire \o sent ELSE <<>>
      BY <3>1, StepForm DEF d
    <3>3. sent \in {<<>>, <<Event("search_started", i), Event("search_results", i), Event("text_delta", i)>>,
                   <<Event("reasoning", i)>>}
      BY <3>1 DEF FirstWords
    <3>4. Serves(c, d, i, OnChain)
      BY <2>1, <3>2, <3>3, Received
    <3> QED BY <1>0, <2>1, <2>2, <3>2, <3>4
  <2> QED BY <2>3, <2>4
<1>3. CASE Answer(i)
  <2>1. UNCHANGED <<pool, mined>> /\ c.stage = "writing"
    BY <1>3 DEF Answer
  <2>2. OnChain' = OnChain
    BY <2>1 DEF OnChain
  <2>3. PICK verdict \in AnswerTo(c) :
          calls' = IF verdict = Throws THEN Close(i, <<Event("error", i)>>)
                   ELSE [Step(i, "answered", <<Event("final", verdict)>>)
                           EXCEPT ![i].verdict = verdict]
    BY <1>3 DEF Answer
  <2>4. CASE verdict = Throws
    BY <1>0, <1>1, <2>1, <2>3, <2>4
  <2>5. CASE verdict # Throws
    <3> DEFINE e == Event("final", verdict)
               s == SteppedCall(c, "answered", <<e>>)
               d == [s EXCEPT !.verdict = verdict]
    <3> HIDE DEF e, s, d
    <3>1. /\ Step(i, "answered", <<e>>) = [calls EXCEPT ![i] = s]
          /\ SameCall(c, s) /\ s.stage = "answered"
          /\ s.wire = IF c.reader = "open" THEN c.wire \o <<e>> ELSE <<>>
      <4>1. s = SteppedCall(calls[i], "answered", <<e>>)
        BY DEF s
      <4> QED BY <4>1, StepForm
    <3>2. /\ SameCall(c, d) /\ d.stage = "answered" /\ d.verdict = verdict
          /\ d.wire = IF c.reader = "open" THEN c.wire \o <<e>> ELSE <<>>
      <4>1. /\ DOMAIN d = DOMAIN s /\ d.agent = s.agent /\ d.key = s.key /\ d.final = s.final
            /\ d.reader = s.reader /\ d.stage = s.stage /\ d.wire = s.wire
        <5>1. DOMAIN s = CallFields
          BY <3>1 DEF SameCall
        <5> QED BY <5>1 DEF d, CallFields
      <4>2. d.verdict = verdict
        BY <3>1 DEF d, SameCall, CallFields
      <4> QED BY <3>1, <4>1, <4>2 DEF SameCall
    <3>3. calls' = [calls EXCEPT ![i] = d]
      <4>1. calls' = [[calls EXCEPT ![i] = s] EXCEPT ![i].verdict = verdict]
        BY <2>3, <2>5, <3>1 DEF e
      <4>2. i \in DOMAIN calls
        BY LenProperties DEF Requests
      <4> QED BY <4>1, <4>2 DEF d
    <3>4. verdict \in Given(c.agent)
      BY <2>3, <2>5, AnswersFit DEF Requests
    <3>5. Serves(c, d, i, OnChain)
      BY <2>1, <3>2, <3>4, Answered DEF e
    <3> QED BY <1>0, <2>1, <2>2, <3>3, <3>5
  <2> QED BY <2>4, <2>5
<1>4. CASE Skip(i)
  <2>1. /\ UNCHANGED <<pool, mined>>
        /\ calls' = Close(i, <<>>) \/ calls' = Close(i, <<Event("commit_skipped", i)>>)
    BY <1>4 DEF Skip
  <2> QED BY <1>0, <1>1, <2>1
<1>5. CASE Prepare(i)
  <2>1. UNCHANGED <<pool, mined>> /\ c.stage = "answered"
    BY <1>5 DEF Prepare
  <2>2. OnChain' = OnChain
    BY <2>1 DEF OnChain
  <2>3. CASE WouldRevert(c)
    <3>1. calls' = Close(i, <<Event("commit_error", i)>>)
      BY <1>5, <2>3 DEF Prepare
    <3> QED BY <1>0, <1>1, <2>1, <3>1
  <2>4. CASE ~WouldRevert(c)
    <3> DEFINE d == [c EXCEPT !.stage = "prepared", !.nonce = NextNonce]
    <3>1. DOMAIN c = CallFields /\ i \in DOMAIN calls
      BY LenProperties DEF Requests
    <3>2. calls' = [calls EXCEPT ![i] = d]
      BY <1>5, <2>4, <3>1 DEF Prepare, CallFields
    <3>3. SameCall(c, d) /\ d.stage = "prepared" /\ d.wire = c.wire /\ d.verdict = c.verdict
      BY <3>1 DEF SameCall, CallFields
    <3> HIDE DEF d
    <3>4. Follows(c, d, i, OnChain, OnChain)
      BY <1>0, <2>1, <3>3 DEF Follows, SameCall, Early, Stands
    <3>5. Serves(c, d, i, OnChain)
      BY <3>3, <3>4, Silent DEF Serves
    <3> QED BY <1>0, <2>1, <2>2, <3>2, <3>5
  <2> QED BY <2>3, <2>4
<1>6. ASSUME c.stage = "prepared", UNCHANGED mined, pool' = pool \cup {i},
             NEW type \in {"committed", "commit_error"},
             calls' = Step(i, "closed", <<Event(type, i)>>)
      PROVE  /\ OnChain' = OnChain \cup {i}
             /\ \E d : calls' = [calls EXCEPT ![i] = d] /\ Serves(c, d, i, OnChain')
  <2> DEFINE e == Event(type, i)
             d == SteppedCall(c, "closed", <<e>>)
  <2>1. OnChain' = OnChain \cup {i}
    BY <1>6 DEF OnChain
  <2>2. e.type \notin {"final", "search_started"} /\ e.value = i
    BY DEF Event
  <2> HIDE DEF e, d
  <2>3. /\ calls' = [calls EXCEPT ![i] = d]
        /\ SameCall(c, d) /\ d.stage = "closed" /\ d.verdict = c.verdict
        /\ d.wire = IF c.reader = "open" THEN c.wire \o <<e>> ELSE <<>>
    BY <1>6, StepForm DEF d, e
  <2>4. Follows(c, d, i, OnChain, OnChain')
    BY <1>6, <2>1, <2>3 DEF Follows, SameCall, Early, Stands
  <2>5. i \in OnChain' /\ Stands(c, i, OnChain)
    BY <1>6, <2>1 DEF Stands
  <2> HIDE DEF c
  <2>6. CallOK(c, i, OnChain)
    BY DEF c
  <2>7. CallOK(d, i, OnChain') /\ (NoSearch(c) => NoSearch(d))
    BY <2>2, <2>3, <2>4, <2>5, <2>6, Says
  <2>8. Serves(c, d, i, OnChain')
    BY <2>3, <2>7 DEF Serves
  <2> QED BY <2>1, <2>3, <2>8 DEF c
<1>7. CASE Send(i)
  <2>1. CASE Taken(c.nonce)
    <3>1. UNCHANGED <<pool, mined>> /\ calls' = Close(i, <<Event("commit_error", i)>>)
      BY <1>7, <2>1 DEF Send
    <3> QED BY <1>0, <1>1, <3>1
  <2>2. CASE ~Taken(c.nonce)
    BY <1>0, <1>6, <1>7, <2>2 DEF Send
  <2> QED BY <2>1, <2>2
<1>8. CASE SendUnanswered(i)
  BY <1>0, <1>6, <1>8 DEF SendUnanswered
<1>9. CASE Kill(i)
  BY <1>0, <1>1, <1>9 DEF Kill
<1> QED BY <1>2, <1>3, <1>4, <1>5, <1>7, <1>8, <1>9 DEF Serve
LEMMA NotNone ==
  ASSUME NEW agent \in Agents, NEW verdict \in Given(agent) PROVE verdict # None
<1>1. CASE agent \in {"terra", "bridge", "governance", "aviation"}
  <2>1. verdict \in [decision : {"ALLOW", "REFUSE", "APPROVE", "REJECT", "CAUTION"}]
    BY <1>1 DEF Given
  <2> QED BY <2>1, NoneAssumption
<1>2. CASE agent = "fund"
  BY <1>2, NoneAssumption DEF Given
<1>3. CASE agent = "adjudicate"
  BY <1>3, NoneAssumption DEF Given
<1> QED BY <1>1, <1>2, <1>3 DEF Agents

(* Reading the next event: what is left of the stream, and what the reader *)
(* may conclude from the event.                                            *)
Takes(c, d, e) ==
  /\ c.reader = "open" /\ c.wire # <<>> /\ e = Head(c.wire)
  /\ DOMAIN d = CallFields /\ d.agent = c.agent /\ d.stage = c.stage /\ d.verdict = c.verdict
  /\ d.reader = c.reader /\ d.wire = Tail(c.wire)
  /\ d.final = IF e.type = "final" THEN e.value ELSE c.final

Learns(c, d, i, O, e) ==
  /\ NoSearch(c) \/ e.type = "search_started" => NoSearch(d)
  /\ e.type = "search_started" => e.value = i /\ ~NoSearch(c)
  /\ e.type = "final" => /\ c.final = None /\ d.final # None /\ e.value \in Given(c.agent)
                         /\ i \in O => e.value = c.verdict
  /\ e.type = "committed" => e.value = i /\ i \in O /\ c.final # None

LEMMA ReadCall ==
  ASSUME NEW c, NEW d, NEW i, NEW O, NEW e, CallOK(c, i, O), Takes(c, d, e)
  PROVE  CallOK(d, i, O) /\ Learns(c, d, i, O, e)
<1>0. /\ c.reader = "open" /\ c.wire # <<>> /\ e = Head(c.wire)
      /\ DOMAIN d = CallFields /\ d.agent = c.agent /\ d.stage = c.stage /\ d.verdict = c.verdict
      /\ d.reader = c.reader /\ d.wire = Tail(c.wire)
      /\ d.final = IF e.type = "final" THEN e.value ELSE c.final
  BY DEF Takes
<1>1. WireOK(c, i, O) /\ VerdictOK(c, i, O) /\ c.agent \in Agents
  BY <1>0 DEF CallOK, VerdictOK
<1>2. /\ c.wire[1] = e /\ Len(c.wire) \in Nat \ {0} /\ IsSeq(d.wire)
      /\ Len(d.wire) = Len(c.wire) - 1
      /\ \A k \in 1 .. Len(d.wire) : d.wire[k] = c.wire[k + 1]
  BY <1>0, <1>1, OneLess DEF WireOK
<1>3. EventOK(c, i, O, 1)
  BY <1>0, <1>1, <1>2 DEF WireOK
<1>4. c.stage # "received"
  BY <1>0, <1>1 DEF WireOK
<1>5. HasFinal(c, 0) => c.final # None
  BY DEF HasFinal
<1>6. e.type = "final" => e.value # None
  BY <1>0, <1>1, <1>2, <1>3, NotNone DEF EventOK
<1>7. VerdictOK(d, i, O)
  <2>1. CASE e.type = "final"
    BY <1>0, <1>1, <1>2, <1>3, <2>1 DEF VerdictOK, EventOK, Early, Stands
  <2>2. CASE e.type # "final"
    BY <1>0, <1>1, <2>2 DEF VerdictOK, Early, Stands
  <2> QED BY <1>0, <2>1, <2>2
<1>8. \A n \in Nat : HasFinal(c, n + 1) => HasFinal(d, n) \/ n > Len(d.wire)
  <2> SUFFICES ASSUME NEW n \in Nat, HasFinal(c, n + 1), n <= Len(d.wire) PROVE HasFinal(d, n)
    BY <1>0, <1>2
  <2>1. CASE c.final # None
    BY <1>0, <1>2, <1>3, <2>1 DEF HasFinal, EventOK
  <2>2. CASE e.type = "final"
    BY <1>0, <1>6, <2>2 DEF HasFinal
  <2>3. ASSUME NEW j \in 1 .. n + 1, c.wire[j].type = "final", j # 1 PROVE HasFinal(d, n)
    <3>1. j - 1 \in 1 .. n /\ j - 1 \in 1 .. Len(d.wire) /\ j - 1 + 1 = j
      BY <1>0, <1>2, <2>3
    <3>2. d.wire[j - 1] = c.wire[j]
      BY <1>0, <1>2, <3>1
    <3> QED BY <1>0, <2>3, <3>1, <3>2 DEF HasFinal
  <2> QED BY <1>0, <1>2, <2>1, <2>2, <2>3 DEF HasFinal
<1>9. ASSUME NEW k \in 1 .. Len(d.wire) PROVE EventOK(d, i, O, k)
  <2>1. k + 1 \in 1 .. Len(c.wire) /\ k + 1 - 1 = k /\ k \in Nat /\ k - 1 \in Nat
        /\ k - 1 + 1 = k /\ ~(k - 1 > Len(d.wire)) /\ 1 \in 1 .. k
    BY <1>0, <1>2
  <2>2. EventOK(c, i, O, k + 1)
    BY <1>0, <1>1, <2>1 DEF WireOK
  <2>3. d.wire[k] = c.wire[k + 1]
    BY <1>0, <1>2
  <2>4. ASSUME NEW j \in 1 .. (k - 1) PROVE d.wire[j] = c.wire[j + 1] /\ j + 1 \in 1 .. k
    <3>1. Len(d.wire) \in Nat /\ k \in Nat /\ k <= Len(d.wire)
      BY <1>2
    <3>2. j \in 1 .. Len(d.wire) /\ j + 1 \in 1 .. k
      BY <3>1
    <3> QED BY <1>2, <3>2
  <2>5. HasFinal(c, k) => HasFinal(d, k - 1)
    BY <1>0, <1>8, <2>1
  <2>6. d.wire[k].type = "final" => d.final = None
    BY <1>0, <1>2, <2>1, <2>2, <2>3 DEF EventOK
  <2> QED BY <1>0, <2>1, <2>2, <2>3, <2>4, <2>5, <2>6 DEF EventOK, Early, Stands
<1>10. Stands(d, i, O) => HasFinal(d, Len(d.wire))
  <2>1. Len(c.wire) = Len(d.wire) + 1 /\ Len(d.wire) \in Nat
    BY <1>0, <1>2
  <2> QED BY <1>0, <1>1, <1>8, <2>1 DEF WireOK, Stands
<1>11. CallOK(d, i, O)
  BY <1>0, <1>2, <1>4, <1>7, <1>9, <1>10 DEF CallOK, WireOK
<1>12. NoSearch(c) \/ e.type = "search_started" => NoSearch(d)
  <2>1. \A k \in 1 .. Len(d.wire) : k + 1 \in 1 .. Len(c.wire) /\ 1 \in 1 .. (k + 1 - 1)
    BY <1>0, <1>2
  <2>2. NoSearch(c) => NoSearch(d)
    BY <1>0, <1>2, <2>1 DEF NoSearch
  <2>3. e.type = "search_started" => \A k \in 1 .. Len(d.wire) : d.wire[k].type # "search_started"
    <3> SUFFICES ASSUME e.type = "search_started", NEW k \in 1 .. Len(d.wire),
                        d.wire[k].type = "search_started" PROVE FALSE
      OBVIOUS
    <3>1. EventOK(c, i, O, k + 1)
      BY <1>0, <1>1, <2>1 DEF WireOK
    <3> QED BY <1>0, <1>2, <2>1, <3>1 DEF EventOK
  <2> QED BY <1>0, <1>4, <2>2, <2>3 DEF NoSearch
<1>13. e.type = "search_started" => e.value = i /\ ~NoSearch(c)
  BY <1>0, <1>2, <1>3 DEF EventOK, NoSearch
<1>14. e.type = "final" => /\ c.final = None /\ d.final # None /\ e.value \in Given(c.agent)
                           /\ i \in O => e.value = c.verdict
  BY <1>0, <1>2, <1>3, <1>6 DEF EventOK, Stands
<1>15. e.type = "committed" => e.value = i /\ i \in O /\ c.final # None
  BY <1>0, <1>2, <1>3, <1>5 DEF EventOK
<1> QED BY <1>0, <1>11, <1>12, <1>13, <1>14, <1>15 DEF Learns

LEMMA LeftCall ==
  ASSUME NEW c, NEW d, NEW i, NEW O, CallOK(c, i, O), DOMAIN d = CallFields, d.agent = c.agent,
         d.stage = c.stage, d.verdict = c.verdict, d.reader # "open", d.wire = <<>>, d.final = None
  PROVE  CallOK(d, i, O)
BY DEF CallOK, VerdictOK, Early, Stands
-----------------------------------------------------------------------------
(* The server's part of the invariant: every request is well, and whatever *)
(* is filed in the contracts carries the verdict of the mined request that *)
(* filed it.                                                               *)

Attributed(v, m, q) == v.by # 0 => v.by \in Range(m) /\ v.decision = q[v.by].verdict.decision

Actions == {"MINT", "REDEEM"}

Tied ==
  /\ \A f \in book.verdicts : Attributed(f.verdict, mined, calls)
  /\ DOMAIN book.terra = Actions
  /\ \A action \in Actions : /\ IsSeq(book.terra[action])
                            /\ \A n \in 1 .. Len(book.terra[action]) : Attributed(book.terra[action][n], mined, calls)
  /\ \A i \in Range(mined) : calls[i].agent = "adjudicate" => Resolved(book, calls[i].key)

ServerInv ==
  /\ \A i \in 1 .. Len(calls) : CallOK(calls[i], i, OnChain)
  /\ OnChain \subseteq 1 .. Len(calls) /\ IsSeq(mined)
  /\ Tied

(* Requests that are made, served, read or left.                           *)
LEMMA CallsMove ==
  ASSUME ServerInv, UNCHANGED <<mined, book>>, OnChain \subseteq OnChain',
         \A i \in 1 .. Len(calls') : CallOK(calls'[i], i, OnChain'),
         OnChain' \subseteq 1 .. Len(calls'),
         \A i \in OnChain : /\ calls'[i].verdict = calls[i].verdict
                           /\ calls'[i].agent = calls[i].agent /\ calls'[i].key = calls[i].key
  PROVE  ServerInv'
<1>1. Range(mined) \subseteq OnChain /\ Range(mined)' = Range(mined)
  BY DEF OnChain
<1>2. \A v : Attributed(v, mined, calls) => Attributed(v, mined', calls')
  BY <1>1 DEF Attributed
<1>3. Tied'
  BY <1>1, <1>2 DEF ServerInv, Tied, Resolved
<1> QED BY <1>3 DEF ServerInv

LEMMA SetCall ==
  ASSUME Requests(calls), NEW i \in 1 .. Len(calls), NEW d
  PROVE  /\ Len([calls EXCEPT ![i] = d]) = Len(calls) /\ [calls EXCEPT ![i] = d][i] = d
         /\ \A j \in 1 .. Len(calls) : j # i => [calls EXCEPT ![i] = d][j] = calls[j]
<1>1. PICK S : calls \in Seq(S)
  BY DEF Requests
<1>2. calls \in Seq(S \cup {d}) /\ d \in S \cup {d}
  BY <1>1, SeqMonotonic
<1> QED BY <1>2, ExceptSeq

LEMMA ServeServer ==
  ASSUME MarketInv, ServerInv, NEW i \in 1 .. Len(calls), Serve(i) \/ Kill(i)
  PROVE  /\ ServerInv' /\ OnChain \subseteq OnChain' /\ Len(calls') = Len(calls)
         /\ UNCHANGED <<mined, book>>
         /\ \A j \in 1 .. Len(calls) : /\ SameCall(calls[j], calls'[j])
                                       /\ NoSearch(calls[j]) => NoSearch(calls'[j])
                                       /\ j \in OnChain => calls'[j].verdict = calls[j].verdict
<1>1. /\ i \notin OnChain /\ UNCHANGED mined /\ (OnChain' = OnChain \/ OnChain' = OnChain \cup {i})
      /\ \E d : calls' = [calls EXCEPT ![i] = d] /\ Serves(calls[i], d, i, OnChain')
  BY ServeCall DEF MarketInv, Signed, ServerInv
<1>2. PICK d : calls' = [calls EXCEPT ![i] = d] /\ Serves(calls[i], d, i, OnChain')
  BY <1>1
<1>3. /\ Len(calls') = Len(calls) /\ calls'[i] = d
      /\ \A j \in 1 .. Len(calls) : j # i => calls'[j] = calls[j]
  BY <1>2, SetCall DEF MarketInv, Signed
<1>4. UNCHANGED book
  BY ServeKeeps DEF MarketInv, Signed
<1>5. ASSUME NEW j \in 1 .. Len(calls)
      PROVE  /\ CallOK(calls'[j], j, OnChain') /\ SameCall(calls[j], calls'[j])
             /\ NoSearch(calls[j]) => NoSearch(calls'[j])
             /\ j \in OnChain => calls'[j].verdict = calls[j].verdict
  <2>1. CASE j = i
    BY <1>1, <1>2, <1>3, <2>1 DEF Serves
  <2>2. CASE j # i
    <3>1. calls'[j] = calls[j] /\ (j \in OnChain <=> j \in OnChain') /\ CallOK(calls[j], j, OnChain)
      BY <1>1, <1>3, <2>2 DEF ServerInv
    <3>2. CallOK(calls[j], j, OnChain')
      BY <3>1, Elsewhere
    <3>3. SameCall(calls[j], calls[j])
      BY DEF SameCall, MarketInv, Signed, Requests
    <3> QED BY <3>1, <3>2, <3>3
  <2> QED BY <2>1, <2>2
<1>6. OnChain' \subseteq 1 .. Len(calls')
  BY <1>1, <1>3 DEF ServerInv
<1>7. ServerInv'
  <2>1. OnChain \subseteq 1 .. Len(calls) /\ OnChain \subseteq OnChain'
    BY <1>1 DEF ServerInv
  <2> QED BY <1>1, <1>3, <1>4, <1>5, <1>6, <2>1, CallsMove DEF SameCall
<1> QED BY <1>1, <1>3, <1>4, <1>5, <1>7
SameVerdict(c, d) == d.agent = c.agent /\ d.key = c.key /\ d.verdict = c.verdict

LEMMA ReadServer ==
  ASSUME MarketInv, ServerInv, NEW i \in 1 .. Len(calls), ReadEvent(i)
  PROVE  /\ ServerInv' /\ OnChain' = OnChain /\ Len(calls') = Len(calls)
         /\ \A j \in 1 .. Len(calls) : j # i => calls'[j] = calls[j]
         /\ \A j \in 1 .. Len(calls) : SameVerdict(calls[j], calls'[j])
         /\ Takes(calls[i], calls'[i], Head(calls[i].wire))
         /\ Learns(calls[i], calls'[i], i, OnChain, Head(calls[i].wire))
<1> DEFINE c == calls[i]
           d == calls'[i]
           e == Head(c.wire)
<1>1. c.reader = "open" /\ c.wire # <<>> /\ UNCHANGED <<pool, mined, book>>
  BY DEF ReadEvent
<1>2. DOMAIN c = CallFields /\ i \in DOMAIN calls /\ c.agent \in Agents
  BY LenProperties DEF MarketInv, Signed, Requests
<1> DEFINE taken == [c EXCEPT !.wire = Tail(@)]
           new == IF e.type = "final" THEN [taken EXCEPT !.final = e.value] ELSE taken
<1>3. calls' = [calls EXCEPT ![i] = new]
  BY <1>2 DEF ReadEvent, CallFields
<1>4. /\ Len(calls') = Len(calls) /\ d = new
      /\ \A j \in 1 .. Len(calls) : j # i => calls'[j] = calls[j]
  <2> HIDE DEF new
  <2> QED BY <1>3, SetCall DEF MarketInv, Signed
<1>5. Takes(c, d, e) /\ SameVerdict(c, d)
  BY <1>1, <1>2, <1>4 DEF CallFields, SameVerdict, Takes
<1> HIDE DEF c, d, e, taken, new
<1>6. CallOK(c, i, OnChain)
  BY DEF ServerInv, c
<1>7. CallOK(d, i, OnChain) /\ Learns(c, d, i, OnChain, e)
  BY <1>5, <1>6, ReadCall
<1>8. OnChain' = OnChain
  BY <1>1 DEF OnChain
<1>9. \A j \in 1 .. Len(calls) : SameVerdict(calls[j], calls'[j])
  BY <1>4, <1>5 DEF SameVerdict, c, d
<1>10. ServerInv'
  <2>1. \A j \in 1 .. Len(calls') : CallOK(calls'[j], j, OnChain')
    BY <1>4, <1>7, <1>8 DEF ServerInv, d
  <2>2. \A j \in OnChain : SameVerdict(calls[j], calls'[j])
    BY <1>9 DEF ServerInv
  <2> QED BY <1>1, <1>4, <1>8, <2>1, <2>2, CallsMove DEF ServerInv, SameVerdict
<1> QED BY <1>4, <1>5, <1>7, <1>8, <1>9, <1>10 DEF c, d, e

LEMMA LeftCalls ==
  ASSUME MarketInv, ServerInv, NEW i \in 1 .. Len(calls), NEW reader, reader # "open",
         NEW q, q = Left(i, reader)
  PROVE  /\ Len(q) = Len(calls) /\ q[i].reader = reader /\ q[i].final = None
         /\ \A j \in 1 .. Len(calls) : j # i => q[j] = calls[j]
         /\ \A j \in 1 .. Len(calls) : CallOK(q[j], j, OnChain) /\ SameVerdict(calls[j], q[j])
<1> DEFINE c == calls[i]
           d == [c EXCEPT !.reader = reader, !.wire = <<>>, !.final = None]
<1>1. DOMAIN c = CallFields /\ i \in DOMAIN calls /\ CallOK(c, i, OnChain)
  BY LenProperties DEF MarketInv, Signed, Requests, ServerInv
<1>2. q = [calls EXCEPT ![i] = d]
  BY <1>1 DEF Left, CallFields
<1>3. /\ DOMAIN d = CallFields /\ SameVerdict(c, d) /\ d.stage = c.stage /\ d.reader = reader
      /\ d.wire = <<>> /\ d.final = None
  BY <1>1 DEF CallFields, SameVerdict
<1> HIDE DEF d
<1>4. Len(q) = Len(calls) /\ q[i] = d /\ \A j \in 1 .. Len(calls) : j # i => q[j] = calls[j]
  BY <1>2, SetCall DEF MarketInv, Signed
<1>5. CallOK(d, i, OnChain)
  BY <1>1, <1>3, LeftCall DEF SameVerdict
<1>6. \A j \in 1 .. Len(calls) : CallOK(q[j], j, OnChain) /\ SameVerdict(calls[j], q[j])
  BY <1>3, <1>4, <1>5 DEF ServerInv, SameVerdict
<1> QED BY <1>3, <1>4, <1>6

LEMMA LeaveServer ==
  ASSUME MarketInv, ServerInv, NEW i \in 1 .. Len(calls), EndOfStream(i) \/ Disconnect(i)
  PROVE  /\ ServerInv' /\ OnChain' = OnChain /\ Len(calls') = Len(calls)
         /\ calls'[i].reader # "open"
         /\ \A j \in 1 .. Len(calls) : j # i => calls'[j] = calls[j]
         /\ \A j \in 1 .. Len(calls) : SameVerdict(calls[j], calls'[j])
<1>1. UNCHANGED <<pool, mined, book>> /\ calls' \in {Left(i, "done"), Left(i, "gone")}
  BY DEF EndOfStream, Disconnect
<1>2. OnChain' = OnChain
  BY <1>1 DEF OnChain
<1>3. /\ Len(calls') = Len(calls) /\ calls'[i].reader # "open"
      /\ \A j \in 1 .. Len(calls) : j # i => calls'[j] = calls[j]
      /\ \A j \in 1 .. Len(calls) : CallOK(calls'[j], j, OnChain) /\ SameVerdict(calls[j], calls'[j])
  <2>1. CASE calls' = Left(i, "done")
    BY <2>1, LeftCalls
  <2>2. CASE calls' = Left(i, "gone")
    BY <2>2, LeftCalls
  <2> QED BY <1>1, <2>1, <2>2
<1>4. ServerInv'
  <2>1. \A j \in 1 .. Len(calls') : CallOK(calls'[j], j, OnChain')
    BY <1>2, <1>3
  <2>2. OnChain' \subseteq 1 .. Len(calls') /\ OnChain \subseteq 1 .. Len(calls) /\ OnChain \subseteq OnChain'
    BY <1>2, <1>3 DEF ServerInv
  <2> QED BY <1>1, <1>3, <2>1, <2>2, CallsMove DEF SameVerdict
<1> QED BY <1>2, <1>3, <1>4

LEMMA AbortedCalls ==
  ASSUME MarketInv, ServerInv, page = "adjudicate"
  PROVE  /\ Len(Aborted) = Len(calls)
         /\ \A j \in 1 .. Len(calls) : CallOK(Aborted[j], j, OnChain) /\ SameVerdict(calls[j], Aborted[j])
<1>1. CASE view.ctrl = None
  BY <1>1 DEF Aborted, ServerInv, SameVerdict
<1>2. CASE view.ctrl # None
  <2>1. view.ctrl \in 1 .. Len(calls)
    BY <1>2 DEF MarketInv, Attended
  <2> QED BY <1>2, <2>1, LeftCalls DEF Aborted
<1> QED BY <1>1, <1>2

LEMMA FreshCall ==
  ASSUME NEW agent \in Agents, NEW key, NEW i, NEW O, i \notin O
  PROVE  CallOK(Call(agent, key), i, O) /\ DOMAIN Call(agent, key) = CallFields
<1> DEFINE c == Call(agent, key)
<1>1. /\ DOMAIN c = CallFields /\ c.agent = agent /\ c.stage = "received" /\ c.final = None
      /\ c.wire = <<>> /\ c.reader = "open"
  BY DEF Call, CallFields
<1> HIDE DEF c
<1>2. IsSeq(c.wire) /\ Len(c.wire) = 0
  BY <1>1 DEF IsSeq
<1>3. CallOK(c, i, O)
  BY <1>1, <1>2 DEF CallOK, VerdictOK, WireOK, Early, Stands
<1> QED BY <1>1, <1>3 DEF c

(* A request is made, after those before it were left or not.              *)
LEMMA AskServer ==
  ASSUME MarketInv, ServerInv, NEW q, Requests(q), Len(q) = Len(calls),
         \A j \in 1 .. Len(calls) : CallOK(q[j], j, OnChain) /\ SameVerdict(calls[j], q[j]),
         NEW agent \in Agents, NEW key, calls' = Append(q, Call(agent, key)),
         UNCHANGED <<pool, mined, book>>
  PROVE  /\ ServerInv' /\ OnChain' = OnChain /\ Len(calls) \in Nat /\ Len(calls') = Len(calls) + 1
         /\ calls'[Len(calls) + 1] = Call(agent, key)
         /\ \A j \in 1 .. Len(calls) : calls'[j] = q[j]
<1>1. OnChain' = OnChain
  BY DEF OnChain
<1> DEFINE c == Call(agent, key)
<1>2. DOMAIN c = CallFields /\ c.agent = agent /\ c.stage # "prepared"
  BY DEF Call, CallFields
<1>3. Len(calls) \in Nat
  BY LenProperties DEF MarketInv, Signed, Requests
<1>4. Len(calls) + 1 \notin OnChain
  BY <1>3 DEF ServerInv
<1>5. CallOK(c, Len(calls) + 1, OnChain)
  BY <1>4, FreshCall
<1> HIDE DEF c
<1>6. /\ Len(calls') = Len(calls) + 1 /\ calls'[Len(calls) + 1] = c
      /\ \A j \in 1 .. Len(calls) : calls'[j] = q[j]
  <2>1. calls' = Append(q, c)
    BY DEF c
  <2> QED BY <1>2, <2>1, Added
<1>7. \A j \in 1 .. Len(calls') : CallOK(calls'[j], j, OnChain')
  <2>1. \A j \in 1 .. Len(calls') : j \in 1 .. Len(calls) \/ j = Len(calls) + 1
    BY <1>3, <1>6
  <2> QED BY <1>1, <1>5, <1>6, <2>1
<1>8. ServerInv'
  <2>1. OnChain' \subseteq 1 .. Len(calls')
    BY <1>1, <1>3, <1>6 DEF ServerInv
  <2>2. \A j \in OnChain : SameVerdict(calls[j], calls'[j])
    BY <1>6 DEF ServerInv
  <2> QED BY <1>1, <1>7, <2>1, <2>2, CallsMove DEF SameVerdict
<1> QED BY <1>1, <1>3, <1>6, <1>8 DEF c
-----------------------------------------------------------------------------
(* The chain.                                                              *)
LEMMA RangeAppend ==
  ASSUME NEW w, IsSeq(w), NEW e
  PROVE  IsSeq(Append(w, e)) /\ Range(Append(w, e)) = Range(w) \cup {e}
<1>1. PICK S : w \in Seq(S)
  BY DEF IsSeq
<1>2. w \in Seq(S \cup {e}) /\ e \in S \cup {e} /\ Len(w) \in Nat /\ DOMAIN w = 1 .. Len(w)
  BY <1>1, SeqMonotonic, LenProperties
<1>3. /\ Append(w, e) \in Seq(S \cup {e}) /\ Len(Append(w, e)) = Len(w) + 1
      /\ Append(w, e)[Len(w) + 1] = e
      /\ \A k \in 1 .. Len(w) : Append(w, e)[k] = w[k]
  BY <1>2, AppendProperties
<1>4. DOMAIN Append(w, e) = 1 .. Len(w) + 1
  BY <1>3, LenProperties
<1>5. IsSeq(Append(w, e))
  BY <1>3 DEF IsSeq
<1>6. ASSUME NEW x PROVE x \in Range(Append(w, e)) <=> x \in Range(w) \cup {e}
  <2>1. ASSUME x \in Range(Append(w, e)) PROVE x \in Range(w) \cup {e}
    <3>1. PICK k \in 1 .. Len(w) + 1 : x = Append(w, e)[k]
      BY <1>4, <2>1 DEF Range
    <3>2. k \in 1 .. Len(w) \/ k = Len(w) + 1
      BY <1>2
    <3> QED BY <1>2, <1>3, <3>1, <3>2 DEF Range
  <2>2. ASSUME x \in Range(w) PROVE x \in Range(Append(w, e))
    <3>1. PICK k \in 1 .. Len(w) : x = w[k]
      BY <1>2, <2>2 DEF Range
    <3>2. k \in 1 .. Len(w) + 1
      BY <1>2
    <3> QED BY <1>3, <1>4, <3>1, <3>2 DEF Range
  <2>3. e \in Range(Append(w, e))
    <3>1. Len(w) + 1 \in 1 .. Len(w) + 1
      BY <1>2
    <3> QED BY <1>3, <1>4, <3>1 DEF Range
  <2> QED BY <2>1, <2>2, <2>3
<1> QED BY <1>5, <1>6

(* A mined transaction files the verdict of its own request, and nothing   *)
(* else; a market whose request is mined is resolved, by it or before it.  *)
LEMMA MinedVerdicts ==
  ASSUME MarketInv, ServerInv, NEW i \in pool
  PROVE  /\ \A f \in Executed(i).verdicts :
              \/ f \in book.verdicts
              \/ f.verdict.by = i /\ f.verdict.decision = calls[i].verdict.decision
         /\ DOMAIN Executed(i).terra = DOMAIN book.terra
         /\ \A action \in Actions :
              LET rounds == Executed(i).terra[action]
              IN  rounds = book.terra[action] \/ rounds = Append(book.terra[action], Filed(i))
         /\ calls[i].agent = "adjudicate" => Resolved(Executed(i), calls[i].key)
<1>1. /\ BookTyped(book) /\ i \in 1 .. Len(calls) /\ i \in OnChain
      /\ calls[i].agent \in Agents \ {"fund"} /\ DOMAIN book.terra = Actions
  BY DEF MarketInv, Signed, Requests, ServerInv, Tied, OnChain
<1>2. Filed(i).by = i /\ Filed(i).decision = calls[i].verdict.decision
  BY DEF Filed, Verdict
<1>3. CASE calls[i].agent = "terra"
  <2>1. Executed(i) = [book EXCEPT !.terra[calls[i].key] = Append(@, Filed(i))]
    BY <1>3 DEF Executed, commitTerraVerdict, TerraReport
  <2>2. Executed(i).verdicts = book.verdicts
    BY <1>1, <2>1 DEF BookTyped
  <2>3. Executed(i).terra = [book.terra EXCEPT ![calls[i].key] = Append(@, Filed(i))]
    BY <1>1, <2>1 DEF BookTyped
  <2> QED BY <1>1, <1>3, <2>2, <2>3
<1>4. ASSUME NEW agent, NEW key, NEW v, v.by = i, v.decision = calls[i].verdict.decision
      PROVE  LET b == Overwrite(book, agent, key, v)
             IN  /\ \A f \in b.verdicts :
                      \/ f \in book.verdicts
                      \/ f.verdict.by = i /\ f.verdict.decision = calls[i].verdict.decision
                 /\ b.terra = book.terra
  <2> DEFINE new == [agent |-> agent, key |-> key, verdict |-> v]
             b == Overwrite(book, agent, key, v)
  <2>1. /\ b.verdicts = {f \in book.verdicts : f.agent # agent \/ f.key # key} \cup {new}
        /\ b.terra = book.terra
    BY <1>1 DEF Overwrite, BookTyped
  <2>2. new.verdict = v
    OBVIOUS
  <2> HIDE DEF new, b
  <2>3. /\ \A f \in b.verdicts :
              \/ f \in book.verdicts
              \/ f.verdict.by = i /\ f.verdict.decision = calls[i].verdict.decision
        /\ b.terra = book.terra
    BY <1>4, <2>1, <2>2
  <2> QED BY <2>3 DEF b
<1>5. CASE calls[i].agent = "bridge"
  <2>1. Executed(i) = Overwrite(book, "bridge", calls[i].key, Filed(i))
    BY <1>5 DEF Executed, commitBridgeVerdict, BridgeReport
  <2> QED BY <1>2, <1>4, <1>5, <2>1
<1>6. CASE calls[i].agent = "governance"
  <2>1. Executed(i) = Overwrite(book, "governance", calls[i].key, Filed(i))
    BY <1>6 DEF Executed, commitGovernanceVerdict, GovernanceReview
  <2> QED BY <1>2, <1>4, <1>6, <2>1
<1>7. CASE calls[i].agent = "aviation"
  <2>1. Executed(i) = Overwrite(book, "aviation", calls[i].key, Filed(i))
    BY <1>7 DEF Executed, commitAviationVerdict, AviationReview
  <2> QED BY <1>2, <1>4, <1>7, <2>1
<1>8. CASE calls[i].agent = "adjudicate"
  <2> DEFINE key == calls[i].key
             v == [Filed(i) EXCEPT !.winner = calls[i].verdict.winningOption]
  <2>1. v.by = i /\ v.decision = calls[i].verdict.decision
    BY DEF Filed, Verdict
  <2>2. calls[i].verdict.decision = "RESOLVED"
    <3>1. calls[i].verdict \in Given("adjudicate")
      BY <1>1, <1>8 DEF ServerInv, CallOK, VerdictOK, Stands
    <3> QED BY <3>1 DEF Given
  <2>3. Executed(i) = IF Resolved(book, key) THEN book ELSE Overwrite(book, "adjudicate", key, v)
    BY <1>8 DEF Executed, commitAdjudicatorVerdict, Resolve
  <2> HIDE DEF v
  <2>4. Latest(Overwrite(book, "adjudicate", key, v), "adjudicate", key) = v
    BY <1>1, FiledLast
  <2>5. Resolved(Executed(i), key)
    BY <2>1, <2>2, <2>3, <2>4 DEF Resolved
  <2>6. CASE Resolved(book, key)
    BY <2>3, <2>5, <2>6
  <2>7. CASE ~Resolved(book, key)
    BY <1>4, <2>1, <2>3, <2>5, <2>7
  <2> QED BY <2>6, <2>7
<1> QED BY <1>1, <1>3, <1>5, <1>6, <1>7, <1>8 DEF Agents

LEMMA OneMoreRound ==
  ASSUME NEW m, NEW q, NEW old, IsSeq(old), \A n \in 1 .. Len(old) : Attributed(old[n], m, q),
         NEW v, Attributed(v, m, q), NEW w, w = old \/ w = Append(old, v)
  PROVE  IsSeq(w) /\ \A n \in 1 .. Len(w) : Attributed(w[n], m, q)
<1>1. CASE w = Append(old, v)
  <2>1. IsSeq(w) /\ Len(old) \in Nat /\ Len(w) = Len(old) + 1 /\ w[Len(old) + 1] = v
    BY <1>1, Appended
  <2>2. \A n \in 1 .. Len(old) : w[n] = old[n]
    BY <1>1, Appended
  <2>3. \A n \in 1 .. Len(w) : n \in 1 .. Len(old) \/ n = Len(old) + 1
    BY <2>1
  <2> QED BY <2>1, <2>2, <2>3
<1> QED BY <1>1

LEMMA MineServer ==
  ASSUME MarketInv, ServerInv, Mine
  PROVE  ServerInv' /\ OnChain' = OnChain
<1>1. PICK i \in pool : /\ pool' = pool \ {i} /\ mined' = Append(mined, i)
                       /\ book' = Executed(i) /\ UNCHANGED calls
  BY DEF Mine
<1>2. IsSeq(mined') /\ Range(mined)' = Range(mined) \cup {i}
  BY <1>1, RangeAppend DEF ServerInv
<1>3. OnChain' = OnChain
  BY <1>1, <1>2 DEF OnChain
<1>4. /\ \A v : Attributed(v, mined, calls) => Attributed(v, mined', calls')
      /\ \A v : v.by = i /\ v.decision = calls[i].verdict.decision => Attributed(v, mined', calls')
  BY <1>1, <1>2 DEF Attributed
<1>5. \A f \in book'.verdicts : Attributed(f.verdict, mined', calls')
  <2> SUFFICES ASSUME NEW f \in book'.verdicts PROVE Attributed(f.verdict, mined', calls')
    OBVIOUS
  <2>1. \/ f \in book.verdicts
        \/ f.verdict.by = i /\ f.verdict.decision = calls[i].verdict.decision
    BY <1>1, MinedVerdicts
  <2>2. f \in book.verdicts => Attributed(f.verdict, mined, calls)
    BY DEF ServerInv, Tied
  <2> QED BY <1>4, <2>1, <2>2
<1>6. ASSUME NEW action \in Actions
      PROVE  /\ IsSeq(book'.terra[action])
             /\ \A n \in 1 .. Len(book'.terra[action]) : Attributed(book'.terra[action][n], mined', calls')
  <2>1. IsSeq(book.terra[action])
        /\ \A n \in 1 .. Len(book.terra[action]) : Attributed(book.terra[action][n], mined', calls')
    BY <1>4 DEF ServerInv, Tied
  <2>2. book'.terra[action] = book.terra[action] \/ book'.terra[action] = Append(book.terra[action], Filed(i))
    BY <1>1, MinedVerdicts
  <2>3. Attributed(Filed(i), mined', calls')
    <3>1. Filed(i).by = i /\ Filed(i).decision = calls[i].verdict.decision
      BY DEF Filed, Verdict
    <3>2. i \in Range(mined') /\ calls' = calls
      BY <1>1, <1>2
    <3> QED BY <3>1, <3>2 DEF Attributed
  <2> QED BY <2>1, <2>2, <2>3, OneMoreRound
<1>7. ASSUME NEW j \in Range(mined'), calls'[j].agent = "adjudicate"
      PROVE  Resolved(book', calls'[j].key)
  <2>1. CASE j = i
    BY <1>1, <1>7, <2>1, MinedVerdicts
  <2>2. CASE j \in Range(mined)
    <3>1. Resolved(book, calls[j].key)
      BY <1>1, <1>7, <2>2 DEF ServerInv, Tied
    <3> QED BY <1>1, <3>1, MinedBook DEF Resolved
  <2> QED BY <1>2, <2>1, <2>2
<1>8. DOMAIN book'.terra = Actions
  BY <1>1, MinedVerdicts DEF ServerInv, Tied
<1>9. Tied'
  BY <1>5, <1>6, <1>7, <1>8 DEF Tied
<1>10. \A j \in 1 .. Len(calls') : CallOK(calls'[j], j, OnChain')
  BY <1>1, <1>3 DEF ServerInv
<1> QED BY <1>1, <1>2, <1>3, <1>9, <1>10 DEF ServerInv

LEMMA DeclineServer ==
  ASSUME MarketInv, ServerInv, NEW declined, Decline(declined)
  PROVE  ServerInv' /\ OnChain' = OnChain
<1>1. UNCHANGED <<calls, pool, mined>>
  BY DEF Decline
<1>2. OnChain' = OnChain
  BY <1>1 DEF OnChain
<1> DEFINE v == Verdict("REFUSED", 0, 0)
           new == [agent |-> "adjudicate", key |-> declined, verdict |-> v]
<1>3. ~Resolved(book, declined)
  BY DEF Decline, Resolved, Uninitialized, Verdict
<1>4. book' = Overwrite(book, "adjudicate", declined, v)
  BY <1>3 DEF Decline, Refuse
<1>5. v.by = 0 /\ new.verdict = v
  BY DEF Verdict
<1> HIDE DEF v
<1>6. /\ book'.verdicts \subseteq book.verdicts \cup {new} /\ book'.terra = book.terra
  BY <1>4 DEF Overwrite, MarketInv, Signed, BookTyped
<1> HIDE DEF new
<1>7. \A f \in book'.verdicts : Attributed(f.verdict, mined', calls')
  BY <1>1, <1>5, <1>6 DEF ServerInv, Tied, Attributed
<1>8. ASSUME NEW j \in Range(mined'), calls'[j].agent = "adjudicate"
      PROVE  Resolved(book', calls'[j].key)
  <2>1. Resolved(book, calls[j].key)
    BY <1>1, <1>8 DEF ServerInv, Tied
  <2> QED BY <1>1, <2>1, DeclinedBook DEF Resolved
<1>9. Tied'
  BY <1>1, <1>6, <1>7, <1>8 DEF ServerInv, Tied
<1> QED BY <1>1, <1>2, <1>9 DEF ServerInv

LEMMA IdleServer == ServerInv /\ UNCHANGED <<calls, pool, mined, book>> => ServerInv' /\ OnChain' = OnChain
<1> SUFFICES ASSUME ServerInv, UNCHANGED <<calls, pool, mined, book>> PROVE ServerInv' /\ OnChain' = OnChain
  OBVIOUS
<1>1. OnChain' = OnChain
  BY DEF OnChain
<1> QED BY <1>1 DEF ServerInv, Tied, Resolved
-----------------------------------------------------------------------------
(* Timelines.  The rows are of different requests, the latest first; only  *)
(* the head's may still be served, and only the head waits or is judged.   *)

EntryFields == {"block", "action", "amount", "pending", "verdict", "streaming", "commit",
                "commitError", "snapshot", "label", "call"}

ScenarioFields == {"subject", "events", "blockOffset", "pending", "presetLabel"}

EntryOK(e, q, O, pg) ==
  /\ DOMAIN e = EntryFields /\ e.call \in 1 .. Len(q)
  /\ pg = "terra" => e.action \in Actions
  /\ e.commit # None => /\ e.commit = e.call /\ e.call \in O /\ ~Waiting(e)
                        /\ e.verdict.decision = q[e.call].verdict.decision

TimelineOK(s, q, O, busy, pg) ==
  /\ DOMAIN s = ScenarioFields /\ s.pending \in BOOLEAN /\ IsSeq(s.events)
  /\ \A k \in 1 .. Len(s.events) : EntryOK(s.events[k], q, O, pg)
  /\ \A k \in 1 .. Len(s.events) : \A m \in 1 .. (k - 1) : s.events[k].call < s.events[m].call
  /\ \A k \in 1 .. Len(s.events) : k > 1 \/ busy = FALSE => ~Waiting(s.events[k])
  /\ s.events # <<>> /\ busy = TRUE => s.events[1].call = Len(q)
  /\ s.events # <<>> /\ s.events[1].pending => s.pending = TRUE /\ s.events[1].snapshot = s.subject
  /\ s.pending = TRUE => s.events # <<>> /\ s.events[1].pending /\ busy = TRUE

(* What a step may do to the rows that show a decision.                    *)
RowsKept(s, t) ==
  \A k \in 1 .. Len(s.events) : \A n \in 1 .. Len(t.events) :
    s.events[k].call = t.events[n].call /\ ~Waiting(s.events[k]) =>
      /\ t.events[n].verdict = s.events[k].verdict
      /\ s.events[k].commit # None => t.events[n].commit = s.events[k].commit

LEMMA EntryStays ==
  ASSUME NEW e, NEW q, NEW r, NEW O, NEW P, NEW pg, EntryOK(e, q, O, pg),
         \A k \in 1 .. Len(q) : k \in 1 .. Len(r), O \subseteq P,
         \A k \in O : r[k].verdict = q[k].verdict
  PROVE  EntryOK(e, r, P, pg)
BY DEF EntryOK

LEMMA TimelineStays ==
  ASSUME NEW s, NEW q, NEW r, NEW O, NEW P, NEW busy, NEW pg, TimelineOK(s, q, O, busy, pg),
         Len(r) = Len(q), O \subseteq P, \A k \in O : r[k].verdict = q[k].verdict
  PROVE  TimelineOK(s, r, P, busy, pg)
<1>1. \A e : EntryOK(e, q, O, pg) => EntryOK(e, r, P, pg)
  BY EntryStays
<1> QED BY <1>1 DEF TimelineOK

LEMMA Distinct ==
  ASSUME NEW s, NEW q, NEW O, NEW busy, NEW pg, TimelineOK(s, q, O, busy, pg), Len(q) \in Nat,
         NEW k \in 1 .. Len(s.events), NEW n \in 1 .. Len(s.events),
         s.events[k].call = s.events[n].call
  PROVE  k = n
<1>0. Len(s.events) \in Nat
  BY NoMore DEF TimelineOK
<1>1. /\ s.events[k].call \in Int /\ s.events[n].call \in Int
  BY DEF TimelineOK, EntryOK
<1>2. k < n => s.events[n].call < s.events[k].call
  BY <1>0 DEF TimelineOK
<1>3. n < k => s.events[k].call < s.events[n].call
  BY <1>0 DEF TimelineOK
<1> QED BY <1>0, <1>1, <1>2, <1>3

LEMMA Rehead ==
  ASSUME NEW w, IsSeq(w), w # <<>>, NEW h, NEW v, v = <<h>> \o Tail(w)
  PROVE  /\ IsSeq(v) /\ Len(v) = Len(w) /\ Len(w) \in Nat \ {0} /\ v # <<>>
         /\ v[1] = h /\ Head(w) = w[1]
         /\ \A k \in 1 .. Len(v) : k = 1 \/ v[k] = w[k]
<1>1. PICK S : w \in Seq(S)
  BY DEF IsSeq
<1>2. /\ Tail(w) \in Seq(S) /\ Len(Tail(w)) = Len(w) - 1 /\ Len(w) \in Nat \ {0}
      /\ \A k \in 1 .. Len(Tail(w)) : Tail(w)[k] = w[k + 1]
      /\ Head(w) = w[1]
  BY <1>1, HeadTailProperties, EmptySeq, LenProperties
<1>3. <<h>> \in Seq(S \cup {h}) /\ Tail(w) \in Seq(S \cup {h}) /\ Len(<<h>>) = 1 /\ <<h>>[1] = h
  BY <1>2, SeqMonotonic
<1>4. /\ v \in Seq(S \cup {h}) /\ Len(v) = Len(w)
      /\ \A k \in 1 .. Len(w) : v[k] = IF k <= 1 THEN <<h>>[k] ELSE Tail(w)[k - 1]
  BY <1>2, <1>3, ConcatProperties
<1>5. IsSeq(v) /\ v[1] = h /\ v # <<>>
  BY <1>2, <1>3, <1>4 DEF IsSeq
<1>6. ASSUME NEW k \in 1 .. Len(v), k # 1 PROVE v[k] = w[k]
  BY <1>2, <1>4, <1>6
<1> QED BY <1>2, <1>4, <1>5, <1>6

-----------------------------------------------------------------------------
(* The head changes, the rows below it stay.                               *)
LEMMA HeadChange ==
  ASSUME NEW s, NEW t, NEW q, NEW O, NEW pg, TimelineOK(s, q, O, TRUE, pg), Len(q) \in Nat,
         s.events # <<>>, NEW h, t.events = <<h>> \o Tail(s.events),
         DOMAIN t = ScenarioFields, t.pending \in BOOLEAN,
         EntryOK(h, q, O, pg), h.call = s.events[1].call,
         h.pending => t.pending = TRUE /\ h.snapshot = t.subject,
         NEW b, b = TRUE \/ (b = FALSE /\ ~Waiting(h) /\ t.pending = FALSE),
         t.pending = TRUE => h.pending,
         ~Waiting(s.events[1]) => /\ h.verdict = s.events[1].verdict
                                  /\ s.events[1].commit # None => h.commit = s.events[1].commit
  PROVE  TimelineOK(t, q, O, b, pg) /\ RowsKept(s, t)
<1> DEFINE w == s.events
           v == t.events
<1>1. IsSeq(w) /\ w # <<>> /\ v = <<h>> \o Tail(w)
  BY DEF TimelineOK
<1>2. /\ IsSeq(v) /\ Len(v) = Len(w) /\ Len(w) \in Nat \ {0} /\ v # <<>> /\ v[1] = h
      /\ \A k \in 1 .. Len(v) : k = 1 \/ v[k] = w[k]
  <2> HIDE DEF w, v
  <2>1. IsSeq(v)
    BY <1>1, Rehead
  <2>5. Len(v) = Len(w)
    BY <1>1, Rehead
  <2>4. Len(w) \in Nat \ {0}
    <3>1. Len(w) \in Nat /\ Len(w) # 0
      BY <1>1, EmptySeq, NoMore DEF IsSeq
    <3> QED BY <3>1
  <2>2. v # <<>> /\ v[1] = h
    BY <1>1, Rehead
  <2>3. \A k \in 1 .. Len(v) : k = 1 \/ v[k] = w[k]
    BY <1>1, Rehead
  <2> QED BY <2>1, <2>2, <2>3, <2>4, <2>5
<1>3. ASSUME NEW k \in 1 .. Len(v) PROVE v[k].call = w[k].call
  <2>1. CASE k = 1
    BY <1>2, <2>1
  <2>2. CASE k # 1
    BY <1>2, <2>2
  <2> QED BY <2>1, <2>2
<1>4. \A k \in 1 .. Len(v) : EntryOK(v[k], q, O, pg)
  BY <1>2 DEF TimelineOK
<1>5. \A k \in 1 .. Len(v) : \A m \in 1 .. (k - 1) : v[k].call < v[m].call
  <2> SUFFICES ASSUME NEW k \in 1 .. Len(v), NEW m \in 1 .. (k - 1) PROVE v[k].call < v[m].call
    OBVIOUS
  <2>1. k \in 1 .. Len(w) /\ m \in 1 .. Len(v)
    BY <1>2
  <2>2. w[k].call < w[m].call
    BY <2>1 DEF TimelineOK
  <2> QED BY <1>3, <2>1, <2>2
<1>6. \A k \in 1 .. Len(v) : k > 1 \/ b = FALSE => ~Waiting(v[k])
  <2> SUFFICES ASSUME NEW k \in 1 .. Len(v), k > 1 \/ b = FALSE PROVE ~Waiting(v[k])
    OBVIOUS
  <2>1. CASE k = 1
    BY <1>2, <2>1
  <2>2. CASE k # 1
    <3>1. k > 1 /\ k \in 1 .. Len(w) /\ v[k] = w[k]
      BY <1>2, <2>2
    <3> QED BY <3>1 DEF TimelineOK
  <2> QED BY <2>1, <2>2
<1>7. w[1].call = Len(q)
  BY <1>1 DEF TimelineOK
<1>8. TimelineOK(t, q, O, b, pg)
  BY <1>2, <1>4, <1>5, <1>6, <1>7 DEF TimelineOK
<1>9. RowsKept(s, t)
  <2> SUFFICES ASSUME NEW k \in 1 .. Len(w), NEW n \in 1 .. Len(v),
                      w[k].call = v[n].call, ~Waiting(w[k])
               PROVE  /\ v[n].verdict = w[k].verdict
                      /\ w[k].commit # None => v[n].commit = w[k].commit
    BY DEF RowsKept
  <2>1. n \in 1 .. Len(w) /\ w[n].call = w[k].call
    BY <1>2, <1>3
  <2>2. k = n
    BY <2>1, Distinct
  <2>3. CASE n = 1
    BY <1>2, <2>2, <2>3
  <2>4. CASE n # 1
    BY <1>2, <2>2, <2>4
  <2> QED BY <2>3, <2>4
<1> QED BY <1>8, <1>9

LEMMA SameEvents ==
  ASSUME NEW s, NEW t, NEW q, NEW O, NEW pg, NEW a, TimelineOK(s, q, O, a, pg), Len(q) \in Nat,
         t.events = s.events, DOMAIN t = ScenarioFields, t.pending \in BOOLEAN,
         s.events # <<>> /\ s.events[1].pending => t.pending = TRUE /\ s.events[1].snapshot = t.subject,
         NEW b, t.pending = TRUE => s.events # <<>> /\ s.events[1].pending /\ b = TRUE,
         a = b \/ (a = TRUE /\ b = FALSE /\ (s.events # <<>> => ~Waiting(s.events[1])))
  PROVE  TimelineOK(t, q, O, b, pg) /\ RowsKept(s, t)
<1> DEFINE w == s.events
<1>0. IsSeq(w) /\ Len(w) \in Nat
  BY NoMore DEF TimelineOK
<1>1. \A k \in 1 .. Len(w) : k > 1 \/ b = FALSE => ~Waiting(w[k])
  <2> SUFFICES ASSUME NEW k \in 1 .. Len(w), k > 1 \/ b = FALSE PROVE ~Waiting(w[k])
    OBVIOUS
  <2>1. CASE a = b
    BY <2>1 DEF TimelineOK
  <2>2. CASE k > 1
    BY <2>2 DEF TimelineOK
  <2>3. CASE k = 1 /\ (w # <<>> => ~Waiting(w[1]))
    <3>1. w # <<>>
      BY <1>0, <2>3
    <3> QED BY <2>3, <3>1
  <2> QED BY <1>0, <2>1, <2>2, <2>3
<1>2. TimelineOK(t, q, O, b, pg)
  BY <1>0, <1>1 DEF TimelineOK
<1>3. RowsKept(s, t)
  <2> SUFFICES ASSUME NEW k \in 1 .. Len(w), NEW n \in 1 .. Len(w), w[k].call = w[n].call
               PROVE  k = n
    BY DEF RowsKept
  <2> QED BY Distinct
<1> QED BY <1>2, <1>3

LEMMA PushOnly ==
  ASSUME NEW w, IsSeq(w), NEW e, NEW n \in 1 .. Len(w) + 1, NEW v, v = SubSeq(<<e>> \o w, 1, n)
  PROVE  /\ IsSeq(v) /\ Len(v) = n /\ Len(w) \in Nat /\ v[1] = e
         /\ \A k \in 1 .. n : k = 1 \/ (k - 1 \in 1 .. Len(w) /\ v[k] = w[k - 1])
<1>1. PICK S : w \in Seq(S)
  BY DEF IsSeq
<1>2. w \in Seq(S \cup {e}) /\ <<e>> \in Seq(S \cup {e}) /\ Len(w) \in Nat /\ Len(<<e>>) = 1 /\ <<e>>[1] = e
  BY <1>1, SeqMonotonic, LenProperties
<1> DEFINE all == <<e>> \o w
<1>3. /\ all \in Seq(S \cup {e}) /\ Len(all) = Len(w) + 1
      /\ \A k \in 1 .. Len(w) + 1 : all[k] = IF k <= 1 THEN <<e>>[k] ELSE w[k - 1]
  BY <1>2, ConcatProperties
<1>4. \A k \in 1 .. n : all[k] \in S \cup {e}
  BY <1>2, <1>3, ElementOfSeq
<1> HIDE DEF all
<1>5. /\ v \in Seq(S \cup {e}) /\ Len(v) = n
      /\ \A k \in 1 .. n : v[k] = all[k]
  <2>0. v = SubSeq(all, 1, n) /\ 1 \in Int /\ n \in Int /\ 1 <= n
    BY <1>2 DEF all
  <2>1. /\ v \in Seq(S \cup {e}) /\ Len(v) = n - 1 + 1
        /\ \A k \in 1 .. n - 1 + 1 : v[k] = all[1 + k - 1]
    BY <1>4, <2>0, SubSeqProperties
  <2>2. \A k \in 1 .. n : k \in 1 .. n - 1 + 1 /\ 1 + k - 1 = k
    BY <1>2
  <2> QED BY <1>2, <2>1, <2>2
<1>6. 1 \in 1 .. n
  BY <1>2
<1>7. v[1] = e
  BY <1>2, <1>3, <1>5, <1>6
<1>8. ASSUME NEW k \in 1 .. n, k # 1 PROVE k - 1 \in 1 .. Len(w) /\ v[k] = w[k - 1]
  BY <1>2, <1>3, <1>5, <1>8
<1> QED BY <1>2, <1>5, <1>7, <1>8 DEF IsSeq

(* A verdict lands on the head if the head waits for one.                  *)
Settles(s, t, v) ==
  /\ DOMAIN t = ScenarioFields /\ t.pending = FALSE
  /\ IF HeadPending(s)
     THEN t.events = <<[Head(s.events) EXCEPT !.pending = FALSE, !.verdict = v, !.streaming = 0]>>
                       \o Tail(s.events)
     ELSE t.events = s.events

(* What is said of the head besides.                                       *)
SameHead(s, t) ==
  /\ t.pending = s.pending /\ t.subject = s.subject
  /\ t.events = <<>> <=> s.events = <<>>
  /\ s.events # <<>> => t.events[1].verdict = s.events[1].verdict

LEMMA HeadOK ==
  ASSUME NEW s, NEW q, NEW O, NEW a, NEW pg, TimelineOK(s, q, O, a, pg), s.events # <<>>
  PROVE  /\ Head(s.events) = s.events[1] /\ EntryOK(s.events[1], q, O, pg)
         /\ HeadPending(s) <=> s.events[1].pending
         /\ 1 \in 1 .. Len(s.events) /\ Len(s.events) \in Nat
<1> DEFINE w == s.events
<1>1. IsSeq(w) /\ w # <<>>
  BY DEF TimelineOK
<1> HIDE DEF w
<1>2. Head(w) = w[1] /\ Len(w) \in Nat \ {0}
  BY <1>1, OneLess
<1>3. 1 \in 1 .. Len(w) /\ Len(w) \in Nat
  BY <1>2
<1> QED BY <1>2, <1>3 DEF w, TimelineOK, HeadPending

LEMMA Settled ==
  ASSUME NEW s, NEW t, NEW q, NEW O, NEW pg, TimelineOK(s, q, O, TRUE, pg), Len(q) \in Nat,
         NEW v, v # None, Settles(s, t, v)
  PROVE  /\ TimelineOK(t, q, O, TRUE, pg) /\ RowsKept(s, t)
         /\ HeadPending(s) => t.events # <<>> /\ t.events[1].verdict = v
<1>1. CASE HeadPending(s)
  <2> DEFINE e == s.events[1]
             h == [e EXCEPT !.pending = FALSE, !.verdict = v, !.streaming = 0]
  <2>1. s.events # <<>> /\ Head(s.events) = e /\ EntryOK(e, q, O, pg) /\ e.pending
    BY <1>1, HeadOK DEF HeadPending
  <2>2. t.events = <<h>> \o Tail(s.events) /\ DOMAIN t = ScenarioFields /\ t.pending = FALSE
    BY <1>1, <2>1 DEF Settles
  <2>3. Waiting(e) /\ e.commit = None
    BY <2>1 DEF EntryOK, Waiting
  <2>4. /\ DOMAIN h = EntryFields /\ h.pending = FALSE /\ h.verdict = v /\ h.call = e.call
        /\ h.commit = e.commit /\ h.action = e.action
    BY <2>1 DEF EntryOK, EntryFields
  <2>5. EntryOK(h, q, O, pg) /\ ~Waiting(h)
    BY <2>1, <2>3, <2>4 DEF EntryOK, Waiting
  <2> HIDE DEF h
  <2>6. TimelineOK(t, q, O, TRUE, pg)
    BY <2>1, <2>2, <2>3, <2>4, <2>5, HeadChange
  <2>7. RowsKept(s, t)
    BY <2>1, <2>2, <2>3, <2>4, <2>5, HeadChange
  <2>8. t.events # <<>> /\ t.events[1].verdict = v
    <3> DEFINE w == s.events
               u == t.events
    <3>1. IsSeq(w) /\ w # <<>> /\ u = <<h>> \o Tail(w)
      BY <2>1, <2>2 DEF TimelineOK
    <3> HIDE DEF w, u
    <3>2. u # <<>> /\ u[1] = h
      BY <3>1, Rehead
    <3> QED BY <2>4, <3>2 DEF u
  <2> QED BY <2>6, <2>7, <2>8
<1>2. CASE ~HeadPending(s)
  <2>1. t.events = s.events /\ DOMAIN t = ScenarioFields /\ t.pending = FALSE
    BY <1>2 DEF Settles
  <2>2. s.events # <<>> => ~s.events[1].pending
    BY <1>2, HeadOK
  <2>4. TimelineOK(t, q, O, TRUE, pg)
    BY <2>1, <2>2, SameEvents
  <2>5. RowsKept(s, t)
    BY <2>1, <2>2, SameEvents
  <2> QED BY <1>2, <2>4, <2>5
<1> QED BY <1>1, <1>2

(* A page whose head shows a decision may be free.                         *)
LEMMA Freed ==
  ASSUME NEW s, NEW q, NEW O, NEW pg, TimelineOK(s, q, O, TRUE, pg), Len(q) \in Nat,
         s.pending = FALSE, s.events # <<>> => ~Waiting(s.events[1])
  PROVE  TimelineOK(s, q, O, FALSE, pg)
<1>1. DOMAIN s = ScenarioFields /\ (s.events # <<>> => ~s.events[1].pending)
  BY DEF TimelineOK
<1> QED BY <1>1, SameEvents

(* A head that changes without becoming a decision.                        *)
LEMMA Touched ==
  ASSUME NEW s, NEW t, NEW q, NEW O, NEW pg, TimelineOK(s, q, O, TRUE, pg), Len(q) \in Nat,
         s.events # <<>>, NEW h, t = WithHead(s, h), EntryOK(h, q, O, pg),
         h.call = s.events[1].call, h.pending = s.events[1].pending,
         h.snapshot = s.events[1].snapshot, h.verdict = s.events[1].verdict,
         s.events[1].commit # None => h.commit = s.events[1].commit
  PROVE  TimelineOK(t, q, O, TRUE, pg) /\ RowsKept(s, t) /\ SameHead(s, t)
<1>1. DOMAIN s = ScenarioFields /\ s.pending \in BOOLEAN
  BY DEF TimelineOK
<1>2. /\ t.events = <<h>> \o Tail(s.events) /\ DOMAIN t = ScenarioFields
      /\ t.pending = s.pending /\ t.subject = s.subject
  BY <1>1 DEF WithHead, ScenarioFields
<1>3. /\ h.pending => t.pending = TRUE /\ h.snapshot = t.subject
      /\ t.pending = TRUE => h.pending
  BY <1>2 DEF TimelineOK
<1>4. TimelineOK(t, q, O, TRUE, pg)
  BY <1>1, <1>2, <1>3, HeadChange
<1>5. RowsKept(s, t)
  BY <1>1, <1>2, <1>3, HeadChange
<1>6. SameHead(s, t)
  <2> DEFINE w == s.events
             u == t.events
  <2>1. IsSeq(w) /\ w # <<>> /\ u = <<h>> \o Tail(w)
    BY <1>2 DEF TimelineOK
  <2> HIDE DEF w, u
  <2>2. u # <<>> /\ u[1] = h
    BY <2>1, Rehead
  <2> QED BY <1>2, <2>1, <2>2 DEF u, w, SameHead
<1> QED BY <1>4, <1>5, <1>6

-----------------------------------------------------------------------------
(* What the reducers do to a timeline, one by one.                         *)
LEMMA Unmoved ==
  ASSUME NEW s, NEW q, NEW O, NEW a, NEW pg, TimelineOK(s, q, O, a, pg), Len(q) \in Nat
  PROVE  RowsKept(s, s) /\ SameHead(s, s)
<1>1. ASSUME NEW k \in 1 .. Len(s.events), NEW n \in 1 .. Len(s.events),
             s.events[k].call = s.events[n].call
      PROVE  k = n
  BY <1>1, Distinct
<1> QED BY <1>1 DEF RowsKept, SameHead

LEMMA Streamed ==
  ASSUME NEW s, NEW q, NEW O, NEW pg, TimelineOK(s, q, O, TRUE, pg), Len(q) \in Nat,
         NEW text, NEW t, t = Stream(s, text)
  PROVE  TimelineOK(t, q, O, TRUE, pg) /\ RowsKept(s, t) /\ SameHead(s, t)
<1>1. CASE HeadPending(s)
  <2> DEFINE e == s.events[1]
             h == [e EXCEPT !.streaming = text]
  <2>1. s.events # <<>> /\ Head(s.events) = e /\ EntryOK(e, q, O, pg)
    BY <1>1, HeadOK DEF HeadPending
  <2>2. t = WithHead(s, h)
    BY <1>1, <2>1 DEF Stream
  <2>3. /\ DOMAIN h = EntryFields /\ h.pending = e.pending /\ h.verdict = e.verdict
        /\ h.call = e.call /\ h.commit = e.commit /\ h.action = e.action /\ h.snapshot = e.snapshot
    BY <2>1 DEF EntryOK, EntryFields
  <2>4. EntryOK(h, q, O, pg)
    BY <2>1, <2>3 DEF EntryOK, Waiting
  <2> HIDE DEF h
  <2> QED BY <2>1, <2>2, <2>3, <2>4, Touched
<1>2. CASE ~HeadPending(s)
  BY <1>2, Unmoved DEF Stream
<1> QED BY <1>1, <1>2

LEMMA Failed ==
  ASSUME NEW s, NEW q, NEW O, NEW pg, TimelineOK(s, q, O, TRUE, pg), Len(q) \in Nat,
         NEW t, t = BadgeError(s)
  PROVE  TimelineOK(t, q, O, TRUE, pg) /\ RowsKept(s, t) /\ SameHead(s, t)
<1>1. CASE s.events # <<>>
  <2> DEFINE e == s.events[1]
             h == [e EXCEPT !.commitError = TRUE]
  <2>1. s.events # <<>> /\ Head(s.events) = e /\ EntryOK(e, q, O, pg)
    BY <1>1, HeadOK
  <2>2. t = WithHead(s, h)
    BY <1>1, <2>1 DEF BadgeError
  <2>3. /\ DOMAIN h = EntryFields /\ h.pending = e.pending /\ h.verdict = e.verdict
        /\ h.call = e.call /\ h.commit = e.commit /\ h.action = e.action /\ h.snapshot = e.snapshot
    BY <2>1 DEF EntryOK, EntryFields
  <2>4. EntryOK(h, q, O, pg)
    BY <2>1, <2>3 DEF EntryOK, Waiting
  <2> HIDE DEF h
  <2> QED BY <2>1, <2>2, <2>3, <2>4, Touched
<1>2. CASE s.events = <<>>
  BY <1>2, Unmoved DEF BadgeError
<1> QED BY <1>1, <1>2

(* The badge is that of the page's last request, whose verdict the head    *)
(* shows.                                                                  *)
LEMMA Badged ==
  ASSUME NEW s, NEW q, NEW O, NEW pg, TimelineOK(s, q, O, TRUE, pg), Len(q) \in Nat,
         NEW t, t = Badge(s, Len(q)), Len(q) \in O,
         s.events # <<>> => /\ ~Waiting(s.events[1])
                            /\ s.events[1].verdict.decision = q[Len(q)].verdict.decision
  PROVE  TimelineOK(t, q, O, TRUE, pg) /\ RowsKept(s, t) /\ SameHead(s, t)
<1>1. CASE s.events # <<>>
  <2> DEFINE e == s.events[1]
             h == [e EXCEPT !.commit = Len(q)]
  <2>1. s.events # <<>> /\ Head(s.events) = e /\ EntryOK(e, q, O, pg)
    BY <1>1, HeadOK
  <2>2. t = WithHead(s, h)
    BY <1>1, <2>1 DEF Badge
  <2>3. /\ DOMAIN h = EntryFields /\ h.pending = e.pending /\ h.verdict = e.verdict
        /\ h.call = e.call /\ h.commit = Len(q) /\ h.action = e.action /\ h.snapshot = e.snapshot
    BY <2>1 DEF EntryOK, EntryFields
  <2>4. e.call = Len(q)
    BY <1>1 DEF TimelineOK
  <2>5. EntryOK(h, q, O, pg)
    BY <1>1, <2>1, <2>3, <2>4 DEF EntryOK, Waiting
  <2>6. e.commit # None => h.commit = e.commit
    BY <2>1, <2>3, <2>4 DEF EntryOK
  <2> HIDE DEF h
  <2> QED BY <2>1, <2>2, <2>3, <2>5, <2>6, Touched
<1>2. CASE s.events = <<>>
  BY <1>2, Unmoved DEF Badge
<1> QED BY <1>1, <1>2

(* A placeholder goes up for a request that is made with it.               *)
Pushes(s, t, call, pg) ==
  \E action, amount : /\ pg = "terra" => action \in Actions
                      /\ t = Push(s, Entry(s, action, amount, call))

PushFits(s, t, q, r, O, pg) ==
  /\ TimelineOK(s, q, O, FALSE, pg) /\ Len(q) \in Nat /\ s.pending = FALSE
  /\ O \subseteq 1 .. Len(q) /\ Len(r) = Len(q) + 1
  /\ \A k \in O : r[k].verdict = q[k].verdict
  /\ Pushes(s, t, Len(q) + 1, pg)

LEMMA Pushed ==
  ASSUME NEW s, NEW t, NEW q, NEW r, NEW O, NEW pg, PushFits(s, t, q, r, O, pg)
  PROVE  TimelineOK(t, r, O, TRUE, pg) /\ RowsKept(s, t) /\ t.pending = TRUE /\ t.subject = s.subject
<1> /\ TimelineOK(s, q, O, FALSE, pg) /\ Len(q) \in Nat /\ s.pending = FALSE
    /\ O \subseteq 1 .. Len(q) /\ Len(r) = Len(q) + 1
    /\ \A k \in O : r[k].verdict = q[k].verdict
    /\ Pushes(s, t, Len(q) + 1, pg)
  BY DEF PushFits
<1>0. PICK action, amount : /\ pg = "terra" => action \in Actions
                            /\ t = Push(s, Entry(s, action, amount, Len(q) + 1))
  BY DEF Pushes
<1> DEFINE e == Entry(s, action, amount, Len(q) + 1)
           w == s.events
           v == t.events
           all == <<e>> \o w
           n == IF Len(all) < MaxEvents THEN Len(all) ELSE MaxEvents
<1>1. DOMAIN s = ScenarioFields /\ IsSeq(w)
  BY DEF TimelineOK
<1>2. /\ DOMAIN e = EntryFields /\ e.pending = TRUE /\ e.commit = None /\ e.call = Len(q) + 1
      /\ e.snapshot = s.subject /\ e.action = action
  BY DEF Entry, EntryFields
<1>3. /\ DOMAIN t = ScenarioFields /\ t.pending = TRUE /\ t.subject = s.subject
      /\ v = SubSeq(all, 1, n)
  BY <1>0, <1>1 DEF Push, ScenarioFields
<1>4. n \in 1 .. Len(w) + 1
  <2>1. PICK S : w \in Seq(S)
    BY <1>1 DEF IsSeq
  <2>2. w \in Seq(S \cup {e}) /\ <<e>> \in Seq(S \cup {e}) /\ Len(w) \in Nat /\ Len(<<e>>) = 1
    BY <2>1, SeqMonotonic, LenProperties
  <2>3. Len(all) = Len(w) + 1
    BY <2>2, ConcatProperties
  <2> HIDE DEF all
  <2> QED BY <2>2, <2>3, TimelineAssumption
<1> HIDE DEF e, w, v, n
<1>5. IsSeq(v)
  BY <1>1, <1>3, <1>4, PushOnly
<1>6. Len(v) = n /\ v[1] = e /\ Len(w) \in Nat
  BY <1>1, <1>3, <1>4, PushOnly
<1>7. \A k \in 1 .. Len(v) : k = 1 \/ (k - 1 \in 1 .. Len(w) /\ v[k] = w[k - 1])
  BY <1>1, <1>3, <1>4, <1>6, PushOnly
<1>8. \A k \in 1 .. Len(w) : EntryOK(w[k], q, O, pg) /\ ~Waiting(w[k])
  BY DEF TimelineOK, w
<1>9. \A k \in 1 .. Len(w) : EntryOK(w[k], r, O, pg)
  <2>1. \A k \in 1 .. Len(q) : k \in 1 .. Len(r)
    OBVIOUS
  <2> QED BY <1>8, <2>1, EntryStays
<1>10. EntryOK(e, r, O, pg)
  BY <1>0, <1>2 DEF EntryOK
<1>11. \A k \in 1 .. Len(v) : EntryOK(v[k], r, O, pg)
  BY <1>6, <1>7, <1>9, <1>10
<1>12. ASSUME NEW k \in 1 .. Len(v), NEW m \in 1 .. (k - 1) PROVE v[k].call < v[m].call
  <2>1. k # 1 /\ k \in Nat /\ m \in Nat /\ m \in 1 .. Len(v)
    BY <1>4, <1>6
  <2>2. k - 1 \in 1 .. Len(w) /\ v[k] = w[k - 1] /\ w[k - 1].call \in 1 .. Len(q)
    BY <1>7, <1>8, <2>1 DEF EntryOK
  <2>3. CASE m = 1
    BY <1>2, <1>6, <2>2, <2>3
  <2>4. CASE m # 1
    <3>1. m - 1 \in 1 .. (k - 1 - 1) /\ v[m] = w[m - 1]
      BY <1>7, <2>1, <2>4
    <3>2. w[k - 1].call < w[m - 1].call
      BY <2>2, <3>1 DEF TimelineOK, w
    <3> QED BY <2>2, <3>1, <3>2
  <2> QED BY <2>3, <2>4
<1>13. \A k \in 1 .. Len(v) : k > 1 => ~Waiting(v[k])
  BY <1>6, <1>7, <1>8
<1>14. v # <<>>
  BY <1>4, <1>6
<1>15. TimelineOK(t, r, O, TRUE, pg)
  BY <1>2, <1>3, <1>5, <1>6, <1>11, <1>12, <1>13, <1>14 DEF TimelineOK, v
<1>16. RowsKept(s, t)
  <2> SUFFICES ASSUME NEW k \in 1 .. Len(w), NEW m \in 1 .. Len(v), w[k].call = v[m].call
               PROVE  v[m] = w[k]
    BY DEF RowsKept, w, v
  <2>1. w[k].call \in 1 .. Len(q)
    BY <1>8 DEF EntryOK
  <2>2. m # 1
    BY <1>2, <1>6, <2>1
  <2>3. m - 1 \in 1 .. Len(w) /\ v[m] = w[m - 1]
    BY <1>7, <2>2
  <2>4. k = m - 1
    BY <2>3, Distinct DEF w
  <2> QED BY <2>3, <2>4
<1> QED BY <1>3, <1>15, <1>16

-----------------------------------------------------------------------------
(* The paper fund: a decision settles the head and moves the portfolio.    *)
FundSubject == [market : DOMAIN FUND_PRESETS, portfolio : [usdc : Int, weth : Int]]

LEMMA Prices == \A market \in DOMAIN FUND_PRESETS : FUND_PRESETS[market] \in Nat \ {0}
<1> SUFFICES ASSUME NEW market \in DOMAIN FUND_PRESETS PROVE FUND_PRESETS[market] \in Nat \ {0}
  OBVIOUS
<1>1. market \in {"calm", "bullTrend", "drawdown", "blackSwan"}
  BY DEF FUND_PRESETS
<1>2. FUND_PRESETS[market] \in {4, 6, 3, 2}
  BY <1>1 DEF FUND_PRESETS
<1> QED BY <1>2

LEMMA PortfolioMoves ==
  ASSUME NEW p \in [usdc : Int, weth : Int], NEW decision \in Given("fund"), NEW price \in Nat \ {0}
  PROVE  applyDecisionToPortfolio(p, decision, price) \in [usdc : Int, weth : Int]
<1> DEFINE spend == IF decision.sizeUsd < p.usdc THEN decision.sizeUsd ELSE p.usdc
           wanted == decision.sizeUsd \div price
           sell == IF wanted < p.weth THEN wanted ELSE p.weth
<1>1. decision.sizeUsd \in Nat /\ p.usdc \in Int /\ p.weth \in Int
  BY DEF Given
<1>2. spend \in Int /\ wanted \in Int
  BY <1>1
<1>3. sell \in Int /\ spend \div price \in Int /\ sell * price \in Int
  BY <1>1, <1>2
<1>4. applyDecisionToPortfolio(p, decision, price) \in
        {p, [usdc |-> p.usdc - spend, weth |-> p.weth + spend \div price],
         [usdc |-> p.usdc + sell * price, weth |-> p.weth - sell]}
  BY DEF applyDecisionToPortfolio
<1>5. p.usdc - spend \in Int /\ p.weth + spend \div price \in Int
      /\ p.usdc + sell * price \in Int /\ p.weth - sell \in Int
  BY <1>1, <1>2, <1>3
<1> HIDE DEF spend, wanted, sell
<1> QED BY <1>4, <1>5

LEMMA SettleSettles ==
  ASSUME NEW s, DOMAIN s = ScenarioFields, NEW v
  PROVE  Settles(s, Settle(s, v), v) /\ Settle(s, v).subject = s.subject
BY DEF Settles, Settle, WithHead, ScenarioFields

(* The decision is filed with what it made of the portfolio.               *)
LEMMA FundSettles ==
  ASSUME NEW s, DOMAIN s = ScenarioFields, s.subject \in FundSubject, NEW decision \in Given("fund"),
         NEW t, t = setFundPending(applyFundDecision(s, decision), FALSE)
  PROVE  (\E v : v # None /\ Settles(s, t, v)) /\ t.subject \in FundSubject
<1> DEFINE after == applyDecisionToPortfolio(s.subject.portfolio, decision,
                                             FUND_PRESETS[s.subject.market])
           v == IF HeadPending(s) THEN WithPortfolio(decision, after) ELSE decision
           u == Settle(s, v)
<1>1. after \in [usdc : Int, weth : Int]
  BY Prices, PortfolioMoves DEF FundSubject
<1>2. v # None
  <2>1. CASE HeadPending(s)
    <3>1. DOMAIN decision = {"decision", "sizeUsd"} /\ decision.decision \in FundActions
          /\ decision.sizeUsd \in Nat
      BY DEF Given, FundActions
    <3> HIDE DEF after
    <3> DEFINE r == WithPortfolio(decision, after)
    <3>2. r = [decision |-> decision.decision, sizeUsd |-> decision.sizeUsd, after |-> after]
      BY <3>1 DEF WithPortfolio
    <3>3. r \in [decision : FundActions, sizeUsd : Nat, after : [usdc : Int, weth : Int]]
      BY <1>1, <3>1, <3>2
    <3> QED BY <2>1, <3>3, DecisionAssumption
  <2>2. CASE ~HeadPending(s)
    <3>1. "fund" \in Agents
      BY DEF Agents
    <3> QED BY <2>2, <3>1, NotNone
  <2> QED BY <2>1, <2>2
<1>3. applyFundDecision(s, decision) =
        IF HeadPending(s) THEN [u EXCEPT !.subject.portfolio = after] ELSE u
  BY DEF applyFundDecision
<1> HIDE DEF v, after, u
<1>4. Settles(s, u, v) /\ u.subject = s.subject
  BY SettleSettles DEF u
<1>5. /\ DOMAIN t = ScenarioFields /\ t.pending = FALSE /\ t.events = u.events
      /\ t.subject = IF HeadPending(s) THEN [s.subject EXCEPT !.portfolio = after] ELSE s.subject
  BY <1>3, <1>4 DEF setFundPending, Settles, ScenarioFields
<1>6. Settles(s, t, v)
  BY <1>4, <1>5 DEF Settles
<1>7. t.subject \in FundSubject
  BY <1>1, <1>5 DEF FundSubject
<1> QED BY <1>2, <1>6, <1>7

-----------------------------------------------------------------------------
LEMMA TerraSettles ==
  ASSUME NEW s, DOMAIN s = ScenarioFields, NEW v
  PROVE  Settles(s, applyAgentVerdict(s, v), v)
<1> DEFINE u == Settle(s, v)
<1>1. Settles(s, u, v)
  BY SettleSettles
<1>2. \E moved : applyAgentVerdict(s, v) = u \/ applyAgentVerdict(s, v) = [u EXCEPT !.subject = moved]
  BY DEF applyAgentVerdict
<1> HIDE DEF u
<1> QED BY <1>1, <1>2 DEF Settles, ScenarioFields

-----------------------------------------------------------------------------
(* The pages.  While a page is busy its last request is being read, and    *)
(* the head is that request's row; the page waits for its verdict, or the  *)
(* head shows it (the paper fund applies its own when the stream ends).    *)

PageFields == {"scenario", "busy", "presetKey"}

Awaits(c, s, pg) ==
  /\ c.reader = "open"
  /\ c.final = None \/ pg = "fund" => s.pending = TRUE
  /\ c.final # None /\ pg # "fund" =>
       s.pending = FALSE /\ (s.events # <<>> => s.events[1].verdict = c.final)

PageInv ==
  page # "adjudicate" =>
    /\ page \in Agents /\ DOMAIN view = PageFields /\ view.busy \in BOOLEAN
    /\ \A i \in 1 .. Len(calls) :
         /\ calls[i].agent = page
         /\ calls[i].reader = "open" => view.busy = TRUE /\ i = Len(calls)
    /\ TimelineOK(scenario, calls, OnChain, view.busy, page)
    /\ view.busy = TRUE => Len(calls) # 0 /\ Awaits(calls[Len(calls)], scenario, page)
    /\ page = "fund" => scenario.subject \in FundSubject

(* What an event of the stream does to a page.                             *)
Affects(s, t, e, pg) ==
  \/ t = s /\ (e.type # "final" \/ pg = "fund")
  \/ e.type = "reasoning" /\ t = Stream(s, e.value)
  \/ e.type = "final" /\ pg # "fund" /\ Settles(s, t, e.value)
  \/ e.type = "committed" /\ pg # "fund" /\ t = Badge(s, e.value)
  \/ e.type = "commit_error" /\ pg # "fund" /\ t = BadgeError(s)

LEMMA EventEffect ==
  ASSUME NEW i, ReadEvent(i), page \in Agents, page # "adjudicate", DOMAIN view = PageFields,
         DOMAIN scenario = ScenarioFields
  PROVE  /\ DOMAIN view' = PageFields /\ view'.busy = view.busy
         /\ Affects(scenario, scenario', Head(calls[i].wire), page)
         /\ page = "fund" => scenario'.subject = scenario.subject
<1> DEFINE e == Head(calls[i].wire)
<1>1. ASSUME NEW t, view' = [view EXCEPT !.scenario = t]
      PROVE  DOMAIN view' = PageFields /\ view'.busy = view.busy /\ scenario' = t
  BY <1>1 DEF PageFields, scenario
<1>2. \A s, v : DOMAIN s = ScenarioFields => Settles(s, Settle(s, v), v)
  BY SettleSettles
<1>3. CASE page = "terra"
  <2>1. view' = [view EXCEPT !.scenario = TerraEvent(e)]
    BY <1>3 DEF ReadEvent
  <2>2. Settles(scenario, applyAgentVerdict(scenario, e.value), e.value)
    BY TerraSettles
  <2>3. Affects(scenario, TerraEvent(e), e, page)
    BY <1>3, <2>2 DEF TerraEvent, Affects, setTerraPendingReasoning, applyTerraOnChainCommit,
                     applyTerraCommitError
  <2> QED BY <1>1, <1>3, <2>1, <2>3
<1>4. CASE page = "bridge"
  <2>1. view' = [view EXCEPT !.scenario = BridgeEvent(e)]
    BY <1>4 DEF ReadEvent
  <2>3. Affects(scenario, BridgeEvent(e), e, page)
    BY <1>2, <1>4 DEF BridgeEvent, Affects, setBridgePendingReasoning, applyBridgeOnChainCommit,
                     applyBridgeCommitError, applyBridgeAgentVerdict
  <2> QED BY <1>1, <1>4, <2>1, <2>3
<1>5. CASE page = "governance"
  <2>1. view' = [view EXCEPT !.scenario = GovernanceEvent(e)]
    BY <1>5 DEF ReadEvent
  <2>3. Affects(scenario, GovernanceEvent(e), e, page)
    BY <1>2, <1>5 DEF GovernanceEvent, Affects, setGovernancePendingReasoning,
                     applyGovernanceOnChainCommit, applyGovernanceCommitError, applyGovernanceAgentVerdict
  <2> QED BY <1>1, <1>5, <2>1, <2>3
<1>6. CASE page = "aviation"
  <2>1. view' = [view EXCEPT !.scenario = AviationEvent(e)]
    BY <1>6 DEF ReadEvent
  <2>3. Affects(scenario, AviationEvent(e), e, page)
    BY <1>2, <1>6 DEF AviationEvent, Affects, setAviationPendingReasoning,
                     applyAviationOnChainCommit, applyAviationCommitError, applyAviationAgentVerdict
  <2> QED BY <1>1, <1>6, <2>1, <2>3
<1>7. CASE page = "fund"
  <2>1. view' = [view EXCEPT !.scenario = FundEvent(e)]
    BY <1>7 DEF ReadEvent
  <2>2. \/ FundEvent(e) = Stream(scenario, e.value) /\ e.type = "reasoning"
        \/ FundEvent(e) = scenario
    BY DEF FundEvent, setFundPendingReasoning
  <2>3. Affects(scenario, FundEvent(e), e, page)
    BY <1>7, <2>2 DEF Affects
  <2>4. FundEvent(e).subject = scenario.subject
    BY <2>2 DEF Stream, WithHead, ScenarioFields
  <2> QED BY <1>1, <1>7, <2>1, <2>3, <2>4
<1> QED BY <1>3, <1>4, <1>5, <1>6, <1>7 DEF Agents

(* A request that is read or left as far as the page knows.                *)
LEMMA ReadPage ==
  ASSUME MarketInv, ServerInv, PageInv, page # "adjudicate",
         NEW i \in 1 .. Len(calls), ReadEvent(i)
  PROVE  PageInv' /\ RowsKept(scenario, scenario')
<1> DEFINE c == calls[i]
           d == calls'[i]
           e == Head(c.wire)
           s == scenario
           t == scenario'
<1>0. Len(calls) \in Nat
  BY LenProperties DEF MarketInv, Signed, Requests
<1>1. /\ Len(calls') = Len(calls) /\ OnChain' = OnChain
      /\ \A j \in 1 .. Len(calls) : j # i => calls'[j] = calls[j]
      /\ \A j \in 1 .. Len(calls) : SameVerdict(calls[j], calls'[j])
  BY ReadServer
<1>2. Takes(c, d, e)
  BY ReadServer
<1>3. Learns(c, d, i, OnChain, e)
  BY ReadServer
<1>4. c.reader = "open" /\ page' = page
  BY DEF ReadEvent
<1>5. view.busy = TRUE /\ i = Len(calls) /\ TimelineOK(s, calls, OnChain, TRUE, page)
      /\ Awaits(c, s, page) /\ c.agent = page /\ page \in Agents
  BY <1>4 DEF PageInv
<1>6. DOMAIN s = ScenarioFields /\ DOMAIN view = PageFields
  BY <1>5 DEF TimelineOK, PageInv
<1>7. /\ DOMAIN view' = PageFields /\ view'.busy = TRUE
      /\ Affects(s, t, e, page)
      /\ page = "fund" => t.subject = s.subject
  BY <1>5, <1>6, EventEffect
<1> HIDE DEF c, d, e, s, t
<1>8. /\ TimelineOK(t, calls, OnChain, TRUE, page) /\ RowsKept(s, t)
      /\ Awaits(d, t, page)
  <2>0. d.reader = "open" /\ (e.type # "final" => d.final = c.final)
    BY <1>2 DEF Takes
  <2>1. CASE t = s /\ (e.type # "final" \/ page = "fund")
    <3>1. d.final = None => c.final = None
      BY <1>3, <2>0 DEF Learns
    <3>2. Awaits(d, t, page)
      BY <1>5, <2>0, <2>1, <3>1 DEF Awaits
    <3> QED BY <1>0, <1>5, <2>1, <3>2, Unmoved
  <2>2. ASSUME e.type # "final", TimelineOK(t, calls, OnChain, TRUE, page) /\ RowsKept(s, t) /\ SameHead(s, t)
        PROVE  Awaits(d, t, page)
    BY <1>5, <2>0, <2>2 DEF Awaits, SameHead
  <2>3. CASE e.type = "reasoning" /\ t = Stream(s, e.value)
    <3>1. TimelineOK(t, calls, OnChain, TRUE, page) /\ RowsKept(s, t) /\ SameHead(s, t)
      BY <1>0, <1>5, <2>3, Streamed
    <3> QED BY <2>2, <2>3, <3>1
  <2>4. CASE e.type = "commit_error" /\ t = BadgeError(s)
    <3>1. TimelineOK(t, calls, OnChain, TRUE, page) /\ RowsKept(s, t) /\ SameHead(s, t)
      BY <1>0, <1>5, <2>4, Failed
    <3> QED BY <2>2, <2>4, <3>1
  <2>5. CASE e.type = "committed" /\ page # "fund" /\ t = Badge(s, e.value)
    <3>1. e.value = Len(calls) /\ Len(calls) \in OnChain /\ c.final # None
      BY <1>3, <1>5, <2>5 DEF Learns
    <3>2. s.pending = FALSE /\ (s.events # <<>> => s.events[1].verdict = c.final)
      BY <1>5, <2>5, <3>1 DEF Awaits
    <3>3. c.final = calls[Len(calls)].verdict
      BY <1>5, <3>1 DEF ServerInv, CallOK, VerdictOK, Stands, c
    <3>4. s.events # <<>> => ~Waiting(s.events[1])
      BY <1>5, <3>1, <3>2 DEF TimelineOK, Waiting
    <3>5. TimelineOK(t, calls, OnChain, TRUE, page) /\ RowsKept(s, t) /\ SameHead(s, t)
      BY <1>0, <1>5, <2>5, <3>1, <3>2, <3>3, <3>4, Badged
    <3> QED BY <2>2, <2>5, <3>5
  <2>6. CASE e.type = "final" /\ page # "fund" /\ Settles(s, t, e.value)
    <3>1. c.final = None /\ e.value \in Given(page) /\ d.final = e.value
      BY <1>2, <1>3, <1>5, <2>6 DEF Learns, Takes
    <3>2. e.value # None
      BY <1>5, <3>1, NotNone
    <3>3. s.events # <<>> /\ s.events[1].pending
      BY <1>5, <3>1 DEF Awaits, TimelineOK
    <3>4. HeadPending(s)
      BY <1>5, <3>3, HeadOK
    <3>5. /\ TimelineOK(t, calls, OnChain, TRUE, page) /\ RowsKept(s, t)
          /\ t.events # <<>> /\ t.events[1].verdict = e.value
      BY <1>0, <1>5, <2>6, <3>2, <3>4, Settled
    <3>6. t.pending = FALSE
      BY <2>6 DEF Settles
    <3>7. Awaits(d, t, page)
      BY <2>0, <2>6, <3>1, <3>2, <3>5, <3>6 DEF Awaits
    <3> QED BY <3>5, <3>7
  <2> QED BY <1>7, <2>1, <2>3, <2>4, <2>5, <2>6 DEF Affects
<1>9. TimelineOK(t, calls', OnChain', TRUE, page)
  <2>1. \A k \in OnChain : calls'[k].verdict = calls[k].verdict
    BY <1>1 DEF ServerInv, SameVerdict
  <2> QED BY <1>1, <1>8, <2>1, TimelineStays
<1>10. \A j \in 1 .. Len(calls') :
         /\ calls'[j].agent = page
         /\ calls'[j].reader = "open" => j = Len(calls')
  <2>1. ASSUME NEW j \in 1 .. Len(calls') PROVE calls'[j].agent = page
    BY <1>1, <2>1 DEF PageInv, SameVerdict
  <2>2. ASSUME NEW j \in 1 .. Len(calls'), calls'[j].reader = "open" PROVE j = Len(calls')
    BY <1>1, <1>5, <2>2 DEF PageInv
  <2> QED BY <2>1, <2>2
<1>11. page = "fund" => t.subject \in FundSubject
  BY <1>7 DEF PageInv, s
<1>12. PageInv'
  <2>1. Len(calls') # 0 /\ Awaits(calls'[Len(calls')], scenario', page)
    BY <1>0, <1>1, <1>5, <1>8 DEF d, t
  <2> QED BY <1>4, <1>5, <1>7, <1>9, <1>10, <1>11, <2>1 DEF PageInv, t
<1> QED BY <1>8, <1>12 DEF s, t

-----------------------------------------------------------------------------
(* What a stream leaves behind when it ends.                               *)
Unsettled(s, t) ==
  DOMAIN t = ScenarioFields /\ t.events = s.events /\ (t.pending = FALSE \/ t.pending = s.pending)

LEMMA StaysSettled ==
  ASSUME NEW s, NEW t, NEW v, Settles(s, t, v)
  PROVE  Settles(s, [t EXCEPT !.pending = FALSE], v)
BY DEF Settles, ScenarioFields

LEMMA FallbackSettles ==
  ASSUME page \in Agents, page # "adjudicate", DOMAIN scenario = ScenarioFields,
         page = "fund" => scenario.subject \in FundSubject
  PROVE  /\ \E v : v # None /\ Settles(scenario, Fallback, v)
         /\ page = "fund" => Fallback.subject \in FundSubject
<1>1. \A v : Settles(scenario, Settle(scenario, v), v)
  BY SettleSettles
<1>2. CASE page = "terra"
  <2>1. Settles(scenario, TerraFallback, [decision |-> "REFUSE"])
    BY TerraSettles DEF TerraFallback
  <2>2. [decision |-> "REFUSE"] # None
    <3>1. [decision |-> "REFUSE"] \in Given("terra")
      BY DEF Given
    <3> QED BY <3>1, NotNone DEF Agents
  <2> QED BY <1>2, <2>1, <2>2 DEF Fallback
<1>3. CASE page = "bridge"
  <2>1. Settles(scenario, BridgeFallback, [decision |-> "REFUSE"])
    BY <1>1, StaysSettled DEF BridgeFallback, setBridgePending, applyBridgeAgentVerdict
  <2>2. [decision |-> "REFUSE"] # None
    <3>1. [decision |-> "REFUSE"] \in Given("bridge")
      BY DEF Given
    <3> QED BY <3>1, NotNone DEF Agents
  <2> QED BY <1>3, <2>1, <2>2 DEF Fallback
<1>4. CASE page = "governance"
  <2>1. Settles(scenario, GovernanceFallback, [decision |-> "CAUTION"])
    BY <1>1, StaysSettled DEF GovernanceFallback, setGovernancePending, applyGovernanceAgentVerdict
  <2>2. [decision |-> "CAUTION"] # None
    <3>1. [decision |-> "CAUTION"] \in Given("governance")
      BY DEF Given
    <3> QED BY <3>1, NotNone DEF Agents
  <2> QED BY <1>4, <2>1, <2>2 DEF Fallback
<1>5. CASE page = "aviation"
  <2>1. Settles(scenario, AviationFallback, [decision |-> "CAUTION"])
    BY <1>1, StaysSettled DEF AviationFallback, setAviationPending, applyAviationAgentVerdict
  <2>2. [decision |-> "CAUTION"] # None
    <3>1. [decision |-> "CAUTION"] \in Given("aviation")
      BY DEF Given
    <3> QED BY <3>1, NotNone DEF Agents
  <2> QED BY <1>5, <2>1, <2>2 DEF Fallback
<1>6. CASE page = "fund"
  <2>1. [decision |-> "HOLD", sizeUsd |-> 0] \in Given("fund")
    BY DEF Given
  <2>2. /\ \E v : v # None /\ Settles(scenario, FundFallback, v)
        /\ FundFallback.subject \in FundSubject
    BY <1>6, <2>1, FundSettles DEF FundFallback
  <2> QED BY <1>6, <2>2 DEF Fallback
<1> QED BY <1>2, <1>3, <1>4, <1>5, <1>6 DEF Agents

LEMMA FinishedSettles ==
  ASSUME page \in Agents, page # "adjudicate", DOMAIN scenario = ScenarioFields,
         page = "fund" => scenario.subject \in FundSubject, NEW final \in Given(page)
  PROVE  /\ \/ page # "fund" /\ Unsettled(scenario, Finished(final))
            \/ \E v : v # None /\ Settles(scenario, Finished(final), v)
         /\ page = "fund" => Finished(final).subject \in FundSubject
<1>1. Unsettled(scenario, [scenario EXCEPT !.pending = FALSE]) /\ Unsettled(scenario, scenario)
  BY DEF Unsettled, ScenarioFields
<1>2. CASE page = "fund"
  <2>1. /\ \E v : v # None /\ Settles(scenario, FundFinish(final), v)
        /\ FundFinish(final).subject \in FundSubject
    BY <1>2, FundSettles DEF FundFinish
  <2> QED BY <1>2, <2>1 DEF Finished
<1>3. CASE page = "terra"
  BY <1>1, <1>3 DEF Finished
<1>4. CASE page = "bridge"
  BY <1>1, <1>4 DEF Finished, setBridgePending
<1>5. CASE page = "governance"
  BY <1>1, <1>5 DEF Finished, setGovernancePending
<1>6. CASE page = "aviation"
  BY <1>1, <1>6 DEF Finished, setAviationPending
<1> QED BY <1>2, <1>3, <1>4, <1>5, <1>6 DEF Agents

(* When its stream is over, or broken, the page is free and its head shows *)
(* a decision.                                                             *)
LEMMA LeavePage ==
  ASSUME MarketInv, ServerInv, PageInv, page # "adjudicate",
         NEW i \in 1 .. Len(calls), EndOfStream(i) \/ Disconnect(i)
  PROVE  PageInv' /\ RowsKept(scenario, scenario')
<1> DEFINE c == calls[i]
           s == scenario
           t == scenario'
<1>0. Len(calls) \in Nat
  BY LenProperties DEF MarketInv, Signed, Requests
<1>1. /\ Len(calls') = Len(calls) /\ OnChain' = OnChain /\ calls'[i].reader # "open"
      /\ \A j \in 1 .. Len(calls) : j # i => calls'[j] = calls[j]
      /\ \A j \in 1 .. Len(calls) : SameVerdict(calls[j], calls'[j])
  BY LeaveServer
<1>2. c.reader = "open" /\ page' = page
  BY DEF EndOfStream, Disconnect
<1>3. view.busy = TRUE /\ i = Len(calls) /\ TimelineOK(s, calls, OnChain, TRUE, page)
      /\ Awaits(c, s, page) /\ c.agent = page /\ page \in Agents
      /\ (page = "fund" => s.subject \in FundSubject)
  BY <1>2 DEF PageInv
<1>4. DOMAIN s = ScenarioFields /\ DOMAIN view = PageFields
  BY <1>3 DEF TimelineOK, PageInv
<1>5. ASSUME NEW u, view' = [view EXCEPT !.busy = FALSE, !.scenario = u]
      PROVE  DOMAIN view' = PageFields /\ view'.busy = FALSE /\ t = u
  BY <1>4, <1>5 DEF PageFields, scenario
<1>6. /\ DOMAIN view' = PageFields /\ view'.busy = FALSE
      /\ t = Fallback \/ (c.final # None /\ t = Finished(c.final))
  <2>1. CASE EndOfStream(i)
    <3>1. view' = [view EXCEPT !.busy = FALSE,
                     !.scenario = IF c.final = None THEN Fallback ELSE Finished(c.final)]
      BY <2>1 DEF EndOfStream
    <3> QED BY <1>5, <3>1
  <2>2. CASE Disconnect(i)
    <3>1. view' = [view EXCEPT !.busy = FALSE, !.scenario = Fallback]
      BY <2>2 DEF Disconnect
    <3> QED BY <1>5, <3>1
  <2> QED BY <2>1, <2>2
<1>7. /\ \/ page # "fund" /\ c.final # None /\ Unsettled(s, t)
         \/ \E v : v # None /\ Settles(s, t, v)
      /\ page = "fund" => t.subject \in FundSubject
  <2>1. CASE t = Fallback
    BY <1>3, <1>4, <2>1, FallbackSettles
  <2>2. CASE c.final # None /\ t = Finished(c.final)
    <3>1. c.final \in Given(page)
      BY <1>3, <2>2 DEF ServerInv, CallOK, VerdictOK
    <3> QED BY <1>3, <1>4, <2>2, <3>1, FinishedSettles
  <2> QED BY <1>6, <2>1, <2>2
<1> HIDE DEF c, s, t
<1>8. s.events # <<>> /\ ~s.events[1].pending => ~Waiting(s.events[1]) /\ s.events[1].verdict # None
  <2> SUFFICES ASSUME s.events # <<>>, ~s.events[1].pending
               PROVE  ~Waiting(s.events[1]) /\ s.events[1].verdict # None
    OBVIOUS
  <2>1. s.pending # TRUE
    BY <1>3 DEF TimelineOK
  <2>2. page # "fund" /\ c.final # None /\ s.events[1].verdict = c.final
    BY <1>3, <2>1 DEF Awaits
  <2> QED BY <2>2 DEF Waiting
<1>9. TimelineOK(t, calls, OnChain, FALSE, page) /\ RowsKept(s, t)
  <2>1. CASE page # "fund" /\ c.final # None /\ Unsettled(s, t)
    <3>1. s.pending = FALSE
      BY <1>3, <2>1 DEF Awaits
    <3>2. t.events = s.events /\ DOMAIN t = ScenarioFields /\ t.pending = FALSE
      BY <2>1, <3>1 DEF Unsettled
    <3>3. s.events # <<>> => ~s.events[1].pending /\ ~Waiting(s.events[1])
      BY <1>3, <1>8, <3>1 DEF TimelineOK
    <3>4. TimelineOK(t, calls, OnChain, FALSE, page)
      BY <1>0, <1>3, <3>2, <3>3, SameEvents
    <3>5. RowsKept(s, t)
      BY <1>0, <1>3, <3>2, <3>3, SameEvents
    <3> QED BY <3>4, <3>5
  <2>2. ASSUME NEW v, v # None, Settles(s, t, v)
        PROVE  TimelineOK(t, calls, OnChain, FALSE, page) /\ RowsKept(s, t)
    <3>0. TimelineOK(s, calls, OnChain, TRUE, page) /\ v # None /\ Settles(s, t, v)
      BY <1>3, <2>2
    <3>1. /\ TimelineOK(t, calls, OnChain, TRUE, page) /\ RowsKept(s, t)
          /\ HeadPending(s) => t.events # <<>> /\ t.events[1].verdict = v
      BY <1>0, <3>0, Settled
    <3>3. t.pending = FALSE /\ (~HeadPending(s) => t.events = s.events)
      BY <2>2 DEF Settles
    <3>4. t.events # <<>> => ~Waiting(t.events[1])
      <4>1. CASE HeadPending(s)
        <5>1. ~t.events[1].pending
          BY <3>1, <3>3, <4>1 DEF TimelineOK
        <5> QED BY <2>2, <3>1, <4>1, <5>1 DEF Waiting
      <4>2. CASE ~HeadPending(s)
        BY <1>3, <1>8, <3>3, <4>2, HeadOK
      <4> QED BY <4>1, <4>2
    <3>5. TimelineOK(t, calls, OnChain, FALSE, page)
      BY <1>0, <3>1, <3>3, <3>4, Freed
    <3> QED BY <3>1, <3>5
  <2> QED BY <1>7, <2>1, <2>2
<1>10. TimelineOK(t, calls', OnChain', FALSE, page)
  <2>1. \A k \in OnChain : calls'[k].verdict = calls[k].verdict
    BY <1>1 DEF ServerInv, SameVerdict
  <2> QED BY <1>1, <1>9, <2>1, TimelineStays
<1>11. \A j \in 1 .. Len(calls') : calls'[j].agent = page /\ calls'[j].reader # "open"
  <2>1. ASSUME NEW j \in 1 .. Len(calls') PROVE calls'[j].agent = page
    BY <1>1, <2>1 DEF PageInv, SameVerdict
  <2>2. ASSUME NEW j \in 1 .. Len(calls'), j # i PROVE calls'[j].reader # "open"
    BY <1>1, <1>3, <2>2 DEF PageInv
  <2> QED BY <1>1, <2>1, <2>2
<1>12. PageInv'
  BY <1>2, <1>3, <1>6, <1>7, <1>10, <1>11 DEF PageInv, t
<1> QED BY <1>9, <1>12 DEF s, t

LEMMA ServePage ==
  ASSUME MarketInv, ServerInv, PageInv, page # "adjudicate",
         NEW i \in 1 .. Len(calls), Serve(i) \/ Kill(i), UNCHANGED <<page, view>>
  PROVE  PageInv' /\ RowsKept(scenario, scenario')
<1>1. /\ OnChain \subseteq OnChain' /\ Len(calls') = Len(calls)
      /\ \A j \in 1 .. Len(calls) : /\ SameCall(calls[j], calls'[j])
                                    /\ j \in OnChain => calls'[j].verdict = calls[j].verdict
  BY ServeServer
<1>2. scenario' = scenario /\ Len(calls) \in Nat /\ TimelineOK(scenario, calls, OnChain, view.busy, page)
  BY LenProperties DEF scenario, MarketInv, Signed, Requests, PageInv
<1>3. TimelineOK(scenario, calls', OnChain', view.busy, page)
  <2>1. \A k \in OnChain : calls'[k].verdict = calls[k].verdict
    BY <1>1 DEF ServerInv
  <2> QED BY <1>1, <1>2, <2>1, TimelineStays
<1>4. \A j \in 1 .. Len(calls') : /\ calls'[j].agent = page
                                  /\ calls'[j].reader = "open" => view.busy = TRUE /\ j = Len(calls')
  BY <1>1 DEF PageInv, SameCall
<1>5. view.busy = TRUE => Len(calls') # 0 /\ Awaits(calls'[Len(calls')], scenario, page)
  <2> SUFFICES ASSUME view.busy = TRUE
               PROVE  Len(calls') # 0 /\ Awaits(calls'[Len(calls')], scenario, page)
    OBVIOUS
  <2>1. Len(calls) # 0 /\ Awaits(calls[Len(calls)], scenario, page)
    BY DEF PageInv
  <2>2. SameCall(calls[Len(calls)], calls'[Len(calls)])
    BY <1>1, <1>2, <2>1
  <2> QED BY <1>1, <2>1, <2>2 DEF Awaits, SameCall
<1>6. PageInv'
  BY <1>2, <1>3, <1>4, <1>5 DEF PageInv
<1> QED BY <1>2, <1>6, Unmoved

(* Nothing of the page or its requests moves.                              *)
LEMMA QuietPage ==
  ASSUME MarketInv, PageInv, page # "adjudicate", UNCHANGED <<page, view, calls>>,
         OnChain' = OnChain
  PROVE  PageInv' /\ RowsKept(scenario, scenario')
<1>1. scenario' = scenario /\ Len(calls) \in Nat /\ TimelineOK(scenario, calls, OnChain, view.busy, page)
  BY LenProperties DEF scenario, MarketInv, Signed, Requests, PageInv
<1>2. PageInv'
  BY <1>1 DEF PageInv
<1> QED BY <1>1, <1>2, Unmoved

-----------------------------------------------------------------------------
(* What a click that asks the agent does.                                  *)
Asks(action, amount, key) ==
  /\ view.busy = FALSE /\ scenario.pending = FALSE /\ UNCHANGED <<page, pool, mined, book>>
  /\ DOMAIN view' = PageFields /\ view'.busy = TRUE
  /\ scenario' = Push(scenario, Entry(scenario, action, amount, Len(calls) + 1))
  /\ page = "terra" => action \in Actions
  /\ calls' = Append(calls, Call(page, key))

LEMMA AskEffect ==
  ASSUME PageInv, PageActions
  PROVE  page # "adjudicate" /\ \E action, amount, key : Asks(action, amount, key)
<1>0. page # "adjudicate"
  BY DEF PageActions, TerraAction, BridgeAction, GovernanceAction, AviationAction, FundAction,
         MintRedeemForm, WithdrawForm, ProposalButton, ChangeButton, TickButton
<1>1. /\ DOMAIN view = PageFields /\ view.busy \in BOOLEAN /\ scenario.pending \in BOOLEAN
      /\ DOMAIN scenario = ScenarioFields
  BY <1>0 DEF PageInv, TimelineOK
<1>2. ASSUME NEW action, NEW amount, NEW key, ~view.busy, ~scenario.pending,
             Submitted(Push(scenario, Entry(scenario, action, amount, NextCall))),
             Request(Call(page, key)), page = "terra" => action \in Actions
      PROVE  Asks(action, amount, key)
  <2> DEFINE t == Push(scenario, Entry(scenario, action, amount, NextCall))
  <2>1. view' = [view EXCEPT !.busy = TRUE, !.scenario = t] /\ page' = page
    BY <1>2 DEF Submitted
  <2> HIDE DEF t
  <2>2. DOMAIN view' = PageFields /\ view'.busy = TRUE /\ scenario' = t
    BY <1>1, <2>1 DEF PageFields, scenario
  <2>3. calls' = Append(calls, Call(page, key)) /\ UNCHANGED <<pool, mined, book>>
    BY <1>2 DEF Request
  <2>4. scenario' = Push(scenario, Entry(scenario, action, amount, Len(calls) + 1))
    BY <2>2 DEF t, NextCall
  <2>5. view.busy = FALSE /\ scenario.pending = FALSE
    BY <1>1, <1>2
  <2> QED BY <1>2, <2>1, <2>2, <2>3, <2>4, <2>5 DEF Asks
<1>3. CASE TerraAction
  <2>1. PICK action \in {"MINT", "REDEEM"} :
          /\ Submitted(applyPendingAction(scenario, action, 1, NextCall))
          /\ Request(terraDecide(action))
    BY <1>3 DEF TerraAction
  <2>2. /\ page = "terra" /\ ~view.busy /\ ~scenario.pending
        /\ Submitted(Push(scenario, Entry(scenario, action, 1, NextCall)))
        /\ Request(Call(page, action))
    BY <1>3, <2>1 DEF TerraAction, MintRedeemForm, applyPendingAction, terraDecide
  <2>3. Asks(action, 1, action)
    BY <1>2, <2>1, <2>2 DEF Actions
  <2> QED BY <1>0, <2>3
<1>4. CASE BridgeAction
  <2> DEFINE key == <<scenario.subject.finalizedHeight, scenario.subject.validatorsSigning,
                      scenario.subject.attestationAgeSec, 5>>
  <2>2. /\ page = "bridge" /\ ~view.busy /\ ~scenario.pending
        /\ Submitted(Push(scenario, Entry(scenario, "WITHDRAW", 5, NextCall)))
        /\ Request(Call(page, key))
    BY <1>4 DEF BridgeAction, WithdrawForm, applyBridgePendingAction, bridgeDecide
  <2> HIDE DEF key
  <2>3. Asks("WITHDRAW", 5, key)
    BY <1>2, <2>2
  <2> QED BY <1>0, <2>3
<1>5. CASE GovernanceAction
  <2>2. /\ page = "governance" /\ ~view.busy /\ ~scenario.pending
        /\ Submitted(Push(scenario, Entry(scenario, "REVIEW", 0, NextCall)))
        /\ Request(Call(page, scenario.subject))
    BY <1>5 DEF GovernanceAction, ProposalButton, applyGovernancePendingAction, governanceReview
  <2>3. Asks("REVIEW", 0, scenario.subject)
    BY <1>2, <2>2
  <2> QED BY <1>0, <2>3
<1>6. CASE AviationAction
  <2>2. /\ page = "aviation" /\ ~view.busy /\ ~scenario.pending
        /\ Submitted(Push(scenario, Entry(scenario, "REVIEW", 0, NextCall)))
        /\ Request(Call(page, scenario.subject))
    BY <1>6 DEF AviationAction, ChangeButton, applyAviationPendingAction, aviationReview
  <2>3. Asks("REVIEW", 0, scenario.subject)
    BY <1>2, <2>2
  <2> QED BY <1>0, <2>3
<1>7. CASE FundAction
  <2>2. /\ page = "fund" /\ ~view.busy /\ ~scenario.pending
        /\ Submitted(Push(scenario, Entry(scenario, "TICK", 0, NextCall)))
        /\ Request(Call(page, None))
    BY <1>7 DEF FundAction, TickButton, applyFundPendingTick, fundTick
  <2>3. Asks("TICK", 0, None)
    BY <1>2, <2>2
  <2> QED BY <1>0, <2>3
<1> QED BY <1>3, <1>4, <1>5, <1>6, <1>7 DEF PageActions

LEMMA AskPage ==
  ASSUME MarketInv, ServerInv, PageInv, PageActions
  PROVE  ServerInv' /\ PageInv' /\ RowsKept(scenario, scenario')
<1>1. page # "adjudicate" /\ \E action, amount, key : Asks(action, amount, key)
  BY AskEffect
<1>2. PICK action, amount, key : Asks(action, amount, key)
  BY <1>1
<1>3. /\ view.busy = FALSE /\ scenario.pending = FALSE /\ UNCHANGED <<page, pool, mined, book>>
      /\ calls' = Append(calls, Call(page, key)) /\ page \in Agents
      /\ TimelineOK(scenario, calls, OnChain, FALSE, page)
  BY <1>1, <1>2 DEF Asks, PageInv
<1>4. \A j \in 1 .. Len(calls) : CallOK(calls[j], j, OnChain) /\ SameVerdict(calls[j], calls[j])
  BY DEF ServerInv, SameVerdict
<1>5. ServerInv' /\ OnChain' = OnChain /\ Len(calls) \in Nat /\ Len(calls') = Len(calls) + 1
  BY <1>3, <1>4, AskServer DEF MarketInv, Signed
<1>6. calls'[Len(calls) + 1] = Call(page, key) /\ \A j \in 1 .. Len(calls) : calls'[j] = calls[j]
  BY <1>3, <1>4, AskServer DEF MarketInv, Signed
<1> DEFINE c == Call(page, key)
<1>7. c.agent = page /\ c.reader = "open" /\ c.final = None
  BY DEF Call
<1> HIDE DEF c
<1>8. \A j \in 1 .. Len(calls') : /\ calls'[j].agent = page
                                  /\ calls'[j].reader = "open" => j = Len(calls')
  <2> SUFFICES ASSUME NEW j \in 1 .. Len(calls')
               PROVE  /\ calls'[j].agent = page
                      /\ calls'[j].reader = "open" => j = Len(calls')
    OBVIOUS
  <2>1. CASE j = Len(calls) + 1
    BY <1>5, <1>6, <1>7, <2>1 DEF c
  <2>2. CASE j # Len(calls) + 1
    <3>1. j \in 1 .. Len(calls) /\ calls'[j] = calls[j]
      BY <1>5, <1>6, <2>2
    <3>2. calls[j].agent = page /\ calls[j].reader # "open"
      BY <1>1, <1>3, <3>1 DEF PageInv
    <3> QED BY <3>1, <3>2
  <2> QED BY <2>1, <2>2
<1>9. /\ TimelineOK(scenario', calls', OnChain, TRUE, page) /\ RowsKept(scenario, scenario')
      /\ scenario'.pending = TRUE /\ scenario'.subject = scenario.subject
  <2>1. PushFits(scenario, scenario', calls, calls', OnChain, page)
    BY <1>2, <1>3, <1>5, <1>6 DEF PushFits, ServerInv, Asks, Pushes
  <2>2. PICK s, t, q, r, O, pg : /\ s = scenario /\ t = scenario' /\ q = calls /\ r = calls'
                                 /\ O = OnChain /\ pg = page
    OBVIOUS
  <2>3. PushFits(s, t, q, r, O, pg)
    BY <2>1, <2>2
  <2>4. TimelineOK(t, r, O, TRUE, pg) /\ RowsKept(s, t) /\ t.pending = TRUE /\ t.subject = s.subject
    BY <2>3, Pushed
  <2> QED BY <2>2, <2>4
<1>10. Awaits(calls'[Len(calls')], scenario', page) /\ Len(calls') # 0
  BY <1>5, <1>6, <1>7, <1>9 DEF Awaits, c
<1>11. PageInv'
  BY <1>1, <1>2, <1>3, <1>5, <1>8, <1>9, <1>10 DEF PageInv, Asks
<1> QED BY <1>5, <1>9, <1>11

(* Loading and resetting wait until no request is pending.                 *)
Rests(s, t) ==
  /\ DOMAIN t = ScenarioFields /\ t.pending = FALSE
  /\ t.events = <<>> \/ (t.events = s.events)

LEMMA FreshRests == \A s, subject, label : Rests(s, Fresh(subject, label))
                                           /\ Fresh(subject, label).subject = subject
BY DEF Rests, Fresh, ScenarioFields

LEMMA LoadRests ==
  ASSUME NEW s, DOMAIN s = ScenarioFields, s.pending = FALSE, NEW subject, NEW label
  PROVE  Rests(s, Load(s, subject, label)) /\ Load(s, subject, label).subject = subject
BY DEF Rests, Load, ScenarioFields

LEMMA FundStarts == initialFundScenario.subject \in FundSubject
<1>1. "calm" \in DOMAIN FUND_PRESETS
  BY DEF FUND_PRESETS
<1>2. STARTING_PORTFOLIO \in [usdc : Int, weth : Int]
  <2>1. PICK p, q \in Int : STARTING_PORTFOLIO = [usdc |-> p, weth |-> q]
    BY DEF STARTING_PORTFOLIO
  <2> QED BY <2>1
<1> QED BY <1>1, <1>2, FreshRests DEF initialFundScenario, FundSubject

LEMMA LoadEffect ==
  ASSUME PageInv, Loads
  PROVE  /\ page # "adjudicate" /\ scenario.pending = FALSE
         /\ UNCHANGED <<page, calls, pool, mined, book>>
         /\ DOMAIN view' = PageFields /\ view'.busy = view.busy
         /\ Rests(scenario, scenario') /\ (page = "fund" => scenario'.subject \in FundSubject)
<1>0. page # "adjudicate" /\ ~scenario.pending
  BY DEF Loads, TerraPreset, BridgePreset, GovernancePreset, AviationPreset, FundPreset,
         TerraReset, BridgeReset, GovernanceReset, AviationReset, FundReset,
         TerraScenarioControls, BridgeScenarioControls, GovernanceScenarioControls,
         AviationScenarioControls, FundScenarioControls
<1>1. /\ DOMAIN view = PageFields /\ scenario.pending = FALSE /\ DOMAIN scenario = ScenarioFields
      /\ (page = "fund" => scenario.subject \in FundSubject)
  BY <1>0 DEF PageInv, TimelineOK
<1>2. ASSUME NEW t, NEW key, Loaded(t, key)
      PROVE  /\ UNCHANGED <<page, calls, pool, mined, book>>
             /\ DOMAIN view' = PageFields /\ view'.busy = view.busy /\ scenario' = t
  BY <1>1, <1>2 DEF Loaded, PageFields, scenario, serverVars
<1>3. \A subject, label : Rests(scenario, Load(scenario, subject, label))
                          /\ Load(scenario, subject, label).subject = subject
  BY <1>1, LoadRests
<1>4. CASE page # "fund"
  <2>1. \E t, key : /\ Loaded(t, key)
                    /\ \E subject, label : t = Load(scenario, subject, label) \/ t = Fresh(subject, label)
    BY <1>4 DEF Loads, TerraPreset, BridgePreset, GovernancePreset, AviationPreset, FundPreset,
         TerraReset, BridgeReset, GovernanceReset, AviationReset, FundReset, FundScenarioControls,
         applyPreset, applyBridgePreset, applyGovernancePreset, applyAviationPreset,
         initialTerraScenario, initialBridgeScenario, initialGovernanceScenario, initialAviationScenario
  <2>2. PICK t, key : /\ Loaded(t, key)
                      /\ \E subject, label : t = Load(scenario, subject, label) \/ t = Fresh(subject, label)
    BY <2>1
  <2>3. Rests(scenario, t)
    BY <1>3, <2>2, FreshRests
  <2> QED BY <1>0, <1>1, <1>2, <1>4, <2>2, <2>3
<1>5. CASE page = "fund"
  <2>1. FundPreset \/ FundReset
    BY <1>5 DEF Loads, TerraPreset, BridgePreset, GovernancePreset, AviationPreset,
         TerraReset, BridgeReset, GovernanceReset, AviationReset,
         TerraScenarioControls, BridgeScenarioControls, GovernanceScenarioControls,
         AviationScenarioControls
  <2>2. CASE FundPreset
    <3>1. PICK key \in Tried.fund : Loaded(applyFundPreset(scenario, key), key)
      BY <2>2 DEF FundPreset
    <3> DEFINE subject == [scenario.subject EXCEPT !.market = key]
               t == applyFundPreset(scenario, key)
    <3>2. subject \in FundSubject
      BY <1>1, <1>5, <3>1, PagesAssumption DEF FundSubject
    <3> HIDE DEF subject
    <3>3. t = Load(scenario, subject, key)
      BY DEF subject, applyFundPreset
    <3> HIDE DEF t
    <3>4. Rests(scenario, t) /\ t.subject \in FundSubject
      BY <1>3, <3>2, <3>3
    <3>5. Loaded(t, key)
      BY <3>1 DEF t
    <3> QED BY <1>0, <1>1, <1>2, <3>4, <3>5
  <2>3. CASE FundReset
    <3>1. Loaded(initialFundScenario, None)
      BY <2>3 DEF FundReset
    <3>2. Rests(scenario, initialFundScenario)
      BY FreshRests DEF initialFundScenario
    <3> QED BY <1>0, <1>1, <1>2, <3>1, <3>2, FundStarts
  <2> QED BY <2>1, <2>2, <2>3
<1> QED BY <1>4, <1>5

-----------------------------------------------------------------------------
(* Loading and resetting, and the page as it opens.                        *)
LEMMA NoneYet == IsSeq(<<>>)
<1>1. <<>> \in Seq({})
  BY EmptySeq
<1> QED BY <1>1 DEF IsSeq

LEMMA Bare ==
  ASSUME NEW s, NEW q, NEW O, NEW a, NEW pg, DOMAIN s = ScenarioFields, s.pending = FALSE, s.events = <<>>
  PROVE  TimelineOK(s, q, O, a, pg)
<1> DEFINE w == s.events
<1>1. IsSeq(<<>>)
  BY NoneYet
<1>2. IsSeq(w)
  BY <1>1
<1>3. w = <<>> /\ Len(w) = 0
  OBVIOUS
<1> HIDE DEF w
<1>4. \A k : k \notin 1 .. Len(w)
  BY <1>3
<1> QED BY <1>2, <1>3, <1>4 DEF TimelineOK, w

LEMMA Rested ==
  ASSUME NEW s, NEW t, NEW q, NEW O, NEW a, NEW pg, TimelineOK(s, q, O, a, pg), Len(q) \in Nat,
         s.pending = FALSE, Rests(s, t)
  PROVE  TimelineOK(t, q, O, a, pg) /\ RowsKept(s, t) /\ (t.events # <<>> => t.events = s.events)
<1>1. CASE t.events = <<>>
  <2>1. TimelineOK(t, q, O, a, pg)
    BY <1>1, Bare DEF Rests
  <2>2. Len(t.events) = 0
    BY <1>1
  <2>3. RowsKept(s, t)
    BY <2>2 DEF RowsKept
  <2> QED BY <1>1, <2>1, <2>3
<1>2. CASE t.events = s.events
  <2>1. DOMAIN t = ScenarioFields /\ t.pending = FALSE /\ (s.events # <<>> => ~s.events[1].pending)
    BY DEF Rests, TimelineOK
  <2>2. TimelineOK(t, q, O, a, pg) /\ RowsKept(s, t)
    BY <1>2, <2>1, SameEvents
  <2> QED BY <1>2, <2>2
<1> QED BY <1>1, <1>2 DEF Rests

LEMMA LoadPage ==
  ASSUME MarketInv, ServerInv, PageInv, Loads
  PROVE  ServerInv' /\ PageInv' /\ RowsKept(scenario, scenario')
<1>1. /\ page # "adjudicate" /\ scenario.pending = FALSE
      /\ UNCHANGED <<page, calls, pool, mined, book>>
      /\ DOMAIN view' = PageFields /\ view'.busy = view.busy
      /\ Rests(scenario, scenario') /\ (page = "fund" => scenario'.subject \in FundSubject)
  BY LoadEffect
<1>2. ServerInv' /\ OnChain' = OnChain /\ Len(calls) \in Nat
  BY <1>1, IdleServer, LenProperties DEF MarketInv, Signed, Requests
<1>3. /\ TimelineOK(scenario', calls, OnChain, view.busy, page) /\ RowsKept(scenario, scenario')
      /\ scenario'.events # <<>> => scenario'.events = scenario.events
  <2>1. PICK s, t, q, O, a, pg : /\ s = scenario /\ t = scenario' /\ q = calls
                                 /\ O = OnChain /\ a = view.busy /\ pg = page
    OBVIOUS
  <2>2. TimelineOK(s, q, O, a, pg) /\ Len(q) \in Nat /\ s.pending = FALSE /\ Rests(s, t)
    BY <1>1, <1>2, <2>1 DEF PageInv
  <2>3. TimelineOK(t, q, O, a, pg) /\ RowsKept(s, t) /\ (t.events # <<>> => t.events = s.events)
    BY <2>2, Rested
  <2> QED BY <2>1, <2>3
<1>4. scenario'.pending = FALSE
  BY <1>1 DEF Rests
<1>5. view.busy = TRUE => Len(calls) # 0 /\ Awaits(calls[Len(calls)], scenario', page)
  BY <1>1, <1>3, <1>4 DEF PageInv, Awaits
<1>6. PageInv'
  BY <1>1, <1>2, <1>3, <1>5 DEF PageInv
<1> QED BY <1>2, <1>3, <1>6

-----------------------------------------------------------------------------
(* A page as it opens.                                                     *)
Opens(s) == DOMAIN s = ScenarioFields /\ s.pending = FALSE /\ s.events = <<>>

LEMMA FreshOpens ==
  \A subject, label : Opens(Fresh(subject, label)) /\ Fresh(subject, label).subject = subject
BY DEF Opens, Fresh, ScenarioFields

LEMMA LoadOpens ==
  ASSUME NEW s, Opens(s), NEW subject, NEW label
  PROVE  Opens(Load(s, subject, label)) /\ Load(s, subject, label).subject = subject
BY DEF Opens, Load, ScenarioFields

LEMMA OpenedPage ==
  ASSUME Init, page # "adjudicate"
  PROVE  /\ page \in Agents /\ DOMAIN view = PageFields /\ view.busy = FALSE /\ Opens(scenario)
         /\ page = "fund" => scenario.subject \in FundSubject
<1>1. ASSUME NEW s, NEW key, view = Opened(s, key)
      PROVE  DOMAIN view = PageFields /\ view.busy = FALSE /\ scenario = s
  BY <1>1 DEF Opened, PageFields, scenario
<1>2. page \in Agents
  BY PagesAssumption DEF Init, Agents
<1>3. ASSUME NEW s, NEW subject, NEW label, NEW first, NEW name,
             s = Fresh(first, name) \/ s = Load(Fresh(first, name), subject, label)
      PROVE  Opens(s)
  BY <1>3, FreshOpens, LoadOpens
<1>4. CASE page \notin {"fund", "adjudicate"}
  <2>1. \E s, key, subject, label, first, name :
          /\ view = Opened(s, key)
          /\ s = Fresh(first, name) \/ s = Load(Fresh(first, name), subject, label)
    <3>1. CASE page = "terra"
      <4>1. PICK key : view = TerraPage(key)
        BY <3>1 DEF Init
      <4> QED BY <4>1 DEF TerraPage, initialTerraScenario, applyPreset
    <3>2. CASE page = "bridge"
      <4>1. PICK key : view = BridgePage(key)
        BY <3>2 DEF Init
      <4> QED BY <4>1 DEF BridgePage, initialBridgeScenario, applyBridgePreset
    <3>3. CASE page = "governance"
      <4>1. PICK key : view = GovernancePage(key)
        BY <3>3 DEF Init
      <4> QED BY <4>1 DEF GovernancePage, initialGovernanceScenario, applyGovernancePreset
    <3>4. CASE page = "aviation"
      <4>1. PICK key : view = AviationPage(key)
        BY <3>4 DEF Init
      <4> QED BY <4>1 DEF AviationPage, initialAviationScenario, applyAviationPreset
    <3> QED BY <1>2, <1>4, <3>1, <3>2, <3>3, <3>4 DEF Agents
  <2> QED BY <1>1, <1>2, <1>3, <1>4, <2>1
<1>5. CASE page = "fund"
  <2>1. PICK key \in Tried.fund \cup {None} : view = FundPage(key)
    BY <1>5 DEF Init
  <2> DEFINE old == initialFundScenario
             subject == [old.subject EXCEPT !.market = key]
  <2>2. Opens(old) /\ old.subject \in FundSubject
    BY FundStarts, FreshOpens DEF initialFundScenario
  <2>3. CASE key = None
    <3>1. view = Opened(old, key)
      BY <2>1, <2>3 DEF FundPage
    <3> QED BY <1>1, <1>2, <1>5, <2>2, <3>1
  <2>4. CASE key # None
    <3>1. view = Opened(Load(old, subject, key), key)
      BY <2>1, <2>4 DEF FundPage, applyFundPreset
    <3>2. key \in DOMAIN FUND_PRESETS
      BY <2>1, <2>4, PagesAssumption
    <3>3. subject \in FundSubject
      BY <2>2, <3>2 DEF FundSubject
    <3> HIDE DEF old, subject
    <3>4. Opens(Load(old, subject, key)) /\ Load(old, subject, key).subject \in FundSubject
      BY <2>2, <3>3, LoadOpens
    <3> QED BY <1>1, <1>2, <1>5, <3>1, <3>4
  <2> QED BY <2>3, <2>4
<1> QED BY <1>4, <1>5

LEMMA PageInit == Init => ServerInv /\ PageInv
<1> SUFFICES ASSUME Init PROVE ServerInv /\ PageInv
  OBVIOUS
<1>1. calls = <<>> /\ pool = {} /\ mined = <<>> /\ book = InitBook
  BY DEF Init, ServerInit
<1>2. Len(calls) = 0 /\ OnChain = {} /\ IsSeq(mined)
  BY <1>1, NoneYet DEF OnChain, Range
<1>3. Tied
  <2>1. book.verdicts = {} /\ DOMAIN book.terra = Actions
    BY <1>1 DEF InitBook, Actions
  <2>2. ASSUME NEW action \in Actions PROVE book.terra[action] = <<>>
    BY <1>1, <2>2 DEF InitBook, Actions
  <2>3. ASSUME NEW w, w = <<>> PROVE IsSeq(w) /\ \A k : k \notin 1 .. Len(w)
    <3>1. IsSeq(w)
      BY <2>3, NoneYet
    <3>2. Len(w) = 0
      BY <2>3
    <3> QED BY <3>1, <3>2
  <2>4. \A i : i \notin Range(mined)
    BY <1>1 DEF Range
  <2> QED BY <2>1, <2>2, <2>3, <2>4 DEF Tied
<1>4. ServerInv
  BY <1>2, <1>3 DEF ServerInv
<1>5. PageInv
  <2> SUFFICES ASSUME page # "adjudicate" PROVE PageInv
    BY DEF PageInv
  <2>1. /\ page \in Agents /\ DOMAIN view = PageFields /\ view.busy = FALSE /\ Opens(scenario)
        /\ page = "fund" => scenario.subject \in FundSubject
    BY OpenedPage
  <2>2. DOMAIN scenario = ScenarioFields /\ scenario.pending = FALSE /\ scenario.events = <<>>
    BY <2>1 DEF Opens
  <2>3. TimelineOK(scenario, calls, OnChain, view.busy, page)
    BY <2>2, Bare
  <2>4. \A i : i \notin 1 .. Len(calls)
    BY <1>2
  <2> QED BY <2>1, <2>3, <2>4 DEF PageInv
<1> QED BY <1>4, <1>5

-----------------------------------------------------------------------------
(* The adjudicator's page.  What it is reading is its last request, and    *)
(* what it shows was said by requests for the market it has selected.      *)

RunFields == {"kind", "output", "commit", "commitError"}

Searched(steps, q, market) ==
  steps # <<>> => \E step : /\ steps = <<step>> /\ "call" \in DOMAIN step
                            /\ step.call \in 1 .. Len(q) /\ q[step.call].key = market

RunShown(run, q, market) ==
  run.kind = "done" =>
    /\ DOMAIN run = RunFields
    /\ run.commit # None => run.commit \in 1 .. Len(q) /\ q[run.commit].key = market

AdjInv ==
  page = "adjudicate" =>
    /\ view.ctrl # None => view.ctrl = Len(calls) /\ calls[view.ctrl].reader = "open"
    /\ Searched(view.searchSteps, calls, view.selectedId)
    /\ view.searchSteps # <<>> /\ view.ctrl # None => NoSearch(calls[view.ctrl])
    /\ RunShown(view.run, calls, view.selectedId)

LEMMA SameKeys ==
  ASSUME NEW q, NEW r, Len(r) = Len(q), \A j \in 1 .. Len(q) : r[j].key = q[j].key, NEW market
  PROVE  /\ \A steps : Searched(steps, q, market) => Searched(steps, r, market)
         /\ \A run : RunShown(run, q, market) => RunShown(run, r, market)
BY DEF Searched, RunShown

LEMMA AdjInit == Init => AdjInv
<1> SUFFICES ASSUME Init, page = "adjudicate" PROVE AdjInv
  BY DEF AdjInv
<1>1. PICK market : view = AdjudicatePage(market)
  BY DEF Init
<1>2. view.ctrl = None /\ view.searchSteps = <<>> /\ view.run.kind = "idle"
  BY <1>1 DEF AdjudicatePage
<1> QED BY <1>2 DEF AdjInv, Searched, RunShown

LEMMA OnlyReplaced == ASSUME NEW a, NEW b PROVE [<<a>> EXCEPT ![1] = b] = <<b>>
<1>1. <<a>> \in Seq({a, b}) /\ <<b>> \in Seq({a, b}) /\ Len(<<a>>) = 1 /\ Len(<<b>>) = 1
  OBVIOUS
<1> DEFINE w == [<<a>> EXCEPT ![1] = b]
<1>2. w \in Seq({a, b}) /\ Len(w) = 1
  BY <1>1, ExceptSeq
<1>3. w[1] = b
  BY <1>1, ExceptSeq
<1> HIDE DEF w
<1> QED BY <1>1, <1>2, <1>3, SeqEqual

(* What is heard of the one run that is being read.                        *)
LEMMA ReadAdj ==
  ASSUME MarketInv, ServerInv, AdjInv, page = "adjudicate", NEW i \in 1 .. Len(calls), ReadEvent(i)
  PROVE  AdjInv'
<1> DEFINE c == calls[i]
           d == calls'[i]
           e == Head(c.wire)
           market == view.selectedId
<1>0. Len(calls) \in Nat
  BY LenProperties DEF MarketInv, Signed, Requests
<1>1. /\ Len(calls') = Len(calls)
      /\ \A j \in 1 .. Len(calls) : SameVerdict(calls[j], calls'[j])
  BY ReadServer
<1>2. Takes(c, d, e)
  BY ReadServer
<1>3. Learns(c, d, i, OnChain, e)
  BY ReadServer
<1>4. /\ c.reader = "open" /\ page' = page /\ view' = AdjudicateEvent(e)
      /\ DOMAIN view = ViewFields
  BY DEF ReadEvent, MarketInv, Attended
<1>5. i = view.ctrl /\ c.key = market /\ i # None
  BY <1>0, <1>4, ServerAssumption DEF MarketInv, Attended
<1>6. i = Len(calls)
  BY <1>5 DEF AdjInv
<1>7. /\ \A steps : Searched(steps, calls, market) => Searched(steps, calls', market)
      /\ \A run : RunShown(run, calls, market) => RunShown(run, calls', market)
  BY <1>1, SameKeys DEF SameVerdict
<1>8. d.reader = "open" /\ d.key = market /\ (NoSearch(c) => NoSearch(d))
  BY <1>1, <1>2, <1>3, <1>4, <1>5 DEF Takes, Learns, SameVerdict
<1>9. ASSUME NEW steps, NEW run, Searched(steps, calls', market), steps # <<>> => NoSearch(d),
             RunShown(run, calls', market), view'.searchSteps = steps, view'.run = run,
             view'.ctrl = view.ctrl, view'.selectedId = market
      PROVE  AdjInv'
  BY <1>1, <1>4, <1>5, <1>6, <1>8, <1>9 DEF AdjInv
<1>10. /\ Searched(view.searchSteps, calls', market) /\ RunShown(view.run, calls', market)
       /\ view.searchSteps # <<>> => NoSearch(c) /\ NoSearch(d)
  BY <1>5, <1>7, <1>8 DEF AdjInv
<1> HIDE DEF c, d, e, market
<1>11. CASE e.type = "search_started"
  <2> DEFINE step == [call |-> e.value, cited |-> FALSE]
  <2>1. e.value = i /\ ~NoSearch(c) /\ NoSearch(d)
    BY <1>3, <1>11 DEF Learns
  <2>2. view.searchSteps = <<>>
    BY <1>10, <2>1
  <2>3. view' = [view EXCEPT !.searchSteps = Append(@, step)]
    BY <1>4, <1>11 DEF AdjudicateEvent
  <2>4. Append(<<>>, step) = <<step>>
    OBVIOUS
  <2>5. /\ view'.searchSteps = <<step>> /\ view'.run = view.run /\ view'.ctrl = view.ctrl
        /\ view'.selectedId = market
    BY <1>4, <2>2, <2>3, <2>4 DEF ViewFields, market
  <2>6. "call" \in DOMAIN step /\ step.call = i
    BY <2>1
  <2> HIDE DEF step
  <2>7. Searched(<<step>>, calls', market)
    BY <1>1, <1>8, <2>6 DEF Searched, d
  <2> QED BY <1>9, <1>10, <2>1, <2>5, <2>7
<1>12. CASE e.type = "search_results" /\ view.searchSteps # <<>>
  <2>1. PICK old : /\ view.searchSteps = <<old>> /\ "call" \in DOMAIN old
                   /\ old.call \in 1 .. Len(calls') /\ calls'[old.call].key = market
    BY <1>10, <1>12 DEF Searched
  <2> DEFINE step == [old EXCEPT !.cited = TRUE]
             steps == [view.searchSteps EXCEPT ![1].cited = TRUE]
  <2>2. Len(view.searchSteps) = 1 /\ step.call = old.call /\ "call" \in DOMAIN step
    BY <2>1
  <2>3. view' = [view EXCEPT !.searchSteps[Len(view.searchSteps)].cited = TRUE]
    BY <1>4, <1>12 DEF AdjudicateEvent
  <2>4. [<<old>> EXCEPT ![1].cited = TRUE] = <<step>>
    <3>1. PICK w : w = <<old>>
      OBVIOUS
    <3>2. w[1] = old /\ [w EXCEPT ![1] = step] = <<step>>
      BY <3>1, OnlyReplaced
    <3>3. [w EXCEPT ![1].cited = TRUE] = [w EXCEPT ![1] = step]
      BY <3>2
    <3> QED BY <3>1, <3>2, <3>3
  <2>5. view' = [view EXCEPT !.searchSteps = steps] /\ steps = <<step>>
    BY <2>1, <2>2, <2>3, <2>4
  <2> HIDE DEF step, steps
  <2>6. /\ view'.searchSteps = steps /\ view'.run = view.run /\ view'.ctrl = view.ctrl
        /\ view'.selectedId = market
    BY <1>4, <2>5 DEF ViewFields, market
  <2>7. Searched(steps, calls', market)
    BY <2>1, <2>2, <2>5 DEF Searched
  <2> QED BY <1>9, <1>10, <1>12, <2>6, <2>7
<1>13. ASSUME NEW run, RunShown(run, calls', market), NEW typed,
              \/ view' = [view EXCEPT !.run = run]
              \/ view' = [view EXCEPT !.run = run, !.typed = typed]
       PROVE  AdjInv'
  <2>1. /\ view'.searchSteps = view.searchSteps /\ view'.run = run /\ view'.ctrl = view.ctrl
        /\ view'.selectedId = market
    BY <1>4, <1>13 DEF ViewFields, market
  <2> QED BY <1>9, <1>10, <1>13, <2>1
<1>14. CASE e.type = "text_delta"
  <2>1. view' = [view EXCEPT !.run = [kind |-> "streaming", reasoning |-> e.value]]
    BY <1>4, <1>14 DEF AdjudicateEvent
  <2>2. RunShown([kind |-> "streaming", reasoning |-> e.value], calls', market)
    BY DEF RunShown
  <2> QED BY <1>13, <2>1, <2>2
<1>15. CASE e.type = "final"
  <2> DEFINE run == [kind |-> "done", output |-> e.value, commit |-> None, commitError |-> FALSE]
  <2>1. view' = [view EXCEPT !.run = run, !.typed = FALSE]
    BY <1>4, <1>15 DEF AdjudicateEvent
  <2>2. RunShown(run, calls', market)
    BY DEF RunShown, RunFields
  <2> HIDE DEF run
  <2> QED BY <1>13, <2>1, <2>2
<1>16. CASE e.type = "committed" /\ view.run.kind = "done"
  <2> DEFINE run == [view.run EXCEPT !.commit = e.value]
  <2>1. view' = [view EXCEPT !.run = run]
    BY <1>4, <1>16 DEF AdjudicateEvent
  <2>2. e.value = i /\ DOMAIN view.run = RunFields
    BY <1>3, <1>10, <1>16 DEF Learns, RunShown
  <2>3. DOMAIN run = RunFields /\ run.commit = i
    BY <2>2 DEF RunFields
  <2> HIDE DEF run
  <2>4. RunShown(run, calls', market)
    BY <1>1, <1>8, <2>3 DEF RunShown, d
  <2> QED BY <1>13, <2>1, <2>4
<1>17. CASE e.type = "commit_error" /\ view.run.kind = "done"
  <2> DEFINE run == [view.run EXCEPT !.commitError = TRUE]
  <2>1. view' = [view EXCEPT !.run = run]
    BY <1>4, <1>17 DEF AdjudicateEvent
  <2>2. DOMAIN run = RunFields /\ run.commit = view.run.commit
    BY <1>10, <1>17 DEF RunFields, RunShown
  <2> HIDE DEF run
  <2>3. RunShown(run, calls', market)
    BY <1>10, <1>17, <2>2 DEF RunShown
  <2> QED BY <1>13, <2>1, <2>3
<1>18. CASE view' = view
  BY <1>9, <1>10, <1>18 DEF market
<1>19. \/ e.type \in {"search_started", "text_delta", "final"}
       \/ e.type = "search_results" /\ view.searchSteps # <<>>
       \/ e.type \in {"committed", "commit_error"} /\ view.run.kind = "done"
       \/ view' = view
  BY <1>4, Zenon DEF AdjudicateEvent
<1> QED BY <1>11, <1>12, <1>14, <1>15, <1>16, <1>17, <1>18, <1>19

-----------------------------------------------------------------------------
(* Whoever leaves a run, or starts one, is no longer reading the run before *)
LEMMA LeaveAdj ==
  ASSUME MarketInv, ServerInv, AdjInv, page = "adjudicate",
         NEW i \in 1 .. Len(calls), EndOfStream(i) \/ Disconnect(i)
  PROVE  AdjInv'
<1>1. Len(calls') = Len(calls) /\ \A j \in 1 .. Len(calls) : calls'[j].key = calls[j].key
  BY LeaveServer DEF SameVerdict
<1>2. DOMAIN view = ViewFields
  BY DEF MarketInv, Attended
<1>3. /\ view' = [view EXCEPT !.run = [kind |-> "error"], !.ctrl = None] \/ view' = [view EXCEPT !.ctrl = None]
      /\ page' = page
  BY DEF EndOfStream, Disconnect
<1>4. /\ view'.ctrl = None /\ view'.searchSteps = view.searchSteps /\ view'.selectedId = view.selectedId
      /\ view'.run = view.run \/ view'.run = [kind |-> "error"]
  BY <1>2, <1>3 DEF ViewFields
<1>5. Searched(view.searchSteps, calls', view.selectedId) /\ RunShown(view.run, calls', view.selectedId)
  BY <1>1, SameKeys DEF AdjInv
<1>6. RunShown([kind |-> "error"], calls', view.selectedId)
  BY DEF RunShown
<1> QED BY <1>3, <1>4, <1>5, <1>6 DEF AdjInv

LEMMA NothingShown ==
  \A q, market : /\ Searched(<<>>, q, market)
                 /\ \A run : run.kind # "done" => RunShown(run, q, market)
BY DEF Searched, RunShown

LEMMA SelectAdj ==
  ASSUME MarketInv, ServerInv, AdjInv, SelectMarket
  PROVE  ServerInv' /\ AdjInv'
<1>1. page = "adjudicate" /\ calls' = Aborted /\ UNCHANGED <<page, pool, mined, book>>
  BY DEF SelectMarket
<1>2. OnChain' = OnChain
  BY <1>1 DEF OnChain, Range
<1>3. ServerInv'
  <2>1. /\ Len(calls') = Len(calls)
        /\ \A j \in 1 .. Len(calls) : CallOK(calls'[j], j, OnChain) /\ SameVerdict(calls[j], calls'[j])
    BY <1>1, AbortedCalls
  <2>2. \A j \in 1 .. Len(calls') : CallOK(calls'[j], j, OnChain')
    BY <1>2, <2>1
  <2>3. OnChain \subseteq OnChain' /\ OnChain' \subseteq 1 .. Len(calls') /\ UNCHANGED <<mined, book>>
    BY <1>1, <1>2, <2>1 DEF ServerInv
  <2>4. \A j \in OnChain : /\ calls'[j].verdict = calls[j].verdict
                           /\ calls'[j].agent = calls[j].agent /\ calls'[j].key = calls[j].key
    BY <2>1 DEF ServerInv, SameVerdict
  <2> QED BY <2>2, <2>3, <2>4, CallsMove
<1>4. PICK market \in DOMAIN MARKETS :
        view' = [view EXCEPT !.selectedId = market, !.run = [kind |-> "idle"],
                             !.searchSteps = <<>>, !.ctrl = None]
  BY DEF SelectMarket
<1>5. DOMAIN view = ViewFields
  BY <1>1 DEF MarketInv, Attended
<1>6. view'.ctrl = None /\ view'.searchSteps = <<>> /\ view'.run.kind = "idle"
  BY <1>4, <1>5 DEF ViewFields
<1>7. AdjInv'
  BY <1>6, NothingShown DEF AdjInv
<1> QED BY <1>3, <1>7

LEMMA AdjudicateAdj ==
  ASSUME MarketInv, ServerInv, AdjInv, Adjudicate
  PROVE  ServerInv' /\ AdjInv'
<1>1. /\ page = "adjudicate" /\ calls' = Append(Aborted, Call("adjudicate", view.selectedId))
      /\ UNCHANGED <<page, pool, mined, book>>
      /\ view' = [view EXCEPT !.run = [kind |-> "streaming", reasoning |-> 0],
                              !.searchSteps = <<>>, !.ctrl = Len(calls) + 1]
  BY DEF Adjudicate, adjudicateMarket
<1>2. /\ Requests(Aborted) /\ Len(Aborted) = Len(calls)
      /\ \A j \in 1 .. Len(calls) : CallOK(Aborted[j], j, OnChain) /\ SameVerdict(calls[j], Aborted[j])
  BY <1>1, Aborts, AbortedCalls DEF Kept
<1>3. /\ ServerInv' /\ Len(calls) \in Nat /\ Len(calls') = Len(calls) + 1
      /\ calls'[Len(calls) + 1] = Call("adjudicate", view.selectedId)
  <2>1. "adjudicate" \in Agents
    BY DEF Agents
  <2>2. PICK q : q = Aborted
    OBVIOUS
  <2>3. /\ Requests(q) /\ Len(q) = Len(calls)
        /\ \A j \in 1 .. Len(calls) : CallOK(q[j], j, OnChain) /\ SameVerdict(calls[j], q[j])
        /\ calls' = Append(q, Call("adjudicate", view.selectedId)) /\ UNCHANGED <<pool, mined, book>>
    BY <1>1, <1>2, <2>2
  <2>4. /\ ServerInv' /\ OnChain' = OnChain /\ Len(calls) \in Nat /\ Len(calls') = Len(calls) + 1
        /\ calls'[Len(calls) + 1] = Call("adjudicate", view.selectedId)
        /\ \A j \in 1 .. Len(calls) : calls'[j] = q[j]
    BY <2>1, <2>3, AskServer
  <2> QED BY <2>4
<1>4. DOMAIN view = ViewFields
  BY <1>1 DEF MarketInv, Attended
<1>5. view'.ctrl = Len(calls) + 1 /\ view'.searchSteps = <<>> /\ view'.run.kind = "streaming"
  BY <1>1, <1>4 DEF ViewFields
<1>6. calls'[Len(calls')].reader = "open"
  BY <1>3 DEF Call
<1>7. AdjInv'
  BY <1>3, <1>5, <1>6, NothingShown DEF AdjInv
<1> QED BY <1>3, <1>7

LEMMA CatchUpAdj ==
  ASSUME MarketInv, ServerInv, AdjInv, CatchUp
  PROVE  ServerInv' /\ AdjInv'
<1>1. page = "adjudicate" /\ UNCHANGED <<page, calls, pool, mined, book>>
      /\ view' = [view EXCEPT !.typed = TRUE] /\ DOMAIN view = ViewFields
  BY DEF CatchUp, serverVars, MarketInv, Attended
<1>2. /\ view'.ctrl = view.ctrl /\ view'.searchSteps = view.searchSteps /\ view'.run = view.run
      /\ view'.selectedId = view.selectedId
  BY <1>1 DEF ViewFields
<1> QED BY <1>1, <1>2, IdleServer DEF AdjInv

LEMMA ServeAdj ==
  ASSUME MarketInv, ServerInv, AdjInv, page = "adjudicate",
         NEW i \in 1 .. Len(calls), Serve(i) \/ Kill(i), UNCHANGED <<page, view>>
  PROVE  AdjInv'
<1>1. /\ Len(calls') = Len(calls)
      /\ \A j \in 1 .. Len(calls) : /\ SameCall(calls[j], calls'[j])
                                    /\ NoSearch(calls[j]) => NoSearch(calls'[j])
  BY ServeServer
<1>2. \A j \in 1 .. Len(calls) : calls'[j].key = calls[j].key /\ calls'[j].reader = calls[j].reader
  BY <1>1 DEF SameCall
<1>3. Searched(view.searchSteps, calls', view.selectedId) /\ RunShown(view.run, calls', view.selectedId)
  BY <1>1, <1>2, SameKeys DEF AdjInv
<1>4. view.ctrl # None => view.ctrl \in 1 .. Len(calls)
  BY DEF MarketInv, Attended
<1> QED BY <1>1, <1>2, <1>3, <1>4 DEF AdjInv

-----------------------------------------------------------------------------
(* The inductive invariant: what is known of the markets and the runs that *)
(* may be for them, of the server and the chain, of the page and its       *)
(* timeline, and of the adjudicator's page.                                *)
AgentInv == MarketInv /\ ServerInv /\ PageInv /\ AdjInv

LEMMA AgentInit == Init => AgentInv
BY MarketInit, PageInit, AdjInit DEF AgentInv

(* Nothing moves but the chain or the day.                                 *)
LEMMA ChainMoves ==
  ASSUME AgentInv, UNCHANGED <<page, view, calls>>, OnChain' = OnChain
  PROVE  PageInv' /\ AdjInv' /\ (page # "adjudicate" => RowsKept(scenario, scenario'))
<1>1. CASE page = "adjudicate"
  <2>1. PageInv'
    BY <1>1 DEF PageInv
  <2>2. AdjInv'
    BY <1>1 DEF AgentInv, AdjInv
  <2> QED BY <1>1, <2>1, <2>2
<1>2. CASE page # "adjudicate"
  <2>1. PageInv' /\ RowsKept(scenario, scenario')
    BY <1>2, QuietPage DEF AgentInv
  <2>2. AdjInv'
    BY <1>2 DEF AdjInv
  <2> QED BY <2>1, <2>2
<1> QED BY <1>1, <1>2

LEMMA AgentNext ==
  ASSUME AgentInv, [Next]_vars
  PROVE  AgentInv' /\ (page # "adjudicate" => RowsKept(scenario, scenario'))
<1> DEFINE Goal == ServerInv' /\ PageInv' /\ AdjInv' /\ (page # "adjudicate" => RowsKept(scenario, scenario'))
<1>0. MarketInv /\ ServerInv /\ PageInv /\ AdjInv
  BY DEF AgentInv
<1>1. MarketInv'
  BY <1>0, MarketNext
<1>2. page' = "adjudicate" => (PageInv' <=> TRUE)
  BY DEF PageInv
<1>3. page' # "adjudicate" => (AdjInv' <=> TRUE)
  BY DEF AdjInv
<1>4. CASE PageActions
  <2>1. ServerInv' /\ PageInv' /\ RowsKept(scenario, scenario')
    BY <1>0, <1>4, AskPage
  <2>2. page' # "adjudicate"
    <3>1. page # "adjudicate" /\ \E action, amount, key : Asks(action, amount, key)
      BY <1>0, <1>4, AskEffect
    <3> QED BY <3>1 DEF Asks
  <2> QED BY <1>1, <1>3, <2>1, <2>2 DEF AgentInv
<1>5. CASE Loads
  <2>1. ServerInv' /\ PageInv' /\ RowsKept(scenario, scenario')
    BY <1>0, <1>5, LoadPage
  <2>2. page' # "adjudicate"
    BY <1>0, <1>5, LoadEffect
  <2> QED BY <1>1, <1>3, <2>1, <2>2 DEF AgentInv
<1>6. CASE SelectMarket \/ Adjudicate \/ CatchUp
  <2>1. ServerInv' /\ AdjInv'
    BY <1>0, <1>6, SelectAdj, AdjudicateAdj, CatchUpAdj
  <2>2. page = "adjudicate" /\ page' = page
    BY <1>6 DEF SelectMarket, Adjudicate, CatchUp
  <2> QED BY <1>1, <1>2, <2>1, <2>2 DEF AgentInv
<1>7. ASSUME NEW i \in 1 .. Len(calls), ReadEvent(i) \/ EndOfStream(i) \/ Disconnect(i)
      PROVE  AgentInv' /\ (page # "adjudicate" => RowsKept(scenario, scenario'))
  <2>1. page' = page
    BY <1>7 DEF ReadEvent, EndOfStream, Disconnect
  <2>2. ServerInv'
    BY <1>0, <1>7, ReadServer, LeaveServer
  <2>3. CASE page = "adjudicate"
    <3>1. AdjInv'
      BY <1>0, <1>7, <2>3, ReadAdj, LeaveAdj
    <3> QED BY <1>1, <1>2, <2>1, <2>2, <2>3, <3>1 DEF AgentInv
  <2>4. CASE page # "adjudicate"
    <3>1. PageInv' /\ RowsKept(scenario, scenario')
      BY <1>0, <1>7, <2>4, ReadPage, LeavePage
    <3> QED BY <1>1, <1>3, <2>1, <2>2, <2>4, <3>1 DEF AgentInv
  <2> QED BY <2>3, <2>4
<1>8. ASSUME NEW i \in 1 .. Len(calls), Serve(i) \/ Kill(i), UNCHANGED <<page, view>>
      PROVE  AgentInv' /\ (page # "adjudicate" => RowsKept(scenario, scenario'))
  <2>1. page' = page
    BY <1>8
  <2>2. ServerInv'
    BY <1>0, <1>8, ServeServer
  <2>3. CASE page = "adjudicate"
    <3>1. AdjInv'
      BY <1>0, <1>8, <2>3, ServeAdj
    <3> QED BY <1>1, <1>2, <2>1, <2>2, <2>3, <3>1 DEF AgentInv
  <2>4. CASE page # "adjudicate"
    <3>1. PageInv' /\ RowsKept(scenario, scenario')
      BY <1>0, <1>8, <2>4, ServePage
    <3> QED BY <1>1, <1>3, <2>1, <2>2, <2>4, <3>1 DEF AgentInv
  <2> QED BY <2>3, <2>4
<1>9. CASE Mine /\ UNCHANGED <<page, view>>
  <2>1. ServerInv' /\ OnChain' = OnChain
    BY <1>0, <1>9, MineServer
  <2>2. UNCHANGED <<page, view, calls>>
    BY <1>9 DEF Mine
  <2> QED BY <1>1, <2>1, <2>2, ChainMoves DEF AgentInv
<1>10. CASE UNCHANGED <<page, view>> /\ (Midnight \/ \E market \in DOMAIN MARKETS : Decline(market))
  <2>1. ServerInv' /\ OnChain' = OnChain
    <3>1. Midnight => UNCHANGED <<calls, pool, mined, book>>
      BY DEF Midnight
    <3> QED BY <1>0, <1>10, <3>1, IdleServer, DeclineServer
  <2>2. UNCHANGED <<page, view, calls>>
    BY <1>10 DEF Midnight, Decline
  <2> QED BY <1>1, <2>1, <2>2, ChainMoves DEF AgentInv
<1>11. CASE UNCHANGED vars
  <2>1. UNCHANGED <<page, view, calls, pool, mined, book>>
    BY <1>11 DEF vars, serverVars
  <2>2. ServerInv' /\ OnChain' = OnChain
    BY <1>0, <2>1, IdleServer
  <2> QED BY <1>1, <2>1, <2>2, ChainMoves DEF AgentInv
<1> QED BY <1>4, <1>5, <1>6, <1>7, <1>8, <1>9, <1>10, <1>11, StepKinds

-----------------------------------------------------------------------------
(* What the invariant says of the rows.                                    *)
LEMMA RowKnown ==
  ASSUME AgentInv, NEW e \in Rows
  PROVE  /\ page # "adjudicate" /\ \E k \in 1 .. Len(scenario.events) : e = scenario.events[k]
         /\ EntryOK(e, calls, OnChain, page) /\ (view.busy = FALSE => ~Waiting(e))
<1>1. page # "adjudicate" /\ e \in Range(scenario.events)
  BY DEF Rows
<1>2. TimelineOK(scenario, calls, OnChain, view.busy, page)
  BY <1>1 DEF AgentInv, PageInv
<1>3. IsSeq(scenario.events)
  BY <1>2 DEF TimelineOK
<1>4. DOMAIN scenario.events = 1 .. Len(scenario.events)
  BY <1>3, LenProperties DEF IsSeq
<1>5. PICK k \in 1 .. Len(scenario.events) : e = scenario.events[k]
  BY <1>1, <1>4 DEF Range
<1> QED BY <1>1, <1>2, <1>5 DEF TimelineOK

(* No late event of one request puts a badge on the row of another, and a  *)
(* badge never stands on a row that shows a different decision than the    *)
(* transaction carries.                                                    *)
THEOREM BadgesAreTheirRows == Spec => []BadgeMatchesRow
<1>1. AgentInv => BadgeMatchesRow
  <2> SUFFICES ASSUME AgentInv, NEW e \in Rows, e.commit # None
               PROVE  /\ e.commit = e.call
                      /\ e.call \in pool \cup Range(mined)
                      /\ e.verdict.decision = calls[e.call].verdict.decision
    BY DEF BadgeMatchesRow
  <2>1. EntryOK(e, calls, OnChain, page)
    BY RowKnown
  <2> QED BY <2>1 DEF EntryOK, OnChain
<1>2. AgentInv /\ [Next]_vars => AgentInv'
  BY AgentNext
<1> QED BY <1>1, <1>2, AgentInit, PTL DEF Spec

(* A page that is free again shows a decision on every row: whatever broke *)
(* left the fallback.                                                      *)
THEOREM RowsAreSettled == Spec => []NoOrphanRow
<1>1. AgentInv => NoOrphanRow
  <2> SUFFICES ASSUME AgentInv, page # "adjudicate", ~view.busy, NEW e \in Rows PROVE ~Waiting(e)
    BY DEF NoOrphanRow
  <2>1. view.busy = FALSE
    BY DEF AgentInv, PageInv
  <2> QED BY <2>1, RowKnown
<1>2. AgentInv /\ [Next]_vars => AgentInv'
  BY AgentNext
<1> QED BY <1>1, <1>2, AgentInit, PTL DEF Spec

-----------------------------------------------------------------------------
(* The verdict last filed under a key is that of a mined request.          *)
LEMMA LatestAttributed ==
  ASSUME Tied, NEW agent, NEW key, agent = "terra" => key \in Actions, NEW v, v = Latest(book, agent, key)
  PROVE  v = Uninitialized \/ Attributed(v, mined, calls)
<1>1. CASE agent = "terra"
  <2> DEFINE rounds == book.terra[key]
  <2>1. IsSeq(rounds) /\ \A n \in 1 .. Len(rounds) : Attributed(rounds[n], mined, calls)
    BY <1>1 DEF Tied
  <2>2. v = IF rounds = <<>> THEN Uninitialized ELSE Last(rounds)
    BY <1>1 DEF Latest
  <2> HIDE DEF rounds
  <2>3. rounds # <<>> => Len(rounds) \in 1 .. Len(rounds) /\ Last(rounds) = rounds[Len(rounds)]
    BY <2>1, OneLess DEF Last
  <2> QED BY <2>1, <2>2, <2>3
<1>2. CASE agent # "terra"
  <2> DEFINE filed == {f \in book.verdicts : f.agent = agent /\ f.key = key}
  <2>1. v = IF filed = {} THEN Uninitialized ELSE (CHOOSE f \in filed : TRUE).verdict
    BY <1>2 DEF Latest
  <2>2. filed # {} => (CHOOSE f \in filed : TRUE) \in book.verdicts
    <3>1. filed # {} => (CHOOSE f \in filed : TRUE) \in filed
      OBVIOUS
    <3> QED BY <3>1
  <2> HIDE DEF filed
  <2> QED BY <2>1, <2>2 DEF Tied
<1> QED BY <1>1, <1>2

(* A row with a badge and the last verdict filed, when that is its own.    *)
LEMMA RowOfVerdict ==
  ASSUME AgentInv, NEW e \in Rows, e.commit # None, NEW key, page = "terra" => key \in Actions,
         NEW v, v = Latest(book, page, key), v.by = e.call
  PROVE  /\ ~Waiting(e) /\ v.decision = e.verdict.decision
         /\ page \in {"terra", "bridge"} => v.decision \in {"ALLOW", "REFUSE"}
         /\ page \in {"governance", "aviation"} => v.decision \in {"APPROVE", "REJECT", "CAUTION"}
<1>1. EntryOK(e, calls, OnChain, page) /\ page # "adjudicate" /\ page \in Agents
  BY RowKnown DEF AgentInv, PageInv
<1>2. e.call \in 1 .. Len(calls) /\ e.call \in OnChain /\ ~Waiting(e)
      /\ e.verdict.decision = calls[e.call].verdict.decision /\ e.call # 0
  BY <1>1 DEF EntryOK
<1>3. v # Uninitialized
  BY <1>2 DEF Uninitialized, Verdict
<1>4. v.decision = calls[e.call].verdict.decision
  BY <1>2, <1>3, LatestAttributed DEF AgentInv, ServerInv, Attributed
<1>5. calls[e.call].verdict \in Given(page)
  BY <1>1, <1>2 DEF AgentInv, ServerInv, PageInv, CallOK, VerdictOK, Stands
<1>6. page \in {"terra", "bridge"} => calls[e.call].verdict.decision \in {"ALLOW", "REFUSE"}
  BY <1>5 DEF Given
<1>7. page \in {"governance", "aviation"} =>
        calls[e.call].verdict.decision \in {"APPROVE", "REJECT", "CAUTION"}
  BY <1>5 DEF Given
<1> QED BY <1>2, <1>4, <1>6, <1>7

(* What a badged row shows is what the protocol's gate answers, as long as *)
(* no later verdict has been filed under the row's key.                    *)
THEOREM GateAgreesWithRow == Spec => []RowAgreesWithGate
<1>1. AgentInv => RowAgreesWithGate
  <2> SUFFICES ASSUME AgentInv, NEW e \in Rows, e.commit # None, e.call \in Range(mined)
               PROVE  /\ page = "terra" /\ Latest(book, "terra", e.action).by = e.call =>
                           (TerraRow(e).decision = "ALLOW") <=> (TerraGate(book, e.action) = "passes")
                      /\ page = "bridge" /\ Latest(book, "bridge", calls[e.call].key).by = e.call =>
                           (BridgeRow(e).decision = "ALLOW") <=> (BridgeGate(book, calls[e.call].key) = "passes")
                      /\ page = "governance" /\ Latest(book, "governance", e.snapshot).by = e.call =>
                           GovernanceRow(e).decision = Latest(book, "governance", e.snapshot).decision
                      /\ page = "aviation" /\ Latest(book, "aviation", e.snapshot).by = e.call =>
                           AviationRow(e).decision = Latest(book, "aviation", e.snapshot).decision
    BY DEF RowAgreesWithGate
  <2>1. ASSUME page = "terra", Latest(book, "terra", e.action).by = e.call
        PROVE  (TerraRow(e).decision = "ALLOW") <=> (TerraGate(book, e.action) = "passes")
    <3>1. e.action \in Actions
      BY <2>1, RowKnown DEF EntryOK
    <3>2. PICK v : v = Latest(book, "terra", e.action)
      OBVIOUS
    <3>3. ~Waiting(e) /\ v.decision = e.verdict.decision /\ v.decision \in {"ALLOW", "REFUSE"}
      BY <2>1, <3>1, <3>2, RowOfVerdict
    <3>4. TerraRow(e).decision = e.verdict.decision
      BY <3>3 DEF TerraRow
    <3>5. TerraGate(book, e.action) = IF v.decision = "REFUSE" THEN "ActionRefused" ELSE "passes"
      BY <3>2, <3>3 DEF TerraGate
    <3> QED BY <3>3, <3>4, <3>5
  <2>2. ASSUME page = "bridge", Latest(book, "bridge", calls[e.call].key).by = e.call
        PROVE  (BridgeRow(e).decision = "ALLOW") <=> (BridgeGate(book, calls[e.call].key) = "passes")
    <3>1. PICK key : key = calls[e.call].key
      OBVIOUS
    <3>2. PICK v : v = Latest(book, "bridge", key)
      OBVIOUS
    <3>3. ~Waiting(e) /\ v.decision = e.verdict.decision /\ v.decision \in {"ALLOW", "REFUSE"}
      BY <2>2, <3>1, <3>2, RowOfVerdict
    <3>4. (BridgeRow(e).decision = "ALLOW") <=> v.decision = "ALLOW"
      BY <3>3 DEF BridgeRow
    <3>5. BridgeGate(book, key) = IF v.decision = "REFUSE" THEN "AttestationRefused" ELSE "passes"
      BY <3>2, <3>3 DEF BridgeGate
    <3> QED BY <3>1, <3>3, <3>4, <3>5
  <2>3. ASSUME page = "governance", Latest(book, "governance", e.snapshot).by = e.call
        PROVE  GovernanceRow(e).decision = Latest(book, "governance", e.snapshot).decision
    <3>1. PICK key, v : key = e.snapshot /\ v = Latest(book, "governance", key)
      OBVIOUS
    <3>2. v = Latest(book, page, key) /\ v.by = e.call /\ page # "terra"
      BY <2>3, <3>1
    <3>3. /\ ~Waiting(e) /\ v.decision = e.verdict.decision
          /\ v.decision \in {"APPROVE", "REJECT", "CAUTION"}
      BY <2>3, <3>2, RowOfVerdict
    <3> QED BY <3>1, <3>3 DEF GovernanceRow, GovernanceLabel
  <2>4. ASSUME page = "aviation", Latest(book, "aviation", e.snapshot).by = e.call
        PROVE  AviationRow(e).decision = Latest(book, "aviation", e.snapshot).decision
    <3>1. PICK key, v : key = e.snapshot /\ v = Latest(book, "aviation", key)
      OBVIOUS
    <3>2. v = Latest(book, page, key) /\ v.by = e.call /\ page # "terra"
      BY <2>4, <3>1
    <3>3. /\ ~Waiting(e) /\ v.decision = e.verdict.decision
          /\ v.decision \in {"APPROVE", "REJECT", "CAUTION"}
      BY <2>4, <3>2, RowOfVerdict
    <3> QED BY <3>1, <3>3 DEF AviationRow, AviationLabel
  <2> QED BY <2>1, <2>2, <2>3, <2>4
<1>2. AgentInv /\ [Next]_vars => AgentInv'
  BY AgentNext
<1> QED BY <1>1, <1>2, AgentInit, PTL DEF Spec

(* Nothing of a run the visitor has left reaches the page: neither its     *)
(* searches nor its verdict nor its badge.                                 *)
THEOREM OldRunsStaySilent == Spec => []RunIsForSelectedMarket
<1>1. AgentInv => RunIsForSelectedMarket
  <2> SUFFICES ASSUME AgentInv, page = "adjudicate"
               PROVE  /\ view.ctrl # None => /\ view.ctrl = Len(calls)
                                             /\ calls[view.ctrl].key = view.selectedId
                      /\ \A i \in Calls : calls[i].reader = "open" => i = view.ctrl
                      /\ \A k \in DOMAIN view.searchSteps :
                           calls[view.searchSteps[k].call].key = view.selectedId
                      /\ Len(view.searchSteps) <= 1
                      /\ view.run.kind = "done" /\ view.run.commit # None =>
                           calls[view.run.commit].key = view.selectedId
    BY DEF RunIsForSelectedMarket
  <2>1. view.ctrl # None => /\ view.ctrl = Len(calls) /\ calls[view.ctrl].key = view.selectedId
    BY DEF AgentInv, AdjInv, MarketInv, Attended
  <2>2. \A i \in Calls : calls[i].reader = "open" => i = view.ctrl
    BY DEF AgentInv, MarketInv, Attended, Calls
  <2>3. /\ \A k \in DOMAIN view.searchSteps : calls[view.searchSteps[k].call].key = view.selectedId
        /\ Len(view.searchSteps) <= 1
    <3>1. Searched(view.searchSteps, calls, view.selectedId)
      BY DEF AgentInv, AdjInv
    <3>2. CASE view.searchSteps = <<>>
      BY <3>2
    <3>3. CASE view.searchSteps # <<>>
      <4>1. PICK step : view.searchSteps = <<step>> /\ calls[step.call].key = view.selectedId
        BY <3>1, <3>3 DEF Searched
      <4> QED BY <4>1
    <3> QED BY <3>2, <3>3
  <2>4. view.run.kind = "done" /\ view.run.commit # None => calls[view.run.commit].key = view.selectedId
    BY DEF AgentInv, AdjInv, RunShown
  <2> QED BY <2>1, <2>2, <2>3, <2>4
<1>2. AgentInv /\ [Next]_vars => AgentInv'
  BY AgentNext
<1> QED BY <1>1, <1>2, AgentInit, PTL DEF Spec

(* The transaction of a badged run may revert because an earlier run of    *)
(* the market was mined first: then that one has resolved it.              *)
THEOREM BadgeMeansResolved == Spec => []BadgedMarketPays
<1>1. AgentInv => BadgedMarketPays
  <2> SUFFICES ASSUME AgentInv, page = "adjudicate", view.run.kind = "done", view.run.commit \in Range(mined)
               PROVE  MarketGate(book, view.selectedId) = "pays"
    BY DEF BadgedMarketPays
  <2>1. view.run.commit \in 1 .. Len(calls) /\ Len(calls) \in Nat
    BY LenProperties DEF AgentInv, ServerInv, OnChain, MarketInv, Signed, Requests
  <2>2. view.run.commit # None
    BY <2>1, ServerAssumption
  <2>3. calls[view.run.commit].key = view.selectedId /\ calls[view.run.commit].agent = "adjudicate"
    BY <2>1, <2>2 DEF AgentInv, AdjInv, RunShown, MarketInv, Attended
  <2>4. Resolved(book, view.selectedId)
    BY <2>3 DEF AgentInv, ServerInv, Tied
  <2> QED BY <2>4 DEF Resolved, MarketGate
<1>2. AgentInv /\ [Next]_vars => AgentInv'
  BY AgentNext
<1> QED BY <1>1, <1>2, AgentInit, PTL DEF Spec

(* While a row waits for its verdict, what it was asked about stays as it  *)
(* is: every control that would change it is off.                          *)
THEOREM SubjectWaits == Spec => JudgedWhatItMoves
<1>1. AgentInv /\ [Next]_vars =>
        [page # "adjudicate" /\ scenario.events # <<>> /\ Head(scenario.events).pending
           /\ scenario'.subject # scenario.subject
           => Head(scenario.events).snapshot = scenario.subject]_vars
  <2> SUFFICES ASSUME AgentInv, page # "adjudicate", scenario.events # <<>>, Head(scenario.events).pending
               PROVE  Head(scenario.events).snapshot = scenario.subject
    OBVIOUS
  <2>1. TimelineOK(scenario, calls, OnChain, view.busy, page)
    BY DEF AgentInv, PageInv
  <2>2. Head(scenario.events) = scenario.events[1]
    BY <2>1, HeadOK
  <2> QED BY <2>1, <2>2 DEF TimelineOK
<1>2. AgentInv /\ [Next]_vars => AgentInv'
  BY AgentNext
<1> QED BY <1>1, <1>2, AgentInit, PTL DEF Spec, JudgedWhatItMoves

LEMMA PageStays == [Next]_vars => page' = page
<1>1. PageActions => page' = page
  BY Asked
<1>2. Loads => page' = page
  BY DEF Loads, TerraPreset, BridgePreset, GovernancePreset, AviationPreset, FundPreset,
         TerraReset, BridgeReset, GovernanceReset, AviationReset, FundReset, Loaded
<1>3. SelectMarket \/ Adjudicate \/ CatchUp => page' = page
  BY DEF SelectMarket, Adjudicate, CatchUp
<1>4. ASSUME NEW i \in 1 .. Len(calls), ReadEvent(i) \/ EndOfStream(i) \/ Disconnect(i)
      PROVE  page' = page
  BY <1>4 DEF ReadEvent, EndOfStream, Disconnect
<1>5. UNCHANGED vars => page' = page
  BY DEF vars
<1> QED BY <1>1, <1>2, <1>3, <1>4, <1>5, StepKinds

(* No step of the server, the reader, the visitor or the chain rewrites a  *)
(* decision that is shown, or takes its badge away.                        *)
THEOREM DecisionsStay == Spec => VerdictsAreFinal
<1>1. AgentInv /\ [Next]_vars =>
        [page # "adjudicate" =>
           \A k \in DOMAIN scenario.events : \A n \in DOMAIN scenario'.events :
             LET e == scenario.events[k]
                 f == scenario'.events[n]
             IN  e.call = f.call /\ ~Waiting(e) =>
                   f.verdict = e.verdict /\ (e.commit # None => f.commit = e.commit)]_vars
  <2> SUFFICES ASSUME AgentInv, [Next]_vars, page # "adjudicate",
                      NEW k \in DOMAIN scenario.events, NEW n \in DOMAIN scenario'.events,
                      scenario.events[k].call = scenario'.events[n].call, ~Waiting(scenario.events[k])
               PROVE  /\ scenario'.events[n].verdict = scenario.events[k].verdict
                      /\ scenario.events[k].commit # None =>
                           scenario'.events[n].commit = scenario.events[k].commit
    OBVIOUS
  <2>1. AgentInv' /\ RowsKept(scenario, scenario') /\ page' # "adjudicate"
    BY AgentNext, PageStays
  <2>2. IsSeq(scenario.events) /\ IsSeq(scenario'.events)
    BY <2>1 DEF AgentInv, PageInv, TimelineOK
  <2>3. \A w : IsSeq(w) => DOMAIN w = 1 .. Len(w)
    BY LenProperties DEF IsSeq
  <2>4. k \in 1 .. Len(scenario.events) /\ n \in 1 .. Len(scenario'.events)
    BY <2>2, <2>3
  <2> QED BY <2>1, <2>4 DEF RowsKept
<1>2. AgentInv /\ [Next]_vars => AgentInv'
  BY AgentNext
<1> QED BY <1>1, <1>2, AgentInit, PTL DEF Spec, VerdictsAreFinal

-----------------------------------------------------------------------------
(* The paper fund's rows: a decision that is shown stands beside what it   *)
(* made of the portfolio the agent was asked about, in that market.        *)
Traded(e) ==
  e.verdict # None =>
    /\ e.snapshot \in FundSubject
    /\ \E d \in Given("fund") :
         e.verdict = WithPortfolio(d, applyDecisionToPortfolio(e.snapshot.portfolio, d,
                                                              FUND_PRESETS[e.snapshot.market]))

AllTraded(w) == \A k \in 1 .. Len(w) : Traded(w[k])

TradeInv == page = "fund" => AllTraded(scenario.events)

LEMMA PushTraded ==
  ASSUME NEW s, DOMAIN s = ScenarioFields, IsSeq(s.events), AllTraded(s.events),
         NEW action, NEW amount, NEW call, NEW t, t = Push(s, Entry(s, action, amount, call))
  PROVE  AllTraded(t.events)
<1> DEFINE e == Entry(s, action, amount, call)
           w == s.events
           v == t.events
           all == <<e>> \o w
           n == IF Len(all) < MaxEvents THEN Len(all) ELSE MaxEvents
<1>1. Traded(e)
  BY DEF Traded, Entry
<1>2. v = SubSeq(all, 1, n) /\ IsSeq(w) /\ AllTraded(w)
  BY DEF Push, ScenarioFields
<1>3. n \in 1 .. Len(w) + 1
  <2>1. PICK S : w \in Seq(S)
    BY DEF IsSeq
  <2>2. w \in Seq(S \cup {e}) /\ <<e>> \in Seq(S \cup {e}) /\ Len(w) \in Nat /\ Len(<<e>>) = 1
    BY <2>1, SeqMonotonic, LenProperties
  <2>3. Len(all) = Len(w) + 1
    BY <2>2, ConcatProperties
  <2> HIDE DEF all
  <2> QED BY <2>2, <2>3, TimelineAssumption
<1> HIDE DEF e, w, v, n
<1>4. Len(v) = n /\ v[1] = e
  BY <1>2, <1>3, PushOnly
<1>5. \A k \in 1 .. Len(v) : k = 1 \/ (k - 1 \in 1 .. Len(w) /\ v[k] = w[k - 1])
  BY <1>2, <1>3, <1>4, PushOnly
<1>6. AllTraded(v)
  BY <1>1, <1>2, <1>4, <1>5 DEF AllTraded
<1> QED BY <1>6 DEF v

LEMMA HeadTraded ==
  ASSUME NEW w, IsSeq(w), w # <<>>, AllTraded(w), NEW h, Traded(h), NEW v, v = <<h>> \o Tail(w)
  PROVE  AllTraded(v)
<1>1. Len(v) = Len(w) /\ v[1] = h
  BY Rehead
<1>2. \A k \in 1 .. Len(v) : k = 1 \/ v[k] = w[k]
  BY Rehead
<1> QED BY <1>1, <1>2 DEF AllTraded

(* A word of the reasoning touches no decision.                            *)
LEMMA StreamTraded ==
  ASSUME NEW s, NEW q, NEW O, TimelineOK(s, q, O, TRUE, "fund"), AllTraded(s.events), NEW text,
         NEW t, t = Stream(s, text)
  PROVE  AllTraded(t.events)
<1>1. CASE ~HeadPending(s)
  BY <1>1 DEF Stream
<1>2. CASE HeadPending(s)
  <2> DEFINE e == s.events[1]
             h == [e EXCEPT !.streaming = text]
  <2>1. s.events # <<>> /\ DOMAIN s = ScenarioFields /\ IsSeq(s.events)
    BY <1>2 DEF HeadPending, TimelineOK
  <2>2. Head(s.events) = e /\ DOMAIN e = EntryFields /\ 1 \in 1 .. Len(s.events)
    BY <2>1, HeadOK DEF EntryOK
  <2>3. t.events = <<h>> \o Tail(s.events)
    BY <1>2, <2>1, <2>2 DEF Stream, WithHead, ScenarioFields
  <2>4. h.verdict = e.verdict /\ h.snapshot = e.snapshot
    BY <2>2 DEF EntryFields
  <2>5. Traded(e)
    BY <2>2 DEF AllTraded
  <2> HIDE DEF e, h
  <2>6. Traded(h)
    BY <2>4, <2>5 DEF Traded
  <2> QED BY <2>1, <2>3, <2>6, HeadTraded
<1> QED BY <1>1, <1>2

(* The stream's end: the decision is filed on the head, with what it makes *)
(* of the portfolio; the head was asked about just that portfolio.         *)
LEMMA FundDecides ==
  ASSUME NEW s, NEW q, NEW O, TimelineOK(s, q, O, TRUE, "fund"), AllTraded(s.events),
         s.subject \in FundSubject, NEW d \in Given("fund"),
         NEW t, t = setFundPending(applyFundDecision(s, d), FALSE)
  PROVE  AllTraded(t.events)
<1> DEFINE after == applyDecisionToPortfolio(s.subject.portfolio, d, FUND_PRESETS[s.subject.market])
           r == WithPortfolio(d, after)
<1>0. DOMAIN s = ScenarioFields /\ IsSeq(s.events)
  BY DEF TimelineOK
<1>1. CASE ~HeadPending(s)
  <2>1. t.events = s.events
    BY <1>0, <1>1 DEF setFundPending, applyFundDecision, Settle, ScenarioFields
  <2> QED BY <2>1
<1>2. CASE HeadPending(s)
  <2> DEFINE e == s.events[1]
             h == [e EXCEPT !.pending = FALSE, !.verdict = r, !.streaming = 0]
             u == Settle(s, r)
  <2>1. s.events # <<>>
    BY <1>2 DEF HeadPending
  <2>2. Head(s.events) = e /\ DOMAIN e = EntryFields /\ e.pending
    BY <1>2, <2>1, HeadOK DEF EntryOK
  <2>3. e.snapshot = s.subject
    BY <2>1, <2>2 DEF TimelineOK
  <2> HIDE DEF r, after
  <2>4. DOMAIN u = ScenarioFields /\ u.events = <<h>> \o Tail(s.events)
    BY <1>0, <1>2, <2>2 DEF Settle, WithHead, ScenarioFields
  <2>5. applyFundDecision(s, d) = [u EXCEPT !.subject.portfolio = after]
    BY <1>2 DEF applyFundDecision, r, after
  <2> HIDE DEF u
  <2>6. t.events = <<h>> \o Tail(s.events)
    BY <2>4, <2>5 DEF setFundPending, ScenarioFields
  <2>7. h.verdict = r /\ h.snapshot = s.subject
    BY <2>2, <2>3 DEF EntryFields
  <2> HIDE DEF h, e
  <2>8. Traded(h)
    BY <2>7 DEF Traded, r, after
  <2> QED BY <1>0, <2>1, <2>6, <2>8, HeadTraded
<1> QED BY <1>1, <1>2

(* The page's own steps.                                                   *)
LEMMA ReadTrades ==
  ASSUME AgentInv, page = "fund", AllTraded(scenario.events), NEW i \in 1 .. Len(calls),
         ReadEvent(i) \/ EndOfStream(i) \/ Disconnect(i)
  PROVE  AllTraded(scenario'.events)
<1>1. calls[i].reader = "open"
  BY DEF ReadEvent, EndOfStream, Disconnect
<1>2. /\ TimelineOK(scenario, calls, OnChain, TRUE, "fund") /\ DOMAIN view = PageFields
      /\ scenario.subject \in FundSubject /\ calls[i].agent = "fund"
  BY <1>1 DEF AgentInv, PageInv
<1>4. CASE ReadEvent(i)
  <2> DEFINE e == Head(calls[i].wire)
  <2>1. view' = [view EXCEPT !.scenario = FundEvent(e)]
    BY <1>4 DEF ReadEvent
  <2>2. scenario' = FundEvent(e)
    BY <1>2, <2>1 DEF PageFields, scenario
  <2>3. scenario' = scenario \/ scenario' = Stream(scenario, e.value)
    BY <2>2 DEF FundEvent, setFundPendingReasoning
  <2> HIDE DEF e
  <2>4. PICK s, q, O : s = scenario /\ q = calls /\ O = OnChain
    OBVIOUS
  <2>5. TimelineOK(s, q, O, TRUE, "fund") /\ AllTraded(s.events)
    BY <1>2, <2>4
  <2>6. AllTraded(Stream(s, e.value).events)
    BY <2>5, StreamTraded
  <2> QED BY <2>3, <2>4, <2>6
<1>5. ASSUME NEW d \in Given("fund"), scenario' = setFundPending(applyFundDecision(scenario, d), FALSE)
      PROVE  AllTraded(scenario'.events)
  <2>1. PICK s, t, q, O : s = scenario /\ t = scenario' /\ q = calls /\ O = OnChain
    OBVIOUS
  <2>2. /\ TimelineOK(s, q, O, TRUE, "fund") /\ AllTraded(s.events) /\ s.subject \in FundSubject
        /\ t = setFundPending(applyFundDecision(s, d), FALSE)
    BY <1>2, <1>5, <2>1
  <2>3. AllTraded(t.events)
    BY <2>2, FundDecides
  <2> QED BY <2>1, <2>3
<1>6. CASE EndOfStream(i) \/ Disconnect(i)
  <2>1. [decision |-> "HOLD", sizeUsd |-> 0] \in Given("fund")
    BY DEF Given
  <2>2. scenario' = Fallback \/ (calls[i].final # None /\ scenario' = Finished(calls[i].final))
    <3>1. CASE EndOfStream(i)
      <4>1. PICK u : u = IF calls[i].final = None THEN Fallback ELSE Finished(calls[i].final)
        OBVIOUS
      <4>2. view' = [view EXCEPT !.busy = FALSE, !.scenario = u]
        BY <1>1, <3>1, <4>1 DEF EndOfStream
      <4>3. scenario' = u
        BY <1>2, <4>2 DEF PageFields, scenario
      <4> QED BY <4>1, <4>3
    <3>2. CASE Disconnect(i)
      <4>1. PICK u : u = Fallback
        OBVIOUS
      <4>2. view' = [view EXCEPT !.busy = FALSE, !.scenario = u]
        BY <3>2, <4>1 DEF Disconnect
      <4>3. scenario' = u
        BY <1>2, <4>2 DEF PageFields, scenario
      <4> QED BY <4>1, <4>3
    <3> QED BY <1>6, <3>1, <3>2
  <2>3. CASE scenario' = Fallback
    <3>1. scenario' = setFundPending(applyFundDecision(scenario, [decision |-> "HOLD", sizeUsd |-> 0]), FALSE)
      BY <2>3 DEF Fallback, FundFallback
    <3> QED BY <1>5, <2>1, <3>1
  <2>4. CASE calls[i].final # None /\ scenario' = Finished(calls[i].final)
    <3>1. calls[i].final \in Given("fund")
      BY <1>2, <2>4 DEF AgentInv, ServerInv, CallOK, VerdictOK
    <3>2. scenario' = setFundPending(applyFundDecision(scenario, calls[i].final), FALSE)
      BY <2>4 DEF Finished, FundFinish
    <3> QED BY <1>5, <3>1, <3>2
  <2> QED BY <2>2, <2>3, <2>4
<1> QED BY <1>4, <1>6

LEMMA TradeInit == Init => TradeInv
<1> SUFFICES ASSUME Init, page = "fund" PROVE AllTraded(scenario.events)
  BY DEF TradeInv
<1>1. Opens(scenario)
  BY OpenedPage
<1>2. Len(scenario.events) = 0
  BY <1>1 DEF Opens
<1> QED BY <1>2 DEF AllTraded

LEMMA TradeNext ==
  ASSUME AgentInv, TradeInv, [Next]_vars
  PROVE  TradeInv'
<1> SUFFICES ASSUME page' = "fund" PROVE AllTraded(scenario'.events)
  BY DEF TradeInv, AllTraded, Traded
<1>1. page = "fund" /\ AllTraded(scenario.events)
  BY PageStays DEF TradeInv
<1>2. DOMAIN scenario = ScenarioFields /\ IsSeq(scenario.events)
  BY <1>1 DEF AgentInv, PageInv, TimelineOK
<1>3. CASE PageActions
  <2>1. page # "adjudicate" /\ \E action, amount, key : Asks(action, amount, key)
    BY <1>3, AskEffect DEF AgentInv
  <2>2. PICK action, amount, key : Asks(action, amount, key)
    BY <2>1
  <2>3. PICK s, t, n : /\ s = scenario /\ t = scenario' /\ n = Len(calls) + 1
                       /\ t = Push(s, Entry(s, action, amount, n))
    BY <2>2 DEF Asks
  <2>4. DOMAIN s = ScenarioFields /\ IsSeq(s.events) /\ AllTraded(s.events)
    BY <1>1, <1>2, <2>3
  <2>5. AllTraded(t.events)
    BY <2>3, <2>4, PushTraded
  <2> QED BY <2>3, <2>5
<1>4. CASE Loads
  <2>1. Rests(scenario, scenario')
    BY <1>4, LoadEffect DEF AgentInv
  <2>2. scenario'.events = scenario.events \/ Len(scenario'.events) = 0
    BY <2>1 DEF Rests
  <2> QED BY <1>1, <2>2 DEF AllTraded
<1>5. ASSUME NEW i \in 1 .. Len(calls), ReadEvent(i) \/ EndOfStream(i) \/ Disconnect(i)
      PROVE  AllTraded(scenario'.events)
  BY <1>1, <1>5, ReadTrades
<1>6. ~(SelectMarket \/ Adjudicate \/ CatchUp)
  BY <1>1 DEF SelectMarket, Adjudicate, CatchUp
<1>7. CASE UNCHANGED view
  BY <1>1, <1>7 DEF scenario
<1>8. UNCHANGED vars => UNCHANGED view
  BY DEF vars
<1> QED BY <1>3, <1>4, <1>5, <1>6, <1>7, <1>8, StepKinds

(* What a trade leaves of the value: all of it, but for the rest of a      *)
(* purchase that the price does not divide.                                *)
LEMMA Quotient ==
  ASSUME NEW spend \in Int, NEW price \in {2, 3, 4, 6}
  PROVE  /\ spend \div price \in Int
         /\ spend - (spend \div price) * price \in 0 .. price - 1
         /\ spend % price = 0 => spend - (spend \div price) * price = 0
<1>1. CASE price = 2
  BY <1>1
<1>2. CASE price = 3
  BY <1>2
<1>3. CASE price = 4
  BY <1>3
<1>4. CASE price = 6
  BY <1>4
<1> QED BY <1>1, <1>2, <1>3, <1>4

Settlement(p, d, price, after, spend, lost) ==
  /\ p \in [usdc : Int, weth : Int] /\ d \in Given("fund") /\ price \in {2, 3, 4, 6}
  /\ after = applyDecisionToPortfolio(p, d, price)
  /\ spend = IF d.sizeUsd < p.usdc THEN d.sizeUsd ELSE p.usdc
  /\ lost = navUsd(p, price) - navUsd(after, price)

LEMMA WorthKept ==
  ASSUME NEW p, NEW d, NEW price, NEW after, NEW spend, NEW lost,
         Settlement(p, d, price, after, spend, lost)
  PROVE  /\ lost \in 0 .. price - 1
         /\ d.decision # "BUY_WETH" \/ spend % price = 0 => lost = 0
<1> /\ p \in [usdc : Int, weth : Int] /\ d \in Given("fund") /\ price \in {2, 3, 4, 6}
    /\ after = applyDecisionToPortfolio(p, d, price)
    /\ spend = IF d.sizeUsd < p.usdc THEN d.sizeUsd ELSE p.usdc
    /\ lost = navUsd(p, price) - navUsd(after, price)
  BY DEF Settlement
<1> DEFINE wanted == d.sizeUsd \div price
           sell == IF wanted < p.weth THEN wanted ELSE p.weth
<1>1. d.sizeUsd \in Nat /\ p.usdc \in Int /\ p.weth \in Int /\ spend \in Int
  BY DEF Given
<1>2. spend \div price \in Int /\ wanted \in Int
  BY <1>1, Quotient
<1>3. sell \in Int
  BY <1>1, <1>2
<1>4. \/ after = p
      \/ /\ d.decision = "BUY_WETH"
         /\ after = [usdc |-> p.usdc - spend, weth |-> p.weth + spend \div price]
      \/ after = [usdc |-> p.usdc + sell * price, weth |-> p.weth - sell]
  BY DEF applyDecisionToPortfolio
<1> HIDE DEF wanted, sell
<1>5. price \in Int /\ 0 \in 0 .. price - 1
  OBVIOUS
<1>6. PICK was \in Int : was = p.usdc + p.weth * price
  BY <1>1, <1>5
<1>7. navUsd(p, price) = was
  BY <1>6 DEF navUsd
<1>8. ASSUME NEW rest \in Int, navUsd(after, price) = was - rest
      PROVE  lost = rest
  BY <1>6, <1>7, <1>8
<1>9. CASE after = p
  <2>1. navUsd(after, price) = was - 0
    BY <1>6, <1>7, <1>9
  <2> QED BY <1>5, <1>8, <2>1
<1>10. CASE d.decision = "BUY_WETH" /\ after = [usdc |-> p.usdc - spend, weth |-> p.weth + spend \div price]
  <2>1. PICK bought \in Int : bought = spend \div price
    BY <1>2
  <2>2. after = [usdc |-> p.usdc - spend, weth |-> p.weth + bought]
    BY <1>10, <2>1
  <2>3. navUsd(after, price) = p.usdc - spend + (p.weth + bought) * price
    BY <2>2 DEF navUsd
  <2>4. (p.weth + bought) * price = p.weth * price + bought * price
    BY <1>1, <1>5, <2>1
  <2>5. p.weth * price \in Int /\ bought * price \in Int
    BY <1>1, <1>5, <2>1
  <2>6. navUsd(after, price) = was - (spend - bought * price)
    BY <1>1, <1>6, <2>3, <2>4, <2>5
  <2>7. spend - bought * price \in Int
    BY <1>1, <2>5
  <2>8. lost = spend - bought * price
    BY <1>8, <2>6, <2>7
  <2>9. /\ spend - bought * price \in 0 .. price - 1
        /\ spend % price = 0 => spend - bought * price = 0
    BY <1>1, <2>1, Quotient
  <2> QED BY <1>10, <2>8, <2>9
<1>11. CASE after = [usdc |-> p.usdc + sell * price, weth |-> p.weth - sell]
  <2>1. navUsd(after, price) = p.usdc + sell * price + (p.weth - sell) * price
    BY <1>11 DEF navUsd
  <2>2. (p.weth - sell) * price = p.weth * price - sell * price
    BY <1>1, <1>3, <1>5
  <2>3. p.weth * price \in Int /\ sell * price \in Int
    BY <1>1, <1>3, <1>5
  <2>4. navUsd(after, price) = was - 0
    BY <1>1, <1>6, <2>1, <2>2, <2>3
  <2> QED BY <1>5, <1>8, <2>4
<1> QED BY <1>4, <1>9, <1>10, <1>11

(* The paper fund neither mints nor burns value: whatever the market, the  *)
(* portfolio and the size the agent names, a row's portfolio is worth what *)
(* it was, but for the rest of a purchase. It is the decision's own market *)
(* and portfolio that count: neither can be swapped while it is awaited.   *)
THEOREM TradesKeepTheirWorth == Spec => []TradeKeepsNav
<1>1. AgentInv /\ TradeInv => TradeKeepsNav
  <2> SUFFICES ASSUME AgentInv, TradeInv, page = "fund", NEW e \in Rows, ~Waiting(e),
                      NEW price, price = FUND_PRESETS[e.snapshot.market],
                      NEW lost, lost = FundRow(e).navBefore - FundRow(e).navAfter
               PROVE  /\ lost \in 0 .. price - 1
                      /\ e.verdict.decision # "BUY_WETH" \/ Spendable(e) % price = 0 => lost = 0
    BY DEF TradeKeepsNav
  <2>1. PICK k \in 1 .. Len(scenario.events) : e = scenario.events[k]
    BY RowKnown
  <2>2. Traded(e)
    BY <2>1 DEF TradeInv, AllTraded
  <2>3. e.snapshot \in FundSubject
    BY <2>2 DEF Traded, Waiting
  <2>4. PICK d \in Given("fund") :
          e.verdict = WithPortfolio(d, applyDecisionToPortfolio(e.snapshot.portfolio, d, price))
    BY <2>2 DEF Traded, Waiting
  <2>5. PICK p, after, spend :
          /\ p = e.snapshot.portfolio /\ after = applyDecisionToPortfolio(p, d, price)
          /\ spend = IF d.sizeUsd < p.usdc THEN d.sizeUsd ELSE p.usdc
    OBVIOUS
  <2>6. e.verdict.decision = d.decision /\ e.verdict.after = after /\ Spendable(e) = spend
    BY <2>4, <2>5 DEF WithPortfolio, Spendable
  <2>7. p \in [usdc : Int, weth : Int] /\ price \in {2, 3, 4, 6}
    <3>1. e.snapshot.market \in {"calm", "bullTrend", "drawdown", "blackSwan"}
      BY <2>3 DEF FundSubject, FUND_PRESETS
    <3>2. price \in {2, 3, 4, 6}
      BY <3>1 DEF FUND_PRESETS
    <3> QED BY <2>3, <2>5, <3>2 DEF FundSubject
  <2>8. lost = navUsd(p, price) - navUsd(after, price)
    BY <2>5, <2>6 DEF FundRow
  <2>9. lost \in 0 .. price - 1 /\ (d.decision # "BUY_WETH" \/ spend % price = 0 => lost = 0)
    <3>1. Settlement(p, d, price, after, spend, lost)
      BY <2>5, <2>7, <2>8 DEF Settlement
    <3> QED BY <3>1, WorthKept
  <2> QED BY <2>6, <2>9
<1>2. AgentInv /\ [Next]_vars => AgentInv'
  BY AgentNext
<1>3. AgentInv /\ TradeInv /\ [Next]_vars => TradeInv'
  BY TradeNext
<1> QED BY <1>1, <1>2, <1>3, AgentInit, TradeInit, PTL DEF Spec
=============================================================================
