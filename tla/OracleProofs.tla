---------------------------- MODULE OracleProofs ----------------------------
(***************************************************************************)
(* The safety of the price oracle for every set of venues and triggers,    *)
(* every price, depth and fake, and any number of rounds and overrides;    *)
(* then what the readers of its feed may rely on, for every number of      *)
(* rounds, readers, blocks and reported answers.                           *)
(***************************************************************************)
EXTENDS PriceOracle, FeedConsumers, ReconciliationProofs, Sums, SequenceTheorems

----------------------------------------------------------------------------
(* Type correctness.                                                       *)

(* A run without a verdict has an empty basis.                             *)
LEMMA EmptyBasis == NoBasis \in Basis
<1>1. NoBasis \in [{} -> [price : Prices, faked : BOOLEAN]]
  BY DEF NoBasis
<1>2. {} \in SUBSET Venues
  OBVIOUS
<1> QED BY <1>1, <1>2, Zenon DEF Basis

(* Ending a run leaves a message list, empty or not.                       *)
LEMMA EndingIsTyped ==
  ASSUME TypeOK, NEW c \in Callers, EndRun(c)
  PROVE  /\ unread'   \in [Callers -> SUBSET Venues]
         /\ calls'    \in [Callers -> SUBSET Venues]
         /\ readings' \in [Callers -> [Venues -> Reading]]
         /\ result'   \in [Callers -> Verdict]
         /\ faked'    \in [Callers -> SUBSET Venues]
         /\ basis'    \in [Callers -> Basis]
         /\ served'   \in SUBSET Venues
<1>1. NoReadings \in [Venues -> Reading]
  BY DEF NoReadings, Reading
<1>2. NoResult \in Verdict
  BY DEF NoResult, Refused, Verdict, Reasons
<1>3. NoBasis \in Basis
  BY EmptyBasis
<1>4. readings' \in [Callers -> [Venues -> Reading]]
  <2>1. readings' = [readings EXCEPT ![c] = NoReadings] \/ readings' = readings
    BY DEF EndRun
  <2> QED BY <1>1, <2>1 DEF TypeOK
<1>5. faked' \in [Callers -> SUBSET Venues]
  <2>1. faked' = [faked EXCEPT ![c] = {}] \/ faked' = faked
    BY DEF EndRun
  <2> QED BY <2>1 DEF TypeOK
<1>6. served' \in SUBSET Venues
  BY DEF EndRun, TypeOK
<1> QED BY <1>2, <1>3, <1>4, <1>5, <1>6 DEF EndRun, TypeOK

(* Closing the accounts of overrides that are gone leaves well-formed ones.*)
LEMMA ClosingIsTyped ==
  ASSUME TypeOK, CloseAccounts
  PROVE  /\ grant' \in [Venues -> Nat] /\ consulted' \in [Venues -> Nat]
         /\ served' \in SUBSET Venues
BY DEF CloseAccounts, TypeOK

(* An account that stays open is unchanged, any other is empty.            *)
LEMMA ClosingSettles ==
  ASSUME TypeOK, CloseAccounts, NEW v \in Venues
  PROVE  /\ Installed(v)' => /\ grant'[v] = grant[v] /\ consulted'[v] = consulted[v]
                             /\ v \in served' <=> v \in served
         /\ ~Installed(v)' => grant'[v] = 0 /\ consulted'[v] = 0
BY DEF CloseAccounts

(* Appending a round leaves a well-formed history.                         *)
LEMMA AppendingIsTyped ==
  ASSUME FeedTypeOK, NEW round \in Round, AppendRound(round)
  PROVE  FeedTypeOK'
BY FeedAssumption DEF FeedTypeOK, AppendRound, RoundIds

(* Both report nodes append a well-formed round.                           *)
LEMMA ReportingIsTyped ==
  ASSUME TypeOK, NEW c \in Callers, Report(c)
  PROVE  FeedTypeOK'
<1>1. result[c] \in Verdict
  BY DEF TypeOK
<1>2. now \in 0 .. MaxTime /\ FeedTypeOK
  BY DEF TypeOK, FeedTypeOK
<1>3. CASE result[c].decision = "priced"
  <2>1. Scaled(result[c].price) \in Int
    BY <1>1, <1>3, OracleAssumption DEF Scaled, Verdict
  <2>2. ReportPrice(Agent, Scaled(result[c].price))
    BY <1>3 DEF Report
  <2> QED BY <1>2, <2>1, <2>2, AppendingIsTyped DEF ReportPrice, Round
<1>4. CASE result[c].decision # "priced"
  <2>1. result[c].reason \in Hashes
    BY <1>1, <1>4, OracleAssumption DEF Verdict
  <2>2. ReportRefusal(Agent, result[c].reason)
    BY <1>4 DEF Report
  <2> QED BY <1>2, <2>1, <2>2, AppendingIsTyped DEF ReportRefusal, Round
<1> QED BY <1>3, <1>4

(* The basis of a verdict records prices that tools really returned.       *)
LEMMA BasisIsTyped ==
  ASSUME TypeOK, NEW c \in Callers, NEW verdict, NEW strict \in BOOLEAN
  PROVE  Behind(c, verdict, strict) \in Basis
<1> DEFINE V == {u \in Valid(readings[c], strict, now) : verdict.decision = "priced"}
           behind == [v \in V |-> [price |-> readings[c][v].price, faked |-> v \in faked[c]]]
<1>1. readings[c] \in [Venues -> Reading]
  BY DEF TypeOK
<1>2. V \in SUBSET Venues /\ \A v \in V : readings[c][v].price \in Prices
  BY <1>1, ValidReadings DEF OkReadings
<1>3. behind \in [V -> [price : Prices, faked : BOOLEAN]]
  BY <1>2
<1>4. behind \in Basis
  BY <1>2, <1>3 DEF Basis
<1> QED BY <1>4 DEF Behind

(* Answers of tools and overrides are well-formed readings.                *)
LEMMA AnswersAreReadings ==
  ASSUME TypeOK, NEW v \in Venues
  PROVE  /\ Installed(v) => Resolve(v) \in Reading
         /\ VenueTool(v) \subseteq Reading
<1>1. 0 .. now \subseteq Times
  BY OracleAssumption, FeedAssumption DEF TypeOK, FeedTypeOK
<1>2. VenueTool(v) \subseteq Reading
  BY <1>1, OracleAssumption DEF VenueTool, Reading, OkReadings
<1>3. ASSUME Installed(v) PROVE Resolve(v) \in Reading
  BY <1>3 DEF TypeOK, OverrideTypeOK, Installed, Entry, Resolve, Reading
<1> QED BY <1>2, <1>3

(* Counting an override down leaves a live entry or none.                  *)
LEMMA TickingIsTyped ==
  ASSUME OverrideTypeOK, Tick
  PROVE  OverrideTypeOK'
<1> DEFINE next(v) == IF overrides[v].runs_remaining <= 1 THEN NoEntry
                      ELSE [overrides[v] EXCEPT !.runs_remaining = @ - 1]
<1>1. ASSUME NEW v \in Venues PROVE next(v) \in Entry \cup {NoEntry}
  <2>1. CASE overrides[v] = NoEntry
    BY <2>1 DEF NoEntry
  <2>2. CASE overrides[v] \in Entry
    BY <2>2, OverrideAssumption DEF Entry
  <2> QED BY <2>1, <2>2 DEF OverrideTypeOK
<1>2. overrides' = [v \in Venues |-> next(v)]
  BY DEF Tick
<1> HIDE DEF next
<1> QED BY <1>1, <1>2 DEF OverrideTypeOK

(* Every value a run, the feed, the pallet or the bookkeeping can take has *)
(* its declared shape.                                                     *)
THEOREM TypeCorrectness == Spec => []TypeOK
<1>1. Init => TypeOK
  <2> SUFFICES ASSUME Init PROVE TypeOK
    OBVIOUS
  <2>1. FeedTypeOK
    BY FeedAssumption DEF Init, FeedInit, FeedTypeOK, RoundIds, Round, NoRound
  <2>2. OverrideTypeOK
    BY DEF Init, OverrideInit, OverrideTypeOK
  <2>3. NoReadings \in [Venues -> Reading] /\ NoResult \in Verdict /\ NoBasis \in Basis
    BY EmptyBasis DEF NoReadings, Reading, NoResult, Refused, Verdict, Reasons
  <2> QED BY <2>1, <2>2, <2>3, OracleAssumption DEF Init, TypeOK, Nodes
<1>2. TypeOK /\ [Next]_vars => TypeOK'
  <2> SUFFICES ASSUME TypeOK, [Next]_vars PROVE TypeOK'
    OBVIOUS
  <2>1. CASE StartScheduled
    <3>1. OverrideTypeOK'
      BY <2>1, TickingIsTyped DEF StartScheduled, TypeOK
    <3>2. CloseAccounts
      BY <2>1 DEF StartScheduled
    <3> QED BY <2>1, <3>1, <3>2, ClosingIsTyped DEF StartScheduled, TypeOK, Goto, Nodes, feedVars, FeedTypeOK
  <2>2. CASE StartOwner
    BY <2>2 DEF StartOwner, TypeOK, Goto, Nodes, feedVars, FeedTypeOK, auxVars, OverrideTypeOK
  <2>3. ASSUME NEW c \in Callers, RunStep(c) PROVE TypeOK'
    <3>1. CASE ReadVenues(c)
      <4>1. PICK T \in SUBSET Venues :
              /\ Goto(c, "read_venues", IF T = {} THEN "reconcile" ELSE "handle_tool_calls")
              /\ calls'  = [calls EXCEPT ![c] = T]
              /\ unread' = [unread EXCEPT ![c] = @ \ T]
              /\ UNCHANGED <<feedVars, overrides, readings, result, faked, basis, auxVars>>
        BY <3>1 DEF ReadVenues
      <4>2. pc' \in [Callers -> Nodes]
        BY <4>1 DEF TypeOK, Goto, Nodes
      <4>3. calls' \in [Callers -> SUBSET Venues] /\ unread' \in [Callers -> SUBSET Venues]
        BY <4>1 DEF TypeOK
      <4> QED BY <4>1, <4>2, <4>3 DEF TypeOK, feedVars, FeedTypeOK, auxVars, OverrideTypeOK
    <3>2. ASSUME NEW v \in Venues, HandleToolCalls(c, v) PROVE TypeOK'
      <4>1. readings' \in [Callers -> [Venues -> Reading]]
        <5>1. PICK r \in Reading : readings' = [readings EXCEPT ![c][v] = r]
          BY <3>2, AnswersAreReadings DEF HandleToolCalls
        <5> QED BY <5>1 DEF TypeOK
      <4>2. pc' \in [Callers -> Nodes]
        BY <3>2 DEF HandleToolCalls, TypeOK, Goto, Nodes
      <4>3. /\ calls' \in [Callers -> SUBSET Venues]
            /\ faked' \in [Callers -> SUBSET Venues]
        <5>1. \/ faked' = [faked EXCEPT ![c] = @ \cup {v}]
              \/ faked' = [faked EXCEPT ![c] = @ \ {v}]
          BY <3>2 DEF HandleToolCalls
        <5>2. calls' = [calls EXCEPT ![c] = @ \ {v}]
          BY <3>2 DEF HandleToolCalls
        <5> QED BY <5>1, <5>2 DEF TypeOK
      <4>4. consulted' \in [Venues -> Nat] /\ served' \in SUBSET Venues
        <5>1. \/ /\ consulted' = [consulted EXCEPT ![v] = @ + 1]
                 /\ served' = served \cup {v}
              \/ UNCHANGED <<consulted, served>>
          BY <3>2 DEF HandleToolCalls
        <5>2. consulted \in [Venues -> Nat] /\ served \in SUBSET Venues
          BY DEF TypeOK
        <5>3. [consulted EXCEPT ![v] = @ + 1] \in [Venues -> Nat]
          BY <5>2
        <5> QED BY <5>1, <5>2, <5>3, Zenon
      <4>5. UNCHANGED <<feedVars, overrides, unread, result, basis, evidence, grant, installs>>
        BY <3>2 DEF HandleToolCalls
      <4>6. FeedTypeOK' /\ OverrideTypeOK'
        BY <4>5 DEF TypeOK, feedVars, FeedTypeOK, OverrideTypeOK
      <4> QED BY <4>1, <4>2, <4>3, <4>4, <4>5, <4>6 DEF TypeOK
    <3>3. CASE Reconcile(c)
      <4>0. PICK strict \in BOOLEAN : \E verdict \in Verdicts(readings[c], strict, now) :
              /\ result' = [result EXCEPT ![c] = verdict]
              /\ basis' = [basis EXCEPT ![c] = Behind(c, verdict, strict)]
        BY <3>3 DEF Reconcile
      <4>1. PICK verdict \in Verdicts(readings[c], strict, now) :
              /\ result' = [result EXCEPT ![c] = verdict]
              /\ basis' = [basis EXCEPT ![c] = Behind(c, verdict, strict)]
        BY <4>0
      <4>2. readings[c] \in [Venues -> Reading]
        BY DEF TypeOK
      <4>3. result' \in [Callers -> Verdict]
        BY <4>1, <4>2, VerdictIsSupported DEF TypeOK
      <4>4. basis' \in [Callers -> Basis]
        <5>1. Behind(c, verdict, strict) \in Basis
          BY BasisIsTyped
        <5> QED BY <4>1, <5>1 DEF TypeOK
      <4>5. pc' \in [Callers -> Nodes]
        BY <3>3 DEF Reconcile, TypeOK, Goto, Nodes
      <4>6. unread' \in [Callers -> SUBSET Venues]
        BY <3>3 DEF Reconcile, TypeOK
      <4> QED BY <3>3, <4>3, <4>4, <4>5, <4>6
              DEF Reconcile, TypeOK, feedVars, FeedTypeOK, auxVars, OverrideTypeOK
    <3>4. CASE Report(c)
      <4>1. FeedTypeOK'
        BY <3>4, ReportingIsTyped
      <4>2. EndRun(c)
        BY <3>4 DEF Report
      <4>3. pc' \in [Callers -> Nodes]
        BY <3>4 DEF Report, TypeOK, Goto, Nodes
      <4>4. evidence' \in Basis
        BY <3>4 DEF Report, TypeOK
      <4> QED BY <3>4, <4>1, <4>2, <4>3, <4>4, EndingIsTyped DEF Report, TypeOK, OverrideTypeOK
    <3>5. CASE RunFails(c)
      <4>1. EndRun(c)
        BY <3>5 DEF RunFails
      <4>2. pc' \in [Callers -> Nodes]
        BY <3>5 DEF RunFails, TypeOK, Goto, Nodes
      <4> QED BY <3>5, <4>1, <4>2, EndingIsTyped
              DEF RunFails, TypeOK, feedVars, FeedTypeOK, auxVars, OverrideTypeOK
    <3> QED BY <2>3, <3>1, <3>2, <3>3, <3>4, <3>5 DEF RunStep
  <2>4. ASSUME NEW v \in Venues, Tamper(v) PROVE TypeOK'
    <3>1. PICK price \in FakePrices, runs \in 0 .. MaxRuns :
            /\ OverrideTool(v, FakeReading(price, now), runs)
            /\ grant' = [grant EXCEPT ![v] = runs]
      BY <2>4 DEF Tamper
    <3>2. FakeReading(price, now) \in OkReadings
      BY OracleAssumption, OverrideAssumption DEF FakeReading, OkReadings, TypeOK, FeedTypeOK
    <3>3. OverrideTypeOK'
      BY <3>1, <3>2 DEF OverrideTool, OverrideTypeOK, TypeOK, Entry
    <3>4. grant' \in [Venues -> Nat] /\ consulted' \in [Venues -> Nat]
      BY <2>4, <3>1, OverrideAssumption DEF Tamper, TypeOK
    <3>5. installs' \in 0 .. MaxInstalls
      BY <2>4, OracleAssumption DEF Tamper, TypeOK
    <3> QED BY <2>4, <3>3, <3>4, <3>5 DEF Tamper, TypeOK, feedVars, FeedTypeOK, agentVars
  <2>5. ASSUME NEW v \in Venues, Clear(v) PROVE TypeOK'
    <3>1. CloseAccounts
      BY <2>5 DEF Clear
    <3> QED BY <2>5, <3>1, ClosingIsTyped
            DEF Clear, ClearOverride, TypeOK, OverrideTypeOK, feedVars, FeedTypeOK, agentVars
  <2>6. CASE Reset
    <3>1. CloseAccounts
      BY <2>6 DEF Reset
    <3> QED BY <2>6, <3>1, ClosingIsTyped
            DEF Reset, ClearOverrides, TypeOK, OverrideTypeOK, feedVars, FeedTypeOK, agentVars
  <2>7. CASE Time
    <3>1. FeedTypeOK'
      BY <2>7, FeedAssumption DEF Time, AdvanceTime, TypeOK, FeedTypeOK
    <3> QED BY <2>7, <3>1 DEF Time, TypeOK, OverrideTypeOK, agentVars, auxVars
  <2>8. CASE UNCHANGED vars
    BY <2>8 DEF vars, feedVars, agentVars, auxVars, TypeOK, FeedTypeOK, OverrideTypeOK
  <2> QED BY <2>1, <2>2, <2>3, <2>4, <2>5, <2>6, <2>7, <2>8, OracleAssumption DEF Next, Operator
<1> QED BY <1>1, <1>2, PTL DEF Spec

----------------------------------------------------------------------------
(* An override never outlives its grant.                                   *)

(* The scheduled run in progress may still consult the override once.      *)
Pending(v) ==
  IF "scheduled" \in Callers /\ pc["scheduled"] # "idle" /\ v \notin served THEN 1 ELSE 0

(* What has been consulted, what later runs may consult after the ticks    *)
(* that precede them, and what is pending now stay within the grant.       *)
GrantCovers ==
  \A v \in Venues :
    IF Installed(v)
    THEN consulted[v] + (overrides[v].runs_remaining - 1) + Pending(v) <= grant[v]
    ELSE consulted[v] <= grant[v]

(* Installed for N runs, an override is served to at most N scheduled runs *)
(* even when it is installed, replaced or cleared in the middle of a run.  *)
THEOREM GrantsAreRespected == Spec => []GrantIsNeverExceeded
<1>1. Init => GrantCovers
  BY DEF Init, OverrideInit, GrantCovers, Installed
<1>2. TypeOK /\ GrantCovers /\ [Next]_vars => GrantCovers'
  <2> SUFFICES ASSUME TypeOK, GrantCovers, [Next]_vars, NEW v \in Venues
               PROVE  (IF Installed(v)
                       THEN consulted[v] + (overrides[v].runs_remaining - 1) + Pending(v) <= grant[v]
                       ELSE consulted[v] <= grant[v])'
    BY DEF GrantCovers
  <2>0. /\ consulted[v] \in Nat /\ grant[v] \in Nat
        /\ Installed(v) => overrides[v].runs_remaining \in Nat \ {0}
        /\ Pending(v) \in {0, 1}
    BY OverrideAssumption DEF TypeOK, OverrideTypeOK, Entry, Installed, Pending
  <2>1. CASE StartScheduled
    <3>1. "scheduled" \in Callers /\ pc["scheduled"] = "idle" /\ CloseAccounts
      BY <2>1 DEF StartScheduled, Goto
    <3>2. Pending(v) = 0 /\ Pending(v)' \in {0, 1}
      BY <3>1 DEF Pending
    <3>3. overrides'[v] = IF overrides[v].runs_remaining <= 1 THEN NoEntry
                          ELSE [overrides[v] EXCEPT !.runs_remaining = @ - 1]
      BY <2>1 DEF StartScheduled, Tick
    <3>4. CASE Installed(v) /\ overrides[v].runs_remaining > 1
      <4>1. overrides'[v].runs_remaining = overrides[v].runs_remaining - 1
        BY <2>0, <3>3, <3>4 DEF TypeOK, OverrideTypeOK, Entry, Installed
      <4>2. Installed(v)' => grant'[v] = grant[v] /\ consulted'[v] = consulted[v]
        BY <3>1, ClosingSettles
      <4>3. ~Installed(v)' => grant'[v] = 0 /\ consulted'[v] = 0
        BY <3>1, ClosingSettles
      <4> QED BY <2>0, <3>2, <3>4, <4>1, <4>2, <4>3 DEF GrantCovers
    <3>5. CASE ~(Installed(v) /\ overrides[v].runs_remaining > 1)
      <4>1. ~Installed(v)'
        BY <2>0, <3>3, <3>5 DEF Installed, NoEntry
      <4>2. grant'[v] = 0 /\ consulted'[v] = 0
        BY <3>1, <4>1, ClosingSettles
      <4> QED BY <4>1, <4>2
    <3> QED BY <3>4, <3>5
  <2>2. ASSUME UNCHANGED <<overrides, grant, consulted>>, Pending(v)' \in 0 .. Pending(v)
        PROVE  (IF Installed(v)
                THEN consulted[v] + (overrides[v].runs_remaining - 1) + Pending(v) <= grant[v]
                ELSE consulted[v] <= grant[v])'
    BY <2>0, <2>2 DEF GrantCovers, Installed
  <2>3. CASE StartOwner \/ Time
    <3>1. UNCHANGED <<overrides, grant, consulted, served>>
          /\ (pc'["scheduled"] = pc["scheduled"] \/ "scheduled" \notin Callers)
      BY <2>3 DEF StartOwner, Goto, Time, auxVars, agentVars, TypeOK
    <3> QED BY <2>0, <2>2, <3>1 DEF Pending
  <2>4. ASSUME NEW c \in Callers, ReadVenues(c) \/ Reconcile(c) \/ Report(c) \/ RunFails(c)
        PROVE  Pending(v)' \in 0 .. Pending(v) /\ UNCHANGED <<overrides, grant, consulted>>
    <3>1. UNCHANGED <<overrides, grant, consulted>> /\ pc[c] # "idle"
      BY <2>4 DEF ReadVenues, Reconcile, Report, RunFails, Goto, auxVars
    <3>2. \A d \in Callers \ {c} : pc'[d] = pc[d]
      BY <2>4 DEF ReadVenues, Reconcile, Report, RunFails, Goto, TypeOK
    <3>3. served' = served \/ (c = "scheduled" /\ pc'[c] = "idle")
      BY <2>4 DEF ReadVenues, Reconcile, Report, RunFails, EndRun, Goto, TypeOK, auxVars
    <3>4. c = "scheduled" /\ pc'[c] = "idle" => Pending(v)' = 0
      BY DEF Pending
    <3>5. served' = served => Pending(v)' \in 0 .. Pending(v)
      BY <3>1, <3>2 DEF Pending
    <3> QED BY <2>0, <3>1, <3>3, <3>4, <3>5
  <2>5. ASSUME NEW c \in Callers, NEW u \in Venues, HandleToolCalls(c, u)
        PROVE  (IF Installed(v)
                THEN consulted[v] + (overrides[v].runs_remaining - 1) + Pending(v) <= grant[v]
                ELSE consulted[v] <= grant[v])'
    <3>1. UNCHANGED <<overrides, grant>> /\ pc[c] # "idle" /\ pc'[c] # "idle"
          /\ \A d \in Callers \ {c} : pc'[d] = pc[d]
      BY <2>5 DEF HandleToolCalls, Goto, TypeOK
    <3>2. CASE Installed(u) /\ c = "scheduled" /\ u \notin served
      <4>1. consulted' = [consulted EXCEPT ![u] = @ + 1] /\ served' = served \cup {u}
        BY <2>5, <3>2 DEF HandleToolCalls
      <4>2. CASE v = u
        <5>1. Pending(v) = 1 /\ Pending(v)' = 0 /\ consulted'[v] = consulted[v] + 1
          BY <3>1, <3>2, <4>1, <4>2 DEF Pending, TypeOK
        <5> QED BY <2>0, <3>1, <3>2, <4>2, <5>1 DEF GrantCovers, Installed
      <4>3. CASE v # u
        <5>1. Pending(v)' = Pending(v) /\ consulted'[v] = consulted[v]
          BY <3>1, <3>2, <4>1, <4>3 DEF Pending, TypeOK
        <5> QED BY <2>0, <3>1, <5>1 DEF GrantCovers, Installed
      <4> QED BY <4>2, <4>3
    <3>3. CASE ~(Installed(u) /\ c = "scheduled" /\ u \notin served)
      <4>1. UNCHANGED <<consulted, served>>
        BY <2>5, <3>3 DEF HandleToolCalls
      <4>2. Pending(v)' = Pending(v)
        BY <3>1, <4>1 DEF Pending
      <4> QED BY <2>0, <2>2, <3>1, <4>1, <4>2
    <3> QED BY <3>2, <3>3
  <2>6. ASSUME NEW u \in Venues, Tamper(u)
        PROVE  (IF Installed(v)
                THEN consulted[v] + (overrides[v].runs_remaining - 1) + Pending(v) <= grant[v]
                ELSE consulted[v] <= grant[v])'
    <3>1. PICK price \in FakePrices, runs \in 0 .. MaxRuns :
            /\ OverrideTool(u, FakeReading(price, now), runs)
            /\ grant' = [grant EXCEPT ![u] = runs]
      BY <2>6 DEF Tamper
    <3>2. /\ consulted' = [consulted EXCEPT ![u] = 0] /\ served' = served \ {u}
          /\ UNCHANGED pc
      BY <2>6 DEF Tamper, agentVars
    <3>3. CASE v = u
      <4>1. overrides'[v].runs_remaining = runs /\ consulted'[v] = 0 /\ grant'[v] = runs
        BY <3>1, <3>2, <3>3 DEF OverrideTool, TypeOK, OverrideTypeOK
      <4>2. Pending(v)' \in {0, 1} /\ runs \in Nat
        BY <3>1, OverrideAssumption DEF Pending
      <4> QED BY <4>1, <4>2
    <3>4. CASE v # u
      <4>1. overrides'[v] = overrides[v] /\ consulted'[v] = consulted[v] /\ grant'[v] = grant[v]
        BY <3>1, <3>2, <3>4 DEF OverrideTool, TypeOK, OverrideTypeOK
      <4>2. Pending(v)' = Pending(v)
        BY <3>2, <3>4 DEF Pending
      <4> QED BY <2>0, <4>1, <4>2 DEF GrantCovers, Installed
    <3> QED BY <3>3, <3>4
  <2>7. CASE Reset \/ \E u \in Venues : Clear(u)
    <3>1. CloseAccounts /\ UNCHANGED pc
      BY <2>7 DEF Reset, Clear, agentVars
    <3>2. overrides'[v] = overrides[v] \/ overrides'[v] = NoEntry
      BY <2>7 DEF Reset, ClearOverrides, Clear, ClearOverride, TypeOK, OverrideTypeOK
    <3>3. CASE Installed(v)'
      <4>1. grant'[v] = grant[v] /\ consulted'[v] = consulted[v] /\ (v \in served' <=> v \in served)
        BY <3>1, <3>3, ClosingSettles
      <4>2. overrides'[v] = overrides[v]
        BY <3>2, <3>3 DEF Installed
      <4>3. Pending(v)' = Pending(v)
        BY <3>1, <4>1 DEF Pending
      <4> QED BY <2>0, <4>1, <4>2, <4>3 DEF GrantCovers, Installed
    <3>4. CASE ~Installed(v)'
      <4>1. grant'[v] = 0 /\ consulted'[v] = 0
        BY <3>1, <3>4, ClosingSettles
      <4> QED BY <3>4, <4>1
    <3> QED BY <3>3, <3>4
  <2>8. CASE UNCHANGED vars
    <3>1. UNCHANGED <<overrides, grant, consulted, served, pc>>
      BY <2>8 DEF vars, agentVars, auxVars
    <3> QED BY <2>0, <2>2, <3>1 DEF Pending
  <2> QED BY <2>1, <2>2, <2>3, <2>4, <2>5, <2>6, <2>7, <2>8, OracleAssumption
         DEF Next, RunStep, Operator
<1>3. TypeOK /\ GrantCovers => GrantIsNeverExceeded
  <2> SUFFICES ASSUME TypeOK, GrantCovers, NEW v \in Venues PROVE consulted[v] <= grant[v]
    BY DEF GrantIsNeverExceeded
  <2>1. /\ consulted[v] \in Nat /\ grant[v] \in Nat
        /\ Installed(v) => overrides[v].runs_remaining \in Nat \ {0}
        /\ Pending(v) \in {0, 1}
    BY OverrideAssumption DEF TypeOK, OverrideTypeOK, Entry, Installed, Pending
  <2> QED BY <2>1 DEF GrantCovers
<1> QED BY <1>1, <1>2, <1>3, TypeCorrectness, PTL DEF Spec

----------------------------------------------------------------------------
(* What stands behind the latest round.                                    *)

(* Every priced result on its way to the feed, and the price behind the    *)
(* latest priced round before it was floored, is supported by its basis.   *)
EvidenceInv ==
  /\ \A c \in Callers :
       pc[c] = "report" /\ result[c].decision = "priced" =>
         Supported(DOMAIN basis[c], basis[c], result[c].price)
  /\ LatestDecision = "PRICED" =>
       \E price \in Nat : /\ rounds[latestRoundId].answer = Scaled(price)
                         /\ Supported(DOMAIN evidence, evidence, price)

(* Appending makes the new round the latest one.                           *)
LEMMA AppendedIsLatest ==
  ASSUME FeedTypeOK, NEW round, AppendRound(round)
  PROVE  rounds'[latestRoundId'] = round
BY FeedAssumption DEF FeedTypeOK, AppendRound, RoundIds

(* Reporting a result moves its basis next to its round.                   *)
LEMMA ReportedIsSupported ==
  ASSUME TypeOK, EvidenceInv, NEW c \in Callers, Report(c), LatestDecision' = "PRICED"
  PROVE  \E price \in Nat : /\ rounds'[latestRoundId'].answer = Scaled(price)
                           /\ Supported(DOMAIN evidence', evidence', price)
<1>1. FeedTypeOK /\ result[c] \in Verdict
  BY DEF TypeOK
<1>2. CASE result[c].decision = "priced"
  <2>1. ReportPrice(Agent, Scaled(result[c].price)) /\ evidence' = basis[c] /\ pc[c] = "report"
    BY <1>2 DEF Report, Goto
  <2>2. rounds'[latestRoundId'].answer = Scaled(result[c].price)
    BY <1>1, <2>1, AppendedIsLatest DEF ReportPrice
  <2>3. result[c].price \in Nat
    BY <1>1, <1>2 DEF Verdict
  <2> QED BY <1>2, <2>1, <2>2, <2>3 DEF EvidenceInv
<1>3. CASE result[c].decision # "priced"
  <2>1. ReportRefusal(Agent, result[c].reason)
    BY <1>3 DEF Report
  <2>2. rounds'[latestRoundId'].decision = "REFUSED"
    BY <1>1, <2>1, AppendedIsLatest DEF ReportRefusal
  <2> QED BY <2>2 DEF LatestDecision
<1> QED BY <1>2, <1>3

LEMMA EvidenceIsKept == Spec => []EvidenceInv
<1>1. Init => EvidenceInv
  BY FeedAssumption DEF Init, FeedInit, EvidenceInv, LatestDecision, RoundIds, NoRound
<1>2. TypeOK /\ EvidenceInv /\ [Next]_vars => EvidenceInv'
  <2> SUFFICES ASSUME TypeOK, EvidenceInv, [Next]_vars PROVE EvidenceInv'
    OBVIOUS
  <2>1. ASSUME UNCHANGED <<rounds, latestRoundId, evidence, result, basis>>,
               \A c \in Callers : pc'[c] = "report" => pc[c] = "report"
        PROVE  EvidenceInv'
    BY <2>1 DEF EvidenceInv, LatestDecision, Supported
  <2>2. CASE StartScheduled \/ StartOwner
    BY <2>1, <2>2 DEF StartScheduled, StartOwner, Goto, feedVars, auxVars, TypeOK
  <2>3. ASSUME NEW c \in Callers,
               ReadVenues(c) \/ \E v \in Venues : HandleToolCalls(c, v)
        PROVE  EvidenceInv'
    <3>1. UNCHANGED <<rounds, latestRoundId, evidence, result, basis>>
      BY <2>3 DEF ReadVenues, HandleToolCalls, feedVars, auxVars
    <3>2. \A d \in Callers : pc'[d] = "report" => pc[d] = "report"
      BY <2>3 DEF ReadVenues, HandleToolCalls, Goto, TypeOK
    <3> QED BY <2>1, <3>1, <3>2
  <2>4. ASSUME NEW c \in Callers, Reconcile(c) PROVE EvidenceInv'
    <3>0. PICK strict \in BOOLEAN : \E verdict \in Verdicts(readings[c], strict, now) :
            /\ result' = [result EXCEPT ![c] = verdict]
            /\ basis' = [basis EXCEPT ![c] = Behind(c, verdict, strict)]
      BY <2>4 DEF Reconcile
    <3> DEFINE V == Valid(readings[c], strict, now)
    <3>1. PICK verdict \in Verdicts(readings[c], strict, now) :
            /\ result' = [result EXCEPT ![c] = verdict]
            /\ basis' = [basis EXCEPT ![c] = Behind(c, verdict, strict)]
      BY <3>0
    <3>2. verdict.decision = "priced" => Supported(V, readings[c], verdict.price)
      BY VerdictIsSupported DEF TypeOK
    <3>3. verdict.decision = "priced" =>
            DOMAIN basis'[c] = V /\ \A v \in V : basis'[c][v].price = readings[c][v].price
      <4>1. basis'[c] = Behind(c, verdict, strict)
        BY <3>1 DEF TypeOK
      <4> QED BY <4>1 DEF Behind
    <3>4. result'[c].decision = "priced" => Supported(DOMAIN basis'[c], basis'[c], result'[c].price)
      BY <3>1, <3>2, <3>3 DEF Supported, TypeOK
    <3>5. \A d \in Callers \ {c} : pc'[d] = pc[d] /\ result'[d] = result[d] /\ basis'[d] = basis[d]
      BY <2>4, <3>1 DEF Reconcile, Goto, TypeOK
    <3>6. UNCHANGED <<rounds, latestRoundId, evidence>>
      BY <2>4 DEF Reconcile, feedVars, auxVars
    <3> QED BY <3>4, <3>5, <3>6 DEF EvidenceInv, LatestDecision, Supported
  <2>5. ASSUME NEW c \in Callers, Report(c) \/ RunFails(c) PROVE EvidenceInv'
    <3>1. /\ pc'[c] = "idle"
          /\ \A d \in Callers \ {c} :
               pc'[d] = pc[d] /\ result'[d] = result[d] /\ basis'[d] = basis[d]
      BY <2>5 DEF Report, RunFails, Goto, EndRun, TypeOK
    <3>2. CASE Report(c)
      BY <3>1, <3>2, ReportedIsSupported DEF EvidenceInv, Supported, LatestDecision
    <3>3. CASE RunFails(c)
      BY <3>1, <3>3 DEF EvidenceInv, Supported, LatestDecision, RunFails, feedVars, auxVars
    <3> QED BY <2>5, <3>2, <3>3
  <2>6. CASE Operator \/ Time \/ UNCHANGED vars
    BY <2>1, <2>6 DEF Operator, Tamper, Clear, Reset, Time, AdvanceTime, vars, feedVars,
                      agentVars, auxVars
  <2> QED BY <2>2, <2>3, <2>4, <2>5, <2>6 DEF Next, RunStep
<1> QED BY <1>1, <1>2, TypeCorrectness, PTL DEF Spec

(* The sources behind a round are venues, and what they quote are prices.  *)
LEMMA BasisQuotesVenues ==
  ASSUME NEW b \in Basis
  PROVE  DOMAIN b \subseteq Venues /\ \A v \in DOMAIN b : b[v].price \in Nat
<1>1. PICK S \in SUBSET Venues : b \in [S -> [price : Prices, faked : BOOLEAN]]
  BY DEF Basis
<1> QED BY <1>1, PricesAssumption

(* Flooring loses less than one unit of the feed.                          *)
LEMMA FloorBounds ==
  ASSUME NEW price \in Nat
  PROVE  /\ Scaled(price) \in Nat
         /\ SubUnits * Scaled(price) \in Nat
         /\ SubUnits * Scaled(price) <= price
         /\ price <= SubUnits * Scaled(price) + SubUnits - 1
BY OracleAssumption DEF Scaled

(* One tampered venue never moves the feed beyond 50bps of an honest one,  *)
(* with any number of venues and at any granularity of the feed.           *)
THEOREM OneFakeCannotMoveTheFeed == Spec => []OneFakeIsContained
<1>1. TypeOK /\ EvidenceInv => OneFakeIsContained
  <2> DEFINE fakes  == {v \in DOMAIN evidence : evidence[v].faked}
             honest == DOMAIN evidence \ fakes
             floored == SubUnits * rounds[latestRoundId].answer
  <2> SUFFICES ASSUME TypeOK, EvidenceInv, LatestDecision = "PRICED", Cardinality(fakes) <= 1
               PROVE  /\ honest # {}
                      /\ \A v \in honest :
                           200 * Distance(evidence[v].price, floored)
                             <= floored + 201 * (SubUnits - 1)
    BY DEF OneFakeIsContained
  <2>1. PICK price \in Nat : /\ rounds[latestRoundId].answer = Scaled(price)
                             /\ Supported(DOMAIN evidence, evidence, price)
    BY DEF EvidenceInv
  <2>2. honest # {}
    <3> SUFFICES ASSUME fakes = DOMAIN evidence PROVE FALSE
      OBVIOUS
    <3>1. Cardinality(fakes) >= 2
      BY <2>1 DEF Supported
    <3>2. IsFiniteSet(fakes)
      <4>1. fakes \subseteq Venues
        BY BasisQuotesVenues DEF TypeOK
      <4> QED BY <4>1, VenuesAssumption, FS_Subset
    <3> QED BY <3>1, <3>2, FS_CardinalityType
  <2>3. ASSUME NEW v \in honest
        PROVE  200 * Distance(evidence[v].price, floored) <= floored + 201 * (SubUnits - 1)
    <3>1. evidence[v].price \in Nat
      BY BasisQuotesVenues DEF TypeOK
    <3>2. 200 * Distance(evidence[v].price, price) <= price
      BY <2>1 DEF Supported
    <3>3. /\ floored \in Nat /\ SubUnits \in Nat \ {0}
          /\ floored <= price /\ price <= floored + SubUnits - 1
      <4>1. floored = SubUnits * Scaled(price)
        BY <2>1
      <4> HIDE DEF floored
      <4> QED BY <4>1, FloorBounds, OracleAssumption
    <3> HIDE DEF floored
    <3> QED BY <3>1, <3>2, <3>3 DEF Distance
  <2> QED BY <2>2, <2>3
<1> QED BY <1>1, TypeCorrectness, EvidenceIsKept, PTL

----------------------------------------------------------------------------
(* Refinement.                                                             *)

(* The oracle implements CorroboratedFeed: every report appends one round  *)
(* that is refused or quoted by at least two venues, and no other step is  *)
(* visible to a consumer of the feed.                                      *)
THEOREM Refinement == Spec => ImplementsCorroboratedFeed
<1> DEFINE quotes == [v \in DOMAIN evidence |-> evidence[v].price]
<1>1. Init => Promise!Init
  <2> SUFFICES ASSUME Init PROVE Promise!Init
    OBVIOUS
  <2>1. rounds[latestRoundId] = NoRound
    BY FeedAssumption DEF Init, FeedInit, RoundIds
  <2>2. DOMAIN evidence = {}
    BY DEF Init, NoBasis
  <2>3. quotes = [s \in {} |-> 0]
    BY <2>2
  <2> QED BY <2>1, <2>3 DEF Promise!Init, Init, FeedInit, NoRound, LatestDecision
<1>2. TypeOK /\ EvidenceInv /\ [Next]_vars => [Promise!Next]_(Promise!vars)
  <2> SUFFICES ASSUME TypeOK, EvidenceInv, [Next]_vars
               PROVE  [Promise!Next]_(Promise!vars)
    OBVIOUS
  <2>1. ASSUME UNCHANGED <<rounds, latestRoundId, evidence>>
        PROVE  UNCHANGED Promise!vars
    BY <2>1 DEF Promise!vars, LatestDecision
  <2>2. ASSUME NEW c \in Callers, Report(c) PROVE Promise!Next
    <3>1. latestRoundId < MaxRoundId /\ latestRoundId' = latestRoundId + 1
      BY <2>2 DEF Report, ReportPrice, ReportRefusal, AppendRound
    <3>2. DOMAIN quotes' \subseteq Venues
      BY <2>2, BasisQuotesVenues DEF Report, TypeOK
    <3>3. CASE result[c].decision # "priced"
      <4>1. ReportRefusal(Agent, result[c].reason)
        BY <2>2, <3>3 DEF Report
      <4>2. rounds'[latestRoundId'] = [answer |-> 0, updatedAt |-> now, decision |-> "REFUSED",
                                       reasonHash |-> result[c].reason]
        BY <4>1, AppendedIsLatest DEF ReportRefusal, TypeOK
      <4>3. Promise!PublishRefusal
        BY <4>2 DEF Promise!PublishRefusal, LatestDecision
      <4> QED BY <3>1, <3>2, <4>3 DEF Promise!Next
    <3>4. CASE result[c].decision = "priced"
      <4>1. LatestDecision' = "PRICED"
        <5>1. ReportPrice(Agent, Scaled(result[c].price))
          BY <2>2, <3>4 DEF Report
        <5>2. rounds'[latestRoundId'].decision = "PRICED"
          BY <5>1, AppendedIsLatest DEF ReportPrice, TypeOK
        <5> QED BY <5>2 DEF LatestDecision
      <4>2. PICK price \in Nat : /\ rounds'[latestRoundId'].answer = Scaled(price)
                                 /\ Supported(DOMAIN evidence', evidence', price)
        BY <2>2, <4>1, ReportedIsSupported
      <4>3. price \in Promise!PricesBehind(rounds'[latestRoundId'].answer)
        <5>1. /\ SubUnits * Scaled(price) \in Nat /\ SubUnits \in Nat
              /\ SubUnits * Scaled(price) <= price
              /\ price <= SubUnits * Scaled(price) + SubUnits - 1
          BY FloorBounds, OracleAssumption
        <5> QED BY <4>2, <5>1 DEF Promise!PricesBehind
      <4>4. ASSUME NEW v \in DOMAIN evidence' PROVE Promise!Near(evidence'[v].price, price)
        <5>1. evidence' \in Basis
          BY <2>2 DEF Report, TypeOK
        <5>2. evidence'[v].price \in Nat
          BY <5>1, BasisQuotesVenues
        <5>3. 200 * Distance(evidence'[v].price, price) <= price
          BY <4>2 DEF Supported
        <5> QED BY <5>2, <5>3 DEF Promise!Near, Distance
      <4>5. DOMAIN quotes' = DOMAIN evidence' /\ \E s, t \in DOMAIN quotes' : s # t
        <5>1. \A x : \E y \in DOMAIN evidence' : y # x
          BY <4>2, TwoMembers DEF Supported
        <5> QED BY <5>1
      <4>6. \A v \in DOMAIN quotes' : Promise!Near(quotes'[v], price)
        BY <4>4, <4>5 DEF Promise!Near
      <4>7. \E p \in Promise!PricesBehind(rounds'[latestRoundId'].answer) :
              \A v \in DOMAIN quotes' : Promise!Near(quotes'[v], p)
        BY <4>3, <4>6
      <4>8. Promise!PublishPrice
        BY <4>1, <4>5, <4>7 DEF Promise!PublishPrice
      <4> QED BY <3>1, <3>2, <4>8 DEF Promise!Next
    <3> QED BY <3>3, <3>4
  <2>3. ASSUME NEW c \in Callers, RunStep(c), ~Report(c)
        PROVE  UNCHANGED <<rounds, latestRoundId, evidence>>
    BY <2>3 DEF RunStep, ReadVenues, HandleToolCalls, Reconcile, RunFails, feedVars, auxVars
  <2>4. CASE StartScheduled \/ StartOwner \/ Operator \/ Time \/ UNCHANGED vars
    <3>1. UNCHANGED <<rounds, latestRoundId, evidence>>
      BY <2>4 DEF StartScheduled, StartOwner, Operator, Tamper, Clear, Reset, Time, AdvanceTime,
                  vars, feedVars, auxVars
    <3> QED BY <2>1, <3>1
  <2> QED BY <2>1, <2>2, <2>3, <2>4 DEF Next
<1> QED BY <1>1, <1>2, TypeCorrectness, EvidenceIsKept, PTL
        DEF Spec, ImplementsCorroboratedFeed, Promise!Spec
----------------------------------------------------------------------------
(* The feed and those who read it.                                         *)

(* Blocks never run backwards, so a round is never newer than the head.    *)
WrittenInThePast == \A id \in 1 .. latestRoundId : rounds[id].updatedAt <= now

FeedInv == FeedTypeOK /\ RoundsAreContiguous /\ WrittenInThePast

(* What the agent's report does to the history: one round at the end, the  *)
(* rest as it was.                                                         *)
LEMMA ReportsAppend ==
  ASSUME FeedTypeOK, AgentReports
  PROVE  /\ latestRoundId' = latestRoundId + 1 /\ latestRoundId' \in RoundIds
         /\ \A id \in RoundIds \ {latestRoundId'} : rounds'[id] = rounds[id]
         /\ rounds' \in [RoundIds -> Round]
         /\ rounds'[latestRoundId'].decision \in {"PRICED", "REFUSED"}
         /\ rounds'[latestRoundId'].updatedAt = now
         /\ UNCHANGED <<now, reader, startedAt, timeline, userVars>>
<1>1. PICK round \in Round : /\ AppendRound(round) /\ round.updatedAt = now
                            /\ round.decision \in {"PRICED", "REFUSED"}
  <2>1. CASE \E a \in Reports : ReportPrice(Agent, a)
    BY <2>1, ConsumersAssumption DEF ReportPrice, Round, FeedTypeOK
  <2>2. CASE \E h \in Hashes : ReportRefusal(Agent, h)
    BY <2>2 DEF ReportRefusal, Round, FeedTypeOK
  <2> QED BY <2>1, <2>2 DEF AgentReports
<1>2. latestRoundId' = latestRoundId + 1 /\ latestRoundId' \in RoundIds
  BY <1>1, FeedAssumption DEF AppendRound, FeedTypeOK, RoundIds
<1>3. rounds' = [rounds EXCEPT ![latestRoundId'] = round]
  BY <1>1 DEF AppendRound
<1> QED BY <1>1, <1>2, <1>3 DEF AppendRound, AgentReports, FeedTypeOK

(* Everybody else only reads.                                              *)
LEMMA OthersOnlyRead ==
  ASSUME [ConsumersNext]_consumerVars, ~AgentReports
  PROVE  UNCHANGED <<latestRoundId, rounds>>
BY DEF ConsumersNext, BlockEnds, AdvanceTime, User, Read, Timeline, consumerVars, feedVars

LEMMA FeedInvariance == ConsumersSpec => []FeedInv
<1>1. ConsumersInit => FeedInv
  BY FeedAssumption DEF ConsumersInit, FeedInit, FeedInv, FeedTypeOK, RoundsAreContiguous,
                        WrittenInThePast, RoundIds, Round, NoRound
<1>2. FeedInv /\ [ConsumersNext]_consumerVars => FeedInv'
  <2> SUFFICES ASSUME FeedInv, [ConsumersNext]_consumerVars PROVE FeedInv'
    OBVIOUS
  <2>0. latestRoundId \in Nat /\ now \in Nat /\ \A id \in 1 .. latestRoundId : id \in RoundIds
    BY FeedAssumption DEF FeedInv, FeedTypeOK, RoundIds
  <2>1. CASE AgentReports
    <3>1. /\ latestRoundId' = latestRoundId + 1 /\ latestRoundId' \in RoundIds
          /\ \A id \in RoundIds \ {latestRoundId'} : rounds'[id] = rounds[id]
          /\ rounds' \in [RoundIds -> Round]
          /\ rounds'[latestRoundId'].decision \in {"PRICED", "REFUSED"}
          /\ rounds'[latestRoundId'].updatedAt = now
          /\ now' = now
      BY <2>1, ReportsAppend DEF FeedInv
    <3>2. FeedTypeOK'
      BY <3>1 DEF FeedInv, FeedTypeOK
    <3>3. WrittenInThePast'
      BY <2>0, <3>1 DEF FeedInv, WrittenInThePast
    <3>4. \A id \in RoundIds : (rounds'[id].decision # "UNINITIALIZED") <=> (id \in 1 .. latestRoundId')
      BY <2>0, <3>1 DEF FeedInv, RoundsAreContiguous, RoundIds
    <3>5. \A i, j \in 1 .. latestRoundId' :
            i <= j => rounds'[i].updatedAt <= rounds'[j].updatedAt
      <4> SUFFICES ASSUME NEW i \in 1 .. latestRoundId', NEW j \in 1 .. latestRoundId', i <= j
                   PROVE  rounds'[i].updatedAt <= rounds'[j].updatedAt
        OBVIOUS
      <4>1. CASE j = latestRoundId'
        BY <3>1, <3>3, <4>1 DEF WrittenInThePast
      <4>2. CASE j # latestRoundId'
        <5>1. i \in 1 .. latestRoundId /\ j \in 1 .. latestRoundId
          BY <2>0, <3>1, <4>2
        <5>2. rounds'[i] = rounds[i] /\ rounds'[j] = rounds[j]
          BY <2>0, <3>1, <5>1
        <5> QED BY <5>1, <5>2 DEF FeedInv, RoundsAreContiguous
      <4> QED BY <4>1, <4>2
    <3> QED BY <3>2, <3>3, <3>4, <3>5 DEF FeedInv, RoundsAreContiguous
  <2>2. CASE ~AgentReports
    <3>1. UNCHANGED <<latestRoundId, rounds>>
      BY <2>2, OthersOnlyRead
    <3>2. now' = now \/ (now < MaxTime /\ now' = now + 1)
      BY <2>2 DEF ConsumersNext, BlockEnds, AdvanceTime, User, Read, Timeline, consumerVars, feedVars
    <3>3. now' \in 0 .. MaxTime /\ now <= now'
      BY <2>0, <3>2, FeedAssumption DEF FeedInv, FeedTypeOK
    <3>4. WrittenInThePast'
      <4>1. \A id \in 1 .. latestRoundId : rounds[id].updatedAt \in Nat
        BY <2>0, FeedAssumption DEF FeedInv, FeedTypeOK, Round
      <4> QED BY <2>0, <3>1, <3>3, <4>1 DEF FeedInv, WrittenInThePast
    <3> QED BY <3>1, <3>3, <3>4 DEF FeedInv, FeedTypeOK, RoundsAreContiguous
  <2> QED BY <2>1, <2>2
<1> QED BY <1>1, <1>2, PTL DEF ConsumersSpec

(* "Round IDs are monotonic", without a gap and in the order of time.      *)
THEOREM HistoryHasNoGap == ConsumersSpec => []RoundsAreContiguous
<1>1. FeedInv => RoundsAreContiguous
  BY DEF FeedInv
<1> QED BY <1>1, FeedInvariance, PTL

(* getRoundData returns for a round what it returned when it was written.  *)
THEOREM HistoryNeverChanges == ConsumersSpec => HistoryIsImmutable
<1>1. FeedInv /\ [ConsumersNext]_consumerVars => [\A id \in 1 .. latestRoundId : rounds'[id] = rounds[id]]_feedVars
  <2> SUFFICES ASSUME FeedInv, [ConsumersNext]_consumerVars, NEW id \in 1 .. latestRoundId
               PROVE  rounds'[id] = rounds[id]
    OBVIOUS
  <2>1. CASE AgentReports
    <3>1. id \in RoundIds /\ id # latestRoundId + 1
      BY FeedAssumption DEF FeedInv, FeedTypeOK, RoundIds
    <3> QED BY <2>1, <3>1, ReportsAppend DEF FeedInv
  <2>2. CASE ~AgentReports
    BY <2>2, OthersOnlyRead
  <2> QED BY <2>1, <2>2
<1> QED BY <1>1, FeedInvariance, PTL DEF ConsumersSpec, HistoryIsImmutable

(* While the feed refuses, nobody borrows and nobody is liquidated.        *)
THEOREM RefusalHalts == ConsumersSpec => RefusalHaltsRisk
<1>1. [ConsumersNext]_consumerVars =>
        [LatestDecision = "REFUSED" => /\ debt' => debt
                                       /\ debt /\ collateral => collateral']_consumerVars
  <2> SUFFICES ASSUME ConsumersNext, LatestDecision = "REFUSED"
               PROVE  (debt' => debt) /\ (debt /\ collateral => collateral')
    OBVIOUS
  <2>1. ~AavePriceAvailable
    BY DEF AavePriceAvailable, LatestAnswer, LatestDecision
  <2>2. CASE User
    BY <2>1, <2>2 DEF User, Supply, Borrow, Repay, Withdraw, Liquidate
  <2>3. CASE ~User
    BY <2>3 DEF ConsumersNext, AgentReports, BlockEnds, Read, Timeline, userVars
  <2> QED BY <2>2, <2>3
<1> QED BY <1>1, PTL DEF ConsumersSpec, RefusalHaltsRisk

----------------------------------------------------------------------------
ReaderType == [step : {"idle", "id", "position", "done", "failed"}, id : RoundIds, round : Round]

(* A reader past its first call holds an id between the latest round of    *)
(* its start and that of now, and past its second call that very round.    *)
ReaderInv ==
  /\ reader \in [Readers -> ReaderType]
  /\ startedAt \in [Readers -> RoundIds]
  /\ \A r \in Readers :
       reader[r].step # "idle" =>
         /\ startedAt[r] <= reader[r].id /\ reader[r].id <= latestRoundId
         /\ reader[r].step # "id" => reader[r].round = rounds[reader[r].id]

(* Two calls, any number of reports between them: still one round, as it   *)
(* was written, and no older than the command.                             *)
THEOREM ReadersAreConsistent == ConsumersSpec => []ReadersShowOneRound
<1>1. ConsumersInit => ReaderInv
  BY FeedAssumption DEF ConsumersInit, FeedInit, ReaderInv, ReaderType, Idle, RoundIds, Round, NoRound
<1>2. FeedInv /\ ReaderInv /\ [ConsumersNext]_consumerVars => ReaderInv'
  <2> SUFFICES ASSUME FeedInv, ReaderInv, [ConsumersNext]_consumerVars PROVE ReaderInv'
    OBVIOUS
  <2>0. latestRoundId \in Nat /\ RoundIds \subseteq Nat
    BY FeedAssumption DEF FeedInv, FeedTypeOK, RoundIds
  <2>1. CASE AgentReports
    <3>1. /\ latestRoundId' = latestRoundId + 1
          /\ \A id \in RoundIds \ {latestRoundId'} : rounds'[id] = rounds[id]
          /\ UNCHANGED <<reader, startedAt>>
      BY <2>1, ReportsAppend DEF FeedInv
    <3>2. \A r \in Readers : reader[r].id \in RoundIds
      BY DEF ReaderInv, ReaderType
    <3>3. ASSUME NEW r \in Readers, reader[r].step # "idle"
          PROVE  /\ startedAt[r] <= reader[r].id /\ reader[r].id <= latestRoundId'
                 /\ reader[r].step # "id" => reader[r].round = rounds'[reader[r].id]
      <4>1. /\ startedAt[r] <= reader[r].id /\ reader[r].id <= latestRoundId
            /\ reader[r].step # "id" => reader[r].round = rounds[reader[r].id]
        BY <3>3 DEF ReaderInv
      <4>2. reader[r].id \in Nat /\ reader[r].id # latestRoundId'
        <5>1. reader[r].id \in Nat
          BY <2>0, <3>2
        <5>2. latestRoundId' = latestRoundId + 1
          BY <3>1
        <5> QED BY <2>0, <4>1, <5>1, <5>2
      <4>3. rounds'[reader[r].id] = rounds[reader[r].id]
        BY <3>1, <3>2, <4>2
      <4> QED BY <2>0, <3>1, <4>1, <4>2, <4>3
    <3>4. reader' = reader /\ startedAt' = startedAt
      BY <3>1
    <3>5. reader \in [Readers -> ReaderType] /\ startedAt \in [Readers -> RoundIds]
      BY DEF ReaderInv
    <3> QED BY <3>3, <3>4, <3>5 DEF ReaderInv
  <2>2. ASSUME NEW r \in Readers, Read(r) PROVE ReaderInv'
    <3>0. UNCHANGED <<latestRoundId, rounds>>
      BY <2>2 DEF Read, feedVars
    <3>1. reader[r] \in ReaderType
      BY DEF ReaderInv
    <3>2. PICK next \in ReaderType :
            /\ reader' = [reader EXCEPT ![r] = next]
            /\ startedAt' \in [Readers -> RoundIds]
            /\ \A q \in Readers \ {r} : startedAt'[q] = startedAt[q]
            /\ startedAt'[r] <= next.id /\ next.id <= latestRoundId
            /\ next.step # "idle" /\ (next.step # "id" => next.round = rounds[next.id])
      <4>1. CASE ReadLatestRoundId(r)
        <5> DEFINE next == [Idle EXCEPT !.step = "id", !.id = latestRoundId]
        <5>0. NoRound \in Round /\ latestRoundId \in RoundIds
          BY FeedAssumption DEF FeedInv, FeedTypeOK, Round, NoRound
        <5>1. next \in ReaderType /\ next.step = "id" /\ next.id = latestRoundId
          BY <5>0 DEF ReaderType, Idle
        <5>2. reader' = [reader EXCEPT ![r] = next]
          BY <4>1 DEF ReadLatestRoundId
        <5>3. startedAt' = [startedAt EXCEPT ![r] = latestRoundId]
          BY <4>1 DEF ReadLatestRoundId
        <5>4. startedAt' \in [Readers -> RoundIds] /\ startedAt'[r] = latestRoundId
              /\ \A q \in Readers \ {r} : startedAt'[q] = startedAt[q]
          BY <5>0, <5>3 DEF ReaderInv
        <5>5. /\ startedAt'[r] <= next.id /\ next.id <= latestRoundId
              /\ next.step # "idle" /\ (next.step # "id" => next.round = rounds[next.id])
          BY <2>0, <5>1, <5>4
        <5> HIDE DEF next
        <5> QED BY <5>1, <5>2, <5>4, <5>5
      <4>2. CASE ReadRound(r)
        <5> DEFINE step == IF r = "op" THEN "position" ELSE "done"
                   next == [reader[r] EXCEPT !.step = step, !.round = rounds[reader[r].id]]
        <5>1. next \in ReaderType /\ next.id = reader[r].id /\ next.round = rounds[next.id]
              /\ next.step \in {"position", "done"}
          BY <3>1 DEF ReaderType, FeedInv, FeedTypeOK
        <5>2. reader' = [reader EXCEPT ![r] = next]
          BY <4>2 DEF ReadRound, GetRoundData
        <5>3. reader[r].step = "id" /\ startedAt' = startedAt
          BY <4>2 DEF ReadRound
        <5>4. startedAt[r] <= reader[r].id /\ reader[r].id <= latestRoundId
          BY <5>3 DEF ReaderInv
        <5> HIDE DEF next
        <5> QED BY <5>1, <5>2, <5>3, <5>4 DEF ReaderInv
      <4>3. CASE ReadPosition(r)
        <5> DEFINE step == IF collateral /\ ~AavePriceAvailable THEN "failed" ELSE "done"
                   next == [reader[r] EXCEPT !.step = step]
        <5>1. next \in ReaderType /\ next.id = reader[r].id /\ next.round = reader[r].round
              /\ next.step \in {"failed", "done"}
          BY <3>1 DEF ReaderType
        <5>2. reader' = [reader EXCEPT ![r] = next]
          BY <4>3 DEF ReadPosition, ReaderInv
        <5>3. reader[r].step = "position" /\ startedAt' = startedAt
          BY <4>3 DEF ReadPosition
        <5>4. /\ startedAt[r] <= reader[r].id /\ reader[r].id <= latestRoundId
              /\ reader[r].round = rounds[reader[r].id]
          BY <5>3 DEF ReaderInv
        <5> HIDE DEF next
        <5> QED BY <5>1, <5>2, <5>3, <5>4 DEF ReaderInv
      <4> QED BY <2>2, <4>1, <4>2, <4>3 DEF Read
    <3> QED BY <3>0, <3>2 DEF ReaderInv
  <2>3. CASE BlockEnds \/ User \/ Timeline \/ UNCHANGED consumerVars
    <3>1. UNCHANGED <<latestRoundId, rounds, reader, startedAt>>
      BY <2>3 DEF BlockEnds, AdvanceTime, User, Timeline, consumerVars, feedVars
    <3> QED BY <3>1 DEF ReaderInv
  <2> QED BY <2>1, <2>2, <2>3 DEF ConsumersNext
<1>3. ReaderInv => ReadersShowOneRound
  BY DEF ReaderInv, ReaderType, ReadersShowOneRound, RoundIds
<1> QED BY <1>1, <1>2, <1>3, FeedInvariance, PTL DEF ConsumersSpec

----------------------------------------------------------------------------
(* The timeline.  The rounds of the window that ends with block head.      *)
Window(head) == {id \in 1 .. latestRoundId : rounds[id].updatedAt \in From(head) .. head}

(* What the properties say of a list of rounds shown for a window.         *)
Shows(entries, window) ==
  LET shown == ToSet(entries)
      apart == \A i, j \in window : i # j => rounds[i].updatedAt # rounds[j].updatedAt
  IN  /\ shown \subseteq window
      /\ Cardinality(shown) = Slice \/ shown = window
      /\ apart => /\ \A i \in shown, j \in window \ shown : j < i
                  /\ \A k, l \in DOMAIN entries : k < l => entries[k] > entries[l]

(* Both kinds of logs of a window are all of it.                           *)
LEMMA LogsFillWindow ==
  ASSUME FeedInv, NEW head
  PROVE  RoundsWith("PRICED", From(head), head) \cup RoundsWith("REFUSED", From(head), head)
           = Window(head)
<1>1. \A id \in 1 .. latestRoundId : rounds[id].decision \in {"PRICED", "REFUSED"}
  <2>1. \A id \in 1 .. latestRoundId : id \in RoundIds
    BY FeedAssumption DEF FeedInv, FeedTypeOK, RoundIds
  <2> QED BY <2>1 DEF FeedInv, FeedTypeOK, RoundsAreContiguous, Round
<1> QED BY <1>1 DEF RoundsWith, Window

(* The order of the list is a strict linear order.                         *)
LEMMA NewerIsLinear ==
  ASSUME FeedInv
  PROVE  \A i, j, k \in 1 .. latestRoundId :
           /\ ~Newer(i, i)
           /\ Newer(i, j) /\ Newer(j, k) => Newer(i, k)
           /\ i # j => Newer(i, j) \/ Newer(j, i)
<1>1. \A id \in 1 .. latestRoundId : /\ rounds[id].decision \in {"PRICED", "REFUSED"}
                                     /\ rounds[id].updatedAt \in Int
  <2>1. \A id \in 1 .. latestRoundId : id \in RoundIds
    BY FeedAssumption DEF FeedInv, FeedTypeOK, RoundIds
  <2> QED BY <2>1 DEF FeedInv, FeedTypeOK, RoundsAreContiguous, Round
<1>2. "PRICED" # "REFUSED"
  OBVIOUS
<1> QED BY <1>1, <1>2 DEF Newer

(* What the merge of the logs leaves: every id once, the newer ones first. *)
LEMMA SortedIds ==
  ASSUME FeedInv, NEW ids \in SUBSET (1 .. latestRoundId)
  PROVE  \E n \in Nat :
           /\ n = Cardinality(ids) /\ Sorted(ids) \in Bijection(1 .. n, ids)
           /\ \A k, l \in 1 .. n : k < l => Newer(Sorted(ids)[k], Sorted(ids)[l])
<1>1. IsFiniteSet(ids)
  <2>1. latestRoundId \in Int
    BY FeedAssumption DEF FeedInv, FeedTypeOK, RoundIds
  <2>2. IsFiniteSet(1 .. latestRoundId)
    BY <2>1, FS_Interval
  <2> QED BY <2>2, FS_Subset
<1>2. PICK n : n = Cardinality(ids)
  OBVIOUS
<1>3. n \in Nat
  BY <1>1, <1>2, FS_CardinalityType
<1>4. \E s \in [1 .. n -> ids] : \A k, l \in 1 .. n : k < l => Newer(s[k], s[l])
  <2> DEFINE R == {p \in ids \X ids : Newer(p[1], p[2])}
  <2>1. \A x, y \in ids : <<x, y>> \in R <=> Newer(x, y)
    <3> SUFFICES ASSUME NEW x \in ids, NEW y \in ids PROVE <<x, y>> \in R <=> Newer(x, y)
      OBVIOUS
    <3>1. <<x, y>> \in ids \X ids /\ <<x, y>>[1] = x /\ <<x, y>>[2] = y
      OBVIOUS
    <3>2. <<x, y>> \in R <=> Newer(<<x, y>>[1], <<x, y>>[2])
      BY <3>1
    <3> QED BY <3>1, <3>2
  <2> HIDE DEF R
  <2>2. /\ \A x, y, z \in ids : <<x, y>> \in R /\ <<y, z>> \in R => <<x, z>> \in R
        /\ \A x, y \in ids : x # y => <<x, y>> \in R \/ <<y, x>> \in R
    BY <2>1, NewerIsLinear
  <2>3. \E s \in [1 .. n -> ids] : \A k, l \in 1 .. n : k < l => <<s[k], s[l]>> \in R
    BY <1>1, <1>2, <2>2, SortExists
  <2> QED BY <2>1, <2>3
<1>5. PICK s : s = Sorted(ids)
  OBVIOUS
<1>6. s \in [1 .. n -> ids] /\ \A k, l \in 1 .. n : k < l => Newer(s[k], s[l])
  <2>1. \E t \in [1 .. n -> ids] : \A k, l \in DOMAIN t : k < l => Newer(t[k], t[l])
    BY <1>4
  <2> QED BY <1>2, <1>5, <2>1 DEF Sorted
<1>7. s \in Injection(1 .. n, ids)
  <2>1. \A k, l \in 1 .. n : k < l => s[k] # s[l]
    BY <1>6, NewerIsLinear
  <2>2. \A k, l \in 1 .. n : s[k] = s[l] => k = l
    BY <1>3, <2>1
  <2> QED BY <1>6, <2>2 DEF Injection, IsInjective
<1>8. s \in Surjection(1 .. n, ids)
  <2>1. Cardinality(1 .. n) = n
    BY <1>3, FS_Interval
  <2> QED BY <1>1, <1>2, <1>7, <2>1, FS_Injection
<1> QED BY <1>2, <1>3, <1>5, <1>6, <1>7, <1>8 DEF Bijection

(* Rounds of different blocks are listed in the order of their ids.        *)
LEMMA NewerIsLater ==
  ASSUME FeedInv, NEW i \in 1 .. latestRoundId, NEW j \in 1 .. latestRoundId,
         Newer(i, j), rounds[i].updatedAt # rounds[j].updatedAt
  PROVE  j < i
<1>1. i \in Int /\ j \in Int /\ rounds[i].updatedAt \in Int /\ rounds[j].updatedAt \in Int
  <2>1. i \in RoundIds /\ j \in RoundIds
    BY FeedAssumption DEF FeedInv, FeedTypeOK, RoundIds
  <2> QED BY <2>1 DEF FeedInv, FeedTypeOK, Round, RoundIds
<1>2. rounds[i].updatedAt > rounds[j].updatedAt
  BY <1>1 DEF Newer
<1>3. i <= j => rounds[i].updatedAt <= rounds[j].updatedAt
  BY DEF FeedInv, RoundsAreContiguous
<1> QED BY <1>1, <1>2, <1>3

(* The first entries of the sorted list are a gapless end of the window.   *)
LEMMA CutShows ==
  ASSUME FeedInv, NEW ids \in SUBSET (1 .. latestRoundId), NEW sorted, sorted = Sorted(ids),
         NEW entries,
         entries = SubSeq(sorted, 1, IF Len(sorted) < Slice THEN Len(sorted) ELSE Slice)
  PROVE  Shows(entries, ids) /\ entries \in Seq(ids)
<1>1. PICK n \in Nat : /\ n = Cardinality(ids) /\ sorted \in Bijection(1 .. n, ids)
                       /\ \A k, l \in 1 .. n : k < l => Newer(sorted[k], sorted[l])
  BY SortedIds
<1>2. /\ sorted \in [1 .. n -> ids] /\ \A k, l \in 1 .. n : sorted[k] = sorted[l] => k = l
      /\ \A id \in ids : \E k \in 1 .. n : sorted[k] = id
  BY <1>1, BijectionIs
<1>3. sorted \in Seq(ids) /\ Len(sorted) = n
  BY <1>2, LenProperties
<1>4. PICK m : m = IF n < Slice THEN n ELSE Slice
  OBVIOUS
<1>5. m \in Nat /\ m <= n /\ (m = n \/ m = Slice)
  BY <1>4, ConsumersAssumption
<1>6. entries \in Seq(ids) /\ DOMAIN entries = 1 .. m /\ \A k \in 1 .. m : entries[k] = sorted[k]
  <2>1. entries = SubSeq(sorted, 1, m)
    BY <1>3, <1>4
  <2>2. /\ SubSeq(sorted, 1, m) \in Seq(ids) /\ DOMAIN SubSeq(sorted, 1, m) = 1 .. m
        /\ \A k \in 1 .. m : SubSeq(sorted, 1, m)[k] = sorted[k]
    BY <1>3, <1>5, FirstOf
  <2> QED BY <2>1, <2>2
<1> DEFINE shown == ToSet(entries)
<1>8. \A x : x \in shown <=> \E k \in 1 .. m : x = sorted[k]
  BY <1>6 DEF ToSet
<1> HIDE DEF shown
<1>9. 1 .. m \subseteq 1 .. n
  BY <1>5
<1>10. shown \subseteq ids
  BY <1>2, <1>8, <1>9
<1>11. Cardinality(shown) = Slice \/ shown = ids
  <2>1. CASE m = n
    <3>1. \A x \in ids : \E k \in 1 .. m : x = sorted[k]
      BY <1>2, <2>1
    <3> QED BY <1>8, <1>10, <3>1
  <2>2. CASE m = Slice
    <3>1. PICK f : f = [k \in 1 .. m |-> sorted[k]]
      OBVIOUS
    <3>4. /\ f \in [1 .. m -> shown] /\ \A k, l \in 1 .. m : f[k] = f[l] => k = l
          /\ \A id \in shown : \E k \in 1 .. m : f[k] = id
      BY <1>2, <1>8, <1>9, <3>1
    <3>5. f \in Bijection(1 .. m, shown)
      BY <3>4, BijectionIs
    <3>2. ExistsBijection(1 .. m, shown)
      BY <3>5 DEF ExistsBijection
    <3>3. Cardinality(shown) = m
      BY <1>5, <3>2, FS_CountingElements
    <3> QED BY <2>2, <3>3
  <2> QED BY <1>5, <2>1, <2>2
<1>12. ASSUME \A i, j \in ids : i # j => rounds[i].updatedAt # rounds[j].updatedAt
       PROVE  /\ \A i \in shown, j \in ids \ shown : j < i
              /\ \A k, l \in DOMAIN entries : k < l => entries[k] > entries[l]
  <2>1. ASSUME NEW k \in 1 .. n, NEW l \in 1 .. n, k < l PROVE sorted[l] < sorted[k]
    <3>1. sorted[k] \in ids /\ sorted[l] \in ids /\ sorted[k] # sorted[l]
          /\ Newer(sorted[k], sorted[l])
      BY <1>1, <1>2, <2>1
    <3>2. rounds[sorted[k]].updatedAt # rounds[sorted[l]].updatedAt
      BY <1>12, <3>1
    <3>3. PICK i, j : i = sorted[k] /\ j = sorted[l]
      OBVIOUS
    <3>4. i \in 1 .. latestRoundId /\ j \in 1 .. latestRoundId /\ Newer(i, j)
          /\ rounds[i].updatedAt # rounds[j].updatedAt
      BY <3>1, <3>2, <3>3
    <3>5. j < i
      BY <3>4, NewerIsLater
    <3> QED BY <3>3, <3>5
  <2>2. ASSUME NEW i \in shown, NEW j \in ids \ shown PROVE j < i
    <3>1. PICK k \in 1 .. m : i = sorted[k]
      BY <1>8
    <3>2. PICK l \in 1 .. n : j = sorted[l]
      BY <1>2
    <3>3. l \notin 1 .. m
      BY <1>8, <3>2
    <3>4. k \in 1 .. n /\ k < l
      BY <1>5, <1>9, <3>3
    <3> QED BY <2>1, <3>1, <3>2, <3>4
  <2>3. ASSUME NEW k \in DOMAIN entries, NEW l \in DOMAIN entries, k < l
        PROVE  entries[k] > entries[l]
    <3>1. /\ k \in 1 .. m /\ l \in 1 .. m /\ k \in 1 .. n /\ l \in 1 .. n
          /\ entries[k] = sorted[k] /\ entries[l] = sorted[l]
      BY <1>6, <1>9
    <3>2. sorted[l] < sorted[k]
      BY <2>1, <2>3, <3>1
    <3>3. sorted[l] \in Int /\ sorted[k] \in Int
      <4>1. sorted[l] \in ids /\ sorted[k] \in ids
        BY <1>2, <3>1
      <4>2. latestRoundId \in Int
        BY FeedAssumption DEF FeedInv, FeedTypeOK, RoundIds
      <4>3. \A i \in 1 .. latestRoundId : i \in Int
        BY <4>2
      <4>4. ids \subseteq 1 .. latestRoundId
        OBVIOUS
      <4> QED BY <4>1, <4>3, <4>4
    <3> QED BY <3>1, <3>2, <3>3
  <2> QED BY <2>2, <2>3
<1>13. Shows(entries, ids)
  BY <1>10, <1>11, <1>12 DEF Shows, shown
<1> QED BY <1>6, <1>13

TimelineType == [step : {"idle", "query", "done"}, head : Nat,
                 priced : SUBSET RoundIds, refused : SUBSET RoundIds,
                 asked : SUBSET {"PRICED", "REFUSED"}, entries : Seq(RoundIds)]

(* A request under way is about blocks that have ended, and holds exactly  *)
(* the logs of the queries that have returned.                             *)
TimelineInv ==
  /\ timeline \in TimelineType
  /\ timeline.step # "idle" => timeline.head < now
  /\ timeline.step = "query" =>
       /\ "PRICED" \in timeline.asked =>
            timeline.priced = RoundsWith("PRICED", From(timeline.head), timeline.head)
       /\ "REFUSED" \in timeline.asked =>
            timeline.refused = RoundsWith("REFUSED", From(timeline.head), timeline.head)
  /\ timeline.step = "done" => Shows(timeline.entries, Window(timeline.head))

(* What is published later has a later block, so no window that has ended  *)
(* changes.                                                                *)
LEMMA WindowStays ==
  ASSUME FeedInv, AgentReports, NEW head \in Nat, head < now
  PROVE  /\ Window(head)' = Window(head)
         /\ \A d : RoundsWith(d, From(head), head)' = RoundsWith(d, From(head), head)
         /\ \A id \in Window(head) : rounds'[id] = rounds[id]
<1>1. /\ latestRoundId' = latestRoundId + 1 /\ latestRoundId \in Nat /\ latestRoundId' \in RoundIds
      /\ \A id \in RoundIds \ {latestRoundId'} : rounds'[id] = rounds[id]
      /\ rounds'[latestRoundId'].updatedAt = now /\ now \in Nat
  BY ReportsAppend, FeedAssumption DEF FeedInv, FeedTypeOK, RoundIds
<1>2. \A id \in 1 .. latestRoundId : id \in 1 .. latestRoundId' /\ rounds'[id] = rounds[id]
  BY <1>1, FeedAssumption DEF FeedInv, FeedTypeOK, RoundIds
<1>3. \A id \in 1 .. latestRoundId' : id = latestRoundId' \/ id \in 1 .. latestRoundId
  BY <1>1
<1>4. From(head) \in Nat /\ rounds'[latestRoundId'].updatedAt \notin From(head) .. head
  BY <1>1, ConsumersAssumption DEF From
<1>5. \A id : /\ id \in Window(head)' <=> id \in Window(head)
              /\ \A d : id \in RoundsWith(d, From(head), head)'
                          <=> id \in RoundsWith(d, From(head), head)
  BY <1>2, <1>3, <1>4 DEF Window, RoundsWith, From
<1>6. \A id \in Window(head) : id \in 1 .. latestRoundId
  BY DEF Window
<1>7. \A d : RoundsWith(d, From(head), head)' = RoundsWith(d, From(head), head)
  <2> TAKE d
  <2>1. \A id : id \in RoundsWith(d, From(head), head)' <=> id \in RoundsWith(d, From(head), head)
    BY <1>5
  <2> QED BY <2>1
<1>8. Window(head)' = Window(head)
  BY <1>5
<1> QED BY <1>2, <1>6, <1>7, <1>8

(* Whatever the agent publishes meanwhile, the request goes on as before.  *)
LEMMA ReportKeepsTimeline ==
  ASSUME FeedInv, TimelineInv, AgentReports PROVE TimelineInv'
<1>1. UNCHANGED timeline /\ UNCHANGED now
  BY ReportsAppend DEF FeedInv
<1>2. timeline.head \in Nat
  BY DEF TimelineInv, TimelineType
<1>3. CASE timeline.step = "idle"
  BY <1>1, <1>3 DEF TimelineInv
<1>4. CASE timeline.step # "idle"
  <2>1. PICK head \in Nat : head = timeline.head
    BY <1>2
  <2>2. head < now
    BY <1>4, <2>1 DEF TimelineInv
  <2>3. /\ Window(head)' = Window(head)
        /\ \A d : RoundsWith(d, From(head), head)' = RoundsWith(d, From(head), head)
        /\ \A id \in Window(head) : rounds'[id] = rounds[id]
    BY <2>2, WindowStays
  <2>4. timeline.step = "done" => Shows(timeline.entries, Window(head))'
    <3>1. SUFFICES ASSUME timeline.step = "done" PROVE Shows(timeline.entries, Window(head))'
      OBVIOUS
    <3>2. Shows(timeline.entries, Window(head))
      BY <2>1, <3>1 DEF TimelineInv
    <3> QED BY <1>1, <2>3, <3>2 DEF Shows
  <2> QED BY <1>1, <2>1, <2>2, <2>3, <2>4 DEF TimelineInv
<1> QED BY <1>3, <1>4

(* The steps of the request itself.                                        *)
LEMMA RequestKeepsTimeline ==
  ASSUME FeedInv, TimelineInv, Timeline PROVE TimelineInv'
<1>0. UNCHANGED <<latestRoundId, rounds, now>>
  BY DEF Timeline, feedVars
<1>1. now \in Nat /\ timeline \in TimelineType
  BY FeedAssumption DEF FeedInv, FeedTypeOK, TimelineInv
<1>2. \A d, head : RoundsWith(d, From(head), head) \in SUBSET RoundIds
  <2>1. 1 .. latestRoundId \subseteq RoundIds
    BY FeedAssumption DEF FeedInv, FeedTypeOK, RoundIds
  <2> QED BY <2>1 DEF RoundsWith
<1>3. CASE ReadHead
  <2>1. now - 1 \in Nat /\ now - 1 < now
    BY <1>1, <1>3 DEF ReadHead
  <2>2. timeline' = [step |-> "query", head |-> now - 1, priced |-> {}, refused |-> {},
                     asked |-> {}, entries |-> <<>>]
    BY <1>3 DEF ReadHead, NoTimeline
  <2>3. timeline' \in TimelineType
    BY <2>1, <2>2 DEF TimelineType
  <2> QED BY <1>0, <2>1, <2>2, <2>3 DEF TimelineInv
<1>4. ASSUME NEW d \in {"PRICED", "REFUSED"}, QueryLogs(d) PROVE TimelineInv'
  <2>1. PICK logs : logs = RoundsWith(d, From(timeline.head), timeline.head)
    OBVIOUS
  <2>2. /\ timeline.step = "query"
        /\ timeline' = [timeline EXCEPT !.asked = @ \cup {d},
                          !.priced = IF d = "PRICED" THEN logs ELSE @,
                          !.refused = IF d = "REFUSED" THEN logs ELSE @]
    BY <1>4, <2>1 DEF QueryLogs
  <2>3. logs \in SUBSET RoundIds
    BY <1>2, <2>1
  <2>4. /\ timeline' \in TimelineType /\ timeline'.step = "query"
        /\ timeline'.head = timeline.head /\ timeline'.asked = timeline.asked \cup {d}
        /\ timeline'.priced = IF d = "PRICED" THEN logs ELSE timeline.priced
        /\ timeline'.refused = IF d = "REFUSED" THEN logs ELSE timeline.refused
    BY <1>1, <2>2, <2>3 DEF TimelineType
  <2>5. \A e : RoundsWith(e, From(timeline.head), timeline.head)'
                 = RoundsWith(e, From(timeline.head), timeline.head)
    BY <1>0, <2>4 DEF RoundsWith, From
  <2>6. PICK p, r : /\ p = RoundsWith("PRICED", From(timeline.head), timeline.head)
                    /\ r = RoundsWith("REFUSED", From(timeline.head), timeline.head)
    OBVIOUS
  <2>7. /\ "PRICED" \in timeline.asked => timeline.priced = p
        /\ "REFUSED" \in timeline.asked => timeline.refused = r
        /\ timeline.head < now
    BY <2>2, <2>6 DEF TimelineInv
  <2>8. /\ "PRICED" \in timeline'.asked => timeline'.priced = p
        /\ "REFUSED" \in timeline'.asked => timeline'.refused = r
    BY <2>1, <2>4, <2>6, <2>7
  <2> QED BY <1>0, <2>4, <2>5, <2>6, <2>7, <2>8 DEF TimelineInv
<1>5. CASE MergeLogs
  <2>1. /\ timeline.step = "query" /\ timeline.head < now
        /\ timeline.priced \cup timeline.refused = Window(timeline.head)
    BY <1>5, LogsFillWindow DEF MergeLogs, TimelineInv
  <2>2. PICK ids, sorted : ids = Window(timeline.head) /\ sorted = Sorted(ids)
    OBVIOUS
  <2>3. PICK entries : entries = SubSeq(sorted, 1, IF Len(sorted) < Slice THEN Len(sorted) ELSE Slice)
    OBVIOUS
  <2>4. timeline' = [timeline EXCEPT !.step = "done", !.entries = entries]
    BY <1>5, <2>1, <2>2, <2>3 DEF MergeLogs
  <2>5. ids \in SUBSET (1 .. latestRoundId)
    BY <2>2 DEF Window
  <2>6. Shows(entries, ids) /\ entries \in Seq(ids)
    BY <2>2, <2>3, <2>5, CutShows
  <2>7. entries \in Seq(RoundIds)
    <3>1. ids \subseteq RoundIds
      BY <2>5, FeedAssumption DEF FeedInv, FeedTypeOK, RoundIds
    <3> QED BY <2>6, <3>1
  <2>8. /\ timeline' \in TimelineType /\ timeline'.step = "done"
        /\ timeline'.head = timeline.head /\ timeline'.entries = entries
    BY <1>1, <2>4, <2>7 DEF TimelineType
  <2>9. Shows(timeline.entries, Window(timeline.head))'
    <3>1. Window(timeline.head)' = ids
      BY <1>0, <2>2, <2>8 DEF Window, From
    <3> QED BY <1>0, <2>6, <2>8, <3>1 DEF Shows
  <2> QED BY <1>0, <2>1, <2>8, <2>9 DEF TimelineInv
<1> QED BY <1>3, <1>4, <1>5 DEF Timeline

(* Everyone else leaves request and history alone, and time moves on.      *)
LEMMA OthersKeepTimeline ==
  ASSUME FeedInv, TimelineInv, [ConsumersNext]_consumerVars, ~AgentReports, ~Timeline
  PROVE  TimelineInv'
<1>1. UNCHANGED <<latestRoundId, rounds, timeline>> /\ (now' = now \/ now' = now + 1)
  BY DEF ConsumersNext, BlockEnds, AdvanceTime, User, Read, consumerVars, feedVars
<1>2. now \in Nat /\ timeline.head \in Nat
  BY FeedAssumption DEF FeedInv, FeedTypeOK, TimelineInv, TimelineType
<1>3. timeline.head < now => timeline.head < now'
  BY <1>1, <1>2
<1>4. /\ \A d, from, to : RoundsWith(d, from, to)' = RoundsWith(d, from, to)
      /\ Shows(timeline.entries, Window(timeline.head))' <=> Shows(timeline.entries, Window(timeline.head))
  BY <1>1 DEF RoundsWith, Shows, Window, From
<1> QED BY <1>1, <1>3, <1>4 DEF TimelineInv, From

(* Two queries, a merge and a cut, and rounds published all the while: the *)
(* list is a gapless end of the window, newest first.                      *)
THEOREM TimelinesAreWhole == ConsumersSpec => []TimelineHasNoGap
<1>1. ConsumersInit => TimelineInv
  BY DEF ConsumersInit, TimelineInv, TimelineType, NoTimeline
<1>2. FeedInv /\ TimelineInv /\ [ConsumersNext]_consumerVars => TimelineInv'
  BY ReportKeepsTimeline, RequestKeepsTimeline, OthersKeepTimeline
<1>3. TimelineInv => TimelineHasNoGap
  BY DEF TimelineInv, TimelineHasNoGap, Shows, Window
<1> QED BY <1>1, <1>2, <1>3, FeedInvariance, PTL DEF ConsumersSpec
=============================================================================
