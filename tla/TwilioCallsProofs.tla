------------------------- MODULE TwilioCallsProofs -------------------------
(***************************************************************************)
(* The safety properties of TwilioCalls and its refinement of CallSlots,   *)
(* proved for any number of connections, calls, slots and seconds, with    *)
(* and without an auth token.                                              *)
(***************************************************************************)
EXTENDS TwilioCalls, FiniteSetTheorems, TLAPS

(* The inductive invariant *)

\* A call that is there has a SID and has been created.
CallShape ==
  \A c \in Conns : \/ call[c] = None
                   \/ call[c].sid \in CallSids /\ call[c].state # "none"

\* A connection has no call before it is accepted and after it is closed; the
\* call has ended exactly while the endpoint waits for CallSession.stop.
CallPhase ==
  \A c \in Conns :
    /\ phase[c] \in {"new", "closed"} => call[c] = None
    /\ phase[c] \in {"stopping", "leaving"} <=> call[c].state = "ended"

\* With an auth token configured, an accepted connection presented a SID that
\* the webhook has signed.
Admitted ==
  AuthConfigured =>
    \A c \in Conns : phase[c] \notin {"new", "closed"} =>
      expected[c] # NoSid /\ \E t \in tokens : t.sid = expected[c]

Inv == TypeOK /\ CallShape /\ CallPhase /\ Admitted /\ CallIsAuthorised /\ RecordExplained

-----------------------------------------------------------------------------
(* The registry's operations *)

LEMMA RecordType ==
  TypeOK => Registered \in SUBSET CallSids /\ \A s \in Registered : registry[s].conn \in Conns
  <1> SUFFICES ASSUME TypeOK
               PROVE  Registered \in SUBSET CallSids
                        /\ \A s \in Registered : registry[s].conn \in Conns
    OBVIOUS
  <1>1. Registered \in SUBSET CallSids /\ \A s \in Registered : registry[s] \in Record
    BY DEF TypeOK, Registered
  <1> QED BY <1>1 DEF Record

\* What the registry is afterwards, record by record.
LEMMA UnregisterRecords ==
  ASSUME TypeOK, NEW S, unregister(S)
  PROVE  /\ registry' \in UNION {[T -> Record] : T \in SUBSET CallSids}
         /\ Registered' = Registered \ S
         /\ \A s \in Registered' : s \in Registered /\ registry'[s] = registry[s]
  <1>1. registry' = [t \in Registered \ S |-> registry[t]]
    BY DEF unregister
  <1>2. Registered \in SUBSET CallSids /\ \A t \in Registered : registry[t] \in Record
    BY DEF TypeOK, Registered
  <1>3. registry' \in [Registered \ S -> Record] /\ Registered \ S \in SUBSET CallSids
    BY <1>1, <1>2
  <1> QED BY <1>1, <1>3 DEF Registered

LEMMA RegisterRecords ==
  ASSUME TypeOK, NEW c \in Conns, NEW s \in CallSids, register(c, s)
  PROVE  /\ registry' \in UNION {[T -> Record] : T \in SUBSET CallSids}
         /\ Registered' = Registered \cup {s}
         /\ registry'[s].conn = c
         /\ \A t \in Registered' : t # s => t \in Registered /\ registry'[t] = registry[t]
  <1> DEFINE r == [conn |-> c, beat |-> now, state |-> "streaming"]
  <1>1. r \in Record /\ r.conn = c
    BY DEF TypeOK, Record
  <1>2. registry' = [t \in Registered \cup {s} |-> IF t = s THEN r ELSE registry[t]]
    BY DEF register, Put
  <1> HIDE DEF r
  <1>3. Registered \cup {s} \in SUBSET CallSids
    BY DEF TypeOK, Registered
  <1>4. \A t \in Registered : registry[t] \in Record
    BY DEF TypeOK, Registered
  <1>5. registry' \in [Registered \cup {s} -> Record]
    BY <1>1, <1>2, <1>4
  <1> QED BY <1>1, <1>2, <1>3, <1>5 DEF Registered

LEMMA HeartbeatRecords ==
  ASSUME TypeOK, NEW s, NEW st \in {"streaming", "connecting", "live"}, heartbeat(s, st)
  PROVE  /\ registry' \in UNION {[T -> Record] : T \in SUBSET CallSids}
         /\ Registered' = Registered
         /\ \A t \in Registered : registry'[t].conn = registry[t].conn
  <1>1. \A t \in Registered : registry[t] \in Record
    BY DEF TypeOK, Registered
  <1>2. \A t \in Registered : /\ [registry[t] EXCEPT !.beat = now, !.state = st] \in Record
                              /\ [registry[t] EXCEPT !.beat = now, !.state = st].conn
                                   = registry[t].conn
    BY <1>1 DEF TypeOK, Record
  <1>3. registry' = [t \in Registered |->
          IF t = s THEN [registry[t] EXCEPT !.beat = now, !.state = st] ELSE registry[t]]
    BY DEF heartbeat
  <1>4. registry' \in [Registered -> Record]
    BY <1>1, <1>2, <1>3
  <1>5. Registered \in SUBSET CallSids
    BY DEF TypeOK, Registered
  <1> QED BY <1>2, <1>3, <1>4, <1>5 DEF Registered

-----------------------------------------------------------------------------
LEMMA InitInv == Init => Inv
  <1> SUFFICES ASSUME Init PROVE Inv
    OBVIOUS
  <1> USE CallsAssumption DEF CallsAssumption, Init, None
  <1>1. registry \in [{} -> Record] /\ Registered = {}
    BY DEF Registered
  <1>2. TypeOK
    BY <1>1 DEF TypeOK, Phases, Sid
  <1>3. CallShape /\ CallPhase /\ Admitted /\ CallIsAuthorised
    BY DEF CallShape, CallPhase, Admitted, CallIsAuthorised
  <1>4. RecordExplained
    BY <1>1 DEF RecordExplained
  <1> QED BY <1>2, <1>3, <1>4 DEF Inv

\* The steps of a connection that leave registry and calls alone.
QuietStep(c) ==
  \/ \E s \in Sid, t \in Token : Connect(c, s, t)
  \/ \E s \in CallSids : StartMismatch(c, s) \/ StartAgain(c, s)
  \/ feed_mulaw(c) \/ Lost(c)

LEMMA QuietInv == ASSUME Inv, NEW c \in Conns, QuietStep(c) PROVE Inv'
  <1> USE DEF Inv
  <1>1. TypeOK'
    <2>1. UNCHANGED <<now, tokens, call, registry, stopped>>
      BY DEF QuietStep, Connect, StartMismatch, StartAgain, feed_mulaw, Lost
    <2>2. phase' \in [Conns -> Phases]
      BY DEF QuietStep, Connect, StartMismatch, StartAgain, feed_mulaw, Lost, TypeOK, Phases
    <2>3. expected' \in [Conns -> Sid] /\ session' \in [Conns -> Sid]
      BY DEF QuietStep, Connect, StartMismatch, StartAgain, feed_mulaw, Lost, TypeOK, Sid
    <2>4. up' \in [Conns -> BOOLEAN]
      BY DEF QuietStep, Connect, StartMismatch, StartAgain, feed_mulaw, Lost, TypeOK
    <2> QED BY <2>1, <2>2, <2>3, <2>4 DEF TypeOK
  <1>2. CallShape' /\ CallPhase'
    BY DEF QuietStep, Connect, StartMismatch, StartAgain, feed_mulaw, Lost, TypeOK,
       CallShape, CallPhase, Receiving, None, Phases
  <1>3. Admitted' /\ CallIsAuthorised'
    <2>1. ASSUME NEW s \in Sid, NEW t \in Token, Connect(c, s, t)
          PROVE  Admitted' /\ CallIsAuthorised'
      BY <2>1 DEF Connect, TypeOK, verify_stream_token, Admitted, CallIsAuthorised, CallPhase
    <2>2. CASE \E s \in CallSids : StartMismatch(c, s) \/ StartAgain(c, s)
      BY <2>2 DEF StartMismatch, StartAgain, TypeOK, Admitted, CallIsAuthorised, Receiving
    <2>3. CASE feed_mulaw(c) \/ Lost(c)
      BY <2>3 DEF feed_mulaw, Lost, TypeOK, Admitted, CallIsAuthorised
    <2> QED BY <2>1, <2>2, <2>3 DEF QuietStep
  <1>4. RecordExplained'
    BY DEF QuietStep, Connect, StartMismatch, StartAgain, feed_mulaw, Lost, RecordExplained,
       Registered
  <1> QED BY <1>1, <1>2, <1>3, <1>4

LEMMA StartCallInv ==
  ASSUME Inv, NEW c \in Conns, NEW s \in CallSids, NEW ok \in BOOLEAN, StartCall(c, s, ok)
  PROVE  Inv'
  <1> USE DEF Inv
  <1>1. /\ call' = [call EXCEPT ![c] = [sid |-> s, state |-> IF ok THEN "live" ELSE "connecting"]]
        /\ Receiving(c) /\ call[c] = None /\ StartAllowed(c, s)
        /\ UNCHANGED <<now, tokens, up, phase, expected, stopped>>
        /\ session' = [session EXCEPT ![c] = s]
    BY DEF StartCall
  <1>2. /\ call' \in [Conns -> [sid : Sid, state : {"none", "connecting", "live", "ended"}]]
        /\ call'[c].sid = s /\ call'[c].state \in {"live", "connecting"}
        /\ ok => call'[c].state = "live"
        /\ \A d \in Conns \ {c} : call'[d] = call[d]
    BY <1>1 DEF TypeOK, Sid
  <1>3. CallShape' /\ CallPhase'
    BY <1>1, <1>2, CallsAssumption DEF CallsAssumption, CallShape, CallPhase, Receiving, None
  <1>4. Admitted' /\ CallIsAuthorised'
    BY <1>1, <1>2 DEF Admitted, CallIsAuthorised, StartAllowed, Receiving
  \* c has no call yet, so its records so far are those it has been stopped with.
  <1>5. \A t \in Registered : registry[t].conn = c => c \in stopped
    BY <1>1, CallsAssumption DEF CallsAssumption, RecordExplained, None, TypeOK, Registered
  <1>6. CASE ok /\ ~AtLimit
    <2>1. register(c, s)
      BY <1>6 DEF StartCall
    <2>2. TypeOK'
      BY <1>1, <1>2, <2>1, RegisterRecords DEF TypeOK, Sid
    <2>3. RecordExplained'
      <3> SUFFICES ASSUME NEW t \in Registered'
                   PROVE  LET d == registry'[t].conn
                          IN  (call'[d].sid = t /\ call'[d].state = "live") \/ d \in stopped'
        BY DEF RecordExplained
      <3>1. CASE t = s
        BY <1>2, <1>6, <2>1, <3>1, RegisterRecords
      <3>2. CASE t # s
        <4>1. t \in Registered /\ registry'[t] = registry[t] /\ registry[t].conn \in Conns
          BY <2>1, <3>2, RegisterRecords, RecordType
        <4> QED BY <1>1, <1>2, <1>5, <4>1 DEF RecordExplained
      <3> QED BY <3>1, <3>2
    <2> QED BY <1>3, <1>4, <2>2, <2>3
  <1>7. CASE ~(ok /\ ~AtLimit)
    <2>1. UNCHANGED registry
      BY <1>7 DEF StartCall
    <2>2. TypeOK'
      BY <1>1, <1>2, <2>1 DEF TypeOK, Sid
    <2>3. RecordExplained'
      BY <1>1, <1>2, <1>5, <2>1 DEF RecordExplained, TypeOK, Record, Registered
    <2> QED BY <1>3, <1>4, <2>2, <2>3
  <1> QED BY <1>6, <1>7

LEMMA MediaInv == ASSUME Inv, NEW c \in Conns, Media(c) PROVE Inv'
  <1> USE DEF Inv
  <1>1. call[c].state \in {"connecting", "live"}
    BY DEF Media, Receiving, TypeOK, CallShape, CallPhase
  <1>2. /\ registry' \in UNION {[T -> Record] : T \in SUBSET CallSids}
        /\ Registered' = Registered
        /\ \A t \in Registered : registry'[t].conn = registry[t].conn
    BY <1>1, HeartbeatRecords DEF Media
  <1>3. TypeOK'
    BY <1>2 DEF Media, TypeOK, Phases
  <1>4. CallShape' /\ CallPhase' /\ Admitted' /\ CallIsAuthorised'
    BY DEF Media, Receiving, TypeOK, CallShape, CallPhase, Admitted, CallIsAuthorised
  <1>5. RecordExplained'
    BY <1>2 DEF Media, RecordExplained
  <1> QED BY <1>3, <1>4, <1>5

\* The call ends: by a stop event, another spelling of it, or a disconnect.
EndsCall(c, place) ==
  /\ phase[c] = "receiving" /\ call[c] # None
  /\ phase' = [phase EXCEPT ![c] = place]
  /\ call' = [call EXCEPT ![c].state = "ended"]

LEMMA EndsCallInv ==
  ASSUME Inv, NEW c \in Conns, NEW place \in {"stopping", "leaving"}, EndsCall(c, place),
         UNCHANGED <<now, tokens, up, expected>>,
         session' \in [Conns -> Sid], stopped' \subseteq Conns, stopped \subseteq stopped',
         \/ unregister({call[c].sid})
         \/ UNCHANGED registry /\ c \in stopped'
  PROVE  Inv'
  <1> USE DEF Inv
  <1>1. /\ call' \in [Conns -> [sid : Sid, state : {"none", "connecting", "live", "ended"}]]
        /\ call'[c].sid = call[c].sid /\ call'[c].state = "ended"
        /\ \A d \in Conns \ {c} : call'[d] = call[d]
    BY DEF EndsCall, TypeOK
  <1>2. CallShape' /\ CallPhase' /\ Admitted' /\ CallIsAuthorised'
    BY <1>1 DEF EndsCall, TypeOK, Phases, CallShape, CallPhase, Admitted, CallIsAuthorised, None
  <1>3. CASE unregister({call[c].sid})
    <2>1. TypeOK'
      BY <1>1, <1>3, UnregisterRecords DEF EndsCall, TypeOK, Phases
    <2>2. RecordExplained'
      <3> SUFFICES ASSUME NEW t \in Registered'
                   PROVE  LET d == registry'[t].conn
                          IN  (call'[d].sid = t /\ call'[d].state = "live") \/ d \in stopped'
        BY DEF RecordExplained
      <3>1. /\ t \in Registered /\ t # call[c].sid
            /\ registry'[t] = registry[t] /\ registry[t].conn \in Conns
        BY <1>3, UnregisterRecords, RecordType
      <3> QED BY <1>1, <3>1 DEF RecordExplained
    <2> QED BY <1>2, <2>1, <2>2
  <1>4. CASE UNCHANGED registry /\ c \in stopped'
    <2>1. TypeOK'
      BY <1>1, <1>4 DEF EndsCall, TypeOK, Phases
    <2>2. RecordExplained'
      BY <1>1, <1>4 DEF RecordExplained, TypeOK, Record, Registered
    <2> QED BY <1>2, <2>1, <2>2
  <1> QED BY <1>3, <1>4

LEMMA StopReturnsInv == ASSUME Inv, NEW c \in Conns, StopReturns(c) PROVE Inv'
  <1> USE DEF Inv
  <1>1. TypeOK'
    BY DEF StopReturns, TypeOK, None, Phases, Sid
  <1>2. CallShape' /\ CallPhase' /\ Admitted' /\ CallIsAuthorised'
    BY DEF StopReturns, TypeOK, Phases, CallShape, CallPhase, Admitted, CallIsAuthorised, None
  <1>3. RecordExplained'
    BY DEF StopReturns, TypeOK, Record, Registered, CallPhase, RecordExplained
  <1> QED BY <1>1, <1>2, <1>3

LEMMA NextInv == Inv /\ [Next]_vars => Inv'
  <1> SUFFICES ASSUME Inv, [Next]_vars PROVE Inv'
    OBVIOUS
  <1>1. CASE Webhook
    <2> PICK s \in CallSids, signed \in BOOLEAN : twilio_inbound(s, signed)
      BY <1>1 DEF Webhook
    <2>1. tokens \subseteq tokens' /\ tokens' \subseteq Token
      BY DEF Inv, twilio_inbound, TypeOK, Token
    <2>2. UNCHANGED <<now, up, phase, expected, session, call, registry, stopped>>
      BY DEF twilio_inbound
    <2> QED BY <2>1, <2>2 DEF Inv, TypeOK, CallShape, CallPhase, Admitted, CallIsAuthorised,
               RecordExplained, Registered
  <1>2. ASSUME NEW c \in Conns, Endpoint(c) PROVE Inv'
    <2>1. CASE QuietStep(c)
      BY <2>1, QuietInv
    <2>2. ASSUME NEW s \in CallSids, NEW ok \in BOOLEAN, StartCall(c, s, ok) PROVE Inv'
      BY <2>2, StartCallInv
    <2>3. CASE Media(c)
      BY <2>3, MediaInv
    <2>4. CASE StopEvent(c)
      <3>1. CASE call[c] # None
        BY <2>4, <3>1, EndsCallInv DEF StopEvent, EndsCall, Receiving, Inv, TypeOK, Sid
      <3>2. CASE call[c] = None
        BY <2>4, <3>2 DEF StopEvent, Inv, TypeOK, Sid, CallShape, CallPhase, Admitted,
           CallIsAuthorised, RecordExplained, Registered
      <3> QED BY <3>1, <3>2
    <2>5. CASE StopVariant(c)
      <3>1. CASE call[c] # None
        BY <2>5, <3>1, EndsCallInv DEF StopVariant, EndsCall, Receiving, Inv, TypeOK, Sid
      <3>2. CASE call[c] = None
        BY <2>5, <3>2 DEF StopVariant, Inv, TypeOK, Sid, CallShape, CallPhase, Admitted,
           CallIsAuthorised, RecordExplained, Registered
      <3> QED BY <3>1, <3>2
    <2>6. CASE Disconnect(c)
      <3>1. CASE call[c] # None
        BY <2>6, <3>1, EndsCallInv DEF Disconnect, EndsCall, Inv, TypeOK
      <3>2. CASE call[c] = None
        BY <2>6, <3>2 DEF Disconnect, Inv, TypeOK, Phases, CallShape, CallPhase, Admitted,
           CallIsAuthorised, RecordExplained, Registered, None
      <3> QED BY <3>1, <3>2
    <2>7. CASE StopReturns(c)
      BY <2>7, StopReturnsInv
    <2> QED BY <1>2, <2>1, <2>2, <2>3, <2>4, <2>5, <2>6, <2>7 DEF Endpoint, QuietStep
  <1>3. CASE cleanup_zombies
    <2>1. PICK S : unregister(S)
      BY <1>3 DEF cleanup_zombies
    <2>2. UNCHANGED <<now, tokens, up, phase, expected, session, call, stopped>>
      BY <1>3 DEF cleanup_zombies
    <2> QED BY <2>1, <2>2, UnregisterRecords DEF Inv, TypeOK, CallShape, CallPhase, Admitted,
               CallIsAuthorised, RecordExplained
  <1>4. CASE Tick
    BY <1>4, CallsAssumption DEF CallsAssumption, Tick, Inv, TypeOK, CallShape, CallPhase, Admitted,
       CallIsAuthorised, RecordExplained, Registered
  <1>5. CASE UNCHANGED vars
    BY <1>5 DEF vars, Inv, TypeOK, CallShape, CallPhase, Admitted, CallIsAuthorised,
       RecordExplained, Registered
  <1> QED BY <1>1, <1>2, <1>3, <1>4, <1>5 DEF Next

-----------------------------------------------------------------------------
(* The theorems *)

\* Types, and the ties between a connection's phase and its call, for any
\* number of connections.
THEOREM Invariance == Spec => []Inv
  BY InitInv, NextInv, PTL DEF Spec

\* twilio_stream checks the token before it accepts and the SID of every start
\* event against it: no order of events, lost connections and expiring tokens
\* lets a stream drive a call that the webhook has not authorised.
THEOREM OnlyAuthorisedCalls == Spec => []CallIsAuthorised
  <1>1. Inv => CallIsAuthorised
    BY DEF Inv
  <1> QED BY <1>1, Invariance, PTL

\* A record outlives its call only after a stop event, which the endpoint
\* handles without unregistering.
THEOREM OnlyStopLeavesRecords == Spec => []RecordExplained
  <1>1. Inv => RecordExplained
    BY DEF Inv
  <1> QED BY <1>1, Invariance, PTL

-----------------------------------------------------------------------------
(* The refinement *)

LEMMA CountIsNat == TypeOK => IsFiniteSet(Registered) /\ Cardinality(Registered) \in Nat
  <1> SUFFICES ASSUME TypeOK PROVE IsFiniteSet(Registered) /\ Cardinality(Registered) \in Nat
    OBVIOUS
  <1>1. Registered \subseteq CallSids
    BY DEF TypeOK, Registered
  <1>2. IsFiniteSet(Registered)
    BY <1>1, FS_Subset, CallsAssumption DEF CallsAssumption
  <1> QED BY <1>2, FS_CardinalityType

LEMMA UnregisterGivesBack ==
  ASSUME TypeOK, NEW S, unregister(S) PROVE Slots!Next
  <1>1. Registered' = Registered \ (Registered \cap S) /\ Registered \cap S \in SUBSET Registered
    BY UnregisterRecords
  <1> QED BY <1>1 DEF Slots!Next, Slots!GiveBack

\* Every step of the endpoint, the webhook, the sweeper and the clock takes one
\* free slot, gives some back, or leaves them alone.
LEMMA StepSimulation == Inv /\ [Next]_vars => [Slots!Next]_Registered
  <1> SUFFICES ASSUME Inv, [Next]_vars PROVE [Slots!Next]_Registered
    OBVIOUS
  <1>0. TypeOK
    BY DEF Inv
  <1>1. CASE UNCHANGED registry
    BY <1>1 DEF Registered
  <1>2. CASE \E S : unregister(S)
    BY <1>0, <1>2, UnregisterGivesBack
  <1>3. ASSUME NEW c \in Conns, NEW s \in CallSids, NEW ok \in BOOLEAN, StartCall(c, s, ok)
        PROVE  [Slots!Next]_Registered
    <2>1. CASE register(c, s) /\ ~AtLimit
      <3>1. Cardinality(Registered) < MaxCalls
        BY <1>0, <2>1, CountIsNat, CallsAssumption DEF AtLimit, CallsAssumption
      <3>2. Registered' = Registered \cup {s}
        BY <1>0, <2>1, RegisterRecords
      <3>3. Slots!Take(s)
        BY <3>1, <3>2 DEF Slots!Take, Slots!Cardinality, Cardinality, Slots!IsFiniteSet, IsFiniteSet
      <3> QED BY <3>3 DEF Slots!Next
    <2>2. CASE UNCHANGED registry
      BY <2>2, <1>1
    <2> QED BY <1>3, <2>1, <2>2 DEF StartCall
  <1>4. ASSUME NEW c \in Conns, Media(c) PROVE [Slots!Next]_Registered
    <2>1. call[c].state \in {"connecting", "live"}
      BY <1>4 DEF Inv, Media, Receiving, TypeOK, CallShape, CallPhase
    <2>2. Registered' = Registered
      BY <1>0, <1>4, <2>1, HeartbeatRecords DEF Media
    <2> QED BY <2>2
  <1>5. ASSUME NEW c \in Conns, Endpoint(c) PROVE [Slots!Next]_Registered
    <2>1. CASE QuietStep(c) \/ StopEvent(c) \/ StopReturns(c)
      BY <1>1, <2>1 DEF QuietStep, Connect, StartMismatch, StartAgain, feed_mulaw, Lost, StopEvent,
         StopReturns
    <2>2. CASE StopVariant(c) \/ Disconnect(c)
      BY <1>1, <1>2, <2>2 DEF StopVariant, Disconnect
    <2> QED BY <1>3, <1>4, <1>5, <2>1, <2>2 DEF Endpoint, QuietStep
  <1>6. CASE Webhook \/ Tick \/ UNCHANGED vars
    BY <1>1, <1>6 DEF Webhook, twilio_inbound, Tick, vars
  <1>7. CASE cleanup_zombies
    BY <1>2, <1>7 DEF cleanup_zombies
  <1> QED BY <1>5, <1>6, <1>7 DEF Next

\* The registry of calls implements the bounded set of slots.
THEOREM RegistryImplementsSlots == Spec => SlotsSpec
  <1>1. Init => Slots!Init
    BY DEF Init, Slots!Init, Registered
  <1> QED BY <1>1, Invariance, StepSimulation, PTL DEF Spec, SlotsSpec, Slots!Spec

\* So it never holds more records than VOICE_MAX_CONCURRENT_CALLS.
THEOREM RegistryBounded == Spec => [](Cardinality(Registered) <= MaxCalls)
  <1> DEFINE Bounded == Cardinality(Registered) <= MaxCalls
  <1>1. Init => Bounded
    <2> SUFFICES ASSUME Init PROVE Bounded
      OBVIOUS
    <2>1. Registered = {}
      BY DEF Init, Registered
    <2> QED BY <2>1, FS_EmptySet, CallsAssumption DEF CallsAssumption
  <1>2. Inv /\ Bounded /\ [Slots!Next]_Registered => Bounded'
    <2> SUFFICES ASSUME Inv, Bounded, [Slots!Next]_Registered PROVE Bounded'
      OBVIOUS
    <2>0. IsFiniteSet(Registered) /\ Cardinality(Registered) \in Nat /\ MaxCalls \in Nat
      BY CountIsNat, CallsAssumption DEF Inv, CallsAssumption
    <2>1. ASSUME NEW s \in CallSids, Slots!Take(s) PROVE Bounded'
      <3>1. Registered' = Registered \cup {s} /\ Cardinality(Registered) < MaxCalls
        BY <2>1 DEF Slots!Take, Slots!Cardinality, Cardinality, Slots!IsFiniteSet, IsFiniteSet
      <3>2. Cardinality(Registered \cup {s}) \in {Cardinality(Registered), Cardinality(Registered) + 1}
        BY <2>0, FS_AddElement
      <3> QED BY <2>0, <3>1, <3>2
    <2>2. ASSUME NEW S \in SUBSET Registered, Slots!GiveBack(S) PROVE Bounded'
      <3>1. Registered' \subseteq Registered
        BY <2>2 DEF Slots!GiveBack
      <3>2. Cardinality(Registered') <= Cardinality(Registered) /\ IsFiniteSet(Registered')
        BY <2>0, <3>1, FS_Subset
      <3> QED BY <2>0, <3>2, FS_CardinalityType
    <2>3. CASE UNCHANGED Registered
      BY <2>3
    <2> QED BY <2>1, <2>2, <2>3 DEF Slots!Next
  <1> QED BY <1>1, <1>2, Invariance, StepSimulation, PTL DEF Spec
=============================================================================
