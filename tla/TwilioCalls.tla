---------------------------- MODULE TwilioCalls ----------------------------
(***************************************************************************)
(* The Twilio endpoints and the call registry                              *)
(* (app/telephony/twilio_handler.py, twilio_stream.py, stream_auth.py,     *)
(* twilio_validation.py, session_registry.py).                             *)
(*                                                                         *)
(* The webhook hands out signed stream tokens; a Media Streams connection  *)
(* presents one, and then drives a CallSession (module CallSession, here   *)
(* only its coarse state) and the registry of active calls.  The event     *)
(* loop switches between connections at receive_text, feed_mulaw (which    *)
(* waits for the call's lock) and stop; the registry's lock is never held  *)
(* across a suspension, so its operations are atomic.                      *)
(***************************************************************************)
EXTENDS Naturals, FiniteSets

CONSTANTS Conns,          \* Media Streams connections
          CallSids,       \* Twilio call SIDs
          NoSid,          \* "": no call SID
          MaxCalls,       \* VOICE_MAX_CONCURRENT_CALLS
          Ttl,            \* TWILIO_STREAM_TOKEN_TTL_SECONDS
          IdleTimeout,    \* VOICE_IDLE_TIMEOUT_SECONDS
          AuthConfigured, \* TWILIO_AUTH_TOKEN is set
          Strict,         \* production or staging
          MaxTime         \* bound on the clock

ASSUME CallsAssumption == /\ MaxCalls \in Nat /\ Ttl \in Nat /\ IdleTimeout \in Nat
                          /\ MaxTime \in Nat
                          /\ AuthConfigured \in BOOLEAN /\ Strict \in BOOLEAN
                          /\ NoSid \notin CallSids
                          /\ IsFiniteSet(CallSids)

VARIABLES now,        \* the clock, in seconds
          tokens,     \* stream tokens signed so far
          up,         \* the peer and the socket of a connection are there
          phase,      \* where the endpoint's coroutine is
          expected,   \* call_sid of the query string
          session,    \* call_sid of the TwilioStreamSession, or None
          call,       \* the CallSession, or None
          registry,   \* CallSessionRegistry._sessions
          stopped     \* history: connections that have handled a stop event

vars == <<now, tokens, up, phase, expected, session, call, registry, stopped>>

-----------------------------------------------------------------------------
None   == [sid |-> NoSid, state |-> "none"]
Sid    == CallSids \cup {NoSid}
Token  == [sid : CallSids, at : 0..MaxTime]
Record == [conn : Conns, beat : 0..MaxTime, state : {"streaming", "connecting", "live"}]
Phases == {"new", "receiving", "feeding", "stopping", "leaving", "closed"}

Registered == DOMAIN registry

(* Types: the registry maps call SIDs to records.                          *)
TypeOK ==
  /\ now \in 0..MaxTime
  /\ tokens \subseteq Token
  /\ up \in [Conns -> BOOLEAN]
  /\ phase \in [Conns -> Phases]
  /\ expected \in [Conns -> Sid]
  /\ session \in [Conns -> Sid]
  /\ call \in [Conns -> [sid : Sid, state : {"none", "connecting", "live", "ended"}]]
  /\ registry \in UNION {[S -> Record] : S \in SUBSET CallSids}
  /\ stopped \subseteq Conns

Init == /\ now = 0 /\ tokens = {} /\ stopped = {}
        /\ up       = [c \in Conns |-> TRUE]
        /\ phase    = [c \in Conns |-> "new"]
        /\ expected = [c \in Conns |-> NoSid]
        /\ session  = [c \in Conns |-> NoSid]
        /\ call     = [c \in Conns |-> None]
        /\ registry = [s \in {} |-> 0]

-----------------------------------------------------------------------------
(* The registry.                                                            *)
AtLimit_OneMore == Cardinality(Registered) > MaxCalls
AtLimit == Cardinality(Registered) >= MaxCalls

Put(s, r) == [t \in Registered \cup {s} |-> IF t = s THEN r ELSE registry[t]]

register(c, s) == registry' = Put(s, [conn |-> c, beat |-> now, state |-> "streaming"])

unregister_Forgotten(S) == UNCHANGED registry
unregister(S) == registry' = [t \in Registered \ S |-> registry[t]]

(* heartbeat, then update_state with the state of the calling session.      *)
heartbeat(s, st) ==
  registry' = [t \in Registered |->
                 IF t = s THEN [registry[t] EXCEPT !.beat = now, !.state = st] ELSE registry[t]]

(* cleanup_zombies.  Nothing in the application calls it; it is here so     *)
(* that what is shown of the registry also holds with a sweeper.            *)
cleanup_zombies ==
  /\ unregister({s \in Registered : now - registry[s].beat > IdleTimeout})
  /\ UNCHANGED <<now, tokens, up, phase, expected, session, call, stopped>>

-----------------------------------------------------------------------------
(* The webhook: require_twilio_signature, then TwiML with a signed URL.     *)
SignatureAccepted(signed) == IF AuthConfigured THEN signed ELSE ~Strict

twilio_inbound(s, signed) ==
  /\ SignatureAccepted(signed)
  /\ tokens' = tokens \cup {[sid |-> s, at |-> now]}
  /\ UNCHANGED <<now, up, phase, expected, session, call, registry, stopped>>

(* verify_stream_token: only a token this server signed for this call, and  *)
(* not older than the TTL, is accepted.                                     *)
verify_stream_token(s, t) == t \in tokens /\ t.sid = s /\ now - t.at <= Ttl

(* The socket is opened with a call_sid and a token in its query string,    *)
(* or with neither.  A refused one is closed with 4403 before accept.       *)
Connect(c, s, t) ==
  /\ phase[c] = "new" /\ up[c]
  /\ phase' = [phase EXCEPT ![c] =
                 IF AuthConfigured /\ ~(s # NoSid /\ verify_stream_token(s, t))
                 THEN "closed" ELSE "receiving"]
  /\ expected' = [expected EXCEPT ![c] = s]
  /\ UNCHANGED <<now, tokens, up, session, call, registry, stopped>>

-----------------------------------------------------------------------------
(* One received message.  handle_twilio_event decides the new session; the  *)
(* endpoint then creates, feeds or tears down the CallSession.              *)
Receiving(c) == phase[c] = "receiving" /\ up[c]

(* "start" with a SID other than the token's, while there is no call.       *)
StartMismatch(c, s) ==
  /\ Receiving(c) /\ call[c] = None
  /\ expected[c] # NoSid /\ s # expected[c]
  /\ session' = [session EXCEPT ![c] = s]
  /\ phase' = [phase EXCEPT ![c] = "closed"]
  /\ up' = [up EXCEPT ![c] = FALSE]
  /\ UNCHANGED <<now, tokens, expected, call, registry, stopped>>

(* "start" of a new call.  CallSession.start may raise (no STT, LLM or TTS  *)
(* provider can be built), and register raises at the limit; both are       *)
(* logged, and the endpoint keeps the CallSession it has made.              *)
StartAllowed_Any(c, s) == TRUE
StartAllowed(c, s) == expected[c] = NoSid \/ s = expected[c]

StartCall(c, s, ok) ==
  /\ Receiving(c) /\ call[c] = None /\ StartAllowed(c, s)
  /\ session' = [session EXCEPT ![c] = s]
  /\ call' = [call EXCEPT ![c] = [sid |-> s, state |-> IF ok THEN "live" ELSE "connecting"]]
  /\ IF ok /\ ~AtLimit THEN register(c, s) ELSE UNCHANGED registry
  /\ UNCHANGED <<now, tokens, up, phase, expected, stopped>>

(* A further "start" replaces the stream's session and nothing else.        *)
StartAgain(c, s) ==
  /\ Receiving(c) /\ call[c] # None
  /\ session' = [session EXCEPT ![c] = s]
  /\ UNCHANGED <<now, tokens, up, phase, expected, call, registry, stopped>>

(* "media" with a payload that decodes: heartbeat, then feed_mulaw waits    *)
(* for the call's lock.  Without a session, or undecodable, it is dropped.  *)
Media(c) ==
  /\ Receiving(c) /\ session[c] # NoSid /\ call[c] # None
  /\ heartbeat(call[c].sid, call[c].state)
  /\ phase' = [phase EXCEPT ![c] = "feeding"]
  /\ UNCHANGED <<now, tokens, up, expected, session, call, stopped>>

feed_mulaw(c) ==
  /\ phase[c] = "feeding"
  /\ phase' = [phase EXCEPT ![c] = "receiving"]
  /\ UNCHANGED <<now, tokens, up, expected, session, call, registry, stopped>>

(* "stop", spelt as Twilio spells it: the call is stopped and the session   *)
(* forgotten; the registry is not told.                                     *)
StopEvent(c) ==
  /\ Receiving(c)
  /\ session' = [session EXCEPT ![c] = NoSid]
  /\ stopped' = stopped \cup {c}
  /\ IF call[c] = None
     THEN UNCHANGED <<phase, call>>
     ELSE /\ phase' = [phase EXCEPT ![c] = "stopping"]
          /\ call' = [call EXCEPT ![c].state = "ended"]
  /\ UNCHANGED <<now, tokens, up, expected, registry>>

(* "stop" in any other case or with blanks around it is a stop only for     *)
(* handle_twilio_event: the call is unregistered, then stopped.             *)
StopVariant(c) ==
  /\ Receiving(c)
  /\ session' = [session EXCEPT ![c] = NoSid]
  /\ IF call[c] = None
     THEN UNCHANGED <<phase, call, registry>>
     ELSE /\ phase' = [phase EXCEPT ![c] = "stopping"]
          /\ call' = [call EXCEPT ![c].state = "ended"]
          /\ unregister({call[c].sid})
  /\ UNCHANGED <<now, tokens, up, expected, stopped>>

(* The peer closes, the network fails, or the silence watchdog closes the   *)
(* socket (silence_hangup).  The endpoint sees it at its next receive: it   *)
(* unregisters the call and stops it.                                       *)
Lost(c) ==
  /\ up[c] /\ phase[c] \notin {"new", "closed"}
  /\ up' = [up EXCEPT ![c] = FALSE]
  /\ UNCHANGED <<now, tokens, phase, expected, session, call, registry, stopped>>

Disconnect(c) ==
  /\ phase[c] = "receiving" /\ ~up[c]
  /\ IF call[c] = None
     THEN /\ phase' = [phase EXCEPT ![c] = "closed"]
          /\ UNCHANGED <<call, registry>>
     ELSE /\ phase' = [phase EXCEPT ![c] = "leaving"]
          /\ call' = [call EXCEPT ![c].state = "ended"]
          /\ unregister({call[c].sid})
  /\ UNCHANGED <<now, tokens, up, expected, session, stopped>>

(* CallSession.stop returns (it never raises), if it does: see CallSession. *)
StopReturns(c) ==
  /\ phase[c] \in {"stopping", "leaving"}
  /\ phase' = [phase EXCEPT ![c] = IF phase[c] = "leaving" THEN "closed" ELSE "receiving"]
  /\ call' = [call EXCEPT ![c] = None]
  /\ UNCHANGED <<now, tokens, up, expected, session, registry, stopped>>

Tick == /\ now < MaxTime
        /\ now' = now + 1
        /\ UNCHANGED <<tokens, up, phase, expected, session, call, registry, stopped>>

-----------------------------------------------------------------------------
Endpoint(c) ==
  \/ \E s \in Sid, t \in Token : Connect(c, s, t)
  \/ \E s \in CallSids : \/ StartMismatch(c, s)
                         \/ \E ok \in BOOLEAN : StartCall(c, s, ok)
                         \/ StartAgain(c, s)
  \/ Media(c) \/ feed_mulaw(c) \/ StopEvent(c) \/ StopVariant(c)
  \/ Lost(c) \/ Disconnect(c) \/ StopReturns(c)

Webhook == \E s \in CallSids, signed \in BOOLEAN : twilio_inbound(s, signed)

Next == Webhook \/ (\E c \in Conns : Endpoint(c)) \/ cleanup_zombies \/ Tick

Spec == Init /\ [][Next]_vars

-----------------------------------------------------------------------------
(* No stream drives a call it has no token for: whatever the order of       *)
(* starts, stops and reconnections, with an auth token configured a running *)
(* CallSession's SID is one the webhook has signed a token for, and the one *)
(* its own connection presented.                                            *)
CallIsAuthorised ==
  AuthConfigured =>
    \A c \in Conns : call[c] # None =>
      /\ call[c].sid = expected[c]
      /\ \E t \in tokens : t.sid = call[c].sid

(* A record without a running call is explained by a stop event: a lost     *)
(* connection, however it is lost, never leaves its record behind; only the *)
(* endpoint's own path for "stop", which does not unregister, does.         *)
RecordExplained ==
  \A s \in Registered :
    LET c == registry[s].conn
    IN  (call[c].sid = s /\ call[c].state = "live") \/ c \in stopped

(* The registry implements a bounded set of slots: it never holds more      *)
(* than MaxCalls records, and grows only when one is free.                  *)
Slots == INSTANCE CallSlots WITH taken <- Registered

SlotsSpec == Slots!Spec

=============================================================================
