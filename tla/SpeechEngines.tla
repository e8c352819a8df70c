---------------------------- MODULE SpeechEngines ----------------------------
(***************************************************************************)
(* The speech engines and the part of TTSConsumer._run that pulls their    *)
(* frames: ElevenLabs and OpenAI read an HTTP body in the reply's task and *)
(* cut it into frames (OpenAI's is resampled first); Polly reads on a      *)
(* thread that hands frames over through a queue; the mock makes frames    *)
(* (app/tts/providers/*.py, app/tts/streaming_engine.py).                  *)
(***************************************************************************)
EXTENDS PcmAudio

CONSTANTS Engines,      \* engine kinds
          ChunkSizes,   \* sizes of the chunks a body arrives in
          MaxBytes,     \* bound on the audio of one segment
          MaxSegments   \* bound on the segments of one reply

ASSUME SpeechAssumption ==
  /\ Engines \subseteq {"elevenlabs", "openai", "polly", "mock"}
  /\ ChunkSizes \subseteq Nat \ {0} /\ MaxBytes \in Nat /\ MaxSegments \in Nat

VARIABLES engine,     \* which engine
          segment,    \* the segment being spoken
          pc,         \* "waiting", "opening", "pulling", "sending", "over"
          got,        \* bytes the provider has sent for this segment
          resampler,  \* OpenAI's Pcm16Resampler
          buffer,     \* bytes not yet in a frame (Polly: pending)
          ready,      \* frames cut and not yet yielded
          sent,       \* history: frames of this segment sent to the client
          ended,      \* history: the engine's stream ended normally
          worker,     \* Polly's threads, by segment
          stopped,    \* threads whose stop event is set
          suspended   \* generators left at a yield

audioVars == <<got, resampler, buffer, ready>>
vars == <<engine, segment, pc, audioVars, sent, ended, worker, stopped, suspended>>

-----------------------------------------------------------------------------
NoMore == <<"done">>
Broken == <<"exc">>

Init ==
  /\ engine \in Engines
  /\ segment = 0 /\ pc = "waiting" /\ got = 0 /\ resampler = NewResampler
  /\ buffer = <<>> /\ ready = <<>> /\ sent = <<>> /\ ended = FALSE
  /\ worker = [s \in 1..MaxSegments |-> "none"] /\ stopped = {} /\ suspended = {}

(* The next segment of the reply: engine.stream begins.                     *)
Stream ==
  /\ pc = "waiting" /\ segment < MaxSegments
  /\ segment' = segment + 1 /\ pc' = "pulling"
  /\ got' = 0 /\ resampler' = NewResampler /\ buffer' = <<>> /\ ready' = <<>>
  /\ sent' = <<>> /\ ended' = FALSE
  /\ worker' = IF engine = "polly" THEN [worker EXCEPT ![segment + 1] = "calling"] ELSE worker
  /\ UNCHANGED <<engine, stopped, suspended>>

(* The shutdown signal of the reply.                                        *)
Finish ==
  /\ pc = "waiting" /\ pc' = "over"
  /\ UNCHANGED <<engine, segment, audioVars, sent, ended, worker, stopped, suspended>>

Chunk(n) == [k \in 1..n |-> <<got + k>>]
Leave == stopped' = stopped \cup {segment}

-----------------------------------------------------------------------------
(* A chunk of the HTTP body: what it completes is cut into frames.  The     *)
(* body is read again when these have been sent.                            *)
Http == engine \in {"elevenlabs", "openai"}

HttpChunk(n) ==
  LET fed == IF engine = "openai" THEN process(resampler, Chunk(n))
             ELSE [r |-> resampler, out |-> Chunk(n)]
      cut == chunk_pcm_bytes(buffer \o fed.out)
  IN /\ Http /\ pc = "pulling" /\ ready = <<>> /\ got + n <= MaxBytes
     /\ got' = got + n /\ resampler' = fed.r
     /\ ready' = cut.frames /\ buffer' = cut.rest
     /\ UNCHANGED <<engine, segment, pc, sent, ended, worker, stopped, suspended>>

(* The body ends: the remainder is padded to a frame.                       *)
HttpBodyEnds ==
  /\ Http /\ pc = "pulling" /\ ready = <<>>
  /\ IF buffer # <<>>
       THEN ready' = <<Padded(buffer)>> /\ buffer' = <<>> /\ pc' = "last" /\ UNCHANGED ended
       ELSE pc' = "waiting" /\ ended' = TRUE /\ UNCHANGED <<ready, buffer>>
  /\ UNCHANGED <<engine, segment, got, resampler, sent, worker, stopped, suspended>>

(* A bad status, a network error, a timeout: TTSConsumer ends the reply.    *)
HttpFails ==
  /\ Http /\ pc = "pulling" /\ ready = <<>>
  /\ pc' = "over" /\ UNCHANGED <<engine, segment, audioVars, sent, ended, worker, stopped, suspended>>

-----------------------------------------------------------------------------
(* Polly's thread for segment s; ready is the queue it puts into.           *)
PollyCalls(s, fails) ==
  /\ worker[s] = "calling"
  /\ worker' = [worker EXCEPT ![s] = IF fails THEN "ended" ELSE "reading"]
  /\ ready' = IF fails /\ s \notin stopped THEN ready \o <<Broken, NoMore>> ELSE ready
  /\ UNCHANGED <<engine, segment, pc, got, resampler, buffer, sent, ended, stopped, suspended>>

PollyReads(s, n) ==
  LET cut == chunk_pcm_bytes(buffer \o Chunk(n))
  IN /\ worker[s] = "reading" /\ s \notin stopped /\ got + n <= MaxBytes
     /\ got' = got + n /\ buffer' = cut.rest /\ ready' = ready \o cut.frames
     /\ UNCHANGED <<engine, segment, pc, resampler, sent, ended, worker, stopped, suspended>>

PollyBodyEnds(s) ==
  /\ worker[s] = "reading" /\ s \notin stopped
  /\ worker' = [worker EXCEPT ![s] = "ended"]
  /\ ready' = ready \o (IF buffer = <<>> THEN <<>> ELSE <<Padded(buffer)>>) \o <<NoMore>>
  /\ buffer' = <<>>
  /\ UNCHANGED <<engine, segment, pc, got, resampler, sent, ended, stopped, suspended>>

(* The thread fails, or sees the stop event.                                *)
PollyStops(s) ==
  /\ worker[s] = "reading"
  /\ worker' = [worker EXCEPT ![s] = "ended"]
  /\ ready' = IF s \in stopped THEN ready ELSE ready \o <<Broken, NoMore>>
  /\ UNCHANGED <<engine, segment, pc, got, resampler, buffer, sent, ended, stopped, suspended>>

(* The generator takes the end of the queue, or an exception.               *)
PollyEnds ==
  /\ engine = "polly" /\ pc = "pulling" /\ ready # <<>> /\ Head(ready) \in {NoMore, Broken}
  /\ ready' = Tail(ready) /\ Leave
  /\ IF Head(ready) = NoMore THEN pc' = "waiting" /\ ended' = TRUE
     ELSE pc' = "over" /\ UNCHANGED ended
  /\ UNCHANGED <<engine, segment, got, resampler, buffer, sent, worker, suspended>>

-----------------------------------------------------------------------------
(* The mock yields as many frames as the words are long.                    *)
MockFrame ==
  /\ engine = "mock" /\ pc = "pulling" /\ got + FrameBytes <= MaxBytes
  /\ got' = got + FrameBytes /\ ready' = <<Chunk(FrameBytes)>> /\ pc' = "sending"
  /\ UNCHANGED <<engine, segment, resampler, buffer, sent, ended, worker, stopped, suspended>>

MockEnds ==
  /\ engine = "mock" /\ pc = "pulling" /\ got > 0
  /\ pc' = "waiting" /\ ended' = TRUE
  /\ UNCHANGED <<engine, segment, audioVars, sent, worker, stopped, suspended>>

-----------------------------------------------------------------------------
(* A frame is yielded; TTSConsumer sends it, and waits if it is far ahead   *)
(* of playback.                                                             *)
Yield ==
  /\ pc = "pulling" /\ engine # "mock" /\ ready # <<>> /\ Head(ready) \notin {NoMore, Broken}
  /\ pc' = "sending"
  /\ UNCHANGED <<engine, segment, audioVars, sent, ended, worker, stopped, suspended>>

Sent ==
  /\ pc \in {"sending", "last"}
  /\ sent' = Append(sent, Head(ready)) /\ ready' = Tail(ready)
  /\ pc' = IF pc = "last" THEN "waiting" ELSE "pulling"
  /\ ended' = (pc = "last")
  /\ UNCHANGED <<engine, segment, got, resampler, buffer, worker, stopped, suspended>>

(* The reply is cancelled, or sending fails.  Between two pulls the         *)
(* generator stays suspended until it is collected.                         *)
Cancelled ==
  /\ pc \in {"waiting", "pulling", "sending", "last"} /\ segment > 0
  /\ pc' = "over"
  /\ IF pc = "pulling" THEN Leave /\ UNCHANGED suspended
     ELSE suspended' = (IF pc = "waiting" THEN suspended ELSE suspended \cup {segment})
          /\ UNCHANGED stopped
  /\ UNCHANGED <<engine, segment, audioVars, sent, ended, worker>>

Collected(s) ==
  /\ s \in suspended /\ suspended' = suspended \ {s} /\ stopped' = stopped \cup {s}
  /\ UNCHANGED <<engine, segment, pc, audioVars, sent, ended, worker>>

-----------------------------------------------------------------------------
Next ==
  \/ Stream \/ Finish \/ HttpBodyEnds \/ HttpFails \/ PollyEnds \/ MockFrame \/ MockEnds
  \/ Yield \/ Sent \/ Cancelled
  \/ \E n \in ChunkSizes : HttpChunk(n)
  \/ \E s \in 1..MaxSegments :
       \/ \E fails \in BOOLEAN : PollyCalls(s, fails)
       \/ \E n \in ChunkSizes : PollyReads(s, n)
       \/ PollyBodyEnds(s) \/ PollyStops(s)
  \/ \E s \in suspended : Collected(s)

Spec == Init /\ [][Next]_vars

-----------------------------------------------------------------------------
Audio == FlattenSeq(sent)
Source == [k \in 1..got |-> <<k>>]

(* What the segment's audio is, computed in one go from all the bytes.      *)
Reference ==
  IF engine # "openai" THEN Source
  ELSE LET out == Outputs(0, Samples(Source))
       IN FlattenSeq([j \in DOMAIN out |-> Bytes(out[j])])

(* The audio that is sent is the provider's, in order, none lost or said    *)
(* twice, and resampled as if it had come in one piece: it does not depend  *)
(* on how the body was split into chunks, be it inside a sample             *)
(* (Pcm16Resampler.process, the engines' buffers, Polly's queue).           *)
AudioIntact ==
  LET heard == SelectSeq(Audio, LAMBDA b : b # Pad)
  IN /\ IsPrefix(heard, Reference)
     /\ ended => heard = Reference
=============================================================================
