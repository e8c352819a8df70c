---------------------------- MODULE TTSConsumer ----------------------------
(***************************************************************************)
(* app/tts/tts_consumer.py: one asyncio task per reply, fed with text      *)
(* segments through a queue of its own.  tts_pc names the await at which   *)
(* the task is suspended:                                                  *)
(*                                                                         *)
(*   new           created, its first step has not run                     *)
(*   get           the reply's queue is empty                              *)
(*   synth         the engine's next frame, or the pacing sleep after one  *)
(*   start, bytes, end, error, metrics                                     *)
(*                 sending tts_start, a frame, tts_end, error, tts_metrics *)
(*   drain         sleeping until the client has played what it was sent   *)
(*   playback_end  inside the session's on_playback_end callback           *)
(*                                                                         *)
(* A segment is the number of the reply whose LLM produced it.  stop() is  *)
(* run by a caller's task, which waits for the reply's task to end:        *)
(* stopping[c] holds the locals of the call.  Time is not modelled, so the *)
(* pacing arithmetic is not (a sleep may or may not be needed).            *)
(***************************************************************************)
EXTENDS Replies, EventLoop

CONSTANT MaxAudio        \* bound: frames of one segment

ASSUME AudioAssumption == MaxAudio \in Nat

VARIABLES
  tts_task,              \* _task and _utterance_id: the reply last begun, or None
  audio_sent,            \* _audio_sent
  tts_pc,
  tts_queue,             \* the reply's queue: segments, or None for no more text
  tts_left,              \* frames the engine has yet to produce for the segment
  tts_frames,            \* frames > 0 in the reply's task
  tts_interrupted,
  tts_cancelled,         \* CancelledError is pending in the task
  stopping

ttsTaskVars == <<tts_task, audio_sent, tts_pc, tts_queue, tts_left, tts_frames,
                 tts_interrupted, tts_cancelled>>
ttsVars == <<ttsTaskVars, stopping>>

TtsPc == {"none", "new", "get", "synth", "start", "bytes", "drain", "end", "error",
          "metrics", "playback_end", "done"}

NoStop == [target |-> None, had_audio |-> FALSE]

TtsTypeOK ==
  /\ tts_task \in Reply \cup {None}
  /\ audio_sent \in BOOLEAN
  /\ tts_pc \in [Reply -> TtsPc]
  /\ tts_queue \in [Reply -> Seq(Reply \cup {None})]
  /\ tts_left \in [Reply -> 0..MaxAudio]
  /\ tts_frames \in [Reply -> BOOLEAN]
  /\ tts_interrupted \in [Reply -> BOOLEAN]
  /\ tts_cancelled \in [Reply -> BOOLEAN]
  /\ stopping \in [Callers -> [target: Reply \cup {None}, had_audio: BOOLEAN]]

TtsInit ==
  /\ tts_task = None
  /\ audio_sent = FALSE
  /\ tts_pc = [r \in Reply |-> "none"]
  /\ tts_queue = [r \in Reply |-> <<>>]
  /\ tts_left = [r \in Reply |-> 0]
  /\ tts_frames = [r \in Reply |-> FALSE]
  /\ tts_interrupted = [r \in Reply |-> FALSE]
  /\ tts_cancelled = [r \in Reply |-> FALSE]
  /\ stopping = [c \in Callers |-> NoStop]

TtsRuns(r) == tts_pc[r] \notin {"none", "done"}

IsActive == tts_task # None /\ TtsRuns(tts_task)

CurrentUtteranceId == IF IsActive THEN tts_task ELSE None

-----------------------------------------------------------------------------
\* Operations; the caller's code runs on.

\* begin, after the reply in progress was stopped; `text` is what is queued
\* before the caller suspends (start_speaking queues everything at once).
Begin(r, text) ==
  /\ tts_task' = r
  /\ audio_sent' = FALSE
  /\ tts_queue' = [tts_queue EXCEPT ![r] = text]
  /\ tts_pc' = [tts_pc EXCEPT ![r] = "new"]
  /\ UNCHANGED <<tts_left, tts_frames, tts_interrupted, tts_cancelled, stopping>>

\* speak(segment) by the LLM task of reply r: into the queue of the current reply.
Speak(r) ==
  /\ tts_queue' = IF IsActive THEN [tts_queue EXCEPT ![tts_task] = Append(@, r)] ELSE tts_queue
  /\ UNCHANGED <<tts_task, audio_sent, tts_pc, tts_left, tts_frames, tts_interrupted,
                 tts_cancelled, stopping>>

\* finish()
Finish ==
  /\ tts_queue' = IF IsActive THEN [tts_queue EXCEPT ![tts_task] = Append(@, None)] ELSE tts_queue
  /\ UNCHANGED <<tts_task, audio_sent, tts_pc, tts_left, tts_frames, tts_interrupted,
                 tts_cancelled, stopping>>

\* stop(): cancel the active reply; the caller is then suspended in gather.
StopCancels(c) ==
  /\ IsActive
  /\ stopping' = [stopping EXCEPT ![c] = [target |-> tts_task, had_audio |-> audio_sent]]
  /\ tts_cancelled' = [tts_cancelled EXCEPT ![tts_task] = TRUE]
  /\ UNCHANGED <<tts_task, audio_sent, tts_pc, tts_queue, tts_left, tts_frames,
                 tts_interrupted>>

\* Mutant: the cancelled task is not awaited.
StopGathered_NotAwaited(c) == stopping[c].target \in Reply

\* gather has returned.
StopGathered(c) == tts_pc[stopping[c].target] = "done"

\* stop returns, after tts_clear if audio had been sent.
StopEnds(c) == stopping' = [stopping EXCEPT ![c] = NoStop] /\ UNCHANGED ttsTaskVars

-----------------------------------------------------------------------------
\* The reply's task, _run.

TtsKeeps == UNCHANGED <<tts_task, tts_cancelled, stopping>>

TtsAt(r, at) == ~tts_cancelled[r] /\ tts_pc[r] \in at

\* The text is complete: wait out the playback, send tts_end, or neither.
AllSent(r) ==
  /\ \E to \in (IF tts_frames[r] THEN {"drain", "end"} ELSE {"metrics"}) :
       tts_pc' = [tts_pc EXCEPT ![r] = to]
  /\ UNCHANGED tts_left

\* The head of the loop: queue.get() suspends only on an empty queue.
NextSegment(r) ==
  \/ /\ tts_queue[r] = <<>>
     /\ tts_pc' = [tts_pc EXCEPT ![r] = "get"]
     /\ UNCHANGED <<tts_queue, tts_left>>
  \/ /\ tts_queue[r] # <<>>
     /\ tts_queue' = [tts_queue EXCEPT ![r] = Tail(@)]
     /\ IF Head(tts_queue[r]) = None
        THEN AllSent(r)
        ELSE \E n \in 0..MaxAudio : /\ tts_left' = [tts_left EXCEPT ![r] = n]
                                    /\ tts_pc' = [tts_pc EXCEPT ![r] = "synth"]

TtsFirstStep(r) ==
  /\ TtsAt(r, {"new"})
  /\ NextSegment(r)
  /\ TtsKeeps /\ UNCHANGED <<audio_sent, tts_frames, tts_interrupted>>

TtsGets(r) ==
  /\ TtsAt(r, {"get"}) /\ tts_queue[r] # <<>>
  /\ NextSegment(r)
  /\ TtsKeeps /\ UNCHANGED <<audio_sent, tts_frames, tts_interrupted>>

TtsSegmentEnds(r) ==
  /\ TtsAt(r, {"synth"}) /\ tts_left[r] = 0
  /\ NextSegment(r)
  /\ TtsKeeps /\ UNCHANGED <<audio_sent, tts_frames, tts_interrupted>>

TtsFrame(r) ==
  /\ TtsAt(r, {"synth"}) /\ tts_left[r] > 0
  /\ tts_left' = [tts_left EXCEPT ![r] = @ - 1]
  /\ tts_pc' = [tts_pc EXCEPT ![r] = IF tts_frames[r] THEN "bytes" ELSE "start"]
  /\ TtsKeeps /\ UNCHANGED <<audio_sent, tts_queue, tts_frames, tts_interrupted>>

TtsFrameSent(r) ==
  /\ TtsAt(r, {"bytes"})
  /\ tts_pc' = [tts_pc EXCEPT ![r] = "synth"]
  /\ audio_sent' = TRUE
  /\ tts_frames' = [tts_frames EXCEPT ![r] = TRUE]
  /\ TtsKeeps /\ UNCHANGED <<tts_queue, tts_left, tts_interrupted>>

\* A message is out (or the playback is over) and the next await is reached.
TtsAfter == [start |-> "bytes", drain |-> "end", end |-> "metrics", error |-> "metrics"]

TtsSent(r) ==
  /\ TtsAt(r, DOMAIN TtsAfter)
  /\ tts_pc' = [tts_pc EXCEPT ![r] = TtsAfter[tts_pc[r]]]
  /\ TtsKeeps /\ UNCHANGED <<audio_sent, tts_queue, tts_left, tts_frames, tts_interrupted>>

\* The engine raises, or the socket does while start, a frame or end is sent.
TtsFails(r) ==
  /\ TtsAt(r, {"synth", "start", "bytes", "end"})
  /\ tts_pc' = [tts_pc EXCEPT ![r] = "error"]
  /\ tts_interrupted' = [tts_interrupted EXCEPT ![r] = TRUE]
  /\ TtsKeeps /\ UNCHANGED <<audio_sent, tts_queue, tts_left, tts_frames>>

\* The task ends; its locals are reset.
TtsDone(r) ==
  /\ tts_pc' = [tts_pc EXCEPT ![r] = "done"]
  /\ tts_queue' = [tts_queue EXCEPT ![r] = <<>>]
  /\ tts_left' = [tts_left EXCEPT ![r] = 0]
  /\ tts_frames' = [tts_frames EXCEPT ![r] = FALSE]
  /\ tts_interrupted' = [tts_interrupted EXCEPT ![r] = FALSE]

\* CancelledError in the body, or while its handler sends error: the finally
\* clause sends tts_metrics.
TtsInterrupted(r) ==
  /\ tts_cancelled[r] /\ tts_pc[r] \in {"get", "synth", "start", "bytes", "drain", "end", "error"}
  /\ tts_pc' = [tts_pc EXCEPT ![r] = "metrics"]
  /\ tts_interrupted' = [tts_interrupted EXCEPT ![r] = TRUE]
  /\ tts_cancelled' = [tts_cancelled EXCEPT ![r] = FALSE]
  /\ UNCHANGED <<tts_task, audio_sent, tts_queue, tts_left, tts_frames, stopping>>

\* CancelledError before the first step (the body is never entered), while
\* tts_metrics is sent (the callback is not called) or inside the callback.
TtsAbandoned(r) ==
  /\ tts_cancelled[r] /\ tts_pc[r] \in {"new", "metrics", "playback_end"}
  /\ TtsDone(r)
  /\ tts_cancelled' = [tts_cancelled EXCEPT ![r] = FALSE]
  /\ UNCHANGED <<tts_task, audio_sent, stopping>>

\* tts_metrics is out: on_playback_end is called; it suspends if it `waits`.
TtsPlaybackEnds(r, waits) ==
  /\ TtsAt(r, {"metrics"})
  /\ IF waits THEN /\ tts_pc' = [tts_pc EXCEPT ![r] = "playback_end"]
                   /\ UNCHANGED <<tts_queue, tts_left, tts_frames, tts_interrupted>>
              ELSE TtsDone(r)
  /\ TtsKeeps /\ UNCHANGED audio_sent

\* on_playback_end returns.
TtsReturns(r) == TtsAt(r, {"playback_end"}) /\ TtsDone(r) /\ TtsKeeps /\ UNCHANGED audio_sent
=============================================================================
