---------------------------- MODULE CallSession ----------------------------
(***************************************************************************)
(* One phone call (app/telephony/call_session.py): the call's state        *)
(* machine, its asyncio lock, barge-in, error recovery, the silence loop   *)
(* and the end of the call, composed with the LLM and the TTS consumer.    *)
(* The tasks that run the call's code:                                     *)
(*                                                                         *)
(*   ws       the Twilio endpoint: start, one media message after another, *)
(*            and stop                                                     *)
(*   stt      the recogniser's loop                                        *)
(*   silence  _silence_loop                                                *)
(*   Spawned  tasks made on the way: barge-ins found by energy, recoveries *)
(*            from recogniser errors, LLM watchdogs that time out          *)
(*   the LLM and the TTS task of each reply; LlmCaller and TtsCaller name  *)
(*            them when they run the recovery                              *)
(*                                                                         *)
(* `async with self._lock` is a step of its own (LockPoints): the task     *)
(* takes the free lock, or is suspended until it gets it.  Which waiter    *)
(* gets a released lock is left open.  Elapsed time is not modelled: a     *)
(* timeout may expire whenever its condition holds.                        *)
(***************************************************************************)
EXTENDS Conversation

CONSTANTS Spawned,       \* bound: how many spawned tasks exist at one time
          LlmCaller, TtsCaller,
          AudioFirst,    \* whether audio comes before the first transcript, as on a real call
          MaxTurns,      \* bound: transcripts
          MaxEvents,     \* bound: media messages, silence prompts, watchdog timeouts and
                         \* failures together
          MaxFaults      \* bound: failures of an engine or of a send

ASSUME CallAssumption ==
  /\ LlmCaller \in [Reply -> Callers] /\ TtsCaller \in [Reply -> Callers]
  /\ {"ws", "stt", "silence"} \cup Spawned \subseteq Callers /\ {"idle", "nobody"} \cap Callers = {}
  \* different tasks
  /\ Spawned \cap {"ws", "stt", "silence"} = {}
  /\ \A r \in Reply :
       {LlmCaller[r], TtsCaller[r]} \cap ({"ws", "stt", "silence"} \cup Spawned) = {}
  /\ AudioFirst \in BOOLEAN
  /\ MaxTurns \in Nat /\ MaxEvents \in Nat /\ MaxFaults \in Nat
  \* a transcript opens a reply; a prompt, a timeout or a failure at most one more:
  \* the bound on replies never refuses one
  /\ MaxReplies >= MaxTurns + MaxEvents

VARIABLES
  state,                 \* _state
  lock,                  \* the task that holds _lock, or Nobody
  outbound_muted,
  silence_prompt_played,
  watching,              \* the replies whose watchdog waits for a first token
  hung_up,               \* on_silence_hangup has closed the socket
  heard,                 \* metrics.first_user_audio_time is set
  turns, events, faults  \* how much of each bound is used

silenceVars == <<silence_prompt_played, hung_up, heard>>
callVars == <<state, lock, outbound_muted, watching, silenceVars>>
budget == <<turns, events, faults>>
vars == <<llmVars, ttsVars, loop, pc, conversationVars, callVars, budget>>

Nobody == "nobody"
Busy == {"PROCESSING", "SPEAKING"}

\* The states a task can observe.  CONNECTED and INTERRUPTED are left again in
\* the step that enters them; the code has no transition to the other ones.
State == {"CONNECTING", "LISTENING", "STREAMING", "ENDED"} \cup Busy

LockPoints == {"started_lock", "completed", "system_turn", "barge", "recover", "fallback",
               "media", "stop"}

Pc == LockPoints \cup
  {Idle, "partial", "started", "final", "whole", "complete", "interrupt", "system_turn_on",
   "begin", "begun", "barged", "recovered", "unlock_say", "say", "said", "returned",
   "gather", "clear", "wedged", "stop_stt", "join_stt", "done"}

TypeOK ==
  /\ ConversationTypeOK(Pc)
  /\ state \in State
  /\ lock \in Callers \cup {Nobody}
  /\ outbound_muted \in BOOLEAN /\ silence_prompt_played \in BOOLEAN /\ hung_up \in BOOLEAN
  /\ watching \subseteq Reply
  /\ heard \in BOOLEAN
  /\ turns \in 0..MaxTurns /\ events \in 0..MaxEvents /\ faults \in 0..MaxFaults

Init ==
  /\ ConversationInit
  /\ state = "CONNECTING"
  /\ lock = Nobody
  /\ outbound_muted = FALSE /\ silence_prompt_played = FALSE /\ hung_up = FALSE
  /\ watching = {}
  /\ heard = FALSE
  /\ turns = 0 /\ events = 0 /\ faults = 0

\* One more event, or failure, within the bounds.
Happens == events < MaxEvents /\ events' = events + 1
Fault == faults < MaxFaults /\ faults' = faults + 1 /\ Happens

-----------------------------------------------------------------------------
(* The lock *)

\* CancelledError is pending in the LLM or TTS task that c stands for.
Doomed(c) == \E r \in Reply : \/ c = LlmCaller[r] /\ llm_cancelled[r]
                              \/ c = TtsCaller[r] /\ tts_cancelled[r]

\* Task c enters `async with self._lock`, at once or when its turn comes.
Acquires(c, at) ==
  /\ pc[c] = at /\ lock = Nobody
  /\ loop = c \/ (loop = Idle /\ ~Doomed(c))

\* LLM and TTS tasks wait for the lock before a segment, a frame, and at the end.
MayWait(r) == llm_pc[r] \in {"stream", "partial"} \/ tts_pc[r] \in {"bytes", "playback_end"}

\* Lock.acquire suspends if the lock is held or others are waiting for it.
WaitsForLock(c) ==
  /\ loop = c /\ pc[c] \in LockPoints
  /\ \/ lock # Nobody
     \/ \E d \in Callers \ {c} : pc[d] \in LockPoints
     \/ \E r \in Reply : MayWait(r)
  /\ loop' = Idle
  /\ UNCHANGED <<llmVars, ttsVars, pc, conversationVars, callVars, budget>>

Gathered(c) ==
  /\ ~Doomed(c)
  /\ StopJoins(c)
  /\ UNCHANGED <<llmVars, stateVars, history, replies, callVars, budget>>

ClearSent(c) ==
  /\ ~Doomed(c)
  /\ StopClears(c)
  /\ UNCHANGED <<llmVars, stateVars, history, replies, callVars, budget>>

-----------------------------------------------------------------------------
(* Transcripts: TurnManager and the callbacks of the call *)

\* The recogniser has had something to recognise.
SttFed == AudioFirst => heard

\* A call does not hold turns back: a text is blank or not.
CallTexts == {"Blank", "Whole"}

TranscriptArrives(kind, t) ==
  /\ Resumes("stt", Idle) /\ state # "CONNECTING"
  /\ SttFed
  /\ turns < MaxTurns
  /\ turns' = turns + 1
  /\ local' = [local EXCEPT !["stt"].text = t]
  /\ RunsOn("stt", kind)
  /\ UNCHANGED <<llmVars, ttsVars, stateVars, history, replies, callVars, events, faults>>

ProcessPartial(c) ==
  /\ ReceivePartial(c)
  /\ UNCHANGED <<llmVars, ttsVars, history, replies, callVars, budget>>

ProcessFinal(c) ==
  /\ ReceiveFinal(c)
  /\ UNCHANGED <<llmVars, ttsVars, history, replies, callVars, budget>>

HandleInterruption(c) ==
  /\ Continues(c, "interrupt")
  /\ ClearTurns
  /\ RunsOn(c, "barge")
  /\ UNCHANGED <<llmVars, ttsVars, local, history, replies, callVars, budget>>

StartTurn(c) ==
  /\ Continues(c, "started")
  /\ \/ /\ ~is_user_speaking
        /\ is_user_speaking' = TRUE
        /\ RunsOn(c, "started_lock")
        /\ local' = [local EXCEPT ![c].ret = Idle]
     \/ /\ is_user_speaking
        /\ Returns(c)
        /\ UNCHANGED is_user_speaking
  /\ UNCHANGED <<llmVars, ttsVars, is_system_speaking, history, replies, callVars, budget>>

\* A final without a partial: the turn is started ...
WholeTurn(c) ==
  /\ Continues(c, "whole")
  /\ is_user_speaking' = TRUE
  /\ RunsOn(c, "started_lock")
  /\ local' = [local EXCEPT ![c].ret = "complete"]
  /\ UNCHANGED <<llmVars, ttsVars, is_system_speaking, history, replies, callVars, budget>>

\* ... and completed.
CompleteTurn(c) ==
  /\ Continues(c, "complete")
  /\ is_user_speaking' = FALSE
  /\ RunsOn(c, "completed")
  /\ UNCHANGED <<llmVars, ttsVars, local, is_system_speaking, history, replies, callVars,
                 budget>>

OnUserTurnStarted(c) ==
  /\ Acquires(c, "started_lock")
  /\ IF state = "ENDED" THEN UNCHANGED <<llmVars, state>>
     ELSE /\ Cancel
          /\ state' = IF state = "PROCESSING" THEN "LISTENING" ELSE state
  /\ ReturnsTo(c)
  /\ UNCHANGED <<ttsVars, stateVars, history, replies, lock, outbound_muted, silenceVars,
                 watching, budget>>

\* _on_user_turn_completed: a turn is answered only in LISTENING.
OnUserTurnCompleted(c) ==
  /\ Acquires(c, "completed")
  /\ \/ /\ state # "LISTENING"
        /\ Returns(c)
        /\ UNCHANGED <<state, history, replies>>
     \/ /\ state = "LISTENING" /\ replies < MaxReplies
        /\ state' = "PROCESSING"
        /\ replies' = replies + 1
        /\ IF local[c].text = "Blank" THEN UNCHANGED history ELSE Remember("user", replies + 1)
        /\ local' = [local EXCEPT ![c].reply = replies + 1]
        /\ RunsOn(c, "system_turn")
  /\ UNCHANGED <<llmVars, ttsVars, stateVars, lock, outbound_muted, silenceVars, watching,
                 budget>>

\* _on_system_turn_start returns silently when the call is over; its caller goes on.
OnSystemTurnStart(c) ==
  /\ Acquires(c, "system_turn")
  /\ \/ /\ state = "ENDED"
        /\ RunsOn(c, "begin")
        /\ UNCHANGED <<ttsVars, local, lock>>
     \/ /\ state # "ENDED"
        /\ lock' = c
        /\ Stops(c, "system_turn_on")
  /\ UNCHANGED <<llmVars, stateVars, history, replies, state, outbound_muted, silenceVars,
                 watching, budget>>

SystemTurnOn(c) ==
  /\ Continues(c, "system_turn_on")
  /\ is_system_speaking' = TRUE
  /\ lock' = Nobody
  /\ RunsOn(c, "begin")
  /\ UNCHANGED <<llmVars, ttsVars, local, is_user_speaking, history, replies, state,
                 outbound_muted, silenceVars, watching, budget>>

\* tts.begin, outside the lock, stops whatever is being spoken.
BeginReply(c) ==
  /\ Continues(c, "begin")
  /\ Stops(c, "begun")
  /\ UNCHANGED <<llmVars, stateVars, history, replies, callVars, budget>>

\* The rest of begin, llm.start_generation and the watchdog's task.
ReplyBegun(c) ==
  /\ Continues(c, "begun")
  /\ Begin(local[c].reply, <<>>)
  /\ StartGeneration(local[c].reply)
  /\ watching' = watching \cup {local[c].reply}
  /\ Returns(c)
  /\ UNCHANGED <<stateVars, history, replies, state, lock, outbound_muted, silenceVars,
                 budget>>

-----------------------------------------------------------------------------
(* Barge-in and recovery *)

\* Mutant: the generation is cancelled, the speech runs on.
HandleBargeIn_KeepsTalking(c) ==
  /\ Acquires(c, "barge")
  /\ \/ /\ state \notin Busy
        /\ ReturnsTo(c)
        /\ UNCHANGED <<llmVars, ttsVars, lock, outbound_muted>>
     \/ /\ state \in Busy
        /\ outbound_muted' = TRUE
        /\ Cancel
        /\ lock' = c
        /\ RunsOn(c, "barged") /\ UNCHANGED <<ttsVars, local>>
  /\ UNCHANGED <<stateVars, history, replies, state, silenceVars, watching, budget>>

\* _handle_barge_in, up to the stop of the speech; the lock is kept.
HandleBargeIn(c) ==
  /\ Acquires(c, "barge")
  /\ \/ /\ state \notin Busy
        /\ ReturnsTo(c)
        /\ UNCHANGED <<llmVars, ttsVars, lock, outbound_muted>>
     \/ /\ state \in Busy
        /\ outbound_muted' = TRUE
        /\ Cancel
        /\ lock' = c
        /\ Stops(c, "barged")
  /\ UNCHANGED <<stateVars, history, replies, state, silenceVars, watching, budget>>

BargedIn(c) ==
  /\ Continues(c, "barged")
  /\ ClearTurns
  /\ state' = "LISTENING"
  /\ outbound_muted' = FALSE
  /\ lock' = Nobody
  /\ ReturnsTo(c)
  /\ UNCHANGED <<llmVars, ttsVars, history, replies, silenceVars, watching, budget>>

\* c is the task of the very reply that tts.stop would cancel and wait for.
IsOwnReply(c) == IsActive /\ c = TtsCaller[tts_task]

\* _handle_pipeline_error, up to the stop of the speech; the lock is kept.  A
\* task that gathers itself never runs again: cancelling the gather it waits for
\* cancels the task, and so on (RecursionError inside the event loop).
HandlePipelineError(c) ==
  /\ Acquires(c, "recover")
  /\ \/ /\ state = "ENDED"
        /\ ReturnsTo(c)
        /\ UNCHANGED <<llmVars, ttsVars, lock>>
     \/ /\ state # "ENDED"
        /\ Cancel
        /\ lock' = c
        /\ \/ ~IsOwnReply(c) /\ Stops(c, "recovered")
           \/ IsOwnReply(c) /\ Suspends(c, "wedged") /\ UNCHANGED <<ttsVars, local>>
  /\ UNCHANGED <<stateVars, history, replies, state, outbound_muted, silenceVars, watching,
                 budget>>

Recovered(c) ==
  /\ Continues(c, "recovered")
  /\ state' = IF state \in Busy THEN "LISTENING" ELSE state
  /\ ClearTurns
  /\ lock' = Nobody
  /\ RunsOn(c, "fallback")
  /\ UNCHANGED <<llmVars, ttsVars, local, history, replies, outbound_muted, silenceVars,
                 watching, budget>>

PlayFallbackTts(c) ==
  /\ Acquires(c, "fallback")
  /\ \/ /\ state = "ENDED"
        /\ ReturnsTo(c)
        /\ UNCHANGED <<ttsVars, lock>>
     \/ /\ state # "ENDED"
        /\ lock' = c
        /\ Stops(c, "unlock_say")
  /\ UNCHANGED <<llmVars, stateVars, history, replies, state, outbound_muted, silenceVars,
                 watching, budget>>

\* The lock is released before a fixed message (fallback, prompt) is spoken.
UnlockSay(c) ==
  /\ Continues(c, "unlock_say")
  /\ lock' = Nobody
  /\ RunsOn(c, "say")
  /\ UNCHANGED <<llmVars, ttsVars, conversationVars, state, outbound_muted, silenceVars,
                 watching, budget>>

\* start_speaking: begin stops what is being spoken ...
Say(c) ==
  /\ Continues(c, "say") /\ replies < MaxReplies
  /\ replies' = replies + 1
  /\ \/ StopWaits(c) /\ local' = [local EXCEPT ![c].reply = replies + 1, ![c].after = "said"]
     \/ StopNeedless /\ RunsOn(c, "said") /\ local' = [local EXCEPT ![c].reply = replies + 1]
  /\ UNCHANGED <<llmVars, stateVars, history, callVars, budget>>

\* ... and begins a reply whose whole text is queued at once.
Said(c) ==
  /\ Continues(c, "said")
  /\ Begin(local[c].reply, <<local[c].reply, None>>)
  /\ ReturnsTo(c)
  /\ UNCHANGED <<llmVars, stateVars, history, replies, callVars, budget>>

\* create_task(_handle_pipeline_error) after the recogniser failed on a frame.
OnSttError(t) ==
  /\ Resumes(t, Idle) /\ SttFed /\ pc["stt"] = Idle
  /\ Fault
  /\ Suspends(t, "recover")
  /\ UNCHANGED <<llmVars, ttsVars, conversationVars, callVars, turns>>

\* The watchdog of a reply times out: llm.cancel(), then the recovery.
Watchdog(t, r) ==
  /\ Resumes(t, Idle) /\ r \in watching
  /\ Happens
  /\ watching' = watching \ {r}
  /\ Cancel
  /\ RunsOn(t, "recover")
  /\ UNCHANGED <<ttsVars, conversationVars, state, lock, outbound_muted, silenceVars,
                 turns, faults>>

-----------------------------------------------------------------------------
(* _silence_loop *)

\* Silence in LISTENING: the prompt is spoken.
SilencePrompt ==
  /\ Resumes("silence", Idle) /\ lock = Nobody
  /\ state = "LISTENING" /\ ~silence_prompt_played
  /\ Happens
  /\ silence_prompt_played' = TRUE
  /\ lock' = "silence"
  /\ Stops("silence", "unlock_say")
  /\ UNCHANGED <<llmVars, stateVars, history, replies, state, outbound_muted, watching,
                 hung_up, heard, turns, faults>>

\* Still silent after the prompt: the socket is closed and the loop ends.
SilenceHangup ==
  /\ Resumes("silence", Idle) /\ lock = Nobody
  /\ state = "LISTENING" /\ silence_prompt_played
  /\ hung_up' = TRUE
  /\ Suspends("silence", "done")
  /\ UNCHANGED <<llmVars, ttsVars, conversationVars, state, lock, outbound_muted,
                 silence_prompt_played, watching, heard, budget>>

-----------------------------------------------------------------------------
(* The endpoint: start, feed_mulaw, stop *)

\* start: CONNECTING, CONNECTED and LISTENING; nothing else runs yet.
Start ==
  /\ Resumes("ws", Idle) /\ state = "CONNECTING"
  /\ state' = "LISTENING"
  /\ UNCHANGED <<llmVars, ttsVars, loop, pc, conversationVars, lock, outbound_muted,
                 silenceVars, watching, budget>>

MediaArrives ==
  /\ Resumes("ws", Idle) /\ state # "CONNECTING" /\ ~hung_up
  /\ Happens
  /\ RunsOn("ws", "media")
  /\ UNCHANGED <<llmVars, ttsVars, conversationVars, callVars, turns, faults>>

\* Mutant: audio makes any call STREAMING.
FeedMulaw_AnyState ==
  /\ Acquires("ws", "media")
  /\ state' = IF state # "ENDED" THEN "STREAMING" ELSE state
  /\ silence_prompt_played' = FALSE
  /\ heard' = TRUE
  /\ \/ pc' = [pc EXCEPT !["ws"] = Idle]
     \/ /\ state = "SPEAKING"
        /\ \E t \in Spawned : /\ pc[t] = Idle
                              /\ pc' = [pc EXCEPT !["ws"] = Idle, ![t] = "barge"]
  /\ loop' = Idle
  /\ UNCHANGED <<llmVars, ttsVars, conversationVars, lock, outbound_muted, watching,
                 hung_up, budget>>

\* feed_mulaw: a loud frame while SPEAKING spawns a barge-in.
FeedMulaw ==
  /\ Acquires("ws", "media")
  /\ state' = IF state = "LISTENING" THEN "STREAMING" ELSE state
  /\ silence_prompt_played' = FALSE
  /\ heard' = TRUE
  /\ \/ pc' = [pc EXCEPT !["ws"] = Idle]
     \/ /\ state = "SPEAKING"
        /\ \E t \in Spawned : /\ pc[t] = Idle
                              /\ pc' = [pc EXCEPT !["ws"] = Idle, ![t] = "barge"]
  /\ loop' = Idle
  /\ UNCHANGED <<llmVars, ttsVars, conversationVars, lock, outbound_muted, watching,
                 hung_up, budget>>

\* A stop event, a disconnect, or the socket closed by the silence loop.
HangUp ==
  /\ Resumes("ws", Idle) /\ state # "CONNECTING"
  /\ RunsOn("ws", "stop")
  /\ UNCHANGED <<llmVars, ttsVars, conversationVars, callVars, budget>>

\* Mutant: the generation is left running.
Stop_KeepsGenerating ==
  /\ Acquires("ws", "stop")
  /\ state' = "ENDED"
  /\ outbound_muted' = TRUE
  /\ UNCHANGED llmVars
  /\ lock' = "ws"
  /\ Stops("ws", "stop_stt")
  /\ UNCHANGED <<stateVars, history, replies, silenceVars, watching, budget>>

\* stop, up to the stop of the speech; the lock is kept to the end.
Stop ==
  /\ Acquires("ws", "stop")
  /\ state' = "ENDED"
  /\ outbound_muted' = TRUE
  /\ Cancel
  /\ lock' = "ws"
  /\ Stops("ws", "stop_stt")
  /\ UNCHANGED <<stateVars, history, replies, silenceVars, watching, budget>>

\* STTConsumer.stop: the recogniser's last transcript, if any, is processed by
\* the task that holds the lock.
StopStt ==
  /\ Continues("ws", "stop_stt")
  /\ \/ Suspends("ws", "join_stt") /\ UNCHANGED local
     \/ \E t \in CallTexts :
          /\ SttFed
          /\ t # "Blank" \/ is_user_speaking
          /\ local' = [local EXCEPT !["ws"].text = t]
          /\ RunsOn("ws", "final")
  /\ UNCHANGED <<llmVars, ttsVars, stateVars, history, replies, callVars, budget>>

Join == [stopping EXCEPT !["stt"] = NoStop, !["silence"] = NoStop]

\* The recogniser's task ends or is cancelled after two seconds; the lock is
\* released and the silence loop cancelled.
SttJoined ==
  /\ Resumes("ws", "join_stt")
  /\ \A c \in {"stt", "silence"} : pc[c] = "gather" => StopGathered(c)
  /\ stopping' = Join
  /\ outbound_muted' = FALSE
  /\ lock' = Nobody
  /\ pc' = [pc EXCEPT !["ws"] = "done", !["stt"] = "done", !["silence"] = "done"]
  /\ local' = [local EXCEPT !["ws"] = NoLocals, !["stt"] = NoLocals, !["silence"] = NoLocals]
  /\ UNCHANGED <<llmVars, ttsTaskVars, loop, stateVars, history, replies, state,
                 silenceVars, watching, budget>>

-----------------------------------------------------------------------------
(* The LLM task of reply r *)

LlmStep(r) ==
  /\ loop = Idle
  /\ \/ LlmFirstStep(r) /\ UNCHANGED watching
     \/ LlmToken(r) /\ watching' = watching \ {r}
     \/ LlmInterrupted(r) /\ UNCHANGED watching
     \/ LlmNeverRan(r) /\ UNCHANGED watching
  /\ UNCHANGED <<ttsVars, loop, pc, conversationVars, state, lock, outbound_muted,
                 silenceVars, budget>>

\* _on_llm_segment: the first segment makes the call SPEAKING.
OnLlmSegment(r) ==
  /\ loop = Idle /\ lock = Nobody
  /\ \/ LlmPartialSent(r)
     \/ LlmStreamEnds(r) /\ llm_parts[r] > 0
  /\ IF state \in Busy THEN state' = "SPEAKING" /\ Speak(r) ELSE UNCHANGED <<state, ttsVars>>
  /\ UNCHANGED <<loop, pc, conversationVars, lock, outbound_muted, silenceVars, watching,
                 budget>>

LlmNoSegment(r) ==
  /\ loop = Idle
  /\ LlmPartialSent(r) \/ LlmStreamEnds(r)
  /\ UNCHANGED <<ttsVars, loop, pc, conversationVars, callVars, budget>>

LlmFault(r) ==
  /\ loop = Idle
  /\ Fault
  /\ LlmFails(r)
  /\ UNCHANGED <<ttsVars, loop, pc, conversationVars, callVars, turns>>

\* _on_complete: a failed generation is recovered from inside its own task.
OnComplete(r) ==
  /\ loop = Idle
  /\ watching' = watching \ {r}
  /\ IF llm_parts[r] > 0 THEN Remember("assistant", r) ELSE UNCHANGED history
  /\ \/ /\ llm_outcome[r] = "completed"
        /\ LlmCompletes(r) /\ Finish
        /\ UNCHANGED <<loop, pc, local>>
     \/ /\ llm_outcome[r] = "cancelled"
        /\ LlmCompletes(r)
        /\ UNCHANGED <<ttsVars, loop, pc, local>>
     \/ /\ llm_outcome[r] = "failed"
        /\ LlmCompleting(r)
        /\ RunsOn(LlmCaller[r], "recover")
        /\ local' = [local EXCEPT ![LlmCaller[r]].ret = "returned"]
        /\ UNCHANGED ttsVars
  /\ UNCHANGED <<stateVars, replies, state, lock, outbound_muted, silenceVars, budget>>

LlmRecovered(r) ==
  /\ Continues(LlmCaller[r], "returned")
  /\ LlmReturns(r)
  /\ Returns(LlmCaller[r])
  /\ UNCHANGED <<ttsVars, stateVars, history, replies, callVars, budget>>

\* CancelledError leaves the code c runs; `async with` releases the lock.
Aborts(c) ==
  /\ Resumes(c, pc[c]) /\ pc[c] \in LockPoints \cup {"gather", "clear"}
  /\ pc[c] = "gather" => StopGathered(c)
  /\ lock' = IF lock = c THEN Nobody ELSE lock
  /\ Returns(c)

LlmAborted(r) ==
  /\ llm_cancelled[r]
  /\ Aborts(LlmCaller[r])
  /\ LlmReturns(r)
  /\ StopEnds(LlmCaller[r])
  /\ UNCHANGED <<stateVars, history, replies, state, outbound_muted, silenceVars, watching,
                 budget>>

-----------------------------------------------------------------------------
(* The TTS task of reply r *)

TtsStep(r) ==
  /\ loop = Idle /\ pc[TtsCaller[r]] = Idle
  /\ \/ TtsFirstStep(r) \/ TtsGets(r) \/ TtsSegmentEnds(r) \/ TtsFrame(r)
     \/ TtsSent(r) \/ TtsInterrupted(r) \/ TtsAbandoned(r)
  /\ UNCHANGED <<llmVars, loop, pc, conversationVars, callVars, budget>>

\* send_audio_frame: sent, or dropped if the call is muted or over.
SendAudioFrame(r) ==
  /\ loop = Idle /\ pc[TtsCaller[r]] = Idle /\ lock = Nobody
  /\ TtsFrameSent(r)
  /\ UNCHANGED <<llmVars, loop, pc, conversationVars, callVars, budget>>

\* The engine, or the send of an event, fails inside the task.
TtsFault(r) ==
  /\ loop = Idle /\ pc[TtsCaller[r]] = Idle
  /\ Fault
  /\ tts_pc[r] # "bytes" /\ TtsFails(r)
  /\ UNCHANGED <<llmVars, loop, pc, conversationVars, callVars, turns>>

\* send_text fails: the recovery runs inside the TTS task.  It never returns there,
\* since it stops that very task: it is wedged, or cancelled while it waits.
SendFails(r) ==
  /\ loop = Idle /\ pc[TtsCaller[r]] = Idle /\ lock = Nobody
  /\ TtsAt(r, {"bytes"})
  /\ ~outbound_muted /\ state # "ENDED"
  /\ Fault
  /\ RunsOn(TtsCaller[r], "recover")
  /\ UNCHANGED <<llmVars, ttsVars, conversationVars, callVars, turns>>

TtsAborted(r) ==
  /\ Aborts(TtsCaller[r])
  /\ tts_cancelled[r] /\ tts_pc[r] = "bytes"
  /\ tts_pc' = [tts_pc EXCEPT ![r] = "metrics"]
  /\ tts_interrupted' = [tts_interrupted EXCEPT ![r] = TRUE]
  /\ tts_cancelled' = [tts_cancelled EXCEPT ![r] = FALSE]
  /\ stopping' = [stopping EXCEPT ![TtsCaller[r]] = NoStop]
  /\ UNCHANGED <<llmVars, tts_task, audio_sent, tts_queue, tts_left, tts_frames, stateVars,
                 history, replies, state, outbound_muted, silenceVars, watching, budget>>

\* _on_tts_playback_end: at once if the reply was cut off, else under the lock.
OnTtsPlaybackEnd(r) ==
  /\ loop = Idle
  /\ TtsPlaybackEnds(r, ~tts_interrupted[r])
  /\ UNCHANGED <<llmVars, loop, pc, conversationVars, callVars, budget>>

\* Mutant: only a call that got to SPEAKING goes back.
BackToListening_OnlySpeaking(r) ==
  /\ loop = Idle /\ lock = Nobody
  /\ TtsReturns(r)
  /\ \/ /\ state = "ENDED"
        /\ UNCHANGED <<state, is_system_speaking>>
     \/ /\ state # "ENDED"
        /\ is_system_speaking' = FALSE
        /\ state' = IF state = "SPEAKING" THEN "LISTENING" ELSE state
  /\ UNCHANGED <<llmVars, loop, pc, local, is_user_speaking, history, replies, lock,
                 outbound_muted, silenceVars, watching, budget>>

BackToListening(r) ==
  /\ loop = Idle /\ lock = Nobody
  /\ TtsReturns(r)
  /\ \/ /\ state = "ENDED"
        /\ UNCHANGED <<state, is_system_speaking>>
     \/ /\ state # "ENDED"
        /\ is_system_speaking' = FALSE
        /\ state' = IF state \in Busy THEN "LISTENING" ELSE state
  /\ UNCHANGED <<llmVars, loop, pc, local, is_user_speaking, history, replies, lock,
                 outbound_muted, silenceVars, watching, budget>>

-----------------------------------------------------------------------------
TurnStep(c) ==
  \/ ProcessPartial(c) \/ ProcessFinal(c) \/ HandleInterruption(c) \/ StartTurn(c)
  \/ WholeTurn(c) \/ CompleteTurn(c) \/ OnUserTurnStarted(c) \/ OnUserTurnCompleted(c)
  \/ OnSystemTurnStart(c) \/ SystemTurnOn(c) \/ BeginReply(c) \/ ReplyBegun(c)

CallerStep(c) ==
  \/ WaitsForLock(c) \/ Gathered(c) \/ ClearSent(c) \/ TurnStep(c)
  \/ HandleBargeIn(c) \/ BargedIn(c) \/ HandlePipelineError(c) \/ Recovered(c)
  \/ PlayFallbackTts(c) \/ UnlockSay(c) \/ Say(c) \/ Said(c)

WsStep == FeedMulaw \/ Stop \/ StopStt \/ SttJoined

LlmTask(r) == \/ LlmStep(r) \/ OnLlmSegment(r) \/ LlmNoSegment(r) \/ OnComplete(r)
              \/ LlmRecovered(r) \/ LlmAborted(r)
TtsTask(r) == \/ TtsStep(r) \/ SendAudioFrame(r) \/ TtsAborted(r) \/ OnTtsPlaybackEnd(r)
              \/ BackToListening(r)

Environment ==
  \/ Start \/ MediaArrives \/ HangUp
  \/ TranscriptArrives("partial", "Blank")
  \/ \E t \in CallTexts : TranscriptArrives("final", t)
  \/ \E t \in Spawned : OnSttError(t) \/ \E r \in Reply : Watchdog(t, r)
  \/ SilencePrompt \/ SilenceHangup
  \/ \E r \in Reply : LlmFault(r) \/ TtsFault(r) \/ SendFails(r)

System ==
  \/ \E c \in Callers : CallerStep(c)
  \/ WsStep
  \/ \E r \in Reply : LlmTask(r) \/ TtsTask(r)

Next == Environment \/ System

Spec == Init /\ [][Next]_vars

\* The event loop goes on while a task can run, and engines and sends come to an
\* end.  Each task's code is finite and every lock is handed on, so nothing more
\* needs to be said of the single tasks.  Nothing is assumed of the caller, of
\* Twilio or of the timeouts.
FairSpec == Spec /\ WF_vars(System)

-----------------------------------------------------------------------------
\* No code path asks _apply_transition for a transition its table refuses: each
\* would be dropped with a warning, and the call left in the old state.  In
\* particular ENDED is final although barge-ins, recoveries and ends of playback
\* decided before the end of the call are still under way.
AllowedTransitions ==
  [][state' # state => <<state, state'>> \in
       ({"LISTENING"} \X {"STREAMING", "PROCESSING"}) \cup
       ({"CONNECTING", "PROCESSING", "SPEAKING"} \X {"LISTENING"}) \cup
       {<<"PROCESSING", "SPEAKING">>} \cup ((State \ {"ENDED"}) \X {"ENDED"})]_vars

\* A call that listens has stopped talking: no answer to an earlier turn is being
\* spoken once a barge-in, a recovery or the end of the answer has brought the
\* call back to LISTENING.  The fixed messages are spoken in LISTENING.
ListeningIsQuiet ==
  state \in {"LISTENING", "STREAMING"} =>
    \A r \in Reply : llm_pc[r] # "none" =>
      ~(Audible(r) /\ tts_pc[r] \in {"synth", "start", "bytes", "drain"})

\* A task of the call can still do something; a TTS task with an empty queue can not.
AtWork ==
  \/ \E c \in Callers : pc[c] \notin {Idle, "done"}
  \/ \E r \in Reply : \/ LlmRuns(r)
                      \/ TtsRuns(r) /\ (tts_pc[r] = "get" => tts_cancelled[r] \/ tts_queue[r] # <<>>)

\* Unless an engine or a send has failed, a call in PROCESSING or SPEAKING has work
\* in progress that can bring it back: it never ignores the user for ever.
NotStuck == faults = 0 /\ state \in Busy => AtWork

\* Once stop has returned nothing generates or speaks, whatever was in progress:
\* replies about to begin, fallbacks, prompts and watchdogs included.
CallOverIsQuiet == pc["ws"] = "done" => \A r \in Reply : ~Audible(r) /\ ~Generates(r)

\* stop returns (call_session.py: "tear down. Idempotent. Never raises.").
StopReturnsAlways == pc["ws"] = "stop" ~> pc["ws"] = "done"

=============================================================================
