---------------------------- MODULE VoiceSession ----------------------------
(***************************************************************************)
(* One voice conversation (app/voice/session.py) with its turn-taking      *)
(* (app/conversation/turn_manager.py, state.py), composed with the LLM and *)
(* the TTS consumer.  Five kinds of task run the session's code:           *)
(*                                                                         *)
(*   stt    the recogniser's loop: partial and final transcripts           *)
(*   vad    the dispatcher: a speech onset found in an inbound frame       *)
(*   ws     the endpoint: development messages and, at the end, close and  *)
(*          the last transcript of STTConsumer.stop                        *)
(*   HoldTasks   expired hold timers that open the reply to a held turn    *)
(*   the LLM and the TTS task of each reply                                *)
(*                                                                         *)
(* A cancelled hold timer has no further effect, so the timers that matter *)
(* are one boolean.                                                        *)
(***************************************************************************)
EXTENDS Conversation

CONSTANTS HoldTasks,     \* bound: expired timers opening a reply at one time
          VadBargeIn,    \* VOICE_VAD_BARGE_IN
          EotHold,       \* VOICE_EOT_HOLD_MS > 0
          DevMessages,   \* voice_dev_messages_enabled
          Closes,        \* whether the connection goes away
          MaxOnsets,     \* bound: speech onsets
          MaxFaults      \* bound: failures of an engine or of a send

ASSUME SessionAssumption ==
  /\ Callers = {"stt", "vad", "ws"} \cup HoldTasks
  /\ HoldTasks \cap {Idle, "stt", "vad", "ws"} = {}
  /\ VadBargeIn \in BOOLEAN /\ EotHold \in BOOLEAN /\ DevMessages \in BOOLEAN
  /\ Closes \in BOOLEAN
  /\ MaxOnsets \in Nat /\ MaxFaults \in Nat

VARIABLES
  held,                  \* _held is not None (a held transcript sounds unfinished)
  hold_armed,            \* _hold_task is sleeping
  timing,                \* _timing: the reply it measures, or None
  injecting,             \* inject_transcript has its final still to process
  closed,                \* close has returned
  events, onsets, faults   \* how much of each bound is used

callerVars == <<loop, pc, local, injecting, closed>>
holdVars   == <<held, hold_armed>>
sessionVars == <<stateVars, holdVars, timing, history, replies>>
budget     == <<events, onsets, faults>>
vars == <<llmVars, ttsVars, callerVars, sessionVars, budget>>

Pc == {Idle, "partial", "started", "final", "whole", "completed", "turn_held",
       "interrupt", "barge_in", "reply", "begin", "say", "gather", "clear", "aclose",
       "stop", "closed"}

TypeOK ==
  /\ ConversationTypeOK(Pc)
  /\ held \in BOOLEAN /\ hold_armed \in BOOLEAN
  /\ timing \in Reply \cup {None}
  /\ injecting \in BOOLEAN /\ closed \in BOOLEAN
  /\ events \in 0..MaxReplies /\ onsets \in 0..MaxOnsets /\ faults \in 0..MaxFaults

Init ==
  /\ ConversationInit
  /\ held = FALSE /\ hold_armed = FALSE
  /\ timing = None
  /\ injecting = FALSE /\ closed = FALSE
  /\ events = 0 /\ onsets = 0 /\ faults = 0

-----------------------------------------------------------------------------
\* TurnManager.process_transcript_event

\* The recogniser's callback, or the last transcript when STT is stopped.
TranscriptArrives(c, kind, t) ==
  /\ Resumes(c, Idle)
  /\ \/ c = "stt"
     \/ c = "ws" /\ closed /\ kind = "final"
  /\ events < MaxReplies
  /\ events' = events + 1
  /\ local' = [local EXCEPT ![c].text = t]
  /\ RunsOn(c, kind)
  /\ UNCHANGED <<llmVars, ttsVars, injecting, closed, sessionVars, onsets, faults>>

\* VoiceSession.inject_transcript: the same text as a partial, then as a final.
InjectTranscript(t) ==
  /\ DevMessages /\ Resumes("ws", Idle) /\ ~closed
  /\ t # "Blank"
  /\ events < MaxReplies
  /\ events' = events + 1
  /\ local' = [local EXCEPT !["ws"].text = t]
  /\ injecting' = TRUE
  /\ RunsOn("ws", "partial")
  /\ UNCHANGED <<llmVars, ttsVars, closed, sessionVars, onsets, faults>>

ProcessPartial(c) ==
  /\ ReceivePartial(c)
  /\ UNCHANGED <<llmVars, ttsVars, injecting, closed, holdVars, timing, history, replies, budget>>

\* Mutant: the hold timer keeps running.
OnUserTurnStarted_TimerRuns == Cancel /\ UNCHANGED hold_armed

\* _on_user_turn_started: new speech cancels the generation and the timer.
OnUserTurnStarted == Cancel /\ hold_armed' = FALSE

\* The partial is processed; inject_transcript goes on with its final.
PartialReturns(c) ==
  \/ /\ c = "ws" /\ injecting
     /\ RunsOn(c, "final")
     /\ injecting' = FALSE
     /\ UNCHANGED local
  \/ /\ ~(c = "ws" /\ injecting)
     /\ Returns(c)
     /\ UNCHANGED injecting

StartTurn(c) ==
  /\ Continues(c, "started")
  /\ \/ /\ ~is_user_speaking
        /\ is_user_speaking' = TRUE
        /\ OnUserTurnStarted
     \/ /\ is_user_speaking
        /\ UNCHANGED <<is_user_speaking, hold_armed, llmVars>>
  /\ PartialReturns(c)
  /\ UNCHANGED <<ttsVars, closed, is_system_speaking, held, timing, history, replies, budget>>

ProcessFinal(c) ==
  /\ ReceiveFinal(c)
  /\ UNCHANGED <<llmVars, ttsVars, injecting, closed, holdVars, timing, history, replies, budget>>

\* A final without a partial: the turn starts and completes in one go.
WholeTurn(c) ==
  /\ Continues(c, "whole")
  /\ OnUserTurnStarted
  /\ is_user_speaking' = FALSE
  /\ RunsOn(c, "completed")
  /\ UNCHANGED <<ttsVars, local, injecting, closed, is_system_speaking, held, timing,
                 history, replies, budget>>

-----------------------------------------------------------------------------
\* Barge-in

\* VoiceSession.process_audio_frame, when the VAD reports a speech onset.
SpeechOnset ==
  /\ VadBargeIn /\ Resumes("vad", Idle)
  /\ onsets < MaxOnsets
  /\ onsets' = onsets + 1
  /\ \/ /\ is_system_speaking
        /\ RunsOn("vad", "interrupt")
        /\ UNCHANGED hold_armed
     \/ /\ ~is_system_speaking
        /\ hold_armed' = (hold_armed \/ held)
        /\ UNCHANGED <<loop, pc>>
  /\ UNCHANGED <<llmVars, ttsVars, local, injecting, closed, stateVars, held, timing, history,
                 replies, events, faults>>

\* Mutant: a barge-in cancels the generation and lets the speech run on.
HandleInterruption_KeepsTalking(c) ==
  /\ Continues(c, "interrupt")
  /\ ClearTurns
  /\ Cancel
  /\ ReturnsTo(c)
  /\ UNCHANGED <<ttsVars, injecting, closed, holdVars, timing, history, replies, budget>>

\* handle_interruption and _on_user_interrupted up to the stop of the speech.
HandleInterruption(c) ==
  /\ Continues(c, "interrupt")
  /\ ClearTurns
  /\ Cancel
  /\ \/ StopWaits(c) /\ local' = [local EXCEPT ![c].after = "barge_in"]
     \/ StopNeedless /\ ReturnsTo(c)
  /\ UNCHANGED <<injecting, closed, holdVars, timing, history, replies, budget>>

Gathered(c) ==
  /\ StopJoins(c)
  /\ UNCHANGED <<llmVars, injecting, closed, sessionVars, budget>>

ClearSent(c) ==
  /\ StopClears(c)
  /\ UNCHANGED <<llmVars, injecting, closed, sessionVars, budget>>

BargeInSent(c) ==
  /\ Resumes(c, "barge_in")
  /\ ReturnsTo(c)
  /\ UNCHANGED <<llmVars, ttsVars, injecting, closed, sessionVars, budget>>

-----------------------------------------------------------------------------
\* The reply

\* The transcript joined to the part that was held, which sounded unfinished.
Joined(t) == IF held /\ t = "Blank" THEN "Unfinished" ELSE t

\* Mutant: an empty transcript is ignored before it is joined to the held one.
OnUserTurnCompleted_BlankFirst(c) ==
  /\ Continues(c, "completed")
  /\ LET t == Joined(local[c].text)
         hold == EotHold /\ t = "Unfinished"
     IN \/ local[c].text = "Blank" /\ Returns(c) /\ UNCHANGED holdVars
        \/ /\ local[c].text # "Blank" /\ held' = hold /\ hold_armed' = hold
           /\ IF hold THEN Suspends(c, "turn_held") ELSE RunsOn(c, "reply")
           /\ UNCHANGED local
  /\ UNCHANGED <<llmVars, ttsVars, injecting, closed, stateVars, timing, history, replies, budget>>

\* _on_user_turn_completed: ignore, hold back or answer the turn.
OnUserTurnCompleted(c) ==
  /\ Continues(c, "completed")
  /\ LET t == Joined(local[c].text)
         hold == EotHold /\ t = "Unfinished"
     IN /\ held' = hold
        /\ hold_armed' = hold
        /\ \/ t = "Blank" /\ Returns(c)
           \/ hold /\ Suspends(c, "turn_held") /\ UNCHANGED local
           \/ t # "Blank" /\ ~hold /\ RunsOn(c, "reply") /\ UNCHANGED local
  /\ UNCHANGED <<llmVars, ttsVars, injecting, closed, stateVars, timing, history, replies, budget>>

TurnHeldSent(c) ==
  /\ Resumes(c, "turn_held")
  /\ Returns(c)
  /\ UNCHANGED <<llmVars, ttsVars, injecting, closed, sessionVars, budget>>

\* _release_held_turn: the timer expires.
HoldExpires(h) ==
  /\ Resumes(h, Idle) /\ hold_armed
  /\ hold_armed' = FALSE
  /\ held' = FALSE
  /\ IF held THEN RunsOn(h, "reply") ELSE UNCHANGED <<loop, pc>>
  /\ UNCHANGED <<llmVars, ttsVars, local, injecting, closed, stateVars, timing, history,
                 replies, budget>>

\* _reply up to the stop of the reply in progress inside tts.begin.  A reply
\* answers a transcript, so the bound on transcripts never refuses one.
StartReply(c) ==
  /\ Continues(c, "reply")
  /\ replies < MaxReplies
  /\ replies' = replies + 1
  /\ timing' = replies + 1
  /\ Remember("user", replies + 1)
  /\ is_system_speaking' = TRUE
  /\ \/ /\ StopWaits(c)
        /\ local' = [local EXCEPT ![c].reply = replies + 1, ![c].after = "begin"]
     \/ /\ StopNeedless
        /\ RunsOn(c, "begin")
        /\ local' = [local EXCEPT ![c].reply = replies + 1]
  /\ UNCHANGED <<llmVars, injecting, closed, is_user_speaking, holdVars, budget>>

\* The rest of tts.begin, and llm.start_generation.
BeginReply(c) ==
  /\ Continues(c, "begin")
  /\ Begin(local[c].reply, <<>>)
  /\ StartGeneration(local[c].reply)
  /\ Returns(c)
  /\ UNCHANGED <<injecting, closed, sessionVars, budget>>

\* VoiceSession.speak_text (a development message).
SpeakText ==
  /\ DevMessages /\ Resumes("ws", Idle) /\ ~closed
  /\ events < MaxReplies /\ replies < MaxReplies
  /\ events' = events + 1
  /\ replies' = replies + 1
  /\ timing' = None
  /\ is_system_speaking' = TRUE
  /\ \/ /\ StopWaits("ws")
        /\ local' = [local EXCEPT !["ws"].reply = replies + 1, !["ws"].after = "say"]
     \/ /\ StopNeedless
        /\ RunsOn("ws", "say")
        /\ local' = [local EXCEPT !["ws"].reply = replies + 1]
  /\ UNCHANGED <<llmVars, injecting, closed, is_user_speaking, holdVars, history, onsets, faults>>

\* start_speaking after the stop: begin, speak and finish do not suspend.
StartSpeaking ==
  /\ Continues("ws", "say")
  /\ Begin(local["ws"].reply, <<local["ws"].reply, None>>)
  /\ Returns("ws")
  /\ UNCHANGED <<llmVars, injecting, closed, sessionVars, budget>>

-----------------------------------------------------------------------------
\* VoiceSession.close, called by the endpoint when the connection goes away.

Close ==
  /\ Closes /\ Resumes("ws", Idle) /\ ~closed
  /\ hold_armed' = FALSE
  /\ held' = FALSE
  /\ Cancel
  /\ \/ /\ IsGenerating
        /\ Suspends("ws", "aclose")
        /\ local' = [local EXCEPT !["ws"].reply = llm_task]
     \/ /\ ~IsGenerating
        /\ RunsOn("ws", "stop")
        /\ UNCHANGED local
  /\ UNCHANGED <<ttsVars, injecting, closed, stateVars, timing, history, replies, budget>>

LlmClosed ==
  /\ Resumes("ws", "aclose") /\ llm_pc[local["ws"].reply] = "done"
  /\ RunsOn("ws", "stop")
  /\ UNCHANGED <<llmVars, ttsVars, local, injecting, closed, sessionVars, budget>>

CloseSpeech ==
  /\ Continues("ws", "stop")
  /\ Stops("ws", "closed")
  /\ UNCHANGED <<llmVars, injecting, closed, sessionVars, budget>>

CloseReturns ==
  /\ Continues("ws", "closed")
  /\ closed' = TRUE
  /\ Returns("ws")
  /\ UNCHANGED <<llmVars, ttsVars, injecting, sessionVars, budget>>

-----------------------------------------------------------------------------
\* The LLM task of reply r, with the session's callbacks.

LlmStep(r) ==
  /\ loop = Idle
  /\ LlmFirstStep(r) \/ LlmToken(r) \/ LlmInterrupted(r) \/ LlmNeverRan(r)
  /\ UNCHANGED <<ttsVars, callerVars, sessionVars, budget>>

\* on_segment: what the chunker yields is spoken.
LlmSegment(r) ==
  /\ loop = Idle
  /\ \/ LlmPartialSent(r)
     \/ LlmStreamEnds(r) /\ llm_parts[r] > 0
  /\ Speak(r)
  /\ UNCHANGED <<callerVars, sessionVars, budget>>

LlmNoSegment(r) ==
  /\ loop = Idle
  /\ LlmPartialSent(r) \/ LlmStreamEnds(r)
  /\ UNCHANGED <<ttsVars, callerVars, sessionVars, budget>>

LlmFault(r) ==
  /\ loop = Idle
  /\ faults < MaxFaults /\ faults' = faults + 1
  /\ LlmFails(r)
  /\ UNCHANGED <<ttsVars, callerVars, sessionVars, events, onsets>>

\* Mutant: a cancelled generation finishes the speech too.
OnComplete_AlwaysFinishes(r) ==
  /\ loop = Idle
  /\ LlmCompletes(r)
  /\ IF llm_parts[r] > 0 THEN Remember("assistant", r) ELSE UNCHANGED history
  /\ Finish
  /\ UNCHANGED <<callerVars, stateVars, holdVars, timing, replies, budget>>

\* Mutant: an empty answer does not finish the speech.
OnComplete_TextOnly(r) ==
  /\ loop = Idle
  /\ LlmCompletes(r)
  /\ IF llm_parts[r] > 0 THEN Remember("assistant", r) ELSE UNCHANGED history
  /\ IF llm_outcome[r] # "cancelled" /\ llm_parts[r] > 0 THEN Finish ELSE UNCHANGED ttsVars
  /\ UNCHANGED <<callerVars, stateVars, holdVars, timing, replies, budget>>

\* on_complete: the answer, whole or cut short, joins the history, and the
\* speech is told that no more text comes unless the generation was cancelled.
OnComplete(r) ==
  /\ loop = Idle
  /\ LlmCompletes(r)
  /\ IF llm_parts[r] > 0 THEN Remember("assistant", r) ELSE UNCHANGED history
  /\ IF llm_outcome[r] # "cancelled" THEN Finish ELSE UNCHANGED ttsVars
  /\ UNCHANGED <<callerVars, stateVars, holdVars, timing, replies, budget>>

-----------------------------------------------------------------------------
\* The TTS task of reply r, with the session's callback.

TtsStep(r) ==
  /\ loop = Idle
  /\ \/ TtsFirstStep(r) \/ TtsGets(r) \/ TtsSegmentEnds(r) \/ TtsFrame(r)
     \/ TtsFrameSent(r) \/ TtsSent(r) \/ TtsInterrupted(r) \/ TtsAbandoned(r)
  /\ UNCHANGED <<llmVars, callerVars, sessionVars, budget>>

TtsFault(r) ==
  /\ loop = Idle
  /\ faults < MaxFaults /\ faults' = faults + 1
  /\ TtsFails(r)
  /\ UNCHANGED <<llmVars, callerVars, sessionVars, events, onsets>>

\* The end of _on_playback_end: the system turn is over if the reply was heard
\* to its end and no other reply has taken its place.
EndSystemTurn(r) ==
  is_system_speaking' = (is_system_speaking
    /\ ~(~tts_interrupted[r] /\ ~IsGenerating /\ CurrentUtteranceId \in {None, r}))

\* _on_playback_end: the turn's timing is reported first, if it is this reply's.
OnPlaybackEnd(r) ==
  /\ loop = Idle
  /\ \/ /\ timing = r
        /\ TtsPlaybackEnds(r, TRUE)
        /\ UNCHANGED is_system_speaking
     \/ /\ timing # r
        /\ TtsPlaybackEnds(r, FALSE)
        /\ EndSystemTurn(r)
  /\ UNCHANGED <<llmVars, callerVars, is_user_speaking, holdVars, timing, history, replies, budget>>

TurnMetricsSent(r) ==
  /\ loop = Idle
  /\ TtsReturns(r)
  /\ timing' = None
  /\ EndSystemTurn(r)
  /\ UNCHANGED <<llmVars, callerVars, is_user_speaking, holdVars, history, replies, budget>>

-----------------------------------------------------------------------------
CallerStep(c) ==
  \/ ProcessPartial(c) \/ StartTurn(c) \/ ProcessFinal(c) \/ WholeTurn(c)
  \/ HandleInterruption(c) \/ Gathered(c) \/ ClearSent(c) \/ BargeInSent(c)
  \/ OnUserTurnCompleted(c) \/ TurnHeldSent(c) \/ StartReply(c) \/ BeginReply(c)

CloseStep == LlmClosed \/ CloseSpeech \/ CloseReturns

LlmTask(r) == LlmStep(r) \/ LlmSegment(r) \/ LlmNoSegment(r) \/ OnComplete(r)
TtsTask(r) == TtsStep(r) \/ OnPlaybackEnd(r) \/ TurnMetricsSent(r)

Environment ==
  \/ \E c \in Callers : \/ TranscriptArrives(c, "partial", "Blank")
                       \/ \E t \in Texts : TranscriptArrives(c, "final", t)
  \/ \E t \in Texts : InjectTranscript(t)
  \/ SpeechOnset \/ SpeakText \/ Close
  \/ \E r \in Reply : LlmFault(r) \/ TtsFault(r)

Next ==
  \/ Environment
  \/ \E c \in Callers : CallerStep(c)
  \/ \E h \in HoldTasks : HoldExpires(h)
  \/ StartSpeaking \/ CloseStep
  \/ \E r \in Reply : LlmTask(r) \/ TtsTask(r)

Spec == Init /\ [][Next]_vars

-----------------------------------------------------------------------------
\* Every task that can run is resumed, engines and sends come to an end (each
\* provider request has a timeout) and a hold timer that is left alone expires.
\* Nothing is assumed of the user, the socket or the VAD.
FairSpec ==
  /\ Spec
  /\ \A c \in Callers : WF_vars(CallerStep(c))
  /\ WF_vars(StartSpeaking \/ CloseStep)
  /\ \A h \in HoldTasks : WF_vars(HoldExpires(h))
  /\ \A r \in Reply : WF_vars(LlmTask(r)) /\ WF_vars(TtsTask(r))

-----------------------------------------------------------------------------
\* While a reply is being generated or played the user can stop it: both paths
\* of barge-in ask is_system_speaking first.
Interruptible == loop = Idle => \A r \in Reply : Audible(r) => is_system_speaking

\* The user's turn belongs to the user: no reply is generated or spoken in it.
UserTurnIsQuiet ==
  loop = Idle /\ is_user_speaking => \A r \in Reply : ~Generates(r) /\ ~Audible(r)

\* A reply's speech comes to its regular end only when its text is complete, unless
\* something failed: on_complete of a failed generation finishes the current reply.
EndsWithItsText ==
  faults = 0 => \A r \in Reply :
    tts_pc[r] \in {"drain", "end", "metrics"} /\ ~tts_interrupted[r] => ~Generates(r)

\* The system's turn does not last for ever, unless an engine or a send failed:
\* a reply cut short by an error leaves the turn to the next barge-in.
SystemTurnEnds == is_system_speaking ~> ~is_system_speaking \/ faults > 0

\* A held turn is answered, or the user goes on talking: whatever cancels the
\* timer starts it again or completes the turn.  This is so as long as no
\* development message is spoken into the user's turn, where an onset that cuts
\* it off clears the turn and leaves the held one without a timer.
HeldTurnAnswered == held ~> (~held \/ is_user_speaking)
=============================================================================
