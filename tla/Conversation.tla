---------------------------- MODULE Conversation ----------------------------
(***************************************************************************)
(* What the browser session (VoiceSession) and the phone call              *)
(* (CallSession) share: the conversation state and the turn-taking rules   *)
(* (app/conversation), the bounded history, and the way a task of the      *)
(* session stops the reply in progress.                                    *)
(*                                                                         *)
(* A transcript is Blank, Whole or Unfinished (sounds_unfinished).  Of     *)
(* ConversationState the two flags are kept; turn_count, the timestamps    *)
(* and current_utterance_id are only reported.                             *)
(***************************************************************************)
EXTENDS LLMConsumer, TTSConsumer

CONSTANT HistoryTurns    \* VOICE_HISTORY_TURNS

ASSUME HistoryAssumption == HistoryTurns \in Nat

VARIABLES
  local,                 \* a task's locals: text, the transcript it processes; reply, the
                         \* reply it opens or the LLM task it waits for; ret, where it goes
                         \* on when the callback returns; after, when TTSConsumer.stop does
  is_user_speaking, is_system_speaking,
  history,
  replies                \* how many replies have been opened

stateVars == <<is_user_speaking, is_system_speaking>>
conversationVars == <<local, stateVars, history, replies>>

Texts == {"Blank", "Whole", "Unfinished"}

NoLocals == [text |-> "Blank", reply |-> None, ret |-> Idle, after |-> Idle]

ConversationTypeOK(Pc) ==
  /\ LlmTypeOK /\ TtsTypeOK
  /\ loop \in Callers \cup {Idle}
  /\ pc \in [Callers -> Pc]
  /\ local \in [Callers -> [text: Texts, reply: Reply \cup {None}, ret: Pc, after: Pc]]
  /\ is_user_speaking \in BOOLEAN /\ is_system_speaking \in BOOLEAN
  /\ history \in Seq({"user", "assistant"} \X Reply) /\ Len(history) <= 2 * HistoryTurns
  /\ replies \in 0..MaxReplies

ConversationInit ==
  /\ LlmInit /\ TtsInit
  /\ loop = Idle
  /\ pc = [c \in Callers |-> Idle]
  /\ local = [c \in Callers |-> NoLocals]
  /\ is_user_speaking = FALSE /\ is_system_speaking = FALSE
  /\ history = <<>>
  /\ replies = 0

\* Task c's coroutine returns and its locals are gone.
Returns(c) == Suspends(c, Idle) /\ local' = [local EXCEPT ![c] = NoLocals]

\* A callback returns to the code of the same task that called it.
ReturnsTo(c) ==
  IF local[c].ret = Idle THEN Returns(c)
  ELSE RunsOn(c, local[c].ret) /\ local' = [local EXCEPT ![c].ret = Idle]

\* _remember: list.append, then the oldest entries beyond the limit go.
Remember(role, r) ==
  LET all == Append(history, <<role, r>>)
      overflow == Len(all) - 2 * HistoryTurns
  IN history' = IF HistoryTurns = 0 THEN history
                ELSE IF overflow > 0 THEN SubSeq(all, overflow + 1, Len(all)) ELSE all

-----------------------------------------------------------------------------
\* TurnManager.process_transcript_event.  A partial interrupts the system if it
\* is speaking and then starts the user's turn.
ReceivePartial(c) ==
  /\ Continues(c, "partial")
  /\ RunsOn(c, IF is_system_speaking THEN "interrupt" ELSE "started")
  /\ local' = [local EXCEPT ![c].ret = "started"]
  /\ UNCHANGED stateVars

\* A final completes the turn, or is a whole turn if no partial came before.
ReceiveFinal(c) ==
  /\ Continues(c, "final")
  /\ \/ /\ is_user_speaking
        /\ is_user_speaking' = FALSE
        /\ RunsOn(c, "completed")
        /\ UNCHANGED local
     \/ /\ ~is_user_speaking /\ local[c].text # "Blank"
        /\ RunsOn(c, IF is_system_speaking THEN "interrupt" ELSE "whole")
        /\ local' = [local EXCEPT ![c].ret = "whole"]
        /\ UNCHANGED is_user_speaking
     \/ /\ ~is_user_speaking /\ local[c].text = "Blank"
        /\ Returns(c)
        /\ UNCHANGED is_user_speaking
  /\ UNCHANGED is_system_speaking

\* interrupt_user and complete_system_turn
ClearTurns == is_user_speaking' = FALSE /\ is_system_speaking' = FALSE

-----------------------------------------------------------------------------
\* TTSConsumer.stop: the caller is suspended in gather if a reply is active;
\* otherwise stop returns False at once.
StopWaits(c) ==
  /\ IsActive
  /\ StopCancels(c)
  /\ Suspends(c, "gather")

StopNeedless == ~IsActive /\ UNCHANGED ttsVars

\* stop, and then the step `next` whatever it returns.
Stops(c, next) ==
  \/ StopWaits(c) /\ local' = [local EXCEPT ![c].after = next]
  \/ StopNeedless /\ RunsOn(c, next) /\ UNCHANGED local

\* stop returns True; VoiceSession._on_user_interrupted then sends barge_in.
StopReturns(c) ==
  /\ StopEnds(c)
  /\ IF local[c].after = "barge_in" THEN Suspends(c, "barge_in") ELSE RunsOn(c, local[c].after)
  /\ local' = [local EXCEPT ![c].after = Idle]

\* gather returns: the reply's task has ended; tts_clear is sent if there was audio.
StopJoins(c) ==
  /\ Resumes(c, "gather") /\ StopGathered(c)
  /\ \/ stopping[c].had_audio /\ Suspends(c, "clear") /\ UNCHANGED <<ttsVars, local>>
     \/ ~stopping[c].had_audio /\ StopReturns(c)

\* tts_clear is out.
StopClears(c) == Resumes(c, "clear") /\ StopReturns(c)

-----------------------------------------------------------------------------
\* The body of the reply's TTS task has not ended: it may still send audio.
Speaking(r) == tts_pc[r] \in {"new", "get", "synth", "start", "bytes", "drain", "end"}

\* It does, and nobody has stopped it.
Audible(r) == Speaking(r) /\ ~tts_cancelled[r]

\* The reply's LLM task goes on producing text.
Generates(r) == llm_pc[r] \in {"new", "stream", "partial", "final"} /\ ~llm_cancelled[r]

\* Two replies are never spoken at once (TTSConsumer.begin: "Any reply still in
\* progress is stopped first").
OneReplyAtATime == \A r, s \in Reply : Speaking(r) /\ Speaking(s) => r = s

\* A reply speaks only text that its own generation produced: segments go
\* through the shared TTSConsumer.speak, which knows only the current reply.
OwnWords ==
  \A r \in Reply : tts_pc[r] \in {"new", "get", "synth", "start", "bytes"} =>
    \A i \in DOMAIN tts_queue[r] :
      tts_queue[r][i] \in {r, None} \/ \E j \in 1..(i - 1) : tts_queue[r][j] = None
=============================================================================
