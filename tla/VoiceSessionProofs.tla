------------------------- MODULE VoiceSessionProofs -------------------------
(***************************************************************************)
(* Proofs about VoiceSession, for any number of transcripts, onsets, hold  *)
(* timers and failures.                                                    *)
(*                                                                         *)
(* With every feature on: a reply speaks its own words, and all of them.   *)
(* Until the connection goes away and without development messages: two    *)
(* replies never speak at once if fast barge-in or the hold of unfinished  *)
(* turns is off, and without fast barge-in what is being spoken can be     *)
(* interrupted and is silent in the user's turn.                           *)
(***************************************************************************)
EXTENDS VoiceSession, ConversationProofs

-----------------------------------------------------------------------------
(* The inductive invariant: what holds with every feature on *)

\* The step task c is at, or the one it goes to when TTSConsumer.stop returns.
InStop == {"gather", "clear"}
GoesTo(c) == IF pc[c] \in InStop THEN local[c].after ELSE pc[c]

\* The code of a task that is not at an await that can suspend runs on.
Running ==
  \A c \in Callers : pc[c] \notin InStop \cup {Idle, "turn_held", "barge_in", "aclose"} => loop = c

\* A callback returns to process_transcript_event, or its task ends.
Called == \A c \in Callers : local[c].ret \in {Idle, "started", "whole"}

\* A task that is about to begin a reply has its number to itself.
Opening(c) == GoesTo(c) \in {"begin", "say"}

Numbered ==
  /\ \A c \in Callers : Opening(c) => /\ local[c].reply \in 1..replies
                                      /\ llm_pc[local[c].reply] = "none"
                                      /\ tts_pc[local[c].reply] = "none"
  /\ \A c, d \in Callers :
       Opening(c) /\ Opening(d) /\ local[c].reply = local[d].reply => c = d
  /\ \A r \in Reply : llm_pc[r] # "none" \/ tts_pc[r] # "none" => r <= replies

\* start_generation cancels the generation before it.
Latest == \A r \in Reply : Generates(r) => r = llm_task

\* Only a fixed text is current without a generation of its own; it was queued whole.
Fixed ==
  tts_task \in Reply /\ tts_task # llm_task /\ Early(tts_task) => Ends(tts_task)

\* The messages a task sends tell how it got there.
Outcomes ==
  \A r \in Reply : /\ llm_pc[r] = "cancelled" => llm_outcome[r] = "cancelled"
                   /\ llm_pc[r] = "error" => faults > 0
                   /\ tts_pc[r] = "error" => tts_interrupted[r]

\* Unless something failed, the end of a reply's text comes after its generation.
Complete ==
  faults = 0 => \A r \in Reply : Early(r) /\ Ends(r) => ~Generates(r)

Words == Latest /\ Fixed /\ OwnWords /\ Outcomes /\ Complete /\ EndsWithItsText

-----------------------------------------------------------------------------
(* What holds while the connection is open, without development messages *)

Silent == \A r \in Reply : ~TtsRuns(r)

\* The endpoint is not in close and has not been.
Open == ~closed /\ pc["ws"] = Idle

\* What a task of each kind runs of the session's code.
Role(c) ==
  /\ pc[c] # "say" /\ (pc[c] \in InStop => local[c].after \in {"begin", "barge_in", "closed"})
  /\ c = "ws" /\ ~closed => GoesTo(c) \in {Idle, "aclose", "stop", "closed"}
  /\ c = "vad" => /\ GoesTo(c) \in {Idle, "interrupt", "barge_in"} /\ local[c].ret = Idle
                  /\ ~VadBargeIn => pc[c] = Idle
  /\ c \in HoldTasks => /\ GoesTo(c) \in {Idle, "reply", "begin"}
                        /\ ~EotHold => pc[c] = Idle

Roles ==
  /\ \A c \in Callers : Role(c)
  /\ ~EotHold => ~held /\ ~hold_armed

\* A task that begins a reply has stopped the one in progress.
Stopping(c) ==
  /\ pc[c] = "gather" /\ GoesTo(c) = "begin" => stopping[c].target = tts_task
  /\ pc[c] # "gather" /\ GoesTo(c) = "begin" => Silent

\* If anything can come in between, only the recogniser's task opens replies.
OneOpener ==
  \A c \in Callers : GoesTo(c) = "begin" /\ loop # c => c = "stt" /\ ~EotHold

OneVoice == \A r \in Reply : TtsRuns(r) => r = tts_task

Steady == OneVoice /\ OneOpener /\ \A c \in Callers : Stopping(c)

-----------------------------------------------------------------------------
(* What holds if in addition fast barge-in is off *)

\* The recogniser's task interrupts the system.
Interrupts == pc["stt"] \in InStop \cup {"interrupt", "barge_in"}

\* A reply is begun with no user's turn and no timer under way.
Take(c) ==
  pc[c] \in {"completed", "reply", "begin"} =>
    /\ Silent /\ ~is_user_speaking
    /\ pc[c] \in {"reply", "begin"} => ~hold_armed
    /\ pc[c] = "begin" <=> is_system_speaking
    /\ c # "stt" => ~Interrupts /\ pc["stt"] \notin {"started", "whole"}

Taking == \A c \in Callers : Take(c)

\* The user's turn, and the pause of a turn that is held.
UserTurn ==
  is_user_speaking => /\ Silent /\ ~hold_armed /\ ~is_system_speaking
                      /\ \A r \in Reply : ~Generates(r)

Pause == hold_armed => Silent /\ ~is_system_speaking /\ ~Interrupts

\* Nothing starts before the interruption is done.
Interrupting ==
  /\ Interrupts => local["stt"].ret \in {"started", "whole"}
  /\ pc["stt"] \in InStop => local["stt"].after = "barge_in"
  /\ pc["stt"] = "gather" => stopping["stt"].target = tts_task
  /\ pc["stt"] \in InStop \cup {"barge_in", "started", "whole"} => ~is_system_speaking
  /\ pc["stt"] \in {"clear", "barge_in", "started", "whole"} => Silent
  /\ pc["stt"] \in InStop \cup {"barge_in", "whole"} => ~is_user_speaking

\* Whatever is spoken can be interrupted; the rest of its task is in the system's
\* turn too, or is being waited for.
Interruption ==
  \A r \in Reply : /\ Audible(r) => is_system_speaking
                   /\ TtsRuns(r) => is_system_speaking \/ pc["stt"] = "gather"

Polite == Taking /\ UserTurn /\ Pause /\ Interrupting /\ Interruption

Inv ==
  /\ TypeOK /\ Framed /\ Running /\ Called /\ Numbered /\ Words
  /\ ~DevMessages => Roles
  /\ ~DevMessages /\ (~VadBargeIn \/ ~EotHold) /\ Open => Steady
  /\ ~DevMessages /\ ~VadBargeIn /\ Open => Polite

-----------------------------------------------------------------------------
(* Types *)

\* TypeOK without the consumers' and the tasks' part.
Flags ==
  /\ is_user_speaking \in BOOLEAN /\ is_system_speaking \in BOOLEAN
  /\ HistoryOK
  /\ replies \in 0..MaxReplies
  /\ held \in BOOLEAN /\ hold_armed \in BOOLEAN
  /\ timing \in Reply \cup {None}
  /\ injecting \in BOOLEAN /\ closed \in BOOLEAN
  /\ events \in 0..MaxReplies /\ onsets \in 0..MaxOnsets /\ faults \in 0..MaxFaults

LEMMA TypeParts == TypeOK <=> LlmTypeOK /\ TtsTypeOK /\ PlacedIn(Pc) /\ Flags
BY DEF TypeOK, ConversationTypeOK, Flags, HistoryOK, PlacedIn, LocalsOf

LEMMA Names ==
  /\ {"stt", "vad", "ws"} \cup HoldTasks \subseteq Callers
  /\ \A h \in HoldTasks : h \notin {"stt", "vad", "ws"}
  /\ Idle \notin Callers
  /\ \A c \in Callers : c \in {"stt", "vad", "ws"} \/ c \in HoldTasks
BY SessionAssumption DEF Idle

LEMMA Steps ==
  \A to \in {Idle, "partial", "started", "final", "whole", "completed", "turn_held",
             "interrupt", "barge_in", "reply", "begin", "say", "gather", "clear", "aclose",
             "stop", "closed"} : to \in Pc
BY DEF Pc

\* A step that runs operations of the consumers and keeps the rest in its types.
Typed == LlmOperation /\ TtsOperation /\ PlacedIn(Pc)' /\ Flags'

LEMMA TypedStep ==
  ASSUME TypeOK, Typed
  PROVE  TypeOK'
<1>1. LlmTypeOK' /\ TtsTypeOK'
  BY TypeParts, LlmTypes, TtsTypes DEF Typed
<1>2. PlacedIn(Pc)' /\ Flags'
  BY DEF Typed
<1> QED
  BY <1>1, <1>2 DEF TypeOK, ConversationTypeOK, Flags, HistoryOK, PlacedIn, LocalsOf

\* The moves of a task, in the steps of the session.
LEMMA Moves ==
  ASSUME PlacedIn(Pc), NEW c \in Callers, NEW to \in Pc, RunsOn(c, to) \/ Suspends(c, to),
         local' \in [Callers -> LocalsOf(Pc)]
  PROVE  PlacedIn(Pc)'
<1>1. pc' \in [Callers -> Pc] /\ loop' \in Callers \cup {Idle}
  BY TaskMoves
<1> QED
  BY <1>1 DEF PlacedIn, LocalsOf

LEMMA LocalUpdates ==
  ASSUME PlacedIn(Pc), NEW c \in Callers
  PROVE  /\ local \in [Callers -> LocalsOf(Pc)]
         /\ \A x \in Pc : /\ [local EXCEPT ![c].ret = x] \in [Callers -> LocalsOf(Pc)]
                          /\ [local EXCEPT ![c].after = x] \in [Callers -> LocalsOf(Pc)]
         /\ \A x \in Texts : [local EXCEPT ![c].text = x] \in [Callers -> LocalsOf(Pc)]
         /\ \A x \in Reply \cup {None} :
              [local EXCEPT ![c].reply = x] \in [Callers -> LocalsOf(Pc)]
         /\ \A x \in Reply \cup {None}, y \in Pc :
              [local EXCEPT ![c].reply = x, ![c].after = y] \in [Callers -> LocalsOf(Pc)]
<1>1. Idle \in Pc /\ local \in [Callers -> LocalsOf(Pc)]
  BY DEF Pc, PlacedIn
<1> QED
  BY <1>1, LocalUpdated

LEMMA Returned ==
  ASSUME PlacedIn(Pc), NEW c \in Callers, Returns(c) \/ ReturnsTo(c)
  PROVE  PlacedIn(Pc)'
BY Steps, TaskReturns

\* The processing of a transcript and the interruption of the system.
LEMMA TurnTypes ==
  ASSUME TypeOK, NEW c \in Callers,
         \/ ProcessPartial(c) \/ StartTurn(c) \/ ProcessFinal(c) \/ WholeTurn(c)
         \/ HandleInterruption(c) \/ Gathered(c) \/ ClearSent(c) \/ BargeInSent(c)
         \/ OnUserTurnCompleted(c) \/ TurnHeldSent(c)
  PROVE  Typed
<1>1. PlacedIn(Pc) /\ Flags
  BY TypeParts
<1>2. local \in [Callers -> LocalsOf(Pc)]
  BY <1>1, LocalUpdates
<1> USE DEF Typed, LlmOperation, TtsOperation, stateVars, holdVars, budget, sessionVars
<1>3. CASE ProcessPartial(c)
  <2>1. PlacedIn(Pc)'
    BY <1>1, <1>3, Moves, Steps, LocalUpdates DEF ProcessPartial, ReceivePartial
  <2> QED
    BY <1>1, <1>3, <2>1 DEF ProcessPartial, ReceivePartial, Flags, HistoryOK
<1>4. CASE StartTurn(c)
  <2>1. PlacedIn(Pc)' /\ injecting' \in BOOLEAN
    <3>1. CASE RunsOn(c, "final") /\ injecting' = FALSE /\ UNCHANGED local
      BY <1>1, <1>2, <3>1, Moves, Steps
    <3>2. CASE Returns(c) /\ UNCHANGED injecting
      BY <1>1, <3>2, Returned DEF Flags
    <3> QED
      BY <1>4, <3>1, <3>2 DEF StartTurn, PartialReturns
  <2>2. LlmOperation
    BY <1>4 DEF StartTurn, OnUserTurnStarted
  <2>3. is_user_speaking' \in BOOLEAN /\ hold_armed' \in BOOLEAN
    BY <1>1, <1>4 DEF StartTurn, OnUserTurnStarted, Flags
  <2> QED
    BY <1>1, <1>4, <2>1, <2>2, <2>3 DEF StartTurn, Flags, HistoryOK
<1>5. CASE ProcessFinal(c)
  <2>1. PlacedIn(Pc)' /\ is_user_speaking' \in BOOLEAN
    <3>1. CASE RunsOn(c, "completed") /\ UNCHANGED local /\ is_user_speaking' = FALSE
      BY <1>1, <1>2, <3>1, Moves, Steps
    <3>2. CASE /\ RunsOn(c, IF is_system_speaking THEN "interrupt" ELSE "whole")
               /\ local' = [local EXCEPT ![c].ret = "whole"]
               /\ UNCHANGED is_user_speaking
      BY <1>1, <3>2, Moves, Steps, LocalUpdates DEF Flags
    <3>3. CASE Returns(c) /\ UNCHANGED is_user_speaking
      BY <1>1, <3>3, Returned DEF Flags
    <3> QED
      BY <1>5, <3>1, <3>2, <3>3 DEF ProcessFinal, ReceiveFinal
  <2> QED
    BY <1>1, <1>5, <2>1 DEF ProcessFinal, ReceiveFinal, Flags, HistoryOK
<1>6. CASE WholeTurn(c)
  <2>1. PlacedIn(Pc)'
    BY <1>1, <1>2, <1>6, Moves, Steps DEF WholeTurn
  <2> QED
    BY <1>1, <1>6, <2>1 DEF WholeTurn, OnUserTurnStarted, Flags, HistoryOK
<1>7. CASE HandleInterruption(c)
  <2>1. PlacedIn(Pc)' /\ TtsOperation
    <3>1. CASE StopWaits(c) /\ local' = [local EXCEPT ![c].after = "barge_in"]
      <4>1. PlacedIn(Pc)'
        BY <1>1, <3>1, Moves, Steps, LocalUpdates DEF StopWaits
      <4> QED
        BY <3>1, <4>1 DEF StopWaits
    <3>2. CASE StopNeedless /\ ReturnsTo(c)
      BY <1>1, <3>2, Returned DEF StopNeedless
    <3> QED
      BY <1>7, <3>1, <3>2 DEF HandleInterruption
  <2> QED
    BY <1>1, <1>7, <2>1 DEF HandleInterruption, ClearTurns, Flags, HistoryOK
<1>8. CASE Gathered(c) \/ ClearSent(c)
  <2>1. {Idle, "clear"} \subseteq Pc
    BY Steps
  <2>2. PlacedIn(Pc)' /\ TtsOperation
    BY <1>1, <1>8, <2>1, TaskStopWent DEF Gathered, ClearSent
  <2> QED
    BY <1>1, <1>8, <2>2 DEF Gathered, ClearSent, Flags, HistoryOK
<1>9. CASE BargeInSent(c) \/ TurnHeldSent(c)
  <2>1. PlacedIn(Pc)'
    BY <1>1, <1>9, Returned DEF BargeInSent, TurnHeldSent
  <2> QED
    BY <1>1, <1>9, <2>1 DEF BargeInSent, TurnHeldSent, Flags, HistoryOK
<1>10. CASE OnUserTurnCompleted(c)
  <2>1. PlacedIn(Pc)'
    <3>1. CASE Returns(c)
      BY <1>1, <3>1, Returned
    <3>2. CASE Suspends(c, "turn_held") /\ UNCHANGED local
      BY <1>1, <1>2, <3>2, Moves, Steps
    <3>3. CASE RunsOn(c, "reply") /\ UNCHANGED local
      BY <1>1, <1>2, <3>3, Moves, Steps
    <3> QED
      BY <1>10, <3>1, <3>2, <3>3 DEF OnUserTurnCompleted
  <2>2. held' \in BOOLEAN /\ hold_armed' \in BOOLEAN
    BY <1>10, SessionAssumption DEF OnUserTurnCompleted
  <2> QED
    BY <1>1, <1>10, <2>1, <2>2 DEF OnUserTurnCompleted, Flags, HistoryOK
<1> QED
  BY <1>3, <1>4, <1>5, <1>6, <1>7, <1>8, <1>9, <1>10

\* A reply is opened and begun.
LEMMA ReplyTypes ==
  ASSUME TypeOK, Numbered, NEW c \in Callers,
         \/ StartReply(c) \/ BeginReply(c)
         \/ c = "ws" /\ (SpeakText \/ StartSpeaking)
  PROVE  Typed
<1>1. PlacedIn(Pc) /\ Flags
  BY TypeParts
<1> USE DEF Typed, LlmOperation, TtsOperation, stateVars, holdVars, budget, sessionVars
<1>2. ASSUME Opening(c) PROVE local[c].reply \in Reply
  BY <1>1, <1>2, RepliesAssumption DEF Numbered, Flags, Reply
<1>3. ASSUME replies < MaxReplies, replies' = replies + 1
      PROVE  replies + 1 \in Reply /\ replies' \in 0..MaxReplies
  BY <1>1, <1>3, RepliesAssumption DEF Flags, Reply
<1>4. ASSUME NEW next \in Pc, replies + 1 \in Reply,
             \/ StopWaits(c) /\ local' = [local EXCEPT ![c].reply = replies + 1, ![c].after = next]
             \/ /\ StopNeedless /\ RunsOn(c, next)
                /\ local' = [local EXCEPT ![c].reply = replies + 1]
      PROVE  PlacedIn(Pc)' /\ TtsOperation
  <2>1. local' \in [Callers -> LocalsOf(Pc)]
    BY <1>1, <1>4, LocalUpdates
  <2>2. PlacedIn(Pc)'
    BY <1>1, <1>4, <2>1, Moves, Steps DEF StopWaits
  <2> QED
    BY <1>4, <2>2 DEF StopWaits, StopNeedless
<1>5. CASE StartReply(c)
  <2>1. replies + 1 \in Reply /\ replies' \in 0..MaxReplies
    BY <1>3, <1>5 DEF StartReply
  <2>2. PlacedIn(Pc)' /\ TtsOperation
    BY <1>4, <1>5, <2>1, Steps DEF StartReply
  <2>3. HistoryOK'
    BY <1>1, <1>5, <2>1, Remembered DEF StartReply, Flags
  <2> QED
    BY <1>1, <1>5, <2>1, <2>2, <2>3 DEF StartReply, Flags
<1>6. CASE BeginReply(c)
  <2>1. local[c].reply \in Reply /\ <<>> \in Seq(Reply \cup {None})
    BY <1>2, <1>6 DEF BeginReply, Continues, Opening, GoesTo, InStop
  <2>2. TtsOperation /\ LlmOperation
    BY <1>6, <2>1 DEF BeginReply
  <2>3. PlacedIn(Pc)'
    BY <1>1, <1>6, Returned DEF BeginReply
  <2> QED
    BY <1>1, <1>6, <2>2, <2>3 DEF BeginReply, Flags, HistoryOK
<1>7. CASE c = "ws" /\ SpeakText
  <2>1. replies + 1 \in Reply /\ replies' \in 0..MaxReplies
    BY <1>3, <1>7 DEF SpeakText
  <2>2. PlacedIn(Pc)' /\ TtsOperation
    BY <1>4, <1>7, <2>1, Steps DEF SpeakText
  <2>3. events' \in 0..MaxReplies
    BY <1>1, <1>7, RepliesAssumption DEF SpeakText, Flags
  <2> QED
    BY <1>1, <1>7, <2>1, <2>2, <2>3 DEF SpeakText, Flags, HistoryOK
<1>8. CASE c = "ws" /\ StartSpeaking
  <2>1. local[c].reply \in Reply
    BY <1>2, <1>8 DEF StartSpeaking, Continues, Opening, GoesTo, InStop
  <2>2. <<local[c].reply, None>> \in Seq(Reply \cup {None})
    BY <2>1
  <2>3. TtsOperation
    BY <1>8, <2>1, <2>2 DEF StartSpeaking
  <2>4. PlacedIn(Pc)'
    BY <1>1, <1>8, Returned DEF StartSpeaking
  <2> QED
    BY <1>1, <1>8, <2>3, <2>4 DEF StartSpeaking, Flags, HistoryOK
<1> QED
  BY <1>5, <1>6, <1>7, <1>8

\* What the user and the timers do, and the end of the connection.
Arrives(c) ==
  \/ TranscriptArrives(c, "partial", "Blank")
  \/ \E t \in Texts : TranscriptArrives(c, "final", t)
  \/ c = "ws" /\ \E t \in Texts : InjectTranscript(t)

Closing == Close \/ LlmClosed \/ CloseSpeech \/ CloseReturns

LEMMA InputTypes ==
  ASSUME TypeOK, NEW c \in Callers,
         Arrives(c) \/ SpeechOnset \/ Closing \/ (c \in HoldTasks /\ HoldExpires(c))
  PROVE  Typed
<1>1. PlacedIn(Pc) /\ Flags /\ LlmTypeOK
  BY TypeParts
<1>2. local \in [Callers -> LocalsOf(Pc)]
  BY <1>1, LocalUpdates
<1>3. "ws" \in Callers /\ "vad" \in Callers
  BY Names
<1> USE DEF Typed, LlmOperation, TtsOperation, stateVars, holdVars, budget, sessionVars
<1>4. ASSUME events < MaxReplies, events' = events + 1 PROVE events' \in 0..MaxReplies
  BY <1>1, <1>4, RepliesAssumption DEF Flags
<1>5. ASSUME NEW t \in Texts, NEW kind \in {"partial", "final"}, TranscriptArrives(c, kind, t)
      PROVE  Typed
  <2>1. PlacedIn(Pc)'
    BY <1>1, <1>5, Moves, Steps, LocalUpdates DEF TranscriptArrives
  <2> QED
    BY <1>1, <1>4, <1>5, <2>1 DEF TranscriptArrives, Flags, HistoryOK
<1>6. ASSUME NEW t \in Texts, InjectTranscript(t) PROVE Typed
  <2>1. PlacedIn(Pc)'
    BY <1>1, <1>3, <1>6, Moves, Steps, LocalUpdates DEF InjectTranscript
  <2> QED
    BY <1>1, <1>4, <1>6, <2>1 DEF InjectTranscript, Flags, HistoryOK
<1>7. CASE SpeechOnset
  <2>1. PlacedIn(Pc)'
    <3>1. CASE RunsOn("vad", "interrupt") /\ UNCHANGED local
      BY <1>1, <1>2, <1>3, <3>1, Moves, Steps
    <3>2. CASE UNCHANGED <<loop, pc, local>>
      BY <1>1, <3>2 DEF PlacedIn, LocalsOf
    <3> QED
      BY <1>7, <3>1, <3>2 DEF SpeechOnset
  <2>2. hold_armed' \in BOOLEAN /\ onsets' \in 0..MaxOnsets
    BY <1>1, <1>7, SessionAssumption DEF SpeechOnset, Flags
  <2> QED
    BY <1>1, <1>7, <2>1, <2>2 DEF SpeechOnset, Flags, HistoryOK
<1>8. CASE Close
  <2>1. PlacedIn(Pc)'
    <3>1. CASE Suspends("ws", "aclose") /\ local' = [local EXCEPT !["ws"].reply = llm_task]
      BY <1>1, <1>3, <3>1, Moves, Steps, LocalUpdates DEF LlmTypeOK
    <3>2. CASE RunsOn("ws", "stop") /\ UNCHANGED local
      BY <1>1, <1>2, <1>3, <3>2, Moves, Steps
    <3> QED
      BY <1>8, <3>1, <3>2 DEF Close
  <2> QED
    BY <1>1, <1>8, <2>1 DEF Close, Flags, HistoryOK
<1>9. CASE LlmClosed
  <2>1. PlacedIn(Pc)'
    BY <1>1, <1>2, <1>3, <1>9, Moves, Steps DEF LlmClosed
  <2> QED
    BY <1>1, <1>9, <2>1 DEF LlmClosed, Flags, HistoryOK
<1>10. CASE CloseSpeech
  <2>1. {Idle, "gather"} \subseteq Pc /\ "closed" \in Pc
    BY Steps
  <2>2. PlacedIn(Pc)' /\ TtsOperation
    BY <1>1, <1>3, <1>10, <2>1, TaskStops DEF CloseSpeech
  <2> QED
    BY <1>1, <1>10, <2>2 DEF CloseSpeech, Flags, HistoryOK
<1>11. CASE CloseReturns
  <2>1. PlacedIn(Pc)'
    BY <1>1, <1>3, <1>11, Returned DEF CloseReturns
  <2> QED
    BY <1>1, <1>11, <2>1 DEF CloseReturns, Flags, HistoryOK
<1>12. CASE c \in HoldTasks /\ HoldExpires(c)
  <2>1. PlacedIn(Pc)'
    <3>1. CASE RunsOn(c, "reply") /\ UNCHANGED local
      BY <1>1, <1>2, <3>1, Moves, Steps
    <3>2. CASE UNCHANGED <<loop, pc, local>>
      BY <1>1, <3>2 DEF PlacedIn, LocalsOf
    <3> QED
      BY <1>12, <3>1, <3>2 DEF HoldExpires
  <2> QED
    BY <1>1, <1>12, <2>1 DEF HoldExpires, Flags, HistoryOK
<1> QED
  BY <1>5, <1>6, <1>7, <1>8, <1>9, <1>10, <1>11, <1>12 DEF Arrives, Closing, Texts

\* The steps of the consumers' tasks leave the session's tasks alone.
TaskFrame == UNCHANGED callerVars /\ UNCHANGED <<is_user_speaking, holdVars, replies>>

LEMMA TaskTypes ==
  ASSUME TypeOK, NEW r \in Reply, LlmTask(r) \/ LlmFault(r) \/ TtsTask(r) \/ TtsFault(r)
  PROVE  Typed /\ TaskFrame
<1>1. PlacedIn(Pc) /\ Flags
  BY TypeParts
<1>2. TaskFrame
  BY DEF LlmTask, LlmStep, LlmSegment, LlmNoSegment, OnComplete, LlmFault, TtsTask, TtsStep,
         OnPlaybackEnd, TurnMetricsSent, TtsFault, TaskFrame, sessionVars, stateVars, holdVars
<1>3. PlacedIn(Pc)'
  BY <1>1, <1>2 DEF TaskFrame, callerVars, PlacedIn, LocalsOf
<1> USE DEF Typed, LlmOperation, TtsOperation
<1>4. ASSUME faults < MaxFaults, faults' = faults + 1 PROVE faults' \in 0..MaxFaults
  BY <1>1, <1>4, SessionAssumption DEF Flags
<1>5. CASE LlmStep(r) \/ LlmSegment(r) \/ LlmNoSegment(r)
  <2>1. LlmOperation /\ TtsOperation
    BY <1>5 DEF LlmStep, LlmSegment, LlmNoSegment, LlmTaskStep
  <2> QED
    BY <1>1, <1>2, <1>3, <1>5, <2>1 DEF LlmStep, LlmSegment, LlmNoSegment, Flags, HistoryOK,
                              callerVars, sessionVars, stateVars, holdVars, budget
<1>6. CASE OnComplete(r)
  <2>1. LlmOperation /\ TtsOperation
    BY <1>6 DEF OnComplete, LlmTaskStep
  <2>2. HistoryOK'
    BY <1>1, <1>6, Remembered DEF OnComplete, Flags, HistoryOK
  <2> QED
    BY <1>1, <1>2, <1>3, <1>6, <2>1, <2>2 DEF OnComplete, Flags, callerVars, stateVars, holdVars,
                                       budget
<1>7. CASE LlmFault(r)
  <2>1. LlmOperation /\ TtsOperation
    BY <1>7 DEF LlmFault, LlmTaskStep
  <2> QED
    BY <1>1, <1>2, <1>3, <1>4, <1>7, <2>1 DEF LlmFault, Flags, HistoryOK, callerVars,
                                    sessionVars, stateVars, holdVars
<1>8. CASE TtsStep(r)
  <2>1. LlmOperation /\ TtsOperation
    BY <1>8 DEF TtsStep, TtsTaskStep
  <2> QED
    BY <1>1, <1>2, <1>3, <1>8, <2>1 DEF TtsStep, Flags, HistoryOK, callerVars, sessionVars, stateVars,
                                 holdVars, budget
<1>9. CASE TtsFault(r)
  <2>1. LlmOperation /\ TtsOperation
    BY <1>9 DEF TtsFault, TtsTaskStep
  <2> QED
    BY <1>1, <1>2, <1>3, <1>4, <1>9, <2>1 DEF TtsFault, Flags, HistoryOK, callerVars,
                                    sessionVars, stateVars, holdVars
<1>10. CASE OnPlaybackEnd(r)
  <2>1. LlmOperation /\ TtsOperation
    BY <1>10 DEF OnPlaybackEnd, TtsTaskStep
  <2>2. is_system_speaking' \in BOOLEAN
    BY <1>1, <1>10 DEF OnPlaybackEnd, EndSystemTurn, Flags
  <2> QED
    BY <1>1, <1>2, <1>3, <1>10, <2>1, <2>2 DEF OnPlaybackEnd, Flags, HistoryOK, callerVars, holdVars,
                                        budget
<1>11. CASE TurnMetricsSent(r)
  <2>1. LlmOperation /\ TtsOperation
    BY <1>11 DEF TurnMetricsSent, TtsTaskStep
  <2>2. is_system_speaking' \in BOOLEAN
    BY <1>1, <1>11 DEF TurnMetricsSent, EndSystemTurn, Flags
  <2> QED
    BY <1>1, <1>2, <1>3, <1>11, <2>1, <2>2 DEF TurnMetricsSent, Flags, HistoryOK, callerVars, holdVars,
                                        budget
<1> QED
  BY <1>5, <1>6, <1>7, <1>8, <1>9, <1>10, <1>11 DEF LlmTask, TtsTask

-----------------------------------------------------------------------------
(* The text of a reply, with every feature on *)

LEMMA WordsOfQueues ==
  /\ OwnWords <=> \A r \in Reply : Early(r) => Own(tts_queue[r], r)
  /\ \A r \in Reply : Ends(r) <=> HasEnd(tts_queue[r])
BY DEF OwnWords, Early, Own, Ends, HasEnd

\* A cancellation of the generation or of the speech changes no text.
LEMMA WordsStopped ==
  ASSUME TypeOK, Words, faults' = faults,
         UNCHANGED llmVars \/ Cancel,
         UNCHANGED ttsVars \/ \E c \in Callers : StopCancels(c) \/ StopEnds(c)
  PROVE  Words'
<1>1. /\ UNCHANGED <<llm_task, llm_pc, llm_outcome, tts_task, tts_pc, tts_queue, tts_interrupted>>
      /\ \A r \in Reply : Generates(r)' => Generates(r)
  <2>1. LlmCalm
    BY LlmCalms, TypeParts
  <2>2. UNCHANGED <<tts_task, tts_pc, tts_queue, tts_interrupted>>
    BY DEF StopCancels, StopEnds, ttsVars, ttsTaskVars
  <2>3. UNCHANGED <<llm_task, llm_pc, llm_outcome>>
    BY DEF Cancel, llmVars
  <2> QED
    BY <2>1, <2>2, <2>3 DEF LlmCalm
<1>2. \A r \in Reply : (Early(r)' <=> Early(r)) /\ (Ends(r)' <=> Ends(r))
  BY <1>1 DEF Early, Ends
<1>3. Latest' /\ Fixed' /\ Outcomes' /\ Complete'
  BY <1>1, <1>2 DEF Words, Latest, Fixed, Outcomes, Complete
<1>4. OwnWords' /\ EndsWithItsText'
  BY <1>1 DEF Words, OwnWords, EndsWithItsText
<1> QED
  BY <1>3, <1>4 DEF Words

\* A reply is begun, with a generation or with a fixed text.
LEMMA WordsBegun ==
  ASSUME TypeOK, Words, faults' = faults,
         NEW r \in Reply, llm_pc[r] = "none",
         \/ Begin(r, <<>>) /\ StartGeneration(r)
         \/ Begin(r, <<r, None>>) /\ UNCHANGED llmVars
  PROVE  Words'
<1> USE DEF Words
<1>1. LlmTypeOK /\ TtsTypeOK
  BY TypeParts
<1>2. /\ tts_task' = r /\ tts_pc'[r] = "new" /\ UNCHANGED tts_interrupted
      /\ tts_queue'[r] = <<>> \/ tts_queue'[r] = <<r, None>>
      /\ \A s \in Reply \ {r} : tts_pc'[s] = tts_pc[s] /\ tts_queue'[s] = tts_queue[s]
  BY <1>1 DEF Begin, TtsTypeOK
<1>3. Own(<<>>, r) /\ ~HasEnd(<<>>) /\ Own(<<r, None>>, r) /\ HasEnd(<<r, None>>)
  BY DEF Own, HasEnd
<1>4. \A s \in Reply \ {r} : (Early(s)' <=> Early(s)) /\ (Ends(s)' <=> Ends(s))
  BY <1>2 DEF Early, Ends
<1>5. OwnWords'
  <2>1. ASSUME NEW s \in Reply, Early(s)' PROVE Own(tts_queue'[s], s)
    <3>1. CASE s = r
      BY <1>2, <1>3, <3>1
    <3>2. CASE s # r
      BY <1>2, <1>4, <2>1, <3>2, WordsOfQueues
    <3> QED
      BY <3>1, <3>2
  <2> QED
    BY <2>1 DEF OwnWords, Early, Own
<1>6. CASE Begin(r, <<>>) /\ StartGeneration(r)
  <2>1. llm_task' = r /\ llm_pc'[r] = "new" /\ UNCHANGED llm_outcome
    BY <1>1, <1>6 DEF StartGeneration, LlmTypeOK
  <2>2. \A s \in Reply \ {r} : llm_pc'[s] = llm_pc[s]
    BY <1>1, <1>6 DEF StartGeneration, LlmTypeOK
  <2>3. ASSUME NEW s \in Reply \ {r} PROVE ~Generates(s)'
    <3>1. CASE s = llm_task /\ LlmRuns(s)
      <4>1. llm_cancelled'[s] = TRUE
        BY <1>1, <1>6, <3>1, RepliesAssumption
        DEF StartGeneration, CancelGeneration, IsGenerating, LlmTypeOK, None, Reply
      <4> QED
        BY <4>1 DEF Generates
    <3>2. CASE s # llm_task \/ ~LlmRuns(s)
      <4>1. ~Generates(s)
        BY <3>2 DEF Latest, Generates, LlmRuns
      <4>2. CASE llm_pc[s] \notin {"new", "stream", "partial", "final"}
        BY <2>2, <4>2 DEF Generates
      <4>3. CASE llm_cancelled[s]
        <5>1. llm_cancelled'[s]
          BY <1>1, <1>6, <4>3 DEF StartGeneration, CancelGeneration, IsGenerating, LlmTypeOK
        <5> QED
          BY <5>1 DEF Generates
      <4> QED
        BY <4>1, <4>2, <4>3 DEF Generates
    <3> QED
      BY <3>1, <3>2
  <2>4. Latest' /\ Fixed' /\ Outcomes'
    BY <1>2, <2>1, <2>2, <2>3 DEF Latest, Fixed, Outcomes
  <2>5. ~Ends(r)'
    BY <1>1, <1>3, <1>6 DEF Begin, Ends, HasEnd, TtsTypeOK
  <2>6. Complete' /\ EndsWithItsText'
    BY <1>2, <2>3, <2>5 DEF Complete, EndsWithItsText
  <2> QED
    BY <1>5, <2>4, <2>6
<1>7. CASE Begin(r, <<r, None>>) /\ UNCHANGED llmVars
  <2>1. UNCHANGED <<llm_task, llm_pc, llm_outcome, llm_cancelled>>
    BY <1>7 DEF llmVars
  <2>2. \A s \in Reply : Generates(s)' <=> Generates(s)
    BY <2>1 DEF Generates
  <2>3. ~Generates(r)
    BY DEF Generates
  <2>4. Ends(r)'
    BY <1>1, <1>3, <1>7 DEF Begin, Ends, HasEnd, TtsTypeOK
  <2>5. Latest' /\ Fixed' /\ Outcomes'
    BY <1>2, <2>1, <2>2, <2>4 DEF Latest, Fixed, Outcomes
  <2>6. Complete' /\ EndsWithItsText'
    BY <1>2, <1>4, <2>2, <2>3 DEF Complete, EndsWithItsText
  <2> QED
    BY <1>5, <2>5, <2>6
<1> QED
  BY <1>6, <1>7

\* A text goes into the queue of the current reply.
LEMMA WordsQueued ==
  ASSUME TypeOK, NEW x \in Reply \cup {None},
         tts_queue' = IF IsActive THEN [tts_queue EXCEPT ![tts_task] = Append(@, x)] ELSE tts_queue,
         UNCHANGED tts_pc
  PROVE  /\ \A r \in Reply : Early(r)' <=> Early(r)
         /\ \A r \in Reply : Ends(r) => Ends(r)'
         /\ \A r \in Reply : Ends(r)' => Ends(r) \/ x = None
         /\ (x = None \/ (tts_task \in Reply => tts_task = x \/ (Early(tts_task) => Ends(tts_task))))
              /\ OwnWords => OwnWords'
<1>1. TtsTypeOK
  BY TypeParts
<1>2. \A r \in Reply : tts_queue[r] \in Seq(Reply \cup {None})
  BY <1>1 DEF TtsTypeOK
<1>3. \A r \in Reply : \/ tts_queue'[r] = tts_queue[r]
                       \/ r = tts_task /\ tts_queue'[r] = Append(tts_queue[r], x)
  BY <1>1 DEF TtsTypeOK
<1>4. \A r \in Reply : Early(r)' <=> Early(r)
  BY DEF Early
<1>5. ASSUME NEW r \in Reply
      PROVE  (Ends(r) => Ends(r)') /\ (Ends(r)' => Ends(r) \/ x = None)
  <2>1. (Ends(r) <=> HasEnd(tts_queue[r])) /\ (Ends(r)' <=> HasEnd(tts_queue'[r]))
    BY DEF Ends, HasEnd
  <2> QED
    BY <1>2, <1>3, <2>1, AppendWords
<1>6. ASSUME OwnWords,
             x = None \/ (tts_task \in Reply => tts_task = x \/ (Early(tts_task) => Ends(tts_task)))
      PROVE  OwnWords'
  <2>1. ASSUME NEW r \in Reply, Early(r) PROVE Own(tts_queue'[r], r)
    <3>1. Own(tts_queue[r], r) /\ (Ends(r) <=> HasEnd(tts_queue[r]))
      BY <1>6, <2>1, WordsOfQueues
    <3> QED
      BY <1>2, <1>3, <1>6, <2>1, <3>1, AppendWords
  <2> QED
    BY <1>4, <2>1 DEF OwnWords, Early, Own
<1> QED
  BY <1>4, <1>5, <1>6

\* The generation goes on, and its segments are spoken.
LEMMA WordsGenerated ==
  ASSUME TypeOK, Words, NEW r \in Reply, LlmTask(r) \/ LlmFault(r)
  PROVE  Words'
<1> USE DEF Words
<1>1. LlmTypeOK /\ TtsTypeOK /\ Flags
  BY TypeParts
<1>2. LlmTaskStep(r)
  BY DEF LlmTask, LlmStep, LlmSegment, LlmNoSegment, OnComplete, LlmFault, LlmTaskStep
<1>3. llm_task' = llm_task /\ \A s \in Reply : Generates(s)' => Generates(s)
  BY <1>1, <1>2, LlmCalms DEF LlmCalm
<1>4. UNCHANGED <<tts_task, tts_pc, tts_interrupted>>
  BY DEF LlmTask, LlmStep, LlmSegment, LlmNoSegment, OnComplete, LlmFault, Speak, Finish,
         ttsVars, ttsTaskVars
<1>5. Latest'
  BY <1>3 DEF Latest
<1>6. faults' \in Nat /\ faults' >= faults /\ faults \in Nat
  BY <1>1, SessionAssumption DEF LlmTask, LlmStep, LlmSegment, LlmNoSegment, OnComplete, LlmFault, Flags, budget
<1>7. EndsWithItsText'
  BY <1>3, <1>4, <1>6 DEF EndsWithItsText
<1>8. Outcomes'
  <2>1. \A s \in Reply \ {r} : llm_pc'[s] = llm_pc[s] /\ llm_outcome'[s] = llm_outcome[s]
    BY <1>1, <1>2 DEF LlmTaskStep, LlmFirstStep, LlmToken, LlmPartialSent, LlmStreamEnds, LlmFails,
                      LlmInterrupted, LlmNeverRan, LlmCompletes, LlmCompleting, LlmReturns,
                      LlmDone, LlmGoes, LlmTypeOK
  <2>2. CASE LlmFault(r)
    BY <1>1, <1>4, <1>6, <2>1, <2>2 DEF LlmFault, LlmFails, LlmGoes, LlmTypeOK, Outcomes
  <2>3. CASE LlmInterrupted(r)
    BY <1>1, <1>4, <1>6, <2>1, <2>3 DEF LlmInterrupted, LlmTypeOK, Outcomes
  <2>4. CASE \/ LlmFirstStep(r) \/ LlmToken(r) \/ LlmPartialSent(r) \/ LlmStreamEnds(r)
             \/ LlmNeverRan(r) \/ LlmCompletes(r)
    <3>1. llm_pc'[r] \notin {"cancelled", "error"}
      BY <1>1, <2>4 DEF LlmFirstStep, LlmToken, LlmPartialSent, LlmStreamEnds, LlmNeverRan,
                        LlmCompletes, LlmDone, LlmGoes, LlmTypeOK
    <3> QED
      BY <1>1, <1>4, <1>6, <2>1, <3>1 DEF Outcomes
  <2> QED
    BY <2>2, <2>3, <2>4 DEF LlmTask, LlmStep, LlmSegment, LlmNoSegment, OnComplete
<1>9. CASE UNCHANGED ttsVars
  <2>1. \A s \in Reply : (Early(s)' <=> Early(s)) /\ (Ends(s)' <=> Ends(s))
    BY <1>9 DEF Early, Ends, ttsVars, ttsTaskVars
  <2>2. Fixed' /\ Complete'
    BY <1>3, <1>4, <1>6, <2>1 DEF Fixed, Complete
  <2>3. OwnWords'
    BY <1>9 DEF OwnWords, ttsVars, ttsTaskVars
  <2> QED
    BY <1>5, <1>7, <1>8, <2>2, <2>3
<1>10. CASE LlmSegment(r)
  <2>1. Speak(r) /\ r = llm_task /\ r # None
    BY <1>10, RepliesAssumption DEF LlmSegment, LlmPartialSent, LlmStreamEnds, LlmGoes, Latest, Generates, Reply, None
  <2>2. /\ \A s \in Reply : (Early(s)' <=> Early(s)) /\ (Ends(s)' <=> Ends(s))
        /\ OwnWords'
    BY <2>1, WordsQueued DEF Speak, Fixed
  <2>3. Fixed' /\ Complete'
    BY <1>3, <1>4, <1>6, <2>2 DEF Fixed, Complete
  <2> QED
    BY <1>5, <1>7, <1>8, <2>2, <2>3
<1>11. CASE OnComplete(r) /\ Finish /\ llm_outcome[r] # "cancelled"
  <2>1. /\ \A s \in Reply : (Early(s)' <=> Early(s)) /\ (Ends(s) => Ends(s)')
        /\ OwnWords'
    BY <1>11, WordsQueued DEF Finish
  <2>2. Fixed'
    BY <1>3, <1>4, <2>1 DEF Fixed
  <2>3. ASSUME faults = 0, NEW s \in Reply PROVE ~Generates(s)'
    <3>1. llm_pc[r] # "cancelled" /\ llm_pc[r] # "error"
      BY <1>11, <2>3 DEF Outcomes
    <3>2. Generates(r)
      BY <1>11, <3>1 DEF OnComplete, LlmCompletes, LlmAtFinally, Generates
    <3>3. llm_pc'[r] = "done"
      BY <1>1, <1>11 DEF OnComplete, LlmCompletes, LlmDone, LlmTypeOK
    <3> QED
      BY <1>3, <3>2, <3>3 DEF Latest, Generates
  <2>4. Complete'
    BY <1>6, <2>3 DEF Complete
  <2> QED
    BY <1>5, <1>7, <1>8, <2>1, <2>2, <2>4
<1> QED
  BY <1>9, <1>10, <1>11 DEF LlmTask, LlmStep, LlmNoSegment, LlmFault, OnComplete

\* What a step of a reply's TTS task does to its text: it keeps what is queued until
\* it takes the end of the text.
TextKept(r) ==
  /\ UNCHANGED tts_task
  /\ \A s \in Reply \ {r} : /\ tts_pc'[s] = tts_pc[s] /\ tts_queue'[s] = tts_queue[s]
                            /\ tts_interrupted'[s] = tts_interrupted[s]
  /\ Early(r)' => Early(r) /\ (HasEnd(tts_queue'[r]) <=> HasEnd(tts_queue[r]))
                           /\ (Own(tts_queue[r], r) => Own(tts_queue'[r], r))
  /\ tts_pc'[r] = "error" => tts_interrupted'[r]
  /\ tts_pc'[r] \in {"drain", "end", "metrics"} /\ ~tts_interrupted'[r] =>
       \/ Early(r) /\ HasEnd(tts_queue[r])
       \/ tts_pc[r] \in {"drain", "end", "metrics"} /\ ~tts_interrupted[r]

LEMMA TextKeptByTask ==
  ASSUME TypeOK, Outcomes, NEW r \in Reply, TtsTaskStep(r)
  PROVE  TextKept(r)
<1>1. TtsTypeOK
  BY TypeParts
<1>2. CASE TtsFirstStep(r) \/ TtsGets(r) \/ TtsSegmentEnds(r)
  <2>1. /\ NextSegment(r) /\ UNCHANGED <<tts_task, tts_interrupted>> /\ Early(r)
    BY <1>2 DEF TtsFirstStep, TtsGets, TtsSegmentEnds, TtsKeeps, TtsAt, Early
  <2>2. \A s \in Reply \ {r} : tts_pc'[s] = tts_pc[s] /\ tts_queue'[s] = tts_queue[s]
    BY <1>1, <2>1, NextSegmentCalms
  <2>3. tts_queue[r] \in Seq(Reply \cup {None})
    BY <1>1 DEF TtsTypeOK
  <2>4. CASE tts_queue[r] = <<>>
    <3>1. tts_pc'[r] = "get" /\ tts_queue'[r] = tts_queue[r]
      BY <1>1, <2>1, <2>4 DEF NextSegment, TtsTypeOK
    <3> QED
      BY <2>1, <2>2, <3>1 DEF TextKept
  <2>5. CASE tts_queue[r] # <<>> /\ Head(tts_queue[r]) # None
    <3>1. tts_pc'[r] = "synth" /\ tts_queue'[r] = Tail(tts_queue[r])
      BY <1>1, <2>1, <2>5 DEF NextSegment, TtsTypeOK
    <3> QED
      BY <2>1, <2>2, <2>3, <2>5, <3>1, TailWords DEF TextKept
  <2>6. CASE tts_queue[r] # <<>> /\ Head(tts_queue[r]) = None
    <3>1. tts_pc'[r] \in {"drain", "end", "metrics"}
      BY <1>1, <2>1, <2>6 DEF NextSegment, AllSent, TtsTypeOK
    <3>2. 1 \in DOMAIN tts_queue[r] /\ tts_queue[r][1] = None
      BY <2>3, <2>6
    <3>3. ~Early(r)' /\ HasEnd(tts_queue[r])
      BY <3>1, <3>2 DEF Early, HasEnd
    <3> QED
      BY <2>1, <2>2, <3>1, <3>3 DEF TextKept
  <2> QED
    BY <2>4, <2>5, <2>6
<1> USE DEF TtsTypeOK, Early
<1>3. ASSUME tts_queue' = tts_queue
      PROVE  /\ HasEnd(tts_queue'[r]) <=> HasEnd(tts_queue[r])
             /\ Own(tts_queue[r], r) <=> Own(tts_queue'[r], r)
  BY <1>3
<1>4. CASE TtsFrame(r)
  BY <1>1, <1>3, <1>4 DEF TtsFrame, TtsKeeps, TtsAt, TextKept
<1>5. CASE TtsFrameSent(r)
  BY <1>1, <1>3, <1>5 DEF TtsFrameSent, TtsKeeps, TtsAt, TextKept
<1>6. CASE TtsSent(r)
  <2>1. \/ tts_pc[r] = "start" /\ tts_pc'[r] = "bytes"
        \/ tts_pc[r] = "drain" /\ tts_pc'[r] = "end"
        \/ tts_pc[r] \in {"end", "error"} /\ tts_pc'[r] = "metrics"
    BY <1>1, <1>6 DEF TtsSent, TtsAt, TtsAfter
  <2> QED
    BY <1>1, <1>3, <1>6, <2>1 DEF TtsSent, TtsKeeps, TextKept, Outcomes
<1>7. CASE TtsFails(r)
  BY <1>1, <1>7 DEF TtsFails, TtsKeeps, TtsAt, TextKept
<1>8. CASE TtsInterrupted(r)
  BY <1>1, <1>8 DEF TtsInterrupted, TextKept
<1>9. CASE TtsAbandoned(r)
  BY <1>1, <1>9 DEF TtsAbandoned, TtsDone, TextKept
<1>10. ASSUME NEW waits \in BOOLEAN, TtsPlaybackEnds(r, waits) PROVE TextKept(r)
  BY <1>1, <1>10 DEF TtsPlaybackEnds, TtsDone, TtsKeeps, TtsAt, TextKept
<1>11. CASE TtsReturns(r)
  BY <1>1, <1>11 DEF TtsReturns, TtsDone, TtsKeeps, TtsAt, TextKept
<1> QED
  BY <1>2, <1>4, <1>5, <1>6, <1>7, <1>8, <1>9, <1>10, <1>11 DEF TtsTaskStep

\* The speech goes on.
LEMMA WordsSpoken ==
  ASSUME TypeOK, Words, NEW r \in Reply, TtsTask(r) \/ TtsFault(r)
  PROVE  Words'
<1> USE DEF Words
<1>1. TtsTaskStep(r) /\ UNCHANGED llmVars
  BY DEF TtsTask, TtsStep, OnPlaybackEnd, TurnMetricsSent, TtsFault, TtsTaskStep
<1>2. TextKept(r)
  BY <1>1, TextKeptByTask
<1>3. faults' \in Nat /\ faults' >= faults /\ faults \in Nat
  <2>1. faults' = faults \/ faults' = faults + 1
    BY DEF TtsTask, TtsStep, OnPlaybackEnd, TurnMetricsSent, TtsFault, budget
  <2>2. faults \in Nat
    BY TypeParts, SessionAssumption DEF Flags
  <2> QED
    BY <2>1, <2>2
<1>4. /\ UNCHANGED <<llm_task, llm_pc, llm_outcome>>
      /\ \A s \in Reply : Generates(s)' <=> Generates(s)
  BY <1>1 DEF llmVars, Generates
<1>5. \A s \in Reply : (Ends(s) <=> HasEnd(tts_queue[s])) /\ (Ends(s)' <=> HasEnd(tts_queue'[s]))
  BY DEF Ends, HasEnd
<1>6. \A s \in Reply : Early(s)' => Early(s) /\ (Ends(s)' <=> Ends(s))
  BY <1>2, <1>5 DEF TextKept, Early
<1>7. Latest' /\ Fixed' /\ Complete'
  BY <1>2, <1>3, <1>4, <1>6 DEF Latest, Fixed, Complete, TextKept
<1>8. Outcomes'
  BY <1>2, <1>3, <1>4 DEF Outcomes, TextKept
<1>9. OwnWords'
  <2>1. \A s \in Reply : Early(s) => Own(tts_queue[s], s)
    BY WordsOfQueues
  <2>2. \A s \in Reply : Early(s)' => Own(tts_queue'[s], s)
    BY <1>2, <1>6, <2>1 DEF TextKept
  <2> QED
    BY <2>2 DEF OwnWords, Early, Own
<1>10. EndsWithItsText'
  BY <1>2, <1>3, <1>4, <1>5 DEF EndsWithItsText, TextKept, Complete
<1> QED
  BY <1>7, <1>8, <1>9, <1>10

-----------------------------------------------------------------------------
(* The steps of the session's tasks *)

\* The code that task c runs of the session.
SessionStep(c) ==
  \/ CallerStep(c) \/ Arrives(c)
  \/ c \in HoldTasks /\ HoldExpires(c)
  \/ c = "vad" /\ SpeechOnset
  \/ c = "ws" /\ (SpeakText \/ StartSpeaking \/ Closing)

\* Every step of the session is one of a task of its own or of a consumer's task.
LEMMA StepsOfTasks ==
  ASSUME Next
  PROVE  \/ \E c \in Callers : SessionStep(c)
         \/ \E r \in Reply : LlmTask(r) \/ LlmFault(r) \/ TtsTask(r) \/ TtsFault(r)
<1>1. "ws" \in Callers /\ "vad" \in Callers /\ HoldTasks \subseteq Callers
  BY Names
<1>2. CASE Environment
  <2>1. CASE \E c \in Callers : Arrives(c)
    BY <2>1 DEF SessionStep
  <2>2. CASE \E t \in Texts : InjectTranscript(t)
    BY <1>1, <2>2 DEF SessionStep, Arrives
  <2>3. CASE SpeechOnset \/ SpeakText \/ Close
    BY <1>1, <2>3 DEF SessionStep, Closing
  <2> QED
    BY <1>2, <2>1, <2>2, <2>3 DEF Environment, Arrives
<1>3. CASE StartSpeaking \/ CloseStep
  BY <1>1, <1>3 DEF SessionStep, Closing, CloseStep
<1>4. CASE \E h \in HoldTasks : HoldExpires(h)
  BY <1>1, <1>4 DEF SessionStep
<1> QED
  BY <1>2, <1>3, <1>4 DEF Next, SessionStep

\* Task c runs alone.
Alone(c) ==
  /\ loop \in {c, Idle} /\ loop' \in {c, Idle}
  /\ \A d \in Callers \ {c} : /\ pc'[d] = pc[d] /\ local'[d] = local[d]
                              /\ stopping'[d] = stopping[d]

\* It may cancel what the consumers do, and begins nothing.
Quiet(c) ==
  /\ UNCHANGED llmVars \/ Cancel
  /\ UNCHANGED ttsVars \/ StopCancels(c) \/ StopEnds(c)

Begins(c) == BeginReply(c) \/ (c = "ws" /\ StartSpeaking)

LEMMA StepOfTask ==
  ASSUME TypeOK, NEW c \in Callers, SessionStep(c)
  PROVE  /\ Alone(c) /\ faults' = faults
         /\ Quiet(c) \/ Begins(c)
<1>1. PlacedIn(Pc) /\ TtsTypeOK
  BY TypeParts
<1>2. /\ local \in [Callers -> LocalsOf(Pc)] /\ pc \in [Callers -> Pc]
      /\ stopping \in [Callers -> [target: Reply \cup {None}, had_audio: BOOLEAN]]
  BY <1>1 DEF PlacedIn, TtsTypeOK
<1>3. ASSUME ReturnsTo(c) \/ Returns(c)
      PROVE  /\ loop' \in {c, Idle}
             /\ \A d \in Callers \ {c} : pc'[d] = pc[d] /\ local'[d] = local[d]
  BY <1>2, <1>3 DEF ReturnsTo, Returns, RunsOn, Suspends
<1> USE <1>2 DEF Alone, Quiet, RunsOn, Suspends, Continues, Resumes, stateVars, holdVars, budget, sessionVars,
                 ttsVars
<1>4. CASE ProcessPartial(c)
  BY <1>4 DEF ProcessPartial, ReceivePartial
<1>5. CASE StartTurn(c)
  BY <1>3, <1>5 DEF StartTurn, PartialReturns, OnUserTurnStarted
<1>6. CASE ProcessFinal(c)
  BY <1>3, <1>6 DEF ProcessFinal, ReceiveFinal
<1>7. CASE WholeTurn(c)
  BY <1>7 DEF WholeTurn, OnUserTurnStarted
<1>8. CASE HandleInterruption(c)
  BY <1>3, <1>8 DEF HandleInterruption, StopWaits, StopCancels, StopNeedless
<1>9. CASE Gathered(c)
  BY <1>9 DEF Gathered, StopJoins, StopReturns, StopEnds
<1>10. CASE ClearSent(c)
  BY <1>10 DEF ClearSent, StopClears, StopReturns, StopEnds
<1>11. CASE BargeInSent(c) \/ TurnHeldSent(c)
  BY <1>3, <1>11 DEF BargeInSent, TurnHeldSent
<1>12. CASE OnUserTurnCompleted(c)
  BY <1>3, <1>12 DEF OnUserTurnCompleted
<1>13. CASE StartReply(c)
  BY <1>13 DEF StartReply, StopWaits, StopCancels, StopNeedless
<1>14. CASE BeginReply(c)
  BY <1>3, <1>14 DEF BeginReply, Begin, Begins
<1>15. CASE Arrives(c)
  BY <1>15 DEF Arrives, TranscriptArrives, InjectTranscript
<1>16. CASE c \in HoldTasks /\ HoldExpires(c)
  BY <1>16 DEF HoldExpires
<1>17. CASE c = "vad" /\ SpeechOnset
  BY <1>17 DEF SpeechOnset
<1>18. CASE c = "ws" /\ SpeakText
  BY <1>18 DEF SpeakText, StopWaits, StopCancels, StopNeedless
<1>19. CASE c = "ws" /\ StartSpeaking
  BY <1>3, <1>19 DEF StartSpeaking, Begin, Begins
<1>20. CASE c = "ws" /\ (Close \/ LlmClosed)
  BY <1>20 DEF Close, LlmClosed
<1>21. CASE c = "ws" /\ CloseSpeech
  BY <1>21 DEF CloseSpeech, Stops, StopWaits, StopCancels, StopNeedless
<1>22. CASE c = "ws" /\ CloseReturns
  BY <1>3, <1>22 DEF CloseReturns
<1> QED
  BY <1>4, <1>5, <1>6, <1>7, <1>8, <1>9, <1>10, <1>11, <1>12, <1>13, <1>14, <1>15, <1>16, <1>17,
     <1>18, <1>19, <1>20, <1>21, <1>22 DEF SessionStep, CallerStep, Closing

\* A task keeps the loop unless it is suspended.
LEMMA RunningStep ==
  ASSUME TypeOK, Running, NEW c \in Callers, SessionStep(c)
  PROVE  Running'
<1> DEFINE Suspended == InStop \cup {Idle, "turn_held", "barge_in", "aclose"}
<1>1. /\ pc \in [Callers -> Pc] /\ local \in [Callers -> LocalsOf(Pc)] /\ Idle \notin Callers
      /\ Alone(c)
  BY TypeParts, Names, StepOfTask DEF PlacedIn
<1>2. ASSUME NEW d \in Callers \ {c}, pc'[d] \notin Suspended PROVE FALSE
  BY <1>1, <1>2 DEF Running, Alone
<1>3. pc'[c] \in Suspended \/ loop' = c
  <2> USE <1>1 DEF InStop, RunsOn, Suspends, Idle
  <2>1. ASSUME ReturnsTo(c) \/ Returns(c) PROVE pc'[c] = Idle \/ loop' = c
    BY <2>1 DEF ReturnsTo, Returns
  <2>2. CASE ProcessPartial(c) \/ ProcessFinal(c)
    BY <2>1, <2>2 DEF ProcessPartial, ReceivePartial, ProcessFinal, ReceiveFinal
  <2>3. CASE StartTurn(c) \/ WholeTurn(c)
    BY <2>1, <2>3 DEF StartTurn, PartialReturns, WholeTurn
  <2>4. CASE HandleInterruption(c)
    BY <2>1, <2>4 DEF HandleInterruption, StopWaits
  <2>5. CASE Gathered(c) \/ ClearSent(c)
    BY <2>5 DEF Gathered, ClearSent, StopJoins, StopClears, StopReturns
  <2>6. CASE BargeInSent(c) \/ TurnHeldSent(c) \/ OnUserTurnCompleted(c)
    BY <2>1, <2>6 DEF BargeInSent, TurnHeldSent, OnUserTurnCompleted
  <2>7. CASE StartReply(c) \/ (c = "ws" /\ SpeakText)
    BY <2>7 DEF StartReply, SpeakText, StopWaits
  <2>8. CASE BeginReply(c) \/ (c = "ws" /\ StartSpeaking)
    BY <2>1, <2>8 DEF BeginReply, StartSpeaking
  <2>9. CASE Arrives(c)
    BY <2>9 DEF Arrives, TranscriptArrives, InjectTranscript
  <2>10. CASE (c \in HoldTasks /\ HoldExpires(c)) \/ (c = "vad" /\ SpeechOnset)
    BY <2>10 DEF HoldExpires, SpeechOnset, Resumes
  <2>11. CASE c = "ws" /\ Closing
    BY <2>1, <2>11 DEF Closing, Close, LlmClosed, CloseSpeech, CloseReturns, Stops, StopWaits
  <2> QED
    BY <2>2, <2>3, <2>4, <2>5, <2>6, <2>7, <2>8, <2>9, <2>10, <2>11 DEF SessionStep, CallerStep
<1> QED
  BY <1>2, <1>3 DEF Running

LEMMA CalledStep ==
  ASSUME TypeOK, Called, NEW c \in Callers, SessionStep(c)
  PROVE  Called'
<1>1. /\ local \in [Callers -> LocalsOf(Pc)] /\ PlacedIn(Pc)
      /\ local[c].ret \in {Idle, "started", "whole"}
  BY TypeParts DEF PlacedIn, Called
<1>2. Alone(c)
  BY StepOfTask
<1>3. ASSUME ReturnsTo(c) \/ Returns(c) \/ UNCHANGED local
      PROVE  local'[c].ret \in {Idle, "started", "whole"}
  BY <1>1, <1>3 DEF ReturnsTo, Returns, NoLocals, LocalsOf
<1> SUFFICES local'[c].ret \in {Idle, "started", "whole"}
  BY <1>2 DEF Alone, Called
<1> USE <1>1 DEF LocalsOf
<1>4. CASE ProcessPartial(c)
  BY <1>4 DEF ProcessPartial, ReceivePartial
<1>5. CASE ProcessFinal(c)
  BY <1>3, <1>5 DEF ProcessFinal, ReceiveFinal
<1>6. CASE HandleInterruption(c)
  BY <1>3, <1>6 DEF HandleInterruption
<1>7. CASE Gathered(c) \/ ClearSent(c)
  BY <1>7 DEF Gathered, ClearSent, StopJoins, StopClears, StopReturns
<1>8. CASE StartReply(c) \/ (c = "ws" /\ SpeakText)
  BY <1>8 DEF StartReply, SpeakText
<1>9. CASE Arrives(c)
  BY <1>9 DEF Arrives, TranscriptArrives, InjectTranscript
<1>10. CASE c = "ws" /\ Closing
  BY <1>3, <1>10 DEF Closing, Close, LlmClosed, CloseSpeech, CloseReturns, Stops
<1>11. CASE StartTurn(c)
  BY <1>3, <1>11 DEF StartTurn, PartialReturns
<1> QED
  BY <1>3, <1>4, <1>5, <1>6, <1>7, <1>8, <1>9, <1>10, <1>11
  DEF SessionStep, CallerStep, WholeTurn, BargeInSent, OnUserTurnCompleted, TurnHeldSent,
      BeginReply, HoldExpires, SpeechOnset, StartSpeaking

\* A task opens the next reply, or goes on with the one it opened, or begins it.
LEMMA OpeningStep ==
  ASSUME TypeOK, Called, NEW c \in Callers, SessionStep(c)
  PROVE  \/ /\ replies' = replies
            /\ Opening(c)' => /\ Opening(c) /\ local'[c].reply = local[c].reply
                              /\ ~Begins(c)
         \/ replies' = replies + 1 /\ local'[c].reply = replies + 1
<1>1. /\ local \in [Callers -> LocalsOf(Pc)] /\ pc \in [Callers -> Pc]
      /\ local[c].ret \in {Idle, "started", "whole"}
  BY TypeParts DEF PlacedIn, Called
<1> USE <1>1 DEF Opening, GoesTo, InStop, RunsOn, Suspends, LocalsOf, sessionVars, Idle
<1>2. ASSUME ReturnsTo(c) \/ Returns(c) PROVE ~Opening(c)'
  BY <1>2 DEF ReturnsTo, Returns
<1>3. CASE ProcessPartial(c)
  BY <1>3 DEF ProcessPartial, ReceivePartial
<1>4. CASE ProcessFinal(c)
  BY <1>2, <1>4 DEF ProcessFinal, ReceiveFinal
<1>5. CASE StartTurn(c)
  BY <1>2, <1>5 DEF StartTurn, PartialReturns
<1>6. CASE WholeTurn(c)
  BY <1>6 DEF WholeTurn
<1>7. CASE HandleInterruption(c)
  BY <1>2, <1>7 DEF HandleInterruption, StopWaits
<1>8. CASE Gathered(c) \/ ClearSent(c)
  <2>1. UNCHANGED replies /\ pc[c] \in InStop
    BY <1>8 DEF Gathered, ClearSent, StopJoins, StopClears, Resumes
  <2>2. CASE StopReturns(c)
    <3>1. pc'[c] = local[c].after /\ local'[c].after = Idle /\ local'[c].reply = local[c].reply
      BY <2>2 DEF StopReturns
    <3> QED
      BY <1>8, <2>1, <3>1 DEF Begins, BeginReply, StartSpeaking, Continues
  <2>3. CASE Suspends(c, "clear") /\ UNCHANGED <<ttsVars, local>>
    BY <1>8, <2>1, <2>3 DEF Begins, BeginReply, StartSpeaking, Continues
  <2> QED
    BY <1>8, <2>1, <2>2, <2>3 DEF Gathered, ClearSent, StopJoins, StopClears
<1>9. CASE BargeInSent(c) \/ TurnHeldSent(c)
  BY <1>2, <1>9 DEF BargeInSent, TurnHeldSent
<1>10. CASE OnUserTurnCompleted(c)
  BY <1>2, <1>10 DEF OnUserTurnCompleted
<1>11. CASE StartReply(c) \/ (c = "ws" /\ SpeakText)
  BY <1>11 DEF StartReply, SpeakText
<1>12. CASE Begins(c)
  BY <1>2, <1>12 DEF Begins, BeginReply, StartSpeaking
<1>13. CASE Arrives(c)
  BY <1>13 DEF Arrives, TranscriptArrives, InjectTranscript
<1>14. CASE c \in HoldTasks /\ HoldExpires(c)
  BY <1>14 DEF HoldExpires, Resumes
<1>15. CASE c = "vad" /\ SpeechOnset
  BY <1>15 DEF SpeechOnset, Resumes
<1>16. CASE c = "ws" /\ Closing
  BY <1>2, <1>16 DEF Closing, Close, LlmClosed, CloseSpeech, CloseReturns, Stops, StopWaits
<1> QED
  BY <1>3, <1>4, <1>5, <1>6, <1>7, <1>8, <1>9, <1>10, <1>11, <1>12, <1>13, <1>14, <1>15, <1>16
  DEF SessionStep, CallerStep, Begins

\* A task's steps keep the part of the invariant that holds with every feature on.
Basic == TypeOK /\ Framed /\ Running /\ Called /\ Numbered /\ Words

LEMMA BasicOfConsumer ==
  ASSUME Basic, NEW r \in Reply, LlmTask(r) \/ LlmFault(r) \/ TtsTask(r) \/ TtsFault(r)
  PROVE  Basic'
<1> USE DEF Basic
<1>1. LlmTypeOK /\ TtsTypeOK
  BY TypeParts
<1>2. Typed /\ TaskFrame
  BY TaskTypes
<1>3. TypeOK'
  BY <1>2, TypedStep
<1>4. UNCHANGED <<loop, pc, local, replies>>
  BY <1>2 DEF TaskFrame, callerVars
<1>5. Running' /\ Called' /\ \A c \in Callers : Opening(c)' <=> Opening(c)
  BY <1>4 DEF Running, Called, Opening, GoesTo
<1>6. CASE LlmTask(r) \/ LlmFault(r)
  <2>1. LlmTaskStep(r)
    BY <1>6 DEF LlmTask, LlmStep, LlmSegment, LlmNoSegment, OnComplete, LlmFault, LlmTaskStep
  <2>2. \A s \in Reply : llm_pc'[s] = "none" <=> llm_pc[s] = "none"
    BY <1>1, <2>1, LlmCalms DEF LlmCalm
  <2>3. UNCHANGED <<tts_pc, tts_frames>>
    BY <1>6 DEF LlmTask, LlmStep, LlmSegment, LlmNoSegment, OnComplete, LlmFault, Speak, Finish,
           ttsVars, ttsTaskVars
  <2>4. Framed'
    BY <2>3 DEF Framed, TtsRuns
  <2>5. ASSUME NEW c \in Callers, Opening(c)
        PROVE  local[c].reply \in Reply
    BY <2>5, RepliesAssumption, TypeParts DEF Numbered, Flags, Reply
  <2>6. Numbered'
    BY <1>4, <1>5, <2>2, <2>3, <2>5 DEF Numbered
  <2> QED
    BY <1>3, <1>5, <1>6, <2>4, <2>6, WordsGenerated
<1>7. CASE TtsTask(r) \/ TtsFault(r)
  <2>1. TtsTaskStep(r) /\ UNCHANGED llmVars
    BY <1>7 DEF TtsTask, TtsStep, OnPlaybackEnd, TurnMetricsSent, TtsFault, TtsTaskStep
  <2>2. \A s \in Reply : tts_pc'[s] = "none" <=> tts_pc[s] = "none"
    BY <1>1, <2>1, TasksCreated
  <2>3. Framed'
    BY <1>1, <2>1, TtsTaskCalms DEF TtsCalm
  <2>4. UNCHANGED llm_pc
    BY <2>1 DEF llmVars
  <2>5. ASSUME NEW c \in Callers, Opening(c)
        PROVE  local[c].reply \in Reply
    BY <2>5, RepliesAssumption, TypeParts DEF Numbered, Flags, Reply
  <2>6. Numbered'
    BY <1>4, <1>5, <2>2, <2>4, <2>5 DEF Numbered
  <2> QED
    BY <1>3, <1>5, <1>7, <2>3, <2>6, WordsSpoken
<1> QED
  BY <1>6, <1>7

LEMMA BasicOfTask ==
  ASSUME Basic, NEW c \in Callers, SessionStep(c)
  PROVE  Basic'
<1> USE DEF Basic
<1>1. LlmTypeOK /\ TtsTypeOK /\ replies \in Nat /\ replies \in 0..MaxReplies /\ MaxReplies \in Nat
  BY TypeParts, RepliesAssumption DEF Flags
<1>2. Typed
  BY Names, TurnTypes, ReplyTypes, InputTypes DEF SessionStep, CallerStep
<1>3. TypeOK' /\ Running' /\ Called'
  BY <1>2, TypedStep, RunningStep, CalledStep
<1>4. Alone(c) /\ faults' = faults
  BY StepOfTask
<1>5. \A d \in Callers \ {c} : (Opening(d)' <=> Opening(d)) /\ local'[d] = local[d]
  BY <1>4 DEF Alone, Opening, GoesTo
<1>6. ASSUME NEW d \in Callers, Opening(d) PROVE local[d].reply \in Reply
  BY <1>1, <1>6 DEF Numbered, Reply
<1>7. CASE Quiet(c)
  <2>1. UNCHANGED <<llm_pc, tts_pc, tts_frames>>
    BY <1>7 DEF Quiet, llmVars, Cancel, ttsVars, ttsTaskVars, StopCancels, StopEnds
  <2>2. Framed'
    BY <2>1 DEF Framed, TtsRuns
  <2>3. Words'
    BY <1>4, <1>7, WordsStopped DEF Quiet
  <2>4. Numbered'
    <3>1. CASE /\ replies' = replies
               /\ Opening(c)' => Opening(c) /\ local'[c].reply = local[c].reply
      BY <1>5, <2>1, <3>1 DEF Numbered
    <3>2. CASE replies' = replies + 1 /\ local'[c].reply = replies + 1
      <4>1. replies + 1 \in Reply
        BY <1>1, <1>3, <3>2, TypeParts DEF TypeOK, ConversationTypeOK, Reply
      <4>2. llm_pc[replies + 1] = "none" /\ tts_pc[replies + 1] = "none"
        BY <1>1, <4>1 DEF Numbered
      <4>3. ASSUME NEW d \in Callers, Opening(d)'
            PROVE  /\ local'[d].reply \in 1..replies' /\ llm_pc[local'[d].reply] = "none"
                   /\ tts_pc[local'[d].reply] = "none"
        BY <1>1, <1>5, <3>2, <4>2, <4>3 DEF Numbered
      <4>4. ASSUME NEW d \in Callers \ {c}, Opening(d)' PROVE local'[d].reply # replies + 1
        BY <1>1, <1>5, <4>4 DEF Numbered
      <4>5. ASSUME NEW d \in Callers, NEW e \in Callers, Opening(d)', Opening(e)',
                   local'[d].reply = local'[e].reply
            PROVE  d = e
        BY <1>5, <3>2, <4>4, <4>5 DEF Numbered
      <4>6. \A r \in Reply : llm_pc[r] # "none" \/ tts_pc[r] # "none" => r <= replies'
        BY <1>1, <3>2 DEF Numbered, Reply
      <4> QED
        BY <2>1, <4>3, <4>5, <4>6 DEF Numbered
    <3> QED
      BY <3>1, <3>2, OpeningStep
  <2> QED
    BY <1>3, <2>2, <2>3, <2>4
<1>8. CASE Begins(c)
  <2> DEFINE r == local[c].reply
  <2>1. Opening(c)
    BY <1>8 DEF Begins, BeginReply, StartSpeaking, Continues, Opening, GoesTo, InStop
  <2>2. r \in Reply /\ r <= replies /\ llm_pc[r] = "none" /\ tts_pc[r] = "none"
    BY <1>1, <1>6, <2>1 DEF Numbered
  <2>3. \/ Begin(r, <<>>) /\ StartGeneration(r)
        \/ Begin(r, <<r, None>>) /\ UNCHANGED llmVars
    BY <1>8 DEF Begins, BeginReply, StartSpeaking
  <2> HIDE DEF r
  <2>4. /\ UNCHANGED tts_frames /\ tts_pc'[r] = "new"
        /\ \A s \in Reply \ {r} : tts_pc'[s] = tts_pc[s] /\ llm_pc'[s] = llm_pc[s]
    BY <1>1, <2>2, <2>3 DEF Begin, StartGeneration, TtsTypeOK, LlmTypeOK, llmVars
  <2>5. Framed'
    BY <2>4 DEF Framed, TtsRuns
  <2>6. Words'
    BY <1>4, <2>2, <2>3, WordsBegun
  <2>7. replies' = replies /\ ~Opening(c)'
    <3>1. replies' = replies
      BY <1>8 DEF Begins, BeginReply, StartSpeaking, sessionVars
    <3> QED
      BY <1>1, <1>8, <3>1, OpeningStep
  <2>8. \A d \in Callers : Opening(d)' => d # c /\ Opening(d) /\ local'[d].reply \in Reply \ {r}
    BY <1>5, <1>6, <2>1, <2>7 DEF Numbered, r
  <2>9. Numbered'
    <3>1. ASSUME NEW d \in Callers, Opening(d)'
          PROVE  /\ local'[d].reply \in 1..replies' /\ llm_pc'[local'[d].reply] = "none"
                 /\ tts_pc'[local'[d].reply] = "none"
      BY <1>5, <2>4, <2>7, <2>8, <3>1 DEF Numbered
    <3>2. ASSUME NEW d \in Callers, NEW e \in Callers, Opening(d)', Opening(e)',
                 local'[d].reply = local'[e].reply
          PROVE  d = e
      BY <1>5, <2>8, <3>2 DEF Numbered
    <3>3. \A s \in Reply : llm_pc'[s] # "none" \/ tts_pc'[s] # "none" => s <= replies'
      BY <2>2, <2>4, <2>7 DEF Numbered
    <3> QED
      BY <3>1, <3>2, <3>3 DEF Numbered
  <2> QED
    BY <1>3, <2>5, <2>6, <2>9
<1> QED
  BY <1>7, <1>8, StepOfTask

-----------------------------------------------------------------------------
(* Without development messages: the roles of the tasks *)

\* While the connection is open, the endpoint runs none of the session's code but close.
LEMMA OpenStays ==
  ASSUME TypeOK, Roles, NEW c \in Callers, SessionStep(c), ~DevMessages, Open'
  PROVE  Open /\ c # "ws"
<1>1. pc \in [Callers -> Pc] /\ local \in [Callers -> LocalsOf(Pc)] /\ "ws" \in Callers /\ Alone(c)
  BY TypeParts, Names, StepOfTask DEF PlacedIn
<1>2. ~closed
  BY DEF Open, SessionStep, CallerStep, ProcessPartial, StartTurn, ProcessFinal, WholeTurn,
         HandleInterruption, Gathered, ClearSent, BargeInSent, OnUserTurnCompleted, TurnHeldSent,
         StartReply, BeginReply, Arrives, TranscriptArrives, InjectTranscript, HoldExpires,
         SpeechOnset, SpeakText, StartSpeaking, Closing, Close, LlmClosed, CloseSpeech, CloseReturns
<1>3. CASE c # "ws"
  BY <1>1, <1>2, <1>3 DEF Alone, Open
<1>4. CASE c = "ws"
  <2>1. GoesTo("ws") \in {Idle, "aclose", "stop", "closed"} /\ (pc["ws"] \in InStop => local["ws"].after = "closed")
    BY <1>1, <1>2 DEF Roles, Role, GoesTo, Idle
  <2>2. pc["ws"] \in {Idle, "gather", "clear", "aclose", "stop", "closed"}
    BY <2>1 DEF GoesTo, InStop
  <2>3. CASE Arrives(c)
    BY <1>2, <1>4, <2>3 DEF Arrives, TranscriptArrives, InjectTranscript
  <2>4. CASE Gathered(c) \/ ClearSent(c)
    <3>1. pc'["ws"] \in {"clear", "closed"}
      BY <1>1, <1>4, <2>1, <2>4 DEF Gathered, ClearSent, StopJoins, StopClears, StopReturns, Resumes,
         RunsOn, Suspends, InStop
    <3> QED
      BY <3>1 DEF Open, Idle
  <2>5. CASE Closing
    BY <1>1, <1>2, <2>5 DEF Closing, Close, LlmClosed, CloseSpeech, CloseReturns, Stops, StopWaits,
       RunsOn, Suspends, Open, Idle
  <2>6. CASE CallerStep(c) /\ ~Gathered(c) /\ ~ClearSent(c)
    BY <1>4, <2>2, <2>6 DEF CallerStep, ProcessPartial, ReceivePartial, StartTurn, ProcessFinal, ReceiveFinal,
       WholeTurn, HandleInterruption, BargeInSent, OnUserTurnCompleted, TurnHeldSent, StartReply,
       BeginReply, Resumes, Continues, Idle
  <2> QED
    BY <1>4, <2>1, <2>2, <2>3, <2>4, <2>5, <2>6, Names DEF SessionStep, SpeakText, StartSpeaking, Continues, Idle
<1> QED
  BY <1>3, <1>4

LEMMA RolesStep ==
  ASSUME TypeOK, Called, Roles, NEW c \in Callers, SessionStep(c), ~DevMessages
  PROVE  Roles'
<1>1. /\ pc \in [Callers -> Pc] /\ local \in [Callers -> LocalsOf(Pc)] /\ Alone(c)
      /\ Role(c) /\ local[c].ret \in {Idle, "started", "whole"}
      /\ (~EotHold => ~held /\ ~hold_armed)
      /\ c \in {"stt", "vad", "ws"} \/ c \in HoldTasks
      /\ \A h \in HoldTasks : h \notin {"stt", "vad", "ws"}
  BY TypeParts, Names, StepOfTask DEF PlacedIn, Roles, Called
<1>2. ~closed' => ~closed
  BY DEF SessionStep, CallerStep, ProcessPartial, StartTurn, ProcessFinal, WholeTurn,
         HandleInterruption, Gathered, ClearSent, BargeInSent, OnUserTurnCompleted, TurnHeldSent,
         StartReply, BeginReply, Arrives, TranscriptArrives, InjectTranscript, HoldExpires,
         SpeechOnset, SpeakText, StartSpeaking, Closing, Close, LlmClosed, CloseSpeech, CloseReturns
<1>3. ~EotHold => ~held' /\ ~hold_armed'
  BY <1>1, SessionAssumption DEF SessionStep, CallerStep, ProcessPartial, StartTurn, ProcessFinal, WholeTurn,
         HandleInterruption, Gathered, ClearSent, BargeInSent, OnUserTurnCompleted, TurnHeldSent,
         StartReply, BeginReply, Arrives, TranscriptArrives, InjectTranscript, HoldExpires,
         SpeechOnset, SpeakText, StartSpeaking, Closing, Close, LlmClosed, CloseSpeech, CloseReturns,
         OnUserTurnStarted, sessionVars, holdVars
<1>4. ASSUME NEW d \in Callers \ {c} PROVE Role(d)'
  BY <1>1, <1>2 DEF Alone, Roles, Role, GoesTo
<1>5. Role(c)'
  <2> USE <1>1, <1>2 DEF Role, GoesTo, InStop, RunsOn, Suspends, Continues, Resumes, LocalsOf, NoLocals, Idle
  <2>1. ASSUME ReturnsTo(c) \/ Returns(c), c \in HoldTasks \/ (c = "ws" /\ ~closed) => Returns(c) PROVE Role(c)'
    BY <2>1 DEF ReturnsTo, Returns
  <2>2. CASE ProcessPartial(c)
    BY <2>2 DEF ProcessPartial, ReceivePartial
  <2>3. CASE ProcessFinal(c)
    BY <2>1, <2>3 DEF ProcessFinal, ReceiveFinal
  <2>4. CASE StartTurn(c)
    BY <2>1, <2>4 DEF StartTurn, PartialReturns
  <2>5. CASE WholeTurn(c)
    BY <2>5 DEF WholeTurn
  <2>6. CASE HandleInterruption(c)
    BY <2>1, <2>6 DEF HandleInterruption, StopWaits
  <2>7. CASE Gathered(c) \/ ClearSent(c)
    BY <2>7 DEF Gathered, ClearSent, StopJoins, StopClears, StopReturns
  <2>8. CASE BargeInSent(c) \/ TurnHeldSent(c)
    BY <2>1, <2>8 DEF BargeInSent, TurnHeldSent
  <2>9. CASE OnUserTurnCompleted(c)
    BY <2>1, <2>9 DEF OnUserTurnCompleted
  <2>10. CASE StartReply(c)
    BY <2>10 DEF StartReply, StopWaits
  <2>11. CASE BeginReply(c)
    BY <2>1, <2>11 DEF BeginReply
  <2>12. CASE Arrives(c)
    BY <2>12 DEF Arrives, TranscriptArrives, InjectTranscript
  <2>13. CASE c \in HoldTasks /\ HoldExpires(c)
    BY <2>13 DEF HoldExpires
  <2>14. CASE c = "vad" /\ SpeechOnset
    BY <2>14 DEF SpeechOnset
  <2>15. CASE c = "ws" /\ Closing
    BY <2>1, <2>15 DEF Closing, Close, LlmClosed, CloseSpeech, CloseReturns, Stops, StopWaits
  <2>16. CASE c = "ws" /\ (SpeakText \/ StartSpeaking)
    BY <2>16 DEF SpeakText, StartSpeaking
  <2> QED
    BY <2>2, <2>3, <2>4, <2>5, <2>6, <2>7, <2>8, <2>9, <2>10, <2>11, <2>12, <2>13, <2>14, <2>15,
       <2>16 DEF SessionStep, CallerStep
<1> QED
  BY <1>3, <1>4, <1>5 DEF Roles

-----------------------------------------------------------------------------
(* One reply speaks at a time *)

LEMMA SteadyOfConsumer ==
  ASSUME TypeOK, Framed, Steady, NEW r \in Reply,
         LlmTask(r) \/ LlmFault(r) \/ TtsTask(r) \/ TtsFault(r)
  PROVE  Steady'
<1>1. TtsTypeOK
  BY TypeParts
<1>2. UNCHANGED <<loop, pc, local>>
  BY TaskTypes DEF TaskFrame, callerVars
<1>3. tts_task' = tts_task /\ stopping' = stopping /\ \A s \in Reply : TtsRuns(s)' => TtsRuns(s)
  <2>1. CASE LlmTask(r) \/ LlmFault(r)
    BY <2>1 DEF LlmTask, LlmStep, LlmSegment, LlmNoSegment, OnComplete, LlmFault, Speak, Finish,
       ttsVars, ttsTaskVars, TtsRuns
  <2>2. CASE TtsTask(r) \/ TtsFault(r)
    <3>1. TtsTaskStep(r)
      BY <2>2 DEF TtsTask, TtsStep, OnPlaybackEnd, TurnMetricsSent, TtsFault, TtsTaskStep
    <3> QED
      BY <1>1, <3>1, TtsTaskCalms DEF TtsCalm
  <2> QED
    BY <2>1, <2>2
<1>4. Silent => Silent'
  BY <1>3 DEF Silent
<1>5. \A c \in Callers : GoesTo(c)' = GoesTo(c)
  BY <1>2 DEF GoesTo
<1> QED
  BY <1>2, <1>3, <1>4, <1>5 DEF Steady, OneVoice, OneOpener, Stopping

LEMMA SteadyOfTask ==
  ASSUME Basic, Roles, Steady, ~VadBargeIn => Taking, Open,
         ~DevMessages, ~VadBargeIn \/ ~EotHold,
         NEW c \in Callers \ {"ws"}, SessionStep(c)
  PROVE  Steady'
<1>1. /\ pc \in [Callers -> Pc] /\ local \in [Callers -> LocalsOf(Pc)] /\ TtsTypeOK
      /\ Alone(c) /\ Role(c) /\ Idle \notin Callers /\ TypeOK /\ Called
  BY TypeParts, Names, StepOfTask DEF PlacedIn, Roles, Basic
<1>2. ASSUME ~EotHold PROVE \A d \in Callers : GoesTo(d) \in {"reply", "begin"} => d = "stt"
  BY <1>2, Names DEF Roles, Role, Open, GoesTo, InStop, Idle
<1>3. \A d \in Callers \ {c} : /\ GoesTo(d)' = GoesTo(d) /\ loop # d /\ loop' # d
                               /\ pc'[d] = pc[d] /\ stopping'[d] = stopping[d]
  BY <1>1 DEF Alone, GoesTo
<1>4. CASE Quiet(c)
  <2>1. tts_task' = tts_task /\ \A s \in Reply : TtsRuns(s)' => TtsRuns(s)
    BY <1>1, <1>4, TtsCalms DEF Quiet, TtsCalm, Basic
  <2>2. OneVoice' /\ (Silent => Silent')
    BY <2>1 DEF Steady, OneVoice, Silent
  <2>3. \A d \in Callers \ {c} : Stopping(d)'
    BY <1>3, <2>1, <2>2 DEF Steady, Stopping
  <2>4. ASSUME StopGathered(c), pc[c] = "gather", GoesTo(c) = "begin" PROVE Silent
    BY <2>4 DEF Steady, OneVoice, Stopping, StopGathered, Silent, TtsRuns
  <2>5. ASSUME GoesTo(c)' = "begin"
        PROVE  Stopping(c)' /\ (loop' = c \/ (c = "stt" /\ ~EotHold))
    <3>1. CASE StartReply(c)
      <4>1. pc[c] = "reply" /\ GoesTo(c) = "reply"
        BY <3>1 DEF StartReply, Continues, GoesTo, InStop
      <4>2. CASE StopWaits(c)
        <5>1. ~EotHold /\ c = "stt"
          BY <1>1, <1>2, <4>1, <4>2 DEF StopWaits, IsActive, Taking, Take, Silent, TtsTypeOK
        <5>2. pc'[c] = "gather" /\ stopping'[c].target = tts_task
          BY <1>1, <4>2 DEF StopWaits, StopCancels, Suspends, TtsTypeOK
        <5> QED
          BY <2>1, <5>1, <5>2 DEF Stopping
      <4>3. CASE StopNeedless /\ RunsOn(c, "begin")
        <5>1. Silent
          BY <1>1, <4>3 DEF Steady, OneVoice, StopNeedless, IsActive, Silent, TtsTypeOK, None, Reply
        <5>2. pc'[c] = "begin" /\ loop' = c
          BY <1>1, <4>3 DEF RunsOn
        <5> QED
          BY <2>2, <5>1, <5>2 DEF Stopping
      <4> QED
        BY <3>1, <4>2, <4>3 DEF StartReply
    <3>2. CASE Gathered(c) \/ ClearSent(c)
      <4>1. loop = Idle /\ pc[c] \in InStop
        BY <3>2 DEF Gathered, ClearSent, StopJoins, StopClears, Resumes, InStop
      <4>2. GoesTo(c) = "begin"
        BY <1>1, <2>5, <3>2, <4>1 DEF Gathered, ClearSent, StopJoins, StopClears, StopReturns, GoesTo,
           RunsOn, Suspends, InStop, LocalsOf, Idle
      <4>3. c = "stt" /\ ~EotHold
        BY <1>1, <4>1, <4>2 DEF Steady, OneOpener
      <4>4. Silent
        BY <2>4, <3>2, <4>2 DEF Gathered, ClearSent, StopJoins, StopClears, Resumes, Steady, Stopping
      <4>5. pc'[c] # "gather"
        BY <1>1, <3>2, <4>1, <4>2 DEF Gathered, ClearSent, StopJoins, StopClears, StopReturns, GoesTo,
           RunsOn, Suspends
      <4> QED
        BY <2>2, <4>3, <4>4, <4>5 DEF Stopping
    <3>3. CASE ~StartReply(c) /\ ~Gathered(c) /\ ~ClearSent(c)
      <4>1. SUFFICES GoesTo(c)' # "begin"
        BY <2>5
      <4> USE <1>1 DEF GoesTo, InStop, RunsOn, Suspends, LocalsOf, Idle, Role
      <4>2. ASSUME ReturnsTo(c) \/ Returns(c) PROVE GoesTo(c)' # "begin"
        BY <4>2 DEF ReturnsTo, Returns, Called
      <4>3. CASE ProcessPartial(c) \/ ProcessFinal(c)
        BY <4>2, <4>3 DEF ProcessPartial, ReceivePartial, ProcessFinal, ReceiveFinal
      <4>4. CASE StartTurn(c) \/ WholeTurn(c)
        BY <4>2, <4>4 DEF StartTurn, PartialReturns, WholeTurn
      <4>5. CASE HandleInterruption(c)
        BY <4>2, <4>5 DEF HandleInterruption, StopWaits
      <4>6. CASE BargeInSent(c) \/ TurnHeldSent(c) \/ OnUserTurnCompleted(c) \/ BeginReply(c)
        BY <4>2, <4>6 DEF BargeInSent, TurnHeldSent, OnUserTurnCompleted, BeginReply
      <4>7. CASE Arrives(c)
        BY <4>7 DEF Arrives, TranscriptArrives, InjectTranscript
      <4>8. CASE c \in HoldTasks /\ HoldExpires(c)
        BY <4>8 DEF HoldExpires, Resumes
      <4>9. CASE c = "vad" /\ SpeechOnset
        BY <4>9 DEF SpeechOnset, Resumes
      <4> QED
        BY <3>3, <4>3, <4>4, <4>5, <4>6, <4>7, <4>8, <4>9 DEF SessionStep, CallerStep
    <3> QED
      BY <3>1, <3>2, <3>3
  <2>6. Stopping(c)'
    BY <2>5 DEF Stopping
  <2>7. OneOpener'
    BY <1>3, <2>5 DEF Steady, OneOpener
  <2> QED
    BY <2>2, <2>3, <2>6, <2>7 DEF Steady
<1>5. CASE Begins(c)
  <2>1. BeginReply(c) /\ pc[c] = "begin" /\ loop = c
    BY <1>5 DEF Begins, BeginReply, Continues
  <2>2. GoesTo(c) = "begin" /\ Silent
    BY <2>1 DEF GoesTo, InStop, Steady, Stopping
  <2>3. local[c].reply \in Reply
    BY <2>2, TypeParts, RepliesAssumption DEF Basic, Numbered, Opening, Reply, Flags
  <2>4. OneVoice'
    BY <1>1, <2>1, <2>2, <2>3 DEF BeginReply, Begin, OneVoice, Silent, TtsRuns, TtsTypeOK
  <2>5. ASSUME NEW d \in Callers PROVE GoesTo(d)' # "begin"
    <3>1. CASE d = c
      BY <1>1, <2>1, <3>1 DEF BeginReply, Returns, Suspends, GoesTo, InStop, Idle
    <3>2. CASE d # c
      BY <1>2, <1>3, <2>1, <2>2, <3>2 DEF Steady, OneOpener
    <3> QED
      BY <3>1, <3>2
  <2> QED
    BY <2>4, <2>5 DEF Steady, OneOpener, Stopping
<1> QED
  BY <1>1, <1>4, <1>5, StepOfTask

-----------------------------------------------------------------------------
(* Without fast barge-in: the user can interrupt, and is not talked over *)

\* Cancelling ends the one generation there is.
LEMMA NothingGenerates ==
  ASSUME TypeOK, Latest, Cancel
  PROVE  \A r \in Reply : ~Generates(r)'
<1> SUFFICES ASSUME NEW r \in Reply, Generates(r)' PROVE FALSE
  OBVIOUS
<1>1. LlmTypeOK
  BY TypeParts
<1>2. Generates(r) /\ r = llm_task
  BY <1>1, LlmCalms DEF LlmCalm, Latest
<1>3. IsGenerating
  BY <1>2, RepliesAssumption DEF Generates, IsGenerating, LlmRuns, None, Reply
<1>4. llm_cancelled'[r]
  BY <1>1, <1>2, <1>3 DEF Cancel, CancelGeneration, LlmTypeOK
<1> QED
  BY <1>4 DEF Generates

LEMMA PoliteOfConsumer ==
  ASSUME TypeOK, Framed, Running, Steady, Polite, NEW r \in Reply,
         LlmTask(r) \/ LlmFault(r) \/ TtsTask(r) \/ TtsFault(r)
  PROVE  Polite'
<1>1. LlmTypeOK /\ TtsTypeOK /\ Flags /\ "stt" \in Callers /\ Idle \notin Callers
  BY TypeParts, Names
<1>2. UNCHANGED <<loop, pc, local, is_user_speaking, hold_armed>> /\ loop = Idle
  <2>1. UNCHANGED <<loop, pc, local, is_user_speaking, hold_armed>>
    BY TaskTypes DEF TaskFrame, callerVars, holdVars
  <2> QED
    BY <2>1 DEF LlmTask, LlmStep, LlmSegment, LlmNoSegment, OnComplete, LlmFault, TtsTask,
       TtsStep, OnPlaybackEnd, TurnMetricsSent, TtsFault
<1>3. /\ tts_task' = tts_task /\ stopping' = stopping
      /\ \A s \in Reply : /\ TtsRuns(s)' => TtsRuns(s)
                          /\ Audible(s)' => Audible(s)
                          /\ Generates(s)' => Generates(s)
  <2>1. CASE LlmTask(r) \/ LlmFault(r)
    <3>1. LlmTaskStep(r)
      BY <2>1 DEF LlmTask, LlmStep, LlmSegment, LlmNoSegment, OnComplete, LlmFault, LlmTaskStep
    <3>2. \A s \in Reply : Generates(s)' => Generates(s)
      BY <1>1, <3>1, LlmCalms DEF LlmCalm
    <3>3. UNCHANGED <<tts_task, tts_pc, tts_cancelled, stopping>>
      BY <2>1 DEF LlmTask, LlmStep, LlmSegment, LlmNoSegment, OnComplete, LlmFault, Speak, Finish,
         ttsVars, ttsTaskVars
    <3> QED
      BY <3>2, <3>3 DEF TtsRuns, Audible, Speaking
  <2>2. CASE TtsTask(r) \/ TtsFault(r)
    <3>1. TtsTaskStep(r) /\ UNCHANGED llmVars
      BY <2>2 DEF TtsTask, TtsStep, OnPlaybackEnd, TurnMetricsSent, TtsFault, TtsTaskStep
    <3>2. TtsCalm /\ UNCHANGED stopping
      BY <1>1, <3>1, TtsTaskCalms
    <3>3. \A s \in Reply : Generates(s)' => Generates(s)
      BY <1>1, <3>1, LlmCalms DEF LlmCalm
    <3> QED
      BY <3>2, <3>3 DEF TtsCalm
  <2> QED
    BY <2>1, <2>2
<1>4. \/ is_system_speaking' = is_system_speaking
      \/ ~is_system_speaking' /\ Silent'
  <2>1. CASE LlmTask(r) \/ LlmFault(r) \/ TtsFault(r) \/ TtsStep(r)
    BY <2>1 DEF LlmTask, LlmStep, LlmSegment, LlmNoSegment, OnComplete, LlmFault, TtsStep, TtsFault,
       sessionVars, stateVars
  <2>2. CASE OnPlaybackEnd(r) /\ timing = r
    BY <2>2 DEF OnPlaybackEnd
  <2>3. CASE (OnPlaybackEnd(r) /\ timing # r) \/ TurnMetricsSent(r)
    <3>1. TtsDone(r) /\ TtsRuns(r) /\ EndSystemTurn(r)
      BY <2>3 DEF OnPlaybackEnd, TurnMetricsSent, TtsPlaybackEnds, TtsReturns, TtsAt, TtsRuns
    <3>2. r = tts_task /\ ~TtsRuns(r)'
      BY <1>1, <3>1 DEF Steady, OneVoice, TtsDone, TtsRuns, TtsTypeOK
    <3>3. Silent'
      BY <1>3, <3>2 DEF Silent, Steady, OneVoice
    <3>4. is_system_speaking' = is_system_speaking \/ ~is_system_speaking'
      BY <1>1, <3>1 DEF EndSystemTurn, Flags
    <3> QED
      BY <3>3, <3>4
  <2> QED
    BY <2>1, <2>2, <2>3 DEF TtsTask
<1>5. Silent => Silent'
  BY <1>3 DEF Silent
<1>6. \A c \in Callers : pc[c] \notin {"completed", "reply", "begin"}
  BY <1>1, <1>2 DEF Running, InStop, Idle
<1>7. Taking'
  BY <1>2, <1>6 DEF Taking, Take
<1>8. UserTurn' /\ Pause'
  BY <1>2, <1>3, <1>4, <1>5 DEF Polite, UserTurn, Pause, Interrupts
<1>9. Interrupting'
  BY <1>2, <1>3, <1>4, <1>5 DEF Polite, Interrupting, Interrupts
<1>10. Interruption'
  <2>1. CASE is_system_speaking' = is_system_speaking
    BY <1>2, <1>3, <2>1 DEF Polite, Interruption
  <2>2. CASE Silent'
    BY <2>2 DEF Interruption, Silent, Audible, Speaking, TtsRuns
  <2> QED
    BY <1>4, <2>1, <2>2
<1> QED
  BY <1>7, <1>8, <1>9, <1>10 DEF Polite

\* Without development messages and fast barge-in, while the connection is open: the
\* recogniser's task runs the session's code, and a timer opens the reply to a held turn.
LEMMA WhoActs ==
  ASSUME Basic, Roles, Steady, Open, ~DevMessages, ~VadBargeIn,
         NEW c \in Callers \ {"ws"}, SessionStep(c)
  PROVE  c = "stt" \/ (c \in HoldTasks /\ HoldExpires(c)) \/ StartReply(c) \/ BeginReply(c)
<1> SUFFICES ASSUME c # "stt"
             PROVE  (c \in HoldTasks /\ HoldExpires(c)) \/ StartReply(c) \/ BeginReply(c)
  OBVIOUS
<1>1. Role(c) /\ Idle \notin Callers
  BY Names DEF Roles
<1>2. ~Arrives(c)
  BY DEF Arrives, TranscriptArrives, Open
<1>3. CASE c = "vad"
  BY <1>1, <1>2, <1>3, Names DEF Role, SessionStep, CallerStep, SpeechOnset, ProcessPartial, ReceivePartial,
     StartTurn, ProcessFinal, ReceiveFinal, WholeTurn, HandleInterruption, Gathered, StopJoins,
     ClearSent, StopClears, BargeInSent, OnUserTurnCompleted, TurnHeldSent, StartReply, BeginReply,
     Resumes, Continues, Idle
<1>4. CASE c \in HoldTasks
  <2>1. CASE Gathered(c) \/ ClearSent(c)
    <3>1. loop = Idle /\ pc[c] \in InStop
      BY <2>1 DEF Gathered, ClearSent, StopJoins, StopClears, Resumes, InStop
    <3>2. GoesTo(c) = "begin"
      BY <1>1, <1>4, <3>1 DEF Role, GoesTo, Idle
    <3> QED
      BY <1>1, <3>1, <3>2 DEF Steady, OneOpener
  <2>2. CASE ~Gathered(c) /\ ~ClearSent(c)
    <3>1. SessionStep(c) => CallerStep(c) \/ HoldExpires(c)
      BY <1>2, <1>4, Names DEF SessionStep
    <3>2. pc[c] \in {Idle, "reply", "begin"} \cup InStop
      BY <1>1, <1>4 DEF Role, GoesTo
    <3> QED
      BY <1>4, <2>2, <3>1, <3>2 DEF CallerStep, ProcessPartial, ReceivePartial,
         StartTurn, ProcessFinal, ReceiveFinal, WholeTurn, HandleInterruption,
         BargeInSent, OnUserTurnCompleted, TurnHeldSent, InStop, Resumes, Continues, Idle
  <2> QED
    BY <2>1, <2>2
<1> QED
  BY <1>3, <1>4, Names

\* A reply is opened, begun, or due because a timer expired.
LEMMA PoliteReply ==
  ASSUME Basic, Steady, Polite, NEW c \in Callers, Alone(c),
         StartReply(c) \/ BeginReply(c) \/ (c \in HoldTasks /\ HoldExpires(c))
  PROVE  Polite'
<1>1. /\ pc \in [Callers -> Pc] /\ TtsTypeOK /\ Flags /\ "stt" \in Callers /\ Idle \notin Callers
      /\ c \in HoldTasks => c # "stt"
  BY TypeParts, Names DEF PlacedIn, Basic
<1>2. \A d \in Callers \ {c} :
        /\ pc'[d] = pc[d] /\ local'[d] = local[d] /\ stopping'[d] = stopping[d]
        /\ pc[d] \in InStop \cup {Idle, "turn_held", "barge_in", "aclose"}
  BY <1>1 DEF Alone, Running, Basic
<1>3. ASSUME NEW d \in Callers \ {c} PROVE Take(d)'
  BY <1>2 DEF Take, InStop, Idle
<1>4. ASSUME Silent' PROVE Interruption'
  BY <1>4 DEF Interruption, Silent, Audible, Speaking, TtsRuns
<1>5. CASE StartReply(c)
  <2>1. /\ pc[c] = "reply" /\ Silent /\ ~is_user_speaking /\ ~hold_armed
        /\ c # "stt" => ~Interrupts /\ pc["stt"] \notin {"started", "whole"}
    BY <1>5 DEF StartReply, Continues, Polite, Taking, Take
  <2>2. UNCHANGED ttsVars /\ RunsOn(c, "begin")
    BY <1>1, <1>5, <2>1 DEF StartReply, StopNeedless, StopWaits, IsActive, Silent, TtsTypeOK
  <2>3. Silent' /\ pc'[c] = "begin" /\ is_system_speaking'
    BY <1>1, <1>5, <2>1, <2>2 DEF StartReply, Silent, TtsRuns, ttsVars, ttsTaskVars, RunsOn
  <2>4. ~is_user_speaking' /\ ~hold_armed'
    BY <1>5, <2>1 DEF StartReply, holdVars
  <2>5. ~Interrupts' /\ pc'["stt"] \notin {"started", "whole"}
    BY <1>1, <1>2, <2>1, <2>3 DEF Interrupts, InStop
  <2>6. Take(c)'
    BY <2>3, <2>4, <2>5 DEF Take
  <2>7. UserTurn' /\ Pause' /\ Interrupting'
    BY <2>4, <2>5 DEF UserTurn, Pause, Interrupting, Interrupts, InStop
  <2> QED
    BY <1>3, <1>4, <2>3, <2>6, <2>7 DEF Polite, Taking
<1>6. CASE BeginReply(c)
  <2>1. /\ pc[c] = "begin" /\ is_system_speaking /\ ~is_user_speaking /\ ~hold_armed
        /\ c # "stt" => ~Interrupts /\ pc["stt"] \notin {"started", "whole"}
    BY <1>6 DEF BeginReply, Continues, Polite, Taking, Take
  <2>2. is_system_speaking' /\ ~is_user_speaking' /\ ~hold_armed' /\ pc'[c] = Idle
    BY <1>1, <1>6, <2>1 DEF BeginReply, sessionVars, stateVars, holdVars, Returns, Suspends
  <2>3. ~Interrupts' /\ pc'["stt"] \notin {"started", "whole"}
    BY <1>1, <1>2, <2>1, <2>2 DEF Interrupts, InStop, Idle
  <2>4. Take(c)' /\ UserTurn' /\ Pause' /\ Interrupting' /\ Interruption'
    BY <2>2, <2>3 DEF Take, UserTurn, Pause, Interrupting, Interruption, Interrupts, InStop, Idle
  <2> QED
    BY <1>3, <2>4 DEF Polite, Taking
<1>7. CASE c \in HoldTasks /\ HoldExpires(c)
  <2>1. /\ hold_armed /\ loop = Idle /\ pc[c] = Idle /\ ~hold_armed'
        /\ UNCHANGED <<ttsVars, is_user_speaking, is_system_speaking, llmVars>>
        /\ pc'[c] \in {Idle, "reply"}
    BY <1>1, <1>7 DEF HoldExpires, Resumes, RunsOn, stateVars
  <2>2. Silent /\ ~is_system_speaking /\ ~Interrupts /\ ~is_user_speaking
    BY <2>1 DEF Polite, Pause, UserTurn
  <2>3. Silent' /\ ~is_system_speaking' /\ ~is_user_speaking'
    BY <2>1, <2>2 DEF Silent, TtsRuns, ttsVars, ttsTaskVars
  <2>4. ~Interrupts' /\ pc'["stt"] \notin {"started", "whole"}
    BY <1>1, <1>2, <1>7, <2>2 DEF Interrupts, InStop, Idle
  <2>5. Take(c)' /\ UserTurn' /\ Pause' /\ Interrupting'
    BY <2>1, <2>3, <2>4 DEF Take, UserTurn, Pause, Interrupting, Interrupts, InStop, Idle
  <2> QED
    BY <1>3, <1>4, <2>3, <2>5 DEF Polite, Taking
<1> QED
  BY <1>5, <1>6, <1>7

\* The recogniser's task processes a transcript.
LEMMA PoliteTranscript ==
  ASSUME Basic, Steady, Polite, Open, ~DevMessages, Alone("stt"),
         \/ Arrives("stt") \/ ProcessPartial("stt") \/ StartTurn("stt") \/ ProcessFinal("stt")
         \/ WholeTurn("stt") \/ OnUserTurnCompleted("stt") \/ TurnHeldSent("stt")
  PROVE  Polite'
<1> DEFINE c == "stt"
<1>1. /\ pc \in [Callers -> Pc] /\ local \in [Callers -> LocalsOf(Pc)] /\ TtsTypeOK /\ Flags
      /\ c \in Callers /\ Idle \notin Callers /\ TypeOK /\ LlmTypeOK /\ Latest
  BY TypeParts, Names DEF PlacedIn, Basic, Words
<1>2. ASSUME NEW d \in Callers \ {c} PROVE Take(d)'
  <2>1. pc'[d] \in InStop \cup {Idle, "turn_held", "barge_in", "aclose"}
    BY <1>1 DEF Alone, Running, Basic
  <2> QED
    BY <2>1 DEF Take, InStop, Idle
<1>3. UNCHANGED ttsVars /\ is_system_speaking' = is_system_speaking
  BY DEF Arrives, TranscriptArrives, ProcessPartial, ReceivePartial, StartTurn, ProcessFinal,
         ReceiveFinal, WholeTurn, OnUserTurnCompleted, TurnHeldSent, sessionVars, stateVars
<1>4. /\ Silent' <=> Silent
      /\ \A r \in Reply : (TtsRuns(r)' <=> TtsRuns(r)) /\ (Audible(r)' <=> Audible(r))
  BY <1>3 DEF Silent, TtsRuns, Audible, Speaking, ttsVars, ttsTaskVars
<1>5. UNCHANGED llmVars \/ Cancel
  BY DEF Arrives, TranscriptArrives, ProcessPartial, StartTurn, ProcessFinal,
         WholeTurn, OnUserTurnCompleted, TurnHeldSent, OnUserTurnStarted
<1>6. \A r \in Reply : Generates(r)' => Generates(r)
  BY <1>1, <1>5, LlmCalms DEF LlmCalm
<1>7. pc[c] # "gather"
  BY DEF Arrives, TranscriptArrives, ProcessPartial, ReceivePartial, StartTurn, ProcessFinal,
         ReceiveFinal, WholeTurn, OnUserTurnCompleted, TurnHeldSent, Resumes, Continues, Idle
<1>8. Interruption'
  BY <1>3, <1>4, <1>7 DEF Polite, Interruption
<1>9. ~is_system_speaking => Silent
  BY <1>7 DEF Polite, Interruption, Silent
<1> SUFFICES Take(c)' /\ UserTurn' /\ Pause' /\ Interrupting'
  BY <1>2, <1>8 DEF Polite, Taking
<1> USE DEF Polite
\* what follows if the step goes to an await outside an interruption, or a step before one
<1>10. ASSUME pc'[c] \in {Idle, "partial", "final", "turn_held"},
              is_user_speaking' => is_user_speaking, hold_armed' => hold_armed
       PROVE  Take(c)' /\ UserTurn' /\ Pause' /\ Interrupting'
  <2>1. ~Interrupts' /\ pc'["stt"] \notin {"started", "whole"}
    BY <1>10 DEF Interrupts, InStop, Idle
  <2> QED
    BY <1>3, <1>4, <1>6, <1>10, <2>1
    DEF Take, UserTurn, Pause, Interrupting, Interrupts, InStop, Idle
<1>11. ASSUME Returns(c) PROVE pc'[c] = Idle
  BY <1>1, <1>11 DEF Returns, Suspends
<1>12. CASE Arrives("stt")
  <2>1. pc'[c] \in {"partial", "final"} /\ UNCHANGED <<is_user_speaking, hold_armed>>
    BY <1>1, <1>12 DEF Arrives, TranscriptArrives, RunsOn, sessionVars, stateVars, holdVars
  <2> QED
    BY <1>10, <2>1
<1>13. CASE TurnHeldSent("stt")
  BY <1>10, <1>11, <1>13 DEF TurnHeldSent, sessionVars, stateVars, holdVars
\* the interruption of the system, or the start of the turn
<1>14. ASSUME NEW next \in {"started", "whole"},
              RunsOn(c, IF is_system_speaking THEN "interrupt" ELSE next),
              local' = [local EXCEPT ![c].ret = next],
              UNCHANGED <<is_user_speaking, hold_armed>>,
              next = "whole" => ~is_user_speaking
       PROVE  Take(c)' /\ UserTurn' /\ Pause' /\ Interrupting'
  <2>1. pc'[c] = (IF is_system_speaking THEN "interrupt" ELSE next) /\ local'[c].ret = next
    BY <1>1, <1>14 DEF RunsOn, LocalsOf
  <2>2. CASE is_system_speaking
    <3>1. ~hold_armed /\ ~is_user_speaking
      BY <2>2 DEF Pause, UserTurn
    <3> QED
      BY <1>3, <1>14, <2>1, <2>2, <3>1
      DEF Take, UserTurn, Pause, Interrupting, Interrupts, InStop
  <2>3. CASE ~is_system_speaking
    <3>1. Silent' /\ pc'[c] = next /\ ~is_system_speaking'
      BY <1>3, <1>4, <1>9, <2>1, <2>3
    <3>2. Take(c)' /\ Pause' /\ Interrupting'
      BY <1>14, <3>1 DEF Take, Pause, Interrupting, Interrupts, InStop
    <3>3. UserTurn'
      BY <1>6, <1>14, <3>1 DEF UserTurn
    <3> QED
      BY <3>2, <3>3
  <2> QED
    BY <2>2, <2>3
<1>15. CASE ProcessPartial("stt")
  BY <1>14, <1>15 DEF ProcessPartial, ReceivePartial, stateVars, holdVars
<1>16. CASE ProcessFinal("stt")
  <2>1. hold_armed' = hold_armed
    BY <1>16 DEF ProcessFinal, holdVars
  <2>2. CASE is_user_speaking
    <3>1. ~is_user_speaking' /\ pc'[c] = "completed" /\ Silent' /\ ~is_system_speaking' /\ ~hold_armed'
      BY <1>1, <1>3, <1>4, <1>16, <2>1, <2>2 DEF ProcessFinal, ReceiveFinal, UserTurn, RunsOn
    <3> QED
      BY <3>1 DEF Take, UserTurn, Pause, Interrupting, Interrupts, InStop
  <2>3. CASE ~is_user_speaking /\ local[c].text # "Blank"
    BY <1>14, <1>16, <2>1, <2>3 DEF ProcessFinal, ReceiveFinal
  <2>4. CASE ~is_user_speaking /\ local[c].text = "Blank"
    BY <1>10, <1>11, <1>16, <2>1, <2>4 DEF ProcessFinal, ReceiveFinal
  <2> QED
    BY <2>2, <2>3, <2>4
<1>17. CASE StartTurn("stt")
  <2>1. Silent' /\ ~is_system_speaking'
    BY <1>3, <1>4, <1>17 DEF StartTurn, Continues, Interrupting, InStop
  <2>2. pc'[c] \in {Idle, "final"}
    BY <1>1, <1>11, <1>17 DEF StartTurn, PartialReturns, RunsOn
  <2>3. CASE is_user_speaking
    BY <1>10, <1>17, <2>2, <2>3 DEF StartTurn
  <2>4. CASE ~is_user_speaking
    <3>1. ~hold_armed' /\ Cancel
      BY <1>17, <2>4 DEF StartTurn, OnUserTurnStarted
    <3>2. \A r \in Reply : ~Generates(r)'
      BY <1>1, <3>1, NothingGenerates
    <3> QED
      BY <2>1, <2>2, <3>1, <3>2 DEF Take, UserTurn, Pause, Interrupting, Interrupts, InStop, Idle
  <2> QED
    BY <2>3, <2>4
<1>18. CASE WholeTurn("stt")
  <2>1. Silent' /\ ~is_system_speaking' /\ ~is_user_speaking' /\ ~hold_armed' /\ pc'[c] = "completed"
    BY <1>1, <1>3, <1>4, <1>18 DEF WholeTurn, OnUserTurnStarted, Continues, Interrupting, InStop, RunsOn
  <2> QED
    BY <2>1 DEF Take, UserTurn, Pause, Interrupting, Interrupts, InStop
<1>19. CASE OnUserTurnCompleted("stt")
  <2>1. Silent' /\ ~is_system_speaking' /\ ~is_user_speaking'
    BY <1>1, <1>3, <1>4, <1>19 DEF OnUserTurnCompleted, Continues, Taking, Take, stateVars
  <2>2. \/ pc'[c] \in {Idle, "turn_held"}
        \/ pc'[c] = "reply" /\ ~hold_armed'
    BY <1>1, <1>11, <1>19 DEF OnUserTurnCompleted, RunsOn, Suspends
  <2> QED
    BY <2>1, <2>2 DEF Take, UserTurn, Pause, Interrupting, Interrupts, InStop, Idle
<1> QED
  BY <1>12, <1>13, <1>15, <1>16, <1>17, <1>18, <1>19

\* The recogniser's task interrupts the system.
LEMMA PoliteInterruption ==
  ASSUME Basic, Steady, Polite, Alone("stt"),
         \/ HandleInterruption("stt") \/ Gathered("stt") \/ ClearSent("stt") \/ BargeInSent("stt")
  PROVE  Polite'
<1> DEFINE c == "stt"
<1>1. /\ pc \in [Callers -> Pc] /\ local \in [Callers -> LocalsOf(Pc)] /\ TtsTypeOK /\ Flags
      /\ c \in Callers /\ Idle \notin Callers
  BY TypeParts, Names DEF PlacedIn, Basic
<1>2. ASSUME NEW d \in Callers \ {c} PROVE Take(d)'
  <2>1. pc'[d] \in InStop \cup {Idle, "turn_held", "barge_in", "aclose"}
    BY <1>1 DEF Alone, Running, Basic
  <2> QED
    BY <2>1 DEF Take, InStop, Idle
<1> SUFFICES Take(c)' /\ UserTurn' /\ Pause' /\ Interrupting' /\ Interruption'
  BY <1>2 DEF Polite, Taking
<1> USE DEF Polite
<1>3. /\ pc[c] \in InStop \cup {"interrupt", "barge_in"} /\ Interrupts
      /\ ~hold_armed' /\ local[c].ret \in {"started", "whole"}
      /\ ~is_system_speaking' /\ ~is_user_speaking'
  BY DEF HandleInterruption, Gathered, ClearSent, BargeInSent, StopJoins, StopClears, ClearTurns,
         Resumes, Continues, Interrupts, InStop, Pause, Interrupting, sessionVars, stateVars, holdVars
<1>4. ASSUME Silent', \/ pc'[c] \in {"clear", "barge_in"} /\ local'[c].ret \in {"started", "whole"}
                         /\ (pc'[c] = "clear" => local'[c].after = "barge_in")
                      \/ pc'[c] \in {"started", "whole"}
      PROVE  Take(c)' /\ UserTurn' /\ Pause' /\ Interrupting' /\ Interruption'
  <2>1. Interruption'
    BY <1>4 DEF Interruption, Silent, Audible, Speaking, TtsRuns
  <2> QED
    BY <1>3, <1>4, <2>1 DEF Take, UserTurn, Pause, Interrupting, Interrupts, InStop
<1>5. ASSUME ReturnsTo(c) PROVE pc'[c] \in {"started", "whole"}
  BY <1>1, <1>3, <1>5 DEF ReturnsTo, RunsOn, Idle
<1>6. CASE HandleInterruption("stt")
  <2>1. CASE StopWaits(c) /\ local' = [local EXCEPT ![c].after = "barge_in"]
    <3>1. /\ pc'[c] = "gather" /\ local'[c].after = "barge_in" /\ local'[c].ret = local[c].ret
          /\ stopping'[c].target = tts_task /\ tts_task' = tts_task
      BY <1>1, <2>1 DEF StopWaits, StopCancels, Suspends, LocalsOf, TtsTypeOK
    <3>2. ASSUME NEW r \in Reply PROVE ~Audible(r)'
      BY <1>1, <2>1, <3>2 DEF StopWaits, StopCancels, Audible, Speaking, Steady, OneVoice, TtsRuns, TtsTypeOK
    <3> QED
      BY <1>3, <3>1, <3>2 DEF Take, UserTurn, Pause, Interrupting, Interruption, Interrupts, InStop
  <2>2. CASE StopNeedless /\ ReturnsTo(c)
    <3>1. Silent'
      BY <1>1, <2>2 DEF StopNeedless, IsActive, Steady, OneVoice, Silent, TtsRuns, ttsVars, ttsTaskVars,
         None, Reply
    <3> QED
      BY <1>4, <1>5, <2>2, <3>1
  <2> QED
    BY <1>6, <2>1, <2>2 DEF HandleInterruption
<1>7. CASE Gathered("stt") \/ ClearSent("stt")
  <2>1. Silent
    BY <1>1, <1>7 DEF Gathered, ClearSent, StopJoins, StopClears, Resumes, StopGathered, Interrupting,
       Steady, OneVoice, Silent, TtsRuns
  <2>2. Silent'
    BY <1>7, <2>1 DEF Gathered, ClearSent, StopJoins, StopClears, StopReturns, StopEnds, Silent, TtsRuns,
       ttsVars, ttsTaskVars
  <2>3. local[c].after = "barge_in"
    BY <1>7 DEF Gathered, ClearSent, StopJoins, StopClears, Resumes, Interrupting, InStop
  <2>4. /\ pc'[c] \in {"clear", "barge_in"} /\ local'[c].ret = local[c].ret
        /\ pc'[c] = "clear" => local'[c].after = "barge_in"
    BY <1>1, <1>7, <2>3 DEF Gathered, ClearSent, StopJoins, StopClears, StopReturns, Suspends, LocalsOf
  <2> QED
    BY <1>3, <1>4, <2>2, <2>4
<1>8. CASE BargeInSent("stt")
  <2>1. Silent'
    BY <1>8 DEF BargeInSent, Resumes, Interrupting, Silent, TtsRuns, ttsVars, ttsTaskVars
  <2> QED
    BY <1>4, <1>5, <1>8, <2>1 DEF BargeInSent
<1> QED
  BY <1>6, <1>7, <1>8

-----------------------------------------------------------------------------
(* The invariant *)

LEMMA InitInv == Init => Inv
<1> SUFFICES ASSUME Init PROVE Inv
  OBVIOUS
<1>1. <<>> \in Seq(Reply \cup {None}) /\ <<>> \in Seq({"user", "assistant"} \X Reply)
      /\ Len(<<>>) = 0
  OBVIOUS
<1>2. LlmTypeOK
  <2>1. 0 \in 0..MaxTokens
    BY TokensAssumption
  <2> QED
    BY <2>1 DEF Init, ConversationInit, LlmInit, LlmTypeOK, LlmPc
<1>3. TtsTypeOK
  <2>1. 0 \in 0..MaxAudio
    BY AudioAssumption
  <2> QED
    BY <1>1, <2>1 DEF Init, ConversationInit, TtsInit, TtsTypeOK, TtsPc, NoStop
<1>4. PlacedIn(Pc)
  <2>1. NoLocals \in LocalsOf(Pc) /\ Idle \in Pc
    BY DEF NoLocals, LocalsOf, Texts, Pc
  <2> QED
    BY <2>1 DEF Init, ConversationInit, PlacedIn
<1>5. Flags
  <2>1. 0 <= 2 * HistoryTurns /\ 0 \in 0..MaxReplies
    BY HistoryAssumption, RepliesAssumption
  <2>2. 0 \in 0..MaxOnsets /\ 0 \in 0..MaxFaults
    BY SessionAssumption
  <2> QED
    BY <1>1, <2>1, <2>2 DEF Init, ConversationInit, Flags, HistoryOK
<1>6. TypeOK
  BY <1>2, <1>3, <1>4, <1>5, TypeParts
<1>7. /\ \A c \in Callers : pc[c] = Idle /\ GoesTo(c) = Idle /\ local[c].ret = Idle
      /\ \A r \in Reply : tts_pc[r] = "none" /\ llm_pc[r] = "none" /\ ~tts_frames[r]
      /\ tts_task = None /\ ~is_user_speaking /\ ~held /\ ~hold_armed /\ "stt" \in Callers
  BY Names DEF Init, ConversationInit, LlmInit, TtsInit, GoesTo, InStop, Idle, NoLocals
<1>8. Framed /\ Running /\ Called /\ Numbered
  BY <1>7 DEF Framed, Running, Called, Numbered, Opening, Idle
<1>9. Words
  BY <1>7 DEF Words, Latest, Fixed, OwnWords, Outcomes, Complete, EndsWithItsText, Early, Generates,
     None, Reply
<1>10. Roles
  BY <1>7 DEF Roles, Role, InStop, Idle
<1>11. Silent
  BY <1>7 DEF Silent, TtsRuns
<1>12. Steady
  BY <1>7, <1>11 DEF Steady, OneVoice, OneOpener, Stopping, Silent, Idle
<1>13. Polite
  BY <1>7, <1>11 DEF Polite, Taking, Take, UserTurn, Pause, Interrupting, Interruption, Interrupts, InStop,
     Silent, Audible, Speaking, TtsRuns, Idle
<1> QED
  BY <1>6, <1>8, <1>9, <1>10, <1>12, <1>13 DEF Inv

\* A step that changes nothing.
LEMMA StutterInv ==
  ASSUME Inv, UNCHANGED vars
  PROVE  Inv'
<1>1. /\ UNCHANGED <<llmVars, ttsVars, loop, pc, local, injecting, closed>>
      /\ UNCHANGED <<stateVars, holdVars, timing, history, replies, events, onsets, faults>>
  BY DEF vars, callerVars, sessionVars, budget
<1>2. UNCHANGED <<llm_task, llm_pc, llm_outcome, llm_cancelled, llm_parts>>
  BY <1>1 DEF llmVars
<1>3. UNCHANGED <<tts_task, tts_pc, tts_queue, tts_frames, tts_interrupted, tts_cancelled, stopping>>
  BY <1>1 DEF ttsVars, ttsTaskVars
<1>4. UNCHANGED <<is_user_speaking, is_system_speaking, held, hold_armed>>
  BY <1>1 DEF stateVars, holdVars
<1>5. TypeOK' /\ Framed' /\ Running' /\ Called' /\ Numbered' /\ Words'
  <2>1. TypeOK' /\ Words'
    <3>1. Typed
      BY <1>1, <1>4, TypeParts DEF Inv, Typed, LlmOperation, TtsOperation, Flags, HistoryOK, PlacedIn, LocalsOf
    <3> QED
      BY <1>1, <3>1, TypedStep, WordsStopped DEF Inv
  <2>2. Framed' /\ Running' /\ Called'
    BY <1>1, <1>3 DEF Inv, Framed, Running, Called, TtsRuns
  <2>3. Numbered'
    BY <1>1, <1>2, <1>3 DEF Inv, Numbered, Opening, GoesTo
  <2> QED
    BY <2>1, <2>2, <2>3
<1>6. ~DevMessages => Roles'
  BY <1>1, <1>4 DEF Inv, Roles, Role, GoesTo
<1>7. (Open' => Open) /\ (Silent' <=> Silent)
  BY <1>1, <1>3 DEF Open, Silent, TtsRuns
<1>8. Steady => Steady'
  BY <1>1, <1>3, <1>7 DEF Steady, OneVoice, OneOpener, Stopping, GoesTo, TtsRuns
<1>9. Polite => Polite'
  <2>1. ASSUME Polite PROVE Taking' /\ UserTurn' /\ Pause' /\ Interrupting'
    BY <1>1, <1>2, <1>3, <1>4, <1>7, <2>1
    DEF Polite, Taking, Take, UserTurn, Pause, Interrupting, Interrupts, Generates
  <2>2. ASSUME Polite PROVE Interruption'
    BY <1>1, <1>3, <1>4, <2>2 DEF Polite, Interruption, Audible, Speaking, TtsRuns
  <2> QED
    BY <2>1, <2>2 DEF Polite
<1> QED
  BY <1>5, <1>6, <1>7, <1>8, <1>9 DEF Inv

LEMMA NextInv == Inv /\ [Next]_vars => Inv'
<1> SUFFICES ASSUME Inv, [Next]_vars PROVE Inv'
  OBVIOUS
<1>1. Basic
  BY DEF Inv, Basic
<1>2. ASSUME NEW r \in Reply, LlmTask(r) \/ LlmFault(r) \/ TtsTask(r) \/ TtsFault(r)
      PROVE  Inv'
  <2>1. Basic'
    BY <1>1, <1>2, BasicOfConsumer
  <2>2. UNCHANGED <<pc, local, closed, held, hold_armed>>
    BY <1>1, <1>2, TaskTypes DEF Basic, TaskFrame, callerVars, holdVars
  <2>3. ~DevMessages => Roles'
    BY <2>2 DEF Inv, Roles, Role, GoesTo
  <2>4. Open' => Open
    BY <2>2 DEF Open
  <2>5. Steady => Steady'
    BY <1>1, <1>2, SteadyOfConsumer DEF Basic
  <2>6. Steady /\ Polite => Polite'
    BY <1>1, <1>2, PoliteOfConsumer DEF Basic
  <2> QED
    BY <2>1, <2>3, <2>4, <2>5, <2>6 DEF Inv, Basic
<1>3. ASSUME NEW c \in Callers, SessionStep(c)
      PROVE  Inv'
  <2>1. Basic'
    BY <1>1, <1>3, BasicOfTask
  <2>2. ~DevMessages => Roles'
    BY <1>1, <1>3, RolesStep DEF Inv, Basic
  <2>3. ~DevMessages /\ Open' => Open /\ c # "ws"
    BY <1>1, <1>3, OpenStays DEF Inv, Basic
  <2>4. ASSUME ~DevMessages, ~VadBargeIn \/ ~EotHold, Open' PROVE Steady'
    <3>1. Roles /\ Open /\ Steady /\ c \in Callers \ {"ws"} /\ (~VadBargeIn => Taking)
      BY <1>3, <2>3, <2>4 DEF Inv, Polite
    <3> QED
      BY <1>1, <1>3, <2>4, <3>1, SteadyOfTask
  <2>5. ASSUME ~DevMessages, ~VadBargeIn, Open' PROVE Polite'
    <3>1. Roles /\ Open /\ Steady /\ Polite /\ c \in Callers \ {"ws"}
      BY <1>3, <2>3, <2>5 DEF Inv
    <3>2. Alone(c)
      BY <1>1, <1>3, StepOfTask DEF Basic
    <3>3. CASE StartReply(c) \/ BeginReply(c) \/ (c \in HoldTasks /\ HoldExpires(c))
      BY <1>1, <3>1, <3>2, <3>3, PoliteReply
    <3>4. CASE c = "stt" /\ ~StartReply(c) /\ ~BeginReply(c)
      <4>1. \/ Arrives("stt") \/ ProcessPartial("stt") \/ StartTurn("stt") \/ ProcessFinal("stt")
            \/ WholeTurn("stt") \/ OnUserTurnCompleted("stt") \/ TurnHeldSent("stt")
            \/ HandleInterruption("stt") \/ Gathered("stt") \/ ClearSent("stt") \/ BargeInSent("stt")
        BY <1>3, <3>4, Names DEF SessionStep, CallerStep
      <4> QED
        BY <1>1, <2>5, <3>1, <3>2, <3>4, <4>1, PoliteTranscript, PoliteInterruption
    <3> QED
      BY <1>1, <1>3, <2>5, <3>1, <3>3, <3>4, WhoActs
  <2> QED
    BY <2>1, <2>2, <2>4, <2>5 DEF Inv, Basic
<1> QED
  BY <1>2, <1>3, StutterInv, StepsOfTasks

\* The inductive invariant of a voice session: the types, the numbers of the replies
\* and their texts with every feature on, and what the turn-taking guarantees of the
\* speech until the connection goes away.
THEOREM Invariance == Spec => []Inv
BY InitInv, NextInv, PTL DEF Spec

\* The session's state keeps its types, with every feature on.
THEOREM Typing == Spec => []TypeOK
<1>1. Inv => TypeOK
  BY DEF Inv
<1> QED
  BY <1>1, Invariance, PTL

\* A reply never speaks the text of another, although both go through the one speak of
\* the session's TTSConsumer: with every feature on, also after close and failures.
THEOREM OwnTextOnly == Spec => []OwnWords
<1>1. Inv => OwnWords
  BY DEF Inv, Words
<1> QED
  BY <1>1, Invariance, PTL

\* If nothing failed, no reply comes to its regular end while its text is still being
\* generated, although finish too knows only the current reply (_on_llm_complete).
THEOREM WholeText == Spec => []EndsWithItsText
<1>1. Inv => EndsWithItsText
  BY DEF Inv, Words
<1> QED
  BY <1>1, Invariance, PTL

\* Until the connection goes away two replies never speak at once (TTSConsumer.begin),
\* if there are no development messages and either fast barge-in or the hold of
\* unfinished turns is off.
THEOREM OneVoiceOnly ==
  ASSUME ~DevMessages, ~VadBargeIn \/ ~EotHold
  PROVE  Spec => [](Open => OneReplyAtATime)
<1>1. Inv => (Open => OneReplyAtATime)
  BY DEF Inv, Steady, OneVoice, OneReplyAtATime, Speaking, TtsRuns
<1> QED
  BY <1>1, Invariance, PTL

\* Until the connection goes away whatever is being spoken can be interrupted by the
\* user's next transcript (process_transcript_event asks is_system_speaking first), if
\* there are no development messages and fast barge-in is off.
THEOREM CanInterrupt ==
  ASSUME ~DevMessages, ~VadBargeIn
  PROVE  Spec => [](Open => Interruptible)
<1>1. Inv => (Open => Interruptible)
  BY DEF Inv, Polite, Interruption, Interruptible
<1> QED
  BY <1>1, Invariance, PTL

\* Until the connection goes away nothing is generated or spoken in the user's turn
\* (_on_user_turn_started, _on_user_interrupted), under the same settings.
THEOREM UserNotTalkedOver ==
  ASSUME ~DevMessages, ~VadBargeIn
  PROVE  Spec => [](Open => UserTurnIsQuiet)
<1>1. Inv => (Open => UserTurnIsQuiet)
  BY DEF Inv, Polite, UserTurn, UserTurnIsQuiet, Silent, Audible, Speaking, TtsRuns
<1> QED
  BY <1>1, Invariance, PTL
=============================================================================
