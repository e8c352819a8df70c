------------------------- MODULE CallSessionProofs -------------------------
(***************************************************************************)
(* For any number of replies, tasks, transcripts and failures: two replies *)
(* of a call are never spoken at once, a call that listens is quiet, a     *)
(* call that is over stays quiet, every change of state is in the table of *)
(* transitions, and a busy call in which nothing failed has work under way *)
(* that brings it back.                                                    *)
(*                                                                         *)
(* The argument is the lock's.  Whoever stops the speech or decides on the *)
(* state holds the lock, and between giving it up and beginning a reply    *)
(* the task does not suspend: so a reply is begun only when no other one   *)
(* runs, and never once the call is over.                                  *)
(***************************************************************************)
EXTENDS CallSession, ConversationProofs

-----------------------------------------------------------------------------
(* The inductive invariant *)

\* Steps of the processing of a transcript, outside the lock or waiting for it;
\* steps with the lock and without a suspension; the steps from there to a reply.
Turn == {"partial", "started", "final", "whole", "complete", "interrupt", "started_lock",
         "completed", "system_turn"}
Section == {"system_turn_on", "barged", "recovered", "unlock_say", "stop_stt"}
Begins == {"begin", "begun", "say", "said"}
InStop == {"gather", "clear"}

Silent == \A r \in Reply : ~TtsRuns(r)

\* The step task c is at, or the one it goes to when TTSConsumer.stop returns.
GoesTo(c) == IF pc[c] \in InStop THEN local[c].after ELSE pc[c]

\* A task that stops the speech holds the lock until it has used the result.
Holds(c) == pc[c] \in Section \cup InStop \cup {"join_stt", "wedged"} => lock = c

Stopping(c) ==
  /\ pc[c] \in InStop => local[c].after \in Section
  /\ pc[c] = "gather" => tts_task \in Reply /\ stopping[c].target = tts_task
  /\ pc[c] = "clear" => Silent

\* Once it has stopped the speech nobody else runs before it gives up the lock ...
InSection(c) == pc[c] \in Section => loop = c /\ Silent

\* ... or begins a reply, in a call that is not over.
Beginning(c) ==
  /\ pc[c] \in Begins => loop = c /\ lock = Nobody /\ Silent
  /\ GoesTo(c) \in Begins \cup {"system_turn_on", "unlock_say"} => state # "ENDED"
  /\ GoesTo(c) = "barged" => state \in Busy

\* Replies are numbered as they are opened; a fixed message has no generation.
Numbered(c) ==
  /\ local[c].reply <= replies
  /\ GoesTo(c) \in {"system_turn", "system_turn_on", "begin", "begun", "said"} =>
       local[c].reply \in Reply
  /\ pc[c] = "said" => llm_pc[local[c].reply] = "none"

\* Only the recogniser's task and, at the end of the call, the endpoint process
\* transcripts.
Turns(c) ==
  /\ local[c].ret \in {Idle, "started", "whole", "complete", "returned"}
  /\ pc[c] \in Turn \/ local[c].ret \in {"started", "whole", "complete"} => c \in {"stt", "ws"}

\* The endpoint does so holding the lock, and so never gets past the next one.
Ws ==
  /\ pc["ws"] \in {Idle, "media", "stop", "stop_stt", "join_stt", "done", "barge"} \cup InStop
                  \cup Turn
  /\ pc["ws"] \in Turn \cup {"barge"} => lock = "ws"
  /\ pc["ws"] \in InStop => local["ws"].after = "stop_stt"
  /\ GoesTo("ws") \in {"stop_stt", "join_stt", "done"} => state = "ENDED"

CallerOK(c) ==
  Holds(c) /\ Stopping(c) /\ InSection(c) /\ Beginning(c) /\ Numbered(c) /\ Turns(c)

\* stop keeps the lock until the recogniser is gone.
Ended == state = "ENDED" => lock = "ws" \/ (lock = Nobody /\ pc["stt"] = "done")

OneVoice == \A r \in Reply : TtsRuns(r) => r = tts_task

Latest == \A r \in Reply : Generates(r) => r = llm_task

Over == state = "ENDED" => \A r \in Reply : ~Audible(r) /\ ~Generates(r)

\* An answer has nothing to say before the call is SPEAKING.
Muted ==
  state \notin {"SPEAKING", "ENDED"} =>
    \A r \in Reply : Audible(r) /\ llm_pc[r] # "none" => Waiting(r)

Numbers == \A r \in Reply : llm_pc[r] # "none" => r <= replies

Sound == Framed /\ OneVoice /\ Latest /\ Over /\ Muted /\ Numbers

Inv == TypeOK /\ (\A c \in Callers : CallerOK(c)) /\ Ws /\ Ended /\ Sound

-----------------------------------------------------------------------------
(* Types *)

Locals == [text: Texts, reply: Reply \cup {None}, ret: Pc, after: Pc]

\* TypeOK without the consumers' part.
Placed ==
  /\ loop \in Callers \cup {Idle}
  /\ pc \in [Callers -> Pc]
  /\ local \in [Callers -> Locals]

Flags ==
  /\ is_user_speaking \in BOOLEAN /\ is_system_speaking \in BOOLEAN
  /\ history \in Seq({"user", "assistant"} \X Reply) /\ Len(history) <= 2 * HistoryTurns
  /\ replies \in 0..MaxReplies
  /\ state \in State
  /\ lock \in Callers \cup {Nobody}
  /\ outbound_muted \in BOOLEAN /\ silence_prompt_played \in BOOLEAN /\ hung_up \in BOOLEAN
  /\ watching \subseteq Reply
  /\ heard \in BOOLEAN
  /\ turns \in 0..MaxTurns /\ events \in 0..MaxEvents /\ faults \in 0..MaxFaults

LEMMA TypeParts == TypeOK <=> LlmTypeOK /\ TtsTypeOK /\ Placed /\ Flags
BY DEF TypeOK, ConversationTypeOK, Flags, Placed, Locals

LEMMA Names ==
  /\ {"ws", "stt", "silence"} \cup Spawned \subseteq Callers
  /\ Idle \notin Callers /\ Nobody \notin Callers
  /\ \A r \in Reply : LlmCaller[r] \in Callers /\ TtsCaller[r] \in Callers
BY CallAssumption DEF Idle, Nobody

\* What ConversationProofs shows of a task's steps, for the steps of a call.
LEMMA PlacedParts == Placed <=> PlacedIn(Pc)
BY DEF Placed, PlacedIn, Locals, LocalsOf

LEMMA LocalUpdates ==
  ASSUME local \in [Callers -> Locals], NEW c \in Callers
  PROVE  /\ \A x \in Pc : /\ [local EXCEPT ![c].ret = x] \in [Callers -> Locals]
                          /\ [local EXCEPT ![c].after = x] \in [Callers -> Locals]
         /\ \A x \in Texts : [local EXCEPT ![c].text = x] \in [Callers -> Locals]
         /\ \A x \in Reply \cup {None} :
              /\ [local EXCEPT ![c].reply = x] \in [Callers -> Locals]
              /\ [local EXCEPT ![c].reply = x, ![c].after = "said"] \in [Callers -> Locals]
         /\ [local EXCEPT ![c] = NoLocals] \in [Callers -> Locals]
<1>1. Idle \in Pc /\ "said" \in Pc /\ Locals = LocalsOf(Pc)
  BY DEF Pc, Locals, LocalsOf
<1> QED
  BY <1>1, LocalUpdated

LEMMA RememberTypes ==
  ASSUME Flags, NEW role \in {"user", "assistant"}, NEW r \in Reply, Remember(role, r)
  PROVE  history' \in Seq({"user", "assistant"} \X Reply) /\ Len(history') <= 2 * HistoryTurns
<1>1. HistoryOK
  BY DEF Flags, HistoryOK
<1>2. HistoryOK'
  BY <1>1, Remembered
<1> QED
  BY <1>2 DEF HistoryOK

LEMMA Moves ==
  ASSUME Placed, NEW c \in Callers, NEW to \in Pc, RunsOn(c, to) \/ Suspends(c, to)
  PROVE  pc' \in [Callers -> Pc] /\ loop' \in Callers \cup {Idle}
BY DEF Placed, RunsOn, Suspends

LEMMA Returned ==
  ASSUME Placed, NEW c \in Callers, Returns(c) \/ ReturnsTo(c)
  PROVE  Placed'
<1>1. Idle \in Pc /\ PlacedIn(Pc)
  BY PlacedParts DEF Pc
<1>2. PlacedIn(Pc)'
  BY <1>1, TaskReturns
<1> QED
  BY <1>2 DEF Placed, PlacedIn, Locals, LocalsOf

LEMMA Stopped ==
  ASSUME Placed, NEW c \in Callers, NEW next \in Pc, Stops(c, next)
  PROVE  Placed' /\ TtsOperation
<1>1. {Idle, "gather"} \subseteq Pc /\ PlacedIn(Pc)
  BY PlacedParts DEF Pc
<1>2. PlacedIn(Pc)' /\ TtsOperation
  BY <1>1, TaskStops
<1> QED
  BY <1>2 DEF Placed, PlacedIn, Locals, LocalsOf

LEMMA StopWent ==
  ASSUME Placed, NEW c \in Callers, StopJoins(c) \/ StopClears(c)
  PROVE  Placed' /\ TtsOperation
<1>1. {Idle, "clear"} \subseteq Pc /\ PlacedIn(Pc)
  BY PlacedParts DEF Pc
<1>2. PlacedIn(Pc)' /\ TtsOperation
  BY <1>1, TaskStopWent
<1> QED
  BY <1>2 DEF Placed, PlacedIn, Locals, LocalsOf

\* A step that runs operations of the consumers and keeps the rest in its types.
Typed == LlmOperation /\ TtsOperation /\ Placed' /\ Flags'

LEMMA TypedStep ==
  ASSUME TypeOK, Typed
  PROVE  TypeOK'
<1>1. LlmTypeOK' /\ TtsTypeOK'
  BY TypeParts, LlmTypes, TtsTypes DEF Typed
<1>2. Placed' /\ Flags'
  BY DEF Typed
<1> QED
  BY <1>1, <1>2 DEF TypeOK, ConversationTypeOK, Flags, Placed, Locals

LEMMA TurnTypes ==
  ASSUME TypeOK, NEW c \in Callers, Numbered(c), TurnStep(c)
  PROVE  Typed
<1>1. Placed /\ Flags
  BY TypeParts
<1>2. \A to \in {"interrupt", "started", "completed", "whole", "barge", "started_lock",
                 "complete", "system_turn", "begin", Idle, "started"} : to \in Pc
  BY DEF Pc, LockPoints
<1>3. "system_turn_on" \in Pc /\ "begun" \in Pc
  BY DEF Pc
<1> USE DEF Typed, LlmOperation, TtsOperation
<1>4. CASE ProcessPartial(c)
  <2>1. /\ RunsOn(c, IF is_system_speaking THEN "interrupt" ELSE "started")
        /\ local' = [local EXCEPT ![c].ret = "started"]
        /\ UNCHANGED <<stateVars, llmVars, ttsVars, history, replies, callVars, budget>>
    BY <1>4 DEF ProcessPartial, ReceivePartial
  <2>2. Placed'
    BY <1>1, <1>2, <2>1, Moves, LocalUpdates DEF Placed
  <2> QED
    BY <1>1, <2>1, <2>2 DEF Flags, stateVars, callVars, silenceVars, budget
<1>5. CASE ProcessFinal(c)
  <2>1. /\ UNCHANGED <<llmVars, ttsVars, history, replies, callVars, budget>>
        /\ UNCHANGED is_system_speaking
        /\ is_user_speaking' \in BOOLEAN
    BY <1>1, <1>5 DEF ProcessFinal, ReceiveFinal, Flags
  <2>2. Placed'
    <3>1. CASE RunsOn(c, "completed") /\ UNCHANGED local
      BY <1>1, <1>2, <3>1, Moves DEF Placed
    <3>2. CASE /\ RunsOn(c, IF is_system_speaking THEN "interrupt" ELSE "whole")
               /\ local' = [local EXCEPT ![c].ret = "whole"]
      BY <1>1, <1>2, <3>2, Moves, LocalUpdates DEF Placed
    <3>3. CASE Returns(c)
      BY <1>1, <3>3, Returned
    <3> QED
      BY <1>5, <3>1, <3>2, <3>3 DEF ProcessFinal, ReceiveFinal
  <2> QED
    BY <1>1, <2>1, <2>2 DEF Flags, callVars, silenceVars, budget
<1>6. CASE HandleInterruption(c)
  <2>1. Placed'
    BY <1>1, <1>2, <1>6, Moves DEF HandleInterruption, Placed
  <2> QED
    BY <1>1, <1>6, <2>1 DEF HandleInterruption, ClearTurns, Flags, callVars, silenceVars, budget
<1>7. CASE StartTurn(c)
  <2>1. Placed'
    <3>1. CASE RunsOn(c, "started_lock") /\ local' = [local EXCEPT ![c].ret = Idle]
      BY <1>1, <1>2, <3>1, Moves, LocalUpdates DEF Placed
    <3>2. CASE Returns(c)
      BY <1>1, <3>2, Returned
    <3> QED
      BY <1>7, <3>1, <3>2 DEF StartTurn
  <2> QED
    BY <1>1, <1>7, <2>1 DEF StartTurn, Flags, callVars, silenceVars, budget
<1>8. CASE WholeTurn(c)
  <2>1. Placed'
    BY <1>1, <1>2, <1>8, Moves, LocalUpdates DEF WholeTurn, Placed
  <2> QED
    BY <1>1, <1>8, <2>1 DEF WholeTurn, Flags, callVars, silenceVars, budget
<1>9. CASE CompleteTurn(c)
  <2>1. Placed'
    BY <1>1, <1>2, <1>9, Moves DEF CompleteTurn, Placed
  <2> QED
    BY <1>1, <1>9, <2>1 DEF CompleteTurn, Flags, callVars, silenceVars, budget
<1>10. CASE OnUserTurnStarted(c)
  <2>1. Placed'
    BY <1>1, <1>10, Returned DEF OnUserTurnStarted
  <2>2. state' \in State
    BY <1>1, <1>10 DEF OnUserTurnStarted, Flags, State
  <2> QED
    BY <1>1, <1>10, <2>1, <2>2 DEF OnUserTurnStarted, Flags, stateVars, silenceVars, budget
<1>11. CASE OnUserTurnCompleted(c)
  <2>1. CASE Returns(c) /\ UNCHANGED <<state, history, replies>>
    <3>1. Placed'
      BY <1>1, <2>1, Returned
    <3> QED
      BY <1>1, <1>11, <2>1, <3>1 DEF OnUserTurnCompleted, Flags, stateVars, silenceVars, budget
  <2>2. CASE /\ state = "LISTENING" /\ replies < MaxReplies
             /\ state' = "PROCESSING"
             /\ replies' = replies + 1
             /\ IF local[c].text = "Blank" THEN UNCHANGED history
                                           ELSE Remember("user", replies + 1)
             /\ local' = [local EXCEPT ![c].reply = replies + 1]
             /\ RunsOn(c, "system_turn")
    <3>1. replies + 1 \in Reply /\ replies' \in 0..MaxReplies /\ state' \in State
      BY <1>1, <2>2, RepliesAssumption DEF Flags, Reply, State, Busy
    <3>2. Placed'
      BY <1>1, <1>2, <2>2, <3>1, Moves, LocalUpdates DEF Placed
    <3>3. history' \in Seq({"user", "assistant"} \X Reply) /\ Len(history') <= 2 * HistoryTurns
      BY <1>1, <2>2, <3>1, RememberTypes DEF Flags
    <3> QED
      BY <1>1, <1>11, <3>1, <3>2, <3>3 DEF OnUserTurnCompleted, Flags, stateVars, silenceVars, budget
  <2> QED
    BY <1>11, <2>1, <2>2 DEF OnUserTurnCompleted
<1>12. CASE OnSystemTurnStart(c)
  <2>1. Placed' /\ TtsOperation
    <3>1. CASE RunsOn(c, "begin") /\ UNCHANGED <<ttsVars, local, lock>>
      BY <1>1, <1>2, <3>1, Moves DEF Placed
    <3>2. CASE Stops(c, "system_turn_on")
      BY <1>1, <1>3, <3>2, Stopped
    <3> QED
      BY <1>12, <3>1, <3>2 DEF OnSystemTurnStart
  <2> QED
    BY <1>1, <1>12, <2>1 DEF OnSystemTurnStart, Flags, stateVars, silenceVars, budget
<1>13. CASE SystemTurnOn(c)
  <2>1. Placed'
    BY <1>1, <1>2, <1>13, Moves DEF SystemTurnOn, Placed
  <2> QED
    BY <1>1, <1>13, <2>1 DEF SystemTurnOn, Flags, silenceVars, budget
<1>14. CASE BeginReply(c)
  <2>1. Placed' /\ TtsOperation
    BY <1>1, <1>3, <1>14, Stopped DEF BeginReply
  <2> QED
    BY <1>1, <1>14, <2>1 DEF BeginReply, Flags, stateVars, callVars, silenceVars, budget
<1>15. CASE ReplyBegun(c)
  <2>1. local[c].reply \in Reply /\ <<>> \in Seq(Reply \cup {None})
    BY <1>15 DEF ReplyBegun, Continues, Numbered, GoesTo, InStop
  <2>2. TtsOperation /\ LlmOperation
    BY <1>15, <2>1 DEF ReplyBegun
  <2>3. Placed'
    BY <1>1, <1>15, Returned DEF ReplyBegun
  <2>4. watching' \subseteq Reply
    BY <1>1, <1>15, <2>1 DEF ReplyBegun, Flags
  <2> QED
    BY <1>1, <1>15, <2>2, <2>3, <2>4 DEF ReplyBegun, Flags, stateVars, silenceVars, budget
<1> QED
  BY <1>4, <1>5, <1>6, <1>7, <1>8, <1>9, <1>10, <1>11, <1>12, <1>13, <1>14, <1>15 DEF TurnStep
LEMMA CallerTypes ==
  ASSUME TypeOK, NEW c \in Callers, Numbered(c), CallerStep(c)
  PROVE  Typed
<1>1. Placed /\ Flags
  BY TypeParts
<1>2. \A to \in {"fallback", "say", "said", "barged", "recovered", "unlock_say", "wedged",
                 Idle} : to \in Pc
  BY DEF Pc, LockPoints
<1>3. Nobody \in Callers \cup {Nobody} /\ "LISTENING" \in State
  BY DEF State
<1> USE DEF Typed, LlmOperation, TtsOperation
<1>4. CASE WaitsForLock(c)
  <2>1. Placed'
    BY <1>1, <1>4 DEF WaitsForLock, Placed, conversationVars
  <2> QED
    BY <1>1, <1>4, <2>1 DEF WaitsForLock, Flags, conversationVars, stateVars, callVars,
                            silenceVars, budget
<1>5. CASE Gathered(c) \/ ClearSent(c)
  <2>1. Placed' /\ TtsOperation
    BY <1>1, <1>5, StopWent DEF Gathered, ClearSent
  <2> QED
    BY <1>1, <1>5, <2>1 DEF Gathered, ClearSent, Flags, stateVars, callVars, silenceVars, budget
<1>6. CASE TurnStep(c)
  BY <1>6, TurnTypes
<1>7. CASE HandleBargeIn(c)
  <2>1. Placed' /\ TtsOperation /\ LlmOperation
    <3>1. CASE ReturnsTo(c) /\ UNCHANGED <<llmVars, ttsVars>>
      BY <1>1, <3>1, Returned
    <3>2. CASE Stops(c, "barged") /\ Cancel
      BY <1>1, <1>2, <3>2, Stopped
    <3> QED
      BY <1>7, <3>1, <3>2 DEF HandleBargeIn
  <2> QED
    BY <1>1, <1>7, <2>1 DEF HandleBargeIn, Flags, stateVars, silenceVars, budget
<1>8. CASE BargedIn(c)
  <2>1. Placed'
    BY <1>1, <1>8, Returned DEF BargedIn
  <2> QED
    BY <1>1, <1>3, <1>8, <2>1 DEF BargedIn, ClearTurns, Flags, silenceVars, budget
<1>9. CASE HandlePipelineError(c)
  <2>1. Placed' /\ TtsOperation /\ LlmOperation
    <3>1. CASE ReturnsTo(c) /\ UNCHANGED <<llmVars, ttsVars>>
      BY <1>1, <3>1, Returned
    <3>2. CASE Stops(c, "recovered") /\ Cancel
      BY <1>1, <1>2, <3>2, Stopped
    <3>3. CASE Suspends(c, "wedged") /\ UNCHANGED <<ttsVars, local>> /\ Cancel
      BY <1>1, <1>2, <3>3, Moves DEF Placed
    <3> QED
      BY <1>9, <3>1, <3>2, <3>3 DEF HandlePipelineError
  <2> QED
    BY <1>1, <1>9, <2>1 DEF HandlePipelineError, Flags, stateVars, silenceVars, budget
<1>10. CASE Recovered(c)
  <2>1. Placed'
    BY <1>1, <1>2, <1>10, Moves DEF Recovered, Placed
  <2>2. state' \in State
    BY <1>1, <1>3, <1>10 DEF Recovered, Flags
  <2> QED
    BY <1>1, <1>3, <1>10, <2>1, <2>2 DEF Recovered, ClearTurns, Flags, silenceVars, budget
<1>11. CASE PlayFallbackTts(c)
  <2>1. Placed' /\ TtsOperation
    <3>1. CASE ReturnsTo(c) /\ UNCHANGED ttsVars
      BY <1>1, <3>1, Returned
    <3>2. CASE Stops(c, "unlock_say")
      BY <1>1, <1>2, <3>2, Stopped
    <3> QED
      BY <1>11, <3>1, <3>2 DEF PlayFallbackTts
  <2> QED
    BY <1>1, <1>11, <2>1 DEF PlayFallbackTts, Flags, stateVars, silenceVars, budget
<1>12. CASE UnlockSay(c)
  <2>1. Placed'
    BY <1>1, <1>2, <1>12, Moves DEF UnlockSay, Placed, conversationVars
  <2> QED
    BY <1>1, <1>3, <1>12, <2>1 DEF UnlockSay, Flags, conversationVars, stateVars, silenceVars,
                                   budget
<1>13. CASE Say(c)
  <2>1. replies + 1 \in Reply /\ replies' \in 0..MaxReplies
    BY <1>1, <1>13, RepliesAssumption DEF Say, Flags, Reply
  <2>2. Placed' /\ TtsOperation
    <3>1. CASE StopWaits(c) /\ local' = [local EXCEPT ![c].reply = replies + 1, ![c].after = "said"]
      <4>1. "gather" \in Pc
        BY DEF Pc
      <4>2. pc' \in [Callers -> Pc] /\ loop' \in Callers \cup {Idle}
        BY <1>1, <3>1, <4>1, Moves DEF StopWaits
      <4>3. local' \in [Callers -> Locals]
        BY <1>1, <2>1, <3>1, LocalUpdates DEF Placed
      <4> QED
        BY <3>1, <4>2, <4>3 DEF StopWaits, Placed
    <3>2. CASE /\ StopNeedless /\ RunsOn(c, "said")
               /\ local' = [local EXCEPT ![c].reply = replies + 1]
      BY <1>1, <1>2, <2>1, <3>2, Moves, LocalUpdates DEF StopNeedless, Placed
    <3> QED
      BY <1>13, <3>1, <3>2 DEF Say
  <2> QED
    BY <1>1, <1>13, <2>1, <2>2 DEF Say, Flags, stateVars, callVars, silenceVars, budget
<1>14. CASE Said(c)
  <2>1. local[c].reply \in Reply
    BY <1>14 DEF Said, Continues, Numbered, GoesTo, InStop
  <2>2. <<local[c].reply, None>> \in Seq(Reply \cup {None})
    BY <2>1
  <2>3. TtsOperation
    BY <1>14, <2>1, <2>2 DEF Said
  <2>4. Placed'
    BY <1>1, <1>14, Returned DEF Said
  <2> QED
    BY <1>1, <1>14, <2>3, <2>4 DEF Said, Flags, stateVars, callVars, silenceVars, budget
<1> QED
  BY <1>4, <1>5, <1>6, <1>7, <1>8, <1>9, <1>10, <1>11, <1>12, <1>13, <1>14 DEF CallerStep
LEMMA WsTypes ==
  ASSUME TypeOK, WsStep
  PROVE  TypeOK'
<1>1. Placed /\ Flags
  BY TypeParts
<1>2. "ws" \in Callers /\ "stt" \in Callers /\ "silence" \in Callers
  BY Names
<1>3. \A to \in {Idle, "barge", "stop_stt", "join_stt", "final", "done"} : to \in Pc
  BY DEF Pc, LockPoints
<1>4. CASE FeedMulaw
  <2>1. pc' \in [Callers -> Pc]
    BY <1>1, <1>2, <1>3, <1>4, Names DEF FeedMulaw, Placed
  <2>2. Placed'
    BY <1>1, <1>4, <2>1 DEF FeedMulaw, Placed, conversationVars
  <2>3. Flags'
    BY <1>1, <1>4 DEF FeedMulaw, Flags, State, conversationVars, stateVars, budget
  <2> QED
    BY <1>4, <2>2, <2>3, TypedStep DEF Typed, LlmOperation, TtsOperation, FeedMulaw
<1>5. CASE Stop
  <2>1. Placed' /\ TtsOperation
    BY <1>1, <1>2, <1>3, <1>5, Stopped DEF Stop
  <2>2. Flags'
    BY <1>1, <1>2, <1>5 DEF Stop, Flags, State, stateVars, silenceVars, budget
  <2> QED
    BY <1>5, <2>1, <2>2, TypedStep DEF Typed, LlmOperation, Stop
<1>6. CASE StopStt
  <2>1. Placed'
    <3>1. CASE Suspends("ws", "join_stt") /\ UNCHANGED local
      BY <1>1, <1>2, <1>3, <3>1, Moves DEF Placed
    <3>2. ASSUME NEW t \in CallTexts, local' = [local EXCEPT !["ws"].text = t],
                 RunsOn("ws", "final")
          PROVE  Placed'
      <4>1. t \in Texts
        BY DEF CallTexts, Texts
      <4> QED
        BY <1>1, <1>2, <1>3, <3>2, <4>1, Moves, LocalUpdates DEF Placed
    <3> QED
      BY <1>6, <3>1, <3>2 DEF StopStt
  <2>2. Flags'
    BY <1>1, <1>6 DEF StopStt, Flags, stateVars, callVars, silenceVars, budget
  <2> QED
    BY <1>6, <2>1, <2>2, TypedStep DEF Typed, LlmOperation, TtsOperation, StopStt
<1>7. CASE SttJoined
  <2>1. NoLocals \in Locals
    BY DEF NoLocals, Locals, Texts, Pc
  <2>2. Placed'
    BY <1>1, <1>3, <1>7, <2>1 DEF SttJoined, Placed
  <2>3. Flags'
    BY <1>1, <1>7 DEF SttJoined, Flags, stateVars, silenceVars, budget
  <2>4. NoStop \in [target: Reply \cup {None}, had_audio: BOOLEAN]
    BY DEF NoStop
  <2>5. TtsTypeOK'
    BY <1>7, <2>4, TypeParts DEF SttJoined, Join, TtsTypeOK, ttsTaskVars
  <2>6. LlmTypeOK'
    BY <1>7, TypeParts, LlmTypes DEF SttJoined, LlmOperation
  <2> QED
    BY <2>2, <2>3, <2>5, <2>6 DEF TypeOK, ConversationTypeOK, Flags, Placed, Locals
<1> QED
  BY <1>4, <1>5, <1>6, <1>7 DEF WsStep

\* One more event or failure is within the bound.
LEMMA BudgetTypes ==
  ASSUME Flags
  PROVE  /\ Happens => events' \in 0..MaxEvents
         /\ Fault => faults' \in 0..MaxFaults /\ events' \in 0..MaxEvents
BY CallAssumption DEF Flags, Happens, Fault

LEMMA EnvironmentTypes ==
  ASSUME TypeOK, Environment
  PROVE  Typed
<1>1. Placed /\ Flags
  BY TypeParts
<1>2. "ws" \in Callers /\ "stt" \in Callers /\ "silence" \in Callers /\ Spawned \subseteq Callers
  BY Names
<1>3. \A to \in {"partial", "final", "recover", "done", "unlock_say", "media", "stop"} : to \in Pc
  BY DEF Pc, LockPoints
<1> USE DEF Typed, LlmOperation, TtsOperation
<1>4. CASE Start
  BY <1>1, <1>4 DEF Start, Placed, Flags, State, conversationVars, stateVars, silenceVars, budget
<1>5. CASE MediaArrives \/ HangUp
  <2>1. Placed'
    BY <1>1, <1>2, <1>3, <1>5, Moves DEF MediaArrives, HangUp, Placed, conversationVars
  <2> QED
    BY <1>1, <1>5, <2>1, BudgetTypes
       DEF MediaArrives, HangUp, Flags, conversationVars, stateVars, callVars, silenceVars, budget
<1>6. ASSUME NEW kind \in {"partial", "final"}, NEW t \in CallTexts, TranscriptArrives(kind, t)
      PROVE  Typed
  <2>1. t \in Texts
    BY DEF CallTexts, Texts
  <2>2. Placed'
    BY <1>1, <1>2, <1>3, <1>6, <2>1, Moves, LocalUpdates DEF TranscriptArrives, Placed
  <2>3. turns' \in 0..MaxTurns
    BY <1>1, <1>6, CallAssumption DEF TranscriptArrives, Flags
  <2> QED
    BY <1>1, <1>6, <2>2, <2>3 DEF TranscriptArrives, Flags, stateVars, callVars, silenceVars
<1>7. ASSUME NEW t \in Spawned, OnSttError(t) PROVE Typed
  <2>1. Placed'
    BY <1>1, <1>2, <1>3, <1>7, Moves DEF OnSttError, Placed, conversationVars
  <2> QED
    BY <1>1, <1>7, <2>1, BudgetTypes
       DEF OnSttError, Flags, conversationVars, stateVars, callVars, silenceVars
<1>8. ASSUME NEW t \in Spawned, NEW r \in Reply, Watchdog(t, r) PROVE Typed
  <2>1. Placed'
    BY <1>1, <1>2, <1>3, <1>8, Moves DEF Watchdog, Placed, conversationVars
  <2> QED
    BY <1>1, <1>8, <2>1, BudgetTypes
       DEF Watchdog, Flags, conversationVars, stateVars, silenceVars
<1>9. CASE SilencePrompt
  <2>1. Placed' /\ TtsOperation
    BY <1>1, <1>2, <1>3, <1>9, Stopped DEF SilencePrompt
  <2> QED
    BY <1>1, <1>2, <1>9, <2>1, BudgetTypes DEF SilencePrompt, Flags, stateVars
<1>10. CASE SilenceHangup
  <2>1. Placed'
    BY <1>1, <1>2, <1>3, <1>10, Moves DEF SilenceHangup, Placed, conversationVars
  <2> QED
    BY <1>1, <1>10, <2>1 DEF SilenceHangup, Flags, conversationVars, stateVars, budget
<1>11. ASSUME NEW r \in Reply, LlmFault(r) \/ TtsFault(r) PROVE Typed
  <2>1. Placed'
    BY <1>1, <1>11 DEF LlmFault, TtsFault, Placed, conversationVars
  <2>2. LlmOperation /\ TtsOperation
    BY <1>11 DEF LlmFault, TtsFault, LlmTaskStep, TtsTaskStep
  <2> QED
    BY <1>1, <1>11, <2>1, <2>2, BudgetTypes
       DEF LlmFault, TtsFault, Flags, conversationVars, stateVars, callVars, silenceVars
<1>12. ASSUME NEW r \in Reply, SendFails(r) PROVE Typed
  <2>1. Placed'
    BY <1>1, <1>3, <1>12, Names, Moves DEF SendFails, Placed, conversationVars
  <2> QED
    BY <1>1, <1>12, <2>1, BudgetTypes
       DEF SendFails, Flags, conversationVars, stateVars, callVars, silenceVars
<1> QED
  <2>1. "Blank" \in CallTexts
    BY DEF CallTexts
  <2> QED
    BY <1>4, <1>5, <1>6, <1>7, <1>8, <1>9, <1>10, <1>11, <1>12, <2>1 DEF Environment
LEMMA LlmTaskTypes ==
  ASSUME TypeOK, NEW r \in Reply, LlmTask(r)
  PROVE  Typed
<1>1. Placed /\ Flags
  BY TypeParts
<1>2. LlmCaller[r] \in Callers /\ "recover" \in Pc /\ "returned" \in Pc
  BY Names DEF Pc, LockPoints
<1> USE DEF Typed, LlmOperation, TtsOperation, LlmTaskStep
<1>3. CASE LlmStep(r)
  <2>1. Placed'
    BY <1>1, <1>3 DEF LlmStep, Placed, conversationVars
  <2>2. LlmOperation /\ watching' \subseteq Reply
    BY <1>1, <1>3 DEF LlmStep, Flags
  <2> QED
    BY <1>1, <1>3, <2>1, <2>2 DEF LlmStep, Flags, conversationVars, stateVars, silenceVars, budget
<1>4. CASE OnLlmSegment(r)
  <2>1. Placed'
    BY <1>1, <1>4 DEF OnLlmSegment, Placed, conversationVars
  <2>2. LlmOperation /\ TtsOperation
    BY <1>4 DEF OnLlmSegment
  <2>3. state' \in State
    BY <1>1, <1>4 DEF OnLlmSegment, Flags, State, Busy
  <2> QED
    BY <1>1, <1>4, <2>1, <2>2, <2>3
       DEF OnLlmSegment, Flags, conversationVars, stateVars, silenceVars, budget
<1>5. CASE LlmNoSegment(r)
  BY <1>1, <1>5 DEF LlmNoSegment, Placed, Flags, conversationVars, stateVars, callVars,
                    silenceVars, budget
<1>6. CASE OnComplete(r)
  <2>1. history' \in Seq({"user", "assistant"} \X Reply) /\ Len(history') <= 2 * HistoryTurns
    BY <1>1, <1>6, RememberTypes DEF OnComplete, Flags
  <2>2. Placed' /\ LlmOperation /\ TtsOperation
    <3>1. CASE LlmCompletes(r) /\ Finish /\ UNCHANGED <<loop, pc, local>>
      BY <1>1, <3>1 DEF Placed
    <3>2. CASE LlmCompletes(r) /\ UNCHANGED <<ttsVars, loop, pc, local>>
      BY <1>1, <3>2 DEF Placed
    <3>3. CASE /\ LlmCompleting(r)
               /\ RunsOn(LlmCaller[r], "recover")
               /\ local' = [local EXCEPT ![LlmCaller[r]].ret = "returned"]
               /\ UNCHANGED ttsVars
      BY <1>1, <1>2, <3>3, Moves, LocalUpdates DEF Placed
    <3> QED
      BY <1>6, <3>1, <3>2, <3>3 DEF OnComplete
  <2>3. watching' \subseteq Reply
    BY <1>1, <1>6 DEF OnComplete, Flags
  <2> QED
    BY <1>1, <1>6, <2>1, <2>2, <2>3 DEF OnComplete, Flags, stateVars, silenceVars, budget
<1>7. CASE LlmRecovered(r)
  <2>1. Placed'
    BY <1>1, <1>2, <1>7, Returned DEF LlmRecovered
  <2> QED
    BY <1>1, <1>7, <2>1 DEF LlmRecovered, Flags, stateVars, callVars, silenceVars, budget
<1>8. CASE LlmAborted(r)
  <2>1. Placed'
    BY <1>1, <1>2, <1>8, Returned DEF LlmAborted, Aborts
  <2>2. lock' \in Callers \cup {Nobody}
    BY <1>1, <1>8 DEF LlmAborted, Aborts, Flags
  <2>3. LlmOperation /\ TtsOperation
    BY <1>2, <1>8 DEF LlmAborted
  <2> QED
    BY <1>1, <1>8, <2>1, <2>2, <2>3 DEF LlmAborted, Flags, stateVars, silenceVars, budget
<1> QED
  BY <1>3, <1>4, <1>5, <1>6, <1>7, <1>8 DEF LlmTask

LEMMA TtsTaskStepTypes ==
  ASSUME TypeOK, NEW r \in Reply, TtsTask(r)
  PROVE  TypeOK'
<1>1. Placed /\ Flags
  BY TypeParts
<1>2. TtsCaller[r] \in Callers
  BY Names
<1>3. CASE TtsStep(r) \/ SendAudioFrame(r) \/ OnTtsPlaybackEnd(r)
  <2>1. TtsTaskStep(r)
    <3>1. CASE TtsStep(r) \/ SendAudioFrame(r)
      BY <3>1 DEF TtsStep, SendAudioFrame, TtsTaskStep
    <3>2. CASE OnTtsPlaybackEnd(r)
      <4>1. (~tts_interrupted[r]) \in BOOLEAN /\ TtsPlaybackEnds(r, ~tts_interrupted[r])
        BY <3>2 DEF OnTtsPlaybackEnd
      <4> QED
        BY <4>1 DEF TtsTaskStep
    <3> QED
      BY <1>3, <3>1, <3>2
  <2>2. UNCHANGED <<llmVars, loop, pc, conversationVars, callVars, budget>>
    BY <1>3 DEF TtsStep, SendAudioFrame, OnTtsPlaybackEnd
  <2>3. Placed' /\ Flags'
    BY <1>1, <2>2 DEF Placed, Flags, conversationVars, stateVars, callVars, silenceVars, budget
  <2> QED
    BY <2>1, <2>2, <2>3, TypedStep DEF Typed, LlmOperation, TtsOperation
<1>4. CASE BackToListening(r)
  <2>1. TtsTaskStep(r)
    BY <1>4 DEF BackToListening, TtsTaskStep
  <2>2. Placed'
    BY <1>1, <1>4 DEF BackToListening, Placed
  <2>3. state' \in State /\ is_system_speaking' \in BOOLEAN
    BY <1>1, <1>4 DEF BackToListening, Flags, State
  <2>4. Flags'
    BY <1>1, <1>4, <2>3 DEF BackToListening, Flags, silenceVars, budget
  <2>5. LlmOperation
    BY <1>4 DEF BackToListening, LlmOperation
  <2> QED
    BY <2>1, <2>2, <2>4, <2>5, TypedStep DEF Typed, TtsOperation
<1>5. CASE TtsAborted(r)
  <2>1. Placed'
    BY <1>1, <1>2, <1>5, Returned DEF TtsAborted, Aborts
  <2>2. lock' \in Callers \cup {Nobody}
    BY <1>1, <1>5 DEF TtsAborted, Aborts, Flags
  <2>3. Flags'
    BY <1>1, <1>5, <2>2 DEF TtsAborted, Flags, stateVars, silenceVars, budget
  <2>4. LlmTypeOK'
    BY <1>5, TypeParts, LlmTypes DEF TtsAborted, LlmOperation
  <2>5. NoStop \in [target: Reply \cup {None}, had_audio: BOOLEAN]
    BY DEF NoStop
  <2>6. TtsTypeOK'
    BY <1>2, <1>5, <2>5, TypeParts DEF TtsAborted, TtsTypeOK, TtsPc
  <2> QED
    BY <2>1, <2>3, <2>4, <2>6 DEF TypeOK, ConversationTypeOK, Flags, Placed, Locals
<1> QED
  BY <1>3, <1>4, <1>5 DEF TtsTask
-----------------------------------------------------------------------------
(* What one task's step leaves to the others *)

\* A step of the tasks in C: it changes what the lock protects only if one of them
\* has the lock or nobody has.
Frame(C) ==
  /\ loop \in C \cup {Idle}
  /\ \A d \in Callers \ C : pc'[d] = pc[d] /\ local'[d] = local[d] /\ stopping'[d] = stopping[d]
  /\ lock' = lock \/ lock \in C \cup {Nobody}
  /\ \/ lock \in C \cup {Nobody}
     \/ /\ state \in Busy => state' \in Busy
        /\ state # "ENDED" => state' # "ENDED"
        /\ tts_task' = tts_task /\ \A r \in Reply : TtsRuns(r)' => TtsRuns(r)
  /\ state = "ENDED" => state' = "ENDED"
  /\ replies' >= replies

LEMMA Others ==
  ASSUME TypeOK, TypeOK', NEW C \in SUBSET Callers, Frame(C), NEW d \in Callers \ C, CallerOK(d)
  PROVE  CallerOK(d)'
<1>1. /\ d \in Callers /\ d \notin C /\ d # Idle /\ d # Nobody /\ loop # d
      /\ pc'[d] = pc[d] /\ local'[d] = local[d] /\ stopping'[d] = stopping[d]
      /\ GoesTo(d)' = GoesTo(d)
  BY Names DEF Frame, GoesTo
<1>2. lock = d => lock' = lock /\ lock \notin C \cup {Nobody}
  BY <1>1 DEF Frame
<1>3. pc[d] \notin Section /\ pc[d] \notin Begins
  BY <1>1 DEF CallerOK, InSection, Beginning
<1>4. pc[d] \in InStop \cup {"join_stt", "wedged"} => lock = d
  BY DEF CallerOK, Holds
<1>5. Holds(d)'
  BY <1>1, <1>2, <1>3, <1>4 DEF Holds
<1>6. lock = d => /\ tts_task' = tts_task
                  /\ \A r \in Reply : TtsRuns(r)' => TtsRuns(r)
                  /\ state \in Busy => state' \in Busy
                  /\ state # "ENDED" => state' # "ENDED"
  BY <1>2 DEF Frame
<1>7. Stopping(d)'
  <2>1. pc[d] = "clear" => Silent'
    BY <1>4, <1>6 DEF CallerOK, Stopping, Silent, InStop
  <2>2. pc[d] = "gather" => tts_task' = tts_task
    BY <1>4, <1>6 DEF InStop
  <2> QED
    BY <1>1, <2>1, <2>2 DEF CallerOK, Stopping, InStop
<1>8. InSection(d)'
  BY <1>1, <1>3 DEF InSection
<1>9. Beginning(d)'
  <2>1. pc[d] \notin InStop => GoesTo(d) \notin Section \cup Begins
    BY <1>3 DEF GoesTo
  <2>2. /\ "system_turn_on" \in Section /\ "unlock_say" \in Section /\ "barged" \in Section
    BY DEF Section
  <2>3. pc[d] \in InStop => lock = d
    BY <1>4
  <2> QED
    BY <1>1, <1>3, <1>6, <2>1, <2>2, <2>3 DEF CallerOK, Beginning
<1>10. Numbered(d)'
  <2>1. local[d].reply \in Nat /\ replies \in Nat /\ replies' \in Nat
    BY <1>1 DEF TypeOK, ConversationTypeOK, Reply, None
  <2>2. local'[d].reply <= replies'
    BY <1>1, <2>1 DEF CallerOK, Numbered, Frame
  <2>3. pc[d] # "said"
    BY <1>3 DEF Begins
  <2> QED
    BY <1>1, <2>2, <2>3 DEF CallerOK, Numbered
<1>11. Turns(d)'
  BY <1>1 DEF CallerOK, Turns
<1> QED
  BY <1>5, <1>7, <1>8, <1>9, <1>10, <1>11 DEF CallerOK

LEMMA OthersWs ==
  ASSUME TypeOK, NEW C \in SUBSET Callers, Frame(C), "ws" \notin C, Ws
  PROVE  Ws'
<1>1. "ws" \in Callers \ C /\ "ws" # Nobody
  BY Names DEF Nobody
<1>2. pc'["ws"] = pc["ws"] /\ local'["ws"] = local["ws"] /\ GoesTo("ws")' = GoesTo("ws")
  BY <1>1 DEF Frame, GoesTo
<1>3. lock = "ws" => lock' = "ws"
  BY <1>1 DEF Frame
<1>4. state = "ENDED" => state' = "ENDED"
  BY DEF Frame
<1> QED
  BY <1>2, <1>3, <1>4 DEF Ws

\* A step that begins no reply and does not end the call.
Calm(C) ==
  /\ loop \in C \cup {Idle}
  /\ \A d \in Callers \ C : pc'[d] = pc[d] /\ local'[d] = local[d] /\ stopping'[d] = stopping[d]
  /\ "stt" \in C => pc["stt"] # "done"
  /\ lock' = lock \/ (lock \in C \cup {Nobody} /\ state # "ENDED")
  /\ \/ state' = state
     \/ /\ lock \in C \cup {Nobody} \/ state = "CONNECTING"
        /\ state # "ENDED" /\ state' # "ENDED"
  /\ replies' >= replies
  /\ TtsCalm /\ LlmCalm
  /\ state' = "SPEAKING" \/ Silent' \/ (state # "SPEAKING" /\ StaysWaiting)

LEMMA CalmFrame ==
  ASSUME NEW C, Calm(C)
  PROVE  Frame(C)
BY DEF Calm, Frame, TtsCalm, Busy

LEMMA CalmSound ==
  ASSUME TypeOK, TypeOK', NEW C, Calm(C), Sound
  PROVE  Sound'
<1>1. TtsCalm /\ LlmCalm
  BY DEF Calm
<1>2. Framed' /\ OneVoice' /\ Latest'
  BY <1>1 DEF TtsCalm, LlmCalm, Sound, OneVoice, Latest
<1>3. Over'
  <2>1. state' = "ENDED" => state = "ENDED"
    BY DEF Calm
  <2> QED
    BY <1>1, <2>1 DEF TtsCalm, LlmCalm, Sound, Over
<1>4. Numbers'
  <2>1. replies \in Nat /\ replies' \in Nat /\ replies' >= replies /\ Reply \subseteq Nat
    BY DEF TypeOK, ConversationTypeOK, Calm, Reply
  <2>2. \A r \in Reply : llm_pc'[r] # "none" => r <= replies
    BY <1>1 DEF LlmCalm, Sound, Numbers
  <2>3. \A r \in Reply : r <= replies => r <= replies'
    BY <2>1
  <2> QED
    BY <2>2, <2>3 DEF Numbers
<1>5. Muted'
  <2>1. SUFFICES ASSUME state' \notin {"SPEAKING", "ENDED"}, NEW r \in Reply, Audible(r)',
                        llm_pc'[r] # "none"
                 PROVE  Waiting(r)'
    BY DEF Muted
  <2>2. Audible(r) /\ llm_pc[r] # "none" /\ TtsRuns(r)'
    BY <1>1, <2>1 DEF TtsCalm, LlmCalm, Audible, Speaking, TtsRuns
  <2>3. state \notin {"SPEAKING", "ENDED"} /\ StaysWaiting
    BY <2>1, <2>2 DEF Calm, Silent
  <2> QED
    BY <2>1, <2>2, <2>3 DEF Sound, Muted, StaysWaiting
<1> QED
  BY <1>2, <1>3, <1>4, <1>5 DEF Sound

LEMMA CalmEnded ==
  ASSUME NEW C \in SUBSET Callers, Calm(C), Ended
  PROVE  Ended'
<1>1. SUFFICES ASSUME state' = "ENDED" PROVE lock' = "ws" \/ (lock' = Nobody /\ pc'["stt"] = "done")
  BY DEF Ended
<1>2. state = "ENDED" /\ lock' = lock
  BY <1>1 DEF Calm
<1>3. pc["stt"] = "done" => pc'["stt"] = "done"
  BY Names DEF Calm
<1> QED
  BY <1>2, <1>3 DEF Ended

\* What is left to show of a calm step: where it leaves the tasks it moves.
LEMMA CalmKeeps ==
  ASSUME Inv, TypeOK', NEW C \in SUBSET Callers, Calm(C),
         \A c \in C : CallerOK(c)', "ws" \in C => Ws'
  PROVE  Inv'
<1>1. Frame(C)
  BY CalmFrame
<1>2. \A d \in Callers : CallerOK(d)'
  BY <1>1, Others DEF Inv
<1>3. Ws'
  BY <1>1, OthersWs DEF Inv
<1> QED
  BY <1>2, <1>3, CalmSound, CalmEnded DEF Inv
-----------------------------------------------------------------------------
(* Where a step leaves the task that takes it *)

LEMMA MovesOne ==
  ASSUME Placed, NEW c \in Callers, NEW to, RunsOn(c, to) \/ Suspends(c, to)
  PROVE  pc'[c] = to /\ \A d \in Callers \ {c} : pc'[d] = pc[d]
BY DEF Placed, RunsOn, Suspends

\* Outside the lock's sections and on no way to a reply.
Plain == Pc \ (Section \cup InStop \cup Begins \cup {"join_stt", "wedged", "system_turn"})

LEMMA PlainArrives ==
  ASSUME NEW c \in Callers, pc'[c] \in Plain, local'[c].reply <= replies', Turns(c)'
  PROVE  CallerOK(c)'
<1>1. GoesTo(c)' = pc'[c]
  BY DEF GoesTo, Plain
<1>2. Holds(c)' /\ InSection(c)'
  BY DEF Holds, InSection, Plain
<1>3. Stopping(c)'
  BY DEF Stopping, Plain, InStop
<1>4. Beginning(c)'
  BY <1>1 DEF Beginning, Plain, Section
<1>5. Numbered(c)'
  BY <1>1 DEF Numbered, Plain, Section, Begins
<1> QED
  BY <1>2, <1>3, <1>4, <1>5 DEF CallerOK

\* The numbers of replies are numbers.
LEMMA Counts ==
  ASSUME TypeOK
  PROVE  replies \in Nat /\ \A c \in Callers : local[c].reply \in Nat
BY DEF TypeOK, ConversationTypeOK, Reply, None

LEMMA ReturnArrives ==
  ASSUME Inv, TypeOK', NEW c \in Callers, Returns(c) \/ ReturnsTo(c), replies' >= replies
  PROVE  /\ CallerOK(c)'
         /\ \A d \in Callers \ {c} : pc'[d] = pc[d] /\ local'[d] = local[d]
         /\ pc'[c] \in {Idle, "started", "whole", "complete", "returned"}
<1>1. Placed /\ Turns(c) /\ Numbered(c)
  BY TypeParts DEF Inv, CallerOK
<1>2. replies \in Nat /\ replies' \in Nat /\ local[c].reply \in Nat
  BY Counts DEF Inv, TypeOK, ConversationTypeOK
<1>3. CASE Returns(c)
  <2>1. pc'[c] = Idle /\ \A d \in Callers \ {c} : pc'[d] = pc[d]
    BY <1>1, <1>3, MovesOne DEF Returns
  <2>2. local'[c] = NoLocals /\ \A d \in Callers \ {c} : local'[d] = local[d]
    BY <1>1, <1>3 DEF Returns, Placed
  <2>3. local'[c].reply <= replies' /\ local'[c].ret = Idle
    BY <1>2, <2>2 DEF NoLocals, None
  <2>4. Turns(c)'
    BY <2>1, <2>3 DEF Turns, Turn, Idle
  <2>5. pc'[c] \in Plain
    BY <2>1 DEF Plain, Pc, Section, InStop, Begins, Idle
  <2> QED
    BY <2>1, <2>2, <2>3, <2>4, <2>5, PlainArrives
<1>4. CASE ~Returns(c)
  <2>1. RunsOn(c, local[c].ret) /\ local' = [local EXCEPT ![c].ret = Idle]
    BY <1>4 DEF ReturnsTo
  <2>2. pc'[c] = local[c].ret /\ \A d \in Callers \ {c} : pc'[d] = pc[d]
    BY <1>1, <2>1, MovesOne
  <2>3. /\ local'[c].ret = Idle /\ local'[c].reply = local[c].reply
        /\ \A d \in Callers \ {c} : local'[d] = local[d]
    BY <1>1, <2>1 DEF Placed, Locals
  <2>4. local'[c].reply <= replies'
    BY <1>1, <1>2, <2>3 DEF Numbered
  <2>5. pc'[c] \in {Idle, "started", "whole", "complete", "returned"}
    BY <1>1, <2>2 DEF Turns
  <2>6. Turns(c)'
    BY <1>1, <2>2, <2>3, <2>5 DEF Turns, Turn, Idle
  <2>7. pc'[c] \in Plain
    BY <2>5 DEF Plain, Pc, Section, InStop, Begins, Idle
  <2> QED
    BY <2>2, <2>3, <2>4, <2>5, <2>6, <2>7, PlainArrives
<1> QED
  BY <1>3, <1>4

\* Nothing runs when no reply is active: only the reply last begun does.
LEMMA Inactive ==
  ASSUME Inv, ~IsActive
  PROVE  Silent
BY DEF Inv, TypeOK, ConversationTypeOK, TtsTypeOK, Sound, OneVoice, IsActive, Silent, Reply, None

\* What the step after a stop relies on.
Lawful(c, next) ==
  /\ next \in Section
  /\ next \in {"system_turn_on", "unlock_say"} => state' # "ENDED"
  /\ next = "barged" => state' \in Busy
  /\ next = "system_turn_on" => local[c].reply \in Reply

\* A task in a section of its own.
LEMMA SectionArrives ==
  ASSUME NEW c \in Callers, NEW next, Lawful(c, next), pc'[c] = next,
         local'[c].reply = local[c].reply, local'[c].reply <= replies', Turns(c)',
         lock' = c, loop' = c, Silent'
  PROVE  CallerOK(c)'
<1>1. GoesTo(c)' = next /\ next \in Section
  BY DEF GoesTo, Lawful, Section, InStop
<1>2. Holds(c)' /\ InSection(c)'
  BY DEF Holds, InSection
<1>3. Stopping(c)'
  BY <1>1 DEF Stopping, InStop, Section
<1>4. Beginning(c)'
  BY <1>1 DEF Beginning, Lawful, Section, Begins
<1>5. Numbered(c)'
  BY <1>1 DEF Numbered, Lawful, Section
<1> QED
  BY <1>2, <1>3, <1>4, <1>5 DEF CallerOK

LEMMA StopArrives ==
  ASSUME Inv, TypeOK', NEW c \in Callers, NEW next, Lawful(c, next), Stops(c, next), lock' = c,
         replies' >= replies
  PROVE  /\ CallerOK(c)'
         /\ \A d \in Callers \ {c} :
              pc'[d] = pc[d] /\ local'[d] = local[d] /\ stopping'[d] = stopping[d]
         /\ TtsCalm /\ StaysWaiting
         /\ pc'[c] \in {"gather", next} /\ (pc'[c] = "gather" => local'[c].after = next)
<1>1. Placed /\ Turns(c) /\ Numbered(c) /\ TtsTypeOK /\ Framed
  BY TypeParts DEF Inv, CallerOK, Sound
<1>2. replies \in Nat /\ replies' \in Nat /\ local[c].reply \in Nat
  BY Counts DEF Inv, TypeOK, ConversationTypeOK
<1>3. TtsCalm /\ StaysWaiting
  BY <1>1, TtsCalms DEF Stops, StopWaits, StopNeedless
<1>4. CASE StopWaits(c) /\ local' = [local EXCEPT ![c].after = next]
  <2>1. pc'[c] = "gather" /\ \A d \in Callers \ {c} : pc'[d] = pc[d]
    BY <1>1, <1>4, MovesOne DEF StopWaits
  <2>2. /\ local'[c].ret = local[c].ret /\ local'[c].reply = local[c].reply
        /\ local'[c].after = next
        /\ \A d \in Callers \ {c} : local'[d] = local[d]
    BY <1>1, <1>4 DEF Placed, Locals
  <2>3. /\ tts_task \in Reply /\ tts_task' = tts_task /\ stopping'[c].target = tts_task
        /\ \A d \in Callers \ {c} : stopping'[d] = stopping[d]
    BY <1>1, <1>4 DEF StopWaits, StopCancels, IsActive, TtsTypeOK
  <2>4. GoesTo(c)' = next
    BY <2>1, <2>2 DEF GoesTo, InStop
  <2>5. Holds(c)' /\ InSection(c)' /\ Stopping(c)'
    BY <2>1, <2>2, <2>3 DEF Holds, InSection, Stopping, Section, Lawful
  <2>6. Beginning(c)'
    BY <2>1, <2>4 DEF Beginning, Begins, Lawful, Section
  <2>7. Numbered(c)'
    <3>1. local'[c].reply <= replies'
      BY <1>1, <1>2, <2>2 DEF Numbered
    <3> QED
      BY <2>1, <2>2, <2>4, <3>1 DEF Numbered, Lawful, Section
  <2>8. Turns(c)'
    BY <1>1, <2>1, <2>2 DEF Turns, Turn
  <2> QED
    BY <1>3, <2>1, <2>2, <2>3, <2>5, <2>6, <2>7, <2>8 DEF CallerOK
<1>5. CASE StopNeedless /\ RunsOn(c, next) /\ UNCHANGED local
  <2>1. pc'[c] = next /\ (\A d \in Callers \ {c} : pc'[d] = pc[d]) /\ loop' = c
    BY <1>1, <1>5, MovesOne DEF RunsOn
  <2>2. Silent' /\ stopping' = stopping
    BY <1>5, Inactive DEF StopNeedless, Silent, TtsRuns, ttsVars, ttsTaskVars
  <2>3. local'[c].reply <= replies'
    BY <1>1, <1>2, <1>5 DEF Numbered
  <2>4. Turns(c)'
    BY <1>1, <1>5, <2>1 DEF Turns, Turn, Lawful, Section
  <2>5. CallerOK(c)'
    BY <1>5, <2>1, <2>2, <2>3, <2>4, SectionArrives
  <2>6. pc'[c] # "gather"
    BY <2>1 DEF Lawful, Section
  <2> QED
    BY <1>3, <1>5, <2>1, <2>2, <2>5, <2>6
<1> QED
  BY <1>4, <1>5 DEF Stops
-----------------------------------------------------------------------------
(* The steps of the tasks that run the call's code *)

\* A stop that has waited for the reply's task finds the call silent.
LEMMA JoinedSilent ==
  ASSUME Inv, NEW c \in Callers, pc[c] = "gather", StopGathered(c)
  PROVE  Silent
<1>1. tts_task \in Reply /\ stopping[c].target = tts_task
  BY DEF Inv, CallerOK, Stopping
<1>2. ~TtsRuns(tts_task)
  BY <1>1 DEF StopGathered, TtsRuns
<1> QED
  BY <1>2, Inactive DEF IsActive

LEMMA GatherKeeps ==
  ASSUME Inv, TypeOK', NEW c \in Callers, Gathered(c) \/ ClearSent(c)
  PROVE  Inv'
<1>1. /\ Placed /\ TtsTypeOK /\ LlmTypeOK /\ Framed /\ pc[c] \in InStop /\ loop = Idle
      /\ CallerOK(c)
  BY TypeParts DEF Inv, Sound, Gathered, ClearSent, StopJoins, StopClears, Resumes, InStop
<1>2. /\ lock = c /\ local[c].after \in Section
      /\ GoesTo(c) = local[c].after
  BY <1>1 DEF CallerOK, Holds, Stopping, GoesTo
<1>3. Silent
  <2>1. CASE pc[c] = "gather"
    <3>1. StopGathered(c)
      BY <2>1 DEF Gathered, ClearSent, StopJoins, StopClears, Resumes
    <3> QED
      BY <2>1, <3>1, JoinedSilent
  <2>2. CASE pc[c] = "clear"
    BY <1>1, <2>2 DEF CallerOK, Stopping
  <2> QED
    BY <1>1, <2>1, <2>2 DEF InStop
<1>4. UNCHANGED <<llmVars, replies, state, lock>>
  BY DEF Gathered, ClearSent, callVars
<1>5. UNCHANGED ttsVars \/ StopEnds(c)
  BY DEF Gathered, ClearSent, StopJoins, StopClears, StopReturns
<1>6. TtsCalm /\ StaysWaiting /\ LlmCalm
  BY <1>1, <1>4, <1>5, TtsCalms, LlmCalms
<1>7. Silent' /\ tts_task' = tts_task
  BY <1>3, <1>6 DEF Silent, TtsCalm
<1>8. replies' >= replies /\ local[c].reply <= replies'
  <2>1. replies \in Nat
    BY Counts DEF Inv
  <2> QED
    BY <1>1, <1>4, <2>1 DEF CallerOK, Numbered
<1>9. \A d \in Callers \ {c} : stopping'[d] = stopping[d]
  BY <1>1, <1>5 DEF StopEnds, TtsTypeOK, ttsVars
<1>10. CASE Suspends(c, "clear") /\ UNCHANGED <<ttsVars, local>>
  <2>1. pc'[c] = "clear" /\ \A d \in Callers \ {c} : pc'[d] = pc[d]
    BY <1>1, <1>10, MovesOne
  <2>2. GoesTo(c)' = GoesTo(c)
    BY <1>1, <1>10, <2>1 DEF GoesTo, InStop
  <2>3. Holds(c)' /\ InSection(c)' /\ Stopping(c)'
    BY <1>2, <1>4, <1>7, <1>10, <2>1 DEF Holds, InSection, Stopping, Section, InStop
  <2>4. Beginning(c)'
    BY <1>1, <1>4, <2>1, <2>2 DEF CallerOK, Beginning, Begins
  <2>5. Numbered(c)'
    BY <1>1, <1>8, <1>10, <2>1, <2>2 DEF CallerOK, Numbered
  <2>6. Turns(c)'
    BY <1>1, <1>10, <2>1 DEF CallerOK, Turns, Turn
  <2>7. CallerOK(c)'
    BY <2>3, <2>4, <2>5, <2>6 DEF CallerOK
  <2>8. c = "ws" => Ws'
    <3> SUFFICES ASSUME c = "ws" PROVE Ws'
      OBVIOUS
    <3> QED
      BY <1>1, <1>2, <1>4, <1>10, <2>1, <2>2 DEF Inv, Ws, InStop, Turn
  <2>9. Calm({c})
    BY <1>1, <1>4, <1>6, <1>7, <1>8, <1>9, <1>10, <2>1 DEF Calm, InStop
  <2> QED
    BY <2>7, <2>8, <2>9, CalmKeeps
<1>11. CASE StopReturns(c)
  <2>1. RunsOn(c, local[c].after) /\ local' = [local EXCEPT ![c].after = Idle]
    BY <1>2, <1>11 DEF StopReturns, Section
  <2>2. /\ pc'[c] = local[c].after /\ loop' = c
        /\ \A d \in Callers \ {c} : pc'[d] = pc[d]
    BY <1>1, <2>1, MovesOne DEF RunsOn
  <2>3. /\ local'[c].ret = local[c].ret /\ local'[c].reply = local[c].reply
        /\ \A d \in Callers \ {c} : local'[d] = local[d]
    BY <1>1, <2>1 DEF Placed, Locals
  <2>4. Lawful(c, local[c].after)
    BY <1>1, <1>2, <1>4 DEF CallerOK, Beginning, Numbered, Lawful
  <2>5. Turns(c)'
    BY <1>1, <1>2, <2>2, <2>3 DEF CallerOK, Turns, Turn, Section
  <2>6. CallerOK(c)'
    BY <1>2, <1>4, <1>7, <1>8, <2>2, <2>3, <2>4, <2>5, SectionArrives
  <2>7. c = "ws" => Ws'
    <3> SUFFICES ASSUME c = "ws" PROVE Ws'
      OBVIOUS
    <3>1. pc'["ws"] = "stop_stt" /\ state' = "ENDED"
      BY <1>1, <1>2, <1>4, <2>2 DEF Inv, Ws, InStop
    <3> QED
      BY <3>1 DEF Ws, InStop, Turn
  <2>8. Calm({c})
    BY <1>1, <1>4, <1>6, <1>7, <1>8, <1>9, <2>2, <2>3 DEF Calm, InStop
  <2> QED
    BY <2>6, <2>7, <2>8, CalmKeeps
<1> QED
  BY <1>10, <1>11 DEF Gathered, ClearSent, StopJoins, StopClears

\* A step that only moves the task and its locals.
LEMMA QuietKeeps ==
  ASSUME Inv, TypeOK', NEW c \in Callers, loop \in {c, Idle}, c = "stt" => pc[c] # "done",
         UNCHANGED <<llmVars, ttsVars, replies, state, lock>>,
         \A d \in Callers \ {c} : pc'[d] = pc[d] /\ local'[d] = local[d],
         CallerOK(c)', c = "ws" => Ws'
  PROVE  Inv'
<1>1. TtsTypeOK /\ LlmTypeOK /\ Framed /\ replies \in Nat
  BY TypeParts, Counts DEF Inv, Sound
<1>2. TtsCalm /\ StaysWaiting /\ LlmCalm
  BY <1>1, TtsCalms, LlmCalms
<1>3. stopping' = stopping
  BY DEF ttsVars
<1>4. Calm({c})
  BY <1>1, <1>2, <1>3 DEF Calm
<1> QED
  BY <1>4, CalmKeeps
\* The processing of a transcript moves on, outside the lock.
LEMMA TurnMoves ==
  ASSUME Inv, TypeOK', NEW c \in Callers, loop = c, pc[c] \in Turn,
         UNCHANGED <<llmVars, ttsVars, replies, state, lock>>,
         pc'[c] \in (Turn \ {"system_turn"}) \cup {"barge", Idle},
         \A d \in Callers \ {c} : pc'[d] = pc[d] /\ local'[d] = local[d],
         local'[c].reply <= replies',
         local'[c].ret \in {Idle, "started", "whole", "complete", "returned"}
  PROVE  Inv'
<1>1. c \in {"stt", "ws"} /\ pc[c] # "done"
  BY DEF Inv, CallerOK, Turns, Turn
<1>2. pc'[c] \in Plain
  BY DEF Plain, Pc, LockPoints, Turn, Section, InStop, Begins, Idle
<1>3. CallerOK(c)'
  BY <1>1, <1>2, PlainArrives DEF Turns
<1>4. c = "ws" => Ws'
  <2> SUFFICES ASSUME c = "ws" PROVE Ws'
    OBVIOUS
  <2>1. lock' = "ws"
    BY DEF Inv, Ws
  <2> QED
    BY <2>1 DEF Ws, Turn, InStop, GoesTo, Idle
<1> QED
  BY <1>1, <1>3, <1>4, QuietKeeps

LEMMA TranscriptKeeps ==
  ASSUME Inv, TypeOK', NEW c \in Callers,
         \/ ProcessPartial(c) \/ ProcessFinal(c) \/ HandleInterruption(c) \/ StartTurn(c)
         \/ WholeTurn(c) \/ CompleteTurn(c)
  PROVE  Inv'
<1>1. Placed /\ Turns(c) /\ Numbered(c)
  BY TypeParts DEF Inv, CallerOK
<1>2. replies \in Nat /\ local[c].reply <= replies /\ 0 <= replies
  BY <1>1, Counts DEF Inv, Numbered
<1>3. /\ loop = c /\ pc[c] \in {"partial", "final", "interrupt", "started", "whole", "complete"}
      /\ UNCHANGED <<llmVars, ttsVars, replies, state, lock>>
  BY DEF ProcessPartial, ReceivePartial, ProcessFinal, ReceiveFinal, HandleInterruption,
         StartTurn, WholeTurn, CompleteTurn, Continues, callVars
<1>4. PICK to \in {"interrupt", "started", "completed", "whole", "barge", "started_lock", Idle} :
        RunsOn(c, to) \/ Suspends(c, to)
  BY DEF ProcessPartial, ReceivePartial, ProcessFinal, ReceiveFinal, HandleInterruption,
         StartTurn, WholeTurn, CompleteTurn, Returns
<1>5. pc'[c] = to /\ \A d \in Callers \ {c} : pc'[d] = pc[d]
  BY <1>1, <1>4, MovesOne
<1>6. \/ local' = local \/ local' = [local EXCEPT ![c] = NoLocals]
      \/ \E x \in {Idle, "started", "whole", "complete"} : local' = [local EXCEPT ![c].ret = x]
  BY DEF ProcessPartial, ReceivePartial, ProcessFinal, ReceiveFinal, HandleInterruption,
         StartTurn, WholeTurn, CompleteTurn, Returns
<1>7. /\ \A d \in Callers \ {c} : local'[d] = local[d]
      /\ local'[c].reply <= replies'
      /\ local'[c].ret \in {Idle, "started", "whole", "complete", "returned"}
  <2>1. CASE local' = local
    BY <1>1, <1>2, <1>3, <2>1 DEF Turns
  <2>2. CASE local' = [local EXCEPT ![c] = NoLocals]
    BY <1>1, <1>2, <1>3, <2>2 DEF Placed, NoLocals, None
  <2>3. ASSUME NEW x \in {Idle, "started", "whole", "complete"},
               local' = [local EXCEPT ![c].ret = x]
        PROVE  <1>7!:
    BY <1>1, <1>2, <1>3, <2>3 DEF Placed, Locals
  <2> QED
    BY <1>6, <2>1, <2>2, <2>3
<1>8. pc[c] \in Turn /\ pc'[c] \in (Turn \ {"system_turn"}) \cup {"barge", Idle}
  BY <1>3, <1>5 DEF Turn
<1> QED
  BY <1>3, <1>5, <1>7, <1>8, TurnMoves

LEMMA WaitsKeeps ==
  ASSUME Inv, TypeOK', NEW c \in Callers, WaitsForLock(c)
  PROVE  Inv'
<1>1. /\ loop = c /\ pc[c] \in LockPoints
      /\ UNCHANGED <<llmVars, ttsVars, pc, local, replies, state, lock>>
  BY DEF WaitsForLock, conversationVars, callVars
<1>2. CallerOK(c)
  BY DEF Inv
<1>3. CallerOK(c)'
  <2>1. pc[c] \notin Section \cup Begins \cup InStop
    BY <1>1 DEF LockPoints, Section, Begins, InStop
  <2>2. GoesTo(c)' = GoesTo(c)
    BY <1>1 DEF GoesTo
  <2>3. Holds(c)' /\ InSection(c)'
    BY <1>1, <1>2, <2>1 DEF CallerOK, Holds, InSection
  <2>4. Stopping(c)'
    BY <1>1, <2>1 DEF Stopping, InStop
  <2>5. Beginning(c)'
    BY <1>1, <1>2, <2>1, <2>2 DEF CallerOK, Beginning
  <2>6. Numbered(c)' /\ Turns(c)'
    BY <1>1, <1>2, <2>1, <2>2 DEF CallerOK, Numbered, Turns, llmVars
  <2> QED
    BY <2>3, <2>4, <2>5, <2>6 DEF CallerOK
<1>4. Ws'
  BY <1>1 DEF Inv, Ws, GoesTo
<1>5. pc[c] # "done"
  BY <1>1 DEF LockPoints
<1> QED
  BY <1>1, <1>3, <1>4, <1>5, QuietKeeps
\* Only the end of the call is decided by the endpoint.
LEMMA Acquired ==
  ASSUME Inv, NEW c \in Callers, NEW at \in LockPoints \ {"media", "stop"}, Acquires(c, at)
  PROVE  c # "ws" /\ loop \in {c, Idle} /\ lock = Nobody /\ pc[c] = at /\ pc[c] # "done"
<1>1. loop \in {c, Idle} /\ lock = Nobody /\ pc[c] = at
  BY DEF Acquires
<1>2. c # "ws"
  BY <1>1 DEF Inv, Ws, LockPoints, Turn, InStop, Nobody, Idle
<1> QED
  BY <1>1, <1>2 DEF LockPoints

\* While another task than the endpoint holds the lock the call is not over.
LEMMA HolderAlive ==
  ASSUME Inv, NEW c \in Callers, c # "ws", lock = c
  PROVE  state # "ENDED"
BY Names DEF Inv, Ended

\* A task on its way to a reply.
LEMMA BeginsArrives ==
  ASSUME NEW c \in Callers, pc'[c] \in Begins, loop' = c, lock' = Nobody, Silent',
         state' # "ENDED", local'[c].reply <= replies', Turns(c)',
         pc'[c] # "say" => local'[c].reply \in Reply,
         pc'[c] = "said" => llm_pc'[local'[c].reply] = "none"
  PROVE  CallerOK(c)'
<1>1. GoesTo(c)' = pc'[c] /\ pc'[c] \notin InStop
  BY DEF GoesTo, Begins, InStop
<1>2. Holds(c)' /\ InSection(c)'
  BY <1>1 DEF Holds, InSection, Begins, Section
<1>3. Stopping(c)'
  BY <1>1 DEF Stopping, InStop
<1>4. Beginning(c)'
  BY <1>1 DEF Beginning, Begins
<1>5. Numbered(c)'
  BY <1>1 DEF Numbered, Begins
<1> QED
  BY <1>2, <1>3, <1>4, <1>5 DEF CallerOK

LEMMA TurnLockKeeps ==
  ASSUME Inv, TypeOK', NEW c \in Callers,
         OnUserTurnStarted(c) \/ OnUserTurnCompleted(c) \/ OnSystemTurnStart(c)
  PROVE  Inv'
<1>1. /\ Placed /\ TtsTypeOK /\ LlmTypeOK /\ Framed /\ CallerOK(c)
      /\ replies \in Nat /\ replies' \in Nat /\ local[c].reply <= replies
  BY TypeParts, Counts DEF Inv, Sound, CallerOK, Numbered, TypeOK, ConversationTypeOK
<1>2. CASE OnUserTurnStarted(c)
  <2>1. c # "ws" /\ loop \in {c, Idle} /\ lock = Nobody /\ pc[c] # "done"
    BY <1>2, Acquired DEF OnUserTurnStarted, LockPoints
  <2>2. /\ UNCHANGED llmVars \/ Cancel
        /\ UNCHANGED <<ttsVars, replies, lock>>
        /\ state' = state \/ (state = "PROCESSING" /\ state' = "LISTENING")
    BY <1>2 DEF OnUserTurnStarted
  <2>3. TtsCalm /\ StaysWaiting /\ LlmCalm /\ stopping' = stopping
    BY <1>1, <2>2, TtsCalms, LlmCalms DEF ttsVars
  <2>4. replies' >= replies
    BY <1>1, <2>2
  <2>5. /\ CallerOK(c)'
        /\ \A d \in Callers \ {c} : pc'[d] = pc[d] /\ local'[d] = local[d]
    BY <1>2, <2>4, ReturnArrives DEF OnUserTurnStarted
  <2>6. Calm({c})
    BY <2>1, <2>2, <2>3, <2>4, <2>5 DEF Calm
  <2> QED
    BY <2>1, <2>5, <2>6, CalmKeeps
<1>3. CASE OnUserTurnCompleted(c)
  <2>1. c # "ws" /\ loop \in {c, Idle} /\ lock = Nobody /\ pc[c] # "done" /\ pc[c] = "completed"
    BY <1>3, Acquired DEF OnUserTurnCompleted, LockPoints
  <2>2. UNCHANGED <<llmVars, ttsVars, lock>>
    BY <1>3 DEF OnUserTurnCompleted
  <2>3. TtsCalm /\ StaysWaiting /\ LlmCalm /\ stopping' = stopping
    BY <1>1, <2>2, TtsCalms, LlmCalms DEF ttsVars
  <2>4. CASE Returns(c) /\ UNCHANGED <<state, history, replies>>
    <3>1. replies' >= replies
      BY <1>1, <2>4
    <3>2. /\ CallerOK(c)'
          /\ \A d \in Callers \ {c} : pc'[d] = pc[d] /\ local'[d] = local[d]
      BY <2>4, <3>1, ReturnArrives
    <3>3. Calm({c})
      BY <2>1, <2>2, <2>3, <2>4, <3>1, <3>2 DEF Calm
    <3> QED
      BY <2>1, <3>2, <3>3, CalmKeeps
  <2>5. CASE /\ state = "LISTENING" /\ state' = "PROCESSING" /\ replies < MaxReplies
             /\ replies' = replies + 1
             /\ local' = [local EXCEPT ![c].reply = replies + 1]
             /\ RunsOn(c, "system_turn")
    <3>1. /\ pc'[c] = "system_turn"
          /\ \A d \in Callers \ {c} : pc'[d] = pc[d]
      BY <1>1, <2>5, MovesOne
    <3>2. /\ local'[c].reply = replies + 1 /\ local'[c].ret = local[c].ret
          /\ \A d \in Callers \ {c} : local'[d] = local[d]
      BY <1>1, <2>5 DEF Placed, Locals
    <3>3. replies + 1 \in Reply /\ replies' >= replies /\ local'[c].reply <= replies'
      BY <1>1, <2>5, <3>2, RepliesAssumption DEF Reply
    <3>4. Turns(c)'
      BY <1>1, <2>1, <3>2 DEF CallerOK, Turns, Turn
    <3>5. GoesTo(c)' = "system_turn"
      BY <3>1 DEF GoesTo, InStop
    <3>6. Holds(c)' /\ InSection(c)' /\ Stopping(c)'
      BY <3>1 DEF Holds, InSection, Stopping, Section, InStop
    <3>7. Beginning(c)'
      BY <3>1, <3>5 DEF Beginning, Begins
    <3>8. Numbered(c)'
      BY <3>1, <3>2, <3>3 DEF Numbered
    <3>9. CallerOK(c)'
      BY <3>4, <3>6, <3>7, <3>8 DEF CallerOK
    <3>10. Calm({c})
      BY <2>1, <2>2, <2>3, <2>5, <3>1, <3>2, <3>3 DEF Calm
    <3> QED
      BY <2>1, <3>9, <3>10, CalmKeeps
  <2> QED
    BY <1>3, <2>4, <2>5 DEF OnUserTurnCompleted
<1>4. CASE OnSystemTurnStart(c)
  <2>1. /\ c # "ws" /\ loop \in {c, Idle} /\ lock = Nobody /\ pc[c] # "done"
        /\ pc[c] = "system_turn"
    BY <1>4, Acquired DEF OnSystemTurnStart, LockPoints
  <2>2. c = "stt" /\ local[c].reply \in Reply
    BY <1>1, <2>1 DEF CallerOK, Turns, Turn, Numbered, GoesTo, InStop
  <2>3. state # "ENDED"
    BY <2>1, <2>2 DEF Inv, Ended, Nobody
  <2>4. lock' = c /\ Stops(c, "system_turn_on") /\ UNCHANGED <<llmVars, replies, state>>
    BY <1>4, <2>3 DEF OnSystemTurnStart
  <2>5. Lawful(c, "system_turn_on") /\ replies' >= replies
    BY <1>1, <2>2, <2>3, <2>4 DEF Lawful, Section
  <2>6. /\ CallerOK(c)'
        /\ \A d \in Callers \ {c} :
             pc'[d] = pc[d] /\ local'[d] = local[d] /\ stopping'[d] = stopping[d]
        /\ TtsCalm /\ StaysWaiting
    BY <2>4, <2>5, StopArrives
  <2>7. LlmCalm
    BY <1>1, <2>4, LlmCalms
  <2>8. Calm({c})
    BY <2>1, <2>3, <2>4, <2>5, <2>6, <2>7 DEF Calm
  <2> QED
    BY <2>1, <2>6, <2>8, CalmKeeps
<1> QED
  BY <1>2, <1>3, <1>4
LEMMA NotWs ==
  ASSUME Inv, NEW c \in Callers,
         pc[c] \in Begins \cup {"system_turn_on", "barged", "recovered", "unlock_say"}
  PROVE  c # "ws"
BY DEF Inv, Ws, Begins, Turn, InStop, Idle

LEMMA SilentInactive ==
  ASSUME TypeOK, Silent
  PROVE  ~IsActive
BY DEF TypeOK, ConversationTypeOK, TtsTypeOK, Silent, IsActive

\* From the end of a section to the beginning of a reply.
LEMMA BeginsKeeps ==
  ASSUME Inv, TypeOK', NEW c \in Callers,
         SystemTurnOn(c) \/ BeginReply(c) \/ UnlockSay(c) \/ Say(c)
  PROVE  Inv'
<1>1. /\ Placed /\ TtsTypeOK /\ LlmTypeOK /\ Framed /\ CallerOK(c) /\ TypeOK
      /\ replies \in Nat /\ replies' \in Nat /\ local[c].reply <= replies
      /\ local[c].reply \in Nat
  BY TypeParts, Counts DEF Inv, Sound, CallerOK, Numbered, TypeOK, ConversationTypeOK
<1>2. loop = c /\ pc[c] \in {"system_turn_on", "begin", "unlock_say", "say"}
  BY DEF SystemTurnOn, BeginReply, UnlockSay, Say, Continues
<1>3. c # "ws" /\ GoesTo(c) = pc[c]
  BY <1>2, NotWs DEF Begins, GoesTo, InStop
<1>4. Silent /\ state # "ENDED" /\ lock \in {c, Nobody}
  BY <1>1, <1>2, <1>3 DEF CallerOK, Holds, InSection, Beginning, Section, Begins
<1>5. ~IsActive
  BY <1>1, <1>4, SilentInactive
<1>6. UNCHANGED <<llmVars, ttsVars, state>> /\ lock' = Nobody
  <2>1. CASE SystemTurnOn(c) \/ UnlockSay(c)
    BY <2>1 DEF SystemTurnOn, UnlockSay
  <2>2. CASE BeginReply(c) \/ Say(c)
    <3>1. UNCHANGED <<llmVars, ttsVars, state, lock>>
      BY <1>5, <2>2 DEF BeginReply, Say, Stops, StopWaits, StopNeedless, callVars
    <3>2. lock = Nobody
      BY <1>1, <2>2 DEF BeginReply, Say, Continues, CallerOK, Beginning, Begins
    <3> QED
      BY <3>1, <3>2
  <2> QED
    BY <2>1, <2>2
<1>7. TtsCalm /\ StaysWaiting /\ LlmCalm /\ stopping' = stopping
  BY <1>1, <1>6, TtsCalms, LlmCalms DEF ttsVars
<1>8. Silent'
  BY <1>4, <1>7 DEF Silent, TtsCalm
<1>9. PICK to \in Begins : RunsOn(c, to)
  BY <1>5 DEF SystemTurnOn, BeginReply, UnlockSay, Say, Stops, StopWaits, Begins
<1>10. pc'[c] = to /\ loop' = c /\ \A d \in Callers \ {c} : pc'[d] = pc[d]
  BY <1>1, <1>9, MovesOne DEF RunsOn
<1>11. /\ \A d \in Callers \ {c} : local'[d] = local[d]
       /\ local'[c].ret = local[c].ret
       /\ replies' >= replies /\ local'[c].reply <= replies'
       /\ pc'[c] # "say" => local'[c].reply \in Reply
       /\ pc'[c] = "said" => llm_pc'[local'[c].reply] = "none"
  <2>1. CASE SystemTurnOn(c) \/ BeginReply(c)
    <3>1. local' = local /\ replies' = replies
      BY <1>5, <2>1 DEF SystemTurnOn, BeginReply, Stops, StopWaits
    <3>2. local[c].reply \in Reply
      BY <1>1, <1>3, <2>1 DEF SystemTurnOn, BeginReply, Continues, CallerOK, Numbered
    <3>3. RunsOn(c, "begin") \/ RunsOn(c, "begun")
      BY <1>5, <2>1 DEF SystemTurnOn, BeginReply, Stops, StopWaits
    <3>4. pc'[c] # "said"
      BY <1>1, <3>3, MovesOne
    <3> QED
      BY <1>1, <3>1, <3>2, <3>4
  <2>2. CASE UnlockSay(c)
    <3>1. local' = local /\ replies' = replies /\ RunsOn(c, "say")
      BY <2>2 DEF UnlockSay, conversationVars
    <3>2. pc'[c] = "say"
      BY <1>1, <3>1, MovesOne
    <3> QED
      BY <1>1, <3>1, <3>2
  <2>3. CASE Say(c)
    <3>1. /\ replies' = replies + 1 /\ replies < MaxReplies
          /\ local' = [local EXCEPT ![c].reply = replies + 1]
      BY <1>5, <2>3 DEF Say, StopWaits
    <3>2. /\ local'[c].reply = replies + 1 /\ local'[c].ret = local[c].ret
          /\ \A d \in Callers \ {c} : local'[d] = local[d]
      BY <1>1, <3>1 DEF Placed, Locals
    <3>3. /\ replies + 1 \in Reply /\ ~(replies + 1 <= replies)
          /\ replies' >= replies /\ replies + 1 <= replies'
      BY <1>1, <3>1, RepliesAssumption DEF Reply
    <3>4. llm_pc'[replies + 1] = "none"
      BY <1>6, <3>3 DEF Inv, Sound, Numbers, llmVars
    <3> QED
      BY <3>2, <3>3, <3>4
  <2> QED
    BY <2>1, <2>2, <2>3
<1>12. Turns(c)'
  BY <1>1, <1>10, <1>11 DEF CallerOK, Turns, Turn, Begins
<1>13. CallerOK(c)'
  BY <1>4, <1>6, <1>8, <1>10, <1>11, <1>12, BeginsArrives
<1>14. Calm({c})
  BY <1>2, <1>4, <1>6, <1>7, <1>8, <1>10, <1>11 DEF Calm
<1> QED
  BY <1>3, <1>13, <1>14, CalmKeeps

LEMMA BargeKeeps ==
  ASSUME Inv, TypeOK', NEW c \in Callers, HandleBargeIn(c) \/ BargedIn(c)
  PROVE  Inv'
<1>1. /\ Placed /\ TtsTypeOK /\ LlmTypeOK /\ Framed /\ CallerOK(c)
      /\ replies \in Nat /\ replies' = replies /\ replies' >= replies
  BY TypeParts, Counts DEF Inv, Sound, HandleBargeIn, BargedIn
<1>2. CASE HandleBargeIn(c)
  <2>1. c # "ws" /\ loop \in {c, Idle} /\ lock = Nobody /\ pc[c] # "done"
    BY <1>2, Acquired DEF HandleBargeIn, LockPoints
  <2>2. CASE ReturnsTo(c) /\ UNCHANGED <<llmVars, ttsVars, lock>> /\ state' = state
    BY <1>1, <2>1, <2>2, ReturnArrives, QuietKeeps
  <2>3. CASE state \in Busy /\ Cancel /\ lock' = c /\ Stops(c, "barged") /\ state' = state
    <3>1. Lawful(c, "barged") /\ state # "ENDED"
      BY <2>3 DEF Lawful, Section, Busy
    <3>2. /\ CallerOK(c)'
          /\ \A d \in Callers \ {c} :
               pc'[d] = pc[d] /\ local'[d] = local[d] /\ stopping'[d] = stopping[d]
          /\ TtsCalm /\ StaysWaiting
      BY <1>1, <2>3, <3>1, StopArrives
    <3>3. LlmCalm
      BY <1>1, <2>3, LlmCalms
    <3>4. Calm({c})
      BY <1>1, <2>1, <2>3, <3>1, <3>2, <3>3 DEF Calm
    <3> QED
      BY <2>1, <3>2, <3>4, CalmKeeps
  <2> QED
    BY <1>2, <2>2, <2>3 DEF HandleBargeIn
<1>3. CASE BargedIn(c)
  <2>1. loop = c /\ pc[c] = "barged"
    BY <1>3 DEF BargedIn, Continues
  <2>2. c # "ws" /\ lock = c /\ Silent /\ state \in Busy
    BY <1>1, <2>1, NotWs DEF CallerOK, Holds, InSection, Beginning, Section, GoesTo, InStop
  <2>3. UNCHANGED <<llmVars, ttsVars>> /\ state' = "LISTENING" /\ ReturnsTo(c)
    BY <1>3 DEF BargedIn
  <2>4. TtsCalm /\ StaysWaiting /\ LlmCalm /\ stopping' = stopping
    BY <1>1, <2>3, TtsCalms, LlmCalms DEF ttsVars
  <2>5. Silent' /\ state # "ENDED"
    BY <2>2, <2>4 DEF Silent, TtsCalm, Busy
  <2>6. /\ CallerOK(c)'
        /\ \A d \in Callers \ {c} : pc'[d] = pc[d] /\ local'[d] = local[d]
    BY <1>1, <2>3, ReturnArrives
  <2>7. Calm({c})
    BY <1>1, <2>1, <2>2, <2>3, <2>4, <2>5, <2>6 DEF Calm
  <2> QED
    BY <2>2, <2>6, <2>7, CalmKeeps
<1> QED
  BY <1>2, <1>3
LEMMA RecoveryKeeps ==
  ASSUME Inv, TypeOK', NEW c \in Callers,
         HandlePipelineError(c) \/ Recovered(c) \/ PlayFallbackTts(c)
  PROVE  Inv'
<1>1. /\ Placed /\ TtsTypeOK /\ LlmTypeOK /\ Framed /\ CallerOK(c)
      /\ replies \in Nat /\ replies' = replies /\ replies' >= replies
      /\ local[c].reply <= replies'
  BY TypeParts, Counts
     DEF Inv, Sound, CallerOK, Numbered, HandlePipelineError, Recovered, PlayFallbackTts
<1>2. CASE HandlePipelineError(c) \/ PlayFallbackTts(c)
  <2>1. /\ c # "ws" /\ loop \in {c, Idle} /\ lock = Nobody /\ pc[c] # "done"
        /\ pc[c] \in {"recover", "fallback"}
    BY <1>2, Acquired DEF HandlePipelineError, PlayFallbackTts, LockPoints
  <2>2. CASE ReturnsTo(c) /\ UNCHANGED <<llmVars, ttsVars, lock>> /\ state' = state
    BY <1>1, <2>1, <2>2, ReturnArrives, QuietKeeps
  <2>3. ASSUME NEW next \in {"recovered", "unlock_say"}, state # "ENDED", Stops(c, next),
               UNCHANGED llmVars \/ Cancel, lock' = c, state' = state
        PROVE  Inv'
    <3>1. Lawful(c, next)
      BY <2>3 DEF Lawful, Section
    <3>2. /\ CallerOK(c)'
          /\ \A d \in Callers \ {c} :
               pc'[d] = pc[d] /\ local'[d] = local[d] /\ stopping'[d] = stopping[d]
          /\ TtsCalm /\ StaysWaiting
      BY <1>1, <2>3, <3>1, StopArrives
    <3>3. LlmCalm
      BY <1>1, <2>3, LlmCalms
    <3>4. Calm({c})
      BY <1>1, <2>1, <2>3, <3>2, <3>3 DEF Calm
    <3> QED
      BY <2>1, <3>2, <3>4, CalmKeeps
  <2>4. CASE /\ state # "ENDED" /\ Cancel /\ lock' = c /\ state' = state
             /\ Suspends(c, "wedged") /\ UNCHANGED <<ttsVars, local>>
    <3>1. pc'[c] = "wedged" /\ \A d \in Callers \ {c} : pc'[d] = pc[d]
      BY <1>1, <2>4, MovesOne
    <3>2. GoesTo(c)' = "wedged"
      BY <3>1 DEF GoesTo, InStop
    <3>3. Holds(c)' /\ InSection(c)' /\ Stopping(c)'
      BY <2>4, <3>1 DEF Holds, InSection, Stopping, Section, InStop
    <3>4. Beginning(c)'
      BY <3>1, <3>2 DEF Beginning, Begins
    <3>5. Numbered(c)'
      BY <1>1, <2>4, <3>1, <3>2 DEF Numbered
    <3>6. Turns(c)'
      BY <1>1, <2>4, <3>1 DEF CallerOK, Turns, Turn
    <3>7. CallerOK(c)'
      BY <3>3, <3>4, <3>5, <3>6 DEF CallerOK
    <3>8. TtsCalm /\ StaysWaiting /\ LlmCalm /\ stopping' = stopping
      BY <1>1, <2>4, TtsCalms, LlmCalms DEF ttsVars
    <3>9. Calm({c})
      BY <1>1, <2>1, <2>4, <3>1, <3>8 DEF Calm
    <3> QED
      BY <2>1, <3>7, <3>9, CalmKeeps
  <2> QED
    BY <1>2, <2>2, <2>3, <2>4 DEF HandlePipelineError, PlayFallbackTts
<1>3. CASE Recovered(c)
  <2>1. loop = c /\ pc[c] = "recovered"
    BY <1>3 DEF Recovered, Continues
  <2>2. c # "ws" /\ lock = c /\ Silent /\ state # "ENDED"
    BY <1>1, <2>1, NotWs, HolderAlive DEF CallerOK, Holds, InSection, Section
  <2>3. /\ UNCHANGED <<llmVars, ttsVars, local>> /\ RunsOn(c, "fallback")
        /\ state' # "ENDED"
    BY <1>3, <2>2 DEF Recovered
  <2>4. TtsCalm /\ StaysWaiting /\ LlmCalm /\ stopping' = stopping
    BY <1>1, <2>3, TtsCalms, LlmCalms DEF ttsVars
  <2>5. Silent'
    BY <2>2, <2>4 DEF Silent, TtsCalm
  <2>6. pc'[c] = "fallback" /\ \A d \in Callers \ {c} : pc'[d] = pc[d]
    BY <1>1, <2>3, MovesOne
  <2>7. pc'[c] \in Plain
    BY <2>6 DEF Plain, Pc, LockPoints, Section, InStop, Begins
  <2>8. Turns(c)'
    BY <1>1, <2>3, <2>6 DEF CallerOK, Turns, Turn
  <2>9. CallerOK(c)'
    BY <1>1, <2>3, <2>7, <2>8, PlainArrives
  <2>10. Calm({c})
    BY <1>1, <2>1, <2>2, <2>3, <2>4, <2>5, <2>6 DEF Calm
  <2> QED
    BY <2>2, <2>9, <2>10, CalmKeeps
<1> QED
  BY <1>2, <1>3

\* A reply is begun: nothing is being spoken and the call is not over.
LEMMA BegunFrame ==
  ASSUME Inv, TypeOK', NEW c \in Callers, ReplyBegun(c) \/ Said(c)
  PROVE  /\ \A d \in Callers : CallerOK(d)'
         /\ Ws' /\ Ended'
         /\ Silent /\ state # "ENDED" /\ state' = state /\ replies' = replies
         /\ local[c].reply \in Reply /\ local[c].reply <= replies
<1>1. /\ Placed /\ CallerOK(c) /\ replies \in Nat /\ replies' = replies /\ replies' >= replies
  BY TypeParts, Counts DEF Inv, ReplyBegun, Said
<1>2. loop = c /\ pc[c] \in {"begun", "said"}
  BY DEF ReplyBegun, Said, Continues
<1>3. c # "ws" /\ GoesTo(c) = pc[c]
  BY <1>2, NotWs DEF Begins, GoesTo, InStop
<1>4. Silent /\ state # "ENDED" /\ lock = Nobody /\ local[c].reply \in Reply
  BY <1>1, <1>2, <1>3 DEF CallerOK, Beginning, Begins, Numbered
<1>5. UNCHANGED <<state, lock, stopping>>
  BY DEF ReplyBegun, Said, Begin, callVars
<1>6. /\ CallerOK(c)'
      /\ \A d \in Callers \ {c} : pc'[d] = pc[d] /\ local'[d] = local[d]
  BY <1>1, ReturnArrives DEF ReplyBegun, Said
<1>7. Frame({c})
  BY <1>1, <1>2, <1>4, <1>5, <1>6 DEF Frame
<1>8. \A d \in Callers : CallerOK(d)'
  BY <1>6, <1>7, Others DEF Inv
<1>9. Ws'
  BY <1>3, <1>7, OthersWs DEF Inv
<1>10. Ended'
  BY <1>4, <1>5 DEF Ended
<1> QED
  BY <1>1, <1>4, <1>5, <1>8, <1>9, <1>10 DEF CallerOK, Numbered

LEMMA ReplyBegunKeeps ==
  ASSUME Inv, TypeOK', NEW c \in Callers, ReplyBegun(c)
  PROVE  Inv'
<1>0. SUFFICES ASSUME NEW r, r = local[c].reply PROVE Inv'
  OBVIOUS
<1>1. /\ \A d \in Callers : CallerOK(d)'
      /\ Ws' /\ Ended'
      /\ Silent /\ state # "ENDED" /\ state' = state /\ replies' = replies
      /\ r \in Reply /\ r <= replies
  BY <1>0, BegunFrame
<1>2. Begin(r, <<>>) /\ StartGeneration(r)
  BY <1>0 DEF ReplyBegun
<1>3. TtsTypeOK /\ LlmTypeOK /\ Sound
  BY TypeParts DEF Inv
<1>4. /\ tts_task' = r /\ tts_pc'[r] = "new" /\ tts_queue'[r] = <<>>
      /\ tts_frames' = tts_frames /\ tts_cancelled' = tts_cancelled
      /\ \A s \in Reply \ {r} : tts_pc'[s] = tts_pc[s]
  BY <1>1, <1>2, <1>3 DEF Begin, TtsTypeOK
<1>5. \A s \in Reply : ~TtsRuns(s) /\ ~tts_frames[s]
  BY <1>1, <1>3 DEF Silent, Sound, Framed
<1>6. OneVoice' /\ Framed'
  BY <1>1, <1>4, <1>5 DEF OneVoice, Framed, TtsRuns
<1>7. /\ llm_task' = r
      /\ \A s \in Reply \ {r} : llm_pc'[s] = llm_pc[s]
      /\ \A s \in Reply \ {r} : Generates(s) => llm_cancelled'[s]
      /\ \A s \in Reply : llm_cancelled[s] => llm_cancelled'[s]
  <2>1. llm_task' = r /\ \A s \in Reply \ {r} : llm_pc'[s] = llm_pc[s]
    BY <1>1, <1>2, <1>3 DEF StartGeneration, LlmTypeOK
  <2>2. ASSUME NEW s \in Reply, Generates(s) PROVE llm_cancelled'[s]
    <3>1. s = llm_task /\ LlmRuns(s) /\ s # None
      BY <1>3, <2>2 DEF Sound, Latest, Generates, LlmRuns, Reply, None
    <3> QED
      BY <1>2, <1>3, <3>1 DEF StartGeneration, CancelGeneration, IsGenerating, LlmTypeOK
  <2>3. ASSUME NEW s \in Reply, llm_cancelled[s] PROVE llm_cancelled'[s]
    BY <1>2, <1>3, <2>3 DEF StartGeneration, CancelGeneration, LlmTypeOK
  <2> QED
    BY <2>1, <2>2, <2>3
<1>8. Latest'
  BY <1>7 DEF Latest, Generates
<1>9. Over'
  BY <1>1 DEF Over
<1>10. Waiting(r)'
  <2>1. DOMAIN <<>> = {}
    OBVIOUS
  <2> QED
    BY <1>1, <1>4, <1>5, <2>1 DEF Waiting
<1>11. Muted'
  BY <1>4, <1>5, <1>10 DEF Muted, Audible, Speaking, TtsRuns
<1>12. Numbers'
  BY <1>1, <1>3, <1>7 DEF Numbers, Sound
<1> QED
  BY <1>1, <1>6, <1>8, <1>9, <1>11, <1>12 DEF Inv, Sound

LEMMA SaidKeeps ==
  ASSUME Inv, TypeOK', NEW c \in Callers, Said(c)
  PROVE  Inv'
<1>0. SUFFICES ASSUME NEW r, r = local[c].reply PROVE Inv'
  OBVIOUS
<1>1. /\ \A d \in Callers : CallerOK(d)'
      /\ Ws' /\ Ended'
      /\ Silent /\ state # "ENDED" /\ state' = state /\ replies' = replies
      /\ r \in Reply
  BY <1>0, BegunFrame
<1>2. Begin(r, <<r, None>>) /\ UNCHANGED llmVars
  BY <1>0 DEF Said
<1>3. TtsTypeOK /\ LlmTypeOK /\ Sound
  BY TypeParts DEF Inv
<1>4. llm_pc[r] = "none"
  BY <1>0 DEF Said, Continues, Inv, CallerOK, Numbered
<1>5. /\ tts_task' = r /\ tts_pc'[r] = "new"
      /\ tts_frames' = tts_frames /\ tts_cancelled' = tts_cancelled
      /\ \A s \in Reply \ {r} : tts_pc'[s] = tts_pc[s]
  BY <1>1, <1>2, <1>3 DEF Begin, TtsTypeOK
<1>6. \A s \in Reply : ~TtsRuns(s) /\ ~tts_frames[s]
  BY <1>1, <1>3 DEF Silent, Sound, Framed
<1>7. OneVoice' /\ Framed'
  BY <1>1, <1>5, <1>6 DEF OneVoice, Framed, TtsRuns
<1>8. Latest' /\ Numbers'
  BY <1>1, <1>2, <1>3 DEF Latest, Generates, Numbers, Sound, llmVars
<1>9. Over'
  BY <1>1 DEF Over
<1>10. Muted'
  BY <1>2, <1>4, <1>5, <1>6 DEF Muted, Audible, Speaking, TtsRuns, llmVars
<1> QED
  BY <1>1, <1>7, <1>8, <1>9, <1>10 DEF Inv, Sound

LEMMA CallerKeeps ==
  ASSUME Inv, NEW c \in Callers, CallerStep(c)
  PROVE  Inv'
<1>1. TypeOK'
  BY CallerTypes, TypedStep DEF Inv, CallerOK
<1> QED
  BY <1>1, WaitsKeeps, GatherKeeps, TranscriptKeeps, TurnLockKeeps, BeginsKeeps, BargeKeeps,
     RecoveryKeeps, ReplyBegunKeeps, SaidKeeps DEF CallerStep, TurnStep
-----------------------------------------------------------------------------
(* The endpoint and the environment *)

LEMMA WsKeeps ==
  ASSUME Inv, WsStep
  PROVE  Inv'
<1>1. /\ TypeOK' /\ TypeOK /\ Placed /\ TtsTypeOK /\ LlmTypeOK /\ Framed /\ CallerOK("ws")
      /\ "ws" \in Callers /\ "stt" \in Callers /\ "silence" \in Callers
      /\ replies \in Nat /\ replies' = replies /\ replies' >= replies
      /\ local["ws"].reply <= replies'
  <2>1. TypeOK' /\ TypeOK /\ Placed /\ TtsTypeOK /\ LlmTypeOK /\ Framed
    BY WsTypes, TypeParts DEF Inv, Sound
  <2>2. "ws" \in Callers /\ "stt" \in Callers /\ "silence" \in Callers
    BY Names
  <2>3. replies \in Nat /\ replies' = replies
    BY <2>1, Counts DEF WsStep, FeedMulaw, Stop, StopStt, SttJoined, conversationVars
  <2> QED
    BY <2>1, <2>2, <2>3 DEF Inv, CallerOK, Numbered
<1>2. CASE FeedMulaw
  <2>1. /\ pc["ws"] = "media" /\ lock = Nobody /\ loop \in {"ws", Idle}
        /\ UNCHANGED <<llmVars, ttsVars, local, lock>>
        /\ state' = state \/ (state = "LISTENING" /\ state' = "STREAMING")
    BY <1>2 DEF FeedMulaw, Acquires, conversationVars
  <2>2. TtsCalm /\ StaysWaiting /\ LlmCalm /\ stopping' = stopping
    BY <1>1, <2>1, TtsCalms, LlmCalms DEF ttsVars
  <2>3. ASSUME NEW c \in Callers, pc'[c] \in {Idle, "barge"} PROVE CallerOK(c)'
    <3>1. pc'[c] \in Plain
      BY <2>3 DEF Plain, Pc, LockPoints, Section, InStop, Begins, Idle
    <3>2. CallerOK(c)
      BY DEF Inv
    <3>3. Turns(c)'
      BY <2>1, <2>3, <3>2 DEF CallerOK, Turns, Turn, Idle
    <3>4. local'[c].reply <= replies'
      BY <1>1, <2>1, <3>2 DEF CallerOK, Numbered
    <3> QED
      BY <3>1, <3>3, <3>4, PlainArrives
  <2>4. pc'["ws"] = Idle => Ws'
    BY DEF Ws, Turn, InStop, GoesTo, Idle
  <2>5. CASE pc' = [pc EXCEPT !["ws"] = Idle]
    <3>1. pc'["ws"] = Idle /\ \A d \in Callers \ {"ws"} : pc'[d] = pc[d]
      BY <1>1, <2>5 DEF Placed
    <3>2. Calm({"ws"})
      BY <1>1, <2>1, <2>2, <3>1 DEF Calm
    <3> QED
      BY <1>1, <2>3, <2>4, <3>1, <3>2, CalmKeeps
  <2>6. ASSUME NEW t \in Spawned, pc[t] = Idle, pc' = [pc EXCEPT !["ws"] = Idle, ![t] = "barge"]
        PROVE  Inv'
    <3>1. t \in Callers /\ t # "ws" /\ t # "stt"
      BY CallAssumption
    <3>2. /\ pc'["ws"] = Idle /\ pc'[t] = "barge"
          /\ \A d \in Callers \ {"ws", t} : pc'[d] = pc[d]
      BY <1>1, <2>6, <3>1 DEF Placed
    <3>3. Calm({"ws", t})
      BY <1>1, <2>1, <2>2, <3>1, <3>2 DEF Calm
    <3>4. \A c \in {"ws", t} : CallerOK(c)'
      BY <1>1, <2>3, <3>1, <3>2
    <3>5. {"ws", t} \in SUBSET Callers
      BY <1>1, <3>1
    <3> QED
      BY <1>1, <2>4, <3>2, <3>3, <3>4, <3>5, CalmKeeps
  <2> QED
    BY <1>2, <2>5, <2>6 DEF FeedMulaw
<1>3. CASE Stop
  <2>1. /\ pc["ws"] = "stop" /\ lock = Nobody /\ loop \in {"ws", Idle}
        /\ state' = "ENDED" /\ Cancel /\ lock' = "ws" /\ Stops("ws", "stop_stt")
    BY <1>3 DEF Stop, Acquires
  <2>2. Lawful("ws", "stop_stt")
    BY DEF Lawful, Section
  <2>3. /\ CallerOK("ws")'
        /\ \A d \in Callers \ {"ws"} :
             pc'[d] = pc[d] /\ local'[d] = local[d] /\ stopping'[d] = stopping[d]
        /\ TtsCalm
        /\ pc'["ws"] \in {"gather", "stop_stt"}
        /\ pc'["ws"] = "gather" => local'["ws"].after = "stop_stt"
    BY <1>1, <2>1, <2>2, StopArrives
  <2>4. Frame({"ws"})
    BY <1>1, <2>1, <2>3 DEF Frame
  <2>5. \A d \in Callers : CallerOK(d)'
    BY <1>1, <2>3, <2>4, Others DEF Inv
  <2>6. Ws'
    BY <2>1, <2>3 DEF Ws, InStop, Turn
  <2>7. Ended'
    BY <2>1 DEF Ended
  <2>8. LlmCalm
    BY <1>1, <2>1, LlmCalms
  <2>9. Framed' /\ OneVoice' /\ Latest' /\ Muted' /\ Numbers'
    BY <1>1, <2>1, <2>3, <2>8
       DEF Inv, Sound, TtsCalm, LlmCalm, OneVoice, Latest, Muted, Numbers
  <2>10. \A r \in Reply : ~Audible(r)'
    <3>1. SUFFICES ASSUME NEW r \in Reply, Audible(r)' PROVE FALSE
      OBVIOUS
    <3>2. Audible(r) /\ TtsRuns(r)
      BY <2>3, <3>1 DEF TtsCalm, Audible, Speaking, TtsRuns
    <3>3. r = tts_task /\ IsActive
      BY <3>2 DEF Inv, Sound, OneVoice, IsActive, Reply, None
    <3>4. StopCancels("ws")
      BY <2>1, <3>3 DEF Stops, StopWaits, StopNeedless
    <3>5. tts_cancelled'[r]
      BY <1>1, <3>3, <3>4 DEF StopCancels, TtsTypeOK
    <3> QED
      BY <3>1, <3>5 DEF Audible
  <2>11. \A r \in Reply : ~Generates(r)'
    <3>1. SUFFICES ASSUME NEW r \in Reply, Generates(r)' PROVE FALSE
      OBVIOUS
    <3>2. Generates(r)
      BY <2>8, <3>1 DEF LlmCalm
    <3>3. r = llm_task /\ IsGenerating
      BY <3>2 DEF Inv, Sound, Latest, Generates, IsGenerating, LlmRuns, Reply, None
    <3>4. llm_cancelled'[r]
      BY <1>1, <2>1, <3>3 DEF Cancel, CancelGeneration, LlmTypeOK
    <3> QED
      BY <3>1, <3>4 DEF Generates
  <2>12. Over'
    BY <2>10, <2>11 DEF Over
  <2> QED
    BY <1>1, <2>5, <2>6, <2>7, <2>9, <2>12 DEF Inv, Sound
<1>4. CASE StopStt
  <2>1. /\ loop = "ws" /\ pc["ws"] = "stop_stt"
        /\ UNCHANGED <<llmVars, ttsVars, replies, state, lock>>
    BY <1>4 DEF StopStt, Continues, callVars
  <2>2. lock = "ws" /\ state = "ENDED"
    BY <1>1, <2>1 DEF CallerOK, Holds, Section, Inv, Ws, GoesTo, InStop
  <2>3. CASE Suspends("ws", "join_stt") /\ UNCHANGED local
    <3>1. pc'["ws"] = "join_stt" /\ \A d \in Callers \ {"ws"} : pc'[d] = pc[d]
      BY <1>1, <2>3, MovesOne
    <3>2. GoesTo("ws")' = "join_stt"
      BY <3>1 DEF GoesTo, InStop
    <3>3. Holds("ws")' /\ InSection("ws")' /\ Stopping("ws")'
      BY <2>1, <2>2, <3>1 DEF Holds, InSection, Stopping, Section, InStop
    <3>4. Beginning("ws")'
      BY <3>1, <3>2 DEF Beginning, Begins
    <3>5. Numbered("ws")'
      BY <1>1, <2>3, <3>1, <3>2 DEF Numbered
    <3>6. Turns("ws")'
      BY <1>1, <2>3, <3>1 DEF CallerOK, Turns, Turn
    <3>7. CallerOK("ws")'
      BY <3>3, <3>4, <3>5, <3>6 DEF CallerOK
    <3>8. Ws'
      BY <2>1, <2>2, <3>1 DEF Ws, InStop, Turn
    <3> QED
      BY <1>1, <2>1, <2>3, <3>1, <3>7, <3>8, QuietKeeps
  <2>4. ASSUME NEW t \in CallTexts, local' = [local EXCEPT !["ws"].text = t], RunsOn("ws", "final")
        PROVE  Inv'
    <3>1. pc'["ws"] = "final" /\ \A d \in Callers \ {"ws"} : pc'[d] = pc[d]
      BY <1>1, <2>4, MovesOne
    <3>2. /\ local'["ws"].reply = local["ws"].reply /\ local'["ws"].ret = local["ws"].ret
          /\ \A d \in Callers \ {"ws"} : local'[d] = local[d]
      BY <1>1, <2>4 DEF Placed, Locals
    <3>3. pc'["ws"] \in Plain
      BY <3>1 DEF Plain, Pc, Section, InStop, Begins
    <3>4. Turns("ws")'
      BY <1>1, <3>2 DEF CallerOK, Turns
    <3>5. CallerOK("ws")'
      BY <1>1, <3>2, <3>3, <3>4, PlainArrives
    <3>6. Ws'
      BY <2>1, <2>2, <3>1 DEF Ws, InStop, Turn, GoesTo
    <3> QED
      BY <1>1, <2>1, <3>1, <3>2, <3>5, <3>6, QuietKeeps
  <2> QED
    BY <1>4, <2>3, <2>4 DEF StopStt
<1>5. CASE SttJoined
  <2>1. /\ loop = Idle /\ pc["ws"] = "join_stt" /\ lock' = Nobody
        /\ UNCHANGED <<llmVars, ttsTaskVars, replies, state>>
    BY <1>5 DEF SttJoined, Resumes
  <2>2. lock = "ws" /\ state = "ENDED"
    BY <1>1, <2>1 DEF CallerOK, Holds, Inv, Ws, GoesTo, InStop
  <2>3. \A d \in {"ws", "stt", "silence"} : pc'[d] = "done" /\ local'[d] = NoLocals
    BY <1>1, <1>5 DEF SttJoined, Placed
  <2>4. \A d \in Callers \ {"ws", "stt", "silence"} :
          pc'[d] = pc[d] /\ local'[d] = local[d] /\ stopping'[d] = stopping[d]
    BY <1>1, <1>5 DEF SttJoined, Join, Placed, TtsTypeOK
  <2>5. Frame({"ws", "stt", "silence"})
    BY <1>1, <2>1, <2>2, <2>4 DEF Frame
  <2>6. ASSUME NEW d \in {"ws", "stt", "silence"} PROVE CallerOK(d)'
    <3>1. pc'[d] \in Plain
      BY <2>3 DEF Plain, Pc, Section, InStop, Begins
    <3>2. local'[d].reply <= replies' /\ local'[d].ret = Idle
      BY <1>1, <2>3 DEF NoLocals, None
    <3>3. Turns(d)'
      BY <2>3, <3>2 DEF Turns, Turn, Idle
    <3> QED
      BY <1>1, <3>1, <3>2, <3>3, PlainArrives
  <2>7. \A d \in Callers : CallerOK(d)'
    <3>1. {"ws", "stt", "silence"} \in SUBSET Callers
      BY <1>1
    <3> QED
      BY <1>1, <2>5, <2>6, <3>1, Others DEF Inv
  <2>8. Ws'
    BY <2>1, <2>2, <2>3 DEF Ws, InStop, Turn
  <2>9. Ended'
    BY <2>1, <2>3 DEF Ended
  <2>10. Sound'
    BY <2>1 DEF Inv, Sound, Framed, OneVoice, Latest, Over, Muted, Numbers, TtsRuns, Audible,
                Speaking, Generates, Waiting, llmVars, ttsTaskVars
  <2> QED
    BY <1>1, <2>7, <2>8, <2>9, <2>10 DEF Inv
<1> QED
  BY <1>2, <1>3, <1>4, <1>5 DEF WsStep
\* A suspended task is sent to a plain step; its locals name no other reply.
LEMMA SentKeeps ==
  ASSUME Inv, TypeOK', NEW c \in Callers, loop = Idle, c = "stt" => pc[c] # "done",
         UNCHANGED <<llmVars, ttsVars, replies, state, lock>>,
         pc'[c] \in Plain, pc'[c] \in Turn => c = "stt",
         \A d \in Callers \ {c} : pc'[d] = pc[d] /\ local'[d] = local[d],
         local'[c].reply = local[c].reply, local'[c].ret = local[c].ret, c = "ws" => Ws'
  PROVE  Inv'
<1>1. CallerOK(c) /\ replies' = replies
  BY DEF Inv
<1>2. Turns(c)' /\ local'[c].reply <= replies'
  BY <1>1 DEF CallerOK, Turns, Numbered
<1>3. CallerOK(c)'
  BY <1>2, PlainArrives
<1> QED
  BY <1>3, QuietKeeps

LEMMA EnvironmentKeeps ==
  ASSUME Inv, Environment
  PROVE  Inv'
<1>1. /\ TypeOK' /\ TypeOK /\ Placed /\ TtsTypeOK /\ LlmTypeOK /\ Framed
      /\ "ws" \in Callers /\ "stt" \in Callers /\ "silence" \in Callers
      /\ replies \in Nat
  BY EnvironmentTypes, TypedStep, TypeParts, Counts, Names DEF Inv, Sound
<1>2. {"partial", "final", "recover", "done", "media", "stop"} \subseteq Plain
  BY DEF Plain, Pc, LockPoints, Section, InStop, Begins
<1>3. CASE Start
  <2>1. /\ loop = Idle /\ state = "CONNECTING" /\ state' = "LISTENING"
        /\ UNCHANGED <<llmVars, ttsVars, pc, local, replies, lock>>
    BY <1>3 DEF Start, Resumes, conversationVars
  <2>2. TtsCalm /\ StaysWaiting /\ LlmCalm /\ stopping' = stopping
    BY <1>1, <2>1, TtsCalms, LlmCalms DEF ttsVars
  <2>3. Calm({})
    BY <1>1, <2>1, <2>2 DEF Calm
  <2> QED
    BY <1>1, <2>3, CalmKeeps
<1>4. CASE MediaArrives \/ HangUp
  <2>1. /\ loop = Idle /\ UNCHANGED <<llmVars, ttsVars, local, replies, state, lock>>
        /\ RunsOn("ws", "media") \/ RunsOn("ws", "stop")
    BY <1>4 DEF MediaArrives, HangUp, Resumes, conversationVars, callVars
  <2>2. pc'["ws"] \in {"media", "stop"} /\ \A d \in Callers \ {"ws"} : pc'[d] = pc[d]
    BY <1>1, <2>1, MovesOne
  <2>3. Ws' /\ pc'["ws"] \notin Turn
    BY <2>2 DEF Ws, InStop, Turn, GoesTo
  <2> QED
    BY <1>1, <1>2, <2>1, <2>2, <2>3, SentKeeps
<1>5. ASSUME NEW kind \in {"partial", "final"}, NEW t \in CallTexts, TranscriptArrives(kind, t)
      PROVE  Inv'
  <2>1. /\ loop = Idle /\ UNCHANGED <<llmVars, ttsVars, replies, state, lock>>
        /\ pc["stt"] = Idle /\ local' = [local EXCEPT !["stt"].text = t] /\ RunsOn("stt", kind)
    BY <1>5 DEF TranscriptArrives, Resumes, callVars
  <2>2. pc'["stt"] = kind /\ \A d \in Callers \ {"stt"} : pc'[d] = pc[d]
    BY <1>1, <2>1, MovesOne
  <2>3. /\ local'["stt"].reply = local["stt"].reply /\ local'["stt"].ret = local["stt"].ret
        /\ \A d \in Callers \ {"stt"} : local'[d] = local[d]
    BY <1>1, <2>1 DEF Placed, Locals
  <2>4. pc["stt"] # "done"
    BY <2>1 DEF Idle
  <2> QED
    BY <1>1, <1>2, <2>1, <2>2, <2>3, <2>4, SentKeeps
<1>6. ASSUME NEW c \in Callers \ {"ws", "stt"}, NEW to \in {"recover", "done"}, loop = Idle,
             RunsOn(c, to) \/ Suspends(c, to),
             UNCHANGED <<llmVars, ttsVars, local, replies, state, lock>>
      PROVE  Inv'
  <2>1. pc'[c] = to /\ \A d \in Callers \ {c} : pc'[d] = pc[d]
    BY <1>1, <1>6, MovesOne
  <2>2. pc'[c] \notin Turn
    BY <2>1 DEF Turn
  <2> QED
    BY <1>1, <1>2, <1>6, <2>1, <2>2, SentKeeps
<1>7. ASSUME NEW t \in Spawned, OnSttError(t) PROVE Inv'
  <2>1. t \in Callers \ {"ws", "stt"}
    BY CallAssumption
  <2> QED
    BY <1>6, <1>7, <2>1 DEF OnSttError, Resumes, conversationVars, callVars
<1>8. ASSUME NEW t \in Spawned, NEW r \in Reply, Watchdog(t, r) PROVE Inv'
  <2>1. t \in Callers /\ t # "ws" /\ t # "stt"
    BY CallAssumption
  <2>2. /\ loop = Idle /\ Cancel /\ RunsOn(t, "recover")
        /\ UNCHANGED <<ttsVars, local, replies, state, lock>>
    BY <1>8 DEF Watchdog, Resumes, conversationVars
  <2>3. TtsCalm /\ StaysWaiting /\ LlmCalm /\ stopping' = stopping
    BY <1>1, <2>2, TtsCalms, LlmCalms DEF ttsVars
  <2>4. pc'[t] = "recover" /\ \A d \in Callers \ {t} : pc'[d] = pc[d]
    BY <1>1, <2>1, <2>2, MovesOne
  <2>5. CallerOK(t) /\ replies' = replies
    BY <2>1, <2>2 DEF Inv
  <2>6. Turns(t)' /\ local'[t].reply <= replies'
    BY <2>2, <2>4, <2>5 DEF CallerOK, Turns, Turn, Numbered
  <2>7. CallerOK(t)'
    BY <1>2, <2>1, <2>4, <2>6, PlainArrives
  <2>8. Calm({t})
    BY <1>1, <2>1, <2>2, <2>3, <2>4 DEF Calm
  <2> QED
    BY <1>1, <2>1, <2>7, <2>8, CalmKeeps
<1>9. CASE SilencePrompt
  <2>1. /\ loop = Idle /\ lock = Nobody /\ state = "LISTENING" /\ lock' = "silence"
        /\ Stops("silence", "unlock_say") /\ UNCHANGED <<llmVars, replies, state>>
    BY <1>9 DEF SilencePrompt, Resumes
  <2>2. Lawful("silence", "unlock_say") /\ replies' >= replies
    BY <1>1, <2>1 DEF Lawful, Section
  <2>3. /\ CallerOK("silence")'
        /\ \A d \in Callers \ {"silence"} :
             pc'[d] = pc[d] /\ local'[d] = local[d] /\ stopping'[d] = stopping[d]
        /\ TtsCalm /\ StaysWaiting
    BY <1>1, <2>1, <2>2, StopArrives
  <2>4. LlmCalm
    BY <1>1, <2>1, LlmCalms
  <2>5. Calm({"silence"})
    BY <2>1, <2>2, <2>3, <2>4 DEF Calm
  <2> QED
    BY <1>1, <2>3, <2>5, CalmKeeps
<1>10. CASE SilenceHangup
  BY <1>1, <1>6, <1>10 DEF SilenceHangup, Resumes, conversationVars
<1>11. ASSUME NEW r \in Reply, LlmFault(r) \/ TtsFault(r) PROVE Inv'
  <2>1. /\ loop = Idle /\ UNCHANGED <<pc, local, replies, state, lock>>
        /\ UNCHANGED llmVars \/ LlmTaskStep(r)
        /\ UNCHANGED ttsVars \/ TtsTaskStep(r)
    BY <1>11 DEF LlmFault, TtsFault, conversationVars, callVars, LlmTaskStep, TtsTaskStep
  <2>2. LlmCalm
    BY <1>1, <2>1, LlmCalms
  <2>3. TtsCalm /\ StaysWaiting /\ stopping' = stopping
    BY <1>1, <2>1, TtsCalms, TtsTaskCalms DEF ttsVars
  <2>4. Calm({})
    BY <1>1, <2>1, <2>2, <2>3 DEF Calm
  <2> QED
    BY <1>1, <2>4, CalmKeeps
<1>12. ASSUME NEW r \in Reply, SendFails(r) PROVE Inv'
  <2>1. TtsCaller[r] \in Callers \ {"ws", "stt"}
    BY CallAssumption
  <2> QED
    BY <1>6, <1>12, <2>1 DEF SendFails, conversationVars, callVars
<1> QED
  <2>1. "Blank" \in CallTexts
    BY DEF CallTexts
  <2> QED
    BY <1>3, <1>4, <1>5, <1>7, <1>8, <1>9, <1>10, <1>11, <1>12, <2>1 DEF Environment

-----------------------------------------------------------------------------
(* The tasks of a reply *)

LEMMA LlmTaskKeeps ==
  ASSUME Inv, NEW r \in Reply, LlmTask(r)
  PROVE  Inv'
<1>1. /\ TypeOK' /\ TypeOK /\ Placed /\ TtsTypeOK /\ LlmTypeOK /\ Framed
      /\ LlmCaller[r] \in Callers \ {"ws", "stt"}
      /\ replies \in Nat /\ replies' = replies /\ replies' >= replies
  <2>1. TypeOK' /\ TypeOK /\ Placed /\ TtsTypeOK /\ LlmTypeOK /\ Framed
    BY LlmTaskTypes, TypedStep, TypeParts DEF Inv, Sound
  <2>2. LlmCaller[r] \in Callers \ {"ws", "stt"}
    BY CallAssumption
  <2>3. replies \in Nat /\ replies' = replies
    BY <2>1, Counts DEF LlmTask, LlmStep, OnLlmSegment, LlmNoSegment, OnComplete, LlmRecovered,
                        LlmAborted, conversationVars
  <2> QED
    BY <2>1, <2>2, <2>3
<1>2. LlmCalm
  <2>1. LlmTaskStep(r)
    BY DEF LlmTask, LlmStep, OnLlmSegment, LlmNoSegment, OnComplete, LlmRecovered, LlmAborted,
           LlmTaskStep
  <2> QED
    BY <1>1, <2>1, LlmCalms
<1>3. CASE LlmStep(r) \/ LlmNoSegment(r)
  <2>1. loop = Idle /\ UNCHANGED <<ttsVars, pc, local, state, lock>>
    BY <1>3 DEF LlmStep, LlmNoSegment, conversationVars, callVars
  <2>2. TtsCalm /\ StaysWaiting /\ stopping' = stopping
    BY <1>1, <2>1, TtsCalms DEF ttsVars
  <2>3. Calm({})
    BY <1>1, <1>2, <2>1, <2>2 DEF Calm
  <2> QED
    BY <1>1, <2>3, CalmKeeps
<1>4. CASE OnLlmSegment(r)
  <2>1. loop = Idle /\ lock = Nobody /\ UNCHANGED <<pc, local, lock>>
    BY <1>4 DEF OnLlmSegment, conversationVars
  <2>2. CASE state \in Busy
    <3>1. state' = "SPEAKING" /\ Speak(r) /\ state # "ENDED"
      BY <1>4, <2>2 DEF OnLlmSegment, Busy
    <3>2. TtsCalm /\ stopping' = stopping
      BY <1>1, <3>1, SpeakCalms DEF Speak
    <3>3. Calm({})
      BY <1>1, <1>2, <2>1, <3>1, <3>2 DEF Calm
    <3> QED
      BY <1>1, <3>3, CalmKeeps
  <2>3. CASE state \notin Busy
    <3>1. UNCHANGED <<ttsVars, state>>
      BY <1>4, <2>3 DEF OnLlmSegment
    <3>2. TtsCalm /\ StaysWaiting /\ stopping' = stopping
      BY <1>1, <3>1, TtsCalms DEF ttsVars
    <3>3. Calm({})
      BY <1>1, <1>2, <2>1, <3>1, <3>2 DEF Calm
    <3> QED
      BY <1>1, <3>3, CalmKeeps
  <2> QED
    BY <2>2, <2>3
<1>5. CASE OnComplete(r)
  <2>1. loop = Idle /\ UNCHANGED <<state, lock>> /\ (UNCHANGED ttsVars \/ Finish)
    BY <1>5 DEF OnComplete
  <2>2. TtsCalm /\ StaysWaiting /\ stopping' = stopping
    BY <1>1, <2>1, TtsCalms DEF ttsVars, Finish
  <2>3. CASE UNCHANGED <<pc, local>>
    <3>1. Calm({})
      BY <1>1, <1>2, <2>1, <2>2, <2>3 DEF Calm
    <3> QED
      BY <1>1, <3>1, CalmKeeps
  <2>4. ASSUME NEW c \in Callers \ {"ws", "stt"}, RunsOn(c, "recover"),
               local' = [local EXCEPT ![c].ret = "returned"]
        PROVE  Inv'
    <3>1. pc'[c] = "recover" /\ \A d \in Callers \ {c} : pc'[d] = pc[d]
      BY <1>1, <2>4, MovesOne
    <3>2. /\ local'[c].reply = local[c].reply /\ local'[c].ret = "returned"
          /\ \A d \in Callers \ {c} : local'[d] = local[d]
      BY <1>1, <2>4 DEF Placed, Locals
    <3>3. pc'[c] \in Plain
      BY <3>1 DEF Plain, Pc, LockPoints, Section, InStop, Begins
    <3>4. local'[c].reply <= replies'
      BY <1>1, <3>2 DEF Inv, CallerOK, Numbered
    <3>5. Turns(c)'
      BY <3>1, <3>2 DEF Turns, Turn
    <3>6. CallerOK(c)'
      BY <3>3, <3>4, <3>5, PlainArrives
    <3>7. Calm({c})
      BY <1>1, <1>2, <2>1, <2>2, <3>1, <3>2 DEF Calm
    <3> QED
      BY <1>1, <3>6, <3>7, CalmKeeps
  <2> QED
    BY <1>1, <1>5, <2>3, <2>4 DEF OnComplete
<1>6. CASE LlmRecovered(r) \/ LlmAborted(r)
  <2> SUFFICES ASSUME NEW c \in Callers \ {"ws", "stt"}, c = LlmCaller[r]
               PROVE  Inv'
    BY <1>1
  <2>1. /\ loop \in {c, Idle} /\ Returns(c) /\ state' = state
        /\ UNCHANGED ttsVars \/ StopEnds(c)
        /\ lock' = lock \/ lock = c
    BY <1>6 DEF LlmRecovered, LlmAborted, Aborts, Continues, Resumes, callVars
  <2>2. TtsCalm /\ StaysWaiting
    BY <1>1, <2>1, TtsCalms
  <2>3. \A d \in Callers \ {c} : stopping'[d] = stopping[d]
    BY <1>1, <2>1 DEF StopEnds, ttsVars, TtsTypeOK
  <2>4. /\ CallerOK(c)'
        /\ \A d \in Callers \ {c} : pc'[d] = pc[d] /\ local'[d] = local[d]
    BY <1>1, <2>1, ReturnArrives
  <2>5. lock = c => state # "ENDED"
    BY HolderAlive
  <2>6. Calm({c})
    BY <1>1, <1>2, <2>1, <2>2, <2>3, <2>4, <2>5 DEF Calm
  <2> QED
    BY <1>1, <2>4, <2>6, CalmKeeps
<1> QED
  BY <1>3, <1>4, <1>5, <1>6 DEF LlmTask

LEMMA TtsTaskKeeps ==
  ASSUME Inv, NEW r \in Reply, TtsTask(r)
  PROVE  Inv'
<1>1. /\ TypeOK' /\ TypeOK /\ Placed /\ TtsTypeOK /\ LlmTypeOK /\ Framed
      /\ TtsCaller[r] \in Callers \ {"ws", "stt"}
      /\ replies \in Nat /\ replies' = replies /\ replies' >= replies
  <2>1. TypeOK' /\ TypeOK /\ Placed /\ TtsTypeOK /\ LlmTypeOK /\ Framed
    BY TtsTaskStepTypes, TypeParts DEF Inv, Sound
  <2>2. TtsCaller[r] \in Callers \ {"ws", "stt"}
    BY CallAssumption
  <2>3. replies \in Nat /\ replies' = replies
    BY <2>1, Counts DEF TtsTask, TtsStep, SendAudioFrame, TtsAborted, OnTtsPlaybackEnd,
                        BackToListening, conversationVars
  <2> QED
    BY <2>1, <2>2, <2>3
<1>2. LlmCalm
  <2>1. UNCHANGED llmVars
    BY DEF TtsTask, TtsStep, SendAudioFrame, TtsAborted, OnTtsPlaybackEnd, BackToListening
  <2> QED
    BY <1>1, <2>1, LlmCalms
<1>3. CASE TtsStep(r) \/ SendAudioFrame(r) \/ OnTtsPlaybackEnd(r)
  <2>1. loop = Idle /\ UNCHANGED <<pc, local, state, lock>>
    BY <1>3 DEF TtsStep, SendAudioFrame, OnTtsPlaybackEnd, conversationVars, callVars
  <2>2. TtsTaskStep(r)
    <3>1. CASE TtsStep(r) \/ SendAudioFrame(r)
      BY <3>1 DEF TtsStep, SendAudioFrame, TtsTaskStep
    <3>2. CASE OnTtsPlaybackEnd(r)
      <4>1. (~tts_interrupted[r]) \in BOOLEAN /\ TtsPlaybackEnds(r, ~tts_interrupted[r])
        BY <3>2 DEF OnTtsPlaybackEnd
      <4> QED
        BY <4>1 DEF TtsTaskStep
    <3> QED
      BY <1>3, <3>1, <3>2
  <2>3. TtsCalm /\ StaysWaiting /\ stopping' = stopping
    BY <1>1, <2>2, TtsTaskCalms
  <2>4. Calm({})
    BY <1>1, <1>2, <2>1, <2>3 DEF Calm
  <2> QED
    BY <1>1, <2>4, CalmKeeps
<1>4. CASE BackToListening(r)
  <2>1. /\ loop = Idle /\ lock = Nobody /\ UNCHANGED <<pc, local, lock>> /\ TtsReturns(r)
        /\ state' = state \/ (state \in Busy /\ state' = "LISTENING")
    BY <1>4 DEF BackToListening
  <2>2. TtsCalm /\ StaysWaiting /\ stopping' = stopping /\ TtsRuns(r)
    BY <1>1, <2>1, TtsTaskCalms DEF TtsTaskStep
  <2>3. Silent'
    <3>1. tts_pc'[r] = "done"
      BY <1>1, <2>1 DEF TtsReturns, TtsDone, TtsTypeOK
    <3>2. r = tts_task
      BY <2>2 DEF Inv, Sound, OneVoice
    <3>3. \A s \in Reply : TtsRuns(s)' => s = tts_task
      BY <2>2 DEF TtsCalm, Inv, Sound, OneVoice
    <3> QED
      BY <3>1, <3>2, <3>3 DEF Silent, TtsRuns
  <2>4. Calm({})
    BY <1>1, <1>2, <2>1, <2>2, <2>3 DEF Calm, Busy
  <2> QED
    BY <1>1, <2>4, CalmKeeps
<1>5. CASE TtsAborted(r)
  <2> SUFFICES ASSUME NEW c \in Callers \ {"ws", "stt"}, c = TtsCaller[r]
               PROVE  Inv'
    BY <1>1
  <2>1. /\ loop = Idle /\ Returns(c) /\ state' = state
        /\ lock' = lock \/ lock = c
        /\ stopping' = [stopping EXCEPT ![c] = NoStop]
    BY <1>5 DEF TtsAborted, Aborts, Resumes
  <2>2. TtsCalm /\ StaysWaiting
    BY <1>1, <1>5
       DEF TtsAborted, TtsTypeOK, TtsCalm, StaysWaiting, Framed, TtsRuns, Audible, Speaking, Waiting
  <2>3. \A d \in Callers \ {c} : stopping'[d] = stopping[d]
    BY <1>1, <2>1 DEF TtsTypeOK
  <2>4. /\ CallerOK(c)'
        /\ \A d \in Callers \ {c} : pc'[d] = pc[d] /\ local'[d] = local[d]
    BY <1>1, <2>1, ReturnArrives
  <2>5. lock = c => state # "ENDED"
    BY HolderAlive
  <2>6. Calm({c})
    BY <1>1, <1>2, <2>1, <2>2, <2>3, <2>4, <2>5 DEF Calm
  <2> QED
    BY <1>1, <2>4, <2>6, CalmKeeps
<1> QED
  BY <1>3, <1>4, <1>5 DEF TtsTask
-----------------------------------------------------------------------------
(* The theorems *)

LEMMA InitInv == Init => Inv
<1> SUFFICES ASSUME Init PROVE Inv
  OBVIOUS
<1>1. <<>> \in Seq(Reply \cup {None}) /\ <<>> \in Seq({"user", "assistant"} \X Reply)
      /\ Len(<<>>) = 0
  OBVIOUS
<1>2. LlmTypeOK
  <2>1. 0 \in 0..MaxTokens
    BY TokensAssumption
  <2> QED
    BY <2>1 DEF Init, ConversationInit, LlmInit, LlmTypeOK, LlmPc
<1>3. TtsTypeOK
  <2>1. 0 \in 0..MaxAudio
    BY AudioAssumption
  <2> QED
    BY <1>1, <2>1 DEF Init, ConversationInit, TtsInit, TtsTypeOK, TtsPc, NoStop
<1>4. Placed
  <2>1. NoLocals \in Locals /\ Idle \in Pc
    BY DEF NoLocals, Locals, Texts, Pc
  <2> QED
    BY <2>1 DEF Init, ConversationInit, Placed
<1>5. Flags
  <2>1. 0 <= 2 * HistoryTurns /\ 0 \in 0..MaxReplies
    BY HistoryAssumption, RepliesAssumption
  <2>2. 0 \in 0..MaxTurns /\ 0 \in 0..MaxEvents /\ 0 \in 0..MaxFaults
    BY CallAssumption
  <2> QED
    BY <1>1, <2>1, <2>2 DEF Init, ConversationInit, Flags, State
<1>6. TypeOK
  BY <1>2, <1>3, <1>4, <1>5, TypeParts
<1>7. /\ \A c \in Callers : pc[c] = Idle /\ local[c] = NoLocals
      /\ replies = 0 /\ state = "CONNECTING"
      /\ \A r \in Reply : tts_pc[r] = "none" /\ llm_pc[r] = "none" /\ ~tts_frames[r]
  BY DEF Init, ConversationInit, LlmInit, TtsInit
<1>8. ASSUME NEW c \in Callers PROVE CallerOK(c)
  <2>1. pc[c] = Idle /\ local[c].reply = 0 /\ local[c].ret = Idle /\ GoesTo(c) = Idle
    BY <1>7 DEF NoLocals, None, GoesTo, InStop, Idle
  <2> QED
    BY <1>7, <2>1 DEF CallerOK, Holds, Stopping, InSection, Beginning, Numbered, Turns, Section,
                      InStop, Begins, Turn, Idle
<1>9. Ws /\ Ended
  <2>1. pc["ws"] = Idle
    BY <1>7, Names
  <2> QED
    BY <1>7, <2>1 DEF Ws, Ended, GoesTo, InStop, Turn, Idle
<1>10. Sound
  BY <1>7 DEF Sound, Framed, OneVoice, Latest, Over, Muted, Numbers, TtsRuns, Audible, Speaking,
              Generates
<1> QED
  BY <1>6, <1>8, <1>9, <1>10 DEF Inv

LEMMA NextInv == Inv /\ [Next]_vars => Inv'
<1> SUFFICES ASSUME Inv, [Next]_vars PROVE Inv'
  OBVIOUS
<1>1. CASE UNCHANGED vars
  <2>1. /\ UNCHANGED <<llmVars, ttsVars, loop, pc, local, replies, state, lock>>
        /\ UNCHANGED <<stateVars, history, outbound_muted, watching, silenceVars, budget>>
    BY <1>1 DEF vars, conversationVars, callVars
  <2>2. TypeOK'
    <3>1. Placed' /\ Flags'
      BY <2>1, TypeParts DEF Inv, Placed, Flags, stateVars, silenceVars, budget
    <3> QED
      BY <2>1, <3>1, TypedStep DEF Inv, Typed, LlmOperation, TtsOperation
  <2>3. (\A c \in Callers : CallerOK(c)') /\ Ws' /\ Ended'
    BY <2>1 DEF Inv, CallerOK, Holds, Stopping, InSection, Beginning, Numbered, Turns, Ws, Ended,
                GoesTo, Silent, TtsRuns, llmVars, ttsVars, ttsTaskVars
  <2>4. Sound'
    BY <2>1 DEF Inv, Sound, Framed, OneVoice, Latest, Over, Muted, Numbers, TtsRuns, Audible,
                Speaking, Generates, Waiting, llmVars, ttsVars, ttsTaskVars
  <2> QED
    BY <2>2, <2>3, <2>4 DEF Inv
<1>2. CASE Next
  BY <1>2, EnvironmentKeeps, CallerKeeps, WsKeeps, LlmTaskKeeps, TtsTaskKeeps DEF Next, System
<1> QED
  BY <1>1, <1>2

\* The inductive invariant of a call: the discipline of its lock, and what it
\* guarantees about the replies being spoken and generated.
THEOREM Invariance == Spec => []Inv
BY InitInv, NextInv, PTL DEF Spec

\* Two replies of a call are never spoken at once, whichever of its tasks begin
\* them and whoever interrupts them (TTSConsumer.begin, stop).
THEOREM OneVoiceOnly == Spec => []OneReplyAtATime
<1>1. Inv => OneReplyAtATime
  BY DEF Inv, Sound, OneVoice, OneReplyAtATime, Speaking, TtsRuns
<1> QED
  BY <1>1, Invariance, PTL

\* In LISTENING and STREAMING no answer to an earlier turn is being spoken
\* (_handle_barge_in, _handle_pipeline_error, _on_tts_playback_end).
THEOREM ListeningQuiet == Spec => []ListeningIsQuiet
<1>1. Inv => ListeningIsQuiet
  BY DEF Inv, Sound, Muted, Waiting, ListeningIsQuiet
<1> QED
  BY <1>1, Invariance, PTL

\* Once stop has returned nothing speaks or generates (CallSession.stop).
THEOREM OverQuiet == Spec => []CallOverIsQuiet
<1>1. Inv => CallOverIsQuiet
  BY DEF Inv, Ws, Sound, Over, CallOverIsQuiet, GoesTo, InStop
<1> QED
  BY <1>1, Invariance, PTL

\* The table of _apply_transition.
Table == ({"LISTENING"} \X {"STREAMING", "PROCESSING"}) \cup
         ({"CONNECTING", "PROCESSING", "SPEAKING"} \X {"LISTENING"}) \cup
         {<<"PROCESSING", "SPEAKING">>} \cup ((State \ {"ENDED"}) \X {"ENDED"})

LEMMA Transitions ==
  ASSUME Inv, Next, state' # state
  PROVE  <<state, state'>> \in Table
<1> USE DEF Busy, Table
<1>1. state \in State
  BY DEF Inv, TypeOK
<1>2. CASE Environment
  BY <1>2 DEF Environment, Start, MediaArrives, HangUp, TranscriptArrives, OnSttError,
                    Watchdog, SilencePrompt, SilenceHangup, LlmFault, TtsFault, SendFails, callVars
<1>3. ASSUME NEW c \in Callers, CallerStep(c) PROVE <<state, state'>> \in Table
  <2>1. CASE BargedIn(c)
    <3>1. state \in Busy /\ state' = "LISTENING"
      BY <2>1 DEF BargedIn, Continues, Inv, CallerOK, Beginning, GoesTo, InStop
    <3> QED
      BY <3>1
  <2>2. CASE OnUserTurnStarted(c) \/ OnUserTurnCompleted(c) \/ Recovered(c)
    BY <2>2 DEF OnUserTurnStarted, OnUserTurnCompleted, Recovered
  <2> QED
    BY <1>3, <2>1, <2>2
       DEF CallerStep, TurnStep, WaitsForLock, Gathered, ClearSent, ProcessPartial,
           ProcessFinal, HandleInterruption, StartTurn, WholeTurn, CompleteTurn,
           OnSystemTurnStart, SystemTurnOn, BeginReply, ReplyBegun, HandleBargeIn,
           HandlePipelineError, PlayFallbackTts, UnlockSay, Say, Said, callVars
<1>4. CASE WsStep
  BY <1>1, <1>4 DEF WsStep, FeedMulaw, Stop, StopStt, SttJoined, callVars
<1>5. ASSUME NEW r \in Reply, LlmTask(r) PROVE <<state, state'>> \in Table
  BY <1>5 DEF LlmTask, LlmStep, OnLlmSegment, LlmNoSegment, OnComplete, LlmRecovered,
                    LlmAborted, callVars
<1>6. ASSUME NEW r \in Reply, TtsTask(r) PROVE <<state, state'>> \in Table
  BY <1>6 DEF TtsTask, TtsStep, SendAudioFrame, TtsAborted, OnTtsPlaybackEnd,
                    BackToListening, callVars
<1> QED
  BY <1>2, <1>3, <1>4, <1>5, <1>6 DEF Next, System

\* Every change of the call's state is one that the table of _apply_transition allows.
THEOREM TransitionsAllowed == Spec => AllowedTransitions
<1>1. Inv /\ [Next]_vars => [state' # state => <<state, state'>> \in Table]_vars
  BY Transitions DEF vars, callVars
<1> QED
  BY <1>1, Invariance, PTL DEF Spec, AllowedTransitions, Table
-----------------------------------------------------------------------------
(* Why a call is never stuck, unless something failed *)

\* The steps that lead to a reply, and the number it was given.
Opens == {"system_turn", "system_turn_on", "begin", "begun", "said"}
Opening(c) == GoesTo(c) \in Opens
Used(r) == llm_pc[r] # "none" \/ tts_pc[r] # "none"

Fresh ==
  /\ \A c \in Callers : Opening(c) => local[c].reply \in 1..replies /\ ~Used(local[c].reply)
  /\ \A c, d \in Callers :
       Opening(c) /\ Opening(d) /\ local[c].reply = local[d].reply => c = d
  /\ \A r \in Reply : Used(r) => r <= replies

\* Neither task of a reply that is not begun has been cancelled; a generation that
\* was not cut short has no other outcome.
Unused(r) ==
  /\ llm_pc[r] = "none" => ~llm_cancelled[r]
  /\ tts_pc[r] = "none" => ~tts_cancelled[r] /\ ~tts_interrupted[r]
  /\ llm_pc[r] \in {"none", "new", "stream", "partial", "final"} => llm_outcome[r] = "completed"

\* Neither task of a reply runs the recovery.
NoRecovery(r) ==
  pc[LlmCaller[r]] = Idle /\ pc[TtsCaller[r]] = Idle /\ llm_outcome[r] # "failed"

Switches == {"system_turn", "system_turn_on", "barge", "barged"}

\* A busy call is in the system's turn, or the recogniser's task is about to start
\* or to end it; so the user's turn is started only in a call that is not busy.
\* That task does nothing else, and the endpoint does not process transcripts.
SttTurn ==
  /\ state \in Busy => is_system_speaking \/ GoesTo("stt") \in Switches
  /\ pc["stt"] \in {"started", "whole", "started_lock"} => state \notin Busy
  /\ GoesTo("stt") \in Turn \cup Switches \cup {Idle, "begin", "begun"}
  /\ local["stt"].ret # "returned"

SystemTurn == SttTurn /\ pc["ws"] \in {Idle, "media", "stop"}

\* The reply's speech comes to its regular end by itself.
WillEnd(r) ==
  /\ ~tts_cancelled[r] /\ ~tts_interrupted[r]
  /\ \/ Early(r) /\ (HasEnd(tts_queue[r]) \/ (llm_task \in Reply /\ Generates(llm_task)))
     \/ tts_pc[r] \in {"drain", "end", "metrics", "playback_end"}

\* The steps of a task that will begin a reply or end the system's turn.
Bound == Opens \cup {"recover", "recovered", "barged", "unlock_say", "say"}

Working ==
  state \in Busy =>
    (\E c \in Callers : GoesTo(c) \in Bound) \/ (tts_task \in Reply /\ WillEnd(tts_task))

Healthy == Fresh /\ (\A r \in Reply : Unused(r) /\ NoRecovery(r)) /\ SystemTurn /\ Working

Alive == faults = 0 /\ state # "ENDED" => Healthy

\* The steps of task c in a call that is not over and in which nothing failed.
LiveStep(c) ==
  \/ CallerStep(c)
  \/ c = "stt" /\ \E kind \in {"partial", "final"}, t \in CallTexts : TranscriptArrives(kind, t)
  \/ c \in Spawned /\ \E r \in Reply : Watchdog(c, r)
  \/ c = "silence" /\ (SilencePrompt \/ SilenceHangup)
  \/ c = "ws" /\ (Start \/ MediaArrives \/ HangUp)

\* Those of the tasks of reply r.
LlmWorks(r) ==
  \/ LlmStep(r) \/ OnLlmSegment(r) \/ LlmNoSegment(r)
  \/ OnComplete(r) /\ llm_outcome[r] # "failed"
TtsWorks(r) == TtsStep(r) \/ SendAudioFrame(r) \/ OnTtsPlaybackEnd(r) \/ BackToListening(r)

LEMMA LiveSteps ==
  ASSUME Inv, Healthy, state # "ENDED", state' # "ENDED", faults = 0, faults' = 0, Next
  PROVE  \/ \E c \in Callers : LiveStep(c)
         \/ FeedMulaw
         \/ \E r \in Reply : LlmWorks(r) \/ TtsWorks(r)
<1>1. ~Fault
  BY DEF Fault
<1>2. \A r \in Reply : NoRecovery(r)
  BY DEF Healthy
<1>3. CASE Environment
  <2>1. CASE Start \/ MediaArrives \/ HangUp
    BY <2>1, Names DEF LiveStep
  <2>2. CASE TranscriptArrives("partial", "Blank") \/ \E t \in CallTexts : TranscriptArrives("final", t)
    BY <2>2, Names DEF LiveStep, CallTexts
  <2>3. CASE SilencePrompt \/ SilenceHangup
    BY <2>3, Names DEF LiveStep
  <2>4. CASE \E t \in Spawned, r \in Reply : Watchdog(t, r)
    BY <2>4, Names DEF LiveStep
  <2> QED
    BY <1>1, <1>3, <2>1, <2>2, <2>3, <2>4 DEF Environment, OnSttError, LlmFault, TtsFault, SendFails
<1>4. CASE \E c \in Callers : CallerStep(c)
  BY <1>4 DEF LiveStep
<1>5. CASE WsStep
  <2>1. ~Stop
    BY DEF Stop
  <2>2. ~StopStt /\ ~SttJoined
    BY DEF Healthy, SystemTurn, StopStt, SttJoined, Continues, Resumes, Idle
  <2> QED
    BY <1>5, <2>1, <2>2 DEF WsStep
<1>6. ASSUME NEW r \in Reply, LlmTask(r) PROVE LlmWorks(r)
  <2>1. ~LlmRecovered(r) /\ ~LlmAborted(r)
    BY <1>2 DEF NoRecovery, LlmRecovered, LlmAborted, Aborts, Continues, LockPoints, Idle
  <2> QED
    BY <1>2, <1>6, <2>1 DEF LlmTask, LlmWorks, NoRecovery
<1>7. ASSUME NEW r \in Reply, TtsTask(r) PROVE TtsWorks(r)
  <2>1. ~TtsAborted(r)
    BY <1>2 DEF NoRecovery, TtsAborted, Aborts, LockPoints, Idle
  <2> QED
    BY <1>7, <2>1 DEF TtsTask, TtsWorks
<1> QED
  BY <1>3, <1>4, <1>5, <1>6, <1>7 DEF Next, System

\* Task c runs alone.
Alone(c) ==
  \A d \in Callers \ {c} : pc'[d] = pc[d] /\ local'[d] = local[d] /\ GoesTo(d)' = GoesTo(d)

\* It may cancel what the consumers do, and begins nothing.
Quiet(c) ==
  /\ UNCHANGED llmVars \/ Cancel
  /\ UNCHANGED ttsVars \/ StopCancels(c) \/ StopEnds(c)

Starts(c) == ReplyBegun(c) \/ Said(c)

LEMMA LiveStepAlone ==
  ASSUME TypeOK, NEW c \in Callers, LiveStep(c)
  PROVE  /\ Alone(c) /\ faults' = faults
         /\ Quiet(c) \/ Starts(c)
<1>1. local \in [Callers -> Locals] /\ pc \in [Callers -> Pc]
  BY TypeParts DEF Placed
<1>2. ASSUME ReturnsTo(c) \/ Returns(c)
      PROVE  \A d \in Callers \ {c} : pc'[d] = pc[d] /\ local'[d] = local[d]
  BY <1>1, <1>2 DEF ReturnsTo, Returns, RunsOn, Suspends
<1>3. ASSUME NEW next, Stops(c, next)
      PROVE  /\ \A d \in Callers \ {c} : pc'[d] = pc[d] /\ local'[d] = local[d]
             /\ UNCHANGED ttsVars \/ StopCancels(c)
  BY <1>1, <1>3 DEF Stops, StopWaits, StopNeedless, RunsOn, Suspends
<1> SUFFICES /\ \A d \in Callers \ {c} : pc'[d] = pc[d] /\ local'[d] = local[d]
             /\ faults' = faults
             /\ Quiet(c) \/ Starts(c)
  BY DEF Alone, GoesTo
<1> USE <1>1 DEF Quiet, RunsOn, Suspends, budget, conversationVars, callVars
<1>4. CASE WaitsForLock(c)
  BY <1>4 DEF WaitsForLock
<1>5. CASE Gathered(c)
  BY <1>5 DEF Gathered, StopJoins, StopReturns
<1>6. CASE ClearSent(c)
  BY <1>6 DEF ClearSent, StopClears, StopReturns
<1>7. CASE ProcessPartial(c) \/ ProcessFinal(c)
  BY <1>2, <1>7 DEF ProcessPartial, ReceivePartial, ProcessFinal, ReceiveFinal
<1>8. CASE HandleInterruption(c) \/ StartTurn(c)
  BY <1>2, <1>8 DEF HandleInterruption, StartTurn
<1>9. CASE WholeTurn(c) \/ CompleteTurn(c)
  BY <1>9 DEF WholeTurn, CompleteTurn
<1>10. CASE OnUserTurnStarted(c)
  BY <1>2, <1>10 DEF OnUserTurnStarted
<1>11. CASE OnUserTurnCompleted(c)
  BY <1>2, <1>11 DEF OnUserTurnCompleted
<1>12. CASE OnSystemTurnStart(c)
  BY <1>3, <1>12 DEF OnSystemTurnStart
<1>13. CASE SystemTurnOn(c)
  BY <1>13 DEF SystemTurnOn
<1>14. CASE BeginReply(c)
  BY <1>3, <1>14 DEF BeginReply
<1>15. CASE Starts(c)
  BY <1>2, <1>15 DEF Starts, ReplyBegun, Said
<1>16. CASE HandleBargeIn(c)
  BY <1>2, <1>3, <1>16 DEF HandleBargeIn
<1>17. CASE BargedIn(c)
  BY <1>2, <1>17 DEF BargedIn
<1>18. CASE HandlePipelineError(c)
  BY <1>2, <1>3, <1>18 DEF HandlePipelineError
<1>19. CASE Recovered(c) \/ UnlockSay(c)
  BY <1>19 DEF Recovered, UnlockSay
<1>20. CASE PlayFallbackTts(c)
  BY <1>2, <1>3, <1>20 DEF PlayFallbackTts
<1>21. CASE Say(c)
  BY <1>21 DEF Say, StopWaits, StopNeedless
<1>22. CASE c = "stt" /\ \E kind \in {"partial", "final"}, t \in CallTexts : TranscriptArrives(kind, t)
  BY <1>22 DEF TranscriptArrives
<1>23. CASE c \in Spawned /\ \E r \in Reply : Watchdog(c, r)
  BY <1>23 DEF Watchdog
<1>24. CASE c = "silence" /\ SilencePrompt
  BY <1>3, <1>24 DEF SilencePrompt
<1>25. CASE c = "silence" /\ SilenceHangup
  BY <1>25 DEF SilenceHangup
<1>26. CASE c = "ws" /\ (Start \/ MediaArrives \/ HangUp)
  BY <1>26 DEF Start, MediaArrives, HangUp
<1> QED
  BY <1>4, <1>5, <1>6, <1>7, <1>8, <1>9, <1>10, <1>11, <1>12, <1>13, <1>14, <1>15, <1>16, <1>17,
     <1>18, <1>19, <1>20, <1>21, <1>22, <1>23, <1>24, <1>25, <1>26
     DEF LiveStep, CallerStep, TurnStep, Starts

\* A task opens the next reply, or goes on with the one it opened, or begins it.
LEMMA OpeningStep ==
  ASSUME Inv, NEW c \in Callers, LiveStep(c)
  PROVE  \/ /\ replies' = replies
            /\ Opening(c)' => Opening(c) /\ local'[c].reply = local[c].reply /\ ~Starts(c)
         \/ replies' = replies + 1 /\ local'[c].reply = replies + 1 /\ ~Starts(c)
<1>1. /\ local \in [Callers -> Locals] /\ pc \in [Callers -> Pc]
      /\ local[c].ret \in {Idle, "started", "whole", "complete", "returned"}
  BY TypeParts DEF Placed, Inv, CallerOK, Turns
<1> USE <1>1 DEF Opening, Opens, GoesTo, InStop, RunsOn, Suspends, Locals, Idle, Acquires, Resumes,
                 Continues, Starts, ReplyBegun, Said
<1>2. ASSUME ReturnsTo(c) \/ Returns(c) PROVE ~Opening(c)'
  BY <1>2 DEF ReturnsTo, Returns
<1>3. ASSUME NEW next, Stops(c, next), next \notin InStop
      PROVE  GoesTo(c)' = next /\ local'[c].reply = local[c].reply
  BY <1>3 DEF Stops, StopWaits
<1>4. CASE WaitsForLock(c)
  BY <1>4 DEF WaitsForLock, conversationVars, LockPoints
<1>5. CASE Gathered(c) \/ ClearSent(c)
  <2>1. UNCHANGED replies /\ pc[c] \in InStop /\ ~Starts(c)
    BY <1>5 DEF Gathered, ClearSent, StopJoins, StopClears
  <2>2. CASE StopReturns(c)
    <3>1. pc'[c] = local[c].after /\ local'[c].after = Idle /\ local'[c].reply = local[c].reply
      BY <2>2 DEF StopReturns
    <3> QED
      BY <2>1, <3>1
  <2>3. CASE Suspends(c, "clear") /\ UNCHANGED <<ttsVars, local>>
    BY <2>1, <2>3
  <2> QED
    BY <1>5, <2>1, <2>2, <2>3 DEF Gathered, ClearSent, StopJoins, StopClears
<1>6. CASE ProcessPartial(c) \/ ProcessFinal(c)
  BY <1>2, <1>6 DEF ProcessPartial, ReceivePartial, ProcessFinal, ReceiveFinal
<1>7. CASE HandleInterruption(c) \/ StartTurn(c)
  BY <1>2, <1>7 DEF HandleInterruption, StartTurn
<1>8. CASE WholeTurn(c) \/ CompleteTurn(c)
  BY <1>8 DEF WholeTurn, CompleteTurn
<1>9. CASE OnUserTurnStarted(c)
  BY <1>2, <1>9 DEF OnUserTurnStarted
<1>10. CASE OnUserTurnCompleted(c)
  BY <1>2, <1>10 DEF OnUserTurnCompleted
<1>11. CASE OnSystemTurnStart(c)
  BY <1>3, <1>11 DEF OnSystemTurnStart
<1>12. CASE SystemTurnOn(c)
  BY <1>12 DEF SystemTurnOn
<1>13. CASE BeginReply(c)
  BY <1>3, <1>13 DEF BeginReply
<1>14. CASE Starts(c)
  BY <1>2, <1>14
<1>15. CASE HandleBargeIn(c)
  BY <1>2, <1>3, <1>15 DEF HandleBargeIn
<1>16. CASE BargedIn(c)
  BY <1>2, <1>16 DEF BargedIn
<1>17. CASE HandlePipelineError(c)
  BY <1>2, <1>3, <1>17 DEF HandlePipelineError
<1>18. CASE Recovered(c) \/ UnlockSay(c)
  BY <1>18 DEF Recovered, UnlockSay, conversationVars
<1>19. CASE PlayFallbackTts(c)
  BY <1>2, <1>3, <1>19 DEF PlayFallbackTts
<1>20. CASE Say(c)
  BY <1>20 DEF Say
<1>21. CASE c = "stt" /\ \E kind \in {"partial", "final"}, t \in CallTexts : TranscriptArrives(kind, t)
  BY <1>21 DEF TranscriptArrives
<1>22. CASE c \in Spawned /\ \E r \in Reply : Watchdog(c, r)
  BY <1>22 DEF Watchdog, conversationVars
<1>23. CASE c = "silence" /\ SilencePrompt
  BY <1>3, <1>23 DEF SilencePrompt
<1>24. CASE c = "silence" /\ SilenceHangup
  BY <1>24 DEF SilenceHangup, conversationVars
<1>25. CASE c = "ws" /\ (Start \/ MediaArrives \/ HangUp)
  BY <1>25 DEF Start, MediaArrives, HangUp, conversationVars
<1> QED
  BY <1>4, <1>5, <1>6, <1>7, <1>8, <1>9, <1>10, <1>11, <1>12, <1>13, <1>14, <1>15, <1>16, <1>17,
     <1>18, <1>19, <1>20, <1>21, <1>22, <1>23, <1>24, <1>25
     DEF LiveStep, CallerStep, TurnStep

\* The reply that task c begins is its own, and has not been used.
LEMMA StartsFresh ==
  ASSUME Inv, Fresh, NEW c \in Callers, Starts(c)
  PROVE  /\ Opening(c) /\ local[c].reply \in Reply /\ ~Used(local[c].reply)
         /\ \/ Begin(local[c].reply, <<>>) /\ StartGeneration(local[c].reply)
            \/ Begin(local[c].reply, <<local[c].reply, None>>) /\ UNCHANGED llmVars
         /\ \A s \in Reply \ {local[c].reply} : Used(s)' <=> Used(s)
         /\ replies' = replies
<1>1. Opening(c)
  BY DEF Starts, ReplyBegun, Said, Continues, Opening, Opens, GoesTo, InStop
<1>2. local[c].reply \in 1..replies /\ ~Used(local[c].reply) /\ replies \in 0..MaxReplies
  BY <1>1 DEF Fresh, Inv, TypeOK, ConversationTypeOK
<1>3. local[c].reply \in Reply
  BY <1>2, RepliesAssumption DEF Reply
<1>4. /\ \/ Begin(local[c].reply, <<>>) /\ StartGeneration(local[c].reply)
         \/ Begin(local[c].reply, <<local[c].reply, None>>) /\ UNCHANGED llmVars
      /\ replies' = replies
  BY DEF Starts, ReplyBegun, Said
<1>5. \A s \in Reply \ {local[c].reply} : Used(s)' <=> Used(s)
  BY <1>3, <1>4, TypeParts DEF Inv, Used, Begin, StartGeneration, TtsTypeOK, LlmTypeOK, llmVars
<1> QED
  BY <1>1, <1>2, <1>3, <1>4, <1>5

LEMMA FreshOfTask ==
  ASSUME Inv, TypeOK', Fresh, NEW c \in Callers, LiveStep(c)
  PROVE  Fresh'
<1>1. replies \in Nat /\ replies \in 0..MaxReplies /\ MaxReplies \in Nat
  BY TypeParts, RepliesAssumption DEF Inv, Flags
<1>2. \A d \in Callers \ {c} : (Opening(d)' <=> Opening(d)) /\ local'[d] = local[d]
  BY LiveStepAlone DEF Inv, Alone, Opening
<1>3. CASE Quiet(c) /\ ~Starts(c)
  <2>1. \A r : Used(r)' <=> Used(r)
    BY <1>3 DEF Quiet, Used, llmVars, Cancel, ttsVars, ttsTaskVars, StopCancels, StopEnds
  <2>2. CASE /\ replies' = replies
             /\ Opening(c)' => Opening(c) /\ local'[c].reply = local[c].reply
    BY <1>2, <2>1, <2>2 DEF Fresh
  <2>3. CASE replies' = replies + 1 /\ local'[c].reply = replies + 1
    <3>1. replies + 1 \in Reply
      BY <1>1, <2>3 DEF TypeOK, ConversationTypeOK, Reply
    <3>2. ~Used(replies + 1)
      BY <1>1, <3>1 DEF Fresh
    <3>3. ASSUME NEW d \in Callers, Opening(d)'
          PROVE  local'[d].reply \in 1..replies' /\ ~Used(local[d].reply)'
      BY <1>1, <1>2, <2>1, <2>3, <3>2, <3>3 DEF Fresh
    <3>4. ASSUME NEW d \in Callers \ {c}, Opening(d)' PROVE local'[d].reply # replies + 1
      BY <1>1, <1>2, <3>4 DEF Fresh
    <3>5. ASSUME NEW d \in Callers, NEW e \in Callers, Opening(d)', Opening(e)',
                 local'[d].reply = local'[e].reply
          PROVE  d = e
      BY <1>2, <2>3, <3>4, <3>5 DEF Fresh
    <3>6. \A r \in Reply : Used(r)' => r <= replies'
      BY <1>1, <2>1, <2>3 DEF Fresh, Reply
    <3> QED
      BY <3>3, <3>5, <3>6 DEF Fresh
  <2> QED
    BY <2>2, <2>3, OpeningStep
<1>4. CASE Starts(c)
  <2> DEFINE r == local[c].reply
  <2>1. /\ Opening(c) /\ r \in Reply /\ replies' = replies /\ ~Opening(c)'
        /\ \A s \in Reply \ {r} : Used(s)' <=> Used(s)
    BY <1>4, StartsFresh, OpeningStep
  <2>2. ASSUME NEW d \in Callers, Opening(d)'
        PROVE  d # c /\ Opening(d) /\ local'[d].reply = local[d].reply /\ local[d].reply \in Reply \ {r}
    BY <1>1, <1>2, <2>1, <2>2 DEF Fresh, Reply
  <2> HIDE DEF r
  <2>3. ASSUME NEW d \in Callers, Opening(d)'
        PROVE  local'[d].reply \in 1..replies' /\ ~Used(local[d].reply)'
    <3>1. local[d].reply \in 1..replies /\ ~Used(local[d].reply) /\ local[d].reply \in Reply \ {r}
      BY <2>2, <2>3 DEF Fresh
    <3> QED
      BY <2>1, <2>2, <2>3, <3>1 DEF Used
  <2>4. ASSUME NEW d \in Callers, NEW e \in Callers, Opening(d)', Opening(e)',
               local'[d].reply = local'[e].reply
        PROVE  d = e
    BY <2>2, <2>4 DEF Fresh
  <2>5. \A s \in Reply : Used(s)' => s <= replies'
    <3>1. r <= replies
      BY <1>1, <2>1 DEF Fresh, r
    <3> QED
      BY <2>1, <3>1 DEF Fresh
  <2> QED
    BY <2>3, <2>4, <2>5 DEF Fresh
<1> QED
  BY <1>3, <1>4, LiveStepAlone DEF Inv

LEMMA UnusedOfTask ==
  ASSUME Inv, Fresh, \A r \in Reply : Unused(r), NEW c \in Callers, LiveStep(c)
  PROVE  \A r \in Reply : Unused(r)'
<1>1. LlmTypeOK /\ TtsTypeOK
  BY TypeParts DEF Inv
<1> USE <1>1 DEF Unused, LlmTypeOK, TtsTypeOK
<1>2. CASE Quiet(c)
  <2>1. /\ UNCHANGED <<llm_pc, llm_outcome>>
        /\ \A r \in Reply : llm_pc[r] = "none" => llm_cancelled'[r] = llm_cancelled[r]
    BY <1>2 DEF Quiet, llmVars, Cancel, CancelGeneration, IsGenerating, LlmRuns
  <2>2. /\ UNCHANGED <<tts_pc, tts_interrupted>>
        /\ \A r \in Reply : tts_pc[r] = "none" => tts_cancelled'[r] = tts_cancelled[r]
    BY <1>2 DEF Quiet, ttsVars, ttsTaskVars, StopCancels, StopEnds, IsActive, TtsRuns
  <2> QED
    BY <2>1, <2>2
<1>3. CASE Starts(c)
  <2> DEFINE r == local[c].reply
  <2>1. /\ r \in Reply /\ ~Used(r)
        /\ \/ Begin(r, <<>>) /\ StartGeneration(r)
           \/ Begin(r, <<r, None>>) /\ UNCHANGED llmVars
    BY <1>3, StartsFresh
  <2> HIDE DEF r
  <2>2. /\ tts_pc' = [tts_pc EXCEPT ![r] = "new"] /\ UNCHANGED <<tts_interrupted, tts_cancelled>>
    BY <2>1 DEF Begin
  <2>3. /\ llm_outcome' = llm_outcome
        /\ llm_pc' = llm_pc \/ llm_pc' = [llm_pc EXCEPT ![r] = "new"]
        /\ \A s \in Reply : llm_pc[s] = "none" => llm_cancelled'[s] = llm_cancelled[s]
    BY <2>1 DEF StartGeneration, CancelGeneration, IsGenerating, LlmRuns, llmVars
  <2> QED
    BY <2>1, <2>2, <2>3 DEF Used
<1> QED
  BY <1>2, <1>3, LiveStepAlone DEF Inv

\* What the tasks of the replies leave alone.
Undisturbed ==
  /\ UNCHANGED <<pc, local, replies, faults>>
  /\ state' \in Busy => state \in Busy /\ is_system_speaking' = is_system_speaking

LEMMA LlmWorksFrame ==
  ASSUME NEW r \in Reply, LlmWorks(r)
  PROVE  Undisturbed /\ LlmTaskStep(r) /\ (UNCHANGED ttsVars \/ Speak(r) \/ Finish)
<1> USE DEF Undisturbed, LlmTaskStep, conversationVars, stateVars, callVars, budget
<1>1. CASE LlmStep(r)
  BY <1>1 DEF LlmStep
<1>2. CASE OnLlmSegment(r)
  BY <1>2 DEF OnLlmSegment
<1>3. CASE LlmNoSegment(r)
  BY <1>3 DEF LlmNoSegment
<1>4. CASE OnComplete(r) /\ llm_outcome[r] # "failed"
  BY <1>4 DEF OnComplete
<1> QED
  BY <1>1, <1>2, <1>3, <1>4 DEF LlmWorks

LEMMA TtsWorksFrame ==
  ASSUME NEW r \in Reply, TtsWorks(r)
  PROVE  Undisturbed /\ TtsTaskStep(r) /\ UNCHANGED llmVars
<1> USE DEF Undisturbed, TtsTaskStep, conversationVars, stateVars, callVars, budget
<1>1. CASE TtsStep(r)
  BY <1>1 DEF TtsStep
<1>2. CASE SendAudioFrame(r)
  BY <1>2 DEF SendAudioFrame
<1>3. CASE OnTtsPlaybackEnd(r)
  <2>1. (~tts_interrupted[r]) \in BOOLEAN
    OBVIOUS
  <2> QED
    BY <1>3, <2>1 DEF OnTtsPlaybackEnd
<1>4. CASE BackToListening(r)
  BY <1>4 DEF BackToListening, Busy
<1> QED
  BY <1>1, <1>2, <1>3, <1>4 DEF TtsWorks

\* A generation that goes on or ends does not fail.
LEMMA LlmWorksUnused ==
  ASSUME Inv, \A s \in Reply : Unused(s) /\ NoRecovery(s), NEW r \in Reply, LlmWorks(r)
  PROVE  /\ \A s \in Reply : Unused(s)' /\ NoRecovery(s)'
         /\ \A s \in Reply : llm_pc'[s] = "none" <=> llm_pc[s] = "none"
<1>1. LlmTypeOK /\ UNCHANGED pc /\ UNCHANGED <<tts_pc, tts_cancelled, tts_interrupted>>
  BY TypeParts, LlmWorksFrame
     DEF Inv, Undisturbed, Speak, Finish, ttsVars, ttsTaskVars
<1>2. \/ LlmFirstStep(r) \/ LlmToken(r) \/ LlmInterrupted(r) \/ LlmNeverRan(r)
      \/ LlmPartialSent(r) \/ LlmStreamEnds(r) \/ LlmCompletes(r)
  BY DEF LlmWorks, LlmStep, OnLlmSegment, LlmNoSegment, OnComplete
<1> USE <1>1 DEF LlmTypeOK, Unused, NoRecovery
<1>3. CASE LlmFirstStep(r) \/ LlmToken(r) \/ LlmPartialSent(r) \/ LlmStreamEnds(r)
  BY <1>3 DEF LlmFirstStep, LlmToken, LlmPartialSent, LlmStreamEnds, LlmGoes
<1>4. CASE LlmInterrupted(r) \/ LlmNeverRan(r)
  BY <1>4 DEF LlmInterrupted, LlmNeverRan
<1>5. CASE LlmCompletes(r)
  BY <1>5 DEF LlmCompletes, LlmAtFinally, LlmDone
<1> QED
  BY <1>2, <1>3, <1>4, <1>5

LEMMA WorksKeep ==
  ASSUME Inv, Healthy, NEW r \in Reply, LlmWorks(r) \/ TtsWorks(r)
  PROVE  Fresh' /\ (\A s \in Reply : Unused(s)' /\ NoRecovery(s)') /\ SystemTurn'
<1>1. LlmTypeOK /\ TtsTypeOK /\ Framed /\ replies \in 0..MaxReplies /\ MaxReplies \in Nat
  BY TypeParts, RepliesAssumption DEF Inv, Sound, Flags
<1>2. Undisturbed
  BY LlmWorksFrame, TtsWorksFrame
<1>3. \A c : (GoesTo(c)' = GoesTo(c)) /\ (Opening(c)' <=> Opening(c))
  BY <1>2 DEF Undisturbed, GoesTo, Opening
<1>4. SystemTurn'
  BY <1>2, <1>3 DEF Healthy, SystemTurn, SttTurn, Undisturbed
<1>5. \A s \in Reply : (Used(s)' <=> Used(s)) /\ Unused(s)' /\ NoRecovery(s)'
  <2>1. CASE LlmWorks(r)
    <3>1. UNCHANGED tts_pc
      BY <2>1, LlmWorksFrame DEF Speak, Finish, ttsVars, ttsTaskVars
    <3> QED
      BY <2>1, <3>1, LlmWorksUnused DEF Healthy, Used
  <2>2. CASE TtsWorks(r)
    <3>1. TtsTaskStep(r) /\ UNCHANGED llmVars
      BY <2>2, TtsWorksFrame
    <3>2. /\ \A s \in Reply : tts_pc'[s] = "none" <=> tts_pc[s] = "none"
          /\ tts_pc[r] # "none"
          /\ \A s \in Reply \ {r} : /\ tts_cancelled'[s] = tts_cancelled[s]
                                    /\ tts_interrupted'[s] = tts_interrupted[s]
      BY <1>1, <3>1, TasksCreated, TtsTaskOthers, TtsTaskCalms DEF TtsRuns
    <3>3. UNCHANGED <<llm_pc, llm_outcome, llm_cancelled, pc>>
      BY <1>2, <3>1 DEF llmVars, Undisturbed
    <3>4. ASSUME NEW s \in Reply PROVE Unused(s)'
      BY <3>2, <3>3 DEF Healthy, Unused
    <3> QED
      BY <3>2, <3>3, <3>4 DEF Healthy, Used, NoRecovery
  <2> QED
    BY <2>1, <2>2
<1>6. Fresh'
  <2>1. ASSUME NEW c \in Callers, Opening(c) PROVE local[c].reply \in Reply
    BY <1>1, <2>1 DEF Healthy, Fresh, Reply
  <2>2. ASSUME NEW c \in Callers, Opening(c) PROVE ~Used(local[c].reply)'
    <3>1. local'[c].reply = local[c].reply /\ ~Used(local[c].reply)
      BY <1>2, <2>2 DEF Undisturbed, Healthy, Fresh
    <3> QED
      BY <1>5, <2>1, <2>2, <3>1 DEF Used
  <2> QED
    BY <1>2, <1>3, <1>5, <2>2 DEF Undisturbed, Healthy, Fresh
<1> QED
  BY <1>4, <1>5, <1>6

\* A reply whose text is still being generated gets the end of its text.
LEMMA LlmWorksOn ==
  ASSUME Inv, Healthy, NEW r \in Reply, LlmWorks(r)
  PROVE  Working'
<1> DEFINE t == tts_task
<1>1. LlmTypeOK /\ TtsTypeOK
  BY TypeParts DEF Inv
<1>2. /\ Undisturbed /\ LlmTaskStep(r)
      /\ UNCHANGED ttsVars \/ Speak(r) \/ Finish
  BY LlmWorksFrame
<1>3. /\ UNCHANGED <<tts_task, tts_pc, tts_cancelled, tts_interrupted>>
      /\ \A c : GoesTo(c)' = GoesTo(c)
  BY <1>2 DEF Undisturbed, GoesTo, Speak, Finish, ttsVars, ttsTaskVars
<1>4. llm_task' = llm_task
  BY <1>1, <1>2, LlmCalms DEF LlmCalm
<1>5. SUFFICES ASSUME state' \in Busy, t \in Reply, WillEnd(t), Early(t)
               PROVE  HasEnd(tts_queue[t])' \/ (llm_task \in Reply /\ Generates(llm_task)')
  BY <1>2, <1>3, <1>4 DEF Healthy, Working, Undisturbed, WillEnd, Early
<1>6. tts_queue[t] \in Seq(Reply \cup {None}) /\ IsActive
  BY <1>1, <1>5 DEF TtsTypeOK, Early, IsActive, TtsRuns, Reply, None
<1>7. CASE HasEnd(tts_queue[t])
  <2>1. \/ tts_queue'[t] = tts_queue[t]
        \/ \E x \in Reply \cup {None} : tts_queue'[t] = Append(tts_queue[t], x)
    BY <1>1, <1>2, <1>5 DEF TtsTypeOK, Speak, Finish, ttsVars, ttsTaskVars
  <2>2. HasEnd(tts_queue'[t])
    BY <1>5, <1>6, <1>7, <2>1, AppendWords
  <2> QED
    BY <1>3, <2>2 DEF HasEnd
<1>8. CASE llm_task \in Reply /\ Generates(llm_task) /\ r # llm_task
  BY <1>1, <1>2, <1>4, <1>8
     DEF LlmTaskStep, LlmFirstStep, LlmToken, LlmPartialSent, LlmStreamEnds, LlmFails, LlmGoes,
         LlmInterrupted, LlmNeverRan, LlmCompletes, LlmCompleting, LlmReturns, LlmDone, Generates,
         LlmTypeOK
<1>9. CASE r = llm_task /\ Generates(r)
  <2>1. CASE LlmFirstStep(r) \/ LlmToken(r) \/ LlmPartialSent(r) \/ LlmStreamEnds(r)
    <3>1. Generates(r)'
      BY <1>1, <1>9, <2>1 DEF LlmFirstStep, LlmToken, LlmPartialSent, LlmStreamEnds, LlmGoes,
                              Generates, LlmTypeOK
    <3> QED
      BY <1>4, <1>9, <3>1 DEF Generates
  <2>2. CASE OnComplete(r)
    <3>1. LlmAtFinally(r)
      BY <2>2 DEF OnComplete, LlmCompletes, LlmCompleting
    <3>2. llm_outcome[r] = "completed"
      BY <1>9, <3>1 DEF LlmAtFinally, Generates, Healthy, Unused
    <3>3. Finish
      BY <2>2, <3>2 DEF OnComplete
    <3>4. tts_queue'[t] = Append(tts_queue[t], None)
      BY <1>1, <1>5, <1>6, <3>3 DEF Finish, TtsTypeOK
    <3>5. HasEnd(tts_queue'[t])
      <4>1. /\ Len(tts_queue[t]) + 1 \in DOMAIN Append(tts_queue[t], None)
            /\ Append(tts_queue[t], None)[Len(tts_queue[t]) + 1] = None
        BY <1>6
      <4> QED
        BY <3>4, <4>1 DEF HasEnd
    <3> QED
      BY <1>3, <3>5 DEF HasEnd
  <2>3. ~LlmInterrupted(r) /\ ~LlmNeverRan(r)
    BY <1>9 DEF Generates, LlmInterrupted, LlmNeverRan
  <2> QED
    BY <2>1, <2>2, <2>3 DEF LlmWorks, LlmStep, OnLlmSegment, LlmNoSegment
<1> QED
  BY <1>5, <1>7, <1>8, <1>9 DEF WillEnd, Early

\* A reply that is being spoken goes on to its regular end.
LEMMA TtsWorksOn ==
  ASSUME Inv, Healthy, NEW r \in Reply, TtsWorks(r)
  PROVE  Working'
<1> DEFINE t == tts_task
           Late == {"drain", "end", "metrics", "playback_end"}
<1>1. TtsTypeOK
  BY TypeParts DEF Inv
<1>2. Undisturbed /\ TtsTaskStep(r) /\ UNCHANGED llmVars
  BY TtsWorksFrame
<1>3. /\ tts_task' = tts_task
      /\ \A s \in Reply \ {r} : /\ tts_pc'[s] = tts_pc[s] /\ tts_queue'[s] = tts_queue[s]
                                /\ tts_cancelled'[s] = tts_cancelled[s]
                                /\ tts_interrupted'[s] = tts_interrupted[s]
  BY <1>1, <1>2, TtsTaskOthers
<1>4. \A c : GoesTo(c)' = GoesTo(c)
  BY <1>2 DEF Undisturbed, GoesTo
<1>5. (llm_task \in Reply /\ Generates(llm_task))' <=> (llm_task \in Reply /\ Generates(llm_task))
  BY <1>2 DEF llmVars, Generates
<1>6. SUFFICES ASSUME state' \in Busy, t \in Reply, WillEnd(t) PROVE WillEnd(t)'
  BY <1>2, <1>3, <1>4 DEF Healthy, Working, Undisturbed
<1>7. CASE t # r
  BY <1>3, <1>5, <1>6, <1>7 DEF WillEnd, Early, HasEnd
<1>8. CASE t = r
  <2>1. SUFFICES /\ ~tts_cancelled'[r] /\ ~tts_interrupted'[r]
                 /\ \/ tts_pc'[r] \in Late
                    \/ Early(r) /\ Early(r)' /\ (HasEnd(tts_queue'[r]) <=> HasEnd(tts_queue[r]))
                    \/ Early(r) /\ Early(r)' /\ ~HasEnd(tts_queue[r])
    BY <1>3, <1>5, <1>6, <1>8 DEF WillEnd, Early, HasEnd
  <2>2. /\ ~tts_cancelled[r] /\ ~tts_interrupted[r] /\ (Early(r) \/ tts_pc[r] \in Late)
        /\ tts_queue[r] \in Seq(Reply \cup {None})
    BY <1>1, <1>6, <1>8 DEF WillEnd, TtsTypeOK
  <2> USE <1>1, <2>2 DEF TtsTypeOK, Early
  <2>3. CASE TtsFirstStep(r) \/ TtsGets(r) \/ TtsSegmentEnds(r)
    <3>1. NextSegment(r) /\ UNCHANGED <<tts_cancelled, tts_interrupted>> /\ Early(r)
      BY <2>3 DEF TtsFirstStep, TtsGets, TtsSegmentEnds, TtsKeeps, TtsAt
    <3>2. CASE tts_queue[r] = <<>>
      <4>1. tts_pc'[r] = "get" /\ tts_queue' = tts_queue
        BY <3>1, <3>2 DEF NextSegment
      <4> QED
        BY <3>1, <4>1
    <3>3. CASE tts_queue[r] # <<>> /\ Head(tts_queue[r]) # None
      <4>1. tts_pc'[r] = "synth" /\ tts_queue'[r] = Tail(tts_queue[r])
        BY <3>1, <3>3 DEF NextSegment
      <4>2. HasEnd(Tail(tts_queue[r])) <=> HasEnd(tts_queue[r])
        BY <3>3, TailWords
      <4> QED
        BY <3>1, <4>1, <4>2
    <3>4. CASE tts_queue[r] # <<>> /\ Head(tts_queue[r]) = None
      <4>1. tts_pc'[r] \in Late
        BY <3>1, <3>4 DEF NextSegment, AllSent
      <4> QED
        BY <3>1, <4>1
    <3> QED
      BY <3>2, <3>3, <3>4
  <2>4. CASE TtsFrame(r)
    BY <2>4 DEF TtsFrame, TtsKeeps, TtsAt
  <2>5. CASE TtsFrameSent(r)
    BY <2>5 DEF TtsFrameSent, TtsKeeps, TtsAt
  <2>6. CASE TtsSent(r)
    BY <2>6 DEF TtsSent, TtsKeeps, TtsAt, TtsAfter
  <2>7. CASE OnTtsPlaybackEnd(r)
    BY <2>7 DEF OnTtsPlaybackEnd, TtsPlaybackEnds, TtsKeeps, TtsAt
  <2>8. ~TtsInterrupted(r) /\ ~TtsAbandoned(r)
    BY DEF TtsInterrupted, TtsAbandoned
  <2>9. ~BackToListening(r)
    BY <1>6 DEF BackToListening, Busy
  <2> QED
    BY <2>3, <2>4, <2>5, <2>6, <2>7, <2>8, <2>9 DEF TtsWorks, TtsStep, SendAudioFrame
<1> QED
  BY <1>7, <1>8

\* A task that takes a step of the call's code is not idle, and the endpoint's only
\* one in a call that is not over is to wait for the lock.
LEMMA CallerAwake ==
  ASSUME NEW c \in Callers, CallerStep(c)
  PROVE  pc[c] # Idle
BY DEF CallerStep, TurnStep, WaitsForLock, Gathered, ClearSent, StopJoins, StopClears, Resumes,
       ProcessPartial, ReceivePartial, ProcessFinal, ReceiveFinal, HandleInterruption, StartTurn,
       WholeTurn, CompleteTurn, OnUserTurnStarted, OnUserTurnCompleted, OnSystemTurnStart,
       SystemTurnOn, BeginReply, ReplyBegun, HandleBargeIn, BargedIn, HandlePipelineError,
       Recovered, PlayFallbackTts, UnlockSay, Say, Said, Acquires, Continues, LockPoints, Idle

LEMMA WsOnlyWaits ==
  ASSUME SystemTurn, CallerStep("ws")
  PROVE  WaitsForLock("ws")
BY DEF SystemTurn, CallerStep, TurnStep, Gathered, ClearSent, StopJoins, StopClears, Resumes,
       ProcessPartial, ReceivePartial, ProcessFinal, ReceiveFinal, HandleInterruption, StartTurn,
       WholeTurn, CompleteTurn, OnUserTurnStarted, OnUserTurnCompleted, OnSystemTurnStart,
       SystemTurnOn, BeginReply, ReplyBegun, HandleBargeIn, BargedIn, HandlePipelineError,
       Recovered, PlayFallbackTts, UnlockSay, Say, Said, Acquires, Continues, Idle

LEMMA NoRecoveryOfTask ==
  ASSUME Inv, \A r \in Reply : NoRecovery(r), NEW c \in Callers, LiveStep(c)
  PROVE  \A r \in Reply : NoRecovery(r)'
<1>1. \A r \in Reply : c \notin {LlmCaller[r], TtsCaller[r]}
  <2>1. CASE CallerStep(c)
    BY <2>1, CallerAwake DEF NoRecovery
  <2>2. CASE c \in {"ws", "stt", "silence"} \cup Spawned
    BY <2>2, CallAssumption
  <2> QED
    BY <2>1, <2>2 DEF LiveStep
<1>2. \A r \in Reply : pc'[LlmCaller[r]] = pc[LlmCaller[r]] /\ pc'[TtsCaller[r]] = pc[TtsCaller[r]]
  BY <1>1, LiveStepAlone, Names DEF Inv, Alone
<1>3. llm_outcome' = llm_outcome
  BY LiveStepAlone
     DEF Inv, Quiet, Starts, ReplyBegun, Said, StartGeneration, Cancel, llmVars
<1> QED
  BY <1>2, <1>3 DEF NoRecovery

\* Where a task goes when it stops the speech, has stopped it, or returns.
LEMMA StopGoes ==
  ASSUME TypeOK, NEW c \in Callers, NEW next, next \notin InStop, Stops(c, next)
  PROVE  GoesTo(c)' = next /\ local'[c].ret = local[c].ret
<1>1. local \in [Callers -> Locals] /\ pc \in [Callers -> Pc]
  BY TypeParts DEF Placed
<1> QED
  BY <1>1 DEF Stops, StopWaits, RunsOn, Suspends, GoesTo, InStop, Locals

LEMMA StoppedGoes ==
  ASSUME Inv, NEW c \in Callers, Gathered(c) \/ ClearSent(c)
  PROVE  /\ GoesTo(c)' = GoesTo(c) /\ pc'[c] \in Section \cup InStop
         /\ local'[c].ret = local[c].ret
<1>1. local \in [Callers -> Locals] /\ pc \in [Callers -> Pc]
  BY TypeParts DEF Inv, Placed
<1>2. pc[c] \in InStop
  BY DEF Gathered, ClearSent, StopJoins, StopClears, Resumes, InStop
<1>3. local[c].after \in Section
  BY <1>2 DEF Inv, CallerOK, Stopping
<1>4. CASE StopReturns(c)
  <2>1. pc'[c] = local[c].after /\ local'[c].ret = local[c].ret
    BY <1>1, <1>3, <1>4 DEF StopReturns, RunsOn, Suspends, Locals, Section
  <2> QED
    BY <1>2, <1>3, <2>1 DEF GoesTo, Section, InStop
<1>5. CASE Suspends(c, "clear") /\ UNCHANGED local
  BY <1>1, <1>2, <1>5 DEF Suspends, GoesTo, InStop
<1> QED
  BY <1>4, <1>5 DEF Gathered, ClearSent, StopJoins, StopClears

LEMMA ReturnGoes ==
  ASSUME Inv, NEW c \in Callers, ReturnsTo(c) \/ Returns(c)
  PROVE  /\ GoesTo(c)' = pc'[c] /\ local'[c].ret = Idle
         /\ pc'[c] \in {Idle, "started", "whole", "complete", "returned"}
         /\ pc'[c] \in {Idle, local[c].ret}
<1>1. local \in [Callers -> Locals] /\ pc \in [Callers -> Pc]
  BY TypeParts DEF Inv, Placed
<1>2. local[c].ret \in {Idle, "started", "whole", "complete", "returned"}
  BY DEF Inv, CallerOK, Turns
<1>3. /\ pc'[c] \in {Idle, local[c].ret} /\ local'[c].ret = Idle
  BY <1>1, <1>2 DEF ReturnsTo, Returns, RunsOn, Suspends, Locals, NoLocals
<1> QED
  BY <1>2, <1>3 DEF GoesTo, InStop, Idle

\* The recogniser's task starts the system's turn with every answer, and its barge-in
\* ends it.
LEMMA SttKeepsTurn ==
  ASSUME Inv, SttTurn, state # "ENDED", LiveStep("stt")
  PROVE  SttTurn'
<1> DEFINE c == "stt"
<1>1. /\ c \in Callers /\ c \notin Spawned
      /\ local \in [Callers -> Locals] /\ pc \in [Callers -> Pc]
  BY TypeParts, Names, CallAssumption DEF Inv, Placed
<1>2. TypeOK
  BY DEF Inv
<1> USE <1>1 DEF SttTurn, Switches, Busy, GoesTo, InStop, RunsOn, Suspends, Locals, Idle, Turn,
                 Acquires, Resumes, Continues, callVars
<1>3. ASSUME Returns(c), UNCHANGED <<state, is_system_speaking>>, GoesTo(c) \notin Switches
       PROVE  SttTurn'
  BY <1>3 DEF Returns, NoLocals
<1>4. CASE WaitsForLock(c)
  BY <1>4 DEF WaitsForLock, conversationVars, stateVars
<1>5. CASE Gathered(c) \/ ClearSent(c)
  <2>1. UNCHANGED <<state, is_system_speaking>>
    BY <1>5 DEF Gathered, ClearSent, stateVars
  <2> QED
    BY <1>5, <2>1, StoppedGoes DEF Section
<1>6. CASE ProcessPartial(c)
  BY <1>6 DEF ProcessPartial, ReceivePartial, stateVars
<1>7. CASE ProcessFinal(c)
  <2>1. pc[c] = "final" /\ UNCHANGED <<state, is_system_speaking>>
    BY <1>7 DEF ProcessFinal, ReceiveFinal
  <2>2. CASE Returns(c)
    BY <1>3, <2>1, <2>2
  <2> QED
    BY <1>7, <2>1, <2>2 DEF ProcessFinal, ReceiveFinal
<1>8. CASE HandleInterruption(c)
  BY <1>8 DEF HandleInterruption, ClearTurns
<1>9. CASE StartTurn(c)
  <2>1. pc[c] = "started" /\ UNCHANGED <<state, is_system_speaking>>
    BY <1>9 DEF StartTurn
  <2>2. CASE Returns(c)
    BY <1>3, <2>1, <2>2
  <2> QED
    BY <1>9, <2>1, <2>2 DEF StartTurn
<1>10. CASE WholeTurn(c) \/ CompleteTurn(c)
  BY <1>10 DEF WholeTurn, CompleteTurn
<1>11. CASE OnUserTurnStarted(c)
  BY <1>11, ReturnGoes DEF OnUserTurnStarted, stateVars
<1>12. CASE OnUserTurnCompleted(c)
  <2>1. CASE state # "LISTENING"
    <3>1. pc[c] = "completed" /\ Returns(c) /\ UNCHANGED <<state, is_system_speaking>>
      BY <1>12, <2>1 DEF OnUserTurnCompleted, stateVars
    <3> QED
      BY <1>3, <3>1
  <2>2. CASE state = "LISTENING"
    BY <1>12, <2>2 DEF OnUserTurnCompleted, stateVars
  <2> QED
    BY <2>1, <2>2
<1>13. CASE OnSystemTurnStart(c)
  <2>1. Stops(c, "system_turn_on") /\ UNCHANGED <<state, is_system_speaking>>
    BY <1>13 DEF OnSystemTurnStart, stateVars
  <2>2. GoesTo(c)' = "system_turn_on" /\ local'[c].ret = local[c].ret
    BY <1>2, <2>1, StopGoes
  <2> QED
    BY <2>1, <2>2
<1>14. CASE SystemTurnOn(c)
  BY <1>14 DEF SystemTurnOn
<1>15. CASE BeginReply(c)
  <2>1. /\ Stops(c, "begun") /\ UNCHANGED <<state, is_system_speaking>>
        /\ is_system_speaking \/ state \notin Busy
    BY <1>15 DEF BeginReply, stateVars
  <2>2. GoesTo(c)' = "begun" /\ local'[c].ret = local[c].ret
    BY <1>2, <2>1, StopGoes
  <2> QED
    BY <2>1, <2>2
<1>16. CASE ReplyBegun(c)
  <2>1. pc[c] = "begun" /\ Returns(c) /\ UNCHANGED <<state, is_system_speaking>>
    BY <1>16 DEF ReplyBegun, stateVars
  <2> QED
    BY <1>3, <2>1
<1>17. CASE HandleBargeIn(c)
  <2>1. CASE state \notin Busy
    BY <1>17, <2>1, ReturnGoes DEF HandleBargeIn, stateVars
  <2>2. CASE state \in Busy
    <3>1. Stops(c, "barged") /\ UNCHANGED <<state, is_system_speaking>>
      BY <1>17, <2>2 DEF HandleBargeIn, stateVars
    <3>2. GoesTo(c)' = "barged" /\ local'[c].ret = local[c].ret
      BY <1>2, <3>1, StopGoes
    <3> QED
      BY <3>1, <3>2
  <2> QED
    BY <2>1, <2>2
<1>18. CASE BargedIn(c)
  BY <1>18, ReturnGoes DEF BargedIn
<1>19. ~(HandlePipelineError(c) \/ Recovered(c) \/ PlayFallbackTts(c) \/ UnlockSay(c) \/ Say(c) \/ Said(c))
  BY DEF HandlePipelineError, Recovered, PlayFallbackTts, UnlockSay, Say, Said
<1>20. CASE \E kind \in {"partial", "final"}, t \in CallTexts : TranscriptArrives(kind, t)
  BY <1>20 DEF TranscriptArrives, stateVars
<1> QED
  BY <1>4, <1>5, <1>6, <1>7, <1>8, <1>9, <1>10, <1>11, <1>12, <1>13, <1>14, <1>15, <1>16, <1>17,
     <1>18, <1>19, <1>20
     DEF LiveStep, CallerStep, TurnStep

\* The other tasks neither make the call busy nor end the system's turn while it is.
LEMMA OthersKeepTurn ==
  ASSUME Inv, SystemTurn, state # "ENDED", NEW c \in Callers, c # "stt", LiveStep(c)
  PROVE  state' \in Busy => state \in Busy /\ (is_system_speaking => is_system_speaking')
<1>1. c # "ws" => pc[c] \notin Turn
  BY DEF Inv, CallerOK, Turns
<1>2. CASE c = "ws"
  <2>1. CASE CallerStep(c)
    BY <1>2, <2>1, WsOnlyWaits DEF WaitsForLock, conversationVars, stateVars, callVars
  <2>2. CASE Start \/ MediaArrives \/ HangUp
    BY <2>2 DEF Start, MediaArrives, HangUp, conversationVars, stateVars, callVars, Busy
  <2> QED
    BY <1>2, <2>1, <2>2, CallAssumption DEF LiveStep
<1>3. CASE c # "ws" /\ CallerStep(c)
  <2>1. ~(\/ ProcessPartial(c) \/ ProcessFinal(c) \/ HandleInterruption(c) \/ StartTurn(c)
          \/ WholeTurn(c) \/ CompleteTurn(c) \/ OnUserTurnStarted(c) \/ OnUserTurnCompleted(c)
          \/ OnSystemTurnStart(c))
    BY <1>1, <1>3 DEF Turn, ProcessPartial, ReceivePartial, ProcessFinal, ReceiveFinal,
                      HandleInterruption, StartTurn, WholeTurn, CompleteTurn, OnUserTurnStarted,
                      OnUserTurnCompleted, OnSystemTurnStart, Continues, Acquires
  <2>2. CASE \/ WaitsForLock(c) \/ Gathered(c) \/ ClearSent(c) \/ BeginReply(c) \/ ReplyBegun(c)
             \/ HandleBargeIn(c) \/ HandlePipelineError(c) \/ PlayFallbackTts(c) \/ UnlockSay(c)
             \/ Say(c) \/ Said(c)
    BY <2>2 DEF WaitsForLock, Gathered, ClearSent, BeginReply, ReplyBegun, HandleBargeIn,
                HandlePipelineError, PlayFallbackTts, UnlockSay, Say, Said, conversationVars,
                stateVars, callVars
  <2>3. CASE SystemTurnOn(c) \/ BargedIn(c) \/ Recovered(c)
    BY <2>3 DEF SystemTurnOn, BargedIn, Recovered, Busy
  <2> QED
    BY <1>3, <2>1, <2>2, <2>3 DEF CallerStep, TurnStep
<1>4. CASE SilencePrompt \/ SilenceHangup \/ \E r \in Reply : Watchdog(c, r)
  BY <1>4 DEF SilencePrompt, SilenceHangup, Watchdog, conversationVars, stateVars
<1> QED
  BY <1>2, <1>3, <1>4 DEF LiveStep

LEMMA SystemTurnOfTask ==
  ASSUME Inv, SystemTurn, state # "ENDED", NEW c \in Callers, LiveStep(c)
  PROVE  SystemTurn'
<1>1. Alone(c) /\ {"ws", "stt"} \subseteq Callers
  BY LiveStepAlone, Names DEF Inv
<1>2. SttTurn'
  <2>1. CASE c = "stt"
    BY <2>1, SttKeepsTurn DEF SystemTurn
  <2>2. CASE c # "stt"
    <3>1. /\ pc'["stt"] = pc["stt"] /\ local'["stt"] = local["stt"]
          /\ GoesTo("stt")' = GoesTo("stt")
      BY <1>1, <2>2 DEF Alone
    <3> QED
      BY <2>2, <3>1, OthersKeepTurn DEF SystemTurn, SttTurn
  <2> QED
    BY <2>1, <2>2
<1>3. pc'["ws"] \in {Idle, "media", "stop"}
  <2>1. CASE c # "ws"
    BY <1>1, <2>1 DEF Alone, SystemTurn
  <2>2. CASE c = "ws" /\ CallerStep(c)
    BY <2>2, WsOnlyWaits DEF WaitsForLock, SystemTurn
  <2>3. CASE c = "ws" /\ (Start \/ MediaArrives \/ HangUp)
    <3>1. pc \in [Callers -> Pc]
      BY TypeParts DEF Inv, Placed
    <3> QED
      BY <1>1, <2>3, <3>1 DEF Start, MediaArrives, HangUp, RunsOn, SystemTurn
  <2> QED
    BY <2>1, <2>2, <2>3, CallAssumption DEF LiveStep
<1> QED
  BY <1>2, <1>3 DEF SystemTurn

\* A step in a call that stays busy leads on to a reply or to the end of the turn,
\* begins a reply, or is one that nobody waits for and that disturbs nobody.
LEMMA TaskGoesOn ==
  ASSUME Inv, Healthy, state # "ENDED", NEW c \in Callers, LiveStep(c), state' \in Busy
  PROVE  \/ GoesTo(c)' \in Bound
         \/ Starts(c)
         \/ state \in Busy /\ GoesTo(c) \notin Bound /\ UNCHANGED <<llmVars, ttsTaskVars>>
<1>1. local \in [Callers -> Locals] /\ pc \in [Callers -> Pc] /\ TypeOK
  BY TypeParts DEF Inv, Placed
<1> USE <1>1 DEF Bound, Opens, InStop, RunsOn, Suspends, Idle, Acquires, Resumes, Continues
<1>2. ASSUME NEW next \in Bound, Stops(c, next) PROVE GoesTo(c)' \in Bound
  BY <1>2, StopGoes
<1>3. CASE WaitsForLock(c)
  BY <1>3 DEF WaitsForLock, GoesTo, conversationVars, callVars, ttsVars
<1>4. CASE Gathered(c) \/ ClearSent(c)
  <2>1. UNCHANGED <<llmVars, ttsTaskVars, state>>
    BY <1>4 DEF Gathered, ClearSent, StopJoins, StopClears, StopReturns, StopEnds, ttsVars, callVars
  <2> QED
    BY <1>4, <2>1, StoppedGoes
<1>5. CASE ProcessPartial(c) \/ ProcessFinal(c)
  BY <1>5 DEF ProcessPartial, ReceivePartial, ProcessFinal, ReceiveFinal, GoesTo, callVars, ttsVars
<1>6. CASE HandleInterruption(c) \/ StartTurn(c) \/ WholeTurn(c) \/ CompleteTurn(c)
  BY <1>6 DEF HandleInterruption, StartTurn, WholeTurn, CompleteTurn, GoesTo, callVars, ttsVars
<1>7. ~OnUserTurnStarted(c)
  <2>1. SUFFICES ASSUME OnUserTurnStarted(c) PROVE FALSE
    OBVIOUS
  <2>2. pc[c] = "started_lock" /\ state \in Busy
    BY <2>1 DEF OnUserTurnStarted, Busy
  <2>3. c = "stt"
    BY <2>2 DEF Inv, CallerOK, Turns, Turn, Healthy, SystemTurn
  <2> QED
    BY <2>2, <2>3 DEF Healthy, SystemTurn, SttTurn
<1>8. CASE OnUserTurnCompleted(c)
  BY <1>8 DEF OnUserTurnCompleted, GoesTo, ttsVars
<1>9. CASE OnSystemTurnStart(c)
  BY <1>2, <1>9 DEF OnSystemTurnStart
<1>10. CASE SystemTurnOn(c)
  BY <1>10 DEF SystemTurnOn, GoesTo
<1>11. CASE BeginReply(c)
  BY <1>2, <1>11 DEF BeginReply
<1>12. CASE HandleBargeIn(c)
  BY <1>2, <1>12 DEF HandleBargeIn
<1>13. ~BargedIn(c) /\ ~Recovered(c)
  BY DEF BargedIn, Recovered, Busy
<1>14. CASE HandlePipelineError(c)
  <2>1. ~IsOwnReply(c)
    BY <1>14, TypeParts DEF Healthy, NoRecovery, IsOwnReply, IsActive, HandlePipelineError, TtsTypeOK
  <2> QED
    BY <1>2, <1>14, <2>1 DEF HandlePipelineError
<1>15. CASE PlayFallbackTts(c)
  BY <1>2, <1>15 DEF PlayFallbackTts
<1>16. CASE UnlockSay(c)
  BY <1>16 DEF UnlockSay, GoesTo
<1>17. CASE Say(c)
  BY <1>17 DEF Say, StopWaits, GoesTo, Locals
<1>18. CASE c = "stt" /\ \E kind \in {"partial", "final"}, t \in CallTexts : TranscriptArrives(kind, t)
  BY <1>18 DEF TranscriptArrives, GoesTo, callVars, ttsVars
<1>19. CASE \E r \in Reply : Watchdog(c, r)
  BY <1>19 DEF Watchdog, GoesTo
<1>20. ~SilencePrompt /\ ~SilenceHangup /\ ~Start
  BY DEF SilencePrompt, SilenceHangup, Start, Busy
<1>21. CASE c = "ws" /\ (MediaArrives \/ HangUp)
  BY <1>21 DEF MediaArrives, HangUp, GoesTo, callVars, ttsVars
<1> QED
  BY <1>3, <1>4, <1>5, <1>6, <1>7, <1>8, <1>9, <1>10, <1>11, <1>12, <1>13, <1>14, <1>15, <1>16,
     <1>17, <1>18, <1>19, <1>20, <1>21
     DEF LiveStep, CallerStep, TurnStep, Starts

LEMMA WorkingOfTask ==
  ASSUME Inv, Healthy, state # "ENDED", NEW c \in Callers, LiveStep(c)
  PROVE  Working'
<1>1. SUFFICES ASSUME state' \in Busy
               PROVE  \/ \E d \in Callers : GoesTo(d)' \in Bound
                      \/ tts_task' \in Reply /\ WillEnd(tts_task)'
  BY DEF Working
<1>2. CASE Starts(c)
  <2> DEFINE r == local[c].reply
  <2>1. /\ r \in Reply /\ ~Used(r)
        /\ \/ Begin(r, <<>>) /\ StartGeneration(r)
           \/ Begin(r, <<r, None>>) /\ UNCHANGED llmVars
    BY <1>2, StartsFresh DEF Healthy
  <2> HIDE DEF r
  <2>2. LlmTypeOK /\ TtsTypeOK /\ Unused(r) /\ llm_pc[r] = "none" /\ tts_pc[r] = "none"
    BY <2>1, TypeParts DEF Inv, Healthy, Used
  <2>3. tts_task' = r /\ tts_pc'[r] = "new" /\ ~tts_cancelled'[r] /\ ~tts_interrupted'[r]
    BY <2>1, <2>2 DEF Begin, Unused, TtsTypeOK
  <2>4. CASE StartGeneration(r)
    <3>1. llm_task' = r /\ llm_pc'[r] = "new" /\ ~llm_cancelled'[r]
      BY <2>1, <2>2, <2>4
         DEF StartGeneration, CancelGeneration, IsGenerating, LlmRuns, Unused, LlmTypeOK
    <3> QED
      BY <2>1, <2>3, <3>1 DEF WillEnd, Early, Generates
  <2>5. CASE Begin(r, <<r, None>>)
    <3>1. tts_queue'[r] = <<r, None>>
      BY <2>1, <2>2, <2>5 DEF Begin, TtsTypeOK
    <3>2. 2 \in DOMAIN <<r, None>> /\ <<r, None>>[2] = None
      OBVIOUS
    <3>3. HasEnd(tts_queue'[r])
      BY <3>1, <3>2 DEF HasEnd
    <3> QED
      BY <2>1, <2>3, <3>3 DEF WillEnd, Early, HasEnd
  <2> QED
    BY <2>1, <2>4, <2>5
<1>3. CASE state \in Busy /\ GoesTo(c) \notin Bound /\ UNCHANGED <<llmVars, ttsTaskVars>>
  <2>1. CASE \E d \in Callers : GoesTo(d) \in Bound
    BY <1>3, <2>1, LiveStepAlone DEF Inv, Alone
  <2>2. CASE tts_task \in Reply /\ WillEnd(tts_task)
    BY <1>3, <2>2 DEF WillEnd, Early, HasEnd, Generates, llmVars, ttsTaskVars
  <2> QED
    BY <1>3, <2>1, <2>2 DEF Healthy, Working
<1> QED
  BY <1>1, <1>2, <1>3, TaskGoesOn

\* A media message wakes at most an idle task, for a barge-in.
LEMMA MediaKeeps ==
  ASSUME Inv, Healthy, FeedMulaw
  PROVE  Healthy'
<1>1. pc \in [Callers -> Pc] /\ "ws" \in Callers /\ "stt" \in Callers /\ Spawned \subseteq Callers
  BY TypeParts, Names DEF Inv, Placed
<1> DEFINE Woken(W) ==
      /\ \A c \in W : pc[c] \in {Idle, "media"} /\ pc'[c] \in {Idle, "barge"}
      /\ \A c \in Callers \ W : pc'[c] = pc[c]
      /\ pc'["ws"] = Idle
<1>2. PICK W \in SUBSET ({"ws"} \cup Spawned) : Woken(W)
  <2>1. pc["ws"] = "media"
    BY DEF FeedMulaw, Acquires
  <2>2. CASE pc' = [pc EXCEPT !["ws"] = Idle]
    <3>1. Woken({"ws"}) /\ {"ws"} \in SUBSET ({"ws"} \cup Spawned)
      BY <1>1, <2>1, <2>2
    <3> QED
      BY <3>1
  <2>3. CASE \E t \in Spawned : pc[t] = Idle /\ pc' = [pc EXCEPT !["ws"] = Idle, ![t] = "barge"]
    <3>1. PICK t \in Spawned : pc[t] = Idle /\ pc' = [pc EXCEPT !["ws"] = Idle, ![t] = "barge"]
      BY <2>3
    <3>2. t # "ws"
      BY CallAssumption
    <3>3. Woken({"ws", t})
      BY <1>1, <2>1, <3>1, <3>2
    <3>4. {"ws", t} \in SUBSET ({"ws"} \cup Spawned)
      OBVIOUS
    <3> HIDE DEF Woken
    <3> QED
      BY <3>3, <3>4
  <2> QED
    BY <2>2, <2>3 DEF FeedMulaw
<1>3. /\ UNCHANGED <<llmVars, ttsVars, local, is_system_speaking, replies>>
      /\ state' \in Busy => state \in Busy
      /\ state \in Busy => state' = state
  BY DEF FeedMulaw, conversationVars, stateVars, Busy
<1>4. "stt" \notin W /\ \A r \in Reply : LlmCaller[r] \notin W /\ TtsCaller[r] \notin W
  BY CallAssumption
<1>5. \A c \in Callers \ W : GoesTo(c)' = GoesTo(c)
  BY <1>2, <1>3 DEF GoesTo
<1>6. \A c \in W : GoesTo(c) \notin Bound /\ GoesTo(c)' \notin Bound
  BY <1>2 DEF GoesTo, InStop, Bound, Opens, Idle
<1>7. \A c \in Callers : (GoesTo(c)' \in Bound <=> GoesTo(c) \in Bound) /\ (Opening(c)' <=> Opening(c))
  BY <1>5, <1>6 DEF Opening, Bound
<1>8. \A r : (Used(r)' <=> Used(r)) /\ (Unused(r)' <=> Unused(r)) /\ (WillEnd(r)' <=> WillEnd(r))
  BY <1>3 DEF Used, Unused, WillEnd, Early, HasEnd, Generates, llmVars, ttsVars, ttsTaskVars
<1>9. Fresh'
  <2>1. ASSUME NEW c \in Callers, Opening(c)'
        PROVE  local'[c].reply \in 1..replies' /\ ~Used(local[c].reply)'
    BY <1>3, <1>7, <1>8, <2>1 DEF Healthy, Fresh, Used, llmVars, ttsVars, ttsTaskVars
  <2> QED
    BY <1>3, <1>7, <1>8, <2>1 DEF Healthy, Fresh
<1>10. \A r \in Reply : Unused(r)' /\ NoRecovery(r)'
  BY <1>2, <1>3, <1>4, <1>8, Names DEF Healthy, NoRecovery, llmVars
<1>11. SystemTurn'
  BY <1>1, <1>2, <1>3, <1>4, <1>5 DEF Healthy, SystemTurn, SttTurn
<1>12. Working'
  BY <1>3, <1>7, <1>8 DEF Healthy, Working, ttsVars, ttsTaskVars
<1> QED
  BY <1>9, <1>10, <1>11, <1>12 DEF Healthy

\* Failures are counted, and the end of the call is final.
LEMMA NothingUndone ==
  ASSUME Inv, Next
  PROVE  /\ faults' = 0 => faults = 0
         /\ state' # "ENDED" => state # "ENDED"
<1>1. state' # "ENDED" => state # "ENDED"
  BY Transitions DEF Table
<1>2. faults \in Nat
  BY TypeParts DEF Inv, Flags
<1>3. faults' = faults \/ Fault
  <2> USE DEF budget
  <2>1. CASE Environment
    BY <2>1 DEF Environment, Start, MediaArrives, HangUp, TranscriptArrives, OnSttError,
                Watchdog, SilencePrompt, SilenceHangup, LlmFault, TtsFault, SendFails
  <2>2. ASSUME NEW c \in Callers, CallerStep(c) PROVE faults' = faults
    BY <2>2, LiveStepAlone DEF LiveStep, Inv
  <2>3. CASE WsStep
    BY <2>3 DEF WsStep, FeedMulaw, Stop, StopStt, SttJoined
  <2>4. ASSUME NEW r \in Reply, LlmTask(r) PROVE faults' = faults
    BY <2>4 DEF LlmTask, LlmStep, OnLlmSegment, LlmNoSegment, OnComplete, LlmRecovered, LlmAborted
  <2>5. ASSUME NEW r \in Reply, TtsTask(r) PROVE faults' = faults
    BY <2>5 DEF TtsTask, TtsStep, SendAudioFrame, TtsAborted, OnTtsPlaybackEnd, BackToListening
  <2> QED
    BY <2>1, <2>2, <2>3, <2>4, <2>5 DEF Next, System
<1> QED
  BY <1>1, <1>2, <1>3 DEF Fault

LEMMA InitAlive == Init => Alive
<1> SUFFICES ASSUME Init PROVE Healthy
  BY DEF Alive
<1>1. Inv /\ {"ws", "stt"} \subseteq Callers
  BY InitInv, Names
<1>2. \A c \in Callers : pc[c] = Idle /\ local[c] = NoLocals /\ GoesTo(c) = Idle
  BY DEF Init, ConversationInit, GoesTo, InStop, Idle
<1>3. \A r \in Reply : /\ llm_pc[r] = "none" /\ tts_pc[r] = "none" /\ ~llm_cancelled[r]
                       /\ ~tts_cancelled[r] /\ ~tts_interrupted[r] /\ llm_outcome[r] = "completed"
  BY DEF Init, ConversationInit, LlmInit, TtsInit
<1>4. state \notin Busy
  BY DEF Init, Busy
<1>5. Fresh
  BY <1>2, <1>3 DEF Fresh, Opening, Opens, Used, Idle
<1>6. \A r \in Reply : Unused(r) /\ NoRecovery(r)
  BY <1>2, <1>3, Names DEF Unused, NoRecovery
<1>7. SystemTurn
  BY <1>1, <1>2, <1>4 DEF SystemTurn, SttTurn, NoLocals, Idle
<1> QED
  BY <1>4, <1>5, <1>6, <1>7 DEF Healthy, Working

LEMMA NextAlive == Inv /\ Alive /\ [Next]_vars => Alive'
<1> SUFFICES ASSUME Inv, Alive, [Next]_vars, faults' = 0, state' # "ENDED" PROVE Healthy'
  BY DEF Alive
<1>1. CASE UNCHANGED vars
  <2> USE <1>1 DEF vars, callVars, conversationVars, stateVars, budget, llmVars, ttsVars, ttsTaskVars
  <2>1. Healthy
    BY DEF Alive
  <2>2. \A c : GoesTo(c)' = GoesTo(c) /\ (Opening(c)' <=> Opening(c))
    BY DEF GoesTo, Opening
  <2>3. \A r : (Used(r)' <=> Used(r)) /\ (Unused(r)' <=> Unused(r)) /\ (WillEnd(r)' <=> WillEnd(r))
               /\ (NoRecovery(r)' <=> NoRecovery(r))
    BY DEF Used, Unused, WillEnd, Early, HasEnd, Generates, NoRecovery
  <2>4. Fresh'
    BY <2>1, <2>2, <2>3 DEF Healthy, Fresh, Used
  <2>5. SystemTurn' /\ Working'
    BY <2>1, <2>2, <2>3 DEF Healthy, SystemTurn, SttTurn, Working
  <2> QED
    BY <2>1, <2>3, <2>4, <2>5 DEF Healthy
<1>2. CASE Next
  <2>1. faults = 0 /\ state # "ENDED" /\ Healthy /\ TypeOK'
    BY <1>2, NothingUndone, NextInv DEF Alive, Inv
  <2>2. ASSUME NEW c \in Callers, LiveStep(c) PROVE Healthy'
    BY <2>1, <2>2, FreshOfTask, UnusedOfTask, NoRecoveryOfTask, SystemTurnOfTask, WorkingOfTask
       DEF Healthy
  <2>3. ASSUME NEW r \in Reply, LlmWorks(r) \/ TtsWorks(r) PROVE Healthy'
    BY <2>1, <2>3, WorksKeep, LlmWorksOn, TtsWorksOn DEF Healthy
  <2> QED
    BY <1>2, <2>1, <2>2, <2>3, LiveSteps, MediaKeeps
<1> QED
  BY <1>1, <1>2

\* Unless an engine or a send has failed, a call in PROCESSING or SPEAKING has work in
\* progress that can bring it back to LISTENING: a task on its way to a reply or to the
\* end of the turn, or a reply that comes to its end (_on_user_turn_completed,
\* _handle_barge_in, _handle_pipeline_error, _on_tts_playback_end).
THEOREM NeverStuck == Spec => []NotStuck
<1>1. Inv /\ Alive => NotStuck
  <2> SUFFICES ASSUME Inv, Healthy, state \in Busy PROVE AtWork
    BY DEF NotStuck, Alive, Busy
  <2>1. CASE \E c \in Callers : GoesTo(c) \in Bound
    BY <2>1 DEF GoesTo, InStop, Bound, Opens, AtWork, Idle
  <2>2. CASE tts_task \in Reply /\ WillEnd(tts_task)
    <3>1. TtsRuns(tts_task)
      BY <2>2 DEF WillEnd, Early, TtsRuns
    <3>2. HasEnd(tts_queue[tts_task]) => tts_queue[tts_task] # <<>>
      BY DEF HasEnd
    <3>3. llm_task \in Reply /\ Generates(llm_task) => \E r \in Reply : LlmRuns(r)
      BY DEF Generates, LlmRuns
    <3> QED
      BY <2>2, <3>1, <3>2, <3>3 DEF WillEnd, AtWork
  <2> QED
    BY <2>1, <2>2 DEF Healthy, Working
<1> QED
  BY <1>1, Invariance, InitAlive, NextAlive, PTL DEF Spec
=============================================================================
