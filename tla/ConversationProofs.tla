------------------------ MODULE ConversationProofs ------------------------
(***************************************************************************)
(* What the operations of the LLM and the TTS consumer keep, for every     *)
(* session that runs them: their types, and that a task's own steps never  *)
(* make it or another reply speak or generate again.                       *)
(***************************************************************************)
EXTENDS Conversation, TLAPS

-----------------------------------------------------------------------------
(* The LLM consumer *)

\* The steps of the LLM task of reply r.
LlmTaskStep(r) ==
  \/ LlmFirstStep(r) \/ LlmToken(r) \/ LlmPartialSent(r) \/ LlmStreamEnds(r) \/ LlmFails(r)
  \/ LlmInterrupted(r) \/ LlmNeverRan(r) \/ LlmCompletes(r) \/ LlmCompleting(r)
  \/ LlmReturns(r)

\* What a session does to the LLM consumer in one step.
LlmOperation ==
  \/ UNCHANGED llmVars \/ Cancel
  \/ \E r \in Reply : StartGeneration(r) \/ LlmTaskStep(r)

\* Every operation on the LLM consumer and every step of its tasks keeps its type.
LEMMA LlmTypes ==
  ASSUME LlmTypeOK, LlmOperation
  PROVE  LlmTypeOK'
<1> USE DEF LlmTypeOK, LlmPc
<1>1. CASE UNCHANGED llmVars
  BY <1>1 DEF llmVars
<1>2. CASE Cancel
  BY <1>2 DEF Cancel, CancelGeneration
<1>3. ASSUME NEW r \in Reply, StartGeneration(r) PROVE LlmTypeOK'
  BY <1>3 DEF StartGeneration, CancelGeneration
<1>4. ASSUME NEW r \in Reply, LlmTaskStep(r) PROVE LlmTypeOK'
  <2>1. CASE LlmFirstStep(r)
    BY <2>1 DEF LlmFirstStep, LlmGoes
  <2>2. CASE LlmToken(r)
    BY <2>2, TokensAssumption DEF LlmToken, LlmGoes
  <2>3. CASE LlmPartialSent(r) \/ LlmStreamEnds(r)
    BY <2>3 DEF LlmPartialSent, LlmStreamEnds, LlmGoes
  <2>4. CASE LlmFails(r)
    BY <2>4 DEF LlmFails, LlmGoes
  <2>5. CASE LlmInterrupted(r) \/ LlmNeverRan(r)
    BY <2>5 DEF LlmInterrupted, LlmNeverRan
  <2>6. CASE LlmCompletes(r) \/ LlmReturns(r)
    <3>1. 0 \in 0..MaxTokens
      BY TokensAssumption
    <3> QED
      BY <2>6, <3>1 DEF LlmCompletes, LlmReturns, LlmDone
  <2>7. CASE LlmCompleting(r)
    BY <2>7 DEF LlmCompleting
  <2> QED
    BY <1>4, <2>1, <2>2, <2>3, <2>4, <2>5, <2>6, <2>7 DEF LlmTaskStep
<1> QED
  BY <1>1, <1>2, <1>3, <1>4 DEF LlmOperation

\* No reply starts to generate.
LlmCalm ==
  /\ llm_task' = llm_task
  /\ \A r \in Reply : /\ Generates(r)' => Generates(r)
                      /\ llm_pc'[r] = "none" <=> llm_pc[r] = "none"

\* A cancellation and a task's steps do not.
LEMMA LlmCalms ==
  ASSUME LlmTypeOK, UNCHANGED llmVars \/ Cancel \/ \E r \in Reply : LlmTaskStep(r)
  PROVE  LlmCalm
<1> USE DEF LlmTypeOK, LlmCalm, Generates
<1>1. CASE UNCHANGED llmVars
  BY <1>1 DEF llmVars
<1>2. CASE Cancel
  BY <1>2 DEF Cancel, CancelGeneration
<1>3. ASSUME NEW r \in Reply, LlmTaskStep(r) PROVE LlmCalm
  <2>1. CASE LlmFirstStep(r)
    BY <2>1 DEF LlmFirstStep, LlmGoes
  <2>2. CASE LlmToken(r)
    BY <2>2 DEF LlmToken, LlmGoes
  <2>3. CASE LlmPartialSent(r) \/ LlmStreamEnds(r)
    BY <2>3 DEF LlmPartialSent, LlmStreamEnds, LlmGoes
  <2>4. CASE LlmFails(r)
    BY <2>4 DEF LlmFails, LlmGoes
  <2>5. CASE LlmInterrupted(r) \/ LlmNeverRan(r)
    BY <2>5 DEF LlmInterrupted, LlmNeverRan
  <2>6. CASE LlmCompletes(r) \/ LlmReturns(r)
    BY <2>6 DEF LlmCompletes, LlmReturns, LlmDone, LlmAtFinally
  <2>7. CASE LlmCompleting(r)
    BY <2>7 DEF LlmCompleting, LlmAtFinally
  <2> QED
    BY <1>3, <2>1, <2>2, <2>3, <2>4, <2>5, <2>6, <2>7 DEF LlmTaskStep
<1> QED
  BY <1>1, <1>2, <1>3

-----------------------------------------------------------------------------
(* The TTS consumer *)

\* The steps of the TTS task of reply r.
TtsTaskStep(r) ==
  \/ TtsFirstStep(r) \/ TtsGets(r) \/ TtsSegmentEnds(r) \/ TtsFrame(r) \/ TtsFrameSent(r)
  \/ TtsSent(r) \/ TtsFails(r) \/ TtsInterrupted(r) \/ TtsAbandoned(r)
  \/ (\E waits \in BOOLEAN : TtsPlaybackEnds(r, waits)) \/ TtsReturns(r)

\* What a task keeps while it gets its next segment.
LEMMA NextSegmentTypes ==
  ASSUME TtsTypeOK, NEW r \in Reply, NextSegment(r)
  PROVE  /\ tts_pc' \in [Reply -> TtsPc]
         /\ tts_queue' \in [Reply -> Seq(Reply \cup {None})]
         /\ tts_left' \in [Reply -> 0..MaxAudio]
<1> USE DEF TtsTypeOK, TtsPc
<1>1. CASE tts_queue[r] = <<>>
  BY <1>1 DEF NextSegment
<1>2. CASE tts_queue[r] # <<>>
  <2>1. Tail(tts_queue[r]) \in Seq(Reply \cup {None})
    BY <1>2
  <2>2. tts_queue' = [tts_queue EXCEPT ![r] = Tail(@)]
    BY <1>2 DEF NextSegment
  <2>3. tts_queue' \in [Reply -> Seq(Reply \cup {None})]
    BY <2>1, <2>2
  <2>4. CASE Head(tts_queue[r]) = None
    BY <1>2, <2>3, <2>4 DEF NextSegment, AllSent
  <2>5. CASE Head(tts_queue[r]) # None
    BY <1>2, <2>3, <2>5 DEF NextSegment
  <2> QED
    BY <2>4, <2>5
<1> QED
  BY <1>1, <1>2

LEMMA TtsTaskTypes ==
  ASSUME TtsTypeOK, NEW r \in Reply, TtsTaskStep(r)
  PROVE  TtsTypeOK'
<1>1. CASE TtsFirstStep(r) \/ TtsGets(r) \/ TtsSegmentEnds(r)
  <2>1. NextSegment(r) /\ TtsKeeps /\ UNCHANGED <<audio_sent, tts_frames, tts_interrupted>>
    BY <1>1 DEF TtsFirstStep, TtsGets, TtsSegmentEnds
  <2> QED
    BY <2>1, NextSegmentTypes DEF TtsTypeOK, TtsKeeps
<1> USE DEF TtsTypeOK, TtsPc
<1>2. CASE TtsFrame(r)
  BY <1>2, AudioAssumption DEF TtsFrame, TtsKeeps
<1>3. CASE TtsFrameSent(r)
  BY <1>3 DEF TtsFrameSent, TtsKeeps
<1>4. CASE TtsSent(r)
  <2>1. TtsAfter[tts_pc[r]] \in TtsPc
    BY <1>4 DEF TtsSent, TtsAt, TtsAfter
  <2> QED
    BY <1>4, <2>1 DEF TtsSent, TtsKeeps
<1>5. CASE TtsFails(r)
  BY <1>5 DEF TtsFails, TtsKeeps
<1>6. CASE TtsInterrupted(r)
  BY <1>6 DEF TtsInterrupted
<1>7. <<>> \in Seq(Reply \cup {None}) /\ 0 \in 0..MaxAudio
  BY AudioAssumption
<1>8. CASE TtsAbandoned(r)
  BY <1>7, <1>8 DEF TtsAbandoned, TtsDone
<1>9. ASSUME NEW waits \in BOOLEAN, TtsPlaybackEnds(r, waits)
      PROVE  TtsTypeOK'
  BY <1>7, <1>9 DEF TtsPlaybackEnds, TtsDone, TtsKeeps
<1>10. CASE TtsReturns(r)
  BY <1>7, <1>10 DEF TtsReturns, TtsDone, TtsKeeps
<1> QED
  BY <1>1, <1>2, <1>3, <1>4, <1>5, <1>6, <1>8, <1>9, <1>10 DEF TtsTaskStep

\* What a session does to the TTS consumer in one step.
TtsOperation ==
  \/ UNCHANGED ttsVars \/ Finish
  \/ \E r \in Reply : \/ \E text \in Seq(Reply \cup {None}) : Begin(r, text)
                      \/ Speak(r) \/ TtsTaskStep(r)
  \/ \E c \in Callers : StopCancels(c) \/ StopEnds(c)

\* Every operation on the TTS consumer and every step of its tasks keeps its type.
LEMMA TtsTypes ==
  ASSUME TtsTypeOK, TtsOperation
  PROVE  TtsTypeOK'
<1> USE DEF TtsTypeOK
<1>1. CASE UNCHANGED ttsVars
  BY <1>1 DEF ttsVars, ttsTaskVars
<1>2. ASSUME NEW r \in Reply, NEW text \in Seq(Reply \cup {None}), Begin(r, text)
      PROVE  TtsTypeOK'
  BY <1>2 DEF Begin, TtsPc
<1>3. ASSUME NEW x \in Reply \cup {None},
             tts_queue' = IF IsActive THEN [tts_queue EXCEPT ![tts_task] = Append(@, x)]
                                      ELSE tts_queue
      PROVE  tts_queue' \in [Reply -> Seq(Reply \cup {None})]
  <2>1. CASE ~IsActive
    BY <1>3, <2>1
  <2>2. CASE IsActive
    <3>1. tts_task \in Reply
      BY <2>2 DEF IsActive
    <3>2. Append(tts_queue[tts_task], x) \in Seq(Reply \cup {None})
      BY <3>1
    <3> QED
      BY <1>3, <2>2, <3>1, <3>2
  <2> QED
    BY <2>1, <2>2
<1>4. ASSUME NEW r \in Reply, Speak(r) PROVE TtsTypeOK'
  BY <1>3, <1>4 DEF Speak
<1>5. CASE Finish
  BY <1>3, <1>5 DEF Finish
<1>6. ASSUME NEW c \in Callers, StopCancels(c) PROVE TtsTypeOK'
  BY <1>6 DEF StopCancels, IsActive
<1>7. ASSUME NEW c \in Callers, StopEnds(c) PROVE TtsTypeOK'
  BY <1>7 DEF StopEnds, ttsTaskVars, NoStop
<1> QED
  BY <1>1, <1>2, <1>4, <1>5, <1>6, <1>7, TtsTaskTypes DEF TtsOperation
-----------------------------------------------------------------------------
(* What is spoken *)

\* Audio is only counted in a task that runs.
Framed == \A r \in Reply : tts_frames[r] => TtsRuns(r)

\* The reply's task has nothing to say yet: it waits for text.
Waiting(r) ==
  /\ tts_pc[r] \in {"new", "get"} /\ ~tts_frames[r]
  /\ \A i \in DOMAIN tts_queue[r] : tts_queue[r][i] = None

\* No reply is begun, and none that was stopped speaks again.
TtsCalm ==
  /\ tts_task' = tts_task
  /\ \A r \in Reply : /\ TtsRuns(r)' => TtsRuns(r)
                      /\ Audible(r)' => Audible(r)
  /\ Framed'

\* Nor does one get something to say.
StaysWaiting == \A r \in Reply : Audible(r)' /\ Waiting(r) => Waiting(r)'

\* A task that has nothing to say and no text is waiting or ends.
LEMMA NextSegmentWaits ==
  ASSUME TtsTypeOK, NEW r \in Reply, NextSegment(r), Waiting(r), ~tts_cancelled[r],
         UNCHANGED <<tts_frames, tts_cancelled>>, Speaking(r)'
  PROVE  Waiting(r)'
<1> USE DEF TtsTypeOK
<1>1. tts_queue[r] = <<>>
  <2>1. SUFFICES ASSUME tts_queue[r] # <<>> PROVE FALSE
    OBVIOUS
  <2>2. 1 \in DOMAIN tts_queue[r] /\ Head(tts_queue[r]) = tts_queue[r][1]
    BY <2>1
  <2>3. Head(tts_queue[r]) = None
    BY <2>2 DEF Waiting
  <2>4. AllSent(r) /\ ~tts_frames[r]
    BY <2>1, <2>3 DEF NextSegment, Waiting
  <2>5. tts_pc'[r] = "metrics"
    BY <2>4 DEF AllSent
  <2> QED
    BY <2>5 DEF Speaking
<1>2. tts_pc'[r] = "get" /\ tts_queue' = tts_queue
  BY <1>1 DEF NextSegment
<1> QED
  BY <1>2 DEF Waiting

LEMMA NextSegmentCalms ==
  ASSUME TtsTypeOK, NEW r \in Reply, NextSegment(r)
  PROVE  /\ tts_pc'[r] \in {"get", "synth", "drain", "end", "metrics"}
         /\ \A s \in Reply \ {r} : tts_pc'[s] = tts_pc[s] /\ tts_queue'[s] = tts_queue[s]
<1> USE DEF TtsTypeOK
<1>1. CASE tts_queue[r] = <<>>
  BY <1>1 DEF NextSegment
<1>2. CASE tts_queue[r] # <<>> /\ Head(tts_queue[r]) = None
  BY <1>2 DEF NextSegment, AllSent
<1>3. CASE tts_queue[r] # <<>> /\ Head(tts_queue[r]) # None
  BY <1>3 DEF NextSegment
<1> QED
  BY <1>1, <1>2, <1>3

\* The steps of a reply's own task leave every other reply alone and never make
\* a reply audible.
LEMMA TtsTaskCalms ==
  ASSUME TtsTypeOK, Framed, NEW r \in Reply, TtsTaskStep(r)
  PROVE  TtsCalm /\ StaysWaiting /\ UNCHANGED stopping /\ TtsRuns(r)
<1> USE DEF TtsTypeOK, TtsCalm, Framed, TtsRuns, Audible, Speaking, StaysWaiting
<1>1. CASE TtsFirstStep(r) \/ TtsGets(r) \/ TtsSegmentEnds(r)
  <2>1. /\ NextSegment(r) /\ tts_pc[r] \in {"new", "get", "synth"} /\ ~tts_cancelled[r]
        /\ UNCHANGED <<tts_task, tts_cancelled, stopping, tts_frames>>
    BY <1>1 DEF TtsFirstStep, TtsGets, TtsSegmentEnds, TtsKeeps, TtsAt
  <2>2. /\ tts_pc'[r] \in {"get", "synth", "drain", "end", "metrics"}
        /\ \A s \in Reply \ {r} : tts_pc'[s] = tts_pc[s] /\ tts_queue'[s] = tts_queue[s]
    BY <2>1, NextSegmentCalms
  <2>3. Audible(r)' /\ Waiting(r) => Waiting(r)'
    BY <2>1, NextSegmentWaits
  <2>4. ASSUME NEW s \in Reply \ {r} PROVE Waiting(s) => Waiting(s)'
    BY <2>1, <2>2 DEF Waiting
  <2> QED
    BY <2>1, <2>2, <2>3, <2>4
<1> USE DEF Waiting
<1>2. CASE TtsFrame(r)
  BY <1>2 DEF TtsFrame, TtsKeeps, TtsAt
<1>3. CASE TtsFrameSent(r)
  BY <1>3 DEF TtsFrameSent, TtsKeeps, TtsAt
<1>4. CASE TtsSent(r)
  BY <1>4 DEF TtsSent, TtsKeeps, TtsAt, TtsAfter
<1>5. CASE TtsFails(r)
  BY <1>5 DEF TtsFails, TtsKeeps, TtsAt
<1>6. CASE TtsInterrupted(r)
  BY <1>6 DEF TtsInterrupted
<1>7. CASE TtsAbandoned(r)
  BY <1>7 DEF TtsAbandoned, TtsDone
<1>8. ASSUME NEW waits \in BOOLEAN, TtsPlaybackEnds(r, waits)
      PROVE  TtsCalm /\ StaysWaiting /\ UNCHANGED stopping /\ TtsRuns(r)
  BY <1>8 DEF TtsPlaybackEnds, TtsDone, TtsKeeps, TtsAt
<1>9. CASE TtsReturns(r)
  BY <1>9 DEF TtsReturns, TtsDone, TtsKeeps, TtsAt
<1> QED
  BY <1>1, <1>2, <1>3, <1>4, <1>5, <1>6, <1>7, <1>8, <1>9 DEF TtsTaskStep

\* Neither do the operations of the consumer other than begin; only speak gives text.
LEMMA SpeakCalms ==
  ASSUME TtsTypeOK, Framed, NEW r \in Reply, Speak(r)
  PROVE  TtsCalm
BY DEF TtsTypeOK, Framed, TtsCalm, TtsRuns, Audible, Speaking, Speak

LEMMA TtsCalms ==
  ASSUME TtsTypeOK, Framed,
         UNCHANGED ttsVars \/ Finish \/ \E c \in Callers : StopCancels(c) \/ StopEnds(c)
  PROVE  TtsCalm /\ StaysWaiting
<1> USE DEF TtsTypeOK, TtsCalm, Framed, TtsRuns, Audible, Speaking, StaysWaiting, Waiting
<1>1. CASE UNCHANGED ttsVars
  BY <1>1 DEF ttsVars, ttsTaskVars
<1>2. CASE Finish
  <2>1. TtsCalm /\ UNCHANGED <<tts_pc, tts_frames>>
    BY <1>2 DEF Finish
  <2>2. ASSUME NEW s \in Reply, \A i \in DOMAIN tts_queue[s] : tts_queue[s][i] = None
        PROVE  \A i \in DOMAIN tts_queue'[s] : tts_queue'[s][i] = None
    <3>1. CASE tts_queue'[s] = tts_queue[s]
      BY <2>2, <3>1
    <3>2. CASE tts_queue'[s] = Append(tts_queue[s], None)
      <4>1. tts_queue[s] \in Seq(Reply \cup {None})
        OBVIOUS
      <4>2. /\ DOMAIN tts_queue'[s] = 1..(Len(tts_queue[s]) + 1)
            /\ \A i \in 1..Len(tts_queue[s]) : tts_queue'[s][i] = tts_queue[s][i]
            /\ tts_queue'[s][Len(tts_queue[s]) + 1] = None
            /\ DOMAIN tts_queue[s] = 1..Len(tts_queue[s]) /\ Len(tts_queue[s]) \in Nat
        BY <3>2, <4>1
      <4>3. ASSUME NEW i \in DOMAIN tts_queue'[s] PROVE tts_queue'[s][i] = None
        <5>1. i \in 1..Len(tts_queue[s]) \/ i = Len(tts_queue[s]) + 1
          BY ONLY <4>2, <4>3
        <5> QED
          BY ONLY <2>2, <4>2, <5>1
      <4> QED
        BY <4>3
    <3> QED
      BY <1>2, <3>1, <3>2 DEF Finish, IsActive
  <2> QED
    BY <2>1, <2>2
<1>3. ASSUME NEW c \in Callers, StopCancels(c) PROVE TtsCalm /\ StaysWaiting
  BY <1>3 DEF StopCancels, IsActive
<1>4. ASSUME NEW c \in Callers, StopEnds(c) PROVE TtsCalm /\ StaysWaiting
  BY <1>4 DEF StopEnds, ttsTaskVars
<1> QED
  BY <1>1, <1>2, <1>3, <1>4

-----------------------------------------------------------------------------
(* The text of a reply *)

\* The reply's task still takes text, and its queue has the end of it.
Early(r) == tts_pc[r] \in {"new", "get", "synth", "start", "bytes"}
Ends(r) == \E i \in DOMAIN tts_queue[r] : tts_queue[r][i] = None

\* A queue with text of reply r, and one with the end of a text.
Own(q, r) == \A i \in DOMAIN q : q[i] \in {r, None} \/ \E j \in 1..(i - 1) : q[j] = None
HasEnd(q) == \E i \in DOMAIN q : q[i] = None

\* A segment, or the end of the text, is queued; the first segment is taken.
LEMMA AppendWords ==
  ASSUME NEW q \in Seq(Reply \cup {None}), NEW x \in Reply \cup {None}, NEW r \in Reply
  PROVE  /\ Own(q, r) /\ (x \in {r, None} \/ HasEnd(q)) => Own(Append(q, x), r)
         /\ HasEnd(q) => HasEnd(Append(q, x))
         /\ HasEnd(Append(q, x)) => HasEnd(q) \/ x = None
<1>1. /\ DOMAIN q = 1..Len(q) /\ Len(q) \in Nat
      /\ DOMAIN Append(q, x) = 1..(Len(q) + 1)
      /\ \A i \in 1..Len(q) : Append(q, x)[i] = q[i]
      /\ Append(q, x)[Len(q) + 1] = x
  OBVIOUS
<1>2. ASSUME HasEnd(q) PROVE HasEnd(Append(q, x))
  <2>1. PICK i \in 1..Len(q) : q[i] = None
    BY <1>1, <1>2 DEF HasEnd
  <2>2. i \in DOMAIN Append(q, x) /\ Append(q, x)[i] = None
    BY <1>1, <2>1
  <2> QED
    BY <2>2 DEF HasEnd
<1>3. ASSUME HasEnd(Append(q, x)) PROVE HasEnd(q) \/ x = None
  <2>1. PICK i \in 1..(Len(q) + 1) : Append(q, x)[i] = None
    BY <1>1, <1>3 DEF HasEnd
  <2>2. i \in 1..Len(q) \/ i = Len(q) + 1
    BY <1>1
  <2> QED
    BY <1>1, <2>1, <2>2 DEF HasEnd
<1>4. ASSUME Own(q, r), x \in {r, None} \/ HasEnd(q) PROVE Own(Append(q, x), r)
  <2> SUFFICES ASSUME NEW i \in 1..(Len(q) + 1)
               PROVE  \/ Append(q, x)[i] \in {r, None}
                      \/ \E j \in 1..(i - 1) : Append(q, x)[j] = None
    BY <1>1 DEF Own
  <2>1. CASE i \in 1..Len(q)
    <3>1. CASE q[i] \in {r, None}
      BY <1>1, <2>1, <3>1
    <3>2. CASE q[i] \notin {r, None}
      <4>1. PICK j \in 1..(i - 1) : q[j] = None
        BY <1>1, <1>4, <2>1, <3>2 DEF Own
      <4>2. j \in 1..Len(q)
        BY <1>1, <2>1, <4>1
      <4> QED
        BY <1>1, <4>1, <4>2
    <3> QED
      BY <3>1, <3>2
  <2>2. CASE i = Len(q) + 1
    <3>1. CASE x \in {r, None}
      BY <1>1, <2>2, <3>1
    <3>2. CASE HasEnd(q)
      <4>1. PICK j \in 1..Len(q) : q[j] = None
        BY <1>1, <3>2 DEF HasEnd
      <4>2. j \in 1..(i - 1) /\ Append(q, x)[j] = None
        BY <1>1, <2>2, <4>1
      <4> QED
        BY <4>2
    <3> QED
      BY <1>4, <3>1, <3>2
  <2> QED
    BY <1>1, <2>1, <2>2
<1> QED
  BY <1>2, <1>3, <1>4

LEMMA TailWords ==
  ASSUME NEW q \in Seq(Reply \cup {None}), NEW r \in Reply, q # <<>>, Head(q) # None
  PROVE  /\ Own(q, r) => Own(Tail(q), r)
         /\ HasEnd(Tail(q)) <=> HasEnd(q)
<1>1. /\ DOMAIN q = 1..Len(q) /\ Len(q) \in Nat \ {0} /\ Head(q) = q[1]
      /\ Tail(q) \in Seq(Reply \cup {None}) /\ Len(Tail(q)) = Len(q) - 1
      /\ \A i \in 1..(Len(q) - 1) : Tail(q)[i] = q[i + 1]
  OBVIOUS
<1>2. DOMAIN Tail(q) = 1..(Len(q) - 1)
  BY <1>1
<1>3. ASSUME HasEnd(Tail(q)) PROVE HasEnd(q)
  <2>1. PICK i \in 1..(Len(q) - 1) : Tail(q)[i] = None
    BY <1>2, <1>3 DEF HasEnd
  <2>2. i + 1 \in 1..Len(q) /\ q[i + 1] = None
    BY <1>1, <2>1
  <2> QED
    BY <1>1, <2>2 DEF HasEnd
<1>4. ASSUME HasEnd(q) PROVE HasEnd(Tail(q))
  <2>1. PICK i \in 1..Len(q) : q[i] = None
    BY <1>1, <1>4 DEF HasEnd
  <2>2. i # 1
    BY <1>1, <2>1
  <2>3. i - 1 \in 1..(Len(q) - 1) /\ (i - 1) + 1 = i
    BY <1>1, <2>2
  <2>4. Tail(q)[i - 1] = None
    BY <1>1, <2>1, <2>3
  <2> QED
    BY <1>2, <2>3, <2>4 DEF HasEnd
<1>5. ASSUME Own(q, r) PROVE Own(Tail(q), r)
  <2> SUFFICES ASSUME NEW i \in 1..(Len(q) - 1), Tail(q)[i] \notin {r, None}
               PROVE  \E j \in 1..(i - 1) : Tail(q)[j] = None
    BY <1>2 DEF Own
  <2>1. i + 1 \in 1..Len(q) /\ q[i + 1] \notin {r, None} /\ (i + 1) - 1 = i
    BY <1>1
  <2>2. PICK j \in 1..i : q[j] = None
    BY <1>1, <1>5, <2>1 DEF Own
  <2>3. j # 1
    BY <1>1, <2>2
  <2>4. j - 1 \in 1..(i - 1) /\ j - 1 \in 1..(Len(q) - 1) /\ (j - 1) + 1 = j
    BY <1>1, <2>3
  <2>5. Tail(q)[j - 1] = None
    BY <1>1, <2>2, <2>4
  <2> QED
    BY <2>4, <2>5
<1> QED
  BY <1>3, <1>4, <1>5

\* A reply's task leaves the other replies alone.
LEMMA TtsTaskOthers ==
  ASSUME TtsTypeOK, NEW r \in Reply, TtsTaskStep(r)
  PROVE  /\ tts_task' = tts_task
         /\ \A s \in Reply \ {r} : /\ tts_pc'[s] = tts_pc[s] /\ tts_queue'[s] = tts_queue[s]
                                   /\ tts_cancelled'[s] = tts_cancelled[s]
                                   /\ tts_interrupted'[s] = tts_interrupted[s]
<1> USE DEF TtsTypeOK
<1>1. CASE TtsFirstStep(r) \/ TtsGets(r) \/ TtsSegmentEnds(r)
  <2>1. NextSegment(r) /\ UNCHANGED <<tts_task, tts_cancelled, tts_interrupted>>
    BY <1>1 DEF TtsFirstStep, TtsGets, TtsSegmentEnds, TtsKeeps
  <2> QED
    BY <2>1, NextSegmentCalms
<1>2. CASE TtsFrame(r) \/ TtsFrameSent(r) \/ TtsSent(r) \/ TtsFails(r) \/ TtsInterrupted(r)
  BY <1>2 DEF TtsFrame, TtsFrameSent, TtsSent, TtsFails, TtsInterrupted, TtsKeeps
<1>3. CASE TtsAbandoned(r) \/ TtsReturns(r) \/ \E waits \in BOOLEAN : TtsPlaybackEnds(r, waits)
  BY <1>3 DEF TtsAbandoned, TtsReturns, TtsPlaybackEnds, TtsDone, TtsKeeps
<1> QED
  BY <1>1, <1>2, <1>3 DEF TtsTaskStep

\* No step but begin and start_generation creates a task of a reply.
LEMMA TasksCreated ==
  ASSUME TtsTypeOK, NEW r \in Reply, TtsTaskStep(r)
  PROVE  \A s \in Reply : tts_pc'[s] = "none" <=> tts_pc[s] = "none"
<1> USE DEF TtsTypeOK
<1>2. CASE TtsFirstStep(r) \/ TtsGets(r) \/ TtsSegmentEnds(r)
  <2>1. NextSegment(r) /\ tts_pc[r] # "none"
    BY <1>2 DEF TtsFirstStep, TtsGets, TtsSegmentEnds, TtsAt
  <2> QED
    BY <2>1, NextSegmentCalms
<1>3. CASE TtsFrame(r) \/ TtsFrameSent(r) \/ TtsSent(r) \/ TtsFails(r) \/ TtsInterrupted(r)
  BY <1>3 DEF TtsFrame, TtsFrameSent, TtsSent, TtsFails, TtsInterrupted, TtsAt, TtsAfter
<1>4. CASE TtsAbandoned(r) \/ TtsReturns(r) \/ \E waits \in BOOLEAN : TtsPlaybackEnds(r, waits)
  BY <1>4 DEF TtsAbandoned, TtsReturns, TtsPlaybackEnds, TtsDone, TtsAt
<1> QED
  BY <1>2, <1>3, <1>4 DEF TtsTaskStep

-----------------------------------------------------------------------------
(* The tasks of a session whose code has the steps P *)

LocalsOf(P) == [text: Texts, reply: Reply \cup {None}, ret: P, after: P]

PlacedIn(P) ==
  /\ loop \in Callers \cup {Idle}
  /\ pc \in [Callers -> P]
  /\ local \in [Callers -> LocalsOf(P)]

\* A task moves.
LEMMA TaskMoves ==
  ASSUME NEW P, PlacedIn(P), NEW c \in Callers, NEW to \in P, RunsOn(c, to) \/ Suspends(c, to)
  PROVE  /\ pc' \in [Callers -> P] /\ loop' \in {c, Idle}
         /\ pc'[c] = to /\ \A d \in Callers \ {c} : pc'[d] = pc[d]
BY DEF PlacedIn, RunsOn, Suspends

\* Updates of a task's locals.
LEMMA LocalUpdated ==
  ASSUME NEW P, Idle \in P, local \in [Callers -> LocalsOf(P)], NEW c \in Callers
  PROVE  /\ \A x \in P : /\ [local EXCEPT ![c].ret = x] \in [Callers -> LocalsOf(P)]
                         /\ [local EXCEPT ![c].after = x] \in [Callers -> LocalsOf(P)]
         /\ \A x \in Texts : [local EXCEPT ![c].text = x] \in [Callers -> LocalsOf(P)]
         /\ \A x \in Reply \cup {None} :
              [local EXCEPT ![c].reply = x] \in [Callers -> LocalsOf(P)]
         /\ \A x \in Reply \cup {None}, y \in P :
              [local EXCEPT ![c].reply = x, ![c].after = y] \in [Callers -> LocalsOf(P)]
         /\ [local EXCEPT ![c] = NoLocals] \in [Callers -> LocalsOf(P)]
<1>1. ASSUME NEW x \in P
      PROVE  /\ [local EXCEPT ![c].ret = x] \in [Callers -> LocalsOf(P)]
             /\ [local EXCEPT ![c].after = x] \in [Callers -> LocalsOf(P)]
  BY DEF LocalsOf
<1>2. ASSUME NEW x \in Texts PROVE [local EXCEPT ![c].text = x] \in [Callers -> LocalsOf(P)]
  BY DEF LocalsOf
<1>3. ASSUME NEW x \in Reply \cup {None}
      PROVE  [local EXCEPT ![c].reply = x] \in [Callers -> LocalsOf(P)]
  BY DEF LocalsOf
<1>4. ASSUME NEW x \in Reply \cup {None}, NEW y \in P
      PROVE  [local EXCEPT ![c].reply = x, ![c].after = y] \in [Callers -> LocalsOf(P)]
  BY DEF LocalsOf
<1>5. [local EXCEPT ![c] = NoLocals] \in [Callers -> LocalsOf(P)]
  <2>1. NoLocals \in LocalsOf(P)
    BY DEF NoLocals, LocalsOf, Texts
  <2> QED
    BY <2>1
<1> QED
  BY <1>1, <1>2, <1>3, <1>4, <1>5

\* A task returns, or a callback does to the code that called it.
LEMMA TaskReturns ==
  ASSUME NEW P, Idle \in P, PlacedIn(P), NEW c \in Callers, Returns(c) \/ ReturnsTo(c)
  PROVE  PlacedIn(P)'
<1>1. CASE Returns(c)
  <2>1. pc' \in [Callers -> P] /\ loop' \in Callers \cup {Idle}
    BY <1>1, TaskMoves DEF Returns
  <2>2. local' \in [Callers -> LocalsOf(P)]
    BY <1>1, LocalUpdated DEF Returns, PlacedIn
  <2> QED
    BY <2>1, <2>2 DEF PlacedIn, LocalsOf
<1>2. CASE ReturnsTo(c) /\ ~Returns(c)
  <2>1. local[c].ret \in P
    BY DEF PlacedIn, LocalsOf
  <2>2. RunsOn(c, local[c].ret) /\ local' = [local EXCEPT ![c].ret = Idle]
    BY <1>2 DEF ReturnsTo
  <2>3. local' \in [Callers -> LocalsOf(P)]
    BY <2>1, <2>2, LocalUpdated DEF PlacedIn
  <2>4. pc' \in [Callers -> P] /\ loop' \in Callers \cup {Idle}
    BY <2>1, <2>2, TaskMoves
  <2> QED
    BY <2>3, <2>4 DEF PlacedIn, LocalsOf
<1> QED
  BY <1>1, <1>2

\* A task stops the speech.
LEMMA TaskStops ==
  ASSUME NEW P, {Idle, "gather"} \subseteq P, PlacedIn(P), NEW c \in Callers, NEW next \in P,
         Stops(c, next)
  PROVE  PlacedIn(P)' /\ TtsOperation
<1>1. CASE StopWaits(c) /\ local' = [local EXCEPT ![c].after = next]
  <2>1. pc' \in [Callers -> P] /\ loop' \in Callers \cup {Idle}
    BY <1>1, TaskMoves DEF StopWaits
  <2>2. local' \in [Callers -> LocalsOf(P)]
    BY <1>1, LocalUpdated DEF PlacedIn
  <2> QED
    BY <1>1, <2>1, <2>2 DEF StopWaits, TtsOperation, PlacedIn, LocalsOf
<1>2. CASE StopNeedless /\ RunsOn(c, next) /\ UNCHANGED local
  BY <1>2, TaskMoves DEF StopNeedless, TtsOperation, PlacedIn, LocalsOf
<1> QED
  BY <1>1, <1>2 DEF Stops

\* gather or tts_clear: the stop goes on or returns.
LEMMA TaskStopWent ==
  ASSUME NEW P, {Idle, "clear"} \subseteq P, PlacedIn(P), NEW c \in Callers,
         StopJoins(c) \/ StopClears(c)
  PROVE  PlacedIn(P)' /\ TtsOperation
<1>1. CASE Suspends(c, "clear") /\ UNCHANGED <<ttsVars, local>>
  BY <1>1, TaskMoves DEF TtsOperation, PlacedIn, LocalsOf
<1>2. CASE StopReturns(c)
  <2>1. local[c].after \in P
    BY DEF PlacedIn, LocalsOf
  <2>2. local' \in [Callers -> LocalsOf(P)]
    BY <1>2, <2>1, LocalUpdated DEF StopReturns, PlacedIn
  <2>3. RunsOn(c, local[c].after) \/ Suspends(c, local[c].after)
    BY <1>2 DEF StopReturns
  <2>4. pc' \in [Callers -> P] /\ loop' \in Callers \cup {Idle}
    BY <2>1, <2>3, TaskMoves
  <2> QED
    BY <1>2, <2>2, <2>4 DEF StopReturns, TtsOperation, PlacedIn, LocalsOf
<1> QED
  BY <1>1, <1>2 DEF StopJoins, StopClears

\* The history keeps its type and its bound.
HistoryOK ==
  history \in Seq({"user", "assistant"} \X Reply) /\ Len(history) <= 2 * HistoryTurns

LEMMA Remembered ==
  ASSUME HistoryOK, NEW role \in {"user", "assistant"}, NEW r \in Reply, Remember(role, r)
  PROVE  HistoryOK'
<1> DEFINE Entry == {"user", "assistant"} \X Reply
           all == Append(history, <<role, r>>)
           overflow == Len(all) - 2 * HistoryTurns
<1>1. history \in Seq(Entry) /\ Len(history) <= 2 * HistoryTurns /\ <<role, r>> \in Entry
  BY DEF HistoryOK
<1> HIDE DEF Entry
<1>2. all \in Seq(Entry) /\ Len(all) = Len(history) + 1
  BY ONLY <1>1
<1>3. /\ HistoryTurns \in Nat /\ Len(history) \in Nat
      /\ history' = IF HistoryTurns = 0 THEN history
                    ELSE IF overflow > 0 THEN SubSeq(all, overflow + 1, Len(all)) ELSE all
  BY <1>1, HistoryAssumption DEF Remember
<1> HIDE DEF all
<1>4. CASE HistoryTurns = 0 \/ ~(overflow > 0)
  <2>1. history' \in Seq(Entry) /\ Len(history') <= 2 * HistoryTurns
    BY <1>1, <1>2, <1>3, <1>4
  <2> QED
    BY <2>1 DEF Entry, HistoryOK
<1>5. CASE HistoryTurns # 0 /\ overflow > 0
  <2>1. overflow + 1 \in 1..Len(all) /\ Len(all) - (overflow + 1) + 1 = 2 * HistoryTurns
    BY <1>1, <1>2, <1>3, <1>5
  <2> HIDE DEF overflow
  <2>2. SubSeq(all, overflow + 1, Len(all)) \in Seq(Entry)
    BY <1>2, <2>1
  <2>3. Len(SubSeq(all, overflow + 1, Len(all))) = Len(all) - (overflow + 1) + 1
    BY <1>2, <2>1
  <2> QED
    BY <1>3, <1>5, <2>1, <2>2, <2>3 DEF Entry, HistoryOK
<1> QED
  BY <1>4, <1>5 DEF Entry, HistoryOK
=============================================================================
