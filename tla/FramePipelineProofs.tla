------------------------ MODULE FramePipelineProofs ------------------------
(***************************************************************************)
(* The safety properties of FramePipeline, proved for queues of any size   *)
(* and any number of frames.                                               *)
(***************************************************************************)
EXTENDS FramePipeline, Integers, TLAPS

(* Type correctness *)

\* The part of TypeOK about sequences and numbers; the flags are apart because
\* no backend handles Booleans and sequences in one leaf.
DataTypeOK == QueueTypeOK /\ DispTypeOK /\ SttTypeOK /\ WsTypeOK

LEMMA TypeInit == Init => TypeOK
  <1> SUFFICES ASSUME Init PROVE TypeOK
    OBVIOUS
  <1> USE SizesAssumption DEF SizesAssumption, Init
  <1>1. QueueTypeOK BY DEF QueueTypeOK
  <1>2. DispTypeOK  BY DEF DispTypeOK, None
  <1>3. SttTypeOK   BY DEF SttTypeOK, None
  <1>4. WsTypeOK    BY DEF WsTypeOK
  <1>5. FlagTypeOK  BY DEF FlagTypeOK
  <1> QED BY <1>1, <1>2, <1>3, <1>4, <1>5 DEF TypeOK

\* The loop heads, which several actions share.
LEMMA DispLoopHeadType ==
  ASSUME DataTypeOK, DispLoopHead
  PROVE  /\ QueueTypeOK'
         /\ disp_pc' \in {"callback", "waiting", "done"}
         /\ disp_frame' \in Frames \cup {None}
  <1>1. CASE queue # <<>> /\ Dequeue /\ disp_frame' = Head(queue) /\ disp_pc' = "callback"
    <2>1. queue' \in Seq(Frames) /\ Len(queue') <= MaxSize /\ Head(queue) \in Frames
      BY <1>1, SizesAssumption DEF SizesAssumption, DataTypeOK, QueueTypeOK, Dequeue
    <2> QED BY <1>1, <2>1 DEF DataTypeOK, QueueTypeOK, Dequeue
  <1>2. CASE DequeueNone /\ disp_pc' = "waiting" /\ UNCHANGED disp_frame
    BY <1>2 DEF DataTypeOK, QueueTypeOK, DispTypeOK, DequeueNone
  <1>3. CASE UNCHANGED <<queueVars, disp_frame>> /\ disp_pc' = "done"
    BY <1>3 DEF DataTypeOK, QueueTypeOK, DispTypeOK, queueVars
  <1> QED BY <1>1, <1>2, <1>3 DEF DispLoopHead

LEMMA SttLoopHeadType ==
  ASSUME DataTypeOK, SttLoopHead
  PROVE  /\ stt_queue' \in Seq(Frames \cup {None}) /\ Len(stt_queue') <= SttMaxSize
         /\ stt_pc' \in {"engine", "get", "done"}
         /\ stt_frame' \in Frames \cup {None}
  BY SizesAssumption DEF SizesAssumption, DataTypeOK, SttTypeOK, SttLoopHead, SttTake

LEMMA FlagStep == FlagTypeOK /\ [Next]_vars => FlagTypeOK'
  <1> SUFFICES ASSUME FlagTypeOK, [Next]_vars PROVE FlagTypeOK'
    OBVIOUS
  <1> USE DEF FlagTypeOK, queueVars, dispVars, sttVars
  <1>1. CASE DispNext
    BY <1>1 DEF DispNext, DispIterate, DispWake, DispIdleTimeout, DispCallbackReturns, SttProcessFrame,
       DispCallbackRaises, DispCancelled, DispLoopHead, Dequeue, DequeueNone
  <1>2. CASE SttNext
    BY <1>2 DEF SttNext, SttFirstStep, SttGet, SttFrameDone, SttFrameFails, SttCancelled
  <1>3. CASE WsNext
    BY <1>3 DEF WsNext, WsStart, WsProvidersUnavailable, WsReceiveFrame, Enqueue, WsDisconnect,
       WsTeardown, WsStopStt, WsFinalized, WsSignalled, WsSttTimeout, WsSttJoined,
       WsEngineClosed, WsDispTimeout, WsReleased
  <1>4. CASE UNCHANGED vars
    BY <1>4 DEF vars
  <1> QED BY <1>1, <1>2, <1>3, <1>4 DEF Next

LEMMA DataStep == DataTypeOK /\ [Next]_vars => DataTypeOK'
  <1> SUFFICES ASSUME DataTypeOK, [Next]_vars PROVE DataTypeOK'
    OBVIOUS
  <1> USE SizesAssumption DEF SizesAssumption, DataTypeOK, WsTypeOK, queueVars, dispVars, sttVars
  <1>1. CASE DispNext
    <2>1. CASE DispIterate \/ DispWake \/ DispIdleTimeout
      BY <2>1, DispLoopHeadType DEF DispIterate, DispWake, DispIdleTimeout, DispTypeOK, SttTypeOK
    <2>2. CASE DispCallbackReturns
      <3>1. QueueTypeOK' /\ DispTypeOK' /\ WsTypeOK'
        BY <2>2 DEF DispCallbackReturns, QueueTypeOK, DispTypeOK
      <3>2. CASE SttIsRunning
        BY <2>2, <3>1, <3>2 DEF DispCallbackReturns, SttProcessFrame, DispTypeOK, SttTypeOK
      <3>3. CASE ~SttIsRunning
        BY <2>2, <3>1, <3>3 DEF DispCallbackReturns, DispTypeOK, SttTypeOK
      <3> QED BY <3>2, <3>3
    <2>3. CASE DispCallbackRaises
      BY <2>3 DEF DispCallbackRaises, QueueTypeOK, DispTypeOK, SttTypeOK
    <2>4. CASE DispCancelled
      BY <2>4 DEF DispCancelled, QueueTypeOK, DispTypeOK, SttTypeOK
    <2> QED BY <1>1, <2>1, <2>2, <2>3, <2>4 DEF DispNext
  <1>2. CASE SttNext
    <2>1. CASE SttFirstStep \/ SttFrameDone \/ SttFrameFails
      <3>1. SttLoopHead /\ UNCHANGED <<queueVars, dispVars, ws_pc, stt_frames_dropped>>
        BY <2>1 DEF SttFirstStep, SttFrameDone, SttFrameFails
      <3>2. frames_processed' \in Nat /\ stt_lost' \in Nat
        BY <2>1 DEF SttFirstStep, SttFrameDone, SttFrameFails, SttTypeOK
      <3> QED BY <3>1, <3>2, SttLoopHeadType DEF QueueTypeOK, DispTypeOK, SttTypeOK
    <2>2. CASE SttGet
      BY <2>2 DEF SttGet, SttTake, QueueTypeOK, DispTypeOK, SttTypeOK
    <2>3. CASE SttCancelled
      BY <2>3 DEF SttCancelled, QueueTypeOK, DispTypeOK, SttTypeOK
    <2> QED BY <1>2, <2>1, <2>2, <2>3 DEF SttNext
  <1>3. CASE WsReceiveFrame
    <2>1. frames_enqueued + 1 \in Frames
      BY <1>3 DEF WsReceiveFrame, QueueTypeOK, Frames
    <2>2. QueueTypeOK'
      BY <1>3, <2>1 DEF WsReceiveFrame, Enqueue, AppendDropOldest, QueueTypeOK
    <2> QED BY <1>3, <2>2 DEF WsReceiveFrame, DispTypeOK, SttTypeOK
  <1>4. CASE WsStart \/ WsProvidersUnavailable \/ WsDisconnect
    BY <1>4 DEF WsStart, WsProvidersUnavailable, WsDisconnect, QueueTypeOK, DispTypeOK, SttTypeOK
  <1>5. CASE WsTeardown
    <2>1. CASE WsFinalized \/ WsSignalled
      <3>1. \/ PutShutdownSignal
            \/ UNCHANGED stt_queue /\ ws_pc' = "signalling"
        BY <2>1 DEF WsFinalized, WsSignalled
      <3>2. UNCHANGED <<queueVars, dispVars, stt_running, stt_pc, stt_frame, stt_cancelled,
                        frames_processed, stt_frames_dropped, engine_closed, stt_lost>>
        BY <2>1 DEF WsFinalized, WsSignalled
      <3>3. QueueTypeOK' /\ DispTypeOK'
        BY <3>2 DEF QueueTypeOK, DispTypeOK
      <3>4. stt_queue' \in Seq(Frames \cup {None}) /\ Len(stt_queue') <= SttMaxSize
        BY <3>1 DEF PutShutdownSignal, SttTypeOK
      <3> QED BY <3>1, <3>2, <3>3, <3>4 DEF PutShutdownSignal, SttTypeOK
    <2>2. CASE WsStopStt \/ WsSttTimeout \/ WsSttJoined
      BY <2>2 DEF WsStopStt, WsSttTimeout, WsSttJoined, QueueTypeOK, DispTypeOK, SttTypeOK
    <2>3. CASE WsEngineClosed \/ WsDispTimeout \/ WsReleased
      BY <2>3 DEF WsEngineClosed, WsDispTimeout, WsReleased, QueueTypeOK, DispTypeOK, SttTypeOK
    <2> QED BY <1>5, <2>1, <2>2, <2>3 DEF WsTeardown
  <1>6. CASE UNCHANGED vars
    BY <1>6 DEF vars, QueueTypeOK, DispTypeOK, SttTypeOK
  <1> QED BY <1>1, <1>2, <1>3, <1>4, <1>5, <1>6 DEF Next, WsNext

LEMMA TypeStep == TypeOK /\ [Next]_vars => TypeOK'
  BY FlagStep, DataStep DEF TypeOK, DataTypeOK

\* Every reachable state of the pipeline is well typed and both queues respect
\* their bounds.
THEOREM TypeCorrect == Spec => []TypeOK
  BY TypeInit, TypeStep, PTL DEF Spec

-----------------------------------------------------------------------------
(* The audio queue is a gapless window of the latest frames, and its event   *)
(* is set exactly while it is not empty.                                     *)

Window == FreshestFrames /\ WakeupArmed

\* Only enqueue and dequeue touch the queue.
LEMMA QueueTouched ==
  [Next]_vars => DispLoopHead \/ WsReceiveFrame \/ UNCHANGED queueVars
  BY DEF Next, DispNext, SttNext, WsNext, WsTeardown, vars, DispIterate, DispWake,
     DispIdleTimeout, DispCallbackReturns, DispCallbackRaises, DispCancelled,
     SttFirstStep, SttGet, SttFrameDone, SttFrameFails, SttCancelled,
     WsStart, WsProvidersUnavailable, WsDisconnect, WsStopStt, WsFinalized, WsSignalled,
     WsSttTimeout, WsSttJoined, WsEngineClosed, WsDispTimeout, WsReleased

LEMMA WindowStep == TypeOK /\ Window /\ [Next]_vars => Window'
  <1> SUFFICES ASSUME DataTypeOK, FreshestFrames, WakeupArmed, [Next]_vars
               PROVE  FreshestFrames' /\ WakeupArmed'
    BY DEF TypeOK, DataTypeOK, Window
  <1> USE SizesAssumption DEF SizesAssumption, DataTypeOK, QueueTypeOK
  <1>1. CASE DispLoopHead
    <2>1. FreshestFrames'
      <3>1. CASE Dequeue /\ queue # <<>>
        <4>1. /\ queue' = Tail(queue) /\ frames_enqueued' = frames_enqueued
              /\ Len(queue') = Len(queue) - 1
              /\ \A i \in 1..Len(queue') : queue'[i] = queue[i + 1]
          BY <3>1 DEF Dequeue
        <4>2. ASSUME NEW i \in 1..Len(queue')
              PROVE  queue'[i] = (frames_enqueued' - Len(queue')) + i
          <5>1. i + 1 \in 1..Len(queue) /\ i \in Nat /\ Len(queue) \in Nat
            BY <4>1
          <5>2. queue[i + 1] = (frames_enqueued - Len(queue)) + (i + 1)
            BY <5>1 DEF FreshestFrames
          <5>3. queue'[i] = queue[i + 1]
            BY <4>1
          <5>4. /\ frames_enqueued' = frames_enqueued /\ frames_enqueued \in Nat
                /\ Len(queue') = Len(queue) - 1
            BY <4>1
          <5> QED BY <5>1, <5>2, <5>3, <5>4
        <4> QED BY <4>2 DEF FreshestFrames
      <3>2. CASE DequeueNone
        BY <3>2 DEF DequeueNone, FreshestFrames
      <3>3. CASE UNCHANGED queueVars
        BY <3>3 DEF queueVars, FreshestFrames
      <3> QED BY <1>1, <3>1, <3>2, <3>3 DEF DispLoopHead
    <2>2. WakeupArmed'
      <3>1. CASE Dequeue
        BY <3>1, Zenon DEF Dequeue, WakeupArmed
      <3>2. CASE DequeueNone /\ queue = <<>>
        BY <3>2 DEF DequeueNone, WakeupArmed
      <3>3. CASE UNCHANGED queueVars
        BY <3>3 DEF queueVars, WakeupArmed
      <3> QED BY <1>1, <3>1, <3>2, <3>3 DEF DispLoopHead
    <2> QED BY <2>1, <2>2
  <1>2. CASE WsReceiveFrame
    <2> DEFINE f == frames_enqueued + 1
    <2>1. /\ frames_enqueued' = f
          /\ queue' = AppendDropOldest(queue, f)
      BY <1>2 DEF WsReceiveFrame, Enqueue
    <2>2. ASSUME Len(queue) >= MaxSize PROVE FreshestFrames'
      <3>1. queue # <<>> /\ Tail(queue) \in Seq(Frames) /\ Len(Tail(queue)) = Len(queue) - 1
        BY <2>2
      <3>2. queue' = Append(Tail(queue), f) /\ Len(queue') = Len(queue)
        BY <2>1, <2>2, <3>1 DEF AppendDropOldest
      <3>3. ASSUME NEW i \in 1..Len(queue')
            PROVE  queue'[i] = (frames_enqueued' - Len(queue')) + i
        <4>1. CASE i = Len(queue)
          BY <2>1, <3>1, <3>2, <4>1
        <4>2. CASE i # Len(queue)
          <5>0. Len(queue) \in Nat /\ i \in 1..Len(queue)
            BY <3>2
          <5>1. i \in 1..(Len(queue) - 1) /\ i + 1 \in 1..Len(queue)
            BY <4>2, <5>0
          <5>2. queue'[i] = queue[i + 1]
            BY <3>1, <3>2, <5>1
          <5>3. queue[i + 1] = (frames_enqueued - Len(queue)) + (i + 1)
            BY <5>1 DEF FreshestFrames
          <5> QED BY <2>1, <3>2, <5>2, <5>3
        <4> QED BY <4>1, <4>2
      <3> QED BY <3>3 DEF FreshestFrames
    <2>3. ASSUME ~(Len(queue) >= MaxSize) PROVE FreshestFrames'
      BY <2>1, <2>3 DEF AppendDropOldest, FreshestFrames
    <2>4. queue' # <<>>
      BY <2>1 DEF AppendDropOldest
    <2>5. not_empty' = TRUE
      BY <1>2 DEF WsReceiveFrame, Enqueue
    <2> QED BY <2>2, <2>3, <2>4, <2>5 DEF WakeupArmed
  <1>3. CASE UNCHANGED queueVars
    BY <1>3 DEF queueVars, FreshestFrames, WakeupArmed
  <1> QED BY <1>1, <1>2, <1>3, QueueTouched

\* The audio queue holds the latest frames without a gap, and no wakeup of the
\* dispatch loop is ever lost.
THEOREM QueueCorrect == Spec => [](FreshestFrames /\ WakeupArmed)
  <1>1. Init => Window
    BY DEF Init, Window, FreshestFrames, WakeupArmed
  <1> QED BY <1>1, TypeCorrect, WindowStep, PTL DEF Spec, Window

-----------------------------------------------------------------------------
(* Order and shutdown.  A frame number never overtakes another: what is in   *)
(* the recogniser's queue is older than what the dispatcher holds, which is  *)
(* older than what the audio queue holds; and the endpoint's progress through *)
(* its finally block limits what the two tasks can be doing.                  *)

Phase ==
  /\ stt_running => ws_pc \in {"receiving", "closing"}
  /\ (\E i \in 1..Len(stt_queue) : stt_queue[i] = None) =>
        ws_pc \in {"joining_stt", "closing_engine", "joining_disp", "released"}
  /\ ws_pc = "setup" => disp_pc = "unstarted" /\ stt_pc = "unstarted"
  /\ ws_pc = "released" => disp_pc \in {"unstarted", "done"}
  /\ ws_pc \in {"closing_engine", "joining_disp", "released"} => stt_pc \in {"unstarted", "done"}
  /\ engine_closed => ws_pc \in {"joining_disp", "released"}
  /\ disp_cancelled \/ stt_cancelled => ws_pc # "setup"

Order ==
  /\ disp_frame <= frames_enqueued - Len(queue)
  /\ disp_pc = "callback" => disp_frame # None
  /\ stt_frame <= disp_frame
  /\ disp_pc = "callback" => stt_frame < disp_frame
  /\ \A i \in 1..Len(stt_queue) :
       stt_queue[i] # None =>
         /\ stt_frame < stt_queue[i] /\ stt_queue[i] <= disp_frame
         /\ disp_pc = "callback" => stt_queue[i] < disp_frame
         /\ \A j \in 1..Len(stt_queue) :
              i < j /\ stt_queue[j] # None => stt_queue[i] < stt_queue[j]

Inv == Phase /\ Order /\ SignalLast

\* Frames are numbers.
LEMMA FrameNumbers ==
  ASSUME DataTypeOK
  PROVE  /\ disp_frame \in Nat /\ stt_frame \in Nat
         /\ frames_enqueued \in Nat /\ Len(queue) \in Nat
         /\ Len(stt_queue) \in Nat
         /\ \A i \in 1..Len(stt_queue) : stt_queue[i] \in Nat
  BY SizesAssumption DEF SizesAssumption, DataTypeOK, QueueTypeOK, DispTypeOK, SttTypeOK, Frames, None

\* Taking the head of the recogniser's queue.
LEMMA TakeKeepsOrder ==
  ASSUME DataTypeOK, Order, SignalLast, Phase, stt_queue # <<>>, SttTake,
         UNCHANGED <<queueVars, dispVars, ws_pc, stt_running, stt_cancelled, engine_closed>>,
         ws_pc \notin {"setup", "closing_engine", "joining_disp", "released"}
  PROVE  Inv'
  <1>1. /\ Len(stt_queue') = Len(stt_queue) - 1 /\ Len(stt_queue) \in Nat
        /\ \A i \in 1..Len(stt_queue') : i + 1 \in 1..Len(stt_queue) /\ stt_queue'[i] = stt_queue[i + 1]
        /\ 1 \in 1..Len(stt_queue) /\ Head(stt_queue) = stt_queue[1]
    BY DEF SttTake, DataTypeOK, SttTypeOK
  <1>2. SignalLast'
    BY <1>1 DEF SignalLast
  <1>3. Phase'
    BY <1>1 DEF Phase, SttTake, dispVars
  <1>4. Order'
    <2>1. CASE stt_queue[1] = None
      BY <1>1, <2>1, FrameNumbers DEF Order, SttTake, dispVars, queueVars
    <2>2. CASE stt_queue[1] # None
      BY <1>1, <2>2, FrameNumbers DEF Order, SttTake, dispVars, queueVars
    <2> QED BY <2>1, <2>2
  <1> QED BY <1>2, <1>3, <1>4 DEF Inv

LEMMA InvDispLoopHead ==
  ASSUME DataTypeOK, Window, Inv, DispLoopHead, disp_pc \in {"ready", "waiting"},
         UNCHANGED <<sttVars, ws_pc>>
  PROVE  Inv'
  <1>1. SignalLast'
    BY DEF Inv, SignalLast, sttVars
  <1>2. Phase'
    BY DEF Inv, Phase, sttVars, DispLoopHead
  <1>3. Order'
    <2>1. CASE queue # <<>> /\ Dequeue /\ disp_frame' = Head(queue)
      <3>1. 1 \in 1..Len(queue) /\ Head(queue) = queue[1] /\ Len(queue') = Len(queue) - 1
            /\ frames_enqueued' = frames_enqueued
        BY <2>1 DEF Dequeue, DataTypeOK, QueueTypeOK
      <3>2. queue[1] = (frames_enqueued - Len(queue)) + 1
        BY <3>1 DEF Window, FreshestFrames
      <3>3. disp_frame' = frames_enqueued' - Len(queue') /\ disp_frame < disp_frame'
        BY <2>1, <3>1, <3>2, FrameNumbers DEF Inv, Order
      <3>4. disp_frame' # None
        BY <3>3, FrameNumbers DEF None
      <3>5. \A i \in 1..Len(stt_queue) : stt_queue[i] # None => stt_queue[i] < disp_frame'
        BY <3>1, <3>3, FrameNumbers DEF Inv, Order
      <3> QED BY <3>1, <3>3, <3>4, <3>5, FrameNumbers DEF Inv, Order, sttVars
    <2>2. CASE UNCHANGED <<queue, frames_enqueued, disp_frame>> /\ disp_pc' # "callback"
      BY <2>2, FrameNumbers DEF Inv, Order, sttVars
    <2> QED BY <2>1, <2>2 DEF DispLoopHead, DequeueNone, queueVars
  <1> QED BY <1>1, <1>2, <1>3 DEF Inv

\* Handing a frame to the recogniser: it is younger than everything queued, and
\* the recogniser is running, so the shutdown signal has not been put yet.
LEMMA InvCallbackReturns == DataTypeOK /\ Inv /\ DispCallbackReturns => Inv'
  <1> SUFFICES ASSUME DataTypeOK, Inv, DispCallbackReturns PROVE Inv'
    OBVIOUS
  <1>1. /\ disp_pc = "callback" /\ disp_pc' = "ready"
        /\ UNCHANGED <<queueVars, disp_frame, disp_cancelled, stt_running, stt_pc, stt_frame,
                       stt_cancelled, engine_closed, ws_pc>>
    BY DEF DispCallbackReturns
  <1>2. CASE stt_running /\ stt_queue' = Append(stt_queue, disp_frame)
    <2>1. /\ Len(stt_queue') = Len(stt_queue) + 1
          /\ \A i \in 1..Len(stt_queue) : stt_queue'[i] = stt_queue[i]
          /\ stt_queue'[Len(stt_queue')] = disp_frame
      BY <1>2 DEF DataTypeOK, SttTypeOK, DispTypeOK
    <2>2. \A i \in 1..Len(stt_queue) : stt_queue[i] # None
      BY <1>2 DEF Inv, Phase
    <2>3. disp_frame # None /\ \A i \in 1..Len(stt_queue) : stt_queue[i] < disp_frame
      BY <1>1, <2>2 DEF Inv, Order
    <2>4. \A i \in 1..Len(stt_queue') : i \in 1..Len(stt_queue) \/ i = Len(stt_queue')
      BY <2>1, FrameNumbers
    <2>5. SignalLast'
      BY <2>1, <2>2, <2>4 DEF SignalLast
    <2>6. Phase'
      BY <1>1, <1>2, <2>1, <2>2, <2>3, <2>4 DEF Inv, Phase
    <2>7. Order'
      <3>1. ASSUME NEW i \in 1..Len(stt_queue')
            PROVE  stt_frame < stt_queue'[i] /\ stt_queue'[i] <= disp_frame
        BY <1>1, <2>1, <2>2, <2>3, <2>4, FrameNumbers DEF Inv, Order
      <3>2. ASSUME NEW i \in 1..Len(stt_queue'), NEW j \in 1..Len(stt_queue'), i < j
            PROVE  stt_queue'[i] < stt_queue'[j]
        <4>1. i \in 1..Len(stt_queue)
          BY <3>2, <2>1, <2>4, FrameNumbers
        <4>2. CASE j \in 1..Len(stt_queue)
          BY <3>2, <4>1, <4>2, <2>1, <2>2 DEF Inv, Order
        <4>3. CASE j = Len(stt_queue')
          BY <4>1, <4>3, <2>1, <2>3
        <4> QED BY <2>4, <4>2, <4>3
      <3> QED BY <1>1, <3>1, <3>2, FrameNumbers DEF Inv, Order, queueVars
    <2> QED BY <2>5, <2>6, <2>7 DEF Inv
  <1>3. CASE UNCHANGED stt_queue
    <2>1. SignalLast'  BY <1>3 DEF Inv, SignalLast
    <2>2. Phase'       BY <1>1, <1>3 DEF Inv, Phase
    <2>3. Order'       BY <1>1, <1>3, FrameNumbers DEF Inv, Order, queueVars
    <2> QED BY <2>1, <2>2, <2>3 DEF Inv
  <1> QED BY <1>2, <1>3 DEF DispCallbackReturns, SttProcessFrame, SttIsRunning

\* Putting the shutdown signal: it is the first and goes to the end.
LEMMA InvPutSignal ==
  ASSUME DataTypeOK, Inv, PutShutdownSignal, ws_pc \in {"finalizing", "signalling"},
         UNCHANGED <<queueVars, dispVars, stt_running, stt_pc, stt_frame, stt_cancelled, engine_closed>>
  PROVE  Inv'
  <1>1. /\ Len(stt_queue') = Len(stt_queue) + 1
        /\ \A i \in 1..Len(stt_queue) : stt_queue'[i] = stt_queue[i]
        /\ stt_queue'[Len(stt_queue')] = None
    BY DEF PutShutdownSignal, DataTypeOK, SttTypeOK
  <1>2. \A i \in 1..Len(stt_queue) : stt_queue[i] # None
    BY DEF Inv, Phase
  <1>3. \A i \in 1..Len(stt_queue') : i \in 1..Len(stt_queue) \/ i = Len(stt_queue')
    BY <1>1, FrameNumbers
  <1>4. SignalLast'
    BY <1>1, <1>2, <1>3 DEF SignalLast
  <1>5. Phase'
    BY DEF Inv, Phase, PutShutdownSignal, dispVars
  <1>6. Order'
    BY <1>1, <1>2, <1>3, FrameNumbers DEF Inv, Order, dispVars, queueVars
  <1> QED BY <1>4, <1>5, <1>6 DEF Inv

\* A step that leaves both queues and the frames in hand alone, and in which no
\* task enters a callback, only has the phases to answer for.
LEMMA InvFrame ==
  ASSUME DataTypeOK, Inv, Phase',
         UNCHANGED <<queue, frames_enqueued, disp_frame, stt_queue, stt_frame>>,
         disp_pc' # "callback" \/ disp_pc = "callback"
  PROVE  Inv'
  <1>1. SignalLast'  BY DEF Inv, SignalLast
  <1>2. Order'       BY FrameNumbers DEF Inv, Order
  <1> QED BY <1>1, <1>2 DEF Inv

LEMMA InvStep == DataTypeOK /\ Window /\ Inv /\ [Next]_vars => Inv'
  <1> SUFFICES ASSUME DataTypeOK, Window, Inv, [Next]_vars PROVE Inv'
    OBVIOUS
  <1>1. CASE DispNext
    <2>1. CASE DispIterate \/ DispWake \/ DispIdleTimeout
      BY <2>1, InvDispLoopHead DEF DispIterate, DispWake, DispIdleTimeout
    <2>2. CASE DispCallbackReturns
      BY <2>2, InvCallbackReturns
    <2>3. CASE DispCallbackRaises \/ DispCancelled
      <3>1. Phase'
        BY <2>3 DEF Inv, Phase, DispCallbackRaises, DispCancelled, sttVars
      <3> QED BY <2>3, <3>1, InvFrame DEF DispCallbackRaises, DispCancelled, sttVars, queueVars
    <2> QED BY <1>1, <2>1, <2>2, <2>3 DEF DispNext
  <1>2. CASE SttNext
    <2>1. CASE SttFirstStep \/ SttFrameDone \/ SttFrameFails \/ SttGet
      <3>1. /\ stt_pc \notin {"unstarted", "done"}
            /\ SttLoopHead \/ (stt_queue # <<>> /\ SttTake)
            /\ UNCHANGED <<queueVars, dispVars, ws_pc, stt_running, stt_cancelled, engine_closed>>
        BY <2>1 DEF SttFirstStep, SttFrameDone, SttFrameFails, SttGet
      <3>2. ws_pc \notin {"setup", "closing_engine", "joining_disp", "released"}
        BY <3>1 DEF Inv, Phase
      <3>3. CASE stt_queue # <<>> /\ SttTake
        BY <3>1, <3>2, <3>3, TakeKeepsOrder DEF Inv
      <3>4. CASE UNCHANGED <<stt_queue, stt_frame>> /\ stt_pc' \in {"get", "done"}
        <4>1. Phase'
          BY <3>1, <3>2, <3>4 DEF Inv, Phase, dispVars
        <4> QED BY <3>1, <3>4, <4>1, InvFrame DEF dispVars, queueVars
      <3> QED BY <3>1, <3>3, <3>4 DEF SttLoopHead
    <2>2. CASE SttCancelled
      <3>1. Phase'
        BY <2>2 DEF Inv, Phase, SttCancelled, dispVars
      <3> QED BY <2>2, <3>1, InvFrame DEF SttCancelled, dispVars, queueVars
    <2> QED BY <1>2, <2>1, <2>2 DEF SttNext
  <1>3. CASE WsReceiveFrame
    <2>1. /\ Len(queue') <= Len(queue) + 1 /\ Len(queue') \in Nat
          /\ frames_enqueued' = frames_enqueued + 1
      BY <1>3, SizesAssumption
         DEF SizesAssumption, WsReceiveFrame, Enqueue, AppendDropOldest, DataTypeOK, QueueTypeOK
    <2>2. UNCHANGED <<disp_pc, disp_frame, disp_cancelled, stt_pc, stt_queue, stt_frame,
                      stt_running, stt_cancelled, engine_closed, ws_pc>>
      BY <1>3 DEF WsReceiveFrame, dispVars, sttVars
    <2>3. SignalLast'  BY <2>2 DEF Inv, SignalLast
    <2>4. Phase'       BY <2>2 DEF Inv, Phase
    <2>5. Order'       BY <2>1, <2>2, FrameNumbers DEF Inv, Order
    <2> QED BY <2>3, <2>4, <2>5 DEF Inv
  <1>4. CASE WsFinalized \/ WsSignalled
    <2>1. CASE PutShutdownSignal
      BY <1>4, <2>1, InvPutSignal DEF WsFinalized, WsSignalled
    <2>2. CASE WsFinalized /\ ws_pc' = "signalling" /\ UNCHANGED stt_queue
      <3>1. Phase'
        BY <2>2 DEF Inv, Phase, WsFinalized, dispVars
      <3> QED BY <2>2, <3>1, InvFrame DEF WsFinalized, dispVars, queueVars
    <2> QED BY <1>4, <2>1, <2>2 DEF WsFinalized, WsSignalled
  <1>5. CASE \/ WsStart \/ WsProvidersUnavailable \/ WsDisconnect \/ WsStopStt \/ WsSttTimeout
             \/ WsSttJoined \/ WsEngineClosed \/ WsDispTimeout \/ WsReleased
    <2>1. UNCHANGED <<queue, frames_enqueued, disp_frame, stt_queue, stt_frame>>
      BY <1>5 DEF WsStart, WsProvidersUnavailable, WsDisconnect, WsStopStt, WsSttTimeout,
         WsSttJoined, WsEngineClosed, WsDispTimeout, WsReleased, queueVars, dispVars, sttVars
    <2>2. disp_pc' # "callback" \/ disp_pc = "callback"
      BY <1>5 DEF WsStart, WsProvidersUnavailable, WsDisconnect, WsStopStt, WsSttTimeout,
         WsSttJoined, WsEngineClosed, WsDispTimeout, WsReleased, dispVars
    <2>3. Phase'
      <3>1. CASE WsStart
        BY <3>1 DEF Inv, Phase, WsStart
      <3>2. CASE WsProvidersUnavailable \/ WsDisconnect
        BY <3>2 DEF Inv, Phase, WsProvidersUnavailable, WsDisconnect, dispVars, sttVars
      <3>3. CASE WsStopStt \/ WsSttTimeout \/ WsSttJoined
        BY <3>3 DEF Inv, Phase, WsStopStt, WsSttTimeout, WsSttJoined, dispVars, sttVars
      <3>4. CASE WsEngineClosed \/ WsDispTimeout \/ WsReleased
        BY <3>4 DEF Inv, Phase, WsEngineClosed, WsDispTimeout, WsReleased, dispVars, sttVars
      <3> QED BY <1>5, <3>1, <3>2, <3>3, <3>4
    <2> QED BY <2>1, <2>2, <2>3, InvFrame
  <1>6. CASE UNCHANGED vars
    <2>1. Phase'
      BY <1>6 DEF Inv, Phase, vars, dispVars, sttVars
    <2> QED BY <1>6, <2>1, InvFrame DEF vars, dispVars, sttVars, queueVars
  <1> QED BY <1>1, <1>2, <1>3, <1>4, <1>5, <1>6 DEF Next, WsNext, WsTeardown

LEMMA Invariance == Spec => [](DataTypeOK /\ Window /\ Inv)
  <1>1. Init => Inv
    BY DEF Init, Inv, Phase, Order, SignalLast, None
  <1>2. Init => Window
    BY DEF Init, Window, FreshestFrames, WakeupArmed
  <1>3. TypeOK => DataTypeOK
    BY DEF TypeOK, DataTypeOK
  <1> QED BY <1>1, <1>2, <1>3, TypeCorrect, WindowStep, InvStep, PTL DEF Spec

\* Nothing is ever queued behind the shutdown signal of STTConsumer.stop.
THEOREM ShutdownSignalLast == Spec => []SignalLast
  BY Invariance, PTL DEF Inv

\* The endpoint never releases a connection whose background tasks still run,
\* and never closes an engine that is still being fed.
THEOREM TeardownSafe == Spec => [](NoTaskOutlivesConnection /\ EngineNotFedAfterClose)
  <1>1. Inv => NoTaskOutlivesConnection /\ EngineNotFedAfterClose
    BY DEF Inv, Phase, NoTaskOutlivesConnection, EngineNotFedAfterClose
  <1> QED BY <1>1, Invariance, PTL

\* Audio reaches the recogniser in arrival order and never twice.
THEOREM InArrivalOrder == Spec => ArrivalOrder
  <1>1. DataTypeOK /\ Inv /\ [Next]_vars => [stt_frame' # stt_frame => stt_frame' > stt_frame]_vars
    <2> SUFFICES ASSUME DataTypeOK, Inv, Next, stt_frame' # stt_frame
                 PROVE  stt_frame' > stt_frame
      OBVIOUS
    <2>1. stt_queue # <<>> /\ SttTake
      BY DEF Next, DispNext, SttNext, WsNext, WsTeardown, sttVars, DispIterate, DispWake,
         DispIdleTimeout, DispCallbackReturns, DispCallbackRaises, DispCancelled,
         SttFirstStep, SttGet, SttFrameDone, SttFrameFails, SttCancelled, SttLoopHead,
         WsStart, WsProvidersUnavailable, WsReceiveFrame, WsDisconnect, WsStopStt, WsFinalized,
         WsSignalled, WsSttTimeout, WsSttJoined, WsEngineClosed, WsDispTimeout, WsReleased
    <2>2. 1 \in 1..Len(stt_queue) /\ Head(stt_queue) = stt_queue[1]
      BY <2>1 DEF DataTypeOK, SttTypeOK
    <2> QED BY <2>1, <2>2, FrameNumbers DEF SttTake, Inv, Order
  <1> QED BY <1>1, Invariance, PTL DEF Spec, ArrivalOrder

-----------------------------------------------------------------------------
(* The counters account for every frame. *)

Counters == <<frames_enqueued, frames_dropped, frames_dispatched, disp_lost,
              frames_processed, stt_frames_dropped, stt_lost>>

LEMMA CounterNumbers ==
  ASSUME DataTypeOK
  PROVE  /\ frames_dropped \in Nat /\ frames_dispatched \in Nat /\ disp_lost \in Nat
         /\ frames_processed \in Nat /\ stt_frames_dropped \in Nat /\ stt_lost \in Nat
         /\ QueuedFrames \in Nat /\ InCallback \in Nat /\ InEngine \in Nat
  BY FrameNumbers DEF DataTypeOK, QueueTypeOK, DispTypeOK, SttTypeOK, QueuedFrames, InCallback, InEngine

LEMMA TakeCounts ==
  ASSUME DataTypeOK, SignalLast, stt_queue # <<>>, SttTake
  PROVE  \/ stt_pc' = "done" /\ QueuedFrames' = QueuedFrames
         \/ stt_pc' = "engine" /\ QueuedFrames' = QueuedFrames - 1
  <1>1. /\ Len(stt_queue') = Len(stt_queue) - 1 /\ Len(stt_queue) \in Nat \ {0}
        /\ \A i \in 1..Len(stt_queue') : stt_queue'[i] = stt_queue[i + 1]
        /\ Head(stt_queue) = stt_queue[1]
        /\ stt_queue' \in Seq(Frames \cup {None})
    BY DEF SttTake, DataTypeOK, SttTypeOK
  <1>2. CASE Len(stt_queue) = 1
    BY <1>1, <1>2 DEF QueuedFrames, SttTake
  <1>3. CASE Len(stt_queue) # 1
    <2>1. stt_queue'[Len(stt_queue')] = stt_queue[Len(stt_queue)] /\ stt_queue' # <<>>
      BY <1>1, <1>3
    <2>2. stt_queue[1] # None
      BY <1>1, <1>3 DEF SignalLast
    <2> QED BY <1>1, <2>1, <2>2 DEF QueuedFrames, SttTake
  <1> QED BY <1>2, <1>3

LEMMA AccountStep ==
  DataTypeOK /\ Inv /\ FramesAccounted /\ [Next]_vars => FramesAccounted'
  <1> SUFFICES ASSUME DataTypeOK, Inv, FramesAccounted, [Next]_vars PROVE FramesAccounted'
    OBVIOUS
  <1>a. /\ frames_enqueued \in Nat /\ frames_dropped \in Nat /\ Len(queue) \in Nat
        /\ InCallback \in Nat /\ frames_dispatched \in Nat /\ disp_lost \in Nat
        /\ frames_enqueued = frames_dropped + Len(queue) + InCallback + frames_dispatched + disp_lost
    BY FrameNumbers, CounterNumbers DEF FramesAccounted, AudioAccounted
  <1>b. /\ frames_dispatched \in Nat /\ stt_frames_dropped \in Nat /\ QueuedFrames \in Nat
        /\ InEngine \in Nat /\ frames_processed \in Nat /\ stt_lost \in Nat
        /\ frames_dispatched = stt_frames_dropped + QueuedFrames + InEngine + frames_processed + stt_lost
    BY FrameNumbers, CounterNumbers DEF FramesAccounted, SttAccounted
  <1>1. CASE DispIterate \/ DispWake \/ DispIdleTimeout
    <2>1. \/ Len(queue') = Len(queue) - 1 /\ disp_pc' = "callback"
          \/ Len(queue') = Len(queue) /\ disp_pc' # "callback"
      BY <1>1 DEF DispIterate, DispWake, DispIdleTimeout, DispLoopHead, Dequeue, DequeueNone,
         queueVars, DataTypeOK, QueueTypeOK
    <2>2. disp_pc # "callback" /\ UNCHANGED <<Counters, sttVars>>
      BY <1>1 DEF DispIterate, DispWake, DispIdleTimeout, DispLoopHead, Dequeue, DequeueNone,
         queueVars, sttVars, Counters
    <2>3. \/ Len(queue') = Len(queue) - 1 /\ InCallback = 0 /\ InCallback' = 1
          \/ Len(queue') = Len(queue) /\ InCallback' = InCallback
      BY <2>1, <2>2 DEF InCallback
    <2>4. QueuedFrames' = QueuedFrames /\ InEngine' = InEngine
      BY <2>2 DEF QueuedFrames, InEngine, sttVars
    <2>5. /\ frames_enqueued' = frames_enqueued /\ frames_dropped' = frames_dropped
          /\ frames_dispatched' = frames_dispatched /\ disp_lost' = disp_lost
      BY <2>2 DEF Counters
    <2>x. AudioAccounted'
      <3>1. CASE Len(queue') = Len(queue) - 1 /\ InCallback = 0 /\ InCallback' = 1
        BY <1>a, <2>5, <3>1 DEF AudioAccounted
      <3>2. CASE Len(queue') = Len(queue) /\ InCallback' = InCallback
        BY <1>a, <2>5, <3>2 DEF AudioAccounted
      <3> QED BY <2>3, <3>1, <3>2
    <2>y. SttAccounted'
      BY <1>b, <2>2, <2>4 DEF SttAccounted, Counters
    <2> QED BY <2>x, <2>y DEF FramesAccounted
  <1>2. CASE DispCallbackReturns
    <2>1. \/ /\ stt_running /\ stt_queue' = Append(stt_queue, disp_frame)
             /\ UNCHANGED <<stt_frames_dropped, stt_lost>>
          \/ /\ UNCHANGED stt_queue
             /\ \/ stt_frames_dropped' = stt_frames_dropped + 1 /\ UNCHANGED stt_lost
                \/ stt_lost' = stt_lost + 1 /\ UNCHANGED stt_frames_dropped
      BY <1>2 DEF DispCallbackReturns, SttProcessFrame, SttIsRunning
    <2>2. stt_running /\ stt_queue' = Append(stt_queue, disp_frame) => QueuedFrames' = QueuedFrames + 1
      <3> SUFFICES ASSUME stt_running, stt_queue' = Append(stt_queue, disp_frame)
                   PROVE  QueuedFrames' = QueuedFrames + 1
        OBVIOUS
      <3>1. /\ Len(stt_queue') = Len(stt_queue) + 1 /\ stt_queue'[Len(stt_queue')] = disp_frame
        BY DEF DataTypeOK, SttTypeOK, DispTypeOK
      <3>2. stt_queue # <<>> => stt_queue[Len(stt_queue)] # None
        BY DEF Inv, Phase, DataTypeOK, SttTypeOK
      <3>3. disp_frame # None
        BY <1>2 DEF DispCallbackReturns, Inv, Order
      <3> QED BY <1>b, <3>1, <3>2, <3>3, FrameNumbers DEF QueuedFrames
    <2>3. UNCHANGED stt_queue => QueuedFrames' = QueuedFrames
      BY DEF QueuedFrames
    <2>4. InCallback = 1 /\ InCallback' = 0 /\ UNCHANGED InEngine
      BY <1>2 DEF DispCallbackReturns, InCallback, InEngine
    <2>5. frames_dispatched' = frames_dispatched + 1
          /\ UNCHANGED <<queue, frames_enqueued, frames_dropped, disp_lost, frames_processed>>
      BY <1>2 DEF DispCallbackReturns, queueVars
    <2>x. AudioAccounted'
      BY <1>a, <2>4, <2>5 DEF AudioAccounted
    <2>y. SttAccounted'
      <3>1. CASE stt_running /\ stt_queue' = Append(stt_queue, disp_frame)
                 /\ UNCHANGED <<stt_frames_dropped, stt_lost>>
        BY <1>b, <3>1, <2>2, <2>4, <2>5 DEF SttAccounted
      <3>2. CASE UNCHANGED stt_queue /\ stt_frames_dropped' = stt_frames_dropped + 1 /\ UNCHANGED stt_lost
        BY <1>b, <3>2, <2>3, <2>4, <2>5 DEF SttAccounted
      <3>3. CASE UNCHANGED stt_queue /\ stt_lost' = stt_lost + 1 /\ UNCHANGED stt_frames_dropped
        BY <1>b, <3>3, <2>3, <2>4, <2>5 DEF SttAccounted
      <3> QED BY <2>1, <3>1, <3>2, <3>3
    <2> QED BY <2>x, <2>y DEF FramesAccounted
  <1>3. CASE DispCallbackRaises \/ DispCancelled
    <2>1. \/ disp_lost' = disp_lost + 1 /\ InCallback = 1 /\ InCallback' = 0
          \/ disp_lost' = disp_lost /\ InCallback' = InCallback
      BY <1>a, <1>3 DEF DispCallbackRaises, DispCancelled, InCallback
    <2>2. UNCHANGED <<queueVars, sttVars, frames_dispatched>>
      BY <1>3 DEF DispCallbackRaises, DispCancelled
    <2>3. QueuedFrames' = QueuedFrames /\ InEngine' = InEngine
      BY <2>2 DEF QueuedFrames, InEngine, sttVars
    <2>4. /\ frames_enqueued' = frames_enqueued /\ frames_dropped' = frames_dropped
          /\ Len(queue') = Len(queue) /\ frames_dispatched' = frames_dispatched
          /\ stt_frames_dropped' = stt_frames_dropped
          /\ frames_processed' = frames_processed /\ stt_lost' = stt_lost
      BY <2>2 DEF queueVars, sttVars
    <2>x. AudioAccounted'
      <3>1. CASE disp_lost' = disp_lost + 1 /\ InCallback = 1 /\ InCallback' = 0
        BY <1>a, <2>4, <3>1 DEF AudioAccounted
      <3>2. CASE disp_lost' = disp_lost /\ InCallback' = InCallback
        BY <1>a, <2>4, <3>2 DEF AudioAccounted
      <3> QED BY <2>1, <3>1, <3>2
    <2>y. SttAccounted'
      BY <1>b, <2>1, <2>3, <2>4 DEF SttAccounted
    <2> QED BY <2>x, <2>y DEF FramesAccounted
  <1>4. CASE SttFirstStep \/ SttFrameDone \/ SttFrameFails \/ SttGet
    <2>1. \/ QueuedFrames' = QueuedFrames /\ stt_pc' # "engine"
          \/ QueuedFrames' = QueuedFrames - 1 /\ stt_pc' = "engine"
      BY <1>4, TakeCounts DEF SttFirstStep, SttFrameDone, SttFrameFails, SttGet, SttLoopHead, Inv, QueuedFrames
    <2>2. \/ stt_pc = "engine" /\ frames_processed' = frames_processed + 1 /\ UNCHANGED stt_lost
          \/ stt_pc = "engine" /\ stt_lost' = stt_lost + 1 /\ UNCHANGED frames_processed
          \/ stt_pc # "engine" /\ UNCHANGED <<stt_lost, frames_processed>>
      BY <1>4 DEF SttFirstStep, SttFrameDone, SttFrameFails, SttGet
    <2>3. UNCHANGED <<queueVars, dispVars, stt_frames_dropped>>
      BY <1>4 DEF SttFirstStep, SttFrameDone, SttFrameFails, SttGet
    <2>4. \/ QueuedFrames' = QueuedFrames /\ InEngine' = 0
          \/ QueuedFrames' = QueuedFrames - 1 /\ InEngine' = 1
      BY <1>b, <2>1 DEF InEngine
    <2>5. \/ InEngine = 1 /\ frames_processed' = frames_processed + 1 /\ stt_lost' = stt_lost
          \/ InEngine = 1 /\ frames_processed' = frames_processed /\ stt_lost' = stt_lost + 1
          \/ InEngine = 0 /\ frames_processed' = frames_processed /\ stt_lost' = stt_lost
      BY <1>b, <2>2 DEF InEngine
    <2>6. UNCHANGED InCallback
      BY <2>3 DEF InCallback, dispVars
    <2>7. /\ frames_enqueued' = frames_enqueued /\ frames_dropped' = frames_dropped
          /\ Len(queue') = Len(queue) /\ frames_dispatched' = frames_dispatched
          /\ disp_lost' = disp_lost /\ stt_frames_dropped' = stt_frames_dropped
      BY <2>3 DEF queueVars, dispVars
    <2>x. AudioAccounted'
      BY <1>a, <2>6, <2>7 DEF AudioAccounted
    <2>y. SttAccounted'
      <3>1. CASE QueuedFrames' = QueuedFrames /\ InEngine' = 0
        BY <1>b, <3>1, <2>5, <2>7 DEF SttAccounted
      <3>2. CASE QueuedFrames' = QueuedFrames - 1 /\ InEngine' = 1
        BY <1>b, <3>2, <2>5, <2>7 DEF SttAccounted
      <3> QED BY <2>4, <3>1, <3>2
    <2> QED BY <2>x, <2>y DEF FramesAccounted
  <1>5. CASE SttCancelled
    <2>1. \/ stt_lost' = stt_lost + 1 /\ InEngine = 1 /\ InEngine' = 0
          \/ stt_lost' = stt_lost /\ InEngine' = InEngine
      BY <1>b, <1>5 DEF SttCancelled, InEngine
    <2>2. QueuedFrames' = QueuedFrames /\ InCallback' = InCallback
      BY <1>5 DEF SttCancelled, QueuedFrames, InCallback, dispVars
    <2>3. UNCHANGED <<queueVars, dispVars, frames_processed, stt_frames_dropped>>
      BY <1>5 DEF SttCancelled
    <2>4. /\ frames_enqueued' = frames_enqueued /\ frames_dropped' = frames_dropped
          /\ Len(queue') = Len(queue) /\ frames_dispatched' = frames_dispatched
          /\ disp_lost' = disp_lost /\ stt_frames_dropped' = stt_frames_dropped
          /\ frames_processed' = frames_processed
      BY <2>3 DEF queueVars, dispVars
    <2>x. AudioAccounted'
      BY <1>a, <2>1, <2>2, <2>4 DEF AudioAccounted
    <2>y. SttAccounted'
      BY <1>b, <2>1, <2>2, <2>4 DEF SttAccounted
    <2> QED BY <2>x, <2>y DEF FramesAccounted
  <1>6. CASE WsReceiveFrame
    <2>1. /\ frames_enqueued' = frames_enqueued + 1
          /\ \/ Len(queue') = Len(queue) /\ frames_dropped' = frames_dropped + 1
             \/ Len(queue') = Len(queue) + 1 /\ frames_dropped' = frames_dropped
      BY <1>6, SizesAssumption DEF SizesAssumption, WsReceiveFrame, Enqueue, AppendDropOldest,
         DataTypeOK, QueueTypeOK
    <2>2. UNCHANGED <<dispVars, sttVars>>
      BY <1>6 DEF WsReceiveFrame
    <2>3. QueuedFrames' = QueuedFrames /\ InCallback' = InCallback /\ InEngine' = InEngine
      BY <2>2 DEF QueuedFrames, InCallback, InEngine, dispVars, sttVars
    <2>4. /\ frames_dispatched' = frames_dispatched /\ disp_lost' = disp_lost
          /\ frames_processed' = frames_processed /\ stt_lost' = stt_lost
          /\ stt_frames_dropped' = stt_frames_dropped
      BY <2>2 DEF dispVars, sttVars
    <2>x. AudioAccounted'
      <3>1. CASE Len(queue') = Len(queue) /\ frames_dropped' = frames_dropped + 1
        BY <1>a, <2>1, <2>3, <2>4, <3>1 DEF AudioAccounted
      <3>2. CASE Len(queue') = Len(queue) + 1 /\ frames_dropped' = frames_dropped
        BY <1>a, <2>1, <2>3, <2>4, <3>2 DEF AudioAccounted
      <3> QED BY <2>1, <3>1, <3>2
    <2>y. SttAccounted'
      BY <1>b, <2>1, <2>3, <2>4 DEF SttAccounted
    <2> QED BY <2>x, <2>y DEF FramesAccounted
  <1>7. CASE WsFinalized \/ WsSignalled
    <2>1. QueuedFrames' = QueuedFrames
      <3>1. CASE PutShutdownSignal
        <4>1. ~(stt_queue # <<>> /\ stt_queue[Len(stt_queue)] = None)
          BY <1>7 DEF WsFinalized, WsSignalled, Inv, Phase, DataTypeOK, SttTypeOK
        <4>2. /\ Len(stt_queue') = Len(stt_queue) + 1 /\ stt_queue'[Len(stt_queue')] = None
              /\ stt_queue' # <<>>
          BY <3>1 DEF PutShutdownSignal, DataTypeOK, SttTypeOK
        <4> QED BY <4>1, <4>2, FrameNumbers DEF QueuedFrames
      <3>2. CASE UNCHANGED stt_queue
        BY <3>2 DEF QueuedFrames
      <3> QED BY <1>7, <3>1, <3>2 DEF WsFinalized, WsSignalled
    <2>2. UNCHANGED <<queueVars, dispVars, stt_pc, frames_processed, stt_frames_dropped, stt_lost>>
      BY <1>7 DEF WsFinalized, WsSignalled
    <2>3. InCallback' = InCallback /\ InEngine' = InEngine
      BY <2>2 DEF InCallback, InEngine, dispVars
    <2>x. AudioAccounted'
      BY <1>a, <2>1, <2>2, <2>3 DEF AudioAccounted, queueVars, dispVars
    <2>y. SttAccounted'
      BY <1>b, <2>1, <2>2, <2>3 DEF SttAccounted, queueVars, dispVars
    <2> QED BY <2>x, <2>y DEF FramesAccounted
  <1>8. CASE \/ WsStart \/ WsProvidersUnavailable \/ WsDisconnect \/ WsStopStt \/ WsSttTimeout
             \/ WsSttJoined \/ WsEngineClosed \/ WsDispTimeout \/ WsReleased \/ UNCHANGED vars
    <2>1. UNCHANGED <<queue, stt_queue, Counters>>
      BY <1>8 DEF WsStart, WsProvidersUnavailable, WsDisconnect, WsStopStt, WsSttTimeout,
         WsSttJoined, WsEngineClosed, WsDispTimeout, WsReleased, vars, queueVars, dispVars,
         sttVars, Counters
    <2>2. \/ UNCHANGED <<disp_pc, stt_pc>>
          \/ /\ disp_pc = "unstarted" /\ disp_pc' = "ready"
             /\ stt_pc = "unstarted" /\ stt_pc' = "ready"
      BY <1>8 DEF WsStart, WsProvidersUnavailable, WsDisconnect, WsStopStt, WsSttTimeout,
         WsSttJoined, WsEngineClosed, WsDispTimeout, WsReleased, vars, dispVars, sttVars, Inv, Phase
    <2>3. InCallback' = InCallback /\ InEngine' = InEngine /\ QueuedFrames' = QueuedFrames
      BY <1>a, <2>1, <2>2 DEF InCallback, InEngine, QueuedFrames
    <2>x. AudioAccounted'
      BY <1>a, <2>1, <2>3 DEF AudioAccounted, Counters
    <2>y. SttAccounted'
      BY <1>b, <2>1, <2>3 DEF SttAccounted, Counters
    <2> QED BY <2>x, <2>y DEF FramesAccounted
  <1> QED BY <1>1, <1>2, <1>3, <1>4, <1>5, <1>6, <1>7, <1>8
          DEF Next, DispNext, SttNext, WsNext, WsTeardown

\* No frame disappears unseen: the counters of queue, dispatcher and recogniser,
\* and the losses to failures, add up at every moment.
THEOREM NoFrameUnaccounted == Spec => []FramesAccounted
  <1>1. Init => FramesAccounted
    BY DEF Init, FramesAccounted, AudioAccounted, SttAccounted, QueuedFrames, InCallback, InEngine
  <1> QED BY <1>1, Invariance, AccountStep, PTL DEF Spec
=============================================================================
