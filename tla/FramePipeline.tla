--------------------------- MODULE FramePipeline ---------------------------
(***************************************************************************)
(* The inbound audio path of one voice WebSocket connection:               *)
(*                                                                         *)
(*   receive loop -> AudioFrameQueue -> StreamingDispatcher                *)
(*                -> STTConsumer queue -> STT engine                       *)
(*                                                                         *)
(* and the teardown in the endpoint's `finally` block.  Everything runs on *)
(* one asyncio event loop, so code between two awaits that can suspend is  *)
(* one atomic step: an action below runs from one suspension point of a    *)
(* task to its next one.  The tasks are the endpoint (ws), the dispatch    *)
(* loop (disp) and the STT processing loop (stt).  AudioFrameQueue._lock   *)
(* is never held across a suspension, so enqueue and dequeue are atomic    *)
(* and the lock itself needs no variable.                                  *)
(*                                                                         *)
(* A frame is the number of its arrival (1, 2, ...).                       *)
(***************************************************************************)
EXTENDS Naturals, Sequences

CONSTANTS MaxSize,       \* AudioFrameQueue.max_size (50 in the endpoint)
          SttMaxSize,    \* STTConsumer.max_queue_size (50 in the endpoint)
          MaxFrames      \* bound: how many frames the client sends

ASSUME SizesAssumption == /\ MaxSize \in Nat \ {0}
                          /\ SttMaxSize \in Nat \ {0}
                          /\ MaxFrames \in Nat

None == 0                \* the shutdown signal STTConsumer.stop puts on its queue
Frames == 1..MaxFrames

VARIABLES
  \* AudioFrameQueue
  queue,               \* _queue, oldest frame first
  not_empty,           \* _not_empty.is_set()
  frames_enqueued, frames_dropped,
  \* StreamingDispatcher
  disp_running, disp_pc,
  disp_frame,          \* the frame last taken from the queue
  disp_cancelled,      \* CancelledError is pending in the dispatch task
  frames_dispatched,
  \* STTConsumer
  stt_running, stt_pc,
  stt_queue,           \* frames, or None
  stt_frame,           \* the frame last given to the engine
  stt_cancelled, frames_processed, stt_frames_dropped,
  engine_closed,
  \* websocket_endpoint
  ws_pc,
  \* history: frames that left the pipeline without reaching a counter of the
  \* code (a callback raised or was cancelled; recognition had been stopped)
  disp_lost, stt_lost

queueVars == <<queue, not_empty, frames_enqueued, frames_dropped>>
dispVars  == <<disp_running, disp_pc, disp_frame, disp_cancelled, frames_dispatched, disp_lost>>
sttVars   == <<stt_running, stt_pc, stt_queue, stt_frame, stt_cancelled,
               frames_processed, stt_frames_dropped, engine_closed, stt_lost>>
vars      == <<queueVars, dispVars, sttVars, ws_pc>>

QueueTypeOK ==
  /\ queue \in Seq(Frames) /\ Len(queue) <= MaxSize
  /\ frames_enqueued \in 0..MaxFrames
  /\ frames_dropped \in Nat

DispTypeOK ==
  /\ disp_pc \in {"unstarted", "ready", "waiting", "callback", "done"}
  /\ disp_frame \in Frames \cup {None}
  /\ frames_dispatched \in Nat /\ disp_lost \in Nat

SttTypeOK ==
  /\ stt_pc \in {"unstarted", "ready", "get", "engine", "done"}
  /\ stt_queue \in Seq(Frames \cup {None}) /\ Len(stt_queue) <= SttMaxSize
  /\ stt_frame \in Frames \cup {None}
  /\ frames_processed \in Nat /\ stt_frames_dropped \in Nat /\ stt_lost \in Nat

FlagTypeOK ==
  /\ not_empty \in BOOLEAN
  /\ disp_running \in BOOLEAN /\ disp_cancelled \in BOOLEAN
  /\ stt_running \in BOOLEAN /\ stt_cancelled \in BOOLEAN
  /\ engine_closed \in BOOLEAN

WsTypeOK ==
  ws_pc \in {"setup", "receiving", "closing", "finalizing", "signalling",
             "joining_stt", "closing_engine", "joining_disp", "released"}

\* The type invariant: every field has a value its code can store, and neither
\* queue ever holds more than its maximum (drop-oldest, drop-newest, blocking
\* put).
TypeOK == QueueTypeOK /\ DispTypeOK /\ SttTypeOK /\ WsTypeOK /\ FlagTypeOK

Init ==
  /\ queue = <<>> /\ not_empty = FALSE
  /\ frames_enqueued = 0 /\ frames_dropped = 0
  /\ disp_running = FALSE /\ disp_pc = "unstarted" /\ disp_frame = 0
  /\ disp_cancelled = FALSE /\ frames_dispatched = 0
  /\ stt_running = FALSE /\ stt_pc = "unstarted" /\ stt_queue = <<>>
  /\ stt_frame = 0 /\ stt_cancelled = FALSE
  /\ frames_processed = 0 /\ stt_frames_dropped = 0
  /\ engine_closed = FALSE
  /\ ws_pc = "setup"
  /\ disp_lost = 0 /\ stt_lost = 0

-----------------------------------------------------------------------------
(* AudioFrameQueue *)

\* Mutant: a full deque refuses the new frame.
AppendDropNewest(q, f) == IF Len(q) >= MaxSize THEN q ELSE Append(q, f)

\* deque(maxlen=max_size).append: the oldest frame goes when the deque is full.
AppendDropOldest(q, f) ==
  IF Len(q) >= MaxSize THEN Append(Tail(q), f) ELSE Append(q, f)

\* Mutant: the full test is off by one, so no drop is counted.
Enqueue_OffByOne(f) ==
  /\ frames_dropped' = IF Len(queue) > MaxSize THEN frames_dropped + 1 ELSE frames_dropped
  /\ queue' = AppendDropOldest(queue, f)
  /\ frames_enqueued' = frames_enqueued + 1
  /\ not_empty' = TRUE

\* enqueue(): the drop counter moves exactly when append will push a frame out.
Enqueue(f) ==
  /\ frames_dropped' = IF Len(queue) >= MaxSize THEN frames_dropped + 1 ELSE frames_dropped
  /\ queue' = AppendDropOldest(queue, f)
  /\ frames_enqueued' = frames_enqueued + 1
  /\ not_empty' = TRUE

\* dequeue() of a frame: the event is cleared with the last frame.
Dequeue ==
  /\ queue' = Tail(queue)
  /\ not_empty' = (Tail(queue) # <<>>)
  /\ UNCHANGED <<frames_enqueued, frames_dropped>>

\* dequeue() of an empty queue returns None and clears the event.
DequeueNone ==
  /\ not_empty' = FALSE
  /\ UNCHANGED <<queue, frames_enqueued, frames_dropped>>

-----------------------------------------------------------------------------
(* StreamingDispatcher *)

\* The head of _dispatch_loop, up to the next suspension: the callback, or
\* wait_for_frame on the queue's event.
DispLoopHead ==
  \/ /\ ~disp_running
     /\ disp_pc' = "done"
     /\ UNCHANGED <<queueVars, disp_frame>>
  \/ /\ disp_running /\ queue # <<>>
     /\ Dequeue
     /\ disp_frame' = Head(queue)
     /\ disp_pc' = "callback"
  \/ /\ disp_running /\ queue = <<>>
     /\ DequeueNone
     /\ disp_pc' = "waiting"
     /\ UNCHANGED disp_frame

\* The loop runs again after its sleep(0) (or for the first time).
DispIterate ==
  /\ disp_pc = "ready" /\ ~disp_cancelled
  /\ DispLoopHead
  /\ UNCHANGED <<disp_running, disp_cancelled, frames_dispatched, disp_lost, sttVars, ws_pc>>

\* wait_for_frame returns because a frame arrived ...
DispWake ==
  /\ disp_pc = "waiting" /\ ~disp_cancelled /\ not_empty
  /\ DispLoopHead
  /\ UNCHANGED <<disp_running, disp_cancelled, frames_dispatched, disp_lost, sttVars, ws_pc>>

\* ... or because IDLE_WAKE_SEC passed.
DispIdleTimeout ==
  /\ disp_pc = "waiting" /\ ~disp_cancelled /\ ~not_empty
  /\ DispLoopHead
  /\ UNCHANGED <<disp_running, disp_cancelled, frames_dispatched, disp_lost, sttVars, ws_pc>>

\* Mutant: the new frame jumps the queue.
SttProcessFrame_PutsFirst(f) ==
  IF Len(stt_queue) < SttMaxSize
  THEN /\ stt_queue' = <<f>> \o stt_queue
       /\ UNCHANGED <<stt_frames_dropped, stt_lost>>
  ELSE /\ stt_frames_dropped' = stt_frames_dropped + 1
       /\ UNCHANGED <<stt_queue, stt_lost>>

\* STTConsumer.process_frame: put_nowait, or drop the new frame when full.
SttProcessFrame(f) ==
  IF Len(stt_queue) < SttMaxSize
  THEN /\ stt_queue' = Append(stt_queue, f)
       /\ UNCHANGED <<stt_frames_dropped, stt_lost>>
  ELSE /\ stt_frames_dropped' = stt_frames_dropped + 1
       /\ UNCHANGED <<stt_queue, stt_lost>>

\* Mutant: the dispatcher does not ask whether the recogniser still runs.
SttIsRunning_NotAsked == TRUE

\* STTConsumer.is_running()
SttIsRunning == stt_running

\* The callback returned: count the frame, hand it to the recogniser if that
\* is still running, and yield with sleep(0).
DispCallbackReturns ==
  /\ disp_pc = "callback" /\ ~disp_cancelled
  /\ frames_dispatched' = frames_dispatched + 1
  /\ IF SttIsRunning
     THEN SttProcessFrame(disp_frame)
     ELSE /\ stt_lost' = stt_lost + 1
          /\ UNCHANGED <<stt_queue, stt_frames_dropped>>
  /\ disp_pc' = "ready"
  /\ UNCHANGED <<queueVars, disp_running, disp_frame, disp_cancelled, disp_lost,
                 stt_running, stt_pc, stt_frame, stt_cancelled, frames_processed,
                 engine_closed, ws_pc>>

\* Mutant: the exception ends the loop.
DispCallbackRaises_Escapes ==
  /\ disp_pc = "callback" /\ ~disp_cancelled
  /\ disp_pc' = "done"
  /\ disp_lost' = disp_lost + 1
  /\ UNCHANGED <<queueVars, disp_running, disp_frame, disp_cancelled, frames_dispatched,
                 sttVars, ws_pc>>

\* The callback raised: logged, and the frame is not passed on.
DispCallbackRaises ==
  /\ disp_pc = "callback" /\ ~disp_cancelled
  /\ disp_pc' = "ready"
  /\ disp_lost' = disp_lost + 1
  /\ UNCHANGED <<queueVars, disp_running, disp_frame, disp_cancelled, frames_dispatched,
                 sttVars, ws_pc>>

\* CancelledError leaves the loop wherever it waits.
DispCancelled ==
  /\ disp_cancelled /\ disp_pc # "done"
  /\ disp_pc' = "done"
  /\ disp_lost' = IF disp_pc = "callback" THEN disp_lost + 1 ELSE disp_lost
  /\ UNCHANGED <<queueVars, disp_running, disp_frame, disp_cancelled, frames_dispatched,
                 sttVars, ws_pc>>

-----------------------------------------------------------------------------
(* STTConsumer *)

\* A frame or the shutdown signal has been taken from the queue.
SttTake ==
  /\ stt_queue' = Tail(stt_queue)
  /\ IF Head(stt_queue) = None
     THEN stt_pc' = "done" /\ UNCHANGED stt_frame
     ELSE stt_pc' = "engine" /\ stt_frame' = Head(stt_queue)

\* The head of _process_loop: leave when stopped, else take what is queued or
\* suspend in Queue.get().
SttLoopHead ==
  \/ /\ ~stt_running
     /\ stt_pc' = "done"
     /\ UNCHANGED <<stt_queue, stt_frame>>
  \/ /\ stt_running /\ stt_queue # <<>>
     /\ SttTake
  \/ /\ stt_running /\ stt_queue = <<>>
     /\ stt_pc' = "get"
     /\ UNCHANGED <<stt_queue, stt_frame>>

\* The task's first step.
SttFirstStep ==
  /\ stt_pc = "ready" /\ ~stt_cancelled
  /\ SttLoopHead
  /\ UNCHANGED <<queueVars, dispVars, ws_pc, stt_running, stt_cancelled,
                 frames_processed, stt_frames_dropped, engine_closed, stt_lost>>

\* A pending Queue.get() returns; _running is not looked at again before the
\* frame has been processed.
SttGet ==
  /\ stt_pc = "get" /\ ~stt_cancelled /\ stt_queue # <<>>
  /\ SttTake
  /\ UNCHANGED <<queueVars, dispVars, ws_pc, stt_running, stt_cancelled,
                 frames_processed, stt_frames_dropped, engine_closed, stt_lost>>

\* process_audio (and the transcript callback, whose exceptions are caught)
\* finished.
SttFrameDone ==
  /\ stt_pc = "engine" /\ ~stt_cancelled
  /\ frames_processed' = frames_processed + 1
  /\ SttLoopHead
  /\ UNCHANGED <<queueVars, dispVars, ws_pc, stt_running, stt_cancelled,
                 stt_frames_dropped, engine_closed, stt_lost>>

\* process_audio raised: logged, and the loop goes on.
SttFrameFails ==
  /\ stt_pc = "engine" /\ ~stt_cancelled
  /\ stt_lost' = stt_lost + 1
  /\ SttLoopHead
  /\ UNCHANGED <<queueVars, dispVars, ws_pc, stt_running, stt_cancelled,
                 frames_processed, stt_frames_dropped, engine_closed>>

\* CancelledError is caught by the loop, which breaks.
SttCancelled ==
  /\ stt_cancelled /\ stt_pc # "done"
  /\ stt_pc' = "done"
  /\ stt_lost' = IF stt_pc = "engine" THEN stt_lost + 1 ELSE stt_lost
  /\ UNCHANGED <<queueVars, dispVars, ws_pc, stt_running, stt_queue, stt_frame,
                 stt_cancelled, frames_processed, stt_frames_dropped, engine_closed>>

-----------------------------------------------------------------------------
(* websocket_endpoint *)

\* Providers built, STTConsumer.start and StreamingDispatcher.start called.
WsStart ==
  /\ ws_pc = "setup"
  /\ ws_pc' = "receiving"
  /\ stt_running' = TRUE /\ stt_pc' = "ready"
  /\ disp_running' = TRUE /\ disp_pc' = "ready"
  /\ UNCHANGED <<queueVars, disp_frame, disp_cancelled, frames_dispatched, disp_lost,
                 stt_queue, stt_frame, stt_cancelled, frames_processed,
                 stt_frames_dropped, engine_closed, stt_lost>>

\* A provider is not configured: the client is told and the endpoint returns.
WsProvidersUnavailable ==
  /\ ws_pc = "setup"
  /\ ws_pc' = "released"
  /\ UNCHANGED <<queueVars, dispVars, sttVars>>

WsReceiveFrame ==
  /\ ws_pc = "receiving"
  /\ frames_enqueued < MaxFrames
  /\ Enqueue(frames_enqueued + 1)
  /\ UNCHANGED <<dispVars, sttVars, ws_pc>>

\* Disconnect or any error of the receive loop: `finally` starts, and
\* session.close() stops the LLM and TTS tasks.
WsDisconnect ==
  /\ ws_pc = "receiving"
  /\ ws_pc' = "closing"
  /\ UNCHANGED <<queueVars, dispVars, sttVars>>

\* session.close() returned; STTConsumer.stop() clears _running and waits in
\* finalize_utterance and the transcript callback.
WsStopStt ==
  /\ ws_pc = "closing"
  /\ stt_running' = FALSE
  /\ ws_pc' = "finalizing"
  /\ UNCHANGED <<queueVars, dispVars, stt_pc, stt_queue, stt_frame, stt_cancelled,
                 frames_processed, stt_frames_dropped, engine_closed, stt_lost>>

\* `await self._queue.put(None)`: goes through at once if there is room.
PutShutdownSignal ==
  /\ Len(stt_queue) < SttMaxSize
  /\ stt_queue' = Append(stt_queue, None)
  /\ ws_pc' = "joining_stt"

WsFinalized ==
  /\ ws_pc = "finalizing"
  /\ \/ PutShutdownSignal
     \/ /\ Len(stt_queue) >= SttMaxSize
        /\ ws_pc' = "signalling"
        /\ UNCHANGED stt_queue
  /\ UNCHANGED <<queueVars, dispVars, stt_running, stt_pc, stt_frame, stt_cancelled,
                 frames_processed, stt_frames_dropped, engine_closed, stt_lost>>

\* The blocked put gets its slot.
WsSignalled ==
  /\ ws_pc = "signalling"
  /\ PutShutdownSignal
  /\ UNCHANGED <<queueVars, dispVars, stt_running, stt_pc, stt_frame, stt_cancelled,
                 frames_processed, stt_frames_dropped, engine_closed, stt_lost>>

\* wait_for(self._task, 2.0) timed out, which cancels the task.
WsSttTimeout ==
  /\ ws_pc = "joining_stt" /\ stt_pc # "done" /\ ~stt_cancelled
  /\ stt_cancelled' = TRUE
  /\ UNCHANGED <<queueVars, dispVars, ws_pc, stt_running, stt_pc, stt_queue, stt_frame,
                 frames_processed, stt_frames_dropped, engine_closed, stt_lost>>

\* The STT task has ended; stop() goes on to engine.close().
WsSttJoined ==
  /\ ws_pc = "joining_stt" /\ stt_pc = "done"
  /\ ws_pc' = "closing_engine"
  /\ UNCHANGED <<queueVars, dispVars, sttVars>>

\* engine.close() (by the consumer, then once more by the endpoint) returned;
\* StreamingDispatcher.stop() clears _running and waits for its task.
WsEngineClosed ==
  /\ ws_pc = "closing_engine"
  /\ engine_closed' = TRUE
  /\ disp_running' = FALSE
  /\ ws_pc' = "joining_disp"
  /\ UNCHANGED <<queueVars, disp_pc, disp_frame, disp_cancelled, frames_dispatched, disp_lost,
                 stt_running, stt_pc, stt_queue, stt_frame, stt_cancelled,
                 frames_processed, stt_frames_dropped, stt_lost>>

\* Mutant: the dispatcher is awaited without a timeout.
WsDispTimeout_Never == FALSE

\* wait_for(self._task, 1.0) timed out, which cancels the task.
WsDispTimeout ==
  /\ ws_pc = "joining_disp" /\ disp_pc # "done" /\ ~disp_cancelled
  /\ disp_cancelled' = TRUE
  /\ UNCHANGED <<queueVars, sttVars, ws_pc, disp_running, disp_pc, disp_frame,
                 frames_dispatched, disp_lost>>

\* Mutant: the dispatch task is not awaited.
WsReleased_NotAwaited ==
  /\ ws_pc = "joining_disp"
  /\ ws_pc' = "released"
  /\ UNCHANGED <<queueVars, dispVars, sttVars>>

\* The dispatch task has ended; manager.disconnect releases the connection.
WsReleased ==
  /\ ws_pc = "joining_disp" /\ disp_pc = "done"
  /\ ws_pc' = "released"
  /\ UNCHANGED <<queueVars, dispVars, sttVars>>

-----------------------------------------------------------------------------
DispNext == \/ DispIterate \/ DispWake \/ DispIdleTimeout
            \/ DispCallbackReturns \/ DispCallbackRaises \/ DispCancelled
SttNext  == SttFirstStep \/ SttGet \/ SttFrameDone \/ SttFrameFails \/ SttCancelled
WsTeardown == \/ WsStopStt \/ WsFinalized \/ WsSignalled \/ WsSttTimeout \/ WsSttJoined
              \/ WsEngineClosed \/ WsDispTimeout \/ WsReleased
WsNext   == \/ WsStart \/ WsProvidersUnavailable \/ WsReceiveFrame \/ WsDisconnect
            \/ WsTeardown

Next == DispNext \/ SttNext \/ WsNext

Spec == Init /\ [][Next]_vars

\* What the event loop guarantees: a task that can go on does, a timeout that is
\* due fires, a cancellation is delivered, and the awaits of the finally block
\* that the code bounds or that only stop its own tasks (session.close,
\* finalize_utterance, engine.close) end.  Nothing makes the client send or
\* disconnect, and nothing makes a frame's callback or the engine return.
LoopFairness ==
  /\ WF_vars(DispIterate \/ DispWake \/ DispIdleTimeout \/ DispCancelled)
  /\ WF_vars(SttFirstStep \/ SttGet \/ SttCancelled)
  /\ WF_vars(WsTeardown)

SlowSpec == Spec /\ LoopFairness

-----------------------------------------------------------------------------
(* Properties *)

\* The audio queue always holds the most recent frames, without a gap and in
\* arrival order: drop-oldest on overflow (enqueue), oldest first (dequeue).
FreshestFrames ==
  \A i \in 1..Len(queue) : queue[i] = (frames_enqueued - Len(queue)) + i

\* The event tells the dispatch loop the truth: it is set exactly while a frame
\* waits, so a frame can never sit in the queue beside a loop that sleeps until
\* its idle timeout (wait_for_frame, "no polling interval").
WakeupArmed == not_empty <=> (queue # <<>>)

\* Nothing is ever queued behind STTConsumer.stop's shutdown signal, although
\* the dispatcher is stopped after the recogniser: the dispatcher's test of
\* is_running and its put are one step.
SignalLast ==
  \A i \in 1..Len(stt_queue) : stt_queue[i] = None => i = Len(stt_queue)

\* Frames in the recogniser's queue, in the dispatcher's callback, in the engine.
QueuedFrames == IF stt_queue # <<>> /\ stt_queue[Len(stt_queue)] = None
                THEN Len(stt_queue) - 1 ELSE Len(stt_queue)
InCallback == IF disp_pc = "callback" THEN 1 ELSE 0
InEngine   == IF stt_pc = "engine" THEN 1 ELSE 0

AudioAccounted ==
  frames_enqueued = frames_dropped + Len(queue) + InCallback + frames_dispatched + disp_lost
SttAccounted ==
  frames_dispatched = stt_frames_dropped + QueuedFrames + InEngine + frames_processed + stt_lost

\* The counters of the three components account for every frame: each one the
\* client sent was dropped, waits, is in a callback, was dispatched or was lost
\* to a failure; each dispatched one was dropped by the recogniser's queue,
\* waits there, is in the engine, was processed or was lost.
FramesAccounted == AudioAccounted /\ SttAccounted

\* When the endpoint releases the connection neither of its background tasks is
\* left running (the finally block awaits both, cancelling after a timeout).
NoTaskOutlivesConnection ==
  ws_pc = "released" => disp_pc \in {"unstarted", "done"} /\ stt_pc \in {"unstarted", "done"}

\* The engine is never given a frame once it has been closed, although frames
\* may be left in the recogniser's queue and the dispatcher still runs.
EngineNotFedAfterClose == engine_closed => stt_pc # "engine"

\* Audio reaches the recogniser in arrival order and never twice, whatever was
\* dropped, raised or cancelled on the way ("in arrival order", dispatcher.py).
ArrivalOrder == [][stt_frame' # stt_frame => stt_frame' > stt_frame]_vars

\* A frame never stays in the audio queue while the connection is open: it is
\* dispatched, or pushed out by newer ones, unless the callback of an earlier
\* frame hangs for ever.  A callback that raises does not end the loop.
FramesLeaveQueue ==
  \A f \in Frames :
    (\E i \in 1..Len(queue) : queue[i] = f) ~>
      (\/ ~disp_running
       \/ \A i \in 1..Len(queue) : queue[i] # f
       \/ [](disp_pc = "callback"))

\* Teardown, once begun, ends although the frame callback and the engine may hang:
\* both joins time out and cancel.  The one place where it can stay for ever is
\* put(None) on a full queue that no loop reads any more.
TeardownEndsOrBlocks ==
  (ws_pc = "closing") ~>
    (\/ ws_pc = "released"
     \/ [](ws_pc = "signalling" /\ stt_pc \in {"engine", "done"} /\ Len(stt_queue) = SttMaxSize))

=============================================================================
