----------------------------- MODULE SttEngine -----------------------------
(***************************************************************************)
(* The speech recognisers behind STTConsumer: Deepgram, Amazon Transcribe  *)
(* and the mock (app/stt/providers/deepgram_engine.py,                     *)
(* aws_transcribe_engine.py, app/stt/engine.py).                           *)
(*                                                                         *)
(* Three tasks use an engine: the consumer's loop, which sends a frame and *)
(* takes at most one event from the queue for it; the engine's receive     *)
(* loop, which turns provider messages into events; and the task that      *)
(* stops the consumer and finalizes the utterance.  The words the provider *)
(* recognises are numbered in the order they are spoken, so a text is an   *)
(* interval of words.                                                      *)
(***************************************************************************)
EXTENDS Naturals, Sequences

CONSTANTS Kinds,            \* engines: "deepgram", "transcribe", the mock without
                            \* ("mock") and with an energy_threshold ("livemock")
          MaxMessages,      \* bound on provider messages and mock words
          PartialInterval,  \* MockSTTEngine.partial_interval
          SilenceThreshold  \* MockSTTEngine.silence_threshold

ASSUME SttAssumption == /\ Kinds \subseteq {"deepgram", "transcribe", "mock", "livemock"}
                        /\ MaxMessages \in Nat
                        /\ PartialInterval \in Nat \ {0} /\ SilenceThreshold \in Nat

VARIABLES kind,      \* which engine
          loop,      \* the consumer's loop: process_audio
          stop,      \* the stopping task: finalize_utterance, reset, close
          lock,      \* who holds self._lock
          link,      \* the provider connection: _ws or _stream
          receiving, \* the receive loop runs
          id,        \* _utterance_id
          fresh,     \* ids drawn so far
          first,     \* number of the first word not yet in a final
          said,      \* words recognised for good
          queue,     \* _event_queue
          kept,      \* final_event of finalize_utterance
          last,      \* history: the last event given to the consumer's callback
          finals,    \* history: the finals among the events given to it
          lost,      \* history: an event or a word has been discarded
          messages,  \* provider messages so far
          ticks,     \* MockSTTEngine._frame_count modulo the interval
          silence    \* MockSTTEngine._silence_count

idVars   == <<id, fresh>>
textVars == <<first, said>>
sent == <<last, finals>>
mockVars == <<ticks, silence>>
vars == <<kind, loop, stop, lock, link, receiving, idVars, textVars, queue, kept,
          sent, lost, messages, mockVars>>

-----------------------------------------------------------------------------
NoId == 0
NoEvent == [type |-> "none", id |-> NoId, from |-> 0, to |-> 0]
Event(type, u, a, b) == [type |-> type, id |-> u, from |-> a, to |-> b]
IsFinal(e) == e.type = "final"
Remote == kind \in {"deepgram", "transcribe"}

Init ==
  /\ kind \in Kinds
  /\ loop = "idle" /\ stop = "no" /\ lock = "free"
  /\ link = "none" /\ receiving = FALSE
  /\ id = NoId /\ fresh = 0 /\ first = 1 /\ said = 0
  /\ queue = <<>> /\ kept = NoEvent /\ last = NoEvent /\ finals = <<>> /\ lost = FALSE
  /\ messages = 0 /\ ticks = 0 /\ silence = 0

(* The consumer's callback is given e.                                      *)
Report(e) == last' = e /\ finals' = IF IsFinal(e) THEN Append(finals, e) ELSE finals

(* self._utterance_id, drawn when there is none.                            *)
NeedId == IF id = NoId THEN fresh + 1 ELSE id
DrawId == id' = NeedId /\ fresh' = (IF id = NoId THEN fresh + 1 ELSE fresh)

-----------------------------------------------------------------------------
(* The loop goes round while the consumer runs; a loop that waits for a     *)
(* frame when stop begins may still be given one.                           *)
Again == IF stop = "no" THEN "idle" ELSE "ended"

(* process_audio of the remote engines: connect when there is no            *)
(* connection, send the frame, take one event.  Once the connection is      *)
(* made nothing notices that it has failed: the next send raises.           *)
ProcessAudio ==
  /\ Remote /\ loop = "idle"
  /\ IF link # "none" THEN loop' = "sending" /\ DrawId
     ELSE loop' = "connecting" /\ UNCHANGED idVars
  /\ UNCHANGED <<kind, stop, lock, link, receiving, textVars, queue, kept, sent, lost,
                 messages, mockVars>>

(* _connect waits for the lock and looks again.                             *)
TakeLock ==
  /\ loop = "connecting" /\ lock = "free"
  /\ IF link # "none" THEN loop' = "sending" /\ DrawId /\ UNCHANGED lock
     ELSE lock' = "loop" /\ UNCHANGED <<loop, idVars>>
  /\ UNCHANGED <<kind, stop, link, receiving, textVars, queue, kept, sent, lost,
                 messages, mockVars>>

Connected ==
  /\ loop = "connecting" /\ lock = "loop"
  /\ link' = "open" /\ receiving' = TRUE /\ lock' = "free"
  /\ loop' = "sending" /\ DrawId
  /\ UNCHANGED <<kind, stop, textVars, queue, kept, sent, lost, messages, mockVars>>

ConnectFails ==
  /\ loop = "connecting" /\ lock = "loop"
  /\ loop' = Again /\ lock' = "free"
  /\ UNCHANGED <<kind, stop, link, receiving, idVars, textVars, queue, kept, sent, lost,
                 messages, mockVars>>

(* _dequeue_event after the frame has been sent; the consumer passes the    *)
(* event to its callback.                                                   *)
Dequeue_HoldsOne ==
  IF Len(queue) < 2 THEN UNCHANGED <<queue, sent>>
  ELSE Report(Head(queue)) /\ queue' = Tail(queue)
Dequeue ==
  IF queue = <<>> THEN UNCHANGED <<queue, sent>>
  ELSE Report(Head(queue)) /\ queue' = Tail(queue)

FrameSent ==
  /\ loop = "sending" /\ link = "open"
  /\ loop' = Again /\ Dequeue
  /\ UNCHANGED <<kind, stop, lock, link, receiving, idVars, textVars, kept, lost, messages,
                 mockVars>>

SendRaises ==
  /\ loop = "sending" /\ link # "open"
  /\ loop' = Again
  /\ UNCHANGED <<kind, stop, lock, link, receiving, idVars, textVars, queue, kept, sent, lost,
                 messages, mockVars>>

-----------------------------------------------------------------------------
(* The receive loop.  A message is about the words from first on: an        *)
(* interim result shows one word more than has been settled.                *)
Receive ==
  /\ receiving /\ link \in {"open", "ending"} /\ messages < MaxMessages
  /\ messages' = messages + 1
  /\ UNCHANGED <<kind, loop, stop, lock, link, receiving, kept, sent, lost, mockVars>>

Put(e) == queue' = Append(queue, e)

(* An id for an event when no frame has drawn one yet is used just once.    *)
EventId == NeedId
UseId == fresh' = (IF id = NoId THEN fresh + 1 ELSE fresh)

InterimResult ==
  /\ Receive
  /\ Put(Event("partial", EventId, first, said + 1)) /\ UseId
  /\ UNCHANGED <<id, textVars>>

(* Deepgram: is_final settles a segment; speech_final, or UtteranceEnd with *)
(* segments collected, ends the utterance.  An empty result, or the end of  *)
(* an utterance without a segment, is ignored.                              *)
SegmentFinal ==
  /\ Receive /\ kind = "deepgram"
  /\ said' = said + 1 /\ UNCHANGED first
  /\ Put(Event("partial", EventId, first, said + 1)) /\ UseId /\ UNCHANGED id

FinalEvent_KeepsSegments(to) ==
  /\ Put(Event("final", EventId, first, to)) /\ UseId
  /\ id' = NoId /\ said' = to /\ UNCHANGED first
FinalEvent_KeepsId(to) ==
  /\ Put(Event("final", EventId, first, to))
  /\ DrawId /\ said' = to /\ first' = to + 1
FinalEvent(to) ==
  /\ Put(Event("final", EventId, first, to)) /\ UseId
  /\ id' = NoId /\ said' = to /\ first' = to + 1

SpeechFinal(withWord) ==
  /\ Receive
  /\ kind = "deepgram" \/ withWord       \* Transcribe: a result that is not partial
  /\ IF withWord \/ first <= said THEN FinalEvent(IF withWord THEN said + 1 ELSE said)
     ELSE UNCHANGED <<idVars, textVars, queue>>

(* The provider, or the network, ends the connection.  The receive loop     *)
(* ends; _connected and _ws stay as they are.                               *)
LinkFails ==
  /\ link \in {"open", "ending"}
  /\ link' = "failed" /\ receiving' = FALSE
  /\ UNCHANGED <<kind, loop, stop, lock, idVars, textVars, queue, kept, sent, lost, messages,
                 mockVars>>

-----------------------------------------------------------------------------
(* MockSTTEngine.process_audio, which never suspends.  A silent frame       *)
(* before any word counts for nothing.  The interval's partial comes before *)
(* the final that silence asks for, which waits for the next frame.         *)
MockReset == id' = NoId /\ first' = said' + 1 /\ ticks' = 0 /\ silence' = 0

MockFrame(audible, word) ==
  LET spoken == first <= said'
      frames == (ticks + 1) % PartialInterval
      quiet  == IF word THEN 0
                ELSE IF kind = "mock" \/ ~audible THEN silence + 1 ELSE silence
  IN /\ ~Remote /\ loop = "idle"
     /\ kind = "mock" => audible
     /\ word => audible /\ messages < MaxMessages
     /\ messages' = IF word THEN messages + 1 ELSE messages
     /\ said' = IF word THEN said + 1 ELSE said
     /\ fresh' = IF id = NoId THEN fresh + 1 ELSE fresh
     /\ loop' = Again
     /\ \/ /\ ~audible /\ ~spoken
           /\ id' = NeedId /\ ticks' = 0 /\ UNCHANGED <<silence, first, sent>>
        \/ /\ audible \/ spoken
           /\ frames = 0 /\ spoken
           /\ Report(Event("partial", NeedId, first, said'))
           /\ id' = NeedId /\ ticks' = frames /\ UNCHANGED first
           /\ silence' = IF quiet > SilenceThreshold THEN SilenceThreshold ELSE quiet
        \/ /\ audible \/ spoken
           /\ ~(frames = 0 /\ spoken) /\ quiet >= SilenceThreshold /\ spoken
           /\ Report(Event("final", NeedId, first, said'))
           /\ MockReset
        \/ /\ audible \/ spoken
           /\ ~(frames = 0 /\ spoken) /\ ~(quiet >= SilenceThreshold /\ spoken)
           /\ id' = NeedId /\ ticks' = frames /\ UNCHANGED <<first, sent>>
           /\ silence' = IF quiet > SilenceThreshold THEN SilenceThreshold ELSE quiet
     /\ UNCHANGED <<kind, stop, lock, link, receiving, queue, kept, lost>>

-----------------------------------------------------------------------------
(* STTConsumer.stop.  The mock's finalize_utterance does not suspend.       *)
MockStop ==
  /\ ~Remote /\ stop = "no"
  /\ stop' = "waiting"
  /\ IF first <= said
       THEN /\ Report(Event("final", EventId, first, said))
            /\ UseId /\ UNCHANGED said /\ MockReset
       ELSE UNCHANGED <<sent, idVars, textVars, mockVars>>
  /\ UNCHANGED <<kind, loop, lock, link, receiving, queue, kept, lost, messages>>

(* finalize_utterance of the remote engines asks the provider to finish     *)
(* (Transcribe by ending the audio) and polls the queue.                    *)
Stop ==
  /\ Remote /\ stop = "no"
  /\ stop' = "polling"
  /\ link' = IF kind = "transcribe" /\ link = "open" THEN "ending" ELSE link
  /\ UNCHANGED <<kind, loop, lock, receiving, idVars, textVars, queue, kept, sent, lost,
                 messages, mockVars>>

(* reset.  close cancels Deepgram's receive loop at once when the lock is   *)
(* free; for Transcribe it first waits for end_stream.                      *)
Reset(left) ==
  /\ receiving' = (receiving /\ (kind = "transcribe" \/ lock # "free"))
  /\ id' = NoId /\ first' = said + 1 /\ queue' = <<>>
  /\ lost' = (lost \/ left # <<>> \/ first <= said)
  /\ stop' = "closing"

PollTakes ==
  /\ stop = "polling" /\ queue # <<>>
  /\ kept' = Head(queue)
  /\ IF IsFinal(Head(queue)) THEN Reset(Tail(queue))
     ELSE queue' = Tail(queue) /\ UNCHANGED <<id, first, lost, stop, receiving>>
  /\ UNCHANGED <<kind, loop, lock, link, fresh, said, sent, messages, mockVars>>

(* Two seconds have passed, or Transcribe has closed its output.            *)
PollEnds ==
  /\ stop = "polling" /\ Reset(queue)
  /\ UNCHANGED <<kind, loop, lock, link, fresh, said, kept, sent, messages, mockVars>>

(* close, then the consumer's callback with what finalize_utterance         *)
(* returned, then the shutdown signal.                                      *)
CloseAndReport ==
  /\ stop = "closing" /\ lock = "free"
  /\ link' = "none" /\ receiving' = FALSE
  /\ IF kept = NoEvent THEN UNCHANGED sent ELSE Report(kept)
  /\ kept' = NoEvent /\ stop' = "waiting"
  /\ UNCHANGED <<kind, loop, lock, idVars, textVars, queue, lost, messages, mockVars>>

LoopEnds ==
  /\ stop = "waiting" /\ loop = "idle"
  /\ loop' = "ended"
  /\ UNCHANGED <<kind, stop, lock, link, receiving, idVars, textVars, queue, kept, sent, lost,
                 messages, mockVars>>

(* The loop has ended, or is cancelled after two seconds.                   *)
Joined ==
  /\ stop = "waiting"
  /\ stop' = "joined" /\ loop' = "ended"
  /\ lock' = "free"
  /\ UNCHANGED <<kind, link, receiving, idVars, textVars, queue, kept, sent, lost, messages,
                 mockVars>>

(* stop closes the engine again: the loop may have connected meanwhile.     *)
CloseAgain_Skipped ==
  /\ stop = "joined" /\ stop' = "done"
  /\ UNCHANGED <<kind, loop, lock, link, receiving, idVars, textVars, queue, kept, sent, lost,
                 messages, mockVars>>
CloseAgain ==
  /\ stop = "joined" /\ lock = "free"
  /\ stop' = "done" /\ link' = "none" /\ receiving' = FALSE
  /\ UNCHANGED <<kind, loop, lock, idVars, textVars, queue, kept, sent, lost, messages, mockVars>>

-----------------------------------------------------------------------------
Next ==
  \/ ProcessAudio \/ TakeLock \/ Connected \/ ConnectFails \/ FrameSent \/ SendRaises
  \/ InterimResult \/ SegmentFinal \/ LinkFails
  \/ \E withWord \in BOOLEAN: SpeechFinal(withWord)
  \/ \E audible, word \in BOOLEAN: MockFrame(audible, word)
  \/ MockStop \/ Stop \/ PollTakes \/ PollEnds \/ CloseAndReport
  \/ LoopEnds \/ Joined \/ CloseAgain

(* While the consumer runs, frames keep coming and each gets through        *)
(* process_audio; connecting either succeeds or fails (open_timeout).       *)
Fairness == /\ WF_vars(ProcessAudio) /\ WF_vars(TakeLock)
            /\ WF_vars(Connected \/ ConnectFails) /\ WF_vars(FrameSent \/ SendRaises)

Spec == Init /\ [][Next]_vars /\ Fairness

-----------------------------------------------------------------------------
Finals(s) == SelectSeq(s, IsFinal)
Ids(s) == {s[i].id : i \in DOMAIN s}

Events == [type : {"partial", "final"}, id : Nat, from : Nat \ {0}, to : Nat]

TypeOK ==
  /\ kind \in Kinds
  /\ loop \in {"idle", "connecting", "sending", "ended"}
  /\ stop \in {"no", "polling", "closing", "waiting", "joined", "done"}
  /\ lock \in {"free", "loop"} /\ link \in {"none", "open", "ending", "failed"}
  /\ receiving \in BOOLEAN /\ lost \in BOOLEAN
  /\ fresh \in Nat /\ id \in {NoId, fresh}
  /\ said \in Nat /\ first \in 1..(said + 1) /\ messages \in 0..MaxMessages
  /\ queue \in Seq(Events) /\ finals \in Seq(Events)
  /\ kept \in Events \cup {NoEvent}

(* The engine implements the stream of transcripts its interface promises:  *)
(* what the loop reports never goes back to an utterance or a word that a   *)
(* final has settled (process_audio, _parse_result, parse_results).         *)
Words(e) == (e.from)..(e.to)
AllWords(s) == UNION {Words(s[i]) : i \in DOMAIN s}
Stream == INSTANCE TranscriptStream WITH
            event    <- last,
            closed   <- Ids(finals),
            words    <- AllWords(finals),
            stopping <- stop # "no"
StreamSpec == Stream!Spec

(* Every recognised word is in exactly one final: unless stop has thrown    *)
(* something away, the finals reported, held by finalize_utterance and      *)
(* still queued share no word and leave out none before the open segments   *)
(* (_segments, _event_queue, finalize_utterance).                           *)
WordsKept ==
  LET h == finals \o <<kept>> \o queue
      final == {i \in DOMAIN h : IsFinal(h[i])}
  IN /\ ~lost => UNION {Words(h[i]) : i \in final} = 1..(first - 1)
     /\ \A i, j \in final : i # j => Words(h[i]) \cap Words(h[j]) = {}

(* When stop has returned nobody uses the engine and no connection is left  *)
(* open, even if a frame in flight connected after finalize_utterance had   *)
(* closed the engine (STTConsumer.stop).                                    *)
StoppedIsClosed ==
  stop = "done" => loop = "ended" /\ lock = "free" /\ link = "none" /\ ~receiving

(* While the connection lives and the consumer runs, a final the receive    *)
(* loop has queued is reported, although a frame takes one event only       *)
(* (_dequeue_event).                                                        *)
FinalReachesCaller ==
  Finals(queue) # <<>> ~> Finals(queue) = <<>> \/ link = "failed" \/ stop # "no"
=============================================================================
