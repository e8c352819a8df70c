-------------------------- MODULE TranscriptStream --------------------------
(***************************************************************************)
(* What a StreamingSTTEngine promises its consumer (app/stt/engine.py,     *)
(* models.py): a stream of transcript events in which a final ends its     *)
(* utterance, and in which no word that a final has reported is reported   *)
(* by another.  While the consumer stops, two tasks take events from the   *)
(* engine, and only their order is no longer promised.                     *)
(***************************************************************************)
EXTENDS Naturals

VARIABLES event,    \* the event reported last
          closed,   \* utterances whose final has been reported
          words,    \* words that finals have reported
          stopping  \* STTConsumer.stop has begun

vars == <<event, closed, words, stopping>>

Init == /\ event = [type |-> "none", id |-> 0, from |-> 0, to |-> 0]
        /\ closed = {} /\ words = {} /\ stopping = FALSE

InOrder(e) == \A w \in words : w < e.from

Partial(e) == /\ e.type = "partial"
              /\ stopping' \/ (e.id \notin closed /\ InOrder(e))
              /\ event' = e /\ UNCHANGED <<closed, words>>

Final(e) == /\ e.type = "final" /\ e.from <= e.to
            /\ e.id \notin closed /\ (e.from)..(e.to) \cap words = {}
            /\ stopping' \/ InOrder(e)
            /\ event' = e /\ closed' = closed \cup {e.id}
            /\ words' = words \cup (e.from)..(e.to)

Next == /\ stopping' \in {stopping, TRUE}
        /\ Partial(event') \/ Final(event') \/ UNCHANGED <<event, closed, words>>

Spec == Init /\ [][Next]_vars
=============================================================================
