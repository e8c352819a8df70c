-------------------------- MODULE SttEngineProofs --------------------------
(***************************************************************************)
(* Proofs about SttEngine, for any number of provider messages and any     *)
(* thresholds of the mock: every recognised word is in exactly one final,  *)
(* the events reported are the stream TranscriptStream promises, and a     *)
(* stopped engine is closed.                                               *)
(***************************************************************************)
EXTENDS SttEngine, SequenceTheorems, TLAPS

(* Who may hold the lock, and what the mock does not have.                  *)
Tasks ==
  /\ lock = "loop" => loop = "connecting"
  /\ stop \in {"joined", "done"} => loop = "ended"
  /\ ~Remote => queue = <<>> /\ kept = NoEvent /\ ~receiving /\ loop # "connecting"
                  /\ loop # "sending" /\ stop \notin {"polling", "closing"}

(* finalize_utterance holds a final only between its return and the report. *)
KeptPhase ==
  /\ stop \in {"no", "polling"} => ~IsFinal(kept)
  /\ stop \in {"waiting", "joined", "done"} => kept = NoEvent

(* What a final has settled is behind the engine: later events have a later *)
(* id and begin at a later word.                                            *)
Settled(e) == e.id < NeedId /\ e.from <= e.to /\ e.to < first

AllSettled ==
  /\ \A i \in DOMAIN finals : IsFinal(finals[i]) /\ Settled(finals[i])
  /\ \A i \in DOMAIN queue : IsFinal(queue[i]) => Settled(queue[i])
  /\ IsFinal(kept) => Settled(kept)

(* The final e precedes the event f, or the finals e and f are apart.       *)
Precedes(e, f) == e.id # f.id /\ e.to < f.from
Apart(e, f) == Precedes(e, f) \/ Precedes(f, e)

(* The finals already taken from the queue precede what is in it, which is  *)
(* in order.  What finalize_utterance holds may be overtaken by events the  *)
(* loop takes after it, so among the finals taken the order is not kept.    *)
QueueOrder ==
  /\ \A i \in DOMAIN finals, j \in DOMAIN queue : Precedes(finals[i], queue[j])
  /\ IsFinal(kept) => \A j \in DOMAIN queue : Precedes(kept, queue[j])
  /\ \A i, j \in DOMAIN queue : i < j /\ IsFinal(queue[i]) => Precedes(queue[i], queue[j])

TakenApart ==
  /\ \A i, j \in DOMAIN finals : i # j => Apart(finals[i], finals[j])
  /\ IsFinal(kept) => \A i \in DOMAIN finals : Apart(finals[i], kept)

(* Unless something has been discarded, every settled word is in a final.   *)
Reported(w) == \E i \in DOMAIN finals : w \in Words(finals[i])
Held(w)     == IsFinal(kept) /\ w \in Words(kept)
Queued(w)   == \E i \in DOMAIN queue : IsFinal(queue[i]) /\ w \in Words(queue[i])

Covered == ~lost => \A w \in 1..(first - 1) : Reported(w) \/ Held(w) \/ Queued(w)

TextInv == AllSettled /\ QueueOrder /\ TakenApart /\ Covered
Inv == TypeOK /\ Tasks /\ KeptPhase /\ StoppedIsClosed /\ TextInv

-----------------------------------------------------------------------------
(* Sequences and ids.                                                       *)

LEMMA AppendFacts ==
  ASSUME NEW S, NEW s \in Seq(S), NEW e \in S
  PROVE  /\ Append(s, e) \in Seq(S) /\ Len(s) \in Nat
         /\ DOMAIN Append(s, e) = 1..(Len(s) + 1) /\ DOMAIN s = 1..Len(s)
         /\ Append(s, e)[Len(s) + 1] = e
         /\ \A i \in DOMAIN s : Append(s, e)[i] = s[i]
OBVIOUS

(* An index of the longer sequence is the last one or one of the shorter.   *)
LEMMA AppendIndex ==
  ASSUME NEW S, NEW s \in Seq(S), NEW e \in S, NEW i \in DOMAIN Append(s, e)
  PROVE  \/ i = Len(s) + 1 /\ Append(s, e)[i] = e
         \/ i \in DOMAIN s /\ i < Len(s) + 1 /\ Append(s, e)[i] = s[i]
<1>1. Len(s) \in Nat /\ DOMAIN s = 1..Len(s) /\ DOMAIN Append(s, e) = 1..(Len(s) + 1)
  BY AppendFacts
<1>2. i = Len(s) + 1 \/ (i \in DOMAIN s /\ i < Len(s) + 1)
  BY <1>1
<1> QED BY <1>2, AppendFacts

LEMMA TailFacts ==
  ASSUME NEW S, NEW s \in Seq(S), s # <<>>
  PROVE  /\ Head(s) \in S /\ Head(s) = s[1] /\ 1 \in DOMAIN s
         /\ Tail(s) \in Seq(S)
         /\ \A i \in DOMAIN Tail(s) : i + 1 \in DOMAIN s /\ Tail(s)[i] = s[i + 1] /\ i \in Nat /\ 1 < i + 1
         /\ \A i \in DOMAIN s : i = 1 \/ (i - 1 \in DOMAIN Tail(s) /\ Tail(s)[i - 1] = s[i])
<1>1. Len(s) \in Nat /\ Len(s) # 0 /\ DOMAIN s = 1..Len(s)
  BY EmptySeq
<1>2. /\ Head(s) \in S /\ Tail(s) \in Seq(S) /\ Len(Tail(s)) = Len(s) - 1
      /\ \A i \in 1 .. Len(Tail(s)) : Tail(s)[i] = s[i + 1]
  BY HeadTailProperties
<1>3. DOMAIN Tail(s) = 1..(Len(s) - 1)
  BY <1>1, <1>2
<1>4. \A i \in DOMAIN Tail(s) : i + 1 \in DOMAIN s /\ Tail(s)[i] = s[i + 1] /\ i \in Nat /\ 1 < i + 1
  BY <1>1, <1>2, <1>3
<1>5. ASSUME NEW i \in DOMAIN s, i # 1
      PROVE  i - 1 \in DOMAIN Tail(s) /\ Tail(s)[i - 1] = s[i]
  <2>1. i - 1 \in 1..(Len(s) - 1) /\ (i - 1) + 1 = i
    BY <1>1, <1>5
  <2> QED BY <1>2, <1>3, <2>1
<1> QED BY <1>1, <1>2, <1>4, <1>5

(* A word below b that is not below a.                                      *)
LEMMA Beyond ==
  ASSUME NEW a \in Nat, NEW b \in Nat, NEW w \in 1..(b - 1), w \notin 1..(a - 1)
  PROVE  w \in Nat /\ a <= w /\ w < b
OBVIOUS

LEMMA IdFacts ==
  ASSUME TypeOK
  PROVE  /\ NeedId \in Nat /\ fresh <= NeedId /\ NeedId <= fresh + 1
         /\ first \in Nat /\ 1 <= first /\ first <= said + 1 /\ said \in Nat
BY DEF TypeOK, NeedId, NoId

(* An utterance id is drawn, or used for one event only.                    *)
LEMMA DrawFacts ==
  ASSUME TypeOK, DrawId
  PROVE  fresh' \in Nat /\ id' \in {NoId, fresh'} /\ NeedId' = NeedId /\ NeedId \in Nat
BY DEF TypeOK, DrawId, NeedId, NoId

LEMMA UseFacts ==
  ASSUME TypeOK, UseId, id' \in {id, NoId}
  PROVE  /\ fresh' \in Nat /\ id' \in {NoId, fresh'} /\ NeedId' \in Nat /\ NeedId <= NeedId'
         /\ id' = NoId => NeedId < NeedId'
BY DEF TypeOK, UseId, NeedId, NoId

-----------------------------------------------------------------------------
(* What becomes of the transcript.                                          *)

(* What is settled stays settled while the ids and the words go on.         *)
LEMMA StaysSettled ==
  ASSUME TypeOK, NeedId' \in Nat, NeedId <= NeedId', first' \in Nat, first <= first'
  PROVE  \A e \in Events : Settled(e) => e.id < NeedId' /\ e.from <= e.to /\ e.to < first'
<1> SUFFICES ASSUME NEW e \in Events, Settled(e)
             PROVE  e.id < NeedId' /\ e.from <= e.to /\ e.to < first'
  OBVIOUS
<1>1. NeedId \in Nat /\ first \in Nat /\ e.id \in Nat /\ e.to \in Nat
  BY IdFacts DEF Events
<1> QED BY <1>1 DEF Settled

(* The types of the three places an event can be in.                        *)
LEMMA EventTypes ==
  ASSUME TypeOK
  PROVE  /\ \A i \in DOMAIN finals : finals[i] \in Events
         /\ \A i \in DOMAIN queue : queue[i] \in Events
         /\ IsFinal(kept) => kept \in Events
         /\ queue \in Seq(Events) /\ finals \in Seq(Events)
BY DEF TypeOK, IsFinal, NoEvent

(* Nothing is put, taken or settled.                                        *)
LEMMA TextUnchanged ==
  ASSUME TypeOK, TextInv, UNCHANGED <<finals, kept, queue, first>>, lost => lost',
         NeedId' \in Nat, NeedId <= NeedId'
  PROVE  TextInv'
<1>1. \A e \in Events : Settled(e) => e.id < NeedId' /\ e.from <= e.to /\ e.to < first'
  BY StaysSettled, IdFacts
<1>2. AllSettled'
  BY <1>1, EventTypes DEF TextInv, AllSettled, Settled
<1>3. QueueOrder' /\ TakenApart'
  BY DEF TextInv, QueueOrder, TakenApart
<1>4. Covered'
  BY DEF TextInv, Covered, Reported, Held, Queued
<1> QED BY <1>2, <1>3, <1>4 DEF TextInv

(* The receive loop puts an event: of the current id, from the first word   *)
(* that is not settled.                                                     *)
LEMMA TextPut ==
  ASSUME TypeOK, TextInv, NEW e \in Events, e.id = NeedId, e.from = first,
         queue' = Append(queue, e), UNCHANGED <<finals, kept, lost>>,
         NeedId' \in Nat, NeedId <= NeedId',
         IF IsFinal(e) THEN e.from <= e.to /\ first' = e.to + 1 /\ NeedId < NeedId'
         ELSE first' = first
  PROVE  TextInv'
<1>0. /\ NeedId \in Nat /\ first \in Nat /\ e.id \in Nat /\ e.from \in Nat /\ e.to \in Nat
      /\ first' \in Nat /\ first <= first' /\ 1 <= first
  BY IdFacts DEF Events
<1>1. \A f \in Events : Settled(f) => f.id < NeedId' /\ f.from <= f.to /\ f.to < first'
  BY <1>0, StaysSettled
<1>2. IsFinal(e) => e.id < NeedId' /\ e.from <= e.to /\ e.to < first'
  BY <1>0
<1>3. \A f \in Events : Settled(f) => Precedes(f, e)
  BY <1>0 DEF Settled, Precedes, Events
<1>4. /\ \A i \in DOMAIN queue' : \/ i = Len(queue) + 1 /\ queue'[i] = e
                                  \/ i \in DOMAIN queue /\ i < Len(queue) + 1 /\ queue'[i] = queue[i]
      /\ \A i \in DOMAIN queue : i \in DOMAIN queue' /\ queue'[i] = queue[i]
      /\ Len(queue) \in Nat /\ Len(queue) + 1 \in DOMAIN queue' /\ queue'[Len(queue) + 1] = e
      /\ \A i \in DOMAIN queue : i \in Nat
  BY EventTypes, AppendIndex, AppendFacts
<1>5. AllSettled'
  BY <1>1, <1>2, <1>4, EventTypes DEF TextInv, AllSettled, Settled
<1>6. QueueOrder'
  <2>1. \A i \in DOMAIN finals, j \in DOMAIN queue' : Precedes(finals[i], queue'[j])
    BY <1>3, <1>4, EventTypes DEF TextInv, AllSettled, QueueOrder
  <2>2. IsFinal(kept) => \A j \in DOMAIN queue' : Precedes(kept, queue'[j])
    BY <1>3, <1>4, EventTypes DEF TextInv, AllSettled, QueueOrder
  <2>3. ASSUME NEW i \in DOMAIN queue', NEW j \in DOMAIN queue', i < j, IsFinal(queue'[i])
        PROVE  Precedes(queue'[i], queue'[j])
    <3>1. i \in DOMAIN queue /\ queue'[i] = queue[i]
      BY <1>4, <2>3
    <3>2. CASE j \in DOMAIN queue
      BY <1>4, <2>3, <3>1, <3>2 DEF TextInv, QueueOrder
    <3>3. CASE queue'[j] = e
      BY <1>3, <2>3, <3>1, <3>3, EventTypes DEF TextInv, AllSettled
    <3> QED BY <1>4, <3>2, <3>3
  <2> QED BY <2>1, <2>2, <2>3 DEF QueueOrder
<1>7. TakenApart'
  BY DEF TextInv, TakenApart
<1>8. Covered'
  <2> SUFFICES ASSUME ~lost', NEW w \in 1..(first' - 1)
               PROVE  Reported(w) \/ Held(w) \/ Queued(w)'
    BY DEF Covered, Reported, Held
  <2>1. Queued(w) => Queued(w)'
    BY <1>4 DEF Queued
  <2>2. CASE w \in 1..(first - 1)
    BY <2>1, <2>2 DEF TextInv, Covered
  <2>3. CASE w \notin 1..(first - 1)
    <3>0. w \in Nat /\ first <= w /\ w < first'
      BY <1>0, <2>3, Beyond
    <3>1. IsFinal(e) /\ w \in e.from..e.to
      BY <1>0, <3>0
    <3> QED BY <1>4, <3>1 DEF Queued, Words
  <2> QED BY <2>2, <2>3
<1> QED BY <1>5, <1>6, <1>7, <1>8 DEF TextInv

(* The mock reports a final of all its words directly; it has no queue.     *)
LEMMA TextMockFinal ==
  ASSUME TypeOK, TextInv, queue = <<>>, kept = NoEvent, UNCHANGED <<queue, kept, lost>>,
         NEW e \in Events, IsFinal(e), e.id = NeedId, e.from = first, e.from <= e.to,
         finals' = Append(finals, e), first' = e.to + 1, NeedId' \in Nat, NeedId < NeedId'
  PROVE  TextInv'
<1>0. /\ NeedId \in Nat /\ first \in Nat /\ e.id \in Nat /\ e.from \in Nat /\ e.to \in Nat
      /\ first' \in Nat /\ first <= first' /\ 1 <= first /\ NeedId <= NeedId'
  BY IdFacts DEF Events
<1>1. \A f \in Events : Settled(f) => f.id < NeedId' /\ f.from <= f.to /\ f.to < first'
  BY <1>0, StaysSettled
<1>2. e.id < NeedId' /\ e.from <= e.to /\ e.to < first'
  BY <1>0
<1>3. \A f \in Events : Settled(f) => Precedes(f, e)
  BY <1>0 DEF Settled, Precedes, Events
<1>4. /\ \A i \in DOMAIN finals' : \/ i = Len(finals) + 1 /\ finals'[i] = e
                                   \/ i \in DOMAIN finals /\ i < Len(finals) + 1 /\ finals'[i] = finals[i]
      /\ \A i \in DOMAIN finals : i \in DOMAIN finals' /\ finals'[i] = finals[i]
      /\ Len(finals) \in Nat /\ Len(finals) + 1 \in DOMAIN finals' /\ finals'[Len(finals) + 1] = e
  BY EventTypes, AppendIndex, AppendFacts
<1>5. DOMAIN queue = {} /\ ~IsFinal(kept)
  BY DEF NoEvent, IsFinal
<1>6. AllSettled'
  BY <1>1, <1>2, <1>4, <1>5, EventTypes DEF TextInv, AllSettled, Settled
<1>7. QueueOrder'
  BY <1>5 DEF QueueOrder
<1>8. TakenApart'
  BY <1>3, <1>4, <1>5, EventTypes DEF TextInv, TakenApart, AllSettled, Apart
<1>9. Covered'
  <2> SUFFICES ASSUME ~lost', NEW w \in 1..(first' - 1)
               PROVE  Reported(w)'
    BY DEF Covered
  <2>1. Reported(w) => Reported(w)'
    BY <1>4 DEF Reported
  <2>2. CASE w \in 1..(first - 1)
    BY <1>5, <2>1, <2>2 DEF TextInv, Covered, Held, Queued
  <2>3. CASE w \notin 1..(first - 1)
    <3>0. w \in Nat /\ first <= w /\ w < first'
      BY <1>0, <2>3, Beyond
    <3>1. w \in e.from..e.to
      BY <1>0, <3>0
    <3> QED BY <1>4, <3>1 DEF Reported, Words
  <2> QED BY <2>2, <2>3
<1> QED BY <1>6, <1>7, <1>8, <1>9 DEF TextInv

(* The loop takes the first event of the queue and reports it.              *)
LEMMA TextTake ==
  ASSUME TypeOK, TextInv, queue # <<>>, Report(Head(queue)), queue' = Tail(queue),
         UNCHANGED <<id, fresh, kept, first, lost>>
  PROVE  TextInv' /\ queue' \in Seq(Events) /\ finals' \in Seq(Events)
<1> DEFINE h == Head(queue)
<1>1. /\ h \in Events /\ h = queue[1] /\ 1 \in DOMAIN queue /\ queue' \in Seq(Events)
      /\ \A i \in DOMAIN queue' : i + 1 \in DOMAIN queue /\ queue'[i] = queue[i + 1]
                                    /\ i \in Nat /\ 1 < i + 1
      /\ \A i \in DOMAIN queue : i = 1 \/ (i - 1 \in DOMAIN queue' /\ queue'[i - 1] = queue[i])
  BY EventTypes, TailFacts
<1>2. finals' = IF IsFinal(h) THEN Append(finals, h) ELSE finals
  BY DEF Report
<1>3. finals' \in Seq(Events)
  BY <1>1, <1>2, EventTypes, AppendFacts
<1>4. /\ \A i \in DOMAIN finals' : \/ IsFinal(h) /\ i = Len(finals) + 1 /\ finals'[i] = h
                                   \/ i \in DOMAIN finals /\ finals'[i] = finals[i]
      /\ \A i \in DOMAIN finals : i \in DOMAIN finals' /\ finals'[i] = finals[i]
      /\ IsFinal(h) => Len(finals) + 1 \in DOMAIN finals' /\ finals'[Len(finals) + 1] = h
  <2>1. CASE IsFinal(h)
    <3>1. finals' = Append(finals, h) /\ Len(finals) \in Nat
      BY <1>2, <2>1, EventTypes
    <3>2. Len(finals) + 1 \in DOMAIN finals' /\ finals'[Len(finals) + 1] = h
      BY <1>1, <3>1, EventTypes, AppendFacts
    <3>3. \A i \in DOMAIN finals : i \in DOMAIN finals' /\ finals'[i] = finals[i]
      BY <1>1, <3>1, EventTypes, AppendFacts
    <3>4. \A i \in DOMAIN finals' : \/ i = Len(finals) + 1 /\ finals'[i] = h
                                    \/ i \in DOMAIN finals /\ finals'[i] = finals[i]
      BY <1>1, <3>1, EventTypes, AppendIndex
    <3> QED BY <2>1, <3>2, <3>3, <3>4
  <2>2. CASE ~IsFinal(h)
    BY <1>2, <2>2
  <2> QED BY <2>1, <2>2
<1>5. NeedId' = NeedId
  BY DEF NeedId
<1>6. \A f : Settled(f)' <=> Settled(f)
  BY <1>5 DEF Settled
<1> HIDE DEF h
<1>7. AllSettled'
  <2>1. \A i \in DOMAIN finals' : IsFinal(finals'[i]) /\ Settled(finals'[i])
    BY <1>1, <1>4 DEF TextInv, AllSettled
  <2>2. \A i \in DOMAIN queue' : IsFinal(queue'[i]) => Settled(queue'[i])
    BY <1>1 DEF TextInv, AllSettled
  <2> QED BY <1>5, <2>1, <2>2 DEF TextInv, AllSettled, Settled
<1>8. IsFinal(h) => \A j \in DOMAIN queue' : Precedes(h, queue'[j])
  BY <1>1 DEF TextInv, QueueOrder
<1>9. QueueOrder'
  <2>1. \A i \in DOMAIN finals', j \in DOMAIN queue' : Precedes(finals'[i], queue'[j])
    BY <1>1, <1>4, <1>8 DEF TextInv, QueueOrder
  <2>2. IsFinal(kept) => \A j \in DOMAIN queue' : Precedes(kept, queue'[j])
    BY <1>1 DEF TextInv, QueueOrder
  <2>3. ASSUME NEW i \in DOMAIN queue', NEW j \in DOMAIN queue', i < j, IsFinal(queue'[i])
        PROVE  Precedes(queue'[i], queue'[j])
    <3>1. i + 1 < j + 1 /\ queue'[i] = queue[i + 1] /\ queue'[j] = queue[j + 1]
            /\ i + 1 \in DOMAIN queue /\ j + 1 \in DOMAIN queue
      BY <1>1, <2>3
    <3> QED BY <2>3, <3>1 DEF TextInv, QueueOrder
  <2> QED BY <2>1, <2>2, <2>3 DEF QueueOrder
<1>10. TakenApart'
  <2>1. IsFinal(h) => \A i \in DOMAIN finals : Precedes(finals[i], h)
    BY <1>1 DEF TextInv, QueueOrder
  <2>2. IsFinal(h) /\ IsFinal(kept) => Precedes(kept, h)
    BY <1>1 DEF TextInv, QueueOrder
  <2>3. ASSUME NEW i \in DOMAIN finals', NEW j \in DOMAIN finals', i # j
        PROVE  Apart(finals'[i], finals'[j])
    BY <1>4, <2>1, <2>3 DEF TextInv, TakenApart, Apart
  <2>4. ASSUME NEW i \in DOMAIN finals', IsFinal(kept)
        PROVE  Apart(finals'[i], kept)
    BY <1>4, <2>2, <2>4 DEF TextInv, TakenApart, Apart
  <2> QED BY <2>3, <2>4 DEF TakenApart
<1>11. Covered'
  <2> SUFFICES ASSUME ~lost, NEW w \in 1..(first - 1)
               PROVE  Reported(w)' \/ Held(w) \/ Queued(w)'
    BY DEF Covered, Held
  <2>1. Reported(w) => Reported(w)'
    BY <1>4 DEF Reported
  <2>2. Queued(w) => Queued(w)' \/ Reported(w)'
    BY <1>1, <1>4 DEF Reported, Queued
  <2> QED BY <2>1, <2>2 DEF TextInv, Covered
<1> QED BY <1>1, <1>3, <1>7, <1>9, <1>10, <1>11 DEF TextInv

(* finalize_utterance takes the first event of the queue, having held none  *)
(* or a partial that it drops.                                              *)
LEMMA TextPoll ==
  ASSUME TypeOK, TextInv, ~IsFinal(kept), queue # <<>>, kept' = Head(queue),
         queue' \in {<<>>, Tail(queue)}, queue' # Tail(queue) => lost', lost => lost',
         UNCHANGED <<finals, fresh>>, NeedId' \in Nat, NeedId <= NeedId',
         first' \in Nat, first <= first', first' # first => lost'
  PROVE  TextInv' /\ queue' \in Seq(Events) /\ kept' \in Events
<1> DEFINE h == Head(queue)
           t == Tail(queue)
<1>1. /\ h \in Events /\ h = queue[1] /\ 1 \in DOMAIN queue /\ t \in Seq(Events)
      /\ \A i \in DOMAIN t : i + 1 \in DOMAIN queue /\ t[i] = queue[i + 1] /\ i \in Nat /\ 1 < i + 1
      /\ \A i \in DOMAIN queue : i = 1 \/ (i - 1 \in DOMAIN t /\ t[i - 1] = queue[i])
  BY EventTypes, TailFacts
<1>2. DOMAIN queue' \subseteq DOMAIN t /\ \A i \in DOMAIN queue' : queue'[i] = t[i]
  <2>1. DOMAIN <<>> = {}
    OBVIOUS
  <2> QED BY <2>1
<1>3. queue' \in Seq(Events)
  <2>1. <<>> \in Seq(Events)
    OBVIOUS
  <2> QED BY <1>1, <2>1
<1>4. \A e \in Events : Settled(e) => e.id < NeedId' /\ e.from <= e.to /\ e.to < first'
  BY StaysSettled
<1> HIDE DEF h, t
<1>5. \A i \in DOMAIN queue' : /\ i + 1 \in DOMAIN queue /\ queue'[i] = queue[i + 1]
                               /\ i \in Nat /\ 1 < i + 1
  BY <1>1, <1>2
<1>6. kept' = h
  BY DEF h
<1>7. AllSettled'
  BY <1>1, <1>4, <1>5, <1>6, EventTypes DEF TextInv, AllSettled, Settled
<1>8. QueueOrder'
  <2>1. \A i \in DOMAIN finals, j \in DOMAIN queue' : Precedes(finals[i], queue'[j])
    BY <1>5 DEF TextInv, QueueOrder
  <2>2. IsFinal(h) => \A j \in DOMAIN queue' : Precedes(h, queue'[j])
    BY <1>1, <1>5 DEF TextInv, QueueOrder
  <2>3. ASSUME NEW i \in DOMAIN queue', NEW j \in DOMAIN queue', i < j, IsFinal(queue'[i])
        PROVE  Precedes(queue'[i], queue'[j])
    <3>1. i + 1 < j + 1 /\ queue'[i] = queue[i + 1] /\ queue'[j] = queue[j + 1]
            /\ i + 1 \in DOMAIN queue /\ j + 1 \in DOMAIN queue
      BY <1>5, <2>3
    <3> QED BY <2>3, <3>1 DEF TextInv, QueueOrder
  <2> QED BY <1>6, <2>1, <2>2, <2>3 DEF QueueOrder
<1>9. TakenApart'
  <2>1. IsFinal(h) => \A i \in DOMAIN finals : Precedes(finals[i], h)
    BY <1>1 DEF TextInv, QueueOrder
  <2> QED BY <1>6, <2>1 DEF TextInv, TakenApart, Apart
<1>10. Covered'
  <2> SUFFICES ASSUME ~lost', NEW w \in 1..(first - 1)
               PROVE  Reported(w) \/ Held(w)' \/ Queued(w)'
    BY DEF Covered, Reported
  <2>1. queue' = t
    BY DEF t
  <2>2. Queued(w) => Queued(w)' \/ Held(w)'
    BY <1>1, <1>6, <2>1 DEF Queued, Held
  <2>3. Reported(w) \/ Queued(w)
    BY DEF TextInv, Covered, Held
  <2> QED BY <2>2, <2>3
<1> QED BY <1>1, <1>3, <1>6, <1>7, <1>8, <1>9, <1>10 DEF TextInv

(* reset with nothing polled: what is in the queue is discarded.            *)
LEMMA TextDiscard ==
  ASSUME TypeOK, TextInv, queue' = <<>>, queue # <<>> => lost', lost => lost',
         UNCHANGED <<finals, kept>>, NeedId' \in Nat, NeedId <= NeedId',
         first' \in Nat, first <= first', first' # first => lost'
  PROVE  TextInv'
<1>1. \A e \in Events : Settled(e) => e.id < NeedId' /\ e.from <= e.to /\ e.to < first'
  BY StaysSettled
<1>2. DOMAIN queue' = {}
  OBVIOUS
<1>3. AllSettled'
  BY <1>1, <1>2, EventTypes DEF TextInv, AllSettled, Settled
<1>4. QueueOrder'
  BY <1>2 DEF QueueOrder
<1>5. TakenApart'
  BY DEF TextInv, TakenApart
<1>6. Covered'
  <2> SUFFICES ASSUME ~lost', NEW w \in 1..(first - 1)
               PROVE  Reported(w) \/ Held(w) \/ Queued(w)
    BY DEF Covered, Reported, Held, Queued
  <2> QED BY DEF TextInv, Covered
<1> QED BY <1>3, <1>4, <1>5, <1>6 DEF TextInv

(* What finalize_utterance holds is reported.                               *)
LEMMA TextClose ==
  ASSUME TypeOK, TextInv, IF kept = NoEvent THEN UNCHANGED sent ELSE Report(kept),
         kept' = NoEvent, UNCHANGED <<id, fresh, first, lost, queue>>
  PROVE  TextInv' /\ finals' \in Seq(Events)
<1>0. ~IsFinal(NoEvent)
  BY DEF NoEvent, IsFinal
<1>1. finals' = IF IsFinal(kept) THEN Append(finals, kept) ELSE finals
  BY <1>0 DEF Report, sent
<1>2. IsFinal(kept) => kept \in Events
  BY EventTypes
<1>3. finals' \in Seq(Events)
  BY <1>1, <1>2, EventTypes, AppendFacts
<1>4. /\ \A i \in DOMAIN finals' : \/ IsFinal(kept) /\ i = Len(finals) + 1 /\ finals'[i] = kept
                                   \/ i \in DOMAIN finals /\ finals'[i] = finals[i]
      /\ \A i \in DOMAIN finals : i \in DOMAIN finals' /\ finals'[i] = finals[i]
      /\ IsFinal(kept) => Len(finals) + 1 \in DOMAIN finals' /\ finals'[Len(finals) + 1] = kept
  <2>1. CASE IsFinal(kept)
    <3>1. finals' = Append(finals, kept) /\ Len(finals) \in Nat /\ kept \in Events
      BY <1>1, <1>2, <2>1, EventTypes
    <3>2. Len(finals) + 1 \in DOMAIN finals' /\ finals'[Len(finals) + 1] = kept
      BY <3>1, EventTypes, AppendFacts
    <3>3. \A i \in DOMAIN finals : i \in DOMAIN finals' /\ finals'[i] = finals[i]
      BY <3>1, EventTypes, AppendFacts
    <3>4. \A i \in DOMAIN finals' : \/ i = Len(finals) + 1 /\ finals'[i] = kept
                                    \/ i \in DOMAIN finals /\ finals'[i] = finals[i]
      BY <3>1, EventTypes, AppendIndex
    <3> QED BY <2>1, <3>2, <3>3, <3>4
  <2>2. CASE ~IsFinal(kept)
    BY <1>1, <2>2
  <2> QED BY <2>1, <2>2
<1>5. NeedId' = NeedId
  BY DEF NeedId
<1>6. AllSettled'
  <2>1. \A i \in DOMAIN finals' : IsFinal(finals'[i]) /\ Settled(finals'[i])
    BY <1>4 DEF TextInv, AllSettled
  <2> QED BY <1>0, <1>5, <2>1 DEF TextInv, AllSettled, Settled
<1>7. QueueOrder'
  <2>1. \A i \in DOMAIN finals', j \in DOMAIN queue : Precedes(finals'[i], queue[j])
    BY <1>4 DEF TextInv, QueueOrder
  <2> QED BY <1>0, <2>1 DEF TextInv, QueueOrder
<1>8. TakenApart'
  <2>1. ASSUME NEW i \in DOMAIN finals', NEW j \in DOMAIN finals', i # j
        PROVE  Apart(finals'[i], finals'[j])
    BY <1>4, <2>1 DEF TextInv, TakenApart, Apart
  <2> QED BY <1>0, <2>1 DEF TakenApart
<1>9. Covered'
  <2> SUFFICES ASSUME ~lost, NEW w \in 1..(first - 1)
               PROVE  Reported(w)' \/ Queued(w)
    BY DEF Covered, Queued
  <2>1. Reported(w) \/ Held(w) => Reported(w)'
    BY <1>4 DEF Reported, Held
  <2> QED BY <2>1 DEF TextInv, Covered
<1> QED BY <1>3, <1>6, <1>7, <1>8, <1>9 DEF TextInv

-----------------------------------------------------------------------------
(* The inductive invariant, action by action.                               *)

LEMMA InitInv == Init => Inv
<1> SUFFICES ASSUME Init PROVE Inv
  OBVIOUS
<1>1. TypeOK
  <2>1. <<>> \in Seq(Events)
    OBVIOUS
  <2>2. 0 \in 0..MaxMessages /\ first \in 1..(said + 1) /\ said \in Nat /\ fresh \in Nat
    BY SttAssumption DEF Init
  <2> QED BY <2>1, <2>2 DEF Init, TypeOK, NoId
<1>2. Tasks /\ KeptPhase /\ StoppedIsClosed
  BY DEF Init, Tasks, KeptPhase, StoppedIsClosed, IsFinal, NoEvent
<1>3. DOMAIN queue = {} /\ DOMAIN finals = {} /\ ~IsFinal(kept)
  BY DEF Init, IsFinal, NoEvent
<1>4. first = 1
  BY DEF Init
<1>5. TextInv
  BY <1>3, <1>4 DEF TextInv, AllSettled, QueueOrder, TakenApart, Covered
<1> QED BY <1>1, <1>2, <1>5 DEF Inv

(* Steps of the loop that touch no transcript: connect, send, give up.      *)
LEMMA LoopStep ==
  ASSUME Inv, ProcessAudio \/ TakeLock \/ Connected \/ ConnectFails \/ SendRaises
  PROVE  Inv'
<1>1. UNCHANGED <<kind, stop, first, said, queue, kept, finals, lost, messages>>
  BY DEF ProcessAudio, TakeLock, Connected, ConnectFails, SendRaises, textVars, sent
<1>2. DrawId \/ UNCHANGED idVars
  BY DEF ProcessAudio, TakeLock, Connected, ConnectFails, SendRaises
<1>3. fresh' \in Nat /\ id' \in {NoId, fresh'} /\ NeedId' \in Nat /\ NeedId <= NeedId'
  <2>1. CASE DrawId
    BY <2>1, DrawFacts DEF Inv
  <2>2. CASE UNCHANGED idVars
    <3>1. id' = id /\ fresh' = fresh /\ NeedId' = NeedId
      BY <2>2 DEF idVars, NeedId
    <3>2. fresh \in Nat /\ id \in {NoId, fresh} /\ NeedId \in Nat
      BY IdFacts DEF Inv, TypeOK
    <3> QED BY <3>1, <3>2
  <2> QED BY <1>2, <2>1, <2>2
<1>4. TextInv'
  BY <1>1, <1>3, TextUnchanged DEF Inv
<1>5. /\ loop' \in {"idle", "connecting", "sending", "ended"} /\ lock' \in {"free", "loop"}
      /\ link' \in {"none", "open", "ending", "failed"} /\ receiving' \in BOOLEAN
  BY DEF Inv, TypeOK, ProcessAudio, TakeLock, Connected, ConnectFails, SendRaises, Again
<1>6. TypeOK'
  BY <1>1, <1>3, <1>5 DEF Inv, TypeOK
<1>7. Remote /\ loop # "ended"
  BY DEF Inv, Tasks, ProcessAudio, TakeLock, Connected, ConnectFails, SendRaises
<1>8. Tasks' /\ StoppedIsClosed'
  BY <1>1, <1>7 DEF Inv, Tasks, StoppedIsClosed, Remote, TypeOK,
                    ProcessAudio, TakeLock, Connected, ConnectFails, SendRaises
<1>9. KeptPhase'
  BY <1>1 DEF Inv, KeptPhase
<1> QED BY <1>4, <1>6, <1>8, <1>9 DEF Inv

LEMMA FrameSentStep ==
  ASSUME Inv, FrameSent
  PROVE  Inv'
<1>1. /\ loop = "sending" /\ link = "open" /\ loop' \in {"idle", "ended"} /\ Dequeue
      /\ UNCHANGED <<kind, stop, lock, link, receiving, id, fresh, first, said, kept, lost, messages>>
  BY DEF FrameSent, Again, idVars, textVars
<1>2. TextInv' /\ queue' \in Seq(Events) /\ finals' \in Seq(Events)
  <2>1. CASE queue = <<>>
    <3>1. UNCHANGED <<queue, finals>>
      BY <1>1, <2>1 DEF Dequeue, sent
    <3>2. NeedId' = NeedId /\ NeedId \in Nat
      BY <1>1, IdFacts DEF Inv, NeedId
    <3> QED BY <1>1, <3>1, <3>2, TextUnchanged DEF Inv, TypeOK
  <2>2. CASE queue # <<>>
    BY <1>1, <2>2, TextTake DEF Inv, Dequeue
  <2> QED BY <2>1, <2>2
<1>3. TypeOK'
  BY <1>1, <1>2 DEF Inv, TypeOK
<1>4. Tasks' /\ StoppedIsClosed' /\ KeptPhase'
  BY <1>1 DEF Inv, Tasks, StoppedIsClosed, KeptPhase, Remote
<1> QED BY <1>2, <1>3, <1>4 DEF Inv

(* The receive loop.                                                        *)
LEMMA ReceiveStep ==
  ASSUME Inv, InterimResult \/ SegmentFinal \/ \E withWord \in BOOLEAN : SpeechFinal(withWord)
  PROVE  Inv'
<1>1. Receive
  BY DEF InterimResult, SegmentFinal, SpeechFinal
<1>2. /\ UNCHANGED <<kind, loop, stop, lock, link, receiving, kept, finals, lost>>
      /\ receiving /\ link # "none" /\ messages' \in 0..MaxMessages
  BY <1>1, SttAssumption DEF Receive, sent, Inv, TypeOK
<1>3. Remote
  BY <1>2 DEF Inv, Tasks
<1>4. Tasks' /\ StoppedIsClosed' /\ KeptPhase'
  BY <1>2, <1>3 DEF Inv, Tasks, StoppedIsClosed, KeptPhase, Remote
<1>5. /\ NeedId \in Nat /\ first \in Nat /\ said \in Nat /\ first <= said + 1 /\ 1 <= first
  BY IdFacts DEF Inv
<1>6. ASSUME NEW t \in {"partial", "final"}, NEW to \in Nat,
             Put(Event(t, NeedId, first, to)), UseId, id' \in {id, NoId},
             IF t = "final" THEN first <= to /\ first' = to + 1 /\ id' = NoId /\ said' = to
             ELSE first' = first /\ said' \in {said, said + 1}
      PROVE  Inv'
  <2> DEFINE e == Event(t, NeedId, first, to)
  <2>1. e \in Events /\ e.id = NeedId /\ e.from = first /\ e.to = to /\ IsFinal(e) = (t = "final")
    BY <1>5 DEF Event, Events, IsFinal
  <2>2. /\ fresh' \in Nat /\ id' \in {NoId, fresh'} /\ NeedId' \in Nat /\ NeedId <= NeedId'
        /\ id' = NoId => NeedId < NeedId'
    BY <1>6, UseFacts DEF Inv
  <2>3. queue' = Append(queue, e)
    BY <1>6 DEF Put
  <2> HIDE DEF e
  <2>4. TextInv'
    BY <1>2, <1>6, <2>1, <2>2, <2>3, TextPut DEF Inv
  <2>5. queue' \in Seq(Events)
    BY <2>1, <2>3, AppendFacts DEF Inv, TypeOK
  <2>6. said' \in Nat /\ first' \in 1..(said' + 1)
    BY <1>5, <1>6
  <2>7. TypeOK'
    BY <1>2, <2>2, <2>5, <2>6 DEF Inv, TypeOK
  <2> QED BY <1>4, <2>4, <2>7 DEF Inv
<1>7. CASE InterimResult
  <2>1. said + 1 \in Nat
    BY <1>5
  <2>2. Put(Event("partial", NeedId, first, said + 1)) /\ UseId /\ id' = id /\ first' = first /\ said' = said
    BY <1>7 DEF InterimResult, EventId, textVars
  <2> QED BY <1>6, <2>1, <2>2
<1>8. CASE SegmentFinal
  <2>1. said + 1 \in Nat
    BY <1>5
  <2>2. Put(Event("partial", NeedId, first, said + 1)) /\ UseId /\ id' = id /\ first' = first /\ said' = said + 1
    BY <1>8 DEF SegmentFinal, EventId
  <2> QED BY <1>6, <2>1, <2>2
<1>9. ASSUME NEW withWord \in BOOLEAN, SpeechFinal(withWord)
      PROVE  Inv'
  <2> DEFINE to == IF withWord THEN said + 1 ELSE said
  <2>1. CASE withWord \/ first <= said
    <3>1. FinalEvent(to)
      BY <1>9, <2>1 DEF SpeechFinal
    <3>2. to \in Nat /\ first <= to
      BY <1>5, <2>1
    <3>3. Put(Event("final", NeedId, first, to)) /\ UseId /\ id' = NoId /\ first' = to + 1 /\ said' = to
      BY <3>1 DEF FinalEvent, EventId
    <3> HIDE DEF to
    <3> QED BY <1>6, <3>2, <3>3
  <2>2. CASE ~(withWord \/ first <= said)
    <3>1. UNCHANGED <<id, fresh, first, said, queue>>
      BY <1>9, <2>2 DEF SpeechFinal, idVars, textVars
    <3>2. NeedId' = NeedId
      BY <3>1 DEF NeedId
    <3>3. TextInv'
      BY <1>2, <1>5, <3>1, <3>2, TextUnchanged DEF Inv
    <3>4. TypeOK'
      BY <1>2, <3>1 DEF Inv, TypeOK
    <3> QED BY <1>4, <3>3, <3>4 DEF Inv
  <2> QED BY <2>1, <2>2
<1> QED BY <1>7, <1>8, <1>9

(* The mock: a word, a partial, a final or nothing.                         *)
LEMMA MockStep ==
  ASSUME Inv, ~Remote, UNCHANGED <<kind, lock, link, receiving, queue, kept, lost>>,
         \/ stop' = stop /\ loop = "idle" /\ loop' \in {"idle", "ended"}
         \/ stop = "no" /\ stop' = "waiting" /\ loop' = loop,
         messages' \in 0..MaxMessages, said' \in {said, said + 1},
         fresh' \in Nat, id' \in {NoId, fresh'}, NeedId' \in Nat, NeedId <= NeedId',
         \/ UNCHANGED <<first, finals>>
         \/ /\ first <= said' /\ first' = said' + 1 /\ NeedId < NeedId'
            /\ finals' = Append(finals, Event("final", NeedId, first, said'))
  PROVE  Inv'
<1>1. NeedId \in Nat /\ first \in Nat /\ said \in Nat /\ first <= said + 1 /\ 1 <= first
  BY IdFacts DEF Inv
<1>2. said' \in Nat /\ first' \in 1..(said' + 1)
  BY <1>1
<1>3. queue = <<>> /\ kept = NoEvent /\ ~receiving /\ loop \notin {"connecting", "sending"}
        /\ stop \notin {"polling", "closing"}
  BY DEF Inv, Tasks
<1>4. TextInv' /\ finals' \in Seq(Events)
  <2>1. CASE UNCHANGED <<first, finals>>
    BY <2>1, TextUnchanged DEF Inv, TypeOK
  <2>2. CASE /\ first <= said' /\ first' = said' + 1 /\ NeedId < NeedId'
             /\ finals' = Append(finals, Event("final", NeedId, first, said'))
    <3> DEFINE e == Event("final", NeedId, first, said')
    <3>1. e \in Events /\ IsFinal(e) /\ e.id = NeedId /\ e.from = first /\ e.to = said'
      BY <1>1, <1>2 DEF Event, Events, IsFinal
    <3> HIDE DEF e
    <3>2. finals' = Append(finals, e)
      BY <2>2 DEF e
    <3>3. finals' \in Seq(Events)
      BY <3>1, <3>2, AppendFacts DEF Inv, TypeOK
    <3>4. TextInv'
      BY <1>3, <2>2, <3>1, <3>2, TextMockFinal DEF Inv
    <3> QED BY <3>3, <3>4
  <2> QED BY <2>1, <2>2
<1>5. TypeOK'
  BY <1>2, <1>4 DEF Inv, TypeOK
<1>6. Tasks' /\ KeptPhase' /\ StoppedIsClosed'
  BY <1>3 DEF Inv, Tasks, KeptPhase, StoppedIsClosed, Remote, IsFinal, NoEvent, TypeOK
<1> QED BY <1>4, <1>5, <1>6 DEF Inv

LEMMA MockFrameStep ==
  ASSUME Inv, NEW audible \in BOOLEAN, NEW word \in BOOLEAN, MockFrame(audible, word)
  PROVE  Inv'
<1>1. NeedId \in Nat /\ first \in Nat /\ said \in Nat /\ fresh \in Nat /\ id \in {NoId, fresh}
  BY IdFacts DEF Inv, TypeOK
<1>2. /\ ~Remote /\ loop = "idle" /\ stop' = stop /\ loop' \in {"idle", "ended"}
      /\ UNCHANGED <<kind, lock, link, receiving, queue, kept, lost>>
      /\ said' \in {said, said + 1}
      /\ fresh' = IF id = NoId THEN fresh + 1 ELSE fresh
  BY DEF MockFrame, Again
<1>3. messages' \in 0..MaxMessages
  BY SttAssumption DEF MockFrame, Inv, TypeOK
<1>4. \/ id' = NeedId /\ UNCHANGED <<first, finals>>
      \/ /\ first <= said' /\ id' = NoId /\ first' = said' + 1
         /\ finals' = Append(finals, Event("final", NeedId, first, said'))
  BY DEF MockFrame, Report, MockReset, Event, IsFinal, sent
<1>5. CASE id' = NeedId /\ UNCHANGED <<first, finals>>
  <2>1. DrawId
    BY <1>2, <1>5 DEF DrawId
  <2>2. fresh' \in Nat /\ id' \in {NoId, fresh'} /\ NeedId' = NeedId
    BY <2>1, DrawFacts DEF Inv
  <2>3. NeedId' \in Nat /\ NeedId <= NeedId'
    BY <1>1, <2>2
  <2> QED BY <1>2, <1>3, <1>5, <2>2, <2>3, MockStep
<1>6. CASE /\ first <= said' /\ id' = NoId /\ first' = said' + 1
           /\ finals' = Append(finals, Event("final", NeedId, first, said'))
  <2>1. UseId
    BY <1>2 DEF UseId
  <2>2. fresh' \in Nat /\ id' \in {NoId, fresh'} /\ NeedId' \in Nat /\ NeedId <= NeedId' /\ NeedId < NeedId'
    BY <1>6, <2>1, UseFacts DEF Inv
  <2> QED BY <1>2, <1>3, <1>6, <2>2, MockStep
<1> QED BY <1>4, <1>5, <1>6

LEMMA MockStopStep ==
  ASSUME Inv, MockStop
  PROVE  Inv'
<1>1. NeedId \in Nat /\ first \in Nat /\ said \in Nat /\ fresh \in Nat /\ id \in {NoId, fresh}
        /\ messages \in 0..MaxMessages
  BY IdFacts DEF Inv, TypeOK
<1>2. /\ ~Remote /\ stop = "no" /\ stop' = "waiting" /\ loop' = loop
      /\ UNCHANGED <<kind, lock, link, receiving, queue, kept, lost, said, messages>>
  BY DEF MockStop, textVars
<1>3. \/ UNCHANGED <<first, finals, id, fresh>>
      \/ /\ first <= said' /\ id' = NoId /\ first' = said' + 1 /\ UseId
         /\ finals' = Append(finals, Event("final", NeedId, first, said'))
  BY <1>2 DEF MockStop, Report, MockReset, Event, IsFinal, EventId, sent, idVars, textVars
<1>4. CASE UNCHANGED <<first, finals, id, fresh>>
  <2>1. NeedId' = NeedId
    BY <1>4 DEF NeedId
  <2>2. NeedId' \in Nat /\ NeedId <= NeedId' /\ fresh' \in Nat /\ id' \in {NoId, fresh'}
    BY <1>1, <1>4, <2>1
  <2> QED BY <1>1, <1>2, <1>4, <2>2, MockStep
<1>5. CASE /\ first <= said' /\ id' = NoId /\ first' = said' + 1 /\ UseId
           /\ finals' = Append(finals, Event("final", NeedId, first, said'))
  <2>1. fresh' \in Nat /\ id' \in {NoId, fresh'} /\ NeedId' \in Nat /\ NeedId <= NeedId' /\ NeedId < NeedId'
    BY <1>5, UseFacts DEF Inv
  <2> QED BY <1>1, <1>2, <1>5, <2>1, MockStep
<1> QED BY <1>3, <1>4, <1>5

-----------------------------------------------------------------------------
(* The stopping task.                                                       *)

(* reset: the utterance is over, and what was open in it is discarded.      *)
LEMMA ResetFacts ==
  ASSUME TypeOK, NEW left, Reset(left), UNCHANGED <<fresh, said>>
  PROVE  /\ id' \in {NoId, fresh'} /\ NeedId' \in Nat /\ NeedId <= NeedId'
         /\ first' \in Nat /\ first <= first' /\ first' \in 1..(said' + 1)
         /\ first' # first => lost'
         /\ (lost => lost') /\ (left # <<>> => lost') /\ lost' \in BOOLEAN
         /\ receiving' \in BOOLEAN /\ (receiving' => receiving)
         /\ queue' = <<>> /\ stop' = "closing"
<1>1. fresh \in Nat /\ NeedId \in Nat /\ NeedId <= fresh + 1 /\ first \in Nat /\ said \in Nat
        /\ first <= said + 1 /\ 1 <= first
  BY IdFacts DEF TypeOK
<1>2. id' = NoId /\ first' = said + 1 /\ queue' = <<>> /\ stop' = "closing"
  BY DEF Reset
<1>3. NeedId' = fresh + 1
  BY <1>2 DEF NeedId
<1>4. lost' = (lost \/ left # <<>> \/ first <= said)
  BY DEF Reset
<1>5. first' # first => first <= said
  BY <1>1, <1>2
<1>6. receiving' = (receiving /\ (kind = "transcribe" \/ lock # "free"))
  BY DEF Reset
<1>7. /\ NeedId' \in Nat /\ NeedId <= NeedId'
      /\ first' \in Nat /\ first <= first' /\ first' \in 1..(said' + 1)
  BY <1>1, <1>2, <1>3
<1>8. /\ (lost => lost') /\ (left # <<>> => lost') /\ lost' \in BOOLEAN
      /\ receiving' \in BOOLEAN /\ (receiving' => receiving)
      /\ (first' # first => lost')
  BY <1>4, <1>5, <1>6, Zenon
<1> QED BY <1>2, <1>7, <1>8

LEMMA PollTakesStep ==
  ASSUME Inv, PollTakes
  PROVE  Inv'
<1>1. /\ stop = "polling" /\ queue # <<>> /\ kept' = Head(queue)
      /\ UNCHANGED <<kind, loop, lock, link, fresh, said, finals, messages>>
  BY DEF PollTakes, sent
<1>2. ~IsFinal(kept) /\ Remote
  BY <1>1 DEF Inv, KeptPhase, Tasks
<1>3. CASE IsFinal(Head(queue))
  <2>1. Reset(Tail(queue))
    BY <1>3 DEF PollTakes
  <2>2. /\ id' \in {NoId, fresh'} /\ NeedId' \in Nat /\ NeedId <= NeedId'
        /\ first' \in Nat /\ first <= first' /\ first' \in 1..(said' + 1)
        /\ first' # first => lost'
        /\ (lost => lost') /\ (Tail(queue) # <<>> => lost') /\ lost' \in BOOLEAN
        /\ receiving' \in BOOLEAN /\ (receiving' => receiving)
        /\ queue' = <<>> /\ stop' = "closing"
    BY <1>1, <2>1, ResetFacts DEF Inv
  <2>3. TextInv' /\ queue' \in Seq(Events) /\ kept' \in Events
    BY <1>1, <1>2, <2>2, TextPoll DEF Inv
  <2>4. TypeOK'
    BY <1>1, <2>2, <2>3 DEF Inv, TypeOK
  <2>5. Tasks' /\ KeptPhase' /\ StoppedIsClosed'
    BY <1>1, <1>2, <2>2 DEF Inv, Tasks, KeptPhase, StoppedIsClosed, Remote
  <2> QED BY <2>3, <2>4, <2>5 DEF Inv
<1>4. CASE ~IsFinal(Head(queue))
  <2>1. queue' = Tail(queue) /\ UNCHANGED <<id, first, lost, stop, receiving>>
    BY <1>4 DEF PollTakes
  <2>2. NeedId' = NeedId /\ NeedId \in Nat /\ first \in Nat
    BY <1>1, <2>1, IdFacts DEF Inv, NeedId
  <2>3. NeedId' \in Nat /\ NeedId <= NeedId' /\ first' \in Nat /\ first <= first'
    BY <2>1, <2>2
  <2>4. TextInv' /\ queue' \in Seq(Events) /\ kept' \in Events
    BY <1>1, <1>2, <2>1, <2>3, TextPoll DEF Inv
  <2>5. TypeOK'
    BY <1>1, <2>1, <2>4 DEF Inv, TypeOK
  <2>6. Tasks' /\ KeptPhase' /\ StoppedIsClosed'
    BY <1>1, <1>2, <1>4, <2>1 DEF Inv, Tasks, KeptPhase, StoppedIsClosed, Remote
  <2> QED BY <2>4, <2>5, <2>6 DEF Inv
<1> QED BY <1>3, <1>4

LEMMA PollEndsStep ==
  ASSUME Inv, PollEnds
  PROVE  Inv'
<1>1. /\ stop = "polling" /\ Reset(queue)
      /\ UNCHANGED <<kind, loop, lock, link, fresh, said, kept, finals, messages>>
  BY DEF PollEnds, sent
<1>2. Remote
  BY <1>1 DEF Inv, Tasks
<1>3. /\ id' \in {NoId, fresh'} /\ NeedId' \in Nat /\ NeedId <= NeedId'
      /\ first' \in Nat /\ first <= first' /\ first' \in 1..(said' + 1)
      /\ first' # first => lost'
      /\ (lost => lost') /\ (queue # <<>> => lost') /\ lost' \in BOOLEAN
      /\ receiving' \in BOOLEAN /\ (receiving' => receiving)
      /\ queue' = <<>> /\ stop' = "closing"
  BY <1>1, ResetFacts DEF Inv
<1>4. TextInv'
  BY <1>1, <1>3, TextDiscard DEF Inv
<1>5. queue' \in Seq(Events)
  BY <1>3
<1>6. TypeOK'
  BY <1>1, <1>3, <1>5 DEF Inv, TypeOK
<1>7. Tasks' /\ KeptPhase' /\ StoppedIsClosed'
  BY <1>1, <1>2, <1>3 DEF Inv, Tasks, KeptPhase, StoppedIsClosed, Remote
<1> QED BY <1>4, <1>6, <1>7 DEF Inv

LEMMA CloseAndReportStep ==
  ASSUME Inv, CloseAndReport
  PROVE  Inv'
<1>1. /\ stop = "closing" /\ stop' = "waiting" /\ link' = "none" /\ receiving' = FALSE
      /\ lock = "free" /\ kept' = NoEvent
      /\ IF kept = NoEvent THEN UNCHANGED sent ELSE Report(kept)
      /\ UNCHANGED <<kind, loop, lock, id, fresh, first, said, queue, lost, messages>>
  BY DEF CloseAndReport, idVars, textVars
<1>2. TextInv' /\ finals' \in Seq(Events)
  BY <1>1, TextClose DEF Inv
<1>3. TypeOK'
  BY <1>1, <1>2 DEF Inv, TypeOK
<1>4. Tasks' /\ KeptPhase' /\ StoppedIsClosed'
  BY <1>1 DEF Inv, Tasks, KeptPhase, StoppedIsClosed, Remote
<1> QED BY <1>2, <1>3, <1>4 DEF Inv

(* The other steps of the stopping task, and a failing connection.          *)
LEMMA ControlStep ==
  ASSUME Inv, Stop \/ LinkFails \/ LoopEnds \/ Joined \/ CloseAgain
  PROVE  Inv'
<1>1. UNCHANGED <<kind, id, fresh, first, said, queue, kept, finals, lost, messages>>
  BY DEF Stop, LinkFails, LoopEnds, Joined, CloseAgain, idVars, textVars, sent
<1>2. NeedId' = NeedId /\ NeedId \in Nat
  BY <1>1, IdFacts DEF Inv, NeedId
<1>3. TextInv'
  BY <1>1, <1>2, TextUnchanged DEF Inv
<1>4. /\ loop' \in {"idle", "connecting", "sending", "ended"} /\ lock' \in {"free", "loop"}
      /\ stop' \in {"no", "polling", "closing", "waiting", "joined", "done"}
      /\ link' \in {"none", "open", "ending", "failed"} /\ receiving' \in BOOLEAN
  BY DEF Inv, TypeOK, Stop, LinkFails, LoopEnds, Joined, CloseAgain
<1>5. TypeOK'
  BY <1>1, <1>4 DEF Inv, TypeOK
<1>6. Tasks'
  BY <1>1 DEF Inv, Tasks, TypeOK, Remote, Stop, LinkFails, LoopEnds, Joined, CloseAgain
<1>7. KeptPhase'
  BY <1>1 DEF Inv, KeptPhase, Stop, LinkFails, LoopEnds, Joined, CloseAgain
<1>8. StoppedIsClosed'
  BY DEF Inv, Tasks, StoppedIsClosed, Stop, LinkFails, LoopEnds, Joined, CloseAgain
<1> QED BY <1>3, <1>5, <1>6, <1>7, <1>8 DEF Inv

LEMMA NextInv == Inv /\ [Next]_vars => Inv'
<1> SUFFICES ASSUME Inv, [Next]_vars PROVE Inv'
  OBVIOUS
<1>1. CASE UNCHANGED vars
  <2>1. UNCHANGED <<kind, loop, stop, lock, link, receiving, id, fresh, first, said, queue, kept,
                    finals, lost, messages>>
    BY <1>1 DEF vars, idVars, textVars, sent
  <2>2. NeedId' = NeedId /\ NeedId \in Nat
    BY <2>1, IdFacts DEF Inv, NeedId
  <2>3. TextInv'
    BY <2>1, <2>2, TextUnchanged DEF Inv
  <2>4. TypeOK'
    BY <2>1 DEF Inv, TypeOK
  <2>5. Tasks' /\ KeptPhase' /\ StoppedIsClosed'
    BY <2>1 DEF Inv, Tasks, KeptPhase, StoppedIsClosed, Remote
  <2> QED BY <2>3, <2>4, <2>5 DEF Inv
<1>2. CASE Next
  BY <1>2, LoopStep, FrameSentStep, ReceiveStep, MockFrameStep, MockStopStep, PollTakesStep,
     PollEndsStep, CloseAndReportStep, ControlStep DEF Next
<1> QED BY <1>1, <1>2

(* The invariant holds throughout.                                          *)
THEOREM Invariance == Spec => []Inv
BY InitInv, NextInv, PTL DEF Spec

(* STTConsumer.stop: when it has returned, no task uses the engine and no   *)
(* connection is open, also when a frame in flight connected again.         *)
THEOREM StopCloses == Spec => []StoppedIsClosed
<1>1. Inv => StoppedIsClosed
  BY DEF Inv
<1> QED BY <1>1, Invariance, PTL

-----------------------------------------------------------------------------
(* Every word is in exactly one final.                                      *)

(* The events reported, held and queued, by position.                       *)
History == finals \o <<kept>> \o queue

LEMMA HistoryFacts ==
  ASSUME TypeOK
  PROVE  /\ Len(finals) \in Nat /\ \A i \in DOMAIN History : i \in Nat
         /\ \A i \in DOMAIN History :
              \/ i \in DOMAIN finals /\ i <= Len(finals) /\ History[i] = finals[i]
              \/ i = Len(finals) + 1 /\ History[i] = kept
              \/ /\ i - Len(finals) - 1 \in DOMAIN queue
                 /\ i > Len(finals) + 1 /\ History[i] = queue[i - Len(finals) - 1]
         /\ \A i \in DOMAIN finals : i \in DOMAIN History /\ History[i] = finals[i]
         /\ Len(finals) + 1 \in DOMAIN History /\ History[Len(finals) + 1] = kept
         /\ \A i \in DOMAIN queue : /\ Len(finals) + 1 + i \in DOMAIN History
                                    /\ History[Len(finals) + 1 + i] = queue[i]
<1> DEFINE E == Events \cup {NoEvent}
           f == Len(finals)
           g == Append(finals, kept)
<1>1. finals \in Seq(E) /\ queue \in Seq(E) /\ kept \in E /\ f \in Nat /\ Len(queue) \in Nat
  BY DEF TypeOK
<1> HIDE DEF E
<1>2. finals \o <<kept>> = g
  BY <1>1, AppendIsConcat
<1>3. g \in Seq(E) /\ Len(g) = f + 1 /\ g[f + 1] = kept /\ \A i \in 1..f : g[i] = finals[i]
  BY <1>1, AppendFacts
<1> HIDE DEF g
<1>4. /\ History \in Seq(E) /\ Len(History) = f + 1 + Len(queue)
      /\ \A i \in 1..(f + 1 + Len(queue)) :
           History[i] = IF i <= f + 1 THEN g[i] ELSE queue[i - (f + 1)]
  BY <1>1, <1>2, <1>3, ConcatProperties DEF History
<1>5. /\ DOMAIN History = 1..(f + 1 + Len(queue)) /\ DOMAIN finals = 1..f
      /\ DOMAIN queue = 1..Len(queue)
  BY <1>1, <1>4
<1> HIDE DEF f
<1>6. ASSUME NEW i \in DOMAIN History
      PROVE  \/ i \in DOMAIN finals /\ i <= f /\ History[i] = finals[i]
             \/ i = f + 1 /\ History[i] = kept
             \/ i - f - 1 \in DOMAIN queue /\ i > f + 1 /\ History[i] = queue[i - f - 1]
  <2>1. i \in Nat /\ 1 <= i /\ i <= f + 1 + Len(queue)
    BY <1>1, <1>5
  <2>2. CASE i <= f
    BY <1>1, <1>3, <1>4, <1>5, <2>1, <2>2
  <2>3. CASE i = f + 1
    BY <1>1, <1>3, <1>4, <1>5, <2>3
  <2>4. CASE i > f + 1
    <3>1. i - f - 1 \in 1..Len(queue) /\ i - (f + 1) = i - f - 1 /\ ~(i <= f + 1)
      BY <1>1, <2>1, <2>4
    <3> QED BY <1>4, <1>5, <2>4, <3>1
  <2> QED BY <1>1, <2>1, <2>2, <2>3, <2>4
<1>7. \A i \in DOMAIN finals : i \in DOMAIN History /\ History[i] = finals[i]
  BY <1>1, <1>3, <1>4, <1>5
<1>8. f + 1 \in DOMAIN History /\ History[f + 1] = kept
  BY <1>1, <1>3, <1>4, <1>5
<1>9. ASSUME NEW i \in DOMAIN queue
      PROVE  f + 1 + i \in DOMAIN History /\ History[f + 1 + i] = queue[i]
  <2>1. f + 1 + i \in 1..(f + 1 + Len(queue)) /\ ~(f + 1 + i <= f + 1) /\ (f + 1 + i) - (f + 1) = i
    BY <1>1, <1>5
  <2> QED BY <1>4, <1>5, <2>1
<1> QED BY <1>1, <1>5, <1>6, <1>7, <1>8, <1>9 DEF f

LEMMA ApartDisjoint ==
  ASSUME NEW e \in Events, NEW f \in Events, Apart(e, f)
  PROVE  Words(e) \cap Words(f) = {}
BY DEF Apart, Precedes, Words, Events

LEMMA InvWordsKept == Inv => WordsKept
<1> SUFFICES ASSUME Inv PROVE WordsKept
  OBVIOUS
<1> DEFINE h == History
           final == {i \in DOMAIN h : IsFinal(h[i])}
<1>0. TypeOK /\ AllSettled /\ QueueOrder /\ TakenApart /\ Covered
  BY DEF Inv, TextInv
<1>1. ASSUME NEW i \in final
      PROVE  h[i] \in Events /\ Settled(h[i])
  BY <1>0, HistoryFacts, EventTypes DEF AllSettled
<1>2. ~lost => UNION {Words(h[i]) : i \in final} = 1..(first - 1)
  <2> SUFFICES ASSUME ~lost, NEW w
               PROVE  (\E i \in final : w \in Words(h[i])) <=> w \in 1..(first - 1)
    OBVIOUS
  <2>1. ASSUME NEW i \in final, w \in Words(h[i])
        PROVE  w \in 1..(first - 1)
    <3>1. h[i] \in Events /\ Settled(h[i]) /\ first \in Nat
      BY <1>0, <1>1, IdFacts
    <3> HIDE DEF h
    <3> QED BY <2>1, <3>1 DEF Settled, Words, Events
  <2>2. ASSUME w \in 1..(first - 1)
        PROVE  \E i \in final : w \in Words(h[i])
    <3>1. CASE Reported(w)
      BY <1>0, <3>1, HistoryFacts DEF Reported, AllSettled
    <3>2. CASE Held(w)
      BY <1>0, <3>2, HistoryFacts DEF Held
    <3>3. CASE Queued(w)
      BY <1>0, <3>3, HistoryFacts DEF Queued
    <3> QED BY <1>0, <2>2, <3>1, <3>2, <3>3 DEF Covered
  <2> QED BY <2>1, <2>2
<1>3. ASSUME NEW i \in final, NEW j \in final, i < j
      PROVE  Apart(h[i], h[j])
  <2>1. i \in Nat /\ j \in Nat /\ Len(finals) \in Nat /\ IsFinal(h[i]) /\ IsFinal(h[j])
    BY <1>0, HistoryFacts
  <2>2. /\ \/ i \in DOMAIN finals /\ i <= Len(finals) /\ h[i] = finals[i]
           \/ i = Len(finals) + 1 /\ h[i] = kept
           \/ /\ i - Len(finals) - 1 \in DOMAIN queue
              /\ i > Len(finals) + 1 /\ h[i] = queue[i - Len(finals) - 1]
        /\ \/ j \in DOMAIN finals /\ j <= Len(finals) /\ h[j] = finals[j]
           \/ j = Len(finals) + 1 /\ h[j] = kept
           \/ /\ j - Len(finals) - 1 \in DOMAIN queue
              /\ j > Len(finals) + 1 /\ h[j] = queue[j - Len(finals) - 1]
    BY <1>0, HistoryFacts
  <2> HIDE DEF h
  <2>3. CASE h[j] = finals[j] /\ j \in DOMAIN finals /\ j <= Len(finals)
    <3>1. i \in DOMAIN finals /\ h[i] = finals[i]
      BY <1>3, <2>1, <2>2, <2>3
    <3> QED BY <1>0, <1>3, <2>1, <2>3, <3>1 DEF TakenApart
  <2>4. CASE j = Len(finals) + 1 /\ h[j] = kept
    <3>1. i \in DOMAIN finals /\ h[i] = finals[i]
      BY <1>3, <2>1, <2>2, <2>4
    <3> QED BY <1>0, <2>1, <2>4, <3>1 DEF TakenApart
  <2>5. CASE /\ j - Len(finals) - 1 \in DOMAIN queue
             /\ j > Len(finals) + 1 /\ h[j] = queue[j - Len(finals) - 1]
    <3>1. CASE i \in DOMAIN finals /\ h[i] = finals[i]
      BY <1>0, <2>5, <3>1 DEF QueueOrder, Apart
    <3>2. CASE h[i] = kept
      BY <1>0, <2>1, <2>5, <3>2 DEF QueueOrder, Apart
    <3>3. CASE i - Len(finals) - 1 \in DOMAIN queue /\ h[i] = queue[i - Len(finals) - 1]
      <4>1. i - Len(finals) - 1 < j - Len(finals) - 1
        BY <1>3, <2>1
      <4> QED BY <1>0, <2>1, <2>5, <3>3, <4>1 DEF QueueOrder, Apart
    <3> QED BY <2>2, <3>1, <3>2, <3>3
  <2> QED BY <2>2, <2>3, <2>4, <2>5
<1>4. ASSUME NEW i \in final, NEW j \in final, i # j
      PROVE  Words(h[i]) \cap Words(h[j]) = {}
  <2>1. i \in Nat /\ j \in Nat
    BY <1>0, HistoryFacts
  <2>2. i < j \/ j < i
    BY <1>4, <2>1
  <2>3. Apart(h[i], h[j])
    BY <1>3, <2>2 DEF Apart
  <2> HIDE DEF h, final
  <2> QED BY <1>1, <2>3, ApartDisjoint
<1> QED BY <1>2, <1>4 DEF WordsKept, History

(* Every word a provider has settled is in exactly one of the finals that   *)
(* have been reported, are held by finalize_utterance or are queued, unless *)
(* stop has thrown something away; and no two finals share a word even      *)
(* then.                                                                    *)
THEOREM EveryWordOnce == Spec => []WordsKept
BY InvWordsKept, Invariance, PTL

-----------------------------------------------------------------------------
(* The refinement of TranscriptStream.                                      *)

(* Reporting the event e, which no final reported so far overlaps, is a     *)
(* step of the stream.                                                      *)
LEMMA ReportIsStreamStep ==
  ASSUME Inv, NEW e \in Events, Report(e), stop' # "no" \/ stop' = stop,
         IsFinal(e) => e.from <= e.to /\ \A i \in DOMAIN finals : Apart(finals[i], e),
         stop' = "no" => \A i \in DOMAIN finals : Precedes(finals[i], e)
  PROVE  Stream!Next
<1>1. last' = e /\ finals' = IF IsFinal(e) THEN Append(finals, e) ELSE finals
  BY DEF Report
<1>2. finals \in Seq(Events) /\ \A i \in DOMAIN finals : finals[i] \in Events /\ finals[i].from <= finals[i].to
  BY EventTypes DEF Inv, TextInv, AllSettled, Settled
<1>3. IsFinal(e) \/ e.type = "partial"
  BY DEF Events, IsFinal
<1>4. ASSUME IsFinal(e)
      PROVE  Ids(finals)' = Ids(finals) \cup {e.id} /\ AllWords(finals)' = AllWords(finals) \cup (e.from)..(e.to)
  <2>1. /\ \A i \in DOMAIN finals' : \/ i = Len(finals) + 1 /\ finals'[i] = e
                                     \/ i \in DOMAIN finals /\ finals'[i] = finals[i]
        /\ \A i \in DOMAIN finals : i \in DOMAIN finals' /\ finals'[i] = finals[i]
        /\ Len(finals) + 1 \in DOMAIN finals' /\ finals'[Len(finals) + 1] = e
    BY <1>1, <1>2, <1>4, AppendIndex, AppendFacts
  <2>2. Ids(finals)' = Ids(finals) \cup {e.id}
    BY <2>1 DEF Ids
  <2>3. ASSUME NEW w
        PROVE  (\E i \in DOMAIN finals' : w \in Words(finals'[i]))
                 <=> (\E i \in DOMAIN finals : w \in Words(finals[i])) \/ w \in (e.from)..(e.to)
    BY <2>1 DEF Words
  <2>4. AllWords(finals)' = AllWords(finals) \cup (e.from)..(e.to)
    BY <2>3 DEF AllWords
  <2> QED BY <2>2, <2>4
<1>5. (\A i \in DOMAIN finals : Precedes(finals[i], e))
        => e.id \notin Ids(finals) /\ \A w \in AllWords(finals) : w < e.from
  <2> SUFFICES ASSUME \A i \in DOMAIN finals : Precedes(finals[i], e)
               PROVE  e.id \notin Ids(finals) /\ \A w \in AllWords(finals) : w < e.from
    OBVIOUS
  <2>1. e.id \notin Ids(finals)
    BY DEF Ids, Precedes
  <2>2. ASSUME NEW w \in AllWords(finals)
        PROVE  w < e.from
    <3>1. PICK i \in DOMAIN finals : w \in Words(finals[i])
      BY DEF AllWords
    <3>2. finals[i].to < e.from /\ finals[i] \in Events
      BY <1>2 DEF Precedes
    <3> QED BY <3>1, <3>2 DEF Words, Events
  <2> QED BY <2>1, <2>2
<1>6. (\A i \in DOMAIN finals : Apart(finals[i], e))
        => e.id \notin Ids(finals) /\ (e.from)..(e.to) \cap AllWords(finals) = {}
  <2> SUFFICES ASSUME \A i \in DOMAIN finals : Apart(finals[i], e)
               PROVE  e.id \notin Ids(finals) /\ (e.from)..(e.to) \cap AllWords(finals) = {}
    OBVIOUS
  <2>1. e.id \notin Ids(finals)
    BY DEF Ids, Apart, Precedes
  <2>2. \A i \in DOMAIN finals : Words(finals[i]) \cap Words(e) = {}
    BY <1>2, ApartDisjoint
  <2>3. AllWords(finals) \cap Words(e) = {}
    BY <2>2 DEF AllWords
  <2> QED BY <2>1, <2>3 DEF Words
<1>7. (stop # "no")' = (stop # "no") \/ (stop # "no")' = TRUE
  OBVIOUS
<1>8. CASE IsFinal(e)
  <2>1. Stream!Final(last')
    BY <1>1, <1>4, <1>5, <1>6, <1>8 DEF Stream!Final, Stream!InOrder, IsFinal
  <2> QED BY <1>7, <2>1 DEF Stream!Next
<1>9. CASE ~IsFinal(e)
  <2>1. Stream!Partial(last')
    BY <1>1, <1>3, <1>5, <1>9 DEF Stream!Partial, Stream!InOrder
  <2> QED BY <1>7, <2>1 DEF Stream!Next
<1> QED BY <1>8, <1>9

LEMMA InitRefines == Init => Stream!Init
<1> SUFFICES ASSUME Init PROVE Stream!Init
  OBVIOUS
<1>1. Ids(finals) = {} /\ AllWords(finals) = {}
  BY DEF Init, Ids, AllWords
<1> QED BY <1>1 DEF Init, Stream!Init, NoEvent, NoId

LEMMA StepRefines == Inv /\ [Next]_vars => [Stream!Next]_(Stream!vars)
<1> SUFFICES ASSUME Inv, [Next]_vars PROVE [Stream!Next]_(Stream!vars)
  OBVIOUS
<1>0. TypeOK /\ AllSettled /\ QueueOrder /\ TakenApart
  BY DEF Inv, TextInv
<1>1. stop' = stop \/ stop' # "no"
  BY DEF Next, vars, ProcessAudio, TakeLock, Connected, ConnectFails, FrameSent, SendRaises,
         InterimResult, SegmentFinal, SpeechFinal, Receive, LinkFails, MockFrame, MockStop, Stop,
         PollTakes, PollEnds, Reset, CloseAndReport, LoopEnds, Joined, CloseAgain
<1>2. CASE UNCHANGED <<last, finals>>
  <2>1. Ids(finals)' = Ids(finals) /\ AllWords(finals)' = AllWords(finals)
    BY <1>2 DEF Ids, AllWords
  <2> QED BY <1>1, <1>2, <2>1 DEF Stream!Next
<1>3. ASSUME FrameSent, queue # <<>>
      PROVE  Stream!Next
  <2>1. Report(Head(queue)) /\ stop' = stop
    BY <1>3 DEF FrameSent, Dequeue
  <2>2. Head(queue) \in Events /\ Head(queue) = queue[1] /\ 1 \in DOMAIN queue
    BY <1>0, <1>3, EventTypes, TailFacts
  <2>3. \A i \in DOMAIN finals : Precedes(finals[i], queue[1])
    BY <1>0, <2>2 DEF QueueOrder
  <2>4. IsFinal(queue[1]) => queue[1].from <= queue[1].to
    BY <1>0, <2>2 DEF AllSettled, Settled
  <2> QED BY <2>1, <2>2, <2>3, <2>4, ReportIsStreamStep DEF Apart
<1>4. ASSUME NEW t \in {"partial", "final"}, NEW to \in Nat, t = "final" => first <= to,
             Report(Event(t, NeedId, first, to))
      PROVE  Stream!Next
  <2> DEFINE e == Event(t, NeedId, first, to)
  <2>1. NeedId \in Nat /\ first \in Nat /\ 1 <= first
    BY <1>0, IdFacts
  <2>2. e \in Events /\ e.id = NeedId /\ e.from = first /\ e.to = to /\ IsFinal(e) = (t = "final")
    BY <2>1 DEF Event, Events, IsFinal
  <2> HIDE DEF e
  <2>3. \A i \in DOMAIN finals : Precedes(finals[i], e)
    <3> SUFFICES ASSUME NEW i \in DOMAIN finals PROVE Precedes(finals[i], e)
      OBVIOUS
    <3>1. finals[i] \in Events /\ Settled(finals[i])
      BY <1>0, EventTypes DEF AllSettled
    <3> QED BY <2>1, <2>2, <3>1 DEF Settled, Precedes, Events
  <2>4. Report(e)
    BY <1>4 DEF e
  <2> QED BY <1>1, <1>4, <2>2, <2>3, <2>4, ReportIsStreamStep DEF Apart
<1>5. ASSUME NEW audible \in BOOLEAN, NEW word \in BOOLEAN, MockFrame(audible, word),
             ~UNCHANGED <<last, finals>>
      PROVE  Stream!Next
  <2>1. said' \in Nat
    BY <1>0, <1>5 DEF MockFrame, TypeOK
  <2>2. \/ Report(Event("partial", NeedId, first, said'))
        \/ first <= said' /\ Report(Event("final", NeedId, first, said'))
    BY <1>5 DEF MockFrame, sent
  <2> QED BY <1>4, <2>1, <2>2
<1>6. ASSUME MockStop, ~UNCHANGED <<last, finals>>
      PROVE  Stream!Next
  <2>1. said \in Nat
    BY <1>0 DEF TypeOK
  <2>2. first <= said /\ Report(Event("final", NeedId, first, said))
    BY <1>6 DEF MockStop, EventId, sent
  <2> QED BY <1>4, <2>1, <2>2
<1>7. ASSUME CloseAndReport, ~UNCHANGED <<last, finals>>
      PROVE  Stream!Next
  <2>1. Report(kept) /\ kept # NoEvent /\ stop' = "waiting"
    BY <1>7 DEF CloseAndReport, sent
  <2>2. kept \in Events
    BY <1>0, <2>1 DEF TypeOK
  <2>3. IsFinal(kept) => kept.from <= kept.to /\ \A i \in DOMAIN finals : Apart(finals[i], kept)
    BY <1>0 DEF AllSettled, Settled, TakenApart
  <2> QED BY <2>1, <2>2, <2>3, ReportIsStreamStep
<1>8. CASE Next
  <2>1. FrameSent /\ queue = <<>> => UNCHANGED <<last, finals>>
    BY DEF FrameSent, Dequeue, sent
  <2>2. \/ UNCHANGED <<last, finals>> \/ FrameSent \/ MockStop \/ CloseAndReport
        \/ \E audible, word \in BOOLEAN : MockFrame(audible, word)
    BY <1>8 DEF Next, ProcessAudio, TakeLock, Connected, ConnectFails, SendRaises,
         InterimResult, SegmentFinal, SpeechFinal, Receive, LinkFails, Stop,
         PollTakes, PollEnds, LoopEnds, Joined, CloseAgain, sent
  <2> QED BY <1>2, <1>3, <1>5, <1>6, <1>7, <2>1, <2>2
<1> QED BY <1>2, <1>8 DEF vars, sent

(* StreamingSTTEngine: whatever engine runs, the events its consumer is     *)
(* given are a stream in which a final ends its utterance and no word is    *)
(* reported by two finals, in order until the consumer stops.               *)
THEOREM EngineImplementsStream == Spec => StreamSpec
BY InitRefines, StepRefines, Invariance, PTL DEF Spec, StreamSpec, Stream!Spec
=============================================================================
