----------------------------- MODULE LlmEngines -----------------------------
(***************************************************************************)
(* The language-model engines and the generation that uses them:           *)
(* app/llm/providers/*.py, FailoverStreamingLLMEngine, and the part of     *)
(* LLMConsumer._run that pulls tokens, cuts them into segments and reports *)
(* metrics.                                                                *)
(*                                                                         *)
(* A generation runs in one task on the event loop, pulling from a chain   *)
(* of one or two engines.  The HTTP engines read their response in that    *)
(* task; Bedrock reads on a thread of its own, which outlives the          *)
(* generation if nobody stops it.  A generation that is left while it is   *)
(* not inside the engine leaves the engine's generator suspended, and the  *)
(* generator's finally clause runs when the generator is collected.        *)
(***************************************************************************)
EXTENDS SentenceChunker, SequencesExt

CONSTANTS Chains,          \* the engine chains: sequences of engine kinds
          Tokens,          \* the texts of tokens, by engine kind
          MaxTokens,       \* bound on the tokens of one answer
          MaxGenerations   \* bound on generations

ASSUME LlmAssumption ==
  /\ \A c \in Chains : c \in Seq({"openai", "anthropic", "bedrock", "mock"})
  /\ MaxTokens \in Nat /\ MaxGenerations \in Nat

VARIABLES chain,      \* _primary and _secondary
          gen,        \* generations started
          pc,         \* "idle", "opening", "pulling", "sending", "over"
          at,         \* _active: index in chain
          out,        \* the tokens the engine has yielded in this generation
          answer,     \* history: the texts the active provider has sent
          buffer,     \* SentenceChunker._buffer
          text,       \* history: the text given to the chunker
          segments,   \* history: the segments given to on_segment
          outcome,    \* COMPLETED, CANCELLED or FAILED
          metrics,    \* _last_metrics of each engine: generation and token_count
          suspended,  \* generators left at a yield
          worker,     \* Bedrock's threads, by generation and engine
          queue,      \* Bedrock's queue between thread and generator
          stopped,    \* the threads whose stop event is set
          beat        \* flips with each event that carries no text

textVars   == <<buffer, text, segments>>
workerVars == <<worker, queue, stopped, beat>>
vars == <<chain, gen, pc, at, out, answer, textVars, outcome, metrics, suspended,
          workerVars>>

-----------------------------------------------------------------------------
Threads == (1..MaxGenerations) \X (1..2)
Here == <<gen, at>>
Kind == chain[at]
Text(s) == FlattenSeq([i \in DOMAIN s |-> s[i].text])
NoMetrics == [gen |-> 0, count |-> 0]

Init ==
  /\ chain \in Chains
  /\ gen = 0 /\ pc = "idle" /\ at = 1 /\ out = <<>> /\ answer = <<>>
  /\ buffer = <<>> /\ text = <<>> /\ segments = <<>> /\ outcome = "none"
  /\ metrics = [i \in 1..2 |-> NoMetrics] /\ suspended = {}
  /\ worker = [t \in Threads |-> "none"] /\ queue = [t \in Threads |-> <<>>]
  /\ stopped = {} /\ beat = FALSE

(* start_generation, up to the engine's stream.                             *)
Generate ==
  /\ pc \in {"idle", "over"} /\ gen < MaxGenerations
  /\ gen' = gen + 1 /\ pc' = "opening" /\ at' = 1
  /\ out' = <<>> /\ answer' = <<>> /\ buffer' = <<>> /\ text' = <<>> /\ segments' = <<>>
  /\ outcome' = "none"
  /\ UNCHANGED <<chain, metrics, suspended, workerVars>>

Open ==
  /\ pc = "opening" /\ pc' = "pulling"
  /\ worker' = IF Kind = "bedrock" THEN [worker EXCEPT ![Here] = "calling"] ELSE worker
  /\ UNCHANGED <<chain, gen, at, out, answer, textVars, outcome, metrics, suspended,
                 queue, stopped, beat>>

-----------------------------------------------------------------------------
(* The finally clause of stream: the metrics of this generation, and for    *)
(* Bedrock the stop event; closing the stream ends a read.                  *)
Finally_NoStop(t, count) ==
  /\ metrics' = [metrics EXCEPT ![t[2]] = [gen |-> t[1], count |-> count]]
  /\ UNCHANGED stopped
Finally(t, count) ==
  /\ metrics' = [metrics EXCEPT ![t[2]] = [gen |-> t[1], count |-> count]]
  /\ stopped' = stopped \cup {t}

(* The token goes to the failover engine and on to LLMConsumer.             *)
Yield(word) ==
  /\ out' = Append(out, [engine |-> at, index |-> Len(out), text |-> word])
  /\ pc' = "sending"

(* The stream has ended: flush the chunker and send LLM_FINAL.              *)
Ends ==
  /\ Finally(Here, Len(out))
  /\ segments' = segments \o flush(buffer) /\ buffer' = <<>>
  /\ outcome' = "completed" /\ pc' = "over"
  /\ UNCHANGED <<at, out, answer, text>>

(* The stream has raised: the next engine is tried if nothing was yielded.  *)
Raises_Retries ==
  /\ Finally(Here, Len(out))
  /\ IF at < Len(chain)
       THEN at' = at + 1 /\ pc' = "opening" /\ answer' = <<>> /\ UNCHANGED outcome
       ELSE outcome' = "failed" /\ pc' = "over" /\ UNCHANGED <<at, answer>>
  /\ UNCHANGED <<out, textVars>>
Raises ==
  /\ Finally(Here, Len(out))
  /\ IF out = <<>> /\ at < Len(chain)
       THEN at' = at + 1 /\ pc' = "opening" /\ answer' = <<>> /\ UNCHANGED outcome
       ELSE outcome' = "failed" /\ pc' = "over" /\ UNCHANGED <<at, answer>>
  /\ UNCHANGED <<out, textVars>>

-----------------------------------------------------------------------------
(* What the HTTP engines do with a line of the response: a token, the end   *)
(* marker, an error object, a line that is no JSON, the end of the body, a  *)
(* network error or an HTTP status.  Anthropic's end and error events are   *)
(* skipped like every other event that is not a delta.                      *)
OpenAI(line) == CASE line = "token" -> "yields"
                  [] line \in {"stop", "body end"} -> "ends"
                  [] line \in {"error", "garbled", "broken"} -> "raises"
Anthropic(line) == CASE line = "token" -> "yields"
                     [] line = "body end" -> "ends"
                     [] line \in {"stop", "error"} -> "skips"
                     [] line \in {"garbled", "broken"} -> "raises"
(* The mock never fails.                                                    *)
Mock(line) == CASE line = "token" -> "yields"
                [] line = "body end" -> "ends"
                [] line \in {"stop", "error", "garbled", "broken"} -> "skips"
Effect(line) == CASE Kind = "openai" -> OpenAI(line)
                  [] Kind = "anthropic" -> Anthropic(line)
                  [] Kind = "mock" -> Mock(line)

HttpToken(word) ==
  /\ pc = "pulling" /\ Kind # "bedrock" /\ Effect("token") = "yields"
  /\ Len(answer) < MaxTokens
  /\ answer' = Append(answer, word) /\ Yield(word)
  /\ UNCHANGED <<chain, gen, at, textVars, outcome, metrics, suspended, workerVars>>

HttpLine(line) ==
  /\ pc = "pulling" /\ Kind # "bedrock"
  /\ \/ Effect(line) = "ends" /\ Ends
     \/ Effect(line) = "raises" /\ Raises
  /\ UNCHANGED <<chain, gen, suspended, worker, queue, beat>>

-----------------------------------------------------------------------------
(* Bedrock's thread t.  After stop is set it looks at one more event; its   *)
(* puts reach nobody once the generator has ended.                          *)
Put(t, items) == queue' = IF t \in stopped THEN queue ELSE [queue EXCEPT ![t] = @ \o items]
Item(type, word) == [type |-> type, text |-> word]
Token(word) == Item("token", word)
Exc  == Item("exc", <<>>)
Done == Item("done", <<>>)

WorkerCalls(t, fails) ==
  /\ worker[t] = "calling"
  /\ worker' = [worker EXCEPT ![t] = IF fails THEN "ended" ELSE "reading"]
  /\ Put(t, IF fails THEN <<Exc, Done>> ELSE <<>>)
  /\ UNCHANGED <<chain, gen, pc, at, out, answer, textVars, outcome, metrics,
                 suspended, stopped, beat>>

WorkerReads(t, word) ==
  /\ worker[t] = "reading"
  /\ IF t \in stopped THEN worker' = [worker EXCEPT ![t] = "ended"] /\ UNCHANGED <<queue, answer>>
     ELSE /\ t = Here /\ Len(answer) < MaxTokens
          /\ answer' = Append(answer, word) /\ Put(t, <<Token(word)>>) /\ UNCHANGED worker
  /\ UNCHANGED <<chain, gen, pc, at, out, textVars, outcome, metrics, suspended,
                 stopped, beat>>

(* An event without text.                                                   *)
WorkerReadsOther(t) ==
  /\ worker[t] = "reading"
  /\ worker' = IF t \in stopped THEN [worker EXCEPT ![t] = "ended"] ELSE worker
  /\ beat' = ~beat
  /\ UNCHANGED <<chain, gen, pc, at, out, answer, textVars, outcome, metrics,
                 suspended, queue, stopped>>

WorkerEnds(t, fails) ==
  /\ worker[t] = "reading"
  /\ worker' = [worker EXCEPT ![t] = "ended"]
  /\ Put(t, IF fails THEN <<Exc, Done>> ELSE <<Done>>)
  /\ UNCHANGED <<chain, gen, pc, at, out, answer, textVars, outcome, metrics,
                 suspended, stopped, beat>>

(* The generator takes what the thread has put.                             *)
Take == Head(queue[Here])

BedrockToken ==
  /\ pc = "pulling" /\ Kind = "bedrock" /\ queue[Here] # <<>> /\ Take.type = "token"
  /\ Yield(Take.text)
  /\ queue' = [queue EXCEPT ![Here] = Tail(@)]
  /\ UNCHANGED <<chain, gen, at, answer, textVars, outcome, metrics, suspended, worker,
                 stopped, beat>>

BedrockEnds ==
  /\ pc = "pulling" /\ Kind = "bedrock" /\ queue[Here] # <<>> /\ Take.type # "token"
  /\ IF Take.type = "exc" THEN Raises ELSE Ends
  /\ queue' = [queue EXCEPT ![Here] = <<>>]
  /\ UNCHANGED <<chain, gen, suspended, worker, beat>>

-----------------------------------------------------------------------------
(* LLMConsumer has sent the token, cuts the text, and pulls again.          *)
Sent ==
  /\ pc = "sending" /\ pc' = "pulling"
  /\ LET fed == feed(buffer \o Last(out).text)
     IN text' = text \o Last(out).text /\ buffer' = fed.rest /\ segments' = segments \o fed.segments
  /\ UNCHANGED <<chain, gen, at, out, answer, outcome, metrics, suspended, workerVars>>

(* The generation is left between two pulls: sending has failed, or it is   *)
(* cancelled there.  The generator stays at its yield.                      *)
LeavesSending(how) ==
  /\ pc = "sending"
  /\ outcome' = how /\ pc' = "over"
  /\ suspended' = suspended \cup   \* only the mock counts before it yields
       {[thread |-> Here, count |-> IF Kind = "mock" THEN Len(out) ELSE Len(out) - 1]}
  /\ UNCHANGED <<chain, gen, at, out, answer, textVars, metrics, workerVars>>

(* The generation is cancelled inside the engine: the finally clause runs.  *)
CancelledPulling ==
  /\ pc = "pulling"
  /\ outcome' = "cancelled" /\ pc' = "over"
  /\ Finally(Here, Len(out)) /\ queue' = [queue EXCEPT ![Here] = <<>>]
  /\ UNCHANGED <<chain, gen, at, out, answer, textVars, suspended, worker, beat>>

(* A suspended generator is collected and closed.                           *)
Collected(s) ==
  /\ s \in suspended /\ suspended' = suspended \ {s}
  /\ Finally(s.thread, s.count) /\ queue' = [queue EXCEPT ![s.thread] = <<>>]
  /\ UNCHANGED <<chain, gen, pc, at, out, answer, textVars, outcome, worker, beat>>

-----------------------------------------------------------------------------
Worker(t) == \/ \E fails \in BOOLEAN : WorkerCalls(t, fails) \/ WorkerEnds(t, fails)
             \/ \E word \in Tokens["bedrock"] : WorkerReads(t, word)
             \/ WorkerReadsOther(t)

Next ==
  \/ Generate \/ Open \/ Sent \/ CancelledPulling \/ BedrockToken \/ BedrockEnds
  \/ \E word \in Tokens[Kind] : HttpToken(word)
  \/ \E line \in {"stop", "error", "garbled", "broken", "body end"} : HttpLine(line)
  \/ \E how \in {"cancelled", "failed"} : LeavesSending(how)
  \/ \E s \in suspended : Collected(s)
  \/ \E t \in Threads : Worker(t)

(* The garbage collector closes what is suspended; the provider's stream    *)
(* brings an event, ends or times out.                                      *)
Fairness == /\ \A t \in Threads : WF_vars(Worker(t))
            /\ WF_vars(\E s \in suspended : Collected(s))

Spec == Init /\ [][Next]_vars /\ Fairness

-----------------------------------------------------------------------------
(* The caller hears one provider's answer, in order and without a hole:     *)
(* failover never mixes two answers, and the hand-over from Bedrock's       *)
(* thread loses and reorders nothing (FailoverStreamingLLMEngine.stream,    *)
(* BedrockStreamingLLMEngine.stream).                                       *)
AnswerIntact ==
  /\ \A i \in DOMAIN out : out[i].engine = at
  /\ IsPrefix([i \in DOMAIN out |-> out[i].text], answer)
  /\ outcome = "completed" => Len(out) = Len(answer)

(* What is spoken is what is shown: the segments and the chunker's buffer   *)
(* hold the text they were given letter for letter, and a completed answer  *)
(* has been given whole (SentenceChunker.feed, flush).                      *)
SpokenIsShown ==
  /\ WithoutBlanks(FlattenSeq(segments) \o buffer) = WithoutBlanks(text)
  /\ outcome = "completed" => text = Text(out) /\ buffer = <<>>

(* Where sentences are cut does not depend on how the provider split the    *)
(* text into tokens, as long as no clause is cut (SentenceChunker._find_cut *)
(* waits when the next token may continue a number or an ellipsis).         *)
CutsIgnoreTokens ==
  LET whole == feed(text)
  IN "," \notin {text[i] : i \in DOMAIN text} =>
       segments = whole.segments \o (IF outcome = "completed" THEN flush(whole.rest) ELSE <<>>)

(* A thread that reads for a generation nobody listens to any more ends,    *)
(* also when the provider never stops sending (the stop event).             *)
ThreadsEnd ==
  \A t \in Threads :
    (worker[t] \in {"calling", "reading"} /\ (t # Here \/ pc = "over")) ~> worker[t] = "ended"
=============================================================================
