# A TLA+ model of voxera

voxera is a voice assistant server: a caller speaks over a browser WebSocket or
a Twilio phone call, a streaming recogniser produces transcripts, a language
model answers, and the answer is synthesised and played while the caller may
interrupt at any time. All of it runs as asyncio tasks on one event loop.

Around it stand the HTTP server of the administrative API (rate limits,
timeouts, authentication, a database session per request, graceful shutdown)
and identity and access management (IAM).

This directory holds TLA+ modules that model `src/app/`, TLC configurations
that check them on small instances, and TLAPS proofs, for all sizes, of the
safety of the inbound audio path, the browser session, the telephone call and its
registry, the recognisers, the HTTP server and IAM.

## 1. Inventory

### Components, their state and their operations

| Component | State | Operations |
|---|---|---|
| Audio queue (`streaming/audio_queue.py`) | deque of at most 50 frames, `_not_empty` event, counters | `enqueue` (drops the oldest), `dequeue`, `wait_for_frame` |
| Dispatcher (`streaming/dispatcher.py`) | `_running`, task, counters | `start`, dispatch loop, `stop` (join 1 s, then cancel) |
| STT consumer (`stt/consumer.py`) | `asyncio.Queue`, `_running`, task, counters | `process_frame` (drops the newest), processing loop, `stop` (finalize, `put(None)`, join 2 s, cancel, close the engine) |
| Voice endpoint (`api/v1/endpoints/websocket.py`) | the objects of one connection | accept, start, receive loop, `finally` teardown, connection manager |
| LLM consumer (`llm/llm_consumer.py`) | current generation task | `start_generation`, `cancel`, `aclose`; callbacks first token, segment, complete |
| TTS consumer (`tts/tts_consumer.py`) | current reply: task, text queue, utterance id | `begin`, `speak`, `finish`, `start_speaking`, `stop`; callback playback end |
| Turn-taking (`conversation/turn_manager.py`, `state.py`) | `is_user_speaking`, `is_system_speaking` | `process_transcript_event`, `handle_interruption`; callbacks turn started, turn completed, interrupted |
| Voice session (`voice/session.py`) | held transcript and its timer, history, timing | turn callbacks, VAD onset, reply, development messages, close |
| Call session (`telephony/call_session.py`) | call state, lock, mute flag, silence prompt, watchdogs, history | start, media, turn callbacks, barge-in, recovery, fallback, watchdog, silence loop, stop |
| Twilio endpoint and registry (`telephony/twilio_handler.py`, `stream_auth.py`, `session_registry.py`) | signed tokens, calls by SID, the current `CallSession` of each connection | webhook, start, media and stop events, disconnect; `register`, `heartbeat`, `unregister`, `cleanup_zombies` |
| STT engines (`stt/engine.py`, `stt/providers/`) | link, receive task, event queue, segments, utterance id | `process_audio`, receive loop, `finalize_utterance`, `reset`, `close` |
| LLM engines (`llm/streaming_engine.py`, `llm/providers/`) | active provider, generators left open, Bedrock's thread and queue | `stream`, failover, closing |
| Sentence chunker (`llm/sentence_chunker.py`) | buffer | `feed`, `flush` |
| TTS engines (`tts/streaming_engine.py`, `tts/providers/`, `voice/audio.py`) | bytes carried over, resampler position, Polly's thread and queue | `stream`, `chunk_pcm_bytes`, `Pcm16Resampler.process` |
| Telephone codec (`telephony/audio_convert.py`) | none | mu-law to PCM and back |
| HTTP server (`main.py`, `core/middleware.py`, `timeout.py`, `rate_limit.py`, `shutdown.py`, `connection_manager.py`, `database/session.py`) | requests in flight and the drain event, a window of times per key, open sockets, the database engine | the middlewares in their order, a handler with its session, start, drain, `disconnect_all` |
| Error answers (`core/exceptions.py`, `exception_handlers.py`) | none | `resolve_exception` |
| IAM (`iam/`, `infrastructure/iam/`, `infrastructure/repositories/iam/`) | rows: users, memberships, roles, keys, sessions, policies, audit entries | authentication, permission checks, the routes and the service behind them |
| Browser client (`web/src/`) | socket, player schedule, conversation store | connect and reconnect, play, clear |

### How they interact

- *Audio in.* The endpoint's receive loop enqueues a frame, the dispatch loop
  takes it and calls a callback (voice-activity detection, then
  `STTConsumer.process_frame`), the STT loop gives it to the engine. Two
  queues, two overflow rules, three tasks.
- *Transcripts.* The STT loop awaits the transcript callback, which runs the
  turn manager and its callbacks *inside the STT task*. A speech onset runs
  `handle_interruption` inside the dispatch task; an expired hold timer opens
  a reply inside the timer's task; development messages and `close` run inside
  the endpoint. These callers share the session's fields, and only the call
  session has a lock.
- *Reply.* `begin` opens a TTS task, `start_generation` an LLM task; segments
  go to the TTS queue by callback, `on_complete` finishes it, and the end of
  playback ends the system's turn.
- *Barge-in* cancels the LLM task (not awaited), cancels and awaits the TTS
  task, and clears the flags.
- *Engines.* The consumers pull from async generators. A generator that is
  abandoned at a `yield` is closed later, by another task; Bedrock and Polly
  read in threads that hand over through a queue.
- *HTTP.* Context (counts the request, refuses during shutdown), rate limit by
  address, timeout, authentication (in a database session of its own), rate
  limit by organization, route, handler, commit. A timed-out handler goes on.
- *IAM.* The principal found by the middleware is trusted by the route, in a
  second session; the service asks some permissions again.

### What is hard

Interleavings at `await`s (what was read before one is used after it);
cancellation that is requested and not awaited; callbacks of an old reply that
reach a new one; queues at their limits; joins that time out against tasks
that end; a lock held across an `await` of something that needs it; failures
inside callbacks; provider chunks and tokens cut anywhere; transactions that end
between two statements; credentials that change while a request is under way;
and everything that must happen eventually (wakeups, teardown, turn ends, held
turns). `PROJECT.json` lists each hazard at its line
with the properties that cover it.

### What makes each component correct

- Audio path: the newest frames are kept, in order, each accounted for; no
  lost wakeup; nothing behind the shutdown signal; after teardown no task
  runs and no frame reaches a closed engine; teardown ends.
- LLM and TTS consumer: one reply at a time; a reply speaks its own text and
  all of it.
- Voice session: while the user has the turn nobody else speaks; whatever is
  being spoken can be interrupted; a held turn is answered.
- Call session: only permitted transitions; no state without somebody working
  to leave it; silence after the end; `stop` returns.
- Twilio endpoint and registry: a call runs only under a SID its connection has
  a token for; the registry is bounded and its records are explained.
- STT engines: every recognised word is in exactly one final, finals reach the
  caller, and a stopped engine has no connection.
- LLM engines and chunker: an answer comes from one provider, its text is
  spoken as it is shown, and cuts do not depend on how it was tokenised.
- TTS engines: all of the provider's audio, in order, whatever its chunks.
- HTTP server: limits hold over every window, an error answer means that nothing
  was committed, timed requests are answered, a drain is kept, shutdown ends.
- IAM: the audit trail tells what happened and nothing else; a revoked or expired
  credential is of no use any more; what is done is allowed by the role its actor
  has in that organization, `register_user` excepted, which trusts the token.

## 2. Modules

| Module | Models | Notes |
|---|---|---|
| `FramePipeline` | audio queue, dispatcher, STT consumer, endpoint teardown | self-contained |
| `FramePipelineProofs` | - | theorems about `FramePipeline`; the other `...Proofs` modules likewise |
| `Replies` | names of replies | shared constants |
| `EventLoop` | the asyncio loop | `loop` (who runs on without suspending) and `pc` |
| `LLMConsumer`, `TTSConsumer` | the two consumers, a task per reply | steps parameterised by the owner's callbacks |
| `Conversation` | turn manager, conversation flags, history, and the `stop` a caller awaits | extends the three above |
| `ConversationProofs` | - | lemmas about the consumers, for any session |
| `VoiceSession` | the browser session | extends `Conversation` |
| `CallSession` | the phone call | extends `Conversation` |
| `VoiceSessionProofs`, `CallSessionProofs` | - | use `ConversationProofs` |
| `CallSlots` | what a registry of calls promises: a bounded set of slots | abstract |
| `TwilioCalls` | webhook, stream endpoint, registry | implements `CallSlots` |
| `TwilioCallsProofs` | - | with the refinement |
| `TranscriptStream` | what a recogniser promises: utterances, partials, one final each | abstract |
| `SttEngine` | Deepgram, Transcribe, the mocks | implements `TranscriptStream` |
| `SttEngineProofs` | - | with the refinement |
| `SentenceChunker` | the chunker, as operators | used by `LlmEngines` |
| `LlmEngines` | failover and the engines under it, down to Bedrock's thread | |
| `PcmAudio` | framing and resampling, as operators | used by `SpeechEngines` |
| `SpeechEngines` | the speech engines | |
| `MuLaw` | the telephone codec, as operators and one walking sample | |
| `ErrorMapping` | exception classes and `resolve_exception`, as operators | used by `HttpServer` |
| `HttpServer` | middlewares, limits, timeouts, sessions, sockets, start and shutdown | |
| `HttpServerProofs` | - | |
| `IamService` | authentication, routes, service, repositories | |
| `IamServiceProofs` | - | |
| `MC...` | - | instances for TLC |

**Atomicity.** On one event loop, code between two awaits that can suspend is
atomic. In `FramePipeline` each action runs from one suspension point of a
task to its next. The sessions' callbacks nest several functions deep, so
there each function is an action of its own: `pc[c]` says where task `c` is,
and `loop = c` keeps the loop with `c` until its code really suspends. Which
ready task resumes first is left open, which covers more orders than asyncio's
FIFO ready queue.

**`FramePipeline`.** A frame is its arrival number. `ws_pc`, `disp_pc` and
`stt_pc` are the suspension points of the three tasks; `..._cancelled` says
that CancelledError is pending. A callback or an engine call may return, fail,
hang, or be cancelled. The audio queue's lock is never held across a
suspension, so it has no variable. `disp_lost` and `stt_lost` are history
variables for frames that no counter of the code sees.

**`LLMConsumer`, `TTSConsumer`.** A reply is numbered in opening order, and so
are its two tasks. An engine is a bounded stream that ends or fails; a token
may or may not complete a segment (which one does is the sentence chunker's
business). Synthesised audio is counted, and pacing is a sleep that may or may
not be needed. Text carries the number of the reply it was generated for: this
is what `OwnWords` compares.

**`VoiceSession`.** Callers are the STT task, the dispatcher (`vad`), the
endpoint (`ws`) and expired hold timers. A transcript is `Blank`, `Whole` or
`Unfinished`, the three cases `strip()` and `sounds_unfinished` tell apart.
Cancelled timers do nothing more, so one boolean represents them. A reply answers a
transcript or a message, so `MaxReplies`, which bounds those, bounds replies too.

**`CallSession`.** `async with self._lock` is a step (`LockPoints`): take the
free lock or wait. Which waiter gets a released lock is left open. `CONNECTED`
and `INTERRUPTED` are entered and left in one step, so no task observes them.
The LLM and TTS tasks are callers too, because failures and watchdogs run the
recovery inside them. Time is not modelled: a timeout may expire whenever its
condition holds. `AudioFirst` says whether a transcript needs audio first. A
real call is `AudioFirst = TRUE`; `tests/` drive the session's transcript
callback without audio, which is `FALSE`. `MaxReplies` bounds the names of
replies; `CallAssumption` makes it at least the number of inputs, so that the
bound never refuses a reply the code would open.

**`TwilioCalls`.** A connection's `phase` is its place in the endpoint, `call` its
current `CallSession` (live or ended), `registry` the records with their last
heartbeat. `stopped` is a history variable: the connections that have had a stop
event. Under the mapping `taken <- Registered` the registry implements
`CallSlots`.

**`SttEngine`.** The words a provider recognises are numbered, so a text is an
interval. A frame in flight, `finalize_utterance` and
`close` interleave as in the consumer, the link may fail at any time, and the
two seconds of finalisation may be over at any time. `TranscriptStream` is what
the interface promises: a final ends its utterance, and no word that one final
has reported is in another, in order until the consumer is being stopped.

**`LlmEngines`, `SentenceChunker`.** A token is one of a few texts made of
character classes (letter, the last letter of an abbreviation, sentence and
clause punctuation, space, line end), the ones `find_cut` tells apart. A
generator left at a `yield` is in `suspended` until it is closed;
Bedrock's thread is a process of its own. `MinChars` and `SoftLimit` are scaled
down.

**`SpeechEngines`, `PcmAudio`.** A byte is its position in the provider's body, so
that loss, repetition, reordering and a shift by one byte all show. A resampled
byte is named by the source samples it is interpolated from. Chunks have the
sizes of `ChunkSizes`, in every order.

**`HttpServer`, `ErrorMapping`.** A request goes through the middlewares in the
order `main.py` adds them. Time is a counter that is only compared with the
limiter's window; `Recent` is the deque after the loop that pops times from its
left until one is inside the window, `Stops` that loop's exit condition. A handler may raise anything the exception module or the
libraries define; what its class is answered with is `resolve_exception`, a
table of `isinstance` tests in source order over the class hierarchy. An answer is
its status, its code and what its details are about.

**`IamService`.** `db` is a function from rows, named by table and unique key,
to their value. A request is a process: authentication reads the session and
then the membership, the middleware compares organizations if the path spells the
id as `_ORG_PATH` does (`authorize_request`, `matched`), the route's dependencies
decide on the principal (`Entitled`), the service checks again where it does
(`Rechecked`), a handler plans the statements
it will execute, and `Flush`, `Commit` and `Rollback` are the database
(external: PostgreSQL at READ COMMITTED, with its row locks and unique keys).
A transaction's rows are laid over the committed ones when it commits
(`Overlay`). `dead` and `held` are history variables; `held` gathers what the
caller's role in the organization the request is about has granted at any moment
since the request began (`Observe`). A credential is an id; hashing and
signing are taken to be unforgeable. Four operations never get as far as a
commit and are one action, `NeverCompletes`: see section 4. This is also why
the first organization, users and sessions are in `Rows0`, put there by an
operator.

## 3. Runs

| Run | Bounds | Question and result |
|---|---|---|
| `frames` | queues of 2, 6 frames; 221,616 states | The audio path under every interleaving of endpoint, dispatcher, recogniser, failures and join timeouts, with an engine or callback that may hang for ever: order, accounting and teardown are safe, a frame of an open connection leaves the queue unless its callback hangs, and teardown ends or is in the one blocking call: holds |
| `voice_turns` | 3 transcripts, holds, 1 failure, no onsets; 184,130 states | Transcript-driven turn-taking: one reply at a time, interruptible, never in the user's turn, the system's turn ends, and a held turn is answered or continued: holds |
| `voice_dev` | 2 transcripts or messages, holds, 2 onsets, close; 587,621 states | Every feature at once: a reply speaks its own words and all of them: holds |
| `call_turns` | 2 transcripts, 1 event (media, prompt, watchdog or failure), `AudioFirst = FALSE`; 360,343 states | The lock and the state machine: permitted transitions, one reply at a time, quiet listening, nothing stuck, silent after the end: holds |
| `call_stop` | 1 transcript, 1 media message, `AudioFirst = TRUE` | Does `stop` return? Violated, see findings |
| `calls` | 2 connections, 2 SIDs, 1 slot, tokens that expire; 164,298 states | Which calls a stream may drive, which records outlive their call, and that the registry implements `CallSlots`: holds |
| `http` | 2 requests, 1 socket, limits of 1 and 2, a window of 1; 686,293 states | Limits, drain, error answers, timeouts and shutdown: holds |
| `stt` | 4 engines, 4 provider messages, link failures, stop; 89,882 states | The engines implement `TranscriptStream`, keep every word, leave no connection, report every final: holds |
| `llm` | 3 chains of engines, 2 generations of 3 tokens; 185,344 states | One provider's answer, text unharmed, cuts independent of tokens, threads end: holds |
| `speech` | 4 engines, 2 segments of up to 18 bytes in chunks of 1, 2, 5 or 7, frames of 4, rates 3:2; 2,302 states | The provider's audio is sent whole and as if it had come in one piece: holds |
| `mulaw_order` | samples -2000 to 2000 | Are louder samples heard louder? Violated, see findings |
| `iam` | 2 requests of all 23 routes, 2 organizations, 3 users, 3 sessions (one of them for no organization), 2 keys, 1 change by the operator or the clock; 1,239,170 states | The audit trail is exact, void credentials reach no handler, and what is committed was allowed by its actor's role, except for what `register_user` writes on the word of a token or key: holds |

**Why the bounds are enough to be interesting.** Queues of two have an empty,
a partly filled and a full state; six frames overflow both and refill them.
Three replies are an old one being stopped, a current one and one opened while
the others still run; every voice deviation below needs only two or three. One
token and one piece of audio give a reply a state before, during and after each.
One failure, one onset or one event at a time is what a single race needs;
two independent failures are outside the bounds. Two requests make one race
for a row, a slot or a limit. Segments of 18 bytes are four frames and
a remainder, and the chunk sizes are below, at and above a sample and a frame,
odd ones among them. Three tokens and a soft limit of five reach each rule of the
chunker. Symmetry is used over connections, SIDs and requests, in runs of
invariants and of one step-wise refinement only.
Deadlock checking is off where a behaviour ends when its inputs are used up;
being stuck is covered by `TeardownEndsOrBlocks`, `NotStuck` and the liveness
properties instead. `iam` checks it.

**Conditional properties.** `NotStuck` and `SystemTurnEnds` make an exception of
engine failures, since section 4 shows that failures do leave the session stuck;
`EndsWithItsText` does too, since `on_complete` of a failed generation finishes
whichever reply is current.
`FramesLeaveQueue` allows for a hanging callback, `FinalReachesCaller` for a
failed link, `WordsKept` for what a stop discards, `CutsIgnoreTokens` for texts
with clauses (a clause is cut when the buffer happens to be long enough),
`ErrorMeansRolledBack` for the timeout middleware's 504, `HeldTurnAnswered` for a
user's turn that goes on (a partial without its final). `AuditExact` knows two
changes without an entry, the revocation of a session without an organization and
the membership of an existing user. `ActorsPermitted` asks no role of
`revoke_session` and `register_user`, as the code does, and of the others that the
role allowed the action at some moment of the request, not at its commit.
`RevokedStaysOut` is about credentials that are void when the request begins.

**Fairness.**
- `FramePipeline!SlowSpec`: a task that can run is run, a due timeout fires and
  a pending cancellation is delivered. This is what the event loop does.
  Nothing makes the client, a callback or the engine return.
- `VoiceSession!FairSpec`: weak fairness for each caller's code, each LLM and
  TTS task and the hold timer. Providers have timeouts, timers are
  `asyncio.sleep`. The user is not obliged to speak.
- `CallSession!FairSpec`: weak fairness of `System`, all code but the
  environment. Between two inputs the model has finite behaviours only, so
  this says that the loop does not stop while anything can run. It is enough
  for the violated property, whose counterexample ends in a state where
  no task can move.
- `SttEngine`: the consumer's loop goes on, and a connect or a send returns or
  fails (both have timeouts or a ping). The provider need not say anything.
- `LlmEngines`: a reading thread goes on to its next event, and an abandoned
  generator is eventually closed (asyncio's generator finaliser).
- `HttpServer`: the middlewares and `lifespan` run on, timeouts fire. Handlers,
  the database and the clients may take for ever.

## 4. Findings

Confirmed by a run (details in `PROJECT.json`):

1. `telephony/call_session.py:720`: `stop` holds the lock while the
   recogniser's last transcript runs callbacks that take it (`call_stop`).
2. `telephony/audio_convert.py:132`: the pure-Python mu-law encoder's segment
   bounds are four too low; samples just above one are heard louder than
   samples above them (`mulaw_order`).

Reached in the models. TLC shows each one when the bounds of a run are changed
as stated:

- `stt/consumer.py:89`: `stop` clears `_running` and awaits `put(None)`. If the
  loop leaves with a full queue, nobody takes from it again, and the connection
  is never released, although `websocket.py:47` says it always is. It is the
  second case of `TeardownEndsOrBlocks`.
- `voice/session.py:105`: an onset during a continued turn re-arms the held
  turn's timer; the assistant answers the first half while the user talks
  (`UserTurnIsQuiet` in `voice_turns` with `VadBargeIn = TRUE`, `MaxOnsets = 1`).
- `voice/session.py:182`: `is_system_speaking` is set before `begin` waits; an
  onset in that wait clears it, and the new reply cannot be interrupted
  (`Interruptible`, with `VadBargeIn = TRUE`, `EotHold = FALSE`, `MaxOnsets = 2`).
- `tts/tts_consumer.py:87`: two callers of `begin` wait for the same reply;
  the second overwrites the first one's task, and two replies speak
  (`OneReplyAtATime`, with `VadBargeIn = TRUE`, `MaxOnsets = 1`).
- `voice/session.py:106`: while the user goes on after a held turn (its timer is
  cancelled), a development message is spoken and an onset cuts it off.
  `handle_interruption` clears the user's turn too and nothing arms the timer: if
  the recogniser sends no final for that speech, the turn stays held for ever
  (`HeldTurnAnswered`, with `VadBargeIn = TRUE`, `DevMessages = TRUE`,
  `MaxOnsets = 1`, `MaxFaults = 0`). With onsets and without messages TLC finds no
  such case, up to 4 transcripts and 2 onsets, but takes longer than a run should.
- `telephony/call_session.py:623`: the first audio moves the call to STREAMING,
  from which no code returns to LISTENING, the only state in which turns are
  answered, although line 124 describes the flow LISTENING, PROCESSING,
  SPEAKING. `AllowedTransitions` shows it: STREAMING is left for ENDED only.
- `telephony/twilio_handler.py:136-141`: a stop event does not unregister the
  call (the case `c \in stopped` of `RecordExplained`); `register` raises at the
  limit only after the call has been started, and the endpoint goes on with it,
  so the registry is bounded and the calls are not; `cleanup_zombies` has no
  caller.
- `voice/session.py:217`: after a synthesis failure the playback callback
  reports an interruption and the system turn stays open until the user speaks.
- `llm/llm_consumer.py:180`: a generation cancelled before its task's first step
  never calls `on_complete`, which its docstring promises exactly once; in a
  call its watchdog (`call_session.py:331`) later cancels the current one.
- `voice/session.py:191`: an interrupted answer can be remembered after the next
  question.
- `voice/session.py:125`: a transcript during or after `close` opens a reply.
- `tts/tts_consumer.py:122`: `tts_clear` is sent after the stopped reply's
  metrics.
- `voice/session.py:192`: `on_complete` of a failed generation finishes
  whichever reply is current.
- `telephony/call_session.py:324`: recovery from a failed generation runs in the
  generation's task and cancels it first; the call can stay in PROCESSING
  without the fallback message that the docstring (421-423) promises.
- `telephony/call_session.py:690`: a failed send runs recovery inside the TTS
  task, which waits for itself holding the lock (`pc = "wedged"`).

Seen while reading the code that `HttpServer`, `SttEngine` and `IamService` model:

- `core/timeout.py:48`: the client is sent 504 while the handler goes on and may
  commit.
- `stt/providers/deepgram_engine.py:106`: `_connected` stays set when the receive
  loop fails, so the engine does not reconnect until it is reset.
- `infrastructure/iam/iam_service_impl.py`: `login` builds a `SessionRead` without
  its required `country`, `refresh_tokens` reads `refresh_token_hash`, which
  `SessionRead` does not have, and a fresh security policy's NULL lists fail
  `SecurityPolicyRead`, so that logging in, registering, refreshing and
  provisioning an organization always raise.
- `iam/middleware/authentication.py:134`: the middleware leaves its session's
  generator at the `yield`; the `last_used_at` of a key is never committed.
- `core/exception_handlers.py:235`: `MfaRequiredError` is tested behind its base
  class `AuthenticationError` (229), so that its `challenge_id` is never sent.
  Nothing in the repository raises it yet.
- `iam_service_impl.py:104`: `register_user` does not ask for the role again, and
  neither do the three reading routes `list_api_keys`, `get_security_policy` and
  `metrics`. A token of an administrator who is one no longer goes on adding users
  until it expires.
- `iam/middleware/authentication.py:23`: `_ORG_PATH` knows an organization's id in
  lower case with hyphens, the routes take every spelling of a UUID. Where neither
  the route nor the service compares, in the four routes just named, another
  organization's id in another spelling is accepted (`matched = FALSE` in the model).
- `iam_service_impl.py:357`: a session without an organization is revoked without an
  audit entry.
- `iam_service_impl.py:123`: an invitation of an address that already has a user
  adds a membership and no audit entry. The PERMISSION_DENIED event is rolled
  back with the request it is about.

## 5. Proofs

Every theorem holds for all values of the constants its module's assumptions
allow, and so for the sizes the code runs with; the runs check the same
properties on small instances. Each proofs module names its inductive invariant `Inv` (in
`FramePipelineProofs`, its parts) and proves `Invariance == Spec => []Inv`, one
lemma per action or group of actions.

| Module | Theorem | Shows |
|---|---|---|
| `FramePipelineProofs` | `TypeCorrect` | `[]TypeOK`: both queues respect their bounds |
| | `QueueCorrect` | `[]FreshestFrames` and `[]WakeupArmed` |
| | `ShutdownSignalLast` | `[]SignalLast` |
| | `TeardownSafe` | `[]NoTaskOutlivesConnection` and `[]EngineNotFedAfterClose` |
| | `InArrivalOrder` | `ArrivalOrder`, an action property |
| | `NoFrameUnaccounted` | `[]FramesAccounted` |
| `CallSessionProofs` | `OneVoiceOnly` | `[]OneReplyAtATime` |
| | `ListeningQuiet` | `[]ListeningIsQuiet` |
| | `OverQuiet` | `[]CallOverIsQuiet` |
| | `TransitionsAllowed` | `AllowedTransitions`, an action property |
| | `NeverStuck` | `[]NotStuck` |
| `VoiceSessionProofs` | `OwnTextOnly` | `[]OwnWords`, with every feature on |
| | `WholeText` | `[]EndsWithItsText`, with every feature on |
| | `OneVoiceOnly` | `[](Open => OneReplyAtATime)` without development messages, if fast barge-in or the hold is off |
| | `CanInterrupt` | `[](Open => Interruptible)` without development messages and fast barge-in |
| | `UserNotTalkedOver` | `[](Open => UserTurnIsQuiet)`, likewise |
| `TwilioCallsProofs` | `OnlyAuthorisedCalls` | `[]CallIsAuthorised` |
| | `OnlyStopLeavesRecords` | `[]RecordExplained` |
| | `RegistryImplementsSlots` | `Spec => SlotsSpec`: the refinement of `CallSlots` |
| | `RegistryBounded` | never more than `MaxCalls` records |
| `SttEngineProofs` | `StopCloses` | `[]StoppedIsClosed` |
| | `EveryWordOnce` | `[]WordsKept` |
| | `EngineImplementsStream` | `Spec => StreamSpec`: the refinement of `TranscriptStream` |
| `HttpServerProofs` | `LimitsKept` | `[]WindowRespected` |
| | `DrainIsComplete` | `[]DrainKept` |
| | `ErrorsRollBack` | `[]ErrorMeansRolledBack` |
| `IamServiceProofs` | `VoidCredentials` | `[]RevokedStaysOut` |
| | `RolesCount` | `[]ActorsPermitted` |
| | `AuditTrail` | `[]AuditExact` |

**Assumptions.** Bounds and sizes are naturals, queue sizes, limits and the
window are not zero (`SizesAssumption`, `HttpAssumption`, `CallsAssumption`,
`SttAssumption`, `TokensAssumption`, `AudioAssumption`, `HistoryAssumption`,
`RepliesAssumption`); sets that are counted are finite; names of different things
differ (`CallAssumption`, `SessionAssumption`, `IamAssumption`). Beyond that, `CallAssumption` has
enough names for all replies, and `IamAssumption` describes the rows
an operator puts in: sessions belong to a user and to an organization or none,
members are users, no credential starts out revoked, no policy updated, and neither
custom roles nor audit entries are there yet. Each run's instance satisfies them; TLC evaluates them.

**`FramePipeline`.** Types are inductive alone; flags are kept apart from data
because no backend handles Booleans and sequences in one leaf. The audio queue
needs `Window`: the queue is the interval of the last arrivals and the event is
set exactly when it is not empty; it is inductive given types. The others need
`Phase`, which ties the positions of the three tasks together (which teardown
steps imply which flags and finished tasks): without it "nothing is queued
behind the signal" is not inductive, because nothing would say that
`process_frame` is no longer reached once `_running` is cleared. `Order` says
that recogniser queue, dispatcher frame and audio queue hold increasing
frames, all newer than the last one recognised; `ArrivalOrder` follows
from it step by step. `FramesAccounted` is inductive over types and `Phase`.

**`CallSession`.** The properties are about what is audible, but what makes them
true is the lock, so the invariant is mostly about it. A task that stops the
speech holds the lock until it has used the result (`Holds`, `Stopping`); from the
moment the speech has stopped no other task runs before that task gives the lock
up (`InSection`); and from there to `begin` it does not suspend (`Beginning`). So
a reply is begun in silence and in a call that is not over, although the lock is
no longer held when it is. `Ws` and `Ended` say why nothing follows `stop`: the
endpoint keeps the lock until the recogniser is gone, and when its last transcript
makes it process a turn itself, it stops at the lock it already holds (the finding
of `call_stop`). `Muted` is why a listening call is quiet: an answer has nothing
in its text queue before the call is SPEAKING. `ConversationProofs` has the part
that does not depend on the owner: no step of the consumers or of their tasks
makes a reply speak or generate again.

`NotStuck` has an invariant of its own on top (`Alive`), for a call that is not
over and in which nothing failed. `Working` says that while such a call is busy
some task is on its way to a reply or to the end of the turn, or the current reply
comes to its end: it is not cut off, and its queue holds the end of its text or
the latest generation will put it there. A task that only passes by must not
destroy that, and three things keep it from doing so: `SystemTurn` (a user's turn,
which cancels the generation and leaves the speech alone, is started only in a
call that is not busy, because a busy call is in the system's turn or its
recogniser's task is about to change that), `Fresh` and `Unused` (a reply is begun
under a number nobody has used or cancelled), and `NoRecovery` (no LLM or TTS task
runs the recovery, so none waits for itself; a failed send is what breaks this,
see section 4).

**`VoiceSession`.** The browser session has no lock, so its invariant is about which
task can be where. With every feature on, `Running` says that a task between two
awaits has the loop, `Numbered` that a task about to begin a reply has a number of
its own with nothing started under it, and `Words` that only the latest generation
runs (`Latest`), that a current reply without a generation of its own was queued
whole (`Fixed`), and that the end of a text comes after its generation (`Complete`):
`speak` and `finish` reach whichever reply is current, and these are why that
is the right one. The turn-taking properties do not hold with every feature on
(section 4), and the theorems carry the settings under which they do. `Roles`:
without development messages the endpoint runs `close` only, the dispatcher only
interruptions, a timer only replies. `Steady`: whoever is about to begin a reply
is waiting for the current one or finds silence, and if anything can come
in between it is the only one (`OneOpener`); with onsets *and* timers this fails.
`Polite`: a reply is begun with no user's turn and no timer under way (`Taking`),
the user's turn and the pause of a held turn are silent (`UserTurn`, `Pause`), and
nothing starts before an interruption is done (`Interrupting`); an
onset breaks each of them. `Open` ends where `close` begins: a transcript
processed by then opens a reply on a closed session (section 4). TLC refutes
each property outside its hypotheses.

**`TwilioCalls`.** The SID of a call is compared with the one the connection
presented, not with a token; `Admitted` carries the token check from the accept to
the start event, and `CallPhase` says in which phases there is a call at all.
A refinement step is one of the registry's three operations, everything else
stutters; that `register` refuses at the limit is what bounds the registry.

**`SttEngine`.** `WordsKept` speaks of reported, held and queued finals together,
because a final moves between the three. `AllSettled` (what a final has
settled is behind the engine's counters) gives that a new final shares
nothing with an old one, `QueueOrder` and `TakenApart` that this survives the
moves. What `finalize_utterance` holds may be overtaken by events the loop takes
later, so order is claimed of the queue and not of what has been taken from it;
that is also why the abstract stream stops promising order once the consumer is
being stopped.

**`HttpServer`.** `WindowIsTail`: a limiter's deque is the tail of the times it
admitted, and all it has dropped is out of the window for good. With a deque
shorter than the limit, an admission therefore is a window away from the one
`Limit` before it. `ActiveCounts` ties `_active_requests` to the set of
requests inside and the event to zero. `UndoneIsOpen`: before a request is done
nothing is committed and only the 504 can have been sent.

**`IamService`.** The trail is exact because a change and its entry are in the
same transaction, and the invariant says so for open transactions: what
a request has written or is going to write (`Wants`) carries its entry
(`AllLogged`) and the other way round (`AllCarried`); a row has one writer
(`Exclusive`) and an inserted row is absent (`Ordered`), so that a commit destroys
no fact an older entry is about. `Refused` says that a void credential stays
void until its request is turned away, `Principals` that what a request knows of
its user comes from its credential, and that past the check of a rechecked route
`held` has its permission. `Actors` carries this to the commit: the entry a request
is going to write is allowed to its actor, and a membership it is going to write
comes from `register_user` with its entry or from an invitation that was checked.
As `held` only grows, what was allowed once stays so.

**Only model-checked.**
- All liveness: fairness and ENABLED are beyond the prover.
- `AnswerIntact`, `SpokenIsShown`, `CutsIgnoreTokens` and `AudioIntact`: they are
  about what the chunker, the framing and the resampler compute, which are
  recursive. Theorems about recursive definitions need induction over data; the
  library's induction theorems take an operator parameter the installed provers
  cannot instantiate, and `RECURSIVE` disables the SMT backend.

## 6. Not modelled

- Loudness (energy thresholds, normalisation) and `sounds_unfinished`: choices in
  the sessions. PCM resampling for the telephone is `audioop`'s.
- Elapsed time, except the limiter's window and a token's and a record's age:
  timeouts and sleeps may fire whenever their condition holds; latency metrics
  are only reported by the code.
- Provider network protocols: streams of messages that end, fail or hang.
- Hashing, signing and password policies: a token or key is its id; a policy
  may refuse.
- OAuth, SSO and MFA providers, compliance settings: interfaces and rows without
  an implementation behind them in this repository.
- Dashboard, browser client, migrations, configuration, logging, counters:
  presentation, another program, or declarations without a protocol.

## 7. Plan

1. *Done:* `FramePipeline` and its proofs; `LLMConsumer`, `TTSConsumer`,
   `Conversation`, composed by `VoiceSession` and `CallSession`.
2. *Done:* `TwilioCalls` over `CallSlots`, `SttEngine` over `TranscriptStream`,
   `LlmEngines` with `SentenceChunker`, `SpeechEngines` with `PcmAudio`, `MuLaw`,
   `HttpServer` with `ErrorMapping`, `IamService`.
3. *Done:* theorems, for all constants, about `TwilioCalls`, `HttpServer`,
   `SttEngine`, `IamService`, `CallSession` and `VoiceSession`, with both
   refinements.
4. Abstract specification of turn-taking (user's turn, system's turn, at most
   one voice) that `VoiceSession`, restricted to transcripts, and `CallSession`
   implement.
5. Startup: validation of the settings and the choice of engines.
