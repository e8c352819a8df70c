---------------------------- MODULE LLMConsumer ----------------------------
(***************************************************************************)
(* app/llm/llm_consumer.py: one asyncio task per generation.  A task is    *)
(* resumed only at its awaits, so an action runs from one await that can   *)
(* suspend to the next; llm_pc names the await:                            *)
(*                                                                         *)
(*   new        created, its first step has not run                        *)
(*   stream     the engine's next token                                    *)
(*   partial, final, cancelled, error                                      *)
(*              sending llm_partial, llm_final, llm_cancelled, error       *)
(*   complete   inside the session's on_complete callback                  *)
(*                                                                         *)
(* cancel() marks a task; its next step raises CancelledError at that      *)
(* await.  The callbacks on_segment and on_complete belong to the session  *)
(* and are conjoined to the actions that reach them.                       *)
(***************************************************************************)
EXTENDS Replies

CONSTANT MaxTokens       \* bound: tokens of one generation

ASSUME TokensAssumption == MaxTokens \in Nat

VARIABLES
  llm_task,              \* _task: the reply it generates, or None
  llm_pc,
  llm_parts,             \* how many tokens the task has received
  llm_outcome,
  llm_cancelled          \* CancelledError is pending in the task

llmVars == <<llm_task, llm_pc, llm_parts, llm_outcome, llm_cancelled>>

LlmPc == {"none", "new", "stream", "partial", "final", "cancelled", "error",
          "complete", "done"}

LlmTypeOK ==
  /\ llm_task \in Reply \cup {None}
  /\ llm_pc \in [Reply -> LlmPc]
  /\ llm_parts \in [Reply -> 0..MaxTokens]
  /\ llm_outcome \in [Reply -> {"completed", "cancelled", "failed"}]
  /\ llm_cancelled \in [Reply -> BOOLEAN]

LlmInit ==
  /\ llm_task = None
  /\ llm_pc = [r \in Reply |-> "none"]
  /\ llm_parts = [r \in Reply |-> 0]
  /\ llm_outcome = [r \in Reply |-> "completed"]
  /\ llm_cancelled = [r \in Reply |-> FALSE]

LlmRuns(r) == llm_pc[r] \notin {"none", "done"}

IsGenerating == llm_task # None /\ LlmRuns(llm_task)

\* Mutant: the test of done() is the wrong way round.
CancelGeneration_OnlyDone ==
  llm_cancelled' = IF llm_task # None /\ ~LlmRuns(llm_task)
                   THEN [llm_cancelled EXCEPT ![llm_task] = TRUE] ELSE llm_cancelled

\* _task.cancel(), if there is a task that is not done.
CancelGeneration ==
  llm_cancelled' = IF IsGenerating THEN [llm_cancelled EXCEPT ![llm_task] = TRUE]
                                   ELSE llm_cancelled

\* LLMConsumer.cancel()
Cancel == CancelGeneration /\ UNCHANGED <<llm_task, llm_pc, llm_parts, llm_outcome>>

\* start_generation: the old task is cancelled, not awaited.
StartGeneration(r) ==
  /\ CancelGeneration
  /\ llm_task' = r
  /\ llm_pc' = [llm_pc EXCEPT ![r] = "new"]
  /\ UNCHANGED <<llm_parts, llm_outcome>>

LlmGoes(r, from, to) ==
  /\ ~llm_cancelled[r] /\ llm_pc[r] \in from
  /\ llm_pc' = [llm_pc EXCEPT ![r] = to]
  /\ UNCHANGED <<llm_task, llm_cancelled>>

LlmFirstStep(r) == LlmGoes(r, {"new"}, "stream") /\ UNCHANGED <<llm_parts, llm_outcome>>

LlmToken(r) ==
  /\ llm_parts[r] < MaxTokens
  /\ LlmGoes(r, {"stream"}, "partial")
  /\ llm_parts' = [llm_parts EXCEPT ![r] = @ + 1]
  /\ UNCHANGED llm_outcome

\* llm_partial is out; the session's on_segment sees what the chunker yields.
LlmPartialSent(r) == LlmGoes(r, {"partial"}, "stream") /\ UNCHANGED <<llm_parts, llm_outcome>>

\* The stream ends; the chunker's rest goes to on_segment.
LlmStreamEnds(r) == LlmGoes(r, {"stream"}, "final") /\ UNCHANGED <<llm_parts, llm_outcome>>

\* The engine raises, or the socket does while llm_partial or llm_final is sent.
LlmFails(r) ==
  /\ LlmGoes(r, {"stream", "partial", "final"}, "error")
  /\ llm_outcome' = [llm_outcome EXCEPT ![r] = "failed"]
  /\ UNCHANGED llm_parts

\* CancelledError in the body: outcome is set and llm_cancelled is sent.
LlmInterrupted(r) ==
  /\ llm_cancelled[r] /\ llm_pc[r] \in {"stream", "partial", "final"}
  /\ llm_pc' = [llm_pc EXCEPT ![r] = "cancelled"]
  /\ llm_outcome' = [llm_outcome EXCEPT ![r] = "cancelled"]
  /\ llm_cancelled' = [llm_cancelled EXCEPT ![r] = FALSE]
  /\ UNCHANGED <<llm_task, llm_parts>>

\* A task cancelled before its first step never enters its body.
LlmNeverRan(r) ==
  /\ llm_cancelled[r] /\ llm_pc[r] = "new"
  /\ llm_pc' = [llm_pc EXCEPT ![r] = "done"]
  /\ llm_cancelled' = [llm_cancelled EXCEPT ![r] = FALSE]
  /\ UNCHANGED <<llm_task, llm_parts, llm_outcome>>

\* The finally clause is reached when the last message is out or when a
\* CancelledError ends a handler.
LlmAtFinally(r) ==
  \/ ~llm_cancelled[r] /\ llm_pc[r] \in {"final", "cancelled", "error"}
  \/ llm_cancelled[r] /\ llm_pc[r] \in {"cancelled", "error"}

\* The task ends; its locals are reset.
LlmDone(r) ==
  /\ llm_pc' = [llm_pc EXCEPT ![r] = "done"]
  /\ llm_cancelled' = [llm_cancelled EXCEPT ![r] = FALSE]
  /\ llm_parts' = [llm_parts EXCEPT ![r] = 0]
  /\ llm_outcome' = [llm_outcome EXCEPT ![r] = "completed"]
  /\ UNCHANGED llm_task

\* on_complete runs without suspending ...
LlmCompletes(r) == LlmAtFinally(r) /\ LlmDone(r)

\* ... or suspends ...
LlmCompleting(r) ==
  /\ LlmAtFinally(r)
  /\ llm_pc' = [llm_pc EXCEPT ![r] = "complete"]
  /\ llm_cancelled' = [llm_cancelled EXCEPT ![r] = FALSE]
  /\ UNCHANGED <<llm_task, llm_parts, llm_outcome>>

\* ... and returns, or ends with a CancelledError.
LlmReturns(r) == llm_pc[r] = "complete" /\ LlmDone(r)
=============================================================================
