----------------------------- MODULE EventLoop -----------------------------
(***************************************************************************)
(* One asyncio event loop.  The code of a task is cut into small steps     *)
(* named by pc; `loop` names the task that keeps the loop between two of   *)
(* its steps, so that only an await that can suspend lets another task in. *)
(* The order in which ready tasks resume is left open.                     *)
(***************************************************************************)
CONSTANT Callers         \* the tasks that run a session's code

VARIABLES
  loop,                  \* the task whose code runs on without suspending, or Idle
  pc                     \* where each task is; Idle: not in the session's code

Idle == "idle"

\* Task c moves to a step: its code runs on, or it is suspended there.
RunsOn(c, to) == pc' = [pc EXCEPT ![c] = to] /\ loop' = c
Suspends(c, to) == pc' = [pc EXCEPT ![c] = to] /\ loop' = Idle

\* Task c is at a step: it is resumed there, or its code has run on to it.
Resumes(c, at) == loop = Idle /\ pc[c] = at
Continues(c, at) == loop = c /\ pc[c] = at
=============================================================================
