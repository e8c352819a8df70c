-------------------------- MODULE MCFramePipeline --------------------------
(* FramePipeline for TLC: queues of two frames (50 in the code), so that both *)
(* overflow policies, the exact boundary and the empty queue all occur.       *)
EXTENDS FramePipeline
=============================================================================
