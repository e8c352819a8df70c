------------------------------ MODULE Replies ------------------------------
(***************************************************************************)
(* Names shared by the components that produce one spoken reply.  A reply  *)
(* is known in the code by the utterance id of the user turn it answers;   *)
(* here replies are numbered in the order in which they are opened, and    *)
(* the LLM task and the TTS task of a reply carry its number.              *)
(***************************************************************************)
EXTENDS Naturals, Sequences

CONSTANT MaxReplies      \* bound: how many transcripts arrive, and so how many replies are opened

ASSUME RepliesAssumption == MaxReplies \in Nat

None == 0                \* Python's None: no task, no utterance, no more text
Reply == 1..MaxReplies
=============================================================================
