--------------------------- MODULE MCCallSession ---------------------------
(***************************************************************************)
(* CallSession for TLC: the names of the LLM and TTS tasks, by reply.      *)
(***************************************************************************)
EXTENDS CallSession

MCLlmCaller == SubSeq(<<"llm1", "llm2", "llm3", "llm4", "llm5">>, 1, MaxReplies)
MCTtsCaller == SubSeq(<<"tts1", "tts2", "tts3", "tts4", "tts5">>, 1, MaxReplies)

MCCallers == {"ws", "stt", "silence"} \cup Spawned
             \cup {MCLlmCaller[r] : r \in Reply} \cup {MCTtsCaller[r] : r \in Reply}
=============================================================================
