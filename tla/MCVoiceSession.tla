--------------------------- MODULE MCVoiceSession ---------------------------
(***************************************************************************)
(* VoiceSession for TLC.  The .cfg files choose which features of the      *)
(* session are on (the settings VOICE_VAD_BARGE_IN and VOICE_EOT_HOLD_MS,  *)
(* the development messages) and how many transcripts, onsets and faults a *)
(* run sees.                                                               *)
(***************************************************************************)
EXTENDS VoiceSession
=============================================================================
