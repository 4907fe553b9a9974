------------------------- MODULE MCTranscriptQueue -------------------------
(***************************************************************************)
(* Three submissions (one served, one waiting, one that replaces it) and   *)
(* two publication attempts (one that fails and is retried, one final).    *)
(***************************************************************************)
EXTENDS TranscriptQueue
=============================================================================
