-------------------------- MODULE MCSpeechWorkers --------------------------
(***************************************************************************)
(* Three attempts per event as in the code, and a maximum pause that is    *)
(* not a power of two, as 30 is not, reached after four failures.          *)
(***************************************************************************)
EXTENDS SpeechWorkers
=============================================================================
