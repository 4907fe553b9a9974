-------------------------- MODULE MCSpeechSegment --------------------------
(***************************************************************************)
(* A small segmenter: two chunks of pre-roll, silence of two, and counts   *)
(* that make every way of ending a segment possible within the stream.     *)
(***************************************************************************)
EXTENDS SpeechSegment
=============================================================================
