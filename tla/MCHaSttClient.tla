--------------------------- MODULE MCHaSttClient ---------------------------
(***************************************************************************)
(* Audio of up to two frames, the second of which may be shorter, and six  *)
(* messages: the five of a regular run and one more.                       *)
(***************************************************************************)
EXTENDS HaSttClient
=============================================================================
