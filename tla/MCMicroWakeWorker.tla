------------------------- MODULE MCMicroWakeWorker -------------------------
(***************************************************************************)
(* Three segments in a session, so that one can be served, one replaced    *)
(* and one chosen; a segment that closes after two chunks at the latest.   *)
(***************************************************************************)
EXTENDS MicroWakeWorker
=============================================================================
