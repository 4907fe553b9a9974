------------------------- MODULE MCWyomingDetector -------------------------
(***************************************************************************)
(* Three chunks: one on its way to the provider while another waits in the *)
(* pipe and a third arrives.                                               *)
(***************************************************************************)
EXTENDS WyomingDetector
=============================================================================
