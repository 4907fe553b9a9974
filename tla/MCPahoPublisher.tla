-------------------------- MODULE MCPahoPublisher --------------------------
(***************************************************************************)
(* A command and an event that are published at the same time, each tried  *)
(* twice, so that an old copy can overtake or outlive a new one.           *)
(***************************************************************************)
EXTENDS PahoPublisher
=============================================================================
