------------------------- MODULE MC_ServerLifecycle -------------------------
(* Two sites and two lives of the process. *)
EXTENDS ServerLifecycle
=============================================================================
