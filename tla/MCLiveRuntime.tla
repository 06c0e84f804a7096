--------------------------- MODULE MCLiveRuntime ---------------------------
(* LiveRuntime with two intents. *)
EXTENDS LiveRuntime
=============================================================================
