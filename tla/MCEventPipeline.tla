-------------------------- MODULE MCEventPipeline ---------------------------
(***************************************************************************)
(* Bounds for the runs of EventPipeline.                                   *)
(***************************************************************************)
EXTENDS EventPipeline
=============================================================================
