--------------------------- MODULE MCTurnPipeline ---------------------------
(* Instances of TurnPipeline. *)
EXTENDS TurnPipeline
=============================================================================
