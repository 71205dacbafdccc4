--------------------------- MODULE MCEngineOrder ---------------------------
(***************************************************************************)
(* The profiles of MCEngine, for the refinement.                           *)
(***************************************************************************)
EXTENDS MCEngine, EngineOrder

=============================================================================
