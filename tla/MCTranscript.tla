---------------------------- MODULE MCTranscript ----------------------------
(***************************************************************************)
(* The profiles of MCEngine, for the transcript properties.                *)
(***************************************************************************)
EXTENDS MCEngine, Audit

=============================================================================
