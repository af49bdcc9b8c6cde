-------------------------- MODULE MCCaptureEngine --------------------------
(***************************************************************************)
(* Two windows and a desktop that changes twice: enough for a window that  *)
(* moves and comes back between the two looks.                             *)
(***************************************************************************)
EXTENDS CaptureEngine

============================================================================
