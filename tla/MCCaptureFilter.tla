--------------------------- MODULE MCCaptureFilter ---------------------------
(* An instance of CaptureFilter for TLC. *)
EXTENDS CaptureFilter
=============================================================================
