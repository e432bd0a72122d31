--------------------------- MODULE MCFrameMetrics ---------------------------
(* TLC instances of FrameMetrics. *)
EXTENDS FrameMetrics
=============================================================================
