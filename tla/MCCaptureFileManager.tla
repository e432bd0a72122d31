------------------------ MODULE MCCaptureFileManager ------------------------
(* Up to MaxLoads files opened in one window. *)
EXTENDS CaptureFileManager
=============================================================================
