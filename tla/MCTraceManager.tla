--------------------------- MODULE MCTraceManager ---------------------------
(* TLC instances of TraceManager. *)
EXTENDS TraceManager

CONSTANTS t1, t2

OneThread  == {t1}
TwoThreads == {t1, t2}
=============================================================================
