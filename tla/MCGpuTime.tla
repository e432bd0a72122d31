----------------------------- MODULE MCGpuTime -----------------------------
(* TLC instances of GpuTime. *)
EXTENDS GpuTime, TLC

CONSTANTS c1, c2, t1, t2

TwoCmds    == {c1, c2}
OneThread  == {t1}
TwoThreads == {t1, t2}

Symmetry == Permutations(TwoCmds) \cup Permutations(Threads)
=============================================================================
