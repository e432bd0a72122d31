--------------------------- MODULE MCRuntimeLayer ---------------------------
(* TLC instance of RuntimeLayer: a filter with a limit, then one without. *)
EXTENDS RuntimeLayer

MCRequests ==
  <<[alpha |-> TRUE, counts |-> FALSE, pass |-> "scene", limit |-> TRUE, max |-> 1],
    [alpha |-> FALSE, counts |-> TRUE, pass |-> None, limit |-> FALSE, max |-> 0]>>
=============================================================================
