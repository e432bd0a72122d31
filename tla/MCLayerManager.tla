--------------------------- MODULE MCLayerManager ---------------------------
(* TLC instance of LayerManager over UnixDomainServer. *)
EXTENDS LayerManager
=============================================================================
