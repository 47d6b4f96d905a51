--------------------------- MODULE MCResourcePool ---------------------------
(* TLC instances of ResourcePool.                                             *)
EXTENDS ResourcePool

=============================================================================
