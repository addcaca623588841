--------------------------- MODULE MCSimplePirate ---------------------------
(* SimplePirate on a small instance.                                       *)
EXTENDS SimplePirate
=============================================================================
