---------------------------- MODULE MCLazyPirate ----------------------------
(* LazyPirate on a small instance.                                         *)
EXTENDS LazyPirate
=============================================================================
