----------------------------- MODULE MCTaskFlow -----------------------------
(* TaskFlow on a small instance.                                           *)
EXTENDS TaskFlow
=============================================================================
