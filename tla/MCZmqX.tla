------------------------------- MODULE MCZmqX -------------------------------
(* ZmqX on small instances.                                                *)
EXTENDS ZmqX
=============================================================================
