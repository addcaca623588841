----------------------------- MODULE MCEndpoint -----------------------------
(* Endpoint on small instances.                                            *)
EXTENDS Endpoint
=============================================================================
