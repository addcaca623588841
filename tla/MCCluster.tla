----------------------------- MODULE MCCluster -----------------------------
(* Brokers, and the threads of a broker, that are interchangeable.         *)
EXTENDS Cluster, TLC

Symmetry == Permutations(Broker) \cup Permutations(ClientThread)
=============================================================================
