---------------------------- MODULE ClusterBroker ----------------------------
(***************************************************************************)
(* What the brokers of cluster/prototype.cpp and cluster/task_flow.cpp     *)
(* have in common: a process that goes up and down, and the list of its    *)
(* workers that are free.                                                  *)
(***************************************************************************)
EXTENDS ClusterTasks

VARIABLES
  phase,               \* where the broker is, "down" if it does not run
  available_workers,   \* the workers that are free, next to use first
  stops                \* times a broker process went down

processVars == <<phase, available_workers, stops>>

Up(b) == phase[b] # "down"

ClusterBrokerTypeOK ==
  /\ available_workers \in [Broker -> Seq(Worker)]
  /\ stops \in 0..MaxStops

ClusterBrokerInit ==
  /\ phase = [b \in Broker |-> "down"]
  /\ available_workers = [b \in Broker |-> <<>>]
  /\ stops = 0
=============================================================================
