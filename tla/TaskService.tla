----------------------------- MODULE TaskService -----------------------------
(***************************************************************************)
(* What a cluster promises its clients, without sockets, brokers or        *)
(* routes: a task is executed once, by some worker, and its result is      *)
(* delivered once, to the client that issued it.  Nothing is lost before a *)
(* broker has gone down; after that anything under way may be.             *)
(***************************************************************************)
EXTENDS Naturals

CONSTANTS Client, Task

VARIABLES
  issued,      \* number of the last task of each client
  queued,      \* tasks that no worker has executed yet
  executed,    \* tasks whose result is on its way
  delivered,   \* tasks whose result the client has not read yet
  failed       \* has a broker gone down?

vars == <<issued, queued, executed, delivered, failed>>

Init ==
  /\ issued = [c \in Client |-> 0]
  /\ queued = {} /\ executed = {} /\ delivered = {}
  /\ failed = FALSE

Ask(t) ==
  /\ t.seq = issued[t.client] + 1
  /\ issued' = [issued EXCEPT ![t.client] = t.seq]
  /\ queued' = queued \cup {t}
  /\ UNCHANGED <<executed, delivered, failed>>

Execute(t) ==
  /\ t \in queued
  /\ queued' = queued \ {t}
  /\ executed' = executed \cup {t}
  /\ UNCHANGED <<issued, delivered, failed>>

Deliver(t) ==
  /\ t \in executed
  /\ executed' = executed \ {t}
  /\ delivered' = delivered \cup {t}
  /\ UNCHANGED <<issued, queued, failed>>

Read(t) ==
  /\ t \in delivered
  /\ delivered' = delivered \ {t}
  /\ UNCHANGED <<issued, queued, executed, failed>>

(* A broker goes down, or what was under way when one did is dropped.      *)
Fail ==
  /\ failed' = TRUE
  /\ queued' \subseteq queued
  /\ executed' \subseteq executed
  /\ delivered' \subseteq delivered
  /\ UNCHANGED issued

Next ==
  \/ \E t \in Task : Ask(t) \/ Execute(t) \/ Deliver(t) \/ Read(t)
  \/ Fail

Spec == Init /\ [][Next]_vars
=============================================================================
