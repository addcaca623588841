---------------------------- MODULE WorkerLeases ----------------------------
(***************************************************************************)
(* What the list of the Paranoid Pirate queue (ppqueue.c) promises: each   *)
(* worker heard from holds a lease, renewed in full by every message; the  *)
(* oldest lease is the one used next; and no turn of the queue ends        *)
(* without a sweep, which ends exactly the leases that have run out.  No   *)
(* order of a list, no early stop, no removal by position: those are how   *)
(* the code gets there.                                                    *)
(***************************************************************************)
EXTENDS Naturals

CONSTANTS
  Worker,
  Term      \* length of a lease

VARIABLES
  lease,   \* time left of the lease of each worker that holds one
  turn     \* "poll", "handle" or "down"

Holders == DOMAIN lease

Restricted(S) == [w \in S |-> lease[w]]

Init == lease = [w \in {} |-> 0] /\ turn = "poll"

Wake == turn = "poll" /\ turn' = "handle" /\ UNCHANGED lease

(* A message from w: w holds a full lease.                                 *)
Renew(w) ==
  /\ turn = "handle"
  /\ lease' = [v \in Holders \cup {w} |-> IF v = w THEN Term ELSE lease[v]]
  /\ UNCHANGED turn

(* The next worker to use is one whose lease is as old as any.             *)
Take(w) ==
  /\ turn = "handle"
  /\ w \in Holders
  /\ \A v \in Holders : lease[w] <= lease[v]
  /\ lease' = Restricted(Holders \ {w})
  /\ UNCHANGED turn

(* The end of a turn: exactly the leases that have run out end.            *)
Sweep ==
  /\ turn = "handle"
  /\ turn' = "poll"
  /\ lease' = Restricted({w \in Holders : lease[w] > 0})

Elapse ==
  /\ lease' = [w \in Holders |-> IF lease[w] = 0 THEN 0 ELSE lease[w] - 1]
  /\ UNCHANGED turn

(* The queue goes down, or is started again, and has forgotten.            *)
Forget ==
  /\ lease' = [w \in {} |-> 0]
  /\ turn' = IF turn = "down" THEN "poll" ELSE "down"

Next ==
  \/ \E w \in Worker : Renew(w) \/ Take(w)
  \/ Wake
  \/ Sweep
  \/ Elapse
  \/ Forget

Spec == Init /\ [][Next]_<<lease, turn>>
=============================================================================
