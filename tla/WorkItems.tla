----------------------------- MODULE WorkItems -----------------------------
(***************************************************************************)
(* What the local worker promises about the events it accepts, with no     *)
(* locks, files, retries or crashes: an accepted event stays pending until *)
(* it is done, it is done only once its outcome is known (a notification   *)
(* reached the notifier, or the prediction was refused as post-kickoff),   *)
(* and nothing that is done is ever undone.                                *)
(***************************************************************************)
CONSTANT Events

VARIABLES
  pending,   \* accepted and not done
  outcome,   \* delivered at least once, or rejected
  done       \* never to be handled again

vars == <<pending, outcome, done>>

TypeOK ==
  /\ pending \subseteq Events
  /\ outcome \subseteq Events
  /\ done \subseteq Events

Init == pending = {} /\ outcome = {} /\ done = {}

Take(k) ==
  /\ k \notin done
  /\ pending' = pending \union {k}
  /\ UNCHANGED <<outcome, done>>

Observe(k) ==
  /\ outcome' = outcome \union {k}
  /\ UNCHANGED <<pending, done>>

Complete(k) ==
  /\ k \in pending \intersect outcome
  /\ pending' = pending \ {k}
  /\ done' = done \union {k}
  /\ UNCHANGED outcome

Next == \E k \in Events : Take(k) \/ Observe(k) \/ Complete(k)

Spec == Init /\ [][Next]_vars
=============================================================================
