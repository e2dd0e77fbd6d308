------------------------ MODULE LatestObservation --------------------------
(***************************************************************************)
(* What the health monitor promises of the delivery status: observations   *)
(* are numbered in the order they start, they may end in any order or      *)
(* never, and the status is always that of the newest one recorded so far. *)
(***************************************************************************)
EXTENDS Naturals

CONSTANT MaxSequence

VARIABLES
  issued,   \* how many observations have a number
  applied,  \* the newest one recorded
  status    \* what it saw: healthy or degraded

vars == <<issued, applied, status>>

Issue ==
  /\ issued < MaxSequence
  /\ issued' = issued + 1
  /\ UNCHANGED <<applied, status>>

Apply(n) ==
  /\ applied < n
  /\ applied' = n
  /\ status' \in {"healthy", "degraded"}
  /\ UNCHANGED issued

Init == issued = 0 /\ applied = 0 /\ status = "healthy"

Next == Issue \/ \E n \in 1..issued : Apply(n)

Spec == Init /\ [][Next]_vars
=============================================================================
