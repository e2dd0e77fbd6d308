---------------------------- MODULE WebhookSend -----------------------------
(***************************************************************************)
(* One send of one notification, as its callers see it: at some point part *)
(* of the message may reach LINE WORKS, and the send ends with a verdict   *)
(* that says no more about that than it can.                               *)
(***************************************************************************)
CONSTANT Pending

VARIABLES
  arrived,  \* has any part of the notification reached LINE WORKS?
  verdict   \* how the send ended, or Pending while it runs

vars == <<arrived, verdict>>

Verdicts == {"success", "rejected", "uncertain"}

\* A success is never claimed of nothing, nor a total rejection of something.
MayEnd(v, reached) ==
  /\ v = "success" => reached
  /\ v = "rejected" => ~reached

Reach == verdict = Pending /\ arrived' = TRUE /\ UNCHANGED verdict

Return(v) ==
  /\ verdict = Pending
  /\ MayEnd(v, arrived)
  /\ verdict' = v
  /\ UNCHANGED arrived

Init == arrived = FALSE /\ verdict = Pending

Next == Reach \/ \E v \in Verdicts : Return(v)

Spec == Init /\ [][Next]_vars
=============================================================================
