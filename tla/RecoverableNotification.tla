---------------------- MODULE RecoverableNotification -----------------------
(***************************************************************************)
(* What the outbox and the send path promise together, per message and for *)
(* as long as a record of it is kept: of all the sends made under one      *)
(* record at most one reaches LINE WORKS, a send is repeated only after    *)
(* one that certainly reached nothing, and only a record that expired or   *)
(* was delivered is forgotten.                                             *)
(***************************************************************************)
EXTENDS Naturals

CONSTANT Ids

VARIABLES
  phase,    \* per message: absent, sending, rejected, uncertain or delivered
  reached,  \* per message: how many sends of this record reached LINE WORKS
  expired   \* the messages whose record is past its retention

vars == <<phase, reached, expired>>

Phases == {"absent", "sending", "rejected", "uncertain", "delivered"}

Moves(i, from, to) == phase[i] = from /\ phase'[i] = to

Keeps(i) == reached'[i] = reached[i]

Open(i) ==
  /\ phase[i] = "absent" \/ i \in expired
  /\ phase'[i] = "sending"
  /\ reached'[i] = 0

Reach(i) == Moves(i, "sending", "sending") /\ reached[i] = 0 /\ reached'[i] = 1

Reject(i) == Moves(i, "sending", "rejected") /\ reached[i] = 0 /\ Keeps(i)

Succeed(i) == Moves(i, "sending", "delivered") /\ reached[i] = 1 /\ Keeps(i)

Doubt(i) == Moves(i, "sending", "uncertain") /\ Keeps(i)

Retry(i) == Moves(i, "rejected", "sending") /\ reached[i] = 0 /\ Keeps(i)

Forget(i) ==
  /\ phase[i] = "delivered" \/ i \in expired
  /\ phase'[i] = "absent"
  /\ Keeps(i)

Stays(i) == phase'[i] = phase[i] /\ Keeps(i)

\* A record stays expired until it is forgotten or replaced.
ExpiryIsFinal(i) == i \in expired => i \in expired' \/ Forget(i) \/ Open(i)

Init ==
  /\ phase = [i \in Ids |-> "absent"]
  /\ reached = [i \in Ids |-> 0]
  /\ expired = {}

Next ==
  \A i \in Ids :
    /\ Open(i) \/ Reach(i) \/ Reject(i) \/ Succeed(i) \/ Doubt(i) \/ Retry(i) \/ Forget(i) \/ Stays(i)
    /\ ExpiryIsFinal(i)

Spec == Init /\ [][Next]_vars
=============================================================================
