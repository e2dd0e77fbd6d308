--------------------------- MODULE JournalRegister --------------------------
(***************************************************************************)
(* What the scope journal promises its callers: a register that is read    *)
(* and swapped atomically, one request at a time.  A request that was      *)
(* interrupted has taken effect or has not; which of the two is settled,   *)
(* for good, by the next request that is answered.                         *)
(***************************************************************************)
CONSTANTS Texts, Void

VARIABLES
  request,  \* the request under way, or Void
  value,    \* what the last answered request left or saw
  intents   \* what interrupted swaps since may have left instead

vars == <<request, value, intents>>

Values == Texts \cup {Void}

Request == [kind : {"read"}, expected : {Void}, desired : {Void}]
           \cup [kind : {"swap"}, expected : Values, desired : Texts]

Possible == {value} \cup intents

Submit(r) == request = Void /\ request' = r /\ UNCHANGED <<value, intents>>

Settle(v) == request' = Void /\ value' = v /\ intents' = {}

Read == request.kind = "read" /\ \E v \in Possible : Settle(v)

Swap ==
  /\ request.kind = "swap"
  /\ request.expected \in Possible
  /\ Settle(request.desired)

\* The value is desired already, or it is not the expected one.
Refuse ==
  /\ request.kind = "swap"
  /\ \E v \in Possible : (v = request.desired \/ v # request.expected) /\ Settle(v)

Interrupt ==
  /\ request' = Void
  /\ intents' \in {intents} \cup
       (IF request.kind = "swap" /\ request.expected \in Possible
        THEN {intents \cup {request.desired}} ELSE {})
  /\ UNCHANGED value

Init == request = Void /\ value \in Values /\ intents = {}

Next ==
  \/ \E r \in Request : Submit(r)
  \/ request # Void /\ (Read \/ Swap \/ Refuse \/ Interrupt)

Spec == Init /\ [][Next]_vars
=============================================================================
