---------------------------- MODULE MC_TargetSync ---------------------------
(* TLC's instances of TargetSync. *)
EXTENDS TargetSync

CONSTANTS a, b, s, t

CalmWorld ==
  [kind |-> "calm", addresses |-> {a, b}, sessions |-> {s},
   syncs |-> 2, faults |-> 2, edits |-> 1]

SharedWorld ==
  [kind |-> "shared", addresses |-> {a}, sessions |-> {s, t},
   syncs |-> 1, faults |-> 1, edits |-> 0]

AllWorlds ==
  {CalmWorld, [CalmWorld EXCEPT !.kind = "renumbering"],
   SharedWorld, [SharedWorld EXCEPT !.faults = 0, !.edits = 1]}

=============================================================================
