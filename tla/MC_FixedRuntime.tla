--------------------------- MODULE MC_FixedRuntime --------------------------
(* TLC's instance of FixedRuntime: the chain from the oldest predecessor, whose validator, *)
(* its entry and the mail entry go first and whose helper goes last.                        *)
EXTENDS FixedRuntime

LegacyBatch == [f \in 1..4 |-> IF f = 4 THEN 2 ELSE 1]
=============================================================================
