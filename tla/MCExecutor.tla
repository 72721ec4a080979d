----------------------------- MODULE MCExecutor -----------------------------
(* Small instances of Executor for TLC. *)
EXTENDS Executor

\* Orders of one size, and orders of which one is smaller than the others.
SizeSmall == [e \in Events |-> 1]
SizeMixed == [e \in Events |-> IF e = 1 THEN 1 ELSE 2]

RealMode == {[dry_run |-> FALSE, real_mode_confirmed |-> TRUE, private_key |-> TRUE]}
AllConfigs == Settings
=============================================================================
