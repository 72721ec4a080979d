------------------------------ MODULE MCSizing ------------------------------
(* Small instances of Sizing for TLC. *)
EXTENDS Sizing

\* One order that is scaled to a half or more of a quantum, one that is capped.
SmallAndLarge == [e \in Events |-> IF e = 1 THEN 1 ELSE 3]

\* A half and the whole of each size; caps and floors on the grid and off it.
SomeConfigs ==
  {s \in [ratio : {2, 4}, max : {4, 6, 7}, min : {0, 3}] : s.max = 4 => s.min = 0}
=============================================================================
