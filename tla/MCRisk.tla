------------------------------- MODULE MCRisk -------------------------------
(* Small instances of Risk for TLC. *)
EXTENDS Risk

OpenOnly == {[is_active |-> TRUE, is_archived |-> FALSE, liquid |-> TRUE]}

\* A trade that passes, one too large, and one of a wallet that is not copied.
Mixed ==
  [e \in Events |->
     [wallet |-> IF e = 3 THEN "b" ELSE "a",
      token |-> "t",
      size_usdc |-> IF e = 2 THEN 3 ELSE 2,
      price |-> 9]]
=============================================================================
