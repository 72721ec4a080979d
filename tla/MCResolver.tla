----------------------------- MODULE MCResolver -----------------------------
(* A small instance of Resolver: two old markets and a newer one. *)
EXTENDS Resolver

FirstTradeOf == [m \in Markets |-> IF m = 3 THEN 2 ELSE 1]

\* The edges of two classes, and prices between them.
SomeFinal == {[yes |-> 99, no |-> 1], [yes |-> 45, no |-> 55]}
SomeProvisional == {[yes |-> 70, no |-> 30]}
=============================================================================
