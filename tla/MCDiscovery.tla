---------------------------- MODULE MCDiscovery -----------------------------
(* A small instance of Discovery for TLC. *)
EXTENDS Discovery

FiveWallets == <<"a", "b", "c", "d", "e">>

\* Two of the wallets have the same name.
Names == [w \in Wallets |-> IF w = "d" THEN "b" ELSE w]
=============================================================================
