----------------------------- MODULE MCWatcher -----------------------------
(* A small instance of Watcher: wallet a traded twice in second 2 (1, 2) and *)
(* at 3 (3); wallet b, which is polled first, shares the transaction of 2    *)
(* (4) and made a trade of its own (5).                                      *)
EXTENDS Watcher

WalletsBA == <<"b", "a">>
WalletOf == [t \in 1..5 |-> IF t <= 3 THEN "a" ELSE "b"]
TimeOf == <<2, 2, 3, 2, 3>>
KeyOf == <<1, 2, 3, 2, 5>>
=============================================================================
