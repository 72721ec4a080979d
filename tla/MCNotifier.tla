----------------------------- MODULE MCNotifier -----------------------------
(* A small instance of Notifier. *)
EXTENDS Notifier

\* As large as its number.
SizeOf == [e \in Events |-> e]
=============================================================================
