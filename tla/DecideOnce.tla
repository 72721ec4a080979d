----------------------------- MODULE DecideOnce -----------------------------
(***************************************************************************)
(* What a decision agent (Risk, Sizing, Executor) promises to the rest of  *)
(* the pipeline: an event is decided at most once, the decision never      *)
(* changes, and at most one message announces it, with that decision.  The *)
(* announcement may never come: deciding and announcing are not one        *)
(* transaction.                                                            *)
(***************************************************************************)
EXTENDS Sequences

CONSTANTS
  Events,
  Decisions,
  Undecided

VARIABLES
  decision,    \* the agent's table: event -> decision
  announced    \* messages published for each event

vars == <<decision, announced>>

Init ==
  /\ decision = [e \in Events |-> Undecided]
  /\ announced = [e \in Events |-> <<>>]

Decide(e, d) ==
  /\ decision[e] = Undecided
  /\ decision' = [decision EXCEPT ![e] = d]
  /\ UNCHANGED announced

Announce(e) ==
  /\ decision[e] # Undecided
  /\ announced[e] = <<>>
  /\ announced' = [announced EXCEPT ![e] = <<decision[e]>>]
  /\ UNCHANGED decision

Next == \E e \in Events : Announce(e) \/ \E d \in Decisions : Decide(e, d)

Spec == Init /\ [][Next]_vars
=============================================================================
