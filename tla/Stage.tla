------------------------------- MODULE Stage -------------------------------
(***************************************************************************)
(* One stage of the pipeline as the stages around it see it: the stream it *)
(* consumes through a durable consumer, its table of decisions, and what   *)
(* it announces.  Risk, Sizing and Executor implement it; Pipeline joins   *)
(* three of them.                                                          *)
(*                                                                         *)
(* An event that is due is finished with at some point: acknowledged, or   *)
(* its deliveries spent.  Nothing about it changes after that.  It may be  *)
(* finished with while it is undecided (deliveries spent, payload that     *)
(* does not parse) or decided and not announced (the process or the bus    *)
(* failed between the commit and the publication).                         *)
(***************************************************************************)
EXTENDS Sequences

CONSTANTS
  Events,
  Decisions,
  Undecided

VARIABLES
  stream,      \* what the stage before has published
  consumer,    \* the durable consumer exists
  due,         \* published since then, hence delivered
  finished,    \* due events that no delivery will bring back
  decision,    \* the table
  announced    \* messages published for each event

inbox == <<stream, consumer, due>>
vars == <<inbox, finished, decision, announced>>

TypeOK ==
  /\ stream \subseteq Events
  /\ consumer \in BOOLEAN
  /\ due \subseteq stream
  /\ finished \subseteq due
  /\ decision \in [Events -> Decisions \cup {Undecided}]
  /\ announced \in [Events -> Seq(Decisions)]

Init ==
  /\ stream = {}
  /\ consumer = FALSE
  /\ due = {}
  /\ finished = {}
  /\ decision = [e \in Events |-> Undecided]
  /\ announced = [e \in Events |-> <<>>]

Subscribe ==
  /\ ~consumer
  /\ consumer' = TRUE
  /\ UNCHANGED <<stream, due, finished, decision, announced>>

\* The stage before announces e to this one.
Store(e) ==
  /\ e \notin stream
  /\ stream' = stream \cup {e}
  /\ due' = IF consumer THEN due \cup {e} ELSE due
  /\ UNCHANGED <<consumer, finished, decision, announced>>

Decide(e, d) ==
  /\ e \in due \ finished
  /\ decision[e] = Undecided
  /\ decision' = [decision EXCEPT ![e] = d]
  /\ UNCHANGED announced

Announce(e) ==
  /\ e \in due \ finished
  /\ decision[e] # Undecided
  /\ announced[e] = <<>>
  /\ announced' = [announced EXCEPT ![e] = <<decision[e]>>]
  /\ UNCHANGED decision

\* Mutant: what was published before the subscription counts as done with.
BugFinish == finished' \in {finished \cup es : es \in SUBSET (stream \ finished)}

\* A crash drops every queued copy, so several events may end at once, and
\* one of them in the step that decides or announces it.
Finish == finished' \in {finished \cup es : es \in SUBSET (due \ finished)}

Step(e) ==
  /\ \/ Announce(e)
     \/ \E d \in Decisions : Decide(e, d)
     \/ UNCHANGED <<decision, announced>>
  /\ Finish
  /\ UNCHANGED inbox

Next == Subscribe \/ \E e \in Events : Store(e) \/ Step(e)

Spec == Init /\ [][Next]_vars
-----------------------------------------------------------------------------
\* Every due event is finished with in the end.
Progress == \A e \in Events : (e \in due) ~> (e \in finished)
-----------------------------------------------------------------------------
(* What a stage keeps.                                                     *)

DecidedAreDue == \A e \in Events : decision[e] # Undecided => e \in due

AnnouncedAsDecided ==
  \A e \in Events : announced[e] # <<>> =>
    decision[e] # Undecided /\ announced[e] = <<decision[e]>>

Inv == TypeOK /\ DecidedAreDue /\ AnnouncedAsDecided
-----------------------------------------------------------------------------
(* A stage decides and announces once.                                     *)
Once == INSTANCE DecideOnce
=============================================================================
