------------------------------ MODULE Pipeline ------------------------------
(***************************************************************************)
(* The way of a trade through the system: Watcher stores and publishes it, *)
(* Risk approves or rejects it, Sizing gives it a size or skips it, and    *)
(* Executor executes it.  Each of the three agents is a Stage, which its   *)
(* own module is shown to implement; here they are joined: what one        *)
(* announces is what the stream of the next one stores, in the same step.  *)
(*                                                                         *)
(* The agents are separate containers without an order of start: anything  *)
(* may be published before the next agent has subscribed for the first     *)
(* time.  faults says which of the ways to lose a trade may happen in a    *)
(* behaviour, so that it can be asked what happens without them.           *)
(***************************************************************************)
EXTENDS Sequences

CONSTANTS
  Trades,      \* the trades of the wallets, with their event_id
  Sizes,       \* final sizes
  Skipped,     \* the decision of Sizing that is no size
  NoDecision

VARIABLES
  faults,      \* the kinds of loss that may happen
  detection,   \* what Watcher, or the backfill, did with a trade
  risk_stream, risk_consumer, risk_due, risk_finished, verdict, risk_out,
  sizing_stream, sizing_consumer, sizing_due, sizing_finished, sizing, sizing_out,
  exec_stream, exec_consumer, exec_due, exec_finished, outcome, exec_out

risk_vars == <<risk_stream, risk_consumer, risk_due, risk_finished, verdict, risk_out>>
sizing_vars ==
  <<sizing_stream, sizing_consumer, sizing_due, sizing_finished, sizing, sizing_out>>
exec_vars == <<exec_stream, exec_consumer, exec_due, exec_finished, outcome, exec_out>>
vars == <<faults, detection, risk_vars, sizing_vars, exec_vars>>

Verdicts == {"approved", "rejected"}
Sizings == Sizes \cup {Skipped}
Outcomes == [filled : BOOLEAN, size : Sizes]

ASSUME PipelineAssumption ==
  /\ Skipped \notin Sizes
  /\ NoDecision \notin Sizings
  /\ NoDecision \notin Verdicts
  /\ NoDecision \notin Outcomes

Risk == INSTANCE Stage WITH
  Events <- Trades, Decisions <- Verdicts, Undecided <- NoDecision,
  stream <- risk_stream, consumer <- risk_consumer, due <- risk_due,
  finished <- risk_finished, decision <- verdict, announced <- risk_out

Sizing == INSTANCE Stage WITH
  Events <- Trades, Decisions <- Sizings, Undecided <- NoDecision,
  stream <- sizing_stream, consumer <- sizing_consumer, due <- sizing_due,
  finished <- sizing_finished, decision <- sizing, announced <- sizing_out

Exec == INSTANCE Stage WITH
  Events <- Trades, Decisions <- Outcomes, Undecided <- NoDecision,
  stream <- exec_stream, consumer <- exec_consumer, due <- exec_due,
  finished <- exec_finished, decision <- outcome, announced <- exec_out

(***************************************************************************)
(* late: published before the next agent's first subscription.             *)
(* silent: stored and not published (a failure of Watcher, the backfill).  *)
(* undecided: all deliveries failed, or the payload does not parse.        *)
(* unannounced: committed, and the process or the bus failed before the    *)
(* publication.                                                            *)
(***************************************************************************)
Faults == {"late", "silent", "undecided", "unannounced"}

TypeOK ==
  /\ faults \subseteq Faults
  /\ detection \in [Trades -> {"unseen", "stored", "published", "silent"}]
  /\ Risk!TypeOK
  /\ Sizing!TypeOK
  /\ Exec!TypeOK

Init ==
  /\ faults \in SUBSET Faults
  /\ detection = [t \in Trades |-> "unseen"]
  /\ Risk!Init
  /\ Sizing!Init
  /\ Exec!Init
-----------------------------------------------------------------------------
(* Watcher and the backfill.                                               *)

Detects(t, before, after) ==
  /\ detection[t] = before
  /\ detection' = [detection EXCEPT ![t] = after]
  /\ UNCHANGED faults

\* The poll commits a new trade.
StoreTrade(t) ==
  /\ "late" \in faults \/ (risk_consumer /\ sizing_consumer /\ exec_consumer)
  /\ Detects(t, "unseen", "stored")
  /\ UNCHANGED <<risk_vars, sizing_vars, exec_vars>>

PublishTrade(t) ==
  /\ Detects(t, "stored", "published")
  /\ Risk!Store(t)
  /\ UNCHANGED <<sizing_vars, exec_vars>>

\* Watcher fails between the commit and the publication.
TradeUnpublished(t) ==
  /\ "silent" \in faults
  /\ Detects(t, "stored", "silent")
  /\ UNCHANGED <<risk_vars, sizing_vars, exec_vars>>

Backfilled(t) ==
  /\ "silent" \in faults
  /\ Detects(t, "unseen", "silent")
  /\ UNCHANGED <<risk_vars, sizing_vars, exec_vars>>
-----------------------------------------------------------------------------
(* The agents.                                                             *)

\* Mutant: the message is acknowledged before the callback runs.
BugEndsWell(ended, decision, announced) == TRUE

\* The bus acknowledges a message when the callback has returned, and the
\* callback returns when the row and the publication are done: without a
\* fault, an event that is finished with is decided and announced.
EndsWell(ended, decision, announced) ==
  \A t \in ended :
    /\ "undecided" \in faults \/ decision[t] # NoDecision
    /\ "unannounced" \in faults \/ decision[t] = NoDecision \/ announced[t] # <<>>

\* Mutant: both verdicts go to the subject that Sizing consumes.
BugForwarded(t, before, after, positive) == before[t] = <<>> /\ after[t] # <<>>

\* The step announces a decision on t that the next agent consumes.
Forwarded(t, before, after, positive) ==
  before[t] = <<>> /\ \E d \in positive : after[t] = <<d>>

RiskStep(t) ==
  /\ Risk!Step(t)
  /\ EndsWell(risk_finished' \ risk_finished, verdict', risk_out')
  /\ IF Forwarded(t, risk_out, risk_out', {"approved"}) THEN Sizing!Store(t)
                                                        ELSE UNCHANGED sizing_vars
  /\ UNCHANGED <<faults, detection, exec_vars>>

SizingStep(t) ==
  /\ Sizing!Step(t)
  /\ EndsWell(sizing_finished' \ sizing_finished, sizing', sizing_out')
  /\ IF Forwarded(t, sizing_out, sizing_out', Sizes) THEN Exec!Store(t)
                                                     ELSE UNCHANGED exec_vars
  /\ UNCHANGED <<faults, detection, risk_vars>>

\* The size executed is the size of the order.sized message.
ExecutorStep(t) ==
  /\ Exec!Step(t)
  /\ outcome'[t] # NoDecision => <<outcome'[t].size>> = sizing_out[t]
  /\ EndsWell(exec_finished' \ exec_finished, outcome', exec_out')
  /\ UNCHANGED <<faults, detection, risk_vars, sizing_vars>>

Subscribe ==
  /\ \/ Risk!Subscribe /\ UNCHANGED <<sizing_vars, exec_vars>>
     \/ Sizing!Subscribe /\ UNCHANGED <<risk_vars, exec_vars>>
     \/ Exec!Subscribe /\ UNCHANGED <<risk_vars, sizing_vars>>
  /\ UNCHANGED <<faults, detection>>

Next ==
  \/ Subscribe
  \/ \E t \in Trades :
       \/ StoreTrade(t) \/ PublishTrade(t) \/ TradeUnpublished(t) \/ Backfilled(t)
       \/ RiskStep(t) \/ SizingStep(t) \/ ExecutorStep(t)

Spec == Init /\ [][Next]_vars

(***************************************************************************)
(* Watcher's loop goes on, and each agent goes on with every event that is *)
(* due until it is finished with (Stage!Progress, which EventsFinish shows *)
(* of the agents).                                                         *)
(***************************************************************************)
Fairness ==
  \A t \in Trades :
    /\ WF_vars(PublishTrade(t) \/ TradeUnpublished(t))
    /\ WF_vars(RiskStep(t))
    /\ WF_vars(SizingStep(t))
    /\ WF_vars(ExecutorStep(t))

FairSpec == Spec /\ Fairness
-----------------------------------------------------------------------------
\* Four tables of four processes agree on every order: what Executor has
\* executed, in which size, is what Sizing recorded, of a trade that Risk
\* recorded as approved and Watcher had stored and published.
OrdersAreBacked ==
  \A t \in Trades : outcome[t] # NoDecision =>
    /\ sizing[t] = outcome[t].size
    /\ verdict[t] = "approved"
    /\ detection[t] = "published"

\* The last word on a trade.
Concluded(t) ==
  \/ verdict[t] = "rejected"
  \/ sizing[t] = Skipped
  \/ outcome[t] # NoDecision

\* Where a trade that reached this stream got lost on the way to the next.
LostIn(t, stream, due, finished, decision, next) ==
  /\ t \in stream
  /\ \/ "late" \in faults /\ t \notin due
     \/ "undecided" \in faults /\ t \in finished /\ decision[t] = NoDecision
     \/ "unannounced" \in faults /\ t \in finished /\ decision[t] # NoDecision /\ t \notin next

Lost(t) ==
  \/ "silent" \in faults /\ detection[t] = "silent"
  \/ LostIn(t, risk_stream, risk_due, risk_finished, verdict, sizing_stream)
  \/ LostIn(t, sizing_stream, sizing_due, sizing_finished, sizing, exec_stream)
  \/ LostIn(t, exec_stream, exec_due, exec_finished, outcome, {})

\* Every trade that was stored comes to a conclusion, in every order of the
\* first starts and with any of the faults, unless it is lost in one of four
\* ways; without faults every trade is concluded.
EveryTradeEnds ==
  \A t \in Trades : (detection[t] # "unseen") ~> (Concluded(t) \/ Lost(t))
=============================================================================
