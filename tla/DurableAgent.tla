---------------------------- MODULE DurableAgent ----------------------------
(***************************************************************************)
(* What the three agents that decide about an order have in common (Risk,  *)
(* Sizing, Executor): a durable consumer, a callback that works out a      *)
(* result for one event, inserts it in a table keyed by trade_event_id and *)
(* then publishes it, and NatsMessagingBus, which acknowledges the event   *)
(* when the callback returns and leaves it to redelivery when it raises.   *)
(*                                                                         *)
(* Each agent extends this module, names the steps of its own work (other  *)
(* values of pc) and adds its own variables.                               *)
(***************************************************************************)
EXTENDS JetStream

CONSTANTS
  Poison,      \* events whose payload does not parse
  NoEvent,     \* no message in hand
  NoResult,    \* nothing worked out, no row
  MaxRestarts  \* bound: starts after the first

ASSUME AgentAssumption ==
  /\ Poison \subseteq Events
  /\ NoEvent \notin Events
  /\ MaxRestarts \in Nat

VARIABLES
  up,          \* the process runs and is subscribed
  pc,          \* where the callback is
  cur,         \* event of the delivery in hand
  result,      \* what the callback has worked out for it
  restarts,    \* starts so far
  rows,        \* the table: PK trade_event_id -> result
  outbox       \* what was published for each event

agent_vars == <<up, pc, cur, result, restarts>>
tables == <<rows, outbox>>
durable_vars == <<js_vars, agent_vars, tables>>

AgentTypeOK(Results, Steps) ==
  /\ JSTypeOK
  /\ up \in BOOLEAN
  /\ pc \in Steps \cup {"idle", "persist", "publish", "ack"}
  /\ cur \in Events \cup {NoEvent}
  /\ pc # "idle" => cur \in Events /\ up
  /\ result \in Results \cup {NoResult}
  /\ pc \in {"persist", "publish"} => result \in Results
  /\ restarts \in Nat
  /\ rows \in [Events -> Results \cup {NoResult}]
  /\ outbox \in [Events -> Seq(Results)]

AgentInit ==
  /\ JSInit
  /\ up = FALSE
  /\ pc = "idle"
  /\ cur = NoEvent
  /\ result = NoResult
  /\ restarts = 0
  /\ rows = [e \in Events |-> NoResult]
  /\ outbox = [e \in Events |-> <<>>]
-----------------------------------------------------------------------------
(* The process.                                                            *)

StartAgent ==
  /\ ~up
  /\ restarts <= MaxRestarts
  /\ up' = TRUE
  /\ restarts' = restarts + 1
  /\ Subscribe
  /\ UNCHANGED <<pc, cur, result, tables>>

\* Killed, or stopped by a signal, at any await of the callback.
CrashAgent ==
  /\ up
  /\ restarts <= MaxRestarts
  /\ up' = FALSE
  /\ pc' = "idle"
  /\ cur' = NoEvent
  /\ result' = NoResult
  /\ LoseQueue
  /\ UNCHANGED <<restarts, tables>>
-----------------------------------------------------------------------------
(* The callback, _handle_message inside _durable_wrapper.                  *)

\* The callback goes from one step to the next with outcome r in hand.
Goto(from, to, r) ==
  /\ pc = from
  /\ pc' = to
  /\ result' = r
  /\ UNCHANGED <<up, cur, restarts>>

\* The callback ends: the delivery is not in hand any more.
Leave(from) ==
  /\ pc = from
  /\ pc' = "idle"
  /\ cur' = NoEvent
  /\ result' = NoResult
  /\ UNCHANGED <<up, restarts>>

\* A step of the agent's own work, which touches no table.
Work(from, to, r) == Goto(from, to, r) /\ UNCHANGED <<js_vars, tables>>

\* An exception that the work does not handle: no ack.
WorkFails(from) == Leave(from) /\ UNCHANGED <<js_vars, tables>>

\* A delivery is taken up; an invalid payload is acked without any effect.
TakeUp(to, r) ==
  /\ up
  /\ pc = "idle"
  /\ TakeHead
  /\ cur' = Head(queue).id
  /\ \/ cur' \in Poison /\ pc' = "ack" /\ result' = NoResult
     \/ cur' \notin Poison /\ pc' = to /\ result' = r
  /\ UNCHANGED <<up, restarts, tables>>

\* INSERT ... ON CONFLICT DO NOTHING that adds the row.
InsertRow ==
  /\ rows[cur] = NoResult
  /\ rows' = [rows EXCEPT ![cur] = result]

\* Mutant: the callback publishes whether or not the row is new.
BugPersistIgnoresConflict ==
  /\ Goto("persist", "publish", result)
  /\ rows' = [rows EXCEPT ![cur] = IF @ = NoResult THEN result ELSE @]
  /\ UNCHANGED <<js_vars, outbox>>

\* Mutant: ON CONFLICT DO UPDATE.
BugPersistUpserts ==
  /\ Goto("persist", IF rows[cur] = NoResult THEN "publish" ELSE "ack", result)
  /\ rows' = [rows EXCEPT ![cur] = result]
  /\ UNCHANGED <<js_vars, outbox>>

\* insert and commit: is_new decides whether the result is published.
PersistRow ==
  /\ pc = "persist"
  /\ \/ InsertRow /\ Goto("persist", "publish", result)
     \/ /\ rows[cur] # NoResult
        /\ Goto("persist", "ack", result)
        /\ UNCHANGED rows
  /\ UNCHANGED <<js_vars, outbox>>

\* Mutant: a database error is swallowed and the message acknowledged.
BugPersistRowFailsAcks ==
  /\ Goto("persist", "ack", result)
  /\ UNCHANGED <<js_vars, tables>>

\* The database fails before the commit, or after it but before its answer.
PersistRowFails ==
  /\ Leave("persist")
  /\ UNCHANGED rows \/ InsertRow
  /\ UNCHANGED <<js_vars, outbox>>

Announce(e, r) == outbox' = [outbox EXCEPT ![e] = Append(@, r)]

PublishRow ==
  /\ Goto("publish", "ack", result)
  /\ Announce(cur, result)
  /\ UNCHANGED <<js_vars, rows>>

\* The bus fails before the server stored the event, or after it.
PublishRowFails ==
  /\ Leave("publish")
  /\ UNCHANGED outbox \/ Announce(cur, result)
  /\ UNCHANGED <<js_vars, rows>>

\* msg.ack() is fire and forget: it may not arrive.
AckEvent ==
  /\ Leave("ack")
  /\ AckArrives(cur) \/ UNCHANGED js_vars
  /\ UNCHANGED tables
-----------------------------------------------------------------------------
(* The server.                                                             *)

\* The agent before this one in the pipeline publishes an event.
Upstream(e) == Store(e) /\ UNCHANGED <<agent_vars, tables>>

\* A push consumer delivers only while a client is subscribed.
Push(e) == up /\ Deliver(e) /\ UNCHANGED <<agent_vars, tables>>
-----------------------------------------------------------------------------
\* Every step of such an agent, whose own steps and results are given.
AgentNext(Results, Steps) ==
  \/ StartAgent \/ CrashAgent
  \/ \E to \in Steps, r \in Results \cup {NoResult} :
       TakeUp(to, r) \/ \E from \in Steps : Work(from, to, r)
  \/ \E r \in Results :
       TakeUp("persist", r) \/ \E from \in Steps : Work(from, "persist", r)
  \/ \E from \in Steps : WorkFails(from)
  \/ PersistRow \/ PersistRowFails \/ PublishRow \/ PublishRowFails \/ AckEvent
  \/ \E e \in Events : Upstream(e) \/ Push(e)
-----------------------------------------------------------------------------
(* What every such agent keeps.                                            *)

\* Whatever is redelivered, lost or crashed, an event is published at most
\* once, and what is published is what its row says, even if the callback
\* worked on the event again and came to another result.
PublishedOnceAsPersisted ==
  \A e \in Events : outbox[e] # <<>> => rows[e] # NoResult /\ outbox[e] = <<rows[e]>>

\* A valid event is acknowledged only after its outcome is in the table.
AckedArePersisted == \A e \in acked \ Poison : rows[e] # NoResult

\* The inductive form: the publish step has just inserted its row, of which
\* nothing was announced, and the ack step is about a row that exists.
DecisionInv ==
  /\ PublishedOnceAsPersisted
  /\ AckedArePersisted
  /\ pc = "publish" => rows[cur] = result /\ outbox[cur] = <<>>
  /\ pc = "ack" => cur \in Poison \/ rows[cur] # NoResult

\* The due events that no delivery will bring back: no copy of them waits or
\* is in hand, and the server has their ack or has given up.
Finished ==
  {e \in due : /\ e \in acked \/ delivered[e] = MaxDeliver
              /\ cur # e
              /\ \A i \in DOMAIN queue : queue[i].id # e}

\* An event that the consumer was there to receive is finished with in the
\* end: it is not redelivered for ever, and it is not forgotten.  With
\* AckedArePersisted, an event is left undecided only if its payload does not
\* parse or all its deliveries were spent.
EventsFinish == \A e \in Events : (e \in due) ~> (e \in Finished)

\* What the agent is for the stages around it, given the results of its work.
StageOf(Results) == INSTANCE Stage WITH
  Decisions <- Results, Undecided <- NoResult,
  finished <- Finished, decision <- rows, announced <- outbox
=============================================================================
