----------------------------- MODULE JetStream -----------------------------
(***************************************************************************)
(* One JetStream stream with one durable push consumer and the local queue *)
(* of the subscribed agent, as NatsMessagingBus.subscribe sets them up:    *)
(* manual ack, ack_wait, max_deliver, DeliverPolicy.NEW.                   *)
(*                                                                         *)
(* The server counts the deliveries of each message.  It delivers an       *)
(* unacknowledged message again whenever ack_wait runs out, whatever the   *)
(* agent is doing with the earlier copy: ack_wait runs while the copy      *)
(* still waits in the agent's queue, so a copy may be queued twice without *)
(* any failure.  After max_deliver deliveries the message is abandoned.    *)
(* nats-py runs the callback on one message of the queue at a time.        *)
(*                                                                         *)
(* The durable consumer is created by the first subscription and, its      *)
(* policy being NEW, never delivers what the stream stored before that.    *)
(* Expiry of messages (seven days) is left out.                            *)
(*                                                                         *)
(* The module is extended by the agents, which own the callback.           *)
(***************************************************************************)
EXTENDS Naturals, Sequences

CONSTANTS
  Events,      \* event_id of the messages of the stream (their Nats-Msg-Id)
  MaxDeliver   \* ConsumerConfig.max_deliver

ASSUME MaxDeliverAssumption == MaxDeliver \in Nat \ {0}

VARIABLES
  stream,      \* messages the stream has stored
  consumer,    \* the durable consumer exists
  due,         \* messages stored since then, which it delivers
  delivered,   \* the consumer's delivery count of each message
  acked,       \* messages whose ack reached the server
  queue        \* deliveries waiting in the client for the callback

js_vars == <<stream, consumer, due, delivered, acked, queue>>

\* A delivery carries its count (msg.metadata.num_delivered).
Delivery == [id : Events, num : 1..MaxDeliver]

JSTypeOK ==
  /\ stream \subseteq Events
  /\ consumer \in BOOLEAN
  /\ due \subseteq stream
  /\ delivered \in [Events -> 0..MaxDeliver]
  /\ acked \subseteq Events
  /\ queue \in Seq(Delivery)

JSInit ==
  /\ stream = {}
  /\ consumer = FALSE
  /\ due = {}
  /\ delivered = [e \in Events |-> 0]
  /\ acked = {}
  /\ queue = <<>>

\* js.subscribe binds to the consumer and creates it the first time.
Subscribe ==
  /\ consumer' = TRUE
  /\ UNCHANGED <<stream, due, delivered, acked, queue>>

\* js.publish: the Nats-Msg-Id makes a second publish of e a no-op.
Store(e) ==
  /\ e \notin stream
  /\ stream' = stream \cup {e}
  /\ due' = IF consumer THEN due \cup {e} ELSE due
  /\ UNCHANGED <<consumer, delivered, acked, queue>>

\* Mutant: the consumer without max_deliver.
BugDeliver(e) ==
  /\ e \in due \ acked
  /\ delivered' = [delivered EXCEPT ![e] = @ + 1]
  /\ queue' = Append(queue, [id |-> e, num |-> delivered[e] + 1])
  /\ UNCHANGED <<stream, consumer, due, acked>>

\* First delivery, or ack_wait expired on an earlier one.
Deliver(e) ==
  /\ e \in due \ acked
  /\ delivered[e] < MaxDeliver
  /\ delivered' = [delivered EXCEPT ![e] = @ + 1]
  /\ queue' = Append(queue, [id |-> e, num |-> delivered[e] + 1])
  /\ UNCHANGED <<stream, consumer, due, acked>>

\* The subscription hands the oldest delivery to the callback.
TakeHead ==
  /\ queue # <<>>
  /\ queue' = Tail(queue)
  /\ UNCHANGED <<stream, consumer, due, delivered, acked>>

\* msg.ack(): acknowledges e whichever delivery of e it answers; it may
\* also be lost, and then nothing changes.
AckArrives(e) ==
  /\ acked' = acked \cup {e}
  /\ UNCHANGED <<stream, consumer, due, delivered, queue>>

\* The client process is gone, and with it the queue it held.
LoseQueue ==
  /\ queue' = <<>>
  /\ UNCHANGED <<stream, consumer, due, delivered, acked>>
=============================================================================
