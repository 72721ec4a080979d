------------------------- MODULE DurableAgentProofs -------------------------
(***************************************************************************)
(* What holds of every agent whose steps are those of DurableAgent,        *)
(* whatever its own steps and results are, checked by TLAPS.  The proofs   *)
(* about Risk, Sizing and Executor rest on these lemmas.                   *)
(***************************************************************************)
EXTENDS DurableAgent, SequenceTheorems, TLAPS

\* No step of an agent's own has the name of a step of the skeleton.
OwnSteps(Steps) == Steps \cap {"idle", "persist", "publish", "ack"} = {}

(***************************************************************************)
(* Types.                                                                  *)
(***************************************************************************)

\* The types at the start.
LEMMA AgentInitType ==
  ASSUME NEW CONSTANT Results, NEW CONSTANT Steps, AgentInit
  PROVE  AgentTypeOK(Results, Steps)
<1>1. JSTypeOK
  <2>1. queue \in Seq(Delivery)
    BY EmptySeq DEF AgentInit, JSInit
  <2>2. delivered \in [Events -> 0..MaxDeliver]
    BY MaxDeliverAssumption DEF AgentInit, JSInit
  <2> QED
    BY <2>1, <2>2 DEF AgentInit, JSInit, JSTypeOK
<1>2. outbox \in [Events -> Seq(Results)]
  BY EmptySeq DEF AgentInit
<1> QED
  BY <1>1, <1>2 DEF AgentInit, AgentTypeOK

\* The queue and the counters of JetStream.
LEMMA DeliverType ==
  ASSUME JSTypeOK, NEW e \in Events, Deliver(e)
  PROVE  JSTypeOK'
<1>1. delivered[e] + 1 \in 1..MaxDeliver
  BY MaxDeliverAssumption DEF JSTypeOK, Deliver
<1>2. [id |-> e, num |-> delivered[e] + 1] \in Delivery
  BY <1>1 DEF Delivery
<1>3. queue' \in Seq(Delivery)
  BY <1>2, AppendProperties DEF JSTypeOK, Deliver
<1> QED
  BY <1>1, <1>3, MaxDeliverAssumption DEF JSTypeOK, Deliver

\* The delivery that is taken up is one of a known event.
LEMMA TakeHeadType ==
  ASSUME JSTypeOK, TakeHead
  PROVE  JSTypeOK' /\ Head(queue).id \in Events
<1>1. Head(queue) \in Delivery /\ Tail(queue) \in Seq(Delivery)
  BY HeadTailProperties DEF JSTypeOK, TakeHead
<1>2. Head(queue).id \in Events
  BY <1>1 DEF Delivery
<1> QED
  BY <1>1, <1>2 DEF JSTypeOK, TakeHead

\* Every step of an agent keeps the types of its variables.
LEMMA AgentStepType ==
  ASSUME NEW CONSTANT Results, NEW CONSTANT Steps, OwnSteps(Steps),
         AgentTypeOK(Results, Steps),
         AgentNext(Results, Steps) \/ UNCHANGED durable_vars
  PROVE  AgentTypeOK(Results, Steps)'
<1> USE DEF AgentTypeOK, OwnSteps
<1>1. CASE StartAgent
  BY <1>1 DEF StartAgent, Subscribe, JSTypeOK, tables
<1>2. CASE CrashAgent
  <2>1. JSTypeOK'
    BY <1>2, EmptySeq DEF CrashAgent, LoseQueue, JSTypeOK
  <2> QED
    BY <1>2, <2>1 DEF CrashAgent, tables
<1>3. ASSUME NEW to \in Steps \cup {"persist"}, NEW r \in Results \cup {NoResult},
             to = "persist" => r \in Results, TakeUp(to, r)
      PROVE  AgentTypeOK(Results, Steps)'
  <2>1. JSTypeOK' /\ cur' \in Events
    BY <1>3, TakeHeadType DEF TakeUp
  <2> QED
    BY <1>3, <2>1 DEF TakeUp, tables
<1>4. ASSUME NEW from \in Steps, NEW to \in Steps \cup {"persist"},
             NEW r \in Results \cup {NoResult},
             to = "persist" => r \in Results, Work(from, to, r)
      PROVE  AgentTypeOK(Results, Steps)'
  BY <1>4 DEF Work, Goto, JSTypeOK, js_vars, tables
<1>5. ASSUME NEW from \in Steps, WorkFails(from)
      PROVE  AgentTypeOK(Results, Steps)'
  BY <1>5 DEF WorkFails, Leave, JSTypeOK, js_vars, tables
<1>6. CASE PersistRow \/ PersistRowFails
  <2>1. rows' \in [Events -> Results \cup {NoResult}]
    BY <1>6 DEF PersistRow, PersistRowFails, InsertRow, Leave
  <2> QED
    BY <1>6, <2>1 DEF PersistRow, PersistRowFails, Goto, Leave, JSTypeOK, js_vars
<1>7. CASE PublishRow \/ PublishRowFails
  <2>1. pc = "publish" /\ cur \in Events /\ result \in Results
    BY <1>7 DEF PublishRow, PublishRowFails, Goto, Leave
  <2>2. Append(outbox[cur], result) \in Seq(Results)
    BY <2>1, AppendProperties
  <2>3. outbox' \in [Events -> Seq(Results)]
    BY <1>7, <2>2 DEF PublishRow, PublishRowFails, Announce
  <2> QED
    BY <1>7, <2>3 DEF PublishRow, PublishRowFails, Goto, Leave, JSTypeOK, js_vars
<1>8. CASE AckEvent
  BY <1>8 DEF AckEvent, AckArrives, Leave, JSTypeOK, js_vars, tables
<1>9. ASSUME NEW e \in Events, Upstream(e)
      PROVE  AgentTypeOK(Results, Steps)'
  BY <1>9 DEF Upstream, Store, JSTypeOK, agent_vars, tables
<1>10. ASSUME NEW e \in Events, Push(e)
       PROVE  AgentTypeOK(Results, Steps)'
  BY <1>10, DeliverType DEF Push, agent_vars, tables
<1>11. CASE UNCHANGED durable_vars
  BY <1>11 DEF durable_vars, agent_vars, tables, JSTypeOK, js_vars
<1> QED
  BY <1>1, <1>2, <1>3, <1>4, <1>5, <1>6, <1>7, <1>8, <1>9, <1>10, <1>11 DEF AgentNext

(***************************************************************************)
(* The table and what is published from it.                                *)
(***************************************************************************)

\* Nothing is decided, announced or acknowledged at the start.
LEMMA AgentInitDecision ==
  ASSUME AgentInit
  PROVE  DecisionInv
  BY DEF AgentInit, JSInit, DecisionInv, PublishedOnceAsPersisted, AckedArePersisted

\* A step that touches no table and is not about to publish or to ack.
LEMMA DecisionStutter ==
  ASSUME DecisionInv, UNCHANGED <<rows, outbox, acked>>,
         pc' \notin {"publish", "ack"} \/ UNCHANGED <<pc, cur, result>>
  PROVE  DecisionInv'
  BY DEF DecisionInv, PublishedOnceAsPersisted, AckedArePersisted

\* Every step of an agent keeps DecisionInv.
LEMMA AgentStepDecision ==
  ASSUME NEW CONSTANT Results, NEW CONSTANT Steps, OwnSteps(Steps), NoResult \notin Results,
         AgentTypeOK(Results, Steps), DecisionInv,
         AgentNext(Results, Steps) \/ UNCHANGED durable_vars
  PROVE  DecisionInv'
<1> USE DEF OwnSteps
<1>1. CASE StartAgent \/ CrashAgent \/ UNCHANGED durable_vars
  BY <1>1, DecisionStutter
     DEF StartAgent, Subscribe, CrashAgent, LoseQueue, durable_vars, js_vars, agent_vars, tables
<1>2. ASSUME NEW e \in Events, Upstream(e) \/ Push(e)
      PROVE  DecisionInv'
  BY <1>2, DecisionStutter DEF Upstream, Store, Push, Deliver, agent_vars, tables
<1>3. ASSUME NEW to \in Steps \cup {"persist"}, NEW r, TakeUp(to, r)
      PROVE  DecisionInv'
  <2>1. CASE cur' \in Poison
    BY <1>3, <2>1
       DEF TakeUp, TakeHead, DecisionInv, PublishedOnceAsPersisted, AckedArePersisted, tables
  <2>2. CASE cur' \notin Poison
    BY <1>3, <2>2, DecisionStutter DEF TakeUp, TakeHead, tables
  <2> QED
    BY <2>1, <2>2
<1>4. ASSUME NEW from \in Steps, NEW to \in Steps \cup {"persist"}, NEW r,
             Work(from, to, r) \/ WorkFails(from)
      PROVE  DecisionInv'
  BY <1>4, DecisionStutter DEF Work, WorkFails, Goto, Leave, js_vars, tables
<1>5. CASE PersistRow
  <2>1. CASE rows[cur] = NoResult
    <3>1. /\ rows' = [rows EXCEPT ![cur] = result]
          /\ pc' = "publish" /\ result' = result
          /\ UNCHANGED <<cur, outbox, acked>>
      BY <1>5, <2>1 DEF PersistRow, InsertRow, Goto, js_vars
    <3>2. cur \in Events /\ outbox[cur] = <<>> /\ result # NoResult
      BY <1>5, <2>1
         DEF PersistRow, AgentTypeOK, DecisionInv, PublishedOnceAsPersisted
    <3> QED
      BY <3>1, <3>2
         DEF DecisionInv, PublishedOnceAsPersisted, AckedArePersisted, AgentTypeOK
  <2>2. CASE rows[cur] # NoResult
    BY <1>5, <2>2
       DEF PersistRow, InsertRow, Goto, DecisionInv, PublishedOnceAsPersisted,
           AckedArePersisted, js_vars
  <2> QED
    BY <2>1, <2>2
<1>6. CASE PersistRowFails
  <2>1. CASE UNCHANGED rows
    BY <1>6, <2>1, DecisionStutter DEF PersistRowFails, Leave, js_vars
  <2>2. CASE InsertRow
    <3>1. cur \in Events /\ outbox[cur] = <<>> /\ result # NoResult
      BY <1>6, <2>2
         DEF PersistRowFails, InsertRow, Leave, AgentTypeOK, DecisionInv, PublishedOnceAsPersisted
    <3>2. pc' = "idle" /\ UNCHANGED <<outbox, acked>>
      BY <1>6 DEF PersistRowFails, Leave, js_vars
    <3> QED
      BY <2>2, <3>1, <3>2
         DEF InsertRow, DecisionInv, PublishedOnceAsPersisted, AckedArePersisted, AgentTypeOK
  <2> QED
    BY <1>6, <2>1, <2>2 DEF PersistRowFails
<1>7. CASE PublishRow \/ PublishRowFails
  <2>1. /\ cur \in Events /\ rows[cur] = result /\ outbox[cur] = <<>>
        /\ result # NoResult
    BY <1>7 DEF PublishRow, PublishRowFails, Goto, Leave, AgentTypeOK, DecisionInv
  <2>2. /\ UNCHANGED <<rows, acked>>
        /\ pc' = "idle" \/ (pc' = "ack" /\ cur' = cur)
    BY <1>7 DEF PublishRow, PublishRowFails, Goto, Leave, js_vars
  <2>3. CASE outbox' = outbox
    BY <2>1, <2>2, <2>3 DEF DecisionInv, PublishedOnceAsPersisted, AckedArePersisted
  <2>4. CASE Announce(cur, result)
    <3>1. Append(outbox[cur], result) = <<result>>
      BY <2>1
    <3>2. outbox' = [outbox EXCEPT ![cur] = <<result>>]
      BY <2>4, <3>1 DEF Announce
    <3> QED
      BY <2>1, <2>2, <3>2
         DEF DecisionInv, PublishedOnceAsPersisted, AckedArePersisted, AgentTypeOK
  <2> QED
    BY <1>7, <2>3, <2>4 DEF PublishRow, PublishRowFails
<1>8. CASE AckEvent
  BY <1>8
     DEF AckEvent, AckArrives, Leave, DecisionInv, PublishedOnceAsPersisted,
         AckedArePersisted, js_vars, tables
<1> QED
  BY <1>1, <1>2, <1>3, <1>4, <1>5, <1>6, <1>7, <1>8 DEF AgentNext

(***************************************************************************)
(* What a step shows to the rest of the pipeline.                          *)
(***************************************************************************)

Decides(e, Results) ==
  /\ rows[e] = NoResult
  /\ \E r \in Results : rows' = [rows EXCEPT ![e] = r]
  /\ UNCHANGED outbox

Announces(e) ==
  /\ rows[e] # NoResult
  /\ outbox[e] = <<>>
  /\ outbox' = [outbox EXCEPT ![e] = <<rows[e]>>]
  /\ UNCHANGED rows

\* A step changes no table, decides the event in hand for the first time, or
\* announces the decision on it, which was not announced.
LEMMA AgentStepVisible ==
  ASSUME NEW CONSTANT Results, NEW CONSTANT Steps, NoResult \notin Results,
         AgentTypeOK(Results, Steps), DecisionInv,
         AgentNext(Results, Steps) \/ UNCHANGED durable_vars
  PROVE  \/ UNCHANGED tables
         \/ pc # "idle" /\ (Decides(cur, Results) \/ Announces(cur))
<1>1. CASE StartAgent \/ CrashAgent \/ AckEvent \/ UNCHANGED durable_vars
  BY <1>1 DEF StartAgent, CrashAgent, AckEvent, durable_vars
<1>2. ASSUME NEW e \in Events, Upstream(e) \/ Push(e)
      PROVE  UNCHANGED tables
  BY <1>2 DEF Upstream, Push
<1>3. ASSUME NEW from, NEW to, NEW r, TakeUp(to, r) \/ Work(from, to, r) \/ WorkFails(from)
      PROVE  UNCHANGED tables
  BY <1>3 DEF TakeUp, Work, WorkFails
<1>4. CASE PersistRow \/ PersistRowFails
  <2>1. pc = "persist" /\ result \in Results /\ outbox' = outbox
    BY <1>4 DEF PersistRow, PersistRowFails, Leave, AgentTypeOK
  <2>2. CASE UNCHANGED rows
    BY <2>1, <2>2 DEF tables
  <2>3. CASE InsertRow
    BY <2>1, <2>3 DEF InsertRow, Decides
  <2> QED
    BY <1>4, <2>2, <2>3 DEF PersistRow, PersistRowFails
<1>5. CASE PublishRow \/ PublishRowFails
  <2>1. /\ pc = "publish" /\ rows' = rows
        /\ rows[cur] = result /\ result # NoResult /\ outbox[cur] = <<>>
    BY <1>5 DEF PublishRow, PublishRowFails, Goto, Leave, AgentTypeOK, DecisionInv
  <2>2. CASE UNCHANGED outbox
    BY <2>1, <2>2 DEF tables
  <2>3. CASE Announce(cur, result)
    <3>1. Append(outbox[cur], result) = <<rows[cur]>>
      BY <2>1
    <3> QED
      BY <2>1, <2>3, <3>1 DEF Announce, Announces
  <2> QED
    BY <1>5, <2>2, <2>3 DEF PublishRow, PublishRowFails
<1> QED
  BY <1>1, <1>2, <1>3, <1>4, <1>5 DEF AgentNext

(***************************************************************************)
(* The stream: what is queued or in hand is due, and what no delivery will *)
(* bring back stays away.                                                  *)
(***************************************************************************)

Queued == {queue[i].id : i \in DOMAIN queue}

DeliveryInv ==
  /\ pc = "idle" => cur = NoEvent
  /\ pc # "idle" => cur \in due
  /\ Queued \subseteq due
  /\ acked \subseteq due
  /\ \A e \in Events \ due : delivered[e] = 0

\* Nothing is delivered at the start.
LEMMA AgentInitDelivery ==
  ASSUME AgentInit
  PROVE  DeliveryInv /\ Finished = {}
  BY EmptySeq DEF AgentInit, JSInit, DeliveryInv, Queued, Finished

\* What the actions on the queue do to the set of queued events.
LEMMA QueuedTail ==
  ASSUME JSTypeOK, TakeHead
  PROVE  Queued' \subseteq Queued /\ Head(queue).id \in Queued
<1>1. /\ queue \in Seq(Delivery) /\ queue # <<>> /\ queue' = Tail(queue)
  BY DEF JSTypeOK, TakeHead
<1>2. /\ Len(queue) \in Nat \ {0} /\ DOMAIN queue = 1..Len(queue)
      /\ Head(queue) = queue[1]
      /\ DOMAIN Tail(queue) = 1..(Len(queue) - 1)
      /\ \A i \in 1..(Len(queue) - 1) : Tail(queue)[i] = queue[i + 1]
  BY <1>1
<1>3. Head(queue).id \in Queued
  BY <1>2 DEF Queued
<1>4. Queued' \subseteq Queued
  <2> SUFFICES ASSUME NEW i \in DOMAIN queue'
               PROVE  queue'[i].id \in Queued
    BY DEF Queued
  <2>1. i \in 1..(Len(queue) - 1) /\ queue'[i] = queue[i + 1] /\ i + 1 \in DOMAIN queue
    BY <1>1, <1>2
  <2> QED
    BY <2>1 DEF Queued
<1> QED
  BY <1>3, <1>4

\* A delivery queues one event more.
LEMMA QueuedAppend ==
  ASSUME JSTypeOK, NEW e \in Events, Deliver(e)
  PROVE  Queued' = Queued \cup {e}
<1> DEFINE copy == [id |-> e, num |-> delivered[e] + 1]
<1>1. queue \in Seq(Delivery) /\ queue' = Append(queue, copy)
  BY DEF JSTypeOK, Deliver
<1>2. /\ Len(queue) \in Nat /\ DOMAIN queue = 1..Len(queue)
      /\ DOMAIN queue' = 1..(Len(queue) + 1)
      /\ queue'[Len(queue) + 1] = copy
      /\ \A i \in 1..Len(queue) : queue'[i] = queue[i]
  BY <1>1
<1> QED
  BY <1>2 DEF Queued

\* The queue is untouched, or the new event in hand comes from it.
LEMMA DeliveryStutter ==
  ASSUME DeliveryInv, due \subseteq due', Queued' \subseteq Queued,
         UNCHANGED delivered, acked' \subseteq acked \cup due,
         \/ pc' = "idle" /\ cur' = NoEvent
         \/ pc' # "idle" /\ cur' \in due
  PROVE  DeliveryInv'
  BY DEF DeliveryInv

\* Every step of an agent keeps DeliveryInv.
LEMMA AgentStepDelivery ==
  ASSUME NEW CONSTANT Results, NEW CONSTANT Steps, OwnSteps(Steps),
         AgentTypeOK(Results, Steps), DeliveryInv,
         AgentNext(Results, Steps) \/ UNCHANGED durable_vars
  PROVE  DeliveryInv'
<1> USE DEF OwnSteps
<1>1. CASE CrashAgent
  <2>1. Queued' = {}
    BY <1>1, EmptySeq DEF CrashAgent, LoseQueue, Queued
  <2> QED
    BY <1>1, <2>1 DEF CrashAgent, LoseQueue, DeliveryInv
<1>2. ASSUME NEW to \in Steps \cup {"persist"}, NEW r, TakeUp(to, r)
      PROVE  DeliveryInv'
  <2>1. /\ Queued' \subseteq Queued /\ cur' \in Queued
        /\ UNCHANGED <<due, delivered, acked>>
    BY <1>2, QueuedTail DEF TakeUp, TakeHead, AgentTypeOK
  <2>2. pc' # "idle"
    BY <1>2 DEF TakeUp
  <2> QED
    BY <2>1, <2>2, DeliveryStutter DEF DeliveryInv
<1>3. ASSUME NEW e \in Events, Push(e)
      PROVE  DeliveryInv'
  <2>1. Queued' = Queued \cup {e}
    BY <1>3, QueuedAppend DEF Push, AgentTypeOK
  <2>2. /\ e \in due
        /\ \A f \in Events \ {e} : delivered'[f] = delivered[f]
        /\ UNCHANGED <<due, acked, pc, cur>>
    BY <1>3 DEF Push, Deliver, AgentTypeOK, JSTypeOK, agent_vars
  <2> QED
    BY <2>1, <2>2 DEF DeliveryInv
<1>4. ASSUME NEW e \in Events, Upstream(e)
      PROVE  DeliveryInv'
  BY <1>4, DeliveryStutter DEF Upstream, Store, DeliveryInv, Queued, agent_vars
<1>5. CASE StartAgent \/ UNCHANGED durable_vars
  BY <1>5, DeliveryStutter
     DEF StartAgent, Subscribe, durable_vars, js_vars, agent_vars, DeliveryInv, Queued
<1>6. ASSUME NEW from \in Steps, NEW to \in Steps \cup {"persist"}, NEW r,
             Work(from, to, r) \/ WorkFails(from)
      PROVE  DeliveryInv'
  BY <1>6, DeliveryStutter DEF Work, WorkFails, Goto, Leave, js_vars, DeliveryInv, Queued
<1>7. CASE PersistRow \/ PersistRowFails \/ PublishRow \/ PublishRowFails
  BY <1>7, DeliveryStutter
     DEF PersistRow, PersistRowFails, PublishRow, PublishRowFails, Goto, Leave, js_vars,
         DeliveryInv, Queued
<1>8. CASE AckEvent
  BY <1>8, DeliveryStutter
     DEF AckEvent, AckArrives, Leave, js_vars, DeliveryInv, Queued
<1> QED
  BY <1>1, <1>2, <1>3, <1>4, <1>5, <1>6, <1>7, <1>8 DEF AgentNext

\* Finished grows within what is due.
Finishes == Finished \subseteq Finished' /\ Finished' \subseteq due

\* What is finished with is due, and neither queued nor in hand.
LEMMA FinishedIsDue == Finished \subseteq due /\ Finished \cap Queued = {} /\ cur \notin Finished
  BY DEF Finished, Queued

\* An event that is finished with stays so if no copy of it turns up.
LEMMA FinishedStays ==
  ASSUME UNCHANGED due, acked \subseteq acked', Finished \cap Queued' = {},
         cur' \notin Finished,
         \A e \in Finished : delivered'[e] = delivered[e]
  PROVE  Finishes
  BY DEF Finishes, Finished, Queued

\* What a step is for the stages around the agent.
StageStep(Results) ==
  \/ /\ ~consumer /\ consumer' = TRUE
     /\ UNCHANGED <<stream, due, tables, Finished>>
  \/ \E e \in Events :
       /\ e \notin stream
       /\ stream' = stream \cup {e}
       /\ due' = IF consumer THEN due \cup {e} ELSE due
       /\ UNCHANGED <<consumer, tables, Finished>>
  \/ /\ UNCHANGED <<stream, consumer, due>>
     /\ Finishes
     /\ \/ UNCHANGED tables
        \/ \E e \in Events \cap (due \ Finished) : Decides(e, Results) \/ Announces(e)

\* Every step of an agent is such a step: it subscribes, the stage before it
\* announces an event, or the callback decides or announces the event in
\* hand, which is due and not finished with.
LEMMA AgentStepStage ==
  ASSUME NEW CONSTANT Results, NEW CONSTANT Steps, OwnSteps(Steps), NoResult \notin Results,
         AgentTypeOK(Results, Steps), DecisionInv, DeliveryInv,
         AgentNext(Results, Steps) \/ UNCHANGED durable_vars
  PROVE  StageStep(Results)
<1> USE DEF OwnSteps
<1>1. ASSUME UNCHANGED <<stream, consumer, due>>, Finishes
      PROVE  StageStep(Results)
  <2>1. \/ UNCHANGED tables
        \/ pc # "idle" /\ (Decides(cur, Results) \/ Announces(cur))
    BY AgentStepVisible
  <2>2. pc # "idle" => cur \in Events \cap (due \ Finished)
    BY FinishedIsDue DEF DeliveryInv, AgentTypeOK
  <2> QED
    BY <1>1, <2>1, <2>2 DEF StageStep
<1>2. CASE StartAgent
  <2>1. UNCHANGED <<stream, due, tables, Finished>> /\ consumer' = TRUE
    BY <1>2 DEF StartAgent, Subscribe, Finished
  <2>2. CASE consumer
    BY <1>1, <2>1, <2>2, FinishedIsDue DEF AgentTypeOK, JSTypeOK, Finishes
  <2>3. CASE ~consumer
    BY <2>1, <2>3 DEF StageStep
  <2> QED
    BY <2>2, <2>3
<1>3. ASSUME NEW e \in Events, Upstream(e)
      PROVE  StageStep(Results)
  <2>1. /\ e \notin stream
        /\ stream' = stream \cup {e}
        /\ due' = IF consumer THEN due \cup {e} ELSE due
        /\ UNCHANGED <<consumer, tables, acked, delivered, queue, cur>>
    BY <1>3 DEF Upstream, Store, agent_vars
  <2>2. Finished' = Finished
    <3>1. e \notin due /\ e \notin acked /\ delivered[e] = 0
      BY <2>1 DEF AgentTypeOK, JSTypeOK, DeliveryInv
    <3>2. e \notin Finished /\ e \notin Finished'
      BY <2>1, <3>1, MaxDeliverAssumption DEF Finished
    <3> QED
      BY <2>1, <3>2 DEF Finished
  <2> QED
    BY <2>1, <2>2 DEF StageStep
<1>4. CASE CrashAgent
  <2>1. Queued' = {}
    BY <1>4, EmptySeq DEF CrashAgent, LoseQueue, Queued
  <2>2. UNCHANGED <<stream, consumer, due, delivered, acked>> /\ cur' = NoEvent
    BY <1>4 DEF CrashAgent, LoseQueue
  <2>3. cur' \notin Finished
    BY <2>2, AgentAssumption DEF Finished, AgentTypeOK, JSTypeOK
  <2> QED
    BY <1>1, <2>1, <2>2, <2>3, FinishedStays
<1>5. ASSUME NEW to, NEW r, TakeUp(to, r)
      PROVE  StageStep(Results)
  <2>1. Queued' \subseteq Queued /\ cur' \in Queued
    BY <1>5, QueuedTail DEF TakeUp, AgentTypeOK
  <2>2. UNCHANGED <<stream, consumer, due, delivered, acked>>
    BY <1>5 DEF TakeUp, TakeHead
  <2> QED
    BY <1>1, <2>1, <2>2, FinishedStays, FinishedIsDue
<1>6. ASSUME NEW e \in Events, Push(e)
      PROVE  StageStep(Results)
  <2>1. /\ e \in due \ acked /\ delivered[e] < MaxDeliver
        /\ \A f \in Events \ {e} : delivered'[f] = delivered[f]
        /\ UNCHANGED <<stream, consumer, due, acked, cur>>
    BY <1>6 DEF Push, Deliver, AgentTypeOK, JSTypeOK, agent_vars
  <2>2. e \notin Finished
    BY <2>1, MaxDeliverAssumption DEF Finished, AgentTypeOK, JSTypeOK
  <2>3. Queued' = Queued \cup {e}
    BY <1>6, QueuedAppend DEF Push, AgentTypeOK
  <2>4. Finished \subseteq Events
    BY DEF Finished, AgentTypeOK, JSTypeOK
  <2> QED
    BY <1>1, <2>1, <2>2, <2>3, <2>4, FinishedStays, FinishedIsDue
<1>7. ASSUME UNCHANGED <<stream, consumer, due, delivered, queue>>, acked \subseteq acked',
             cur' \in {cur, NoEvent}
      PROVE  StageStep(Results)
  <2>1. cur' \notin Finished
    BY <1>7, FinishedIsDue, AgentAssumption DEF Finished, AgentTypeOK, JSTypeOK
  <2>2. Queued' = Queued
    BY <1>7 DEF Queued
  <2> QED
    BY <1>1, <1>7, <2>1, <2>2, FinishedStays, FinishedIsDue
<1>8. ASSUME NEW from, NEW to, NEW r, Work(from, to, r) \/ WorkFails(from)
      PROVE  StageStep(Results)
  BY <1>7, <1>8 DEF Work, WorkFails, Goto, Leave, js_vars
<1>9. CASE PersistRow \/ PersistRowFails \/ PublishRow \/ PublishRowFails
  BY <1>7, <1>9
     DEF PersistRow, PersistRowFails, PublishRow, PublishRowFails, Goto, Leave, js_vars
<1>10. CASE AckEvent
  BY <1>7, <1>10 DEF AckEvent, AckArrives, Leave, js_vars
<1>11. CASE UNCHANGED durable_vars
  BY <1>7, <1>11 DEF durable_vars, js_vars, agent_vars
<1> QED
  BY <1>2, <1>3, <1>4, <1>5, <1>6, <1>8, <1>9, <1>10, <1>11 DEF AgentNext

\* An agent starts as a stage does.
LEMMA AgentInitStage ==
  ASSUME NEW CONSTANT Results, AgentInit
  PROVE  StageOf(Results)!Init
  BY AgentInitDelivery DEF AgentInit, JSInit, StageOf!Init

\* Such a step is a step of Stage.
LEMMA StageStepIsStep ==
  ASSUME NEW CONSTANT Results, due \subseteq Events, StageStep(Results)
  PROVE  [StageOf(Results)!Next]_(StageOf(Results)!vars)
<1> DEFINE inbox == <<stream, consumer, due>>
<1>1. CASE /\ ~consumer /\ consumer' = TRUE
           /\ UNCHANGED <<stream, due, tables, Finished>>
  BY <1>1 DEF StageOf!Next, StageOf!Subscribe, tables
<1>2. ASSUME NEW e \in Events,
             /\ e \notin stream
             /\ stream' = stream \cup {e}
             /\ due' = IF consumer THEN due \cup {e} ELSE due
             /\ UNCHANGED <<consumer, tables, Finished>>
      PROVE  StageOf(Results)!Next
  <2>1. StageOf(Results)!Store(e)
    BY <1>2 DEF StageOf!Store, tables
  <2> QED
    BY <2>1 DEF StageOf!Next
<1>3. ASSUME UNCHANGED inbox, Finishes
      PROVE  StageOf(Results)!Finish /\ UNCHANGED StageOf(Results)!inbox
  <2>1. Finished' = Finished \cup (Finished' \ Finished)
    BY <1>3 DEF Finishes
  <2>2. Finished' \ Finished \in SUBSET (due \ Finished)
    BY <1>3 DEF Finishes
  <2> QED
    BY <1>3, <2>1, <2>2 DEF StageOf!Finish, StageOf!inbox
<1>4. ASSUME UNCHANGED inbox, Finishes, NEW e \in Events \cap (due \ Finished),
             Decides(e, Results) \/ Announces(e)
      PROVE  StageOf(Results)!Next
  <2>1. StageOf(Results)!Announce(e) \/ \E d \in Results : StageOf(Results)!Decide(e, d)
    BY <1>4 DEF Decides, Announces, StageOf!Announce, StageOf!Decide
  <2>2. StageOf(Results)!Step(e)
    BY <1>3, <1>4, <2>1 DEF StageOf!Step
  <2> QED
    BY <2>2 DEF StageOf!Next
<1>5. CASE UNCHANGED <<inbox, tables>> /\ Finishes
  <2>1. CASE Finished' = Finished
    BY <1>5, <2>1 DEF StageOf!vars, StageOf!inbox, tables
  <2>2. CASE Finished' # Finished
    <3>1. PICK e \in Events : e \in Finished' \ Finished
      BY <1>5, <2>2 DEF Finishes
    <3>2. StageOf(Results)!Step(e)
      BY <1>3, <1>5 DEF StageOf!Step, tables
    <3> QED
      BY <3>2 DEF StageOf!Next
  <2> QED
    BY <2>1, <2>2
<1> QED
  BY <1>1, <1>2, <1>4, <1>5 DEF StageStep
=============================================================================
