--------------------------- MODULE NotifierProofs ---------------------------
(***************************************************************************)
(* The filter of NotifierAgent, for any trades, any minima and any number  *)
(* of deliveries and restarts: what it acknowledges without a message was  *)
(* below a minimum the operator had set, and what it sends was not, unless *)
(* a process started without the table.  The callback looks at the filter  *)
(* when it takes up a delivery, a reload changes it between two awaits, so *)
(* both facts have to be carried by the step the callback is at.  And no   *)
(* crash, lost answer or redelivery makes more messages of a trade than it *)
(* was delivered.                                                          *)
(***************************************************************************)
EXTENDS Notifier, SequenceTheorems, FiniteSetTheorems, TLAPS

(***************************************************************************)
(* Types.                                                                  *)
(***************************************************************************)

\* The callback works for a process that runs, on an event the server knows.
HandInv == pc # "idle" => up /\ cur \in Events

\* A copy of an event enters the queue.
LEMMA PushType ==
  ASSUME JSTypeOK, NEW e \in Events, Deliver(e)
  PROVE  JSTypeOK'
<1>1. delivered[e] + 1 \in 1..MaxDeliver
  BY MaxDeliverAssumption DEF JSTypeOK, Deliver
<1>2. [id |-> e, num |-> delivered[e] + 1] \in Delivery
  BY <1>1 DEF Delivery
<1>3. queue' \in Seq(Delivery)
  BY <1>2, AppendProperties DEF JSTypeOK, Deliver
<1> QED
  BY <1>1, <1>3, MaxDeliverAssumption DEF JSTypeOK, Deliver

\* The oldest copy leaves it.
LEMMA PopType ==
  ASSUME JSTypeOK, TakeHead
  PROVE  JSTypeOK' /\ Head(queue).id \in Events
<1>1. Head(queue) \in Delivery /\ Tail(queue) \in Seq(Delivery)
  BY HeadTailProperties DEF JSTypeOK, TakeHead
<1> QED
  BY <1>1 DEF JSTypeOK, TakeHead, Delivery

\* The types at the start.
LEMMA InitType == Init => TypeOK /\ HandInv
<1> SUFFICES ASSUME Init
             PROVE  TypeOK /\ HandInv
  OBVIOUS
<1>1. JSTypeOK
  <2>1. queue \in Seq(Delivery)
    BY EmptySeq DEF Init, JSInit
  <2>2. delivered \in [Events -> 0..MaxDeliver]
    BY MaxDeliverAssumption DEF Init, JSInit
  <2> QED
    BY <2>1, <2>2 DEF Init, JSInit, JSTypeOK
<1>2. restarts \in 0..(MaxRestarts + 1) /\ chat \in [Events -> Nat]
  BY NotifierAssumption DEF Init
<1> QED
  BY <1>1, <1>2 DEF Init, TypeOK, HandInv

\* Every step keeps the types.
LEMMA StepType == TypeOK /\ HandInv /\ [Next]_vars => (TypeOK /\ HandInv)'
<1> SUFFICES ASSUME TypeOK, HandInv, [Next]_vars
             PROVE  (TypeOK /\ HandInv)'
  OBVIOUS
<1> USE DEF TypeOK, HandInv
<1>1. CASE Start
  <2>1. JSTypeOK'
    BY <1>1 DEF Start, Subscribe, JSTypeOK
  <2>2. restarts' \in 0..(MaxRestarts + 1)
    BY <1>1, NotifierAssumption DEF Start
  <2> QED
    BY <1>1, <2>1, <2>2 DEF Start, callback
<1>2. CASE Crash
  <2>1. JSTypeOK'
    BY <1>2, EmptySeq DEF Crash, LoseQueue, JSTypeOK
  <2> QED
    BY <1>2, <2>1 DEF Crash, history
<1>3. CASE ReadConfig \/ ApplyConfig \/ ReloadFails \/ SetFilter
  BY <1>3 DEF ReadConfig, ApplyConfig, ReloadFails, SetFilter, JSTypeOK, js_vars, callback,
              filter_vars, history
<1>4. CASE Receive
  <2>1. JSTypeOK' /\ cur' \in Events
    BY <1>4, PopType DEF Receive
  <2> QED
    BY <1>4, <2>1 DEF Receive, filter_vars, history
<1>5. CASE Send
  BY <1>5 DEF Send, Leave, JSTypeOK, js_vars, filter_vars, history
<1>6. CASE Answer
  BY <1>6 DEF Answer, Leave, JSTypeOK, js_vars, filter_vars, history
<1>7. CASE Ack
  BY <1>7 DEF Ack, AckArrives, Leave, JSTypeOK, js_vars, filter_vars, history
<1>8. ASSUME NEW e \in Events, WalletTradeDetected(e)
      PROVE  (TypeOK /\ HandInv)'
  BY <1>8 DEF WalletTradeDetected, Store, JSTypeOK, callback, filter_vars, history
<1>9. ASSUME NEW e \in Events, Redeliver(e)
      PROVE  (TypeOK /\ HandInv)'
  BY <1>9, PushType DEF Redeliver, callback, filter_vars, history
<1>10. CASE UNCHANGED vars
  BY <1>10 DEF vars, JSTypeOK, js_vars, callback, filter_vars, history
<1> QED
  BY <1>1, <1>2, <1>3, <1>4, <1>5, <1>6, <1>7, <1>8, <1>9, <1>10 DEF Next, Handle

\* The variables keep their types, for any number of trades and restarts.
THEOREM TypeCorrect == Spec => []TypeOK
<1>1. Spec => [](TypeOK /\ HandInv)
  BY InitType, StepType, PTL DEF Spec
<1> QED
  BY <1>1, PTL

(***************************************************************************)
(* The filter.                                                             *)
(***************************************************************************)

\* The filter in force was in the table at some time, or is the 0 of a
\* process that could not read it; so is the value a reload has in hand.
FilterInv ==
  /\ notifier_config \in ever
  /\ loading \in ever \cup {NoValue}
  /\ min_size_usdc \in ever \cup {0}
  /\ up => min_size_usdc \in ever \/ blind

\* A minimum the operator had set stops e.
Stopped(e) == \E min \in ever : Size[e] < min

\* A minimum the operator had set lets e pass, or none was read.
Allowed(e) == blind \/ \E min \in ever : min <= Size[e]

\* What the step of the callback knows of the delivery in hand.
StepInv ==
  /\ pc \in {"send", "answer"} /\ cur \in Wanted => Allowed(cur)
  /\ pc = "answer" => chat[cur] > 0
  /\ pc = "ack" /\ cur \in Wanted => chat[cur] > 0 \/ Stopped(cur)

QuietInv == FilterInv /\ StepInv /\ NoSilentLoss /\ SmallTradesStayQuiet

\* A step that neither sends, takes up, acknowledges nor starts.
LEMMA QuietStutter ==
  ASSUME TypeOK, HandInv, QuietInv, FilterInv',
         UNCHANGED <<chat, acked, blind>>, ever \subseteq ever',
         pc' = "idle" \/ UNCHANGED <<pc, cur>>
  PROVE  QuietInv'
  BY DEF QuietInv, StepInv, NoSilentLoss, SmallTradesStayQuiet, Stopped, Allowed, Wanted

\* Every step keeps QuietInv.
LEMMA QuietInductive == TypeOK /\ HandInv /\ QuietInv /\ [Next]_vars => QuietInv'
<1> SUFFICES ASSUME TypeOK, HandInv, QuietInv, [Next]_vars
             PROVE  QuietInv'
  OBVIOUS
<1>1. CASE Start
  BY <1>1 DEF Start, Subscribe, QuietInv, FilterInv, StepInv, NoSilentLoss,
              SmallTradesStayQuiet, Stopped, Allowed, callback, TypeOK
<1>2. CASE Crash \/ ReadConfig \/ ApplyConfig \/ ReloadFails \/ SetFilter \/ UNCHANGED vars
  <2>1. /\ UNCHANGED <<chat, acked, blind>> /\ ever \subseteq ever'
        /\ pc' = "idle" \/ UNCHANGED <<pc, cur>>
    BY <1>2 DEF Crash, LoseQueue, ReadConfig, ApplyConfig, ReloadFails, SetFilter, vars,
                js_vars, callback, history
  <2>2. FilterInv'
    BY <1>2, NotifierAssumption
       DEF Crash, ReadConfig, ApplyConfig, ReloadFails, SetFilter, vars, history, filter_vars,
           QuietInv, FilterInv
  <2> QED
    BY <2>1, <2>2, QuietStutter
<1>3. ASSUME NEW e \in Events, WalletTradeDetected(e) \/ Redeliver(e)
      PROVE  QuietInv'
  <2>1. UNCHANGED <<up, chat, acked, blind, ever, callback, notifier_config, filter_vars>>
    BY <1>3 DEF WalletTradeDetected, Store, Redeliver, Deliver, history
  <2>2. FilterInv'
    BY <2>1 DEF QuietInv, FilterInv, filter_vars
  <2> QED
    BY <2>1, <2>2, QuietStutter DEF callback
<1>4. CASE Receive
  <2>1. /\ up /\ cur' \in Events
        /\ pc' = IF Dropped(cur') THEN "ack" ELSE "send"
        /\ UNCHANGED <<up, chat, acked, notifier_config, filter_vars, history>>
    BY <1>4, PopType DEF Receive, TakeHead, TypeOK
  <2>2. FilterInv'
    BY <2>1 DEF QuietInv, FilterInv, filter_vars, history
  <2>3. Size[cur'] \in Nat /\ min_size_usdc \in Nat
    BY <2>1, NotifierAssumption DEF TypeOK
  <2>4. CASE Dropped(cur') /\ cur' \in Wanted
    <3>1. Size[cur'] < min_size_usdc
      BY <2>4 DEF Dropped, Wanted
    <3>2. min_size_usdc \in ever
      BY <2>3, <3>1 DEF QuietInv, FilterInv
    <3>3. Stopped(cur)'
      BY <2>1, <3>1, <3>2 DEF Stopped, history
    <3> QED
      BY <2>1, <2>2, <2>4, <3>3
         DEF QuietInv, StepInv, NoSilentLoss, SmallTradesStayQuiet, Allowed, history, Wanted
  <2>5. CASE ~Dropped(cur')
    <3>1. min_size_usdc <= Size[cur']
      BY <2>3, <2>5 DEF Dropped
    <3>2. Allowed(cur)'
      BY <2>1, <3>1 DEF QuietInv, FilterInv, Allowed, history
    <3> QED
      BY <2>1, <2>2, <2>5, <3>2
         DEF QuietInv, StepInv, NoSilentLoss, SmallTradesStayQuiet, history, Wanted
  <2>6. CASE Dropped(cur') /\ cur' \notin Wanted
    BY <2>1, <2>2, <2>6
       DEF QuietInv, StepInv, NoSilentLoss, SmallTradesStayQuiet, history, Wanted
  <2> QED
    BY <2>4, <2>5, <2>6
<1>5. CASE Send
  <2>1. /\ pc = "send" /\ cur \in Events
        /\ UNCHANGED <<up, acked, notifier_config, filter_vars, history>>
    BY <1>5 DEF Send, HandInv, js_vars
  <2>2. FilterInv'
    BY <2>1 DEF QuietInv, FilterInv, filter_vars, history
  <2>3. CASE Leave /\ UNCHANGED chat
    BY <2>1, <2>2, <2>3, QuietStutter DEF Leave, history
  <2>4. CASE /\ chat' = [chat EXCEPT ![cur] = @ + 1]
             /\ pc' = "answer"
             /\ UNCHANGED cur
    <3>1. /\ \A e \in Events : chat[e] \in Nat /\ chat'[e] \in Nat
          /\ \A e \in Events : chat[e] > 0 => chat'[e] > 0
          /\ chat'[cur] > 0
          /\ \A e \in Events : e # cur => chat'[e] = chat[e]
      BY <2>1, <2>4 DEF TypeOK
    <3>2. cur \in Wanted => Allowed(cur)
      BY <2>1 DEF QuietInv, StepInv
    <3>3. NoSilentLoss'
      BY <2>1, <3>1 DEF QuietInv, NoSilentLoss, history, Wanted
    <3>4. SmallTradesStayQuiet'
      BY <2>1, <3>1, <3>2 DEF QuietInv, SmallTradesStayQuiet, history, Wanted, Allowed
    <3>5. StepInv'
      BY <2>1, <2>4, <3>1, <3>2 DEF StepInv, history, Wanted, Allowed
    <3> QED
      BY <2>2, <3>3, <3>4, <3>5 DEF QuietInv
  <2> QED
    BY <1>5, <2>3, <2>4 DEF Send
<1>6. CASE Answer
  <2>1. /\ UNCHANGED <<up, chat, acked, notifier_config, filter_vars, history>>
        /\ pc = "answer"
        /\ (pc' = "ack" /\ cur' = cur) \/ pc' = "idle"
    BY <1>6 DEF Answer, Leave, js_vars
  <2>2. FilterInv'
    BY <2>1 DEF QuietInv, FilterInv, filter_vars, history
  <2> QED
    BY <2>1, <2>2
       DEF QuietInv, StepInv, NoSilentLoss, SmallTradesStayQuiet, Stopped, Allowed, history, Wanted
<1>7. CASE Ack
  <2>1. /\ UNCHANGED <<up, chat, notifier_config, filter_vars, history>>
        /\ pc = "ack" /\ pc' = "idle"
        /\ acked' \subseteq acked \cup {cur}
    BY <1>7 DEF Ack, AckArrives, Leave, js_vars
  <2>2. FilterInv'
    BY <2>1 DEF QuietInv, FilterInv, filter_vars, history
  <2> QED
    BY <2>1, <2>2
       DEF QuietInv, StepInv, NoSilentLoss, SmallTradesStayQuiet, Stopped, Allowed, history, Wanted
<1> QED
  BY <1>1, <1>2, <1>3, <1>4, <1>5, <1>6, <1>7 DEF Next, Handle

\* The filter's facts hold at the start.
LEMMA QuietInit == Init => QuietInv
  BY DEF Init, JSInit, QuietInv, FilterInv, StepInv, NoSilentLoss, SmallTradesStayQuiet, Wanted

\* A trade is acknowledged without a message only because of its payload, its
\* wallet or a minimum the operator had set, whenever the filter is reloaded.
THEOREM LossIsChosen == Spec => []NoSilentLoss
<1>1. QuietInv => NoSilentLoss
  BY DEF QuietInv
<1> QED
  BY <1>1, InitType, StepType, QuietInit, QuietInductive, PTL DEF Spec

\* The chat gets no trade below every minimum the operator ever set, unless
\* a process started without the table.
THEOREM FilterIsKept == Spec => []SmallTradesStayQuiet
<1>1. QuietInv => SmallTradesStayQuiet
  BY DEF QuietInv
<1> QED
  BY <1>1, InitType, StepType, QuietInit, QuietInductive, PTL DEF Spec

(***************************************************************************)
(* Messages and deliveries.                                                *)
(***************************************************************************)

Copies(e) == {i \in 1..Len(queue) : queue[i].id = e}

\* The delivery in hand may still become a message.
Unsent(e) == IF cur = e /\ pc = "send" THEN 1 ELSE 0

\* Every delivery of a trade is spent on one copy in the queue, on the one in
\* hand before it is sent, or on one message.
CountInv ==
  \A e \in Events : chat[e] + Cardinality(Copies(e)) + Unsent(e) <= delivered[e]

\* The counts are natural numbers.
LEMMA Countable ==
  ASSUME TypeOK, NEW e \in Events
  PROVE  /\ IsFiniteSet(Copies(e)) /\ Cardinality(Copies(e)) \in Nat
         /\ chat[e] \in Nat /\ delivered[e] \in Nat /\ Unsent(e) \in Nat
<1>1. Len(queue) \in Nat
  BY LenProperties DEF TypeOK, JSTypeOK
<1>2. Copies(e) \in SUBSET (1..Len(queue)) /\ IsFiniteSet(1..Len(queue))
  BY <1>1, FS_Interval DEF Copies
<1>3. IsFiniteSet(Copies(e)) /\ Cardinality(Copies(e)) \in Nat
  BY <1>2, FS_Subset, FS_CardinalityType
<1> QED
  BY <1>3, MaxDeliverAssumption DEF TypeOK, JSTypeOK, Unsent

\* The callback takes one copy from the queue.
LEMMA CopiesTaken ==
  ASSUME TypeOK, TakeHead, NEW e \in Events
  PROVE  /\ Cardinality(Copies(e)') \in Nat
         /\ Cardinality(Copies(e)') + (IF Head(queue).id = e THEN 1 ELSE 0)
              <= Cardinality(Copies(e))
<1> DEFINE head == IF Head(queue).id = e THEN {1} ELSE {}
           shift == [i \in Copies(e)' |-> i + 1]
<1>1. queue \in Seq(Delivery) /\ queue # <<>> /\ queue' = Tail(queue)
  BY DEF TypeOK, JSTypeOK, TakeHead
<1>2. /\ Len(queue) \in Nat \ {0} /\ Head(queue) = queue[1]
      /\ Len(queue') = Len(queue) - 1
      /\ \A i \in 1..(Len(queue) - 1) : queue'[i] = queue[i + 1]
  BY <1>1
<1>3. \A i \in Copies(e)' : i \in Nat /\ i + 1 \in Copies(e) \ head
  BY <1>2 DEF Copies
<1>4. head \subseteq Copies(e)
  BY <1>2 DEF Copies
<1>5. shift \in Injection(Copies(e)', Copies(e) \ head)
  <2> HIDE DEF head
  <2>1. shift \in [Copies(e)' -> Copies(e) \ head]
    BY <1>3
  <2>2. \A i, j \in Copies(e)' : shift[i] = shift[j] => i = j
    BY <1>3
  <2> QED
    BY <2>1, <2>2 DEF Injection, IsInjective
<1>6. /\ IsFiniteSet(Copies(e) \ head)
      /\ Cardinality(Copies(e) \ head)
           = Cardinality(Copies(e)) - (IF Head(queue).id = e THEN 1 ELSE 0)
  <2>1. CASE Head(queue).id = e
    BY <1>4, <2>1, Countable, FS_RemoveElement
  <2>2. CASE Head(queue).id # e
    <3>1. Copies(e) \ head = Copies(e)
      BY <2>2
    <3> QED
      BY <2>2, <3>1, Countable
  <2> QED
    BY <2>1, <2>2
<1>7. Cardinality(Copies(e)') <= Cardinality(Copies(e) \ head)
  BY <1>5, <1>6, FS_Injection
<1>8. Cardinality(Copies(e)') \in Nat
  BY <1>5, <1>6, FS_Injection, FS_CardinalityType
<1> QED
  BY <1>6, <1>7, <1>8, Countable

\* A delivery queues one copy.
LEMMA CopiesDelivered ==
  ASSUME TypeOK, NEW d \in Events, Deliver(d), NEW e \in Events
  PROVE  /\ Cardinality(Copies(e)') = Cardinality(Copies(e)) + (IF d = e THEN 1 ELSE 0)
         /\ delivered'[e] = delivered[e] + (IF d = e THEN 1 ELSE 0)
<1> DEFINE n == Len(queue) + 1
<1>1. /\ queue \in Seq(Delivery)
      /\ queue' = Append(queue, [id |-> d, num |-> delivered[d] + 1])
  BY DEF TypeOK, JSTypeOK, Deliver
<1>2. /\ Len(queue) \in Nat /\ Len(queue') = n
      /\ queue'[n].id = d
      /\ \A i \in 1..Len(queue) : queue'[i] = queue[i]
  BY <1>1
<1>3. n \notin Copies(e) /\ Copies(e)' = IF d = e THEN Copies(e) \cup {n} ELSE Copies(e)
  BY <1>2 DEF Copies
<1>4. Cardinality(Copies(e) \cup {n}) = Cardinality(Copies(e)) + 1
  BY <1>3, Countable, FS_AddElement
<1>5. Cardinality(Copies(e)') = Cardinality(Copies(e)) + (IF d = e THEN 1 ELSE 0)
  <2>1. CASE d = e
    BY <1>3, <1>4, <2>1
  <2>2. CASE d # e
    BY <1>3, <2>2, Countable
  <2> QED
    BY <2>1, <2>2
<1>6. delivered'[e] = delivered[e] + (IF d = e THEN 1 ELSE 0)
  BY Countable DEF Deliver, TypeOK, JSTypeOK
<1> QED
  BY <1>5, <1>6

\* A step that neither delivers nor sends, and takes up nothing.
LEMMA CountStutter ==
  ASSUME TypeOK, CountInv, UNCHANGED <<queue, delivered, chat>>,
         pc' # "send" \/ UNCHANGED <<pc, cur>>
  PROVE  CountInv'
<1> SUFFICES ASSUME NEW e \in Events
             PROVE  chat'[e] + Cardinality(Copies(e)') + Unsent(e)' <= delivered'[e]
  BY DEF CountInv
<1>1. Copies(e)' = Copies(e) /\ (Unsent(e)' = Unsent(e) \/ Unsent(e)' = 0)
  BY DEF Copies, Unsent
<1>2. chat[e] + Cardinality(Copies(e)) + Unsent(e) <= delivered[e]
  BY DEF CountInv
<1> QED
  BY <1>1, <1>2, Countable

\* Every step keeps CountInv.
LEMMA CountInductive == TypeOK /\ HandInv /\ CountInv /\ [Next]_vars => CountInv'
<1> SUFFICES ASSUME TypeOK, HandInv, CountInv, [Next]_vars
             PROVE  CountInv'
  OBVIOUS
<1>1. CASE \/ Start \/ ReadConfig \/ ApplyConfig \/ ReloadFails \/ SetFilter \/ UNCHANGED vars
           \/ \E e \in Events : WalletTradeDetected(e)
  <2>1. UNCHANGED <<queue, delivered, chat, pc, cur>>
    BY <1>1 DEF Start, Subscribe, ReadConfig, ApplyConfig, ReloadFails, SetFilter,
                WalletTradeDetected, Store, vars, js_vars, callback
  <2> QED
    BY <2>1, CountStutter
<1>2. CASE Answer \/ Ack
  <2>1. UNCHANGED <<queue, delivered, chat>> /\ pc' # "send"
    BY <1>2 DEF Answer, Ack, AckArrives, Leave, js_vars
  <2> QED
    BY <2>1, CountStutter
<1>3. CASE Crash
  <2>1. queue' = <<>> /\ pc' = "idle" /\ UNCHANGED <<delivered, chat>>
    BY <1>3 DEF Crash, LoseQueue
  <2> SUFFICES ASSUME NEW e \in Events
               PROVE  chat'[e] + Cardinality(Copies(e)') + Unsent(e)' <= delivered'[e]
    BY DEF CountInv
  <2>2. Copies(e)' = {} /\ Unsent(e)' = 0
    BY <2>1 DEF Copies, Unsent
  <2>3. chat[e] + Cardinality(Copies(e)) + Unsent(e) <= delivered[e]
    BY DEF CountInv
  <2>4. Cardinality(Copies(e)') = 0
    BY <2>2, FS_EmptySet
  <2> QED
    BY <2>1, <2>2, <2>3, <2>4, Countable
<1>4. CASE Receive
  <2>1. /\ TakeHead /\ cur' = Head(queue).id /\ pc = "idle"
        /\ UNCHANGED <<delivered, chat>>
    BY <1>4 DEF Receive, TakeHead
  <2> SUFFICES ASSUME NEW e \in Events
               PROVE  chat'[e] + Cardinality(Copies(e)') + Unsent(e)' <= delivered'[e]
    BY DEF CountInv
  <2>2. Cardinality(Copies(e)') + (IF Head(queue).id = e THEN 1 ELSE 0) <= Cardinality(Copies(e))
    BY <2>1, CopiesTaken
  <2>3. Unsent(e) = 0 /\ Unsent(e)' <= (IF Head(queue).id = e THEN 1 ELSE 0)
    BY <2>1 DEF Unsent
  <2>4. chat[e] + Cardinality(Copies(e)) + Unsent(e) <= delivered[e]
    BY DEF CountInv
  <2>5. Cardinality(Copies(e)') \in Nat /\ Unsent(e)' \in Nat
    BY <2>1, CopiesTaken DEF Unsent
  <2> QED
    BY <2>1, <2>2, <2>3, <2>4, <2>5, Countable
<1>5. CASE Send
  <2>1. UNCHANGED <<queue, delivered>> /\ pc = "send" /\ cur \in Events
    BY <1>5 DEF Send, js_vars, HandInv
  <2>2. CASE Leave /\ UNCHANGED chat
    BY <2>1, <2>2, CountStutter DEF Leave
  <2>3. CASE chat' = [chat EXCEPT ![cur] = @ + 1] /\ pc' = "answer"
    <3> SUFFICES ASSUME NEW e \in Events
                 PROVE  chat'[e] + Cardinality(Copies(e)') + Unsent(e)' <= delivered'[e]
      BY DEF CountInv
    <3>1. chat'[e] = chat[e] + Unsent(e) /\ Unsent(e)' = 0 /\ Copies(e)' = Copies(e)
      BY <2>1, <2>3, Countable DEF TypeOK, Unsent, Copies
    <3>2. chat[e] + Cardinality(Copies(e)) + Unsent(e) <= delivered[e]
      BY DEF CountInv
    <3> QED
      BY <2>1, <3>1, <3>2, Countable
  <2> QED
    BY <1>5, <2>2, <2>3 DEF Send
<1>6. ASSUME NEW d \in Events, Redeliver(d)
      PROVE  CountInv'
  <2>1. Deliver(d) /\ UNCHANGED <<chat, pc, cur>>
    BY <1>6 DEF Redeliver, callback
  <2> SUFFICES ASSUME NEW e \in Events
               PROVE  chat'[e] + Cardinality(Copies(e)') + Unsent(e)' <= delivered'[e]
    BY DEF CountInv
  <2>2. Unsent(e)' = Unsent(e)
    BY <2>1 DEF Unsent
  <2>3. /\ Cardinality(Copies(e)') = Cardinality(Copies(e)) + (IF d = e THEN 1 ELSE 0)
        /\ delivered'[e] = delivered[e] + (IF d = e THEN 1 ELSE 0)
    BY <2>1, CopiesDelivered
  <2>4. chat[e] + Cardinality(Copies(e)) + Unsent(e) <= delivered[e]
    BY DEF CountInv
  <2> QED
    BY <2>1, <2>2, <2>3, <2>4, Countable
<1> QED
  BY <1>1, <1>2, <1>3, <1>4, <1>5, <1>6 DEF Next, Handle

\* The chat may get a trade twice, but never more often than the server
\* delivered it, for any number of deliveries, crashes and lost answers.
THEOREM MessagesAreDelivered == Spec => []OneMessagePerDelivery
<1>1. Init => CountInv
  <2> SUFFICES ASSUME Init, NEW e \in Events
               PROVE  chat[e] + Cardinality(Copies(e)) + Unsent(e) <= delivered[e]
    BY DEF CountInv
  <2>1. Copies(e) = {} /\ Unsent(e) = 0 /\ chat[e] = 0 /\ delivered[e] = 0
    BY DEF Init, JSInit, Copies, Unsent
  <2> QED
    BY <2>1, FS_EmptySet
<1>2. TypeOK /\ CountInv => OneMessagePerDelivery
  <2> SUFFICES ASSUME TypeOK, CountInv, NEW e \in Events
               PROVE  chat[e] + Cardinality(Copies(e)) <= delivered[e]
    BY DEF OneMessagePerDelivery, Copies
  <2>1. chat[e] + Cardinality(Copies(e)) + Unsent(e) <= delivered[e]
    BY DEF CountInv
  <2> QED
    BY <2>1, Countable
<1> QED
  BY <1>1, <1>2, InitType, StepType, CountInductive, PTL DEF Spec
=============================================================================
