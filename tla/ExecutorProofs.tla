--------------------------- MODULE ExecutorProofs ---------------------------
(***************************************************************************)
(* Proofs about Executor, for every set of events and every value of the   *)
(* limits, checked by TLAPS.                                               *)
(***************************************************************************)
EXTENDS Executor, DurableAgentProofs, FiniteSetTheorems

(***************************************************************************)
(* The operators of KillSwitch.                                            *)
(***************************************************************************)

\* A non-empty set of naturals has a least element.
LEMMA LeastNatural ==
  ASSUME NEW S \in SUBSET Nat, S # {}
  PROVE  \E x \in S : \A y \in S : x <= y
<1> DEFINE R == OpToRel(<, Nat)
<1>1. IsWellFoundedOn(R, Nat)
  BY NatLessThanWellFounded
<1>2. \A n, m \in Nat : <<n, m>> \in R <=> n < m
  BY DEF OpToRel
<1> HIDE DEF R
<1>3. PICK x \in S : \A y \in S : ~ (<<y, x>> \in R)
  BY <1>1, WFMin
<1>4. ASSUME NEW y \in S
      PROVE  x <= y
  <2>1. x \in Nat /\ y \in Nat
    OBVIOUS
  <2>2. ~ (y < x)
    BY <1>2, <1>3, <2>1
  <2> QED
    BY <2>1, <2>2
<1> QED
  BY <1>4

\* Eviction keeps recorded trades, never more than there were.
LEMMA EvictedType ==
  ASSUME NEW trades \in Seq(RecordedTrade)
  PROVE  /\ Evicted(trades) \in Seq(RecordedTrade)
         /\ Len(Evicted(trades)) <= Len(trades)
<1>1. CASE InWindow(trades) = {}
  BY <1>1, EmptySeq DEF Evicted
<1>2. CASE InWindow(trades) # {}
  <2> DEFINE first == CHOOSE i \in InWindow(trades) :
                         \A j \in InWindow(trades) : i <= j
  <2>1. InWindow(trades) \in SUBSET Nat
    BY DEF InWindow
  <2>2. first \in InWindow(trades)
    BY <1>2, <2>1, LeastNatural
  <2>3. first \in 1..Len(trades)
    BY <2>2 DEF InWindow
  <2>4. \A i \in first..Len(trades) : trades[i] \in RecordedTrade
    BY <2>3, ElementOfSeq
  <2>5. /\ SubSeq(trades, first, Len(trades)) \in Seq(RecordedTrade)
        /\ Len(SubSeq(trades, first, Len(trades))) <= Len(trades)
    BY <2>3, <2>4, SubSeqProperties
  <2> QED
    BY <1>2, <2>5 DEF Evicted
<1> QED
  BY <1>1, <1>2

\* Time changes nothing in a sequence but ages, which stay in their range.
LEMMA AgedTrades ==
  ASSUME NEW trades \in Seq(RecordedTrade)
  PROVE  Aged(trades) \in Seq(RecordedTrade) /\ Len(Aged(trades)) = Len(trades)
<1>1. ASSUME NEW t \in RecordedTrade
      PROVE  Older(t) \in RecordedTrade
  BY KillSwitchAssumption DEF Older, RecordedTrade
<1>2. \A i \in 1..Len(trades) : trades[i] \in RecordedTrade
  BY ElementOfSeq
<1> QED
  BY <1>1, <1>2 DEF Aged

\* Time changes nothing in the fills but their ages.
LEMMA AgedFills ==
  ASSUME NEW fs \in Seq(Fill)
  PROVE  /\ Aged(fs) \in Seq(Fill)
         /\ Len(Aged(fs)) = Len(fs)
         /\ \A i \in 1..Len(fs) : /\ Aged(fs)[i].event = fs[i].event
                                  /\ Aged(fs)[i].unseen = fs[i].unseen
<1>1. ASSUME NEW f \in Fill
      PROVE  /\ Older(f) \in Fill
             /\ Older(f).event = f.event
             /\ Older(f).unseen = f.unseen
  BY KillSwitchAssumption DEF Older, Fill
<1>2. \A i \in 1..Len(fs) : fs[i] \in Fill
  BY ElementOfSeq
<1> QED
  BY <1>1, <1>2 DEF Aged

\* When a layer blocks, the reason is the one of a layer.
LEMMA BlockReasonType ==
  ASSUME NEW trades, NEW size, ~Passes(trades, size)
  PROVE  BlockReason(trades, size) \in {BlockReasons[i] : i \in 1..5}
<1> DEFINE B(i) == Blocks(i, trades, size)
           first(i) == B(i) /\ \A j \in 1..(i - 1) : ~B(j)
<1>1. \E i \in 1..5 : B(i)
  BY DEF Passes
<1> HIDE DEF B
<1>2. \E i \in 1..5 : first(i)
  BY <1>1
<1>3. (CHOOSE i \in 1..5 : first(i)) \in 1..5
  BY <1>2
<1> QED
  BY <1>3 DEF BlockReason, B

\* What a passed check guarantees about the layers.
LEMMA PassesMeans ==
  ASSUME NEW trades \in Seq(RecordedTrade), NEW size \in Nat, Passes(trades, size),
         consecutive_failures \in Nat
  PROVE  /\ ~pause_file
         /\ consecutive_failures < CircuitBreakerFailures
         /\ Len(trades) < DailyMaxTrades
<1>1. /\ ~Blocks(1, trades, size)
      /\ ~Blocks(2, trades, size)
      /\ ~Blocks(3, trades, size)
  BY DEF Passes
<1> QED
  BY <1>1, KillSwitchAssumption DEF Blocks

(***************************************************************************)
(* The agent is a DurableAgent.                                            *)
(***************************************************************************)

\* The executor's steps are none of the skeleton's.
LEMMA StepsAreOwn == OwnSteps(Steps)
  BY DEF OwnSteps, Steps

\* A step of the callback's own work, in the form of AgentNext.
LEMMA WorkIsAgentStep ==
  ASSUME NEW from \in Steps, NEW to \in Steps \cup {"persist"}, NEW r \in Outcome \cup {NoResult},
         to = "persist" => r \in Outcome, Work(from, to, r)
  PROVE  AgentNext(Outcome, Steps)
  BY DEF AgentNext, Steps

\* Every failure the executor names is an outcome.
LEMMA FailuresAreOutcomes ==
  ClobErrors \cup {BlockReasons[i] : i \in 1..5} \cup {"EXECUTOR_DISABLED", "executed", "dry_run"}
    \subseteq Outcome
  BY ExecutorAssumption DEF Outcome, FailureReason

\* A failure of the exchange is a step of the skeleton.
LEMMA ClobErrorIsAgentStep ==
  ASSUME NEW from \in Steps, ClobError(from)
  PROVE  AgentNext(Outcome, Steps)
<1>1. PICK reason \in ClobErrors : Work(from, "persist", reason)
  BY DEF ClobError
<1> QED
  BY <1>1, FailuresAreOutcomes, WorkIsAgentStep

\* Whatever the executor does is a step of the skeleton or leaves it alone.
LEMMA NextIsAgentStep ==
  ASSUME [Next]_vars
  PROVE  AgentNext(Outcome, Steps) \/ UNCHANGED durable_vars
<1> USE DEF Steps
<1>1. CASE Start \/ Crash
  BY <1>1 DEF Start, Crash, AgentNext
<1>2. CASE Tick \/ TogglePause \/ UNCHANGED vars
  BY <1>2 DEF Tick, TogglePause, vars
<1>3. ASSUME NEW e \in Events, OrderSized(e) \/ Redeliver(e)
      PROVE  AgentNext(Outcome, Steps)
  BY <1>3 DEF OrderSized, Redeliver, AgentNext
<1>4. CASE Receive
  BY <1>4 DEF Receive, AgentNext
<1>5. CASE FetchBook
  BY <1>5, WorkIsAgentStep, FailuresAreOutcomes DEF FetchBook, DryRun, Quote
<1>6. CASE CheckKillSwitch
  <2> DEFINE trades == Evicted(trades_24h)
             reason == BlockReason(trades, Size[cur])
  <2>1. CASE ~Passes(trades, Size[cur])
    <3>1. reason \in Outcome
      BY <2>1, BlockReasonType, FailuresAreOutcomes
    <3>2. Work("check", "persist", reason)
      BY <1>6, <2>1 DEF CheckKillSwitch
    <3> HIDE DEF reason
    <3> QED
      BY <3>1, <3>2, WorkIsAgentStep
  <2>2. CASE Passes(trades, Size[cur])
    <3>1. Work("check", "persist", "EXECUTOR_DISABLED") \/ Work("check", "create", NoResult)
      BY <1>6, <2>2 DEF CheckKillSwitch
    <3> QED
      BY <3>1, WorkIsAgentStep, FailuresAreOutcomes
  <2> QED
    BY <2>1, <2>2
<1>7. CASE CreateOrder
  BY <1>7, WorkIsAgentStep, ClobErrorIsAgentStep DEF CreateOrder
<1>8. CASE PostOrder
  BY <1>8, WorkIsAgentStep, ClobErrorIsAgentStep DEF PostOrder, Accept
<1>9. CASE AnswerAccepted
  BY <1>9, WorkIsAgentStep, ClobErrorIsAgentStep, FailuresAreOutcomes DEF AnswerAccepted
<1>10. CASE AnswerRejected
  <2>1. "CLOB_REJECTED_ORDER" \in Outcome
    BY DEF Outcome, FailureReason, ClobErrorReasons
  <2> QED
    BY <1>10, <2>1, WorkIsAgentStep, ClobErrorIsAgentStep DEF AnswerRejected
<1>11. CASE Persist \/ PersistFails \/ PublishResult \/ PublishFails \/ Ack
  BY <1>11 DEF Persist, PersistFails, PublishResult, PublishFails, Ack, AgentNext
<1> QED
  BY <1>1, <1>2, <1>3, <1>4, <1>5, <1>6, <1>7, <1>8, <1>9, <1>10, <1>11 DEF Next, Handle

(***************************************************************************)
(* Type correctness.                                                       *)
(***************************************************************************)

\* The records of KillSwitch keep its type.
LEMMA RecordType ==
  ASSUME KSTypeOK, NEW size \in Nat, RecordSuccess(size) \/ RecordFailure
  PROVE  KSTypeOK'
<1>1. [age |-> 0, size |-> size] \in RecordedTrade
  BY KillSwitchAssumption DEF RecordedTrade
<1>2. CASE RecordSuccess(size)
  BY <1>1, <1>2, AppendProperties DEF RecordSuccess, KSTypeOK
<1>3. CASE RecordFailure
  BY <1>3 DEF RecordFailure, KSTypeOK
<1> QED
  BY <1>2, <1>3

\* An order is in hand whenever the callback is at a step of its own.
LEMMA InHand ==
  ASSUME TypeOK, pc # "idle"
  PROVE  cur \in Events /\ Size[cur] \in Nat
  BY ExecutorAssumption DEF TypeOK, AgentTypeOK

\* The variables that are not those of the skeleton.
OwnTypeOK ==
  /\ KSTypeOK
  /\ dry_run \in BOOLEAN
  /\ fills \in Seq(Fill)
  /\ in_pause \in Nat
  /\ ticks \in Nat
  /\ toggles \in Nat

\* Every step keeps the types of the executor's own variables.
LEMMA OwnTypeStep ==
  ASSUME TypeOK, [Next]_vars
  PROVE  OwnTypeOK'
<1> USE DEF TypeOK, OwnTypeOK
<1>1. CASE Start
  BY <1>1, EmptySeq, ExecutorAssumption
     DEF Start, KSReset, Settings, KSTypeOK, exchange, env_vars
<1>2. CASE \/ Crash \/ Receive \/ FetchBook \/ UNCHANGED vars
           \/ Persist \/ PersistFails \/ PublishResult \/ PublishFails \/ Ack
  BY <1>2
     DEF Crash, Receive, FetchBook, Persist, PersistFails, PublishResult, PublishFails, Ack,
         vars, ks_vars, exchange, env_vars, KSTypeOK
<1>3. ASSUME NEW e \in Events, OrderSized(e) \/ Redeliver(e)
      PROVE  OwnTypeOK'
  BY <1>3 DEF OrderSized, Redeliver, ks_vars, exchange, env_vars, KSTypeOK
<1>4. CASE CheckKillSwitch
  BY <1>4, EvictedType DEF CheckKillSwitch, KSTypeOK, exchange, env_vars
<1>5. CASE CreateOrder \/ AnswerRejected
  <2>1. UNCHANGED ks_vars \/ RecordFailure
    BY <1>5 DEF CreateOrder, AnswerRejected, ClobError
  <2> QED
    BY <1>5, <2>1
       DEF CreateOrder, AnswerRejected, RecordFailure, ks_vars, exchange, env_vars, KSTypeOK
<1>6. CASE PostOrder
  <2>1. CASE ~Accept
    <3>1. (UNCHANGED ks_vars \/ RecordFailure) /\ UNCHANGED exchange
      BY <1>6, <2>1 DEF PostOrder, ClobError
    <3> QED
      BY <1>6, <3>1 DEF PostOrder, RecordFailure, ks_vars, exchange, env_vars, KSTypeOK
  <2>2. CASE Accept
    <3>1. [event |-> cur, age |-> 0, unseen |-> FALSE] \in Fill
      BY <2>2, InHand, KillSwitchAssumption DEF Fill, Accept, Work, Goto, AgentTypeOK
    <3>2. fills' \in Seq(Fill)
      BY <2>2, <3>1, AppendProperties DEF Accept
    <3> QED
      BY <1>6, <2>2, <3>2 DEF PostOrder, Accept, ks_vars, env_vars, KSTypeOK
  <2> QED
    BY <2>1, <2>2
<1>7. CASE AnswerAccepted
  <2>1. CASE RecordSuccess(Size[cur]) /\ UNCHANGED fills
    <3>1. Size[cur] \in Nat
      BY <1>7, InHand DEF AnswerAccepted, ClobError, Work, Goto
    <3> QED
      BY <1>7, <2>1, <3>1, RecordType DEF AnswerAccepted, env_vars
  <2>2. CASE /\ ClobError("accepted")
             /\ fills' = [fills EXCEPT ![Len(fills)] = Missed(@)]
    <3>1. \A f \in Fill : Missed(f) \in Fill
      BY DEF Fill, Missed
    <3>2. \A i \in 1..Len(fills) : fills[i] \in Fill /\ Missed(fills[i]) \in Fill
      BY <3>1, ElementOfSeq
    <3>3. fills' \in [1..Len(fills) -> Fill]
      BY <2>2, <3>2, LenProperties
    <3>4. fills' \in Seq(Fill)
      BY <3>3, LenProperties
    <3>5. KSTypeOK'
      BY <2>2, RecordType DEF ClobError
    <3> QED
      BY <1>7, <3>4, <3>5 DEF AnswerAccepted, env_vars
  <2> QED
    BY <1>7, <2>1, <2>2 DEF AnswerAccepted
<1>8. CASE Tick
  BY <1>8, AgedTrades, AgedFills DEF Tick, KSTypeOK
<1>9. CASE TogglePause
  BY <1>9 DEF TogglePause, KSTypeOK
<1> QED
  BY <1>1, <1>2, <1>3, <1>4, <1>5, <1>6, <1>7, <1>8, <1>9 DEF Next, Handle

\* Every step keeps the types.
LEMMA TypeStep == TypeOK /\ [Next]_vars => TypeOK'
<1> SUFFICES ASSUME TypeOK, [Next]_vars
             PROVE  TypeOK'
  OBVIOUS
<1>1. AgentTypeOK(Outcome, Steps)'
  BY NextIsAgentStep, AgentStepType, StepsAreOwn DEF TypeOK
<1> QED
  BY <1>1, OwnTypeStep DEF TypeOK, OwnTypeOK

\* Every variable keeps its type.
THEOREM TypeCorrect == Spec => []TypeOK
<1>1. Init => TypeOK
  <2> SUFFICES ASSUME Init
               PROVE  TypeOK
    OBVIOUS
  <2>1. KSTypeOK /\ fills \in Seq(Fill)
    BY EmptySeq DEF Init, KSTypeOK
  <2>2. AgentTypeOK(Outcome, Steps)
    BY AgentInitType DEF Init
  <2> QED
    BY <2>1, <2>2 DEF Init, TypeOK
<1> QED
  BY <1>1, TypeStep, PTL DEF Spec

(***************************************************************************)
(* The table and what is published from it.                                *)
(***************************************************************************)

\* The executor keeps DecisionInv.
LEMMA DecisionInvariant == Spec => []DecisionInv
<1>1. Init => DecisionInv
  BY AgentInitDecision DEF Init
<1>2. TypeOK /\ DecisionInv /\ [Next]_vars => DecisionInv'
  BY NextIsAgentStep, AgentStepDecision, StepsAreOwn, NoOutcomeAssumption DEF TypeOK
<1> QED
  BY <1>1, <1>2, TypeCorrect, PTL DEF Spec

\* An order is published at most once, as the table says, and acknowledged
\* only when it is in the table, whatever is redelivered, lost or crashed.
THEOREM PublishedOnce == Spec => [](PublishedOnceAsPersisted /\ AckedArePersisted)
<1>1. DecisionInv => PublishedOnceAsPersisted /\ AckedArePersisted
  BY DEF DecisionInv
<1> QED
  BY <1>1, DecisionInvariant, PTL

(***************************************************************************)
(* The kill switch while an order is on its way.                           *)
(***************************************************************************)

\* A step that leaves the switch alone and grants nothing new.
LEMMA SwitchStutter ==
  ASSUME SwitchInv, UNCHANGED <<pause_file, consecutive_failures, trades_24h, in_pause>>,
         \/ pc' \notin {"create", "post", "accepted", "rejected"}
         \/ pc = "create" /\ pc' = "post"
         \/ pc' = pc
         \/ pc = "post" /\ pc' = "rejected"
  PROVE  SwitchInv'
  BY DEF SwitchInv, Tripped

\* A failure ends the callback's use of the exchange.
LEMMA ClobErrorSwitch ==
  ASSUME SwitchInv, NEW from, ClobError(from), UNCHANGED in_pause
  PROVE  SwitchInv'
  BY DEF ClobError, RecordFailure, Goto, SwitchInv, Work

\* Every step keeps SwitchInv.
LEMMA SwitchInductive == TypeOK /\ SwitchInv /\ [Next]_vars => SwitchInv'
<1> SUFFICES ASSUME TypeOK, SwitchInv, [Next]_vars
             PROVE  SwitchInv'
  OBVIOUS
<1>1. CASE Start
  <2>1. Len(trades_24h') = 0 /\ pc' = pc /\ UNCHANGED <<pause_file, in_pause>>
    BY <1>1, EmptySeq DEF Start, KSReset, StartAgent, exchange
  <2>2. pc = "idle"
    BY <1>1 DEF Start, TypeOK, StartAgent, AgentTypeOK
  <2> QED
    BY <1>1, <2>1, <2>2, KillSwitchAssumption DEF SwitchInv
<1>2. CASE Crash \/ UNCHANGED vars
  BY <1>2, SwitchStutter
     DEF Crash, vars, ks_vars, agent_vars, CrashAgent, exchange, durable_vars
<1>3. CASE Tick
  BY <1>3, AgedTrades DEF Tick, agent_vars, SwitchInv, Tripped, TypeOK, KSTypeOK, durable_vars
<1>4. CASE TogglePause
  BY <1>4 DEF TogglePause, agent_vars, SwitchInv, Tripped, durable_vars
<1>5. ASSUME NEW e \in Events, OrderSized(e) \/ Redeliver(e)
      PROVE  SwitchInv'
  BY <1>5, SwitchStutter
     DEF OrderSized, Redeliver, agent_vars, ks_vars, Upstream, exchange, Push
<1>6. CASE Receive \/ FetchBook
  BY <1>6, SwitchStutter
     DEF Receive, FetchBook, DryRun, Quote, Goto, ks_vars, TakeUp, exchange,
         Work
<1>7. CASE CheckKillSwitch
  <2> DEFINE trades == Evicted(trades_24h)
  <2>1. /\ trades \in Seq(RecordedTrade)
        /\ Len(trades) <= DailyMaxTrades
    BY EvictedType, KillSwitchAssumption, LenProperties
       DEF TypeOK, KSTypeOK, SwitchInv
  <2>2. /\ pc = "check" /\ trades_24h' = trades
        /\ UNCHANGED <<pause_file, consecutive_failures, in_pause>>
        /\ pc' = "persist" \/ (pc' = "create" /\ Passes(trades, Size[cur]))
    BY <1>7 DEF CheckKillSwitch, Goto, exchange, Work
  <2>3. Size[cur] \in Nat
    BY <2>2, ExecutorAssumption DEF TypeOK, AgentTypeOK
  <2>4. CASE pc' = "persist"
    BY <2>1, <2>2, <2>4 DEF SwitchInv
  <2>5. CASE pc' = "create" /\ Passes(trades, Size[cur])
    <3>1. /\ ~pause_file
          /\ consecutive_failures < CircuitBreakerFailures
          /\ Len(trades) < DailyMaxTrades
      BY <2>1, <2>3, <2>5, PassesMeans DEF TypeOK, KSTypeOK
    <3>2. ~Tripped
      BY <3>1, KillSwitchAssumption DEF Tripped, TypeOK, KSTypeOK
    <3> QED
      BY <2>1, <2>2, <2>5, <3>1, <3>2 DEF SwitchInv, Tripped
  <2> QED
    BY <2>2, <2>4, <2>5
<1>8. CASE CreateOrder
  <2>1. CASE Work("create", "post", NoResult) /\ UNCHANGED ks_vars
    BY <1>8, <2>1, SwitchStutter DEF CreateOrder, Goto, ks_vars, exchange, Work
  <2>2. CASE ClobError("create")
    BY <1>8, <2>2, ClobErrorSwitch DEF CreateOrder, exchange
  <2> QED
    BY <1>8, <2>1, <2>2 DEF CreateOrder
<1>9. CASE PostOrder
  <2>1. CASE ClobError("post") /\ UNCHANGED <<fills, in_pause>>
    BY <2>1, ClobErrorSwitch
  <2>2. CASE Work("post", "rejected", NoResult) /\ UNCHANGED <<ks_vars, fills, in_pause>>
    BY <2>2, SwitchStutter DEF Goto, ks_vars, Work
  <2>3. CASE Accept
    BY <2>3 DEF Accept, Goto, ks_vars, SwitchInv, Tripped, TypeOK, Work
  <2> QED
    BY <1>9, <2>1, <2>2, <2>3 DEF PostOrder, exchange
<1>10. CASE AnswerAccepted
  <2>1. CASE /\ \E r \in {"executed", "EXECUTOR_DISABLED"} : Work("accepted", "persist", r)
             /\ RecordSuccess(Size[cur])
    <3>1. pc = "accepted" /\ pc' = "persist" /\ cur \in Events
      BY <2>1 DEF Goto, TypeOK, Work, AgentTypeOK
    <3>2. [age |-> 0, size |-> Size[cur]] \in RecordedTrade
      BY <3>1, ExecutorAssumption, KillSwitchAssumption DEF RecordedTrade
    <3>3. Len(trades_24h') = Len(trades_24h) + 1
      BY <2>1, <3>2, AppendProperties DEF RecordSuccess, TypeOK, KSTypeOK
    <3>4. UNCHANGED <<pause_file, in_pause>>
      BY <1>10, <2>1 DEF RecordSuccess, AnswerAccepted
    <3> QED
      BY <3>1, <3>3, <3>4, KillSwitchAssumption, LenProperties
         DEF SwitchInv, TypeOK, KSTypeOK
  <2>2. CASE ClobError("accepted")
    BY <1>10, <2>2, ClobErrorSwitch DEF AnswerAccepted
  <2> QED
    BY <1>10, <2>1, <2>2 DEF AnswerAccepted
<1>11. CASE AnswerRejected
  BY <1>11, ClobErrorSwitch
     DEF AnswerRejected, Goto, RecordFailure, SwitchInv, exchange, Work
<1>12. CASE Persist \/ PersistFails \/ PublishResult \/ PublishFails \/ Ack
  BY <1>12, SwitchStutter
     DEF Persist, InsertRow, PersistFails, PublishResult, PublishFails, Ack,
         Goto, Leave, ks_vars, PersistRow, exchange, PersistRowFails,
         PublishRow, PublishRowFails, AckEvent
<1> QED
  BY <1>1, <1>2, <1>3, <1>4, <1>5, <1>6, <1>7, <1>8, <1>9, <1>10, <1>11, <1>12
     DEF Next, Handle

\* The executor keeps SwitchInv.
LEMMA SwitchInvariant == Spec => []SwitchInv
<1>1. Init => SwitchInv
  BY EmptySeq, KillSwitchAssumption DEF Init, SwitchInv, AgentInit
<1> QED
  BY <1>1, TypeCorrect, SwitchInductive, PTL DEF Spec

\* After the pause file appears, at most one more order, already checked,
\* is accepted by the exchange.
THEOREM PauseHonoured == Spec => []PauseStopsOrders
<1>1. SwitchInv => PauseStopsOrders
  BY DEF SwitchInv, PauseStopsOrders
<1> QED
  BY <1>1, SwitchInvariant, PTL

(***************************************************************************)
(* The breaker.                                                            *)
(***************************************************************************)

\* Failures only add up, and the one success that could reset them finds
\* the breaker closed, because its own check did.
LEMMA BreakerStep ==
  ASSUME TypeOK, SwitchInv, [Next]_vars, Tripped
  PROVE  /\ up => Tripped'
         /\ Len(fills') = Len(fills)
<1> DEFINE Goal == (up => Tripped') /\ Len(fills') = Len(fills)
<1>0. consecutive_failures \in Nat
  BY DEF TypeOK, KSTypeOK
<1>1. CASE UNCHANGED <<consecutive_failures, fills>>
  BY <1>1 DEF Tripped
<1>2. CASE Start
  BY <1>2 DEF Start, StartAgent, exchange
<1>3. CASE Crash \/ TogglePause \/ Receive \/ FetchBook \/ CheckKillSwitch \/ UNCHANGED vars
  BY <1>1, <1>3
     DEF Crash, TogglePause, Receive, FetchBook, DryRun, Quote, CheckKillSwitch,
         vars, ks_vars, CrashAgent, exchange, durable_vars, TakeUp
<1>4. CASE Persist \/ PersistFails \/ PublishResult \/ PublishFails \/ Ack
  BY <1>1, <1>4 DEF Persist, InsertRow, PersistFails, PublishResult, PublishFails, Ack,
                    ks_vars, PersistRow, exchange, PersistRowFails, PublishRow,
                    PublishRowFails, AckEvent
<1>5. ASSUME NEW e \in Events, OrderSized(e) \/ Redeliver(e)
      PROVE  Goal
  BY <1>1, <1>5 DEF OrderSized, Redeliver, ks_vars, Upstream, exchange, Push
<1>6. CASE Tick
  BY <1>6, AgedFills DEF Tick, Tripped, TypeOK, durable_vars
<1>7. CASE CreateOrder \/ PostOrder \/ AnswerAccepted \/ AnswerRejected
  <2>1. pc \in {"create", "post", "accepted", "rejected"}
    BY <1>7
       DEF CreateOrder, PostOrder, Accept, AnswerAccepted, AnswerRejected,
           ClobError, Goto, Work
  <2> QED
    BY <2>1 DEF SwitchInv
<1> QED
  BY <1>2, <1>3, <1>4, <1>5, <1>6, <1>7 DEF Next, Handle

\* A tripped breaker stays tripped until the process restarts.
THEOREM BreakerIsALatch == Spec => BreakerLatches
<1>1. TypeOK /\ SwitchInv /\ [Next]_vars => [Tripped /\ up => Tripped']_vars
  BY BreakerStep
<1> QED
  BY <1>1, TypeCorrect, SwitchInvariant, PTL DEF Spec, BreakerLatches

\* While it is tripped nothing more reaches the exchange.
THEOREM TrippedIsSilent == Spec => TrippedSendsNothing
<1>1. TypeOK /\ SwitchInv /\ [Next]_vars => [Tripped => Len(fills') = Len(fills)]_vars
  BY BreakerStep
<1> QED
  BY <1>1, TypeCorrect, SwitchInvariant, PTL DEF Spec, TrippedSendsNothing

(***************************************************************************)
(* The fills behind the rows.                                              *)
(***************************************************************************)

\* Fills are only added, marked while they are awaited, and aged: what was
\* seen stays seen when no fill changes.
LEMMA SeenStays ==
  ASSUME TypeOK, NEW e, SeenFill(e), fills' = fills,
         pc' # "accepted" \/ pc = "accepted"
  PROVE  SeenFill(e)'
<1>1. Len(fills) \in Nat
  BY LenProperties DEF TypeOK
<1> QED
  BY <1>1 DEF SeenFill, Answered

\* A step that touches neither the table nor the fills.
LEMMA FillStutter ==
  ASSUME TypeOK, FillInv, UNCHANGED <<rows, fills>>,
         pc' = "accepted" => pc = "accepted" /\ cur' = cur,
         result' = "executed" => /\ result = "executed" /\ cur' = cur
                                 /\ pc' \in {"persist", "publish", "ack"}
  PROVE  FillInv'
<1>1. pc' # "accepted" \/ pc = "accepted"
  OBVIOUS
<1>2. \A e : SeenFill(e) => SeenFill(e)'
  BY <1>1, SeenStays
<1>3. result' = "executed" => SeenFill(cur)'
  <2> SUFFICES ASSUME result' = "executed"
               PROVE  SeenFill(cur)'
    OBVIOUS
  <2>1. SeenFill(cur) /\ cur' = cur
    BY DEF FillInv
  <2>2. pc \in {"persist", "publish", "ack"} /\ pc' \in {"persist", "publish", "ack"}
    BY DEF FillInv
  <2> QED
    BY <2>1, <2>2, <1>1 DEF SeenFill, Answered
<1> QED
  BY <1>2, <1>3 DEF FillInv

\* A callback without a result has not executed.
LEMMA NoResultIsNotExecuted == NoResult # "executed"
  BY NoOutcomeAssumption DEF Outcome

\* No failure is taken for an execution.
LEMMA FailureIsNotExecuted ==
  /\ "executed" \notin ClobErrors
  /\ "executed" \notin {BlockReasons[i] : i \in 1..5}
<1>1. "executed" \notin ClobErrors
  BY ExecutorAssumption DEF ClobErrorReasons
<1>2. \A i \in 1..5 : BlockReasons[i] # "executed"
  BY DEF BlockReasons
<1> QED
  BY <1>1, <1>2

\* Every step keeps FillInv.
LEMMA FillInductive == TypeOK /\ FillInv /\ [Next]_vars => FillInv'
<1> USE NoResultIsNotExecuted
<1> SUFFICES ASSUME TypeOK, FillInv, [Next]_vars
             PROVE  FillInv'
  OBVIOUS
<1>0. Len(fills) \in Nat
  BY LenProperties DEF TypeOK
<1>1. CASE Start \/ Crash \/ TogglePause \/ UNCHANGED vars
  BY <1>1, FillStutter DEF Start, Crash, TogglePause, vars, agent_vars, FillInv, StartAgent,
                           exchange, CrashAgent, durable_vars, tables
<1>2. ASSUME NEW e \in Events, OrderSized(e) \/ Redeliver(e)
      PROVE  FillInv'
  BY <1>2, FillStutter
     DEF OrderSized, Redeliver, agent_vars, FillInv, Upstream, exchange, Push,
         tables
<1>3. CASE Receive \/ FetchBook
  BY <1>3, FillStutter DEF Receive, FetchBook, DryRun, Quote, Goto, FillInv, TakeUp, exchange,
                           Work, tables
<1>4. CASE CheckKillSwitch
  <2>1. result' # "executed"
    <3> DEFINE trades == Evicted(trades_24h)
               reason == BlockReason(trades, Size[cur])
    <3>1. CASE ~Passes(trades, Size[cur])
      <4>1. reason # "executed"
        BY <3>1, BlockReasonType, FailureIsNotExecuted
      <4>2. result' = reason
        BY <1>4, <3>1 DEF CheckKillSwitch, Goto, Work
      <4> QED
        BY <4>1, <4>2
    <3>2. CASE Passes(trades, Size[cur])
      BY <1>4, <3>2 DEF CheckKillSwitch, Goto, Work
    <3> QED
      BY <3>1, <3>2
  <2>2. pc' # "accepted" /\ UNCHANGED <<rows, fills>>
    BY <1>4 DEF CheckKillSwitch, Goto, exchange, Work, tables
  <2> QED
    BY <2>1, <2>2, FillStutter
<1>5. CASE CreateOrder \/ AnswerRejected \/ (PostOrder /\ ~Accept)
  <2>1. /\ pc' # "accepted" /\ UNCHANGED <<rows, fills>>
        /\ result' \in ClobErrors \cup {NoResult, "CLOB_REJECTED_ORDER"}
    BY <1>5 DEF CreateOrder, AnswerRejected, PostOrder, ClobError, Goto, exchange,
                Work, tables
  <2> QED
    BY <2>1, FillStutter, FailureIsNotExecuted
<1>6. CASE PostOrder /\ Accept
  <2> DEFINE new == [event |-> cur, age |-> 0, unseen |-> FALSE]
  <2>1. /\ pc = "post" /\ pc' = "accepted" /\ result' = NoResult
        /\ UNCHANGED <<rows, cur>>
        /\ fills' = Append(fills, new)
    BY <1>6 DEF PostOrder, Accept, Goto, Work, tables
  <2>2. new \in Fill
    BY <2>1, KillSwitchAssumption DEF TypeOK, Fill, AgentTypeOK
  <2>3. /\ Len(fills') = Len(fills) + 1
        /\ fills'[Len(fills')] = new
        /\ \A i \in 1..Len(fills) : fills'[i] = fills[i]
    BY <2>1, <2>2, AppendProperties DEF TypeOK
  <2>4. Answered' = Answered
    BY <1>0, <2>1, <2>3 DEF Answered
  <2>5. ASSUME NEW e, SeenFill(e)
        PROVE  SeenFill(e)'
    <3>1. Answered = Len(fills)
      BY <2>1 DEF Answered
    <3> QED
      BY <2>3, <2>4, <2>5, <3>1 DEF SeenFill
  <2> QED
    BY <1>0, <2>1, <2>3, <2>5 DEF FillInv
<1>7. CASE AnswerAccepted
  <2>1. /\ pc = "accepted" /\ pc' = "persist" /\ UNCHANGED <<rows, cur>>
        /\ Answered = Len(fills) - 1
        /\ Len(fills) > 0 /\ fills[Len(fills)].event = cur
        /\ ~fills[Len(fills)].unseen
    BY <1>7 DEF AnswerAccepted, ClobError, Goto, FillInv, Answered, Work, tables
  <2>2. CASE UNCHANGED fills
    <3>1. Answered' = Len(fills)
      BY <2>1, <2>2 DEF Answered
    <3>2. SeenFill(cur)'
      BY <1>0, <2>1, <2>2, <3>1 DEF SeenFill
    <3>3. ASSUME NEW e, SeenFill(e)
          PROVE  SeenFill(e)'
      BY <2>1, <2>2, <3>3, SeenStays
    <3> QED
      BY <2>1, <3>2, <3>3 DEF FillInv
  <2>3. CASE /\ ClobError("accepted")
             /\ fills' = [fills EXCEPT ![Len(fills)] = Missed(@)]
    <3>1. result' # "executed"
      BY <2>3, FailureIsNotExecuted DEF ClobError, Goto, Work
    <3>2. /\ Len(fills') = Len(fills)
          /\ \A i \in 1..(Len(fills) - 1) : fills'[i] = fills[i]
      BY <1>0, <2>3, LenProperties DEF TypeOK
    <3>3. ASSUME NEW e, SeenFill(e)
          PROVE  SeenFill(e)'
      BY <1>0, <2>1, <3>2, <3>3 DEF SeenFill, Answered
    <3> QED
      BY <2>1, <3>1, <3>3 DEF FillInv
  <2> QED
    BY <1>7, <2>2, <2>3 DEF AnswerAccepted
<1>8. CASE Persist \/ PersistFails
  <2>1. /\ pc = "persist" /\ pc' # "accepted" /\ fills' = fills
        /\ result' = "executed" => /\ result = "executed" /\ cur' = cur
                                   /\ pc' \in {"publish", "ack"}
    BY <1>8 DEF Persist, InsertRow, PersistFails, Goto, Leave, PersistRow, exchange,
                PersistRowFails
  <2>2. ASSUME NEW e, SeenFill(e)
        PROVE  SeenFill(e)'
    BY <2>1, <2>2, SeenStays
  <2>3. cur \in Events
    BY <2>1 DEF TypeOK, AgentTypeOK
  <2>4. \A e \in Events : rows'[e] = "executed" => SeenFill(e)
    <3>1. rows' = rows \/ rows' = [rows EXCEPT ![cur] = result]
      BY <1>8 DEF Persist, InsertRow, PersistFails, PersistRow,
                  PersistRowFails
    <3> QED
      BY <2>3, <3>1 DEF FillInv, TypeOK, AgentTypeOK
  <2>5. ASSUME result' = "executed"
        PROVE  SeenFill(cur)'
    <3>1. SeenFill(cur) /\ cur' = cur
      BY <2>1, <2>5 DEF FillInv
    <3> QED
      BY <2>1, <3>1 DEF SeenFill, Answered
  <2> QED
    BY <2>1, <2>2, <2>4, <2>5 DEF FillInv
<1>9. CASE PublishResult \/ PublishFails \/ Ack
  BY <1>9, FillStutter DEF PublishResult, PublishFails, Ack, Goto, Leave, FillInv, PublishRow,
                           exchange, PublishRowFails, AckEvent, tables
<1>10. CASE Tick
  <2>1. /\ Len(fills') = Len(fills) /\ UNCHANGED <<pc, cur, result, rows>>
        /\ \A i \in 1..Len(fills) : /\ fills'[i].event = fills[i].event
                                    /\ fills'[i].unseen = fills[i].unseen
    BY <1>10, AgedFills DEF Tick, agent_vars, TypeOK, durable_vars, tables
  <2>2. Answered' = Answered
    BY <2>1 DEF Answered
  <2>3. \A e : SeenFill(e)' <=> SeenFill(e)
    BY <1>0, <2>1, <2>2 DEF SeenFill, Answered
  <2> QED
    BY <1>0, <2>1, <2>3 DEF FillInv
<1> QED
  BY <1>1, <1>2, <1>3, <1>4, <1>5, <1>6, <1>7, <1>8, <1>9, <1>10 DEF Next, Handle

\* A row that says "executed" has its order on the exchange.
THEOREM ExecutedMeansFilled == Spec => []ExecutedRowsAreFilled
<1>1. Init => FillInv
  BY NoResultIsNotExecuted DEF Init, FillInv, AgentInit
<1>2. TypeOK /\ FillInv => ExecutedRowsAreFilled
  <2> SUFFICES ASSUME TypeOK, FillInv, NEW e \in Events, rows[e] = "executed"
               PROVE  \E i \in FillsOf(e) : ~fills[i].unseen
    BY DEF ExecutedRowsAreFilled
  <2>1. PICK i \in 1..Answered : fills[i].event = e /\ ~fills[i].unseen
    BY DEF FillInv, SeenFill
  <2>2. i \in 1..Len(fills)
    BY LenProperties DEF Answered, TypeOK
  <2> QED
    BY <2>1, <2>2 DEF FillsOf
<1> QED
  BY <1>1, <1>2, TypeCorrect, FillInductive, PTL DEF Spec

(***************************************************************************)
(* Orders and deliveries.                                                  *)
(***************************************************************************)

Copies(e) == {i \in 1..Len(queue) : queue[i].id = e}

\* The delivery in hand may still become an order.
Unsent(e) == IF cur = e /\ pc \in {"book", "check", "create", "post"} THEN 1 ELSE 0

\* Every delivery of an order is spent on one copy in the queue, on the one
\* in hand before it is posted, or on one fill.
CountInv ==
  \A e \in Events :
    Cardinality(FillsOf(e)) + Cardinality(Copies(e)) + Unsent(e) <= delivered[e]

\* The counts are natural numbers.
LEMMA Countable ==
  ASSUME TypeOK, NEW e \in Events
  PROVE  /\ IsFiniteSet(FillsOf(e)) /\ Cardinality(FillsOf(e)) \in Nat
         /\ IsFiniteSet(Copies(e)) /\ Cardinality(Copies(e)) \in Nat
         /\ delivered[e] \in Nat
<1>1. Len(fills) \in Nat /\ Len(queue) \in Nat
  BY LenProperties DEF TypeOK, AgentTypeOK, JSTypeOK
<1>2. FillsOf(e) \in SUBSET (1..Len(fills)) /\ Copies(e) \in SUBSET (1..Len(queue))
  BY DEF FillsOf, Copies
<1>3. IsFiniteSet(1..Len(fills)) /\ IsFiniteSet(1..Len(queue))
  BY <1>1, FS_Interval
<1>4. delivered[e] \in Nat
  BY MaxDeliverAssumption DEF TypeOK, AgentTypeOK, JSTypeOK
<1> QED
  BY <1>2, <1>3, <1>4, FS_Subset, FS_CardinalityType

\* The callback takes one copy from the queue.
LEMMA CopiesTaken ==
  ASSUME TypeOK, TypeOK', TakeHead, NEW e \in Events
  PROVE  /\ Cardinality(Copies(e)') \in Nat
         /\ Cardinality(Copies(e)') + (IF Head(queue).id = e THEN 1 ELSE 0) <= Cardinality(Copies(e))
<1> DEFINE rest == IF Head(queue).id = e THEN Copies(e) \ {1} ELSE Copies(e)
           shift == [i \in Copies(e)' |-> i + 1]
<1>1. /\ queue \in Seq(Delivery) /\ queue # <<>> /\ queue' = Tail(queue)
  BY DEF TypeOK, AgentTypeOK, JSTypeOK, TakeHead
<1>2. /\ Len(queue) \in Nat \ {0} /\ Head(queue) = queue[1]
      /\ Len(queue') = Len(queue) - 1
      /\ \A i \in 1..(Len(queue) - 1) : queue'[i] = queue[i + 1]
  BY <1>1
<1>3. \A i \in Copies(e)' : i \in Nat \ {0} /\ i + 1 \in rest
  BY <1>2 DEF Copies
<1>4. shift \in Injection(Copies(e)', rest)
  <2>1. \A i \in Copies(e)' : i \in Nat /\ i + 1 \in rest
    BY <1>3
  <2> HIDE DEF rest
  <2>2. shift \in [Copies(e)' -> rest]
    BY <2>1
  <2>3. \A i, j \in Copies(e)' : shift[i] = shift[j] => i = j
    BY <2>1
  <2> QED
    BY <2>2, <2>3 DEF Injection, IsInjective
<1>5. IsFiniteSet(Copies(e)) /\ Cardinality(Copies(e)) \in Nat
  BY Countable
<1>6. IsFiniteSet(rest)
  BY <1>5, FS_RemoveElement
<1>7. Cardinality(rest) = Cardinality(Copies(e)) - (IF Head(queue).id = e THEN 1 ELSE 0)
  <2>1. CASE Head(queue).id = e
    <3>1. 1 \in Copies(e)
      BY <1>2, <2>1 DEF Copies
    <3>2. Cardinality(Copies(e) \ {1}) = Cardinality(Copies(e)) - 1
      BY <1>5, <3>1, FS_RemoveElement
    <3> QED
      BY <2>1, <3>2
  <2>2. CASE Head(queue).id # e
    BY <1>5, <2>2
  <2> QED
    BY <2>1, <2>2
<1>8. Cardinality(Copies(e)') <= Cardinality(rest)
  BY <1>4, <1>6, FS_Injection
<1>9. Cardinality(Copies(e)') \in Nat
  <2>1. IsFiniteSet(Copies(e)')
    BY <1>4, <1>6, FS_Injection
  <2> QED
    BY <2>1, FS_CardinalityType
<1> QED
  BY <1>5, <1>7, <1>8, <1>9

\* A delivery queues one copy.
LEMMA CopiesDelivered ==
  ASSUME TypeOK, NEW d \in Events, Deliver(d), NEW e \in Events
  PROVE  /\ Cardinality(Copies(e)') = Cardinality(Copies(e)) + (IF d = e THEN 1 ELSE 0)
         /\ delivered'[e] = delivered[e] + (IF d = e THEN 1 ELSE 0)
<1> DEFINE copy == [id |-> d, num |-> delivered[d] + 1]
           n == Len(queue) + 1
<1>1. queue \in Seq(Delivery) /\ queue' = Append(queue, copy)
  BY DEF TypeOK, AgentTypeOK, JSTypeOK, Deliver
<1>2. /\ Len(queue) \in Nat /\ Len(queue') = n
      /\ queue'[n] = copy
      /\ \A i \in 1..Len(queue) : queue'[i] = queue[i]
  BY <1>1
<1>3. n \notin Copies(e) /\ Copies(e)' = IF d = e THEN Copies(e) \cup {n} ELSE Copies(e)
  BY <1>2 DEF Copies
<1>4. IsFiniteSet(Copies(e)) /\ Cardinality(Copies(e)) \in Nat /\ delivered[e] \in Nat
  BY Countable
<1>5. Cardinality(Copies(e)') = Cardinality(Copies(e)) + (IF d = e THEN 1 ELSE 0)
  <2>1. Cardinality(Copies(e) \cup {n}) = Cardinality(Copies(e)) + 1
    BY <1>3, <1>4, FS_AddElement
  <2>2. CASE d = e
    BY <1>3, <2>1, <2>2
  <2>3. CASE d # e
    BY <1>3, <1>4, <2>3
  <2> QED
    BY <2>2, <2>3
<1>6. delivered'[e] = delivered[e] + (IF d = e THEN 1 ELSE 0)
  BY <1>4 DEF Deliver, TypeOK, AgentTypeOK, JSTypeOK
<1> QED
  BY <1>5, <1>6

\* A step that neither delivers nor fills, and takes back no claim.
LEMMA CountStutter ==
  ASSUME TypeOK, CountInv, UNCHANGED <<queue, delivered>>,
         \A e \in Events : FillsOf(e)' = FillsOf(e),
         \/ pc' \notin {"book", "check", "create", "post"}
         \/ pc \in {"book", "check", "create", "post"} /\ cur' = cur
         \/ UNCHANGED <<pc, cur>>
  PROVE  CountInv'
<1> SUFFICES ASSUME NEW e \in Events
             PROVE  Cardinality(FillsOf(e)') + Cardinality(Copies(e)') + Unsent(e)'
                      <= delivered'[e]
  BY DEF CountInv
<1>1. FillsOf(e)' = FillsOf(e) /\ Copies(e)' = Copies(e) /\ delivered'[e] = delivered[e]
  BY DEF Copies
<1>2. Unsent(e)' = Unsent(e) \/ Unsent(e)' = 0
  BY DEF Unsent
<1>3. Cardinality(FillsOf(e)) + Cardinality(Copies(e)) + Unsent(e) <= delivered[e]
  BY DEF CountInv
<1>4. Unsent(e) \in Nat
  BY DEF Unsent
<1> QED
  BY <1>1, <1>2, <1>3, <1>4, Countable

\* Every step keeps CountInv.
LEMMA CountInductive == TypeOK /\ CountInv /\ [Next]_vars => CountInv'
<1> SUFFICES ASSUME TypeOK, CountInv, [Next]_vars
             PROVE  CountInv'
  OBVIOUS
<1>0. TypeOK' /\ (fills' = fills => \A e \in Events : FillsOf(e)' = FillsOf(e))
  BY TypeStep DEF FillsOf
<1>1. CASE Start \/ TogglePause \/ UNCHANGED vars
  <2>1. UNCHANGED <<queue, delivered, fills, pc, cur>>
    BY <1>1 DEF Start, StartAgent, Subscribe, TogglePause, vars, durable_vars, js_vars,
                agent_vars, exchange
  <2> QED
    BY <1>0, <2>1, CountStutter
<1>11. CASE FetchBook \/ CheckKillSwitch \/ CreateOrder \/ AnswerRejected
  <2>1. /\ UNCHANGED <<queue, delivered, fills, cur>>
        /\ pc' = "persist" \/ pc \in {"book", "check", "create", "post"}
    BY <1>11 DEF FetchBook, DryRun, Quote, CheckKillSwitch, CreateOrder, AnswerRejected,
                 ClobError, Work, Goto, js_vars, exchange
  <2> QED
    BY <1>0, <2>1, CountStutter
<1>2. CASE Persist \/ PersistFails \/ PublishResult \/ PublishFails \/ Ack
  <2>1. /\ UNCHANGED <<queue, delivered, fills>>
        /\ pc' \notin {"book", "check", "create", "post"}
    BY <1>2 DEF Persist, PersistRow, PersistFails, PersistRowFails, PublishResult, PublishRow,
                PublishFails, PublishRowFails, Ack, AckEvent, AckArrives, Goto, Leave,
                js_vars, exchange
  <2> QED
    BY <1>0, <2>1, CountStutter
<1>3. CASE Crash
  <2>1. queue' = <<>> /\ pc' = "idle" /\ UNCHANGED <<delivered, fills>>
    BY <1>3 DEF Crash, CrashAgent, LoseQueue, exchange
  <2>2. \A e \in Events : Copies(e)' = {}
    BY <2>1 DEF Copies
  <2>3. \A e \in Events : Cardinality(Copies(e)') = 0 /\ Unsent(e)' = 0
    BY <2>1, <2>2, FS_EmptySet DEF Unsent
  <2> QED
    BY <1>0, <2>1, <2>3, Countable DEF CountInv, Unsent
<1>4. CASE Receive
  <2>1. /\ TakeHead /\ cur' = Head(queue).id /\ pc = "idle"
        /\ UNCHANGED <<delivered, fills>>
    BY <1>4 DEF Receive, TakeUp, TakeHead, exchange
  <2> SUFFICES ASSUME NEW e \in Events
               PROVE  Cardinality(FillsOf(e)') + Cardinality(Copies(e)') + Unsent(e)'
                        <= delivered'[e]
    BY DEF CountInv
  <2>2. Cardinality(Copies(e)') + (IF Head(queue).id = e THEN 1 ELSE 0) <= Cardinality(Copies(e))
    BY <1>0, <2>1, CopiesTaken
  <2>3. Unsent(e) = 0 /\ Unsent(e)' <= IF Head(queue).id = e THEN 1 ELSE 0
    BY <2>1 DEF Unsent
  <2>4. Cardinality(FillsOf(e)) + Cardinality(Copies(e)) <= delivered[e]
    BY <2>3, Countable DEF CountInv
  <2>5. Cardinality(FillsOf(e)') = Cardinality(FillsOf(e)) /\ delivered'[e] = delivered[e]
    BY <1>0, <2>1
  <2>6. Cardinality(Copies(e)') \in Nat
    BY <1>0, <2>1, CopiesTaken
  <2>7. Unsent(e)' \in Nat
    BY DEF Unsent
  <2> QED
    BY <2>2, <2>3, <2>4, <2>5, <2>6, <2>7, Countable
<1>5. ASSUME NEW d \in Events, Redeliver(d)
      PROVE  CountInv'
  <2>1. Deliver(d) /\ UNCHANGED <<agent_vars, fills>>
    BY <1>5 DEF Redeliver, Push, exchange
  <2>2. \A e \in Events : Unsent(e)' = Unsent(e) /\ FillsOf(e)' = FillsOf(e)
    BY <1>0, <2>1 DEF Unsent, agent_vars
  <2> SUFFICES ASSUME NEW e \in Events
               PROVE  Cardinality(FillsOf(e)') + Cardinality(Copies(e)') + Unsent(e)'
                        <= delivered'[e]
    BY DEF CountInv
  <2>3. Cardinality(FillsOf(e)) + Cardinality(Copies(e)) + Unsent(e) <= delivered[e]
    BY DEF CountInv
  <2>4. /\ Cardinality(Copies(e)') = Cardinality(Copies(e)) + (IF d = e THEN 1 ELSE 0)
        /\ delivered'[e] = delivered[e] + (IF d = e THEN 1 ELSE 0)
    BY <2>1, CopiesDelivered
  <2>5. Unsent(e) \in Nat
    BY DEF Unsent
  <2> QED
    BY <2>2, <2>3, <2>4, <2>5, Countable
<1>6. ASSUME NEW d \in Events, OrderSized(d)
      PROVE  CountInv'
  BY <1>0, <1>6, CountStutter DEF OrderSized, Upstream, Store, agent_vars, exchange
<1>7. CASE Tick
  <2>1. /\ UNCHANGED <<queue, delivered, pc, cur>>
        /\ fills \in Seq(Fill) /\ fills' = Aged(fills)
    BY <1>7 DEF Tick, durable_vars, js_vars, agent_vars, TypeOK
  <2>2. /\ Len(fills') = Len(fills)
        /\ \A i \in 1..Len(fills) : fills'[i].event = fills[i].event
    BY <2>1, AgedFills
  <2>3. \A e \in Events : FillsOf(e)' = FillsOf(e)
    BY <2>2 DEF FillsOf
  <2> QED
    BY <2>1, <2>3, CountStutter
<1>8. CASE AnswerAccepted
  <2>1. UNCHANGED <<queue, delivered>> /\ pc' = "persist"
    BY <1>8 DEF AnswerAccepted, ClobError, Work, Goto, js_vars
  <2>2. fills' = fills \/ fills' = [fills EXCEPT ![Len(fills)] = Missed(@)]
    BY <1>8 DEF AnswerAccepted
  <2>3. ASSUME fills' = [fills EXCEPT ![Len(fills)] = Missed(@)]
        PROVE  \A e \in Events : FillsOf(e)' = FillsOf(e)
    <3>1. /\ fills \in Seq(Fill) /\ Len(fills) \in Nat
          /\ \A i \in 1..Len(fills) : fills[i] \in Fill
      BY DEF TypeOK
    <3>2. \A f \in Fill : Missed(f).event = f.event
      BY DEF Missed, Fill
    <3>3. Len(fills') = Len(fills)
      BY <2>3, <3>1
    <3>4. \A i \in 1..Len(fills) : fills'[i] = IF i = Len(fills) THEN Missed(fills[i]) ELSE fills[i]
      BY <2>3, <3>1
    <3>5. \A i \in 1..Len(fills) : fills'[i].event = fills[i].event
      BY <3>1, <3>2, <3>4
    <3> QED
      BY <3>3, <3>5 DEF FillsOf
  <2> QED
    BY <1>0, <2>1, <2>2, <2>3, CountStutter
<1>9. CASE PostOrder /\ ~Accept
  <2>1. /\ UNCHANGED <<queue, delivered, fills>>
        /\ pc' \in {"persist", "rejected"}
    BY <1>9 DEF PostOrder, ClobError, Work, Goto, js_vars, exchange
  <2> QED
    BY <1>0, <2>1, CountStutter
<1>10. CASE Accept
  <2> DEFINE n == Len(fills) + 1
             new == [event |-> cur, age |-> 0, unseen |-> FALSE]
  <2>1. /\ UNCHANGED <<queue, delivered, cur>> /\ pc = "post" /\ pc' = "accepted"
        /\ fills' = Append(fills, new) /\ fills \in Seq(Fill)
    BY <1>10 DEF Accept, Work, Goto, js_vars, TypeOK
  <2>2. /\ Len(fills) \in Nat /\ Len(fills') = n
        /\ fills'[n].event = cur
        /\ \A i \in 1..Len(fills) : fills'[i] = fills[i]
    BY <2>1
  <2> SUFFICES ASSUME NEW e \in Events
               PROVE  Cardinality(FillsOf(e)') + Cardinality(Copies(e)') + Unsent(e)'
                        <= delivered'[e]
    BY DEF CountInv
  <2>3. n \notin FillsOf(e) /\ FillsOf(e)' = IF cur = e THEN FillsOf(e) \cup {n} ELSE FillsOf(e)
    BY <2>2 DEF FillsOf
  <2>4. Cardinality(FillsOf(e) \cup {n}) = Cardinality(FillsOf(e)) + 1
    BY <2>3, Countable, FS_AddElement
  <2>5. Cardinality(FillsOf(e)') = Cardinality(FillsOf(e)) + Unsent(e)
    BY <2>1, <2>3, <2>4, Countable DEF Unsent
  <2>6. Unsent(e)' = 0 /\ Copies(e)' = Copies(e) /\ delivered'[e] = delivered[e]
    BY <2>1 DEF Unsent, Copies
  <2>7. Cardinality(FillsOf(e)) + Cardinality(Copies(e)) + Unsent(e) <= delivered[e]
    BY DEF CountInv
  <2>8. Unsent(e) \in Nat
    BY DEF Unsent
  <2> QED
    BY <2>5, <2>6, <2>7, <2>8, Countable
<1> QED
  BY <1>1, <1>11, <1>2, <1>3, <1>4, <1>5, <1>6, <1>7, <1>8, <1>9, <1>10 DEF Next, Handle, PostOrder

\* Redelivery may send the same order again, but never more often than the
\* server delivered it, for any number of deliveries.
THEOREM OrdersAreDelivered == Spec => []OneOrderPerDelivery
<1>1. Init => CountInv
  <2> SUFFICES ASSUME Init, NEW e \in Events
               PROVE  Cardinality(FillsOf(e)) + Cardinality(Copies(e)) + Unsent(e) <= delivered[e]
    BY DEF CountInv
  <2>1. FillsOf(e) = {} /\ Copies(e) = {} /\ Unsent(e) = 0 /\ delivered[e] = 0
    BY DEF Init, AgentInit, JSInit, FillsOf, Copies, Unsent
  <2> QED
    BY <2>1, FS_EmptySet
<1>2. TypeOK /\ CountInv => OneOrderPerDelivery
  <2> SUFFICES ASSUME TypeOK, CountInv, NEW e \in Events
               PROVE  Cardinality(FillsOf(e)) + Cardinality(Copies(e)) <= delivered[e]
    BY DEF OneOrderPerDelivery, Copies
  <2>1. Unsent(e) \in Nat
    BY DEF Unsent
  <2> QED
    BY <2>1, Countable DEF CountInv
<1> QED
  BY <1>1, <1>2, TypeCorrect, CountInductive, PTL DEF Spec

(***************************************************************************)
(* Refinement.                                                             *)
(***************************************************************************)

\* What is queued or in hand is due.
LEMMA DeliveryInvariant == Spec => []DeliveryInv
<1>1. Init => DeliveryInv
  BY AgentInitDelivery DEF Init
<1>2. TypeOK /\ DeliveryInv /\ [Next]_vars => DeliveryInv'
  BY NextIsAgentStep, AgentStepDelivery, StepsAreOwn DEF TypeOK
<1> QED
  BY <1>1, <1>2, TypeCorrect, PTL DEF Spec

\* For Pipeline the agent is a Stage: it subscribes, it is given events, and it
\* decides and announces the event in hand, which is due and not finished with.
THEOREM RefinesStage == Spec => ImplementsStage
<1>1. Init => StageOf(Outcome)!Init
  BY AgentInitStage DEF Init
<1>2. TypeOK /\ DecisionInv /\ DeliveryInv /\ [Next]_vars
        => [StageOf(Outcome)!Next]_(StageOf(Outcome)!vars)
  <2> SUFFICES ASSUME TypeOK, DecisionInv, DeliveryInv, [Next]_vars
               PROVE  [StageOf(Outcome)!Next]_(StageOf(Outcome)!vars)
    OBVIOUS
  <2>1. StageStep(Outcome)
    BY NextIsAgentStep, AgentStepStage, StepsAreOwn, NoOutcomeAssumption DEF TypeOK
  <2>2. due \subseteq Events
    BY DEF TypeOK, AgentTypeOK, JSTypeOK
  <2> QED
    BY <2>1, <2>2, StageStepIsStep
<1> QED
  BY <1>1, <1>2, TypeCorrect, DecisionInvariant, DeliveryInvariant, PTL
     DEF Spec, ImplementsStage
=============================================================================
