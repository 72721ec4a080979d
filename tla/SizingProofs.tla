---------------------------- MODULE SizingProofs ----------------------------
(***************************************************************************)
(* Theorems about Sizing, checked by TLAPS.                                *)
(***************************************************************************)
EXTENDS Sizing, DurableAgentProofs

(***************************************************************************)
(* Rounding to quanta.                                                     *)
(***************************************************************************)

\* A number is its whole quanta and the rest.
LEMMA Division ==
  ASSUME NEW x \in Nat
  PROVE  /\ x \div Fine \in Nat
         /\ x % Fine \in 0..(Fine - 1)
         /\ x = (x \div Fine) * Fine + (x % Fine)
  BY SizingAssumption

\* Quanta compare as their parts do.
LEMMA Cancel ==
  ASSUME NEW m \in Nat, NEW n \in Nat, m * Fine <= n * Fine
  PROVE  m <= n
  BY SizingAssumption

\* The same the other way round.
LEMMA Monotone ==
  ASSUME NEW m \in Nat, NEW n \in Nat, m <= n
  PROVE  m * Fine <= n * Fine
  BY SizingAssumption

\* A multiple of the quantum above x is above x rounded.
LEMMA QuantizeBelow ==
  ASSUME NEW x \in Nat, NEW n \in Nat, x <= n * Fine
  PROVE  Quantize(x) <= n
<1> DEFINE q == x \div Fine
           r == x % Fine
<1>1. q \in Nat /\ r \in 0..(Fine - 1) /\ x = q * Fine + r
  BY Division
<1>2. q * Fine \in Nat /\ n * Fine \in Nat /\ Fine \in Nat \ {0}
  BY <1>1, SizingAssumption
<1> HIDE DEF q, r
<1>3. q <= n
  BY <1>1, <1>2, Cancel
<1>4. Quantize(x) \in {q, q + 1} /\ (r = 0 => Quantize(x) = q)
  BY <1>1, <1>2 DEF Quantize, q, r
<1>5. CASE q = n
  BY <1>1, <1>2, <1>4, <1>5
<1>6. CASE q < n
  BY <1>1, <1>4, <1>6
<1> QED
  BY <1>1, <1>3, <1>5, <1>6

\* A multiple of the quantum below x is below x rounded.
LEMMA QuantizeAbove ==
  ASSUME NEW x \in Nat, NEW n \in Nat, n * Fine <= x
  PROVE  n <= Quantize(x)
<1> DEFINE q == x \div Fine
           r == x % Fine
<1>1. q \in Nat /\ r \in 0..(Fine - 1) /\ x = q * Fine + r
  BY Division
<1>2. /\ q * Fine \in Nat /\ n * Fine \in Nat /\ Fine \in Nat \ {0}
      /\ (q + 1) * Fine = q * Fine + Fine
  BY <1>1, SizingAssumption
<1> HIDE DEF q, r
<1>3. n <= q
  <2>1. CASE q + 1 <= n
    <3>1. (q + 1) * Fine <= n * Fine
      BY <1>1, <2>1, Monotone
    <3> QED
      BY <1>1, <1>2, <3>1
  <2> QED
    BY <1>1, <2>1
<1>4. Quantize(x) \in {q, q + 1}
  BY <1>1, <1>2 DEF Quantize, q, r
<1> QED
  BY <1>1, <1>3, <1>4

\* Rounding moves x by half a quantum at most.
LEMMA QuantizeNear ==
  ASSUME NEW x \in Nat
  PROVE  /\ Quantize(x) \in Nat
         /\ 2 * x <= 2 * Quantize(x) * Fine + Fine
         /\ 2 * Quantize(x) * Fine <= 2 * x + Fine
<1> DEFINE q == x \div Fine
           r == x % Fine
<1>1. q \in Nat /\ r \in 0..(Fine - 1) /\ x = q * Fine + r
  BY Division
<1>2. /\ q * Fine \in Nat /\ Fine \in Nat \ {0}
      /\ 2 * (q + 1) * Fine = 2 * (q * Fine) + 2 * Fine
      /\ 2 * q * Fine = 2 * (q * Fine)
  BY <1>1, SizingAssumption
<1> HIDE DEF q, r
<1>3. CASE Quantize(x) = q
  <2>1. 2 * r <= Fine
    BY <1>1, <1>2, <1>3 DEF Quantize, q, r
  <2> QED
    BY <1>1, <1>2, <1>3, <2>1
<1>4. CASE Quantize(x) = q + 1
  <2>1. 2 * r >= Fine
    BY <1>1, <1>2, <1>4 DEF Quantize, q, r
  <2> QED
    BY <1>1, <1>2, <1>4, <2>1
<1> QED
  BY <1>1, <1>3, <1>4 DEF Quantize, q, r

\* The scaled size under its cap, before rounding.
LEMMA CappedBounds ==
  ASSUME NEW e \in Events, NEW s \in Configs
  PROVE  /\ Capped(e, s) \in Nat
         /\ Capped(e, s) <= s.max
         /\ Capped(e, s) <= Original[e] * s.ratio
<1>1. s.max \in Nat /\ s.ratio \in Nat /\ Original[e] \in Nat
  BY SizingAssumption DEF Settings
<1>2. Original[e] * s.ratio \in Nat
  BY <1>1
<1> QED
  BY <1>1, <1>2 DEF Capped

\* The size of an order is a result, 0 when it is skipped.
LEMMA SizeType ==
  ASSUME NEW e \in Events, NEW s \in Configs
  PROVE  Size(e, s) \in Nat /\ Size(e, s) \in Results
  BY CappedBounds, QuantizeNear DEF Size, Skipped, Results

\* The size of an order fits the settings it was worked out with.
LEMMA SizeFits ==
  ASSUME NEW e \in Events, NEW s \in Configs, Size(e, s) # Skipped
  PROVE  Fits(Size(e, s), e, s)
<1> DEFINE x == Capped(e, s)
           n == Quantize(x)
<1>1. /\ s.max \in Nat /\ s.min \in Nat /\ s.ratio \in Nat
      /\ Original[e] \in Nat /\ Fine \in Nat \ {0}
  BY SizingAssumption DEF Settings
<1>2. x \in Nat /\ x <= s.max /\ x <= Original[e] * s.ratio
  BY CappedBounds
<1>3. Size(e, s) = n /\ s.min <= x
  BY <1>1, <1>2 DEF Size, BelowMin
<1>4. n \in Nat /\ 2 * x <= 2 * n * Fine + Fine /\ 2 * n * Fine <= 2 * x + Fine
  BY <1>2, QuantizeNear
<1> HIDE DEF x, n
<1>5. 2 * n * Fine \in Nat /\ n * Fine \in Nat
  BY <1>1, <1>4
<1>6. 2 * s.min <= 2 * n * Fine + Fine /\ 2 * n * Fine <= 2 * s.max + Fine
  BY <1>1, <1>2, <1>3, <1>4, <1>5
<1>7. ASSUME s.min % Fine = 0
      PROVE  s.min <= n * Fine
  <2> DEFINE k == s.min \div Fine
  <2>1. k \in Nat /\ s.min = k * Fine
    <3>1. k \in Nat /\ s.min = k * Fine + (s.min % Fine)
      BY <1>1, Division
    <3>2. k * Fine \in Nat
      BY <1>1, <3>1
    <3> HIDE DEF k
    <3> QED
      BY <1>7, <3>1, <3>2
  <2> HIDE DEF k
  <2>2. k <= n
    BY <1>2, <1>3, <2>1, QuantizeAbove DEF n
  <2> QED
    BY <1>4, <2>1, <2>2, Monotone
<1>8. ASSUME s.max % Fine = 0
      PROVE  n * Fine <= s.max
  <2> DEFINE k == s.max \div Fine
  <2>1. k \in Nat /\ s.max = k * Fine
    <3>1. k \in Nat /\ s.max = k * Fine + (s.max % Fine)
      BY <1>1, Division
    <3>2. k * Fine \in Nat
      BY <1>1, <3>1
    <3> HIDE DEF k
    <3> QED
      BY <1>8, <3>1, <3>2
  <2> HIDE DEF k
  <2>2. n <= k
    BY <1>2, <2>1, QuantizeBelow DEF n
  <2> QED
    BY <1>4, <2>1, <2>2, Monotone
<1>9. ASSUME s.ratio <= Fine
      PROVE  n <= Original[e]
  <2>1. Original[e] * s.ratio <= Original[e] * Fine
    BY <1>1, <1>9
  <2>2. x <= Original[e] * Fine
    <3>1. Original[e] * s.ratio \in Nat /\ Original[e] * Fine \in Nat
      BY <1>1
    <3> QED
      BY <1>2, <2>1, <3>1
  <2> QED
    BY <1>1, <1>2, <2>2, QuantizeBelow DEF n
<1> QED
  BY <1>3, <1>6, <1>7, <1>8, <1>9 DEF Fits

(***************************************************************************)
(* The agent is a DurableAgent.                                            *)
(***************************************************************************)

\* The steps of the sizing agent are none of the skeleton's.
LEMMA StepsAreOwn == OwnSteps(Steps)
  BY DEF OwnSteps, Steps

\* The absence of a result is no size.
LEMMA NoResultIsNoDecision == NoResult \notin Results
<1>1. Results \subseteq Nat
  BY SizeType DEF Results
<1> QED
  BY <1>1, SizingAssumption

\* Whatever the sizing agent does is a step of the skeleton or leaves it alone.
LEMMA NextIsAgentStep ==
  ASSUME TypeOK, [Next]_vars
  PROVE  AgentNext(Results, Steps) \/ UNCHANGED durable_vars
<1>1. CASE Start \/ Crash \/ UNCHANGED vars
  BY <1>1 DEF Start, Crash, AgentNext, vars
<1>2. ASSUME NEW e \in Events, OrderApproved(e) \/ Redeliver(e)
      PROVE  AgentNext(Results, Steps)
  BY <1>2 DEF OrderApproved, Redeliver, AgentNext
<1>3. CASE Receive \/ DecideFails
  BY <1>3 DEF Receive, DecideFails, AgentNext, Steps
<1>4. CASE Decide
  <2>1. Size(cur, settings) \in Results
    BY <1>4, SizeType DEF Decide, TypeOK, AgentTypeOK
  <2> QED
    BY <1>4, <2>1 DEF Decide, AgentNext, Steps
<1>5. CASE Persist \/ PersistFails \/ PublishSizing \/ PublishFails \/ Ack
  BY <1>5 DEF Persist, PersistFails, PublishSizing, PublishFails, Ack, AgentNext
<1> QED
  BY <1>1, <1>2, <1>3, <1>4, <1>5 DEF Next, Handle

\* The running settings are some the operator may choose.
LEMMA SettingsType ==
  ASSUME TypeOK, [Next]_vars
  PROVE  settings' \in Configs
  BY DEF TypeOK, Next, Handle, Start, Crash, OrderApproved, Redeliver, Receive, Decide,
         DecideFails, Persist, PersistFails, PublishSizing, PublishFails, Ack, vars

\* Every variable keeps its type.
THEOREM TypeCorrect == Spec => []TypeOK
<1>1. Init => TypeOK
  BY AgentInitType DEF Init, TypeOK
<1>2. TypeOK /\ [Next]_vars => TypeOK'
  <2> SUFFICES ASSUME TypeOK, [Next]_vars
               PROVE  TypeOK'
    OBVIOUS
  <2>1. AgentTypeOK(Results, Steps)'
    BY NextIsAgentStep, AgentStepType, StepsAreOwn DEF TypeOK
  <2> QED
    BY <2>1, SettingsType DEF TypeOK
<1> QED
  BY <1>1, <1>2, PTL DEF Spec

\* The sizing agent keeps DecisionInv.
LEMMA DecisionInvariant == Spec => []DecisionInv
<1>1. Init => DecisionInv
  BY AgentInitDecision DEF Init
<1>2. TypeOK /\ DecisionInv /\ [Next]_vars => DecisionInv'
  BY NextIsAgentStep, AgentStepDecision, StepsAreOwn, NoResultIsNoDecision DEF TypeOK
<1> QED
  BY <1>1, <1>2, TypeCorrect, PTL DEF Spec

\* A skipped or sized order is published at most once, as the table says,
\* and acknowledged only when it is in the table.
THEOREM PublishedOnce == Spec => [](PublishedOnceAsPersisted /\ AckedArePersisted)
<1>1. DecisionInv => PublishedOnceAsPersisted /\ AckedArePersisted
  BY DEF DecisionInv
<1> QED
  BY <1>1, DecisionInvariant, PTL

(***************************************************************************)
(* What the sizes are.                                                     *)
(***************************************************************************)

\* The size in hand is that of the order under the settings of the process,
\* the size of a row that of the order under some settings.
SizeInv ==
  /\ pc = "persist" => result = Size(cur, settings)
  /\ \A e \in Events : rows[e] # NoResult => \E s \in Configs : rows[e] = Size(e, s)

\* Every step keeps SizeInv.
LEMMA SizeInductive == TypeOK /\ SizeInv /\ [Next]_vars => SizeInv'
<1> SUFFICES ASSUME TypeOK, SizeInv, [Next]_vars
             PROVE  SizeInv'
  OBVIOUS
<1>1. CASE Start \/ Crash \/ UNCHANGED vars
  BY <1>1
     DEF Start, StartAgent, Crash, CrashAgent, TypeOK, AgentTypeOK, SizeInv, vars, durable_vars,
         agent_vars, tables
<1>2. ASSUME NEW e \in Events, OrderApproved(e) \/ Redeliver(e)
      PROVE  SizeInv'
  BY <1>2 DEF OrderApproved, Upstream, Redeliver, Push, SizeInv, agent_vars, tables
<1>3. CASE Receive \/ Decide \/ DecideFails
  BY <1>3
     DEF Receive, TakeUp, Decide, Work, Goto, DecideFails, WorkFails, Leave, SizeInv, tables
<1>4. CASE Persist \/ PersistFails
  <2>1. pc = "persist" /\ pc' # "persist"
    BY <1>4 DEF Persist, PersistRow, PersistFails, PersistRowFails, Goto, Leave
  <2>2. rows' = rows \/ InsertRow
    BY <1>4 DEF Persist, PersistRow, PersistFails, PersistRowFails
  <2>3. result = Size(cur, settings) /\ settings \in Configs /\ rows \in [Events -> Results \cup {NoResult}]
    BY <2>1 DEF SizeInv, TypeOK, AgentTypeOK
  <2> QED
    BY <2>1, <2>2, <2>3 DEF InsertRow, SizeInv
<1>5. CASE PublishSizing \/ PublishFails \/ Ack
  BY <1>5
     DEF PublishSizing, PublishRow, PublishFails, PublishRowFails, Ack, AckEvent, Goto, Leave,
         SizeInv, tables
<1> QED
  BY <1>1, <1>2, <1>3, <1>4, <1>5 DEF Next, Handle

\* Every size that is persisted, and so every size that is published and
\* spent, is within the floor and the cap and not above the observed trade,
\* up to half a quantum where the settings are finer than that.
THEOREM SizesAreWithinLimits == Spec => []SizesFit
<1>1. Init => SizeInv
  BY DEF Init, AgentInit, SizeInv
<1>2. TypeOK /\ SizeInv => SizesFit
  BY SizeFits DEF TypeOK, AgentTypeOK, SizeInv, SizesFit
<1> QED
  BY <1>1, <1>2, TypeCorrect, SizeInductive, PTL DEF Spec

(***************************************************************************)
(* Refinement.                                                             *)
(***************************************************************************)

\* What is queued or in hand is due.
LEMMA DeliveryInvariant == Spec => []DeliveryInv
<1>1. Init => DeliveryInv
  BY AgentInitDelivery DEF Init
<1>2. TypeOK /\ DeliveryInv /\ [Next]_vars => DeliveryInv'
  BY NextIsAgentStep, AgentStepDelivery, StepsAreOwn DEF TypeOK
<1> QED
  BY <1>1, <1>2, TypeCorrect, PTL DEF Spec

\* For Pipeline the agent is a Stage, whatever settings the process is started
\* with.
THEOREM RefinesStage == Spec => ImplementsStage
<1>1. Init => StageOf(Results)!Init
  BY AgentInitStage DEF Init
<1>2. TypeOK /\ DecisionInv /\ DeliveryInv /\ [Next]_vars
        => [StageOf(Results)!Next]_(StageOf(Results)!vars)
  <2> SUFFICES ASSUME TypeOK, DecisionInv, DeliveryInv, [Next]_vars
               PROVE  [StageOf(Results)!Next]_(StageOf(Results)!vars)
    OBVIOUS
  <2>1. StageStep(Results)
    BY NextIsAgentStep, AgentStepStage, StepsAreOwn, NoResultIsNoDecision DEF TypeOK
  <2>2. due \subseteq Events
    BY DEF TypeOK, AgentTypeOK, JSTypeOK
  <2> QED
    BY <2>1, <2>2, StageStepIsStep
<1> QED
  BY <1>1, <1>2, TypeCorrect, DecisionInvariant, DeliveryInvariant, PTL
     DEF Spec, ImplementsStage
=============================================================================
