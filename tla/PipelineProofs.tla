--------------------------- MODULE PipelineProofs ---------------------------
(***************************************************************************)
(* Of any number of trades and sizes: what is executed was sized, approved *)
(* and published, and the four tables agree on it.  Each stage keeps its   *)
(* invariant; Wiring says how the streams between them hang together with  *)
(* what was announced.                                                     *)
(***************************************************************************)
EXTENDS Pipeline, TLAPS

\* Risk decides and announces only what is due, whatever the order of its steps.
LEMMA RiskKept ==
  ASSUME Risk!Inv
  PROVE  /\ Risk!Subscribe => Risk!Inv'
         /\ \A t \in Trades : Risk!Store(t) => Risk!Inv'
         /\ \A t \in Trades : Risk!Step(t) => Risk!Inv'
<1> USE DEF Risk!Inv, Risk!TypeOK, Risk!DecidedAreDue, Risk!AnnouncedAsDecided
<1>1. Risk!Subscribe => Risk!Inv'
  BY DEF Risk!Subscribe
<1>2. ASSUME NEW t \in Trades, Risk!Store(t)
      PROVE  Risk!Inv'
  BY <1>2 DEF Risk!Store
<1>3. ASSUME NEW t \in Trades, Risk!Step(t)
      PROVE  Risk!Inv'
  <2>1. UNCHANGED Risk!inbox /\ risk_finished' \subseteq risk_due
    BY <1>3 DEF Risk!Step, Risk!Finish
  <2>2. CASE Risk!Announce(t)
    BY <2>1, <2>2 DEF Risk!Announce, Risk!inbox
  <2>3. ASSUME NEW d \in Verdicts, Risk!Decide(t, d)
        PROVE  Risk!Inv'
    BY <2>1, <2>3, PipelineAssumption DEF Risk!Decide, Risk!inbox
  <2>4. CASE UNCHANGED <<verdict, risk_out>>
    BY <2>1, <2>4 DEF Risk!inbox
  <2> QED
    BY <1>3, <2>2, <2>3, <2>4 DEF Risk!Step
<1> QED
  BY <1>1, <1>2, <1>3

\* A step of Risk is about one trade, and takes nothing back.
LEMMA RiskLocal ==
  ASSUME Risk!Inv, NEW t \in Trades, Risk!Step(t), NEW u \in Trades
  PROVE  /\ risk_stream' = risk_stream
         /\ u # t => verdict'[u] = verdict[u] /\ risk_out'[u] = risk_out[u]
         /\ risk_out[u] # <<>> => risk_out'[u] = risk_out[u]
         /\ verdict[u] # NoDecision => verdict'[u] = verdict[u]
  BY DEF Risk!Step, Risk!Announce, Risk!Decide, Risk!inbox, Risk!Inv, Risk!TypeOK

\* When Risk's variables stay as they are, so does its invariant.
LEMMA RiskStutter == Risk!Inv /\ UNCHANGED risk_vars => Risk!Inv'
  BY DEF risk_vars, Risk!Inv, Risk!TypeOK, Risk!DecidedAreDue, Risk!AnnouncedAsDecided

\* Sizing decides and announces only what is due, whatever the order of its steps.
LEMMA SizingKept ==
  ASSUME Sizing!Inv
  PROVE  /\ Sizing!Subscribe => Sizing!Inv'
         /\ \A t \in Trades : Sizing!Store(t) => Sizing!Inv'
         /\ \A t \in Trades : Sizing!Step(t) => Sizing!Inv'
<1> USE DEF Sizing!Inv, Sizing!TypeOK, Sizing!DecidedAreDue, Sizing!AnnouncedAsDecided
<1>1. Sizing!Subscribe => Sizing!Inv'
  BY DEF Sizing!Subscribe
<1>2. ASSUME NEW t \in Trades, Sizing!Store(t)
      PROVE  Sizing!Inv'
  BY <1>2 DEF Sizing!Store
<1>3. ASSUME NEW t \in Trades, Sizing!Step(t)
      PROVE  Sizing!Inv'
  <2>1. UNCHANGED Sizing!inbox /\ sizing_finished' \subseteq sizing_due
    BY <1>3 DEF Sizing!Step, Sizing!Finish
  <2>2. CASE Sizing!Announce(t)
    BY <2>1, <2>2 DEF Sizing!Announce, Sizing!inbox
  <2>3. ASSUME NEW d \in Sizings, Sizing!Decide(t, d)
        PROVE  Sizing!Inv'
    BY <2>1, <2>3, PipelineAssumption DEF Sizing!Decide, Sizing!inbox
  <2>4. CASE UNCHANGED <<sizing, sizing_out>>
    BY <2>1, <2>4 DEF Sizing!inbox
  <2> QED
    BY <1>3, <2>2, <2>3, <2>4 DEF Sizing!Step
<1> QED
  BY <1>1, <1>2, <1>3

\* A step of Sizing is about one trade, and takes nothing back.
LEMMA SizingLocal ==
  ASSUME Sizing!Inv, NEW t \in Trades, Sizing!Step(t), NEW u \in Trades
  PROVE  /\ sizing_stream' = sizing_stream
         /\ u # t => sizing'[u] = sizing[u] /\ sizing_out'[u] = sizing_out[u]
         /\ sizing_out[u] # <<>> => sizing_out'[u] = sizing_out[u]
         /\ sizing[u] # NoDecision => sizing'[u] = sizing[u]
  BY DEF Sizing!Step, Sizing!Announce, Sizing!Decide, Sizing!inbox, Sizing!Inv, Sizing!TypeOK

\* When Sizing's variables stay as they are, so does its invariant.
LEMMA SizingStutter == Sizing!Inv /\ UNCHANGED sizing_vars => Sizing!Inv'
  BY DEF sizing_vars, Sizing!Inv, Sizing!TypeOK, Sizing!DecidedAreDue, Sizing!AnnouncedAsDecided

\* Executor decides and announces only what is due, whatever the order of its steps.
LEMMA ExecKept ==
  ASSUME Exec!Inv
  PROVE  /\ Exec!Subscribe => Exec!Inv'
         /\ \A t \in Trades : Exec!Store(t) => Exec!Inv'
         /\ \A t \in Trades : Exec!Step(t) => Exec!Inv'
<1> USE DEF Exec!Inv, Exec!TypeOK, Exec!DecidedAreDue, Exec!AnnouncedAsDecided
<1>1. Exec!Subscribe => Exec!Inv'
  BY DEF Exec!Subscribe
<1>2. ASSUME NEW t \in Trades, Exec!Store(t)
      PROVE  Exec!Inv'
  BY <1>2 DEF Exec!Store
<1>3. ASSUME NEW t \in Trades, Exec!Step(t)
      PROVE  Exec!Inv'
  <2>1. UNCHANGED Exec!inbox /\ exec_finished' \subseteq exec_due
    BY <1>3 DEF Exec!Step, Exec!Finish
  <2>2. CASE Exec!Announce(t)
    BY <2>1, <2>2 DEF Exec!Announce, Exec!inbox
  <2>3. ASSUME NEW d \in Outcomes, Exec!Decide(t, d)
        PROVE  Exec!Inv'
    BY <2>1, <2>3, PipelineAssumption DEF Exec!Decide, Exec!inbox
  <2>4. CASE UNCHANGED <<outcome, exec_out>>
    BY <2>1, <2>4 DEF Exec!inbox
  <2> QED
    BY <1>3, <2>2, <2>3, <2>4 DEF Exec!Step
<1> QED
  BY <1>1, <1>2, <1>3

\* A step of Executor is about one trade, and takes nothing back.
LEMMA ExecLocal ==
  ASSUME Exec!Inv, NEW t \in Trades, Exec!Step(t), NEW u \in Trades
  PROVE  /\ exec_stream' = exec_stream
         /\ u # t => outcome'[u] = outcome[u] /\ exec_out'[u] = exec_out[u]
         /\ exec_out[u] # <<>> => exec_out'[u] = exec_out[u]
         /\ outcome[u] # NoDecision => outcome'[u] = outcome[u]
  BY DEF Exec!Step, Exec!Announce, Exec!Decide, Exec!inbox, Exec!Inv, Exec!TypeOK

\* When Executor's variables stay as they are, so does its invariant.
LEMMA ExecStutter == Exec!Inv /\ UNCHANGED exec_vars => Exec!Inv'
  BY DEF exec_vars, Exec!Inv, Exec!TypeOK, Exec!DecidedAreDue, Exec!AnnouncedAsDecided
-----------------------------------------------------------------------------
\* What is in a stream is what the stage before announced, or published.
Wiring ==
  \A t \in Trades :
    /\ t \in risk_stream => detection[t] = "published"
    /\ t \in sizing_stream => risk_out[t] = <<"approved">>
    /\ t \in exec_stream => \E s \in Sizes : sizing_out[t] = <<s>>
    /\ outcome[t] # NoDecision => sizing_out[t] = <<outcome[t].size>>

PipeInv ==
  /\ faults \subseteq Faults
  /\ detection \in [Trades -> {"unseen", "stored", "published", "silent"}]
  /\ Risk!Inv /\ Sizing!Inv /\ Exec!Inv
  /\ Wiring

\* Before anything happened.
LEMMA PipeInit == Init => PipeInv
<1> SUFFICES ASSUME Init
             PROVE  PipeInv
  OBVIOUS
<1>0. <<>> \in Seq(Verdicts) /\ <<>> \in Seq(Sizings) /\ <<>> \in Seq(Outcomes)
  OBVIOUS
<1>1. Risk!Inv
  BY <1>0 DEF Init, Risk!Init, Risk!Inv, Risk!TypeOK, Risk!DecidedAreDue, Risk!AnnouncedAsDecided
<1>2. Sizing!Inv
  BY <1>0 DEF Init, Sizing!Init, Sizing!Inv, Sizing!TypeOK, Sizing!DecidedAreDue, Sizing!AnnouncedAsDecided
<1>3. Exec!Inv
  BY <1>0 DEF Init, Exec!Init, Exec!Inv, Exec!TypeOK, Exec!DecidedAreDue, Exec!AnnouncedAsDecided
<1>4. Wiring
  BY DEF Init, Wiring, Risk!Init, Sizing!Init, Exec!Init
<1> QED
  BY <1>1, <1>2, <1>3, <1>4 DEF Init, PipeInv

\* Every step of the pipeline keeps the stages' invariants and the wiring.
LEMMA PipeInductive == PipeInv /\ [Next]_vars => PipeInv'
<1> SUFFICES ASSUME PipeInv, [Next]_vars
             PROVE  PipeInv'
  OBVIOUS
<1> USE DEF PipeInv
<1>1. CASE Subscribe
  <2>1. Risk!Inv' /\ Sizing!Inv' /\ Exec!Inv'
    BY <1>1, RiskKept, SizingKept, ExecKept, RiskStutter, SizingStutter, ExecStutter DEF Subscribe
  <2>2. Wiring'
    BY <1>1 DEF Subscribe, Risk!Subscribe, Sizing!Subscribe, Exec!Subscribe,
                risk_vars, sizing_vars, exec_vars, Wiring
  <2> QED
    BY <1>1, <2>1, <2>2 DEF Subscribe
<1>2. ASSUME NEW t \in Trades, StoreTrade(t) \/ TradeUnpublished(t) \/ Backfilled(t)
      PROVE  PipeInv'
  <2>1. /\ UNCHANGED <<faults, risk_vars, sizing_vars, exec_vars>>
        /\ detection[t] # "published"
        /\ \E after \in {"stored", "silent"} : detection' = [detection EXCEPT ![t] = after]
    BY <1>2 DEF StoreTrade, TradeUnpublished, Backfilled, Detects
  <2>2. Risk!Inv' /\ Sizing!Inv' /\ Exec!Inv'
    BY <2>1, RiskStutter, SizingStutter, ExecStutter
  <2>3. Wiring'
    BY <2>1 DEF risk_vars, sizing_vars, exec_vars, Wiring
  <2> QED
    BY <2>1, <2>2, <2>3
<1>3. ASSUME NEW t \in Trades, PublishTrade(t)
      PROVE  PipeInv'
  <2>1. /\ detection' = [detection EXCEPT ![t] = "published"]
        /\ Risk!Store(t)
        /\ UNCHANGED <<faults, sizing_vars, exec_vars>>
    BY <1>3 DEF PublishTrade, Detects
  <2>2. Risk!Inv' /\ Sizing!Inv' /\ Exec!Inv'
    BY <2>1, RiskKept, SizingStutter, ExecStutter
  <2>3. Wiring'
    BY <2>1 DEF Risk!Store, sizing_vars, exec_vars, Wiring
  <2> QED
    BY <2>1, <2>2, <2>3
<1>4. ASSUME NEW t \in Trades, RiskStep(t)
      PROVE  PipeInv'
  <2>1. /\ Risk!Step(t)
        /\ \/ risk_out'[t] = <<"approved">> /\ Sizing!Store(t)
           \/ UNCHANGED sizing_vars
        /\ UNCHANGED <<faults, detection, exec_vars>>
    BY <1>4 DEF RiskStep, Forwarded
  <2>2. Risk!Inv' /\ Sizing!Inv' /\ Exec!Inv'
    BY <2>1, RiskKept, SizingKept, SizingStutter, ExecStutter
  <2>3. sizing' = sizing /\ sizing_out' = sizing_out
    BY <2>1 DEF Sizing!Store, sizing_vars
  <2>4. ASSUME NEW u \in Trades, u \in sizing_stream'
        PROVE  risk_out'[u] = <<"approved">>
    BY <2>1, <2>4, RiskLocal DEF Sizing!Store, sizing_vars, Wiring
  <2>5. risk_stream' = risk_stream
    BY <2>1, RiskLocal
  <2>6. Wiring'
    BY <2>1, <2>3, <2>4, <2>5 DEF exec_vars, Wiring
  <2> QED
    BY <2>1, <2>2, <2>6
<1>5. ASSUME NEW t \in Trades, SizingStep(t)
      PROVE  PipeInv'
  <2>1. /\ Sizing!Step(t)
        /\ \/ (\E s \in Sizes : sizing_out'[t] = <<s>>) /\ Exec!Store(t)
           \/ UNCHANGED exec_vars
        /\ UNCHANGED <<faults, detection, risk_vars>>
    BY <1>5 DEF SizingStep, Forwarded
  <2>2. Risk!Inv' /\ Sizing!Inv' /\ Exec!Inv'
    BY <2>1, RiskStutter, SizingKept, ExecKept, ExecStutter
  <2>3. outcome' = outcome
    BY <2>1 DEF Exec!Store, exec_vars
  <2>4. ASSUME NEW u \in Trades, u \in exec_stream'
        PROVE  \E s \in Sizes : sizing_out'[u] = <<s>>
    BY <2>1, <2>4, SizingLocal DEF Exec!Store, exec_vars, Wiring
  <2>5. ASSUME NEW u \in Trades, outcome'[u] # NoDecision
        PROVE  sizing_out'[u] = <<outcome'[u].size>>
    BY <2>1, <2>3, <2>5, SizingLocal DEF Wiring
  <2>6. sizing_stream' = sizing_stream
    BY <2>1, SizingLocal
  <2>7. Wiring'
    BY <2>1, <2>4, <2>5, <2>6 DEF risk_vars, Wiring
  <2> QED
    BY <2>1, <2>2, <2>7
<1>6. ASSUME NEW t \in Trades, ExecutorStep(t)
      PROVE  PipeInv'
  <2>1. /\ Exec!Step(t)
        /\ outcome'[t] # NoDecision => <<outcome'[t].size>> = sizing_out[t]
        /\ UNCHANGED <<faults, detection, risk_vars, sizing_vars>>
    BY <1>6 DEF ExecutorStep
  <2>2. Risk!Inv' /\ Sizing!Inv' /\ Exec!Inv'
    BY <2>1, RiskStutter, SizingStutter, ExecKept
  <2>3. ASSUME NEW u \in Trades, outcome'[u] # NoDecision
        PROVE  sizing_out'[u] = <<outcome'[u].size>>
    BY <2>1, <2>3, ExecLocal DEF sizing_vars, Wiring
  <2>4. exec_stream' = exec_stream
    BY <2>1, ExecLocal
  <2>5. Wiring'
    BY <2>1, <2>3, <2>4 DEF risk_vars, sizing_vars, Wiring
  <2> QED
    BY <2>1, <2>2, <2>5
<1>7. CASE UNCHANGED vars
  <2>1. UNCHANGED <<faults, detection, risk_vars, sizing_vars, exec_vars>>
    BY <1>7 DEF vars
  <2>2. Wiring'
    BY <2>1 DEF risk_vars, sizing_vars, exec_vars, Wiring
  <2> QED
    BY <2>1, <2>2, RiskStutter, SizingStutter, ExecStutter
<1> QED
  BY <1>1, <1>2, <1>3, <1>4, <1>5, <1>6, <1>7 DEF Next

\* Hence they hold at all times.
LEMMA PipeInvariant == Spec => []PipeInv
  BY PipeInit, PipeInductive, PTL DEF Spec
-----------------------------------------------------------------------------
\* Every stream, table and message keeps its type.
THEOREM TypeCorrect == Spec => []TypeOK
<1>1. PipeInv => TypeOK
  BY DEF PipeInv, TypeOK, Risk!Inv, Sizing!Inv, Exec!Inv
<1> QED
  BY <1>1, PipeInvariant, PTL

\* Whatever is lost, and in whatever order the agents start, what Executor
\* executed is what Sizing recorded for a trade that Risk approved and
\* Watcher published.
THEOREM OrdersBacked == Spec => []OrdersAreBacked
<1>1. PipeInv => OrdersAreBacked
  <2> SUFFICES ASSUME PipeInv, NEW t \in Trades, outcome[t] # NoDecision
               PROVE  /\ sizing[t] = outcome[t].size
                      /\ verdict[t] = "approved"
                      /\ detection[t] = "published"
    BY DEF OrdersAreBacked
  <2>1. t \in exec_stream /\ sizing_out[t] = <<outcome[t].size>>
    BY DEF PipeInv, Exec!Inv, Exec!TypeOK, Exec!DecidedAreDue, Wiring
  <2>2. sizing[t] # NoDecision /\ sizing_out[t] = <<sizing[t]>>
    BY <2>1 DEF PipeInv, Sizing!Inv, Sizing!AnnouncedAsDecided
  <2>3. t \in sizing_stream
    BY <2>2 DEF PipeInv, Sizing!Inv, Sizing!TypeOK, Sizing!DecidedAreDue
  <2>4. risk_out[t] = <<"approved">>
    BY <2>3 DEF PipeInv, Wiring
  <2>5. verdict[t] # NoDecision /\ risk_out[t] = <<verdict[t]>>
    BY <2>4 DEF PipeInv, Risk!Inv, Risk!AnnouncedAsDecided
  <2>6. t \in risk_stream
    BY <2>5 DEF PipeInv, Risk!Inv, Risk!TypeOK, Risk!DecidedAreDue
  <2> QED
    BY <2>1, <2>2, <2>4, <2>5, <2>6 DEF PipeInv, Wiring
<1> QED
  BY <1>1, PipeInvariant, PTL
\* A step of Risk, to the eyes of the stages around it.
LEMMA RiskStepOnce ==
  ASSUME NEW t \in Trades, Risk!Step(t)
  PROVE  [Risk!Once!Next]_(Risk!Once!vars)
  BY DEF Risk!Step, Risk!Announce, Risk!Decide, Risk!Once!Next, Risk!Once!Announce, Risk!Once!Decide,
         Risk!Once!vars

\* A step of Sizing, to the eyes of the stages around it.
LEMMA SizingStepOnce ==
  ASSUME NEW t \in Trades, Sizing!Step(t)
  PROVE  [Sizing!Once!Next]_(Sizing!Once!vars)
  BY DEF Sizing!Step, Sizing!Announce, Sizing!Decide, Sizing!Once!Next, Sizing!Once!Announce, Sizing!Once!Decide,
         Sizing!Once!vars

\* A step of Executor, to the eyes of the stages around it.
LEMMA ExecStepOnce ==
  ASSUME NEW t \in Trades, Exec!Step(t)
  PROVE  [Exec!Once!Next]_(Exec!Once!vars)
  BY DEF Exec!Step, Exec!Announce, Exec!Decide, Exec!Once!Next, Exec!Once!Announce, Exec!Once!Decide,
         Exec!Once!vars

\* In the pipeline each of the three agents decides on a trade at most once,
\* never takes the decision back and announces at most that, in whatever
\* order they work and whatever is lost between them.
THEOREM EachDecidesOnce == Spec => Risk!Once!Spec /\ Sizing!Once!Spec /\ Exec!Once!Spec
<1>1. Init => Risk!Once!Init /\ Sizing!Once!Init /\ Exec!Once!Init
  BY DEF Init, Risk!Init, Sizing!Init, Exec!Init, Risk!Once!Init, Sizing!Once!Init,
         Exec!Once!Init
<1>2. [Next]_vars => /\ [Risk!Once!Next]_(Risk!Once!vars)
                     /\ [Sizing!Once!Next]_(Sizing!Once!vars)
                     /\ [Exec!Once!Next]_(Exec!Once!vars)
  <2> SUFFICES ASSUME [Next]_vars
               PROVE  /\ [Risk!Once!Next]_(Risk!Once!vars)
                      /\ [Sizing!Once!Next]_(Sizing!Once!vars)
                      /\ [Exec!Once!Next]_(Exec!Once!vars)
    OBVIOUS
  <2> USE DEF Risk!Once!vars, Sizing!Once!vars, Exec!Once!vars
  <2>1. CASE Subscribe \/ UNCHANGED vars
    BY <2>1 DEF Subscribe, Risk!Subscribe, Sizing!Subscribe, Exec!Subscribe,
                vars, risk_vars, sizing_vars, exec_vars
  <2>2. ASSUME NEW t \in Trades,
               StoreTrade(t) \/ PublishTrade(t) \/ TradeUnpublished(t) \/ Backfilled(t)
        PROVE  UNCHANGED <<verdict, risk_out, sizing, sizing_out, outcome, exec_out>>
    BY <2>2 DEF StoreTrade, PublishTrade, TradeUnpublished, Backfilled, Risk!Store,
                risk_vars, sizing_vars, exec_vars
  <2>3. ASSUME NEW t \in Trades, RiskStep(t)
        PROVE  /\ [Risk!Once!Next]_(Risk!Once!vars)
               /\ UNCHANGED <<sizing, sizing_out, outcome, exec_out>>
    BY <2>3, RiskStepOnce DEF RiskStep, Sizing!Store, sizing_vars, exec_vars
  <2>4. ASSUME NEW t \in Trades, SizingStep(t)
        PROVE  /\ [Sizing!Once!Next]_(Sizing!Once!vars)
               /\ UNCHANGED <<verdict, risk_out, outcome, exec_out>>
    BY <2>4, SizingStepOnce DEF SizingStep, Exec!Store, risk_vars, exec_vars
  <2>5. ASSUME NEW t \in Trades, ExecutorStep(t)
        PROVE  /\ [Exec!Once!Next]_(Exec!Once!vars)
               /\ UNCHANGED <<verdict, risk_out, sizing, sizing_out>>
    BY <2>5, ExecStepOnce DEF ExecutorStep, risk_vars, sizing_vars
  <2> QED
    BY <2>1, <2>2, <2>3, <2>4, <2>5 DEF Next
<1> QED
  BY <1>1, <1>2, PTL DEF Spec, Risk!Once!Spec, Sizing!Once!Spec, Exec!Once!Spec
=============================================================================
