------------------------------- MODULE Sizing -------------------------------
(***************************************************************************)
(* SizingAgent: consumes order.approved, scales the size of the observed   *)
(* trade, caps it, skips it below a floor, persists the decision in        *)
(* order_sizings and publishes it as order.sized or order.skipped.         *)
(*                                                                         *)
(* Money is quantized to 0.000001 USDC, a quantum.  The settings are       *)
(* Decimals of any scale: the cap and the floor are counted in parts, Fine *)
(* of which make a quantum, and the ratio in parts of 1.                   *)
(***************************************************************************)
EXTENDS DurableAgent

CONSTANTS
  Original,    \* trade.size_usdc of each event, in quanta
  Fine,        \* parts of a quantum
  Configs      \* settings an operator may start the agent with

\* sizing_proportion_ratio, sizing_max_size_usdc and sizing_min_size_usdc.
Settings == [ratio : Nat, max : Nat, min : Nat]

ASSUME SizingAssumption ==
  /\ Original \in [Events -> Nat]
  /\ Fine \in Nat \ {0}
  /\ Configs \subseteq Settings
  /\ Configs # {}
  /\ NoResult \notin Nat

VARIABLE
  settings     \* settings of the running process

vars == <<durable_vars, settings>>
-----------------------------------------------------------------------------
(* The arithmetic, in parts.                                               *)

\* Mutant: the larger of the two.
BugCapped(e, s) ==
  LET scaled == Original[e] * s.ratio IN IF scaled >= s.max THEN scaled ELSE s.max

Capped(e, s) ==
  LET scaled == Original[e] * s.ratio IN IF scaled <= s.max THEN scaled ELSE s.max

BelowMin(e, s) == Capped(e, s) < s.min

\* Decimal.quantize rounds to the nearest quantum and a half to the even one.
Quantize(x) ==
  LET whole == x \div Fine
      twice == 2 * (x % Fine)
  IN  IF twice < Fine \/ (twice = Fine /\ whole % 2 = 0) THEN whole ELSE whole + 1

\* A decision is the final size in quanta, or 0 for a skipped order, which
\* has none.
Skipped == 0

Size(e, s) == IF BelowMin(e, s) THEN Skipped ELSE Quantize(Capped(e, s))

\* OrderSizing rejects a size of nothing, and one scaled to nothing.
Constructible(e, s) == Original[e] > 0 /\ (BelowMin(e, s) \/ Size(e, s) > 0)
-----------------------------------------------------------------------------
Results == {Size(e, s) : e \in Events, s \in Configs}
Steps == {"size"}

TypeOK ==
  /\ AgentTypeOK(Results, Steps)
  /\ settings \in Configs

Init ==
  /\ AgentInit
  /\ settings \in Configs
-----------------------------------------------------------------------------
(* The callback.                                                           *)

Receive == TakeUp("size", NoResult) /\ UNCHANGED settings

\* _size and OrderSizing(...).
Decide ==
  /\ pc = "size"
  /\ Constructible(cur, settings)
  /\ Work("size", "persist", Size(cur, settings))
  /\ UNCHANGED settings

\* The ValueError of OrderSizing is not that of a poison message: no ack.
DecideFails ==
  /\ pc = "size"
  /\ ~Constructible(cur, settings)
  /\ WorkFails("size")
  /\ UNCHANGED settings

Persist == PersistRow /\ UNCHANGED settings
PersistFails == PersistRowFails /\ UNCHANGED settings
PublishSizing == PublishRow /\ UNCHANGED settings
PublishFails == PublishRowFails /\ UNCHANGED settings
Ack == AckEvent /\ UNCHANGED settings

Handle ==
  \/ Receive \/ Decide \/ DecideFails
  \/ Persist \/ PersistFails \/ PublishSizing \/ PublishFails \/ Ack
-----------------------------------------------------------------------------
\* Settings are read when the process starts.
Start == StartAgent /\ settings' \in Configs
Crash == CrashAgent /\ UNCHANGED settings

\* RiskAgent publishes order.approved.
OrderApproved(e) == Upstream(e) /\ UNCHANGED settings
Redeliver(e) == Push(e) /\ UNCHANGED settings

Next ==
  \/ Start \/ Crash \/ Handle
  \/ \E e \in Events : OrderApproved(e) \/ Redeliver(e)

Spec == Init /\ [][Next]_vars
-----------------------------------------------------------------------------
\* Final size n of order e under settings s: within the floor and the cap
\* but for half a quantum, which disappears when they are whole numbers of
\* quanta, and never more than the observed trade if the ratio is at most 1.
Fits(n, e, s) ==
  /\ 2 * s.min <= 2 * n * Fine + Fine
  /\ 2 * n * Fine <= 2 * s.max + Fine
  /\ s.min % Fine = 0 => s.min <= n * Fine
  /\ s.max % Fine = 0 => n * Fine <= s.max
  /\ s.ratio <= Fine => n <= Original[e]

\* The size in hand fits the settings of the process; the size of a row, and
\* so what Executor spends, those of some process that handled the order.
SizesFit ==
  /\ pc = "persist" /\ result # Skipped => Fits(result, cur, settings)
  /\ \A e \in Events :
       rows[e] \notin {NoResult, Skipped} => \E s \in Configs : Fits(rows[e], e, s)

\* An order is sized once, and announced once at most with the size that was
\* persisted, even if the settings changed between its deliveries, and only
\* an order that was delivered and is not finished with.
ImplementsStage ==
  StageOf(Results)!Init /\ [][StageOf(Results)!Next]_(StageOf(Results)!vars)
=============================================================================
