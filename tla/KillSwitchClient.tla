-------------------------- MODULE KillSwitchClient --------------------------
(***************************************************************************)
(* KillSwitch under an endless stream of orders: Web3CLOBExecutor.execute  *)
(* reduced to the calls it makes on the switch (check, then one of         *)
(* record_success and record_failure), on an exchange that may be broken   *)
(* at first and heal for good.  Ages make the state space finite without   *)
(* a bound on time or on the number of orders.                             *)
(***************************************************************************)
EXTENDS KillSwitch

CONSTANT
  Sizes        \* final_size_usdc of the orders offered

ASSUME SizesAssumption == Sizes \subseteq Nat \ {0}

VARIABLES
  in_flight,   \* size of the order between check and record, 0 for none
  accepted,    \* what the exchange accepted since the start of the process, as
               \* far as the answers arrived, oldest first, while in the window
  healthy      \* the exchange accepts every order from now on

client_vars == <<in_flight, accepted, healthy>>
switch_vars == <<ks_vars, client_vars>>

ClientInit ==
  /\ pause_file = FALSE
  /\ trades_24h = <<>>
  /\ consecutive_failures = 0
  /\ in_flight = 0
  /\ accepted = <<>>
  /\ healthy = FALSE

\* execute() starts on an order: the check passes it or blocks it.
Offer(size) ==
  LET trades == Evicted(trades_24h) IN
  /\ in_flight = 0
  /\ trades_24h' = trades
  /\ in_flight' = IF Passes(trades, size) THEN size ELSE 0
  /\ UNCHANGED <<pause_file, consecutive_failures, accepted, healthy>>

Succeed ==
  /\ in_flight # 0
  /\ RecordSuccess(in_flight)
  /\ accepted' = Append(accepted, [age |-> 0, size |-> in_flight])
  /\ in_flight' = 0
  /\ UNCHANGED healthy

Fail ==
  /\ in_flight # 0
  /\ ~healthy
  /\ RecordFailure
  /\ in_flight' = 0
  /\ UNCHANGED <<accepted, healthy>>

\* The process dies, with an order in flight or not, and starts again.
Restart ==
  /\ KSReset
  /\ in_flight' = 0
  /\ accepted' = <<>>
  /\ UNCHANGED <<pause_file, healthy>>

Heal ==
  /\ healthy' = TRUE
  /\ UNCHANGED <<ks_vars, in_flight, accepted>>

\* What has left the window, the oldest, is forgotten by the history variable.
Tick ==
  LET aged == Aged(accepted)
      gone == {i \in DOMAIN aged : aged[i].age > Window}
  IN
  /\ trades_24h' = Aged(trades_24h)
  /\ accepted' = SubSeq(aged, Cardinality(gone) + 1, Len(aged))
  /\ UNCHANGED <<pause_file, consecutive_failures, in_flight, healthy>>

TogglePause ==
  /\ pause_file' = ~pause_file
  /\ UNCHANGED <<trades_24h, consecutive_failures, client_vars>>

ClientNext ==
  \/ \E size \in Sizes : Offer(size)
  \/ Succeed \/ Fail \/ Restart \/ Heal \/ Tick \/ TogglePause

ClientSpec == ClientInit /\ [][ClientNext]_switch_vars

\* Orders keep coming, each one is answered, and time passes.
ClientFairness ==
  /\ \A size \in Sizes : SF_switch_vars(Offer(size))
  /\ SF_switch_vars(Succeed)
  /\ WF_switch_vars(Tick)

ClientFairSpec == ClientSpec /\ ClientFairness
-----------------------------------------------------------------------------
\* In every window of 24 hours, on both of its bounds, the exchange accepts
\* at most daily_max_trades orders and daily_max_usdc of one process, the
\* order in flight included: its check already counted it.  A restart
\* empties the window, and an order whose answer is lost is not counted.
RollingCaps ==
  /\ Len(accepted) + (IF in_flight = 0 THEN 0 ELSE 1) <= DailyMaxTrades
  /\ SpentUsdc(accepted) + in_flight <= DailyMaxUsdc

\* A cap frees itself: without a tripped breaker and a pause file, an
\* endless stream of orders that fit is never blocked for ever.
CapsFreeThemselves ==
  (<>[](healthy /\ ~pause_file /\ ~Tripped)) => []<>(in_flight # 0)
=============================================================================
