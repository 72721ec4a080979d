------------------------------ MODULE Executor ------------------------------
(***************************************************************************)
(* ExecutorAgent: consumes order.sized, executes each order in dry-run or  *)
(* through Web3CLOBExecutor, persists the outcome in order_executions and  *)
(* publishes it.  The callback is cut at its awaits, so that a crash, a    *)
(* tick of the clock, a redelivery or a change of the pause file can fall  *)
(* between any two of its steps.                                           *)
(*                                                                         *)
(* The Polymarket exchange is external: fills is what it has accepted,     *)
(* whatever the agent knows of it.                                         *)
(***************************************************************************)
EXTENDS DurableAgent, KillSwitch

CONSTANTS
  Size,        \* final_size_usdc of each order
  Unpriced,    \* events whose trade.price is 0, the divisor of to_order_args
  ClobErrors,  \* the reasons _classify_clob_error gives the errors met
  Configs,     \* settings an operator may start the agent with
  MaxTicks,    \* bound: ticks of the clock
  MaxToggles   \* bound: times the operator creates or removes the pause file

Settings == [dry_run : BOOLEAN, real_mode_confirmed : BOOLEAN, private_key : BOOLEAN]

ClobErrorReasons ==
  {"RPC_ERROR", "SIGNATURE_ERROR", "INSUFFICIENT_USDC_BALANCE",
   "INSUFFICIENT_USDC_ALLOWANCE", "CLOB_REJECTED_ORDER"}

ASSUME ExecutorAssumption ==
  /\ Size \in [Events -> Nat \ {0}]
  /\ Unpriced \subseteq Events
  /\ ClobErrors \subseteq ClobErrorReasons
  /\ Configs \subseteq Settings
  /\ MaxTicks \in Nat
  /\ MaxToggles \in Nat

VARIABLES
  dry_run,     \* settings.executor_dry_run of the running process
  fills,       \* orders the exchange accepted, in order
  in_pause,    \* fills accepted since the pause file was created
  ticks,       \* ticks so far
  toggles      \* changes of the pause file so far

exchange == <<fills, in_pause>>
env_vars == <<ticks, toggles>>
vars == <<durable_vars, ks_vars, dry_run, exchange, env_vars>>

FailureReason ==
  ClobErrorReasons \cup {BlockReasons[i] : i \in 1..5} \cup {"EXECUTOR_DISABLED"}
Outcome == {"executed", "dry_run"} \cup FailureReason

ASSUME NoOutcomeAssumption == NoResult \notin Outcome

Steps == {"book", "check", "create", "post", "accepted", "rejected"}

\* unseen: the agent took it for a failure.
Fill == [event : Events, age : 0..(Window + 1), unseen : BOOLEAN]

TypeOK ==
  /\ AgentTypeOK(Outcome, Steps)
  /\ KSTypeOK
  /\ dry_run \in BOOLEAN
  /\ fills \in Seq(Fill)
  /\ in_pause \in Nat
  /\ ticks \in Nat
  /\ toggles \in Nat

Init ==
  /\ AgentInit
  /\ pause_file = FALSE
  /\ trades_24h = <<>>
  /\ consecutive_failures = 0
  /\ dry_run = TRUE
  /\ fills = <<>>
  /\ in_pause = 0
  /\ ticks = 0
  /\ toggles = 0
-----------------------------------------------------------------------------
(* The process: main(), its three gates for real mode, and its death.      *)

\* verify_allowance may refuse too: then the process exits and stays down.
Start ==
  /\ StartAgent
  /\ \E c \in Configs :
       /\ c.dry_run \/ (c.real_mode_confirmed /\ c.private_key)
       /\ dry_run' = c.dry_run
  /\ KSReset
  /\ UNCHANGED <<pause_file, exchange, env_vars>>

Crash ==
  /\ CrashAgent
  /\ UNCHANGED <<ks_vars, dry_run, exchange, env_vars>>
-----------------------------------------------------------------------------
(* The callback, _handle_message inside _durable_wrapper.                  *)

Receive ==
  /\ TakeUp("book", NoResult)
  /\ UNCHANGED <<ks_vars, dry_run, exchange, env_vars>>

\* DryRunExecutor.execute: the quote of the book is all it does.
DryRun == dry_run /\ Work("book", "persist", "dry_run")

\* Web3CLOBExecutor.execute up to the check.
Quote == ~dry_run /\ Work("book", "check", NoResult)

\* get_book: its failure only leaves expected_avg_price empty.
FetchBook ==
  /\ DryRun \/ Quote
  /\ UNCHANGED <<ks_vars, dry_run, exchange, env_vars>>

\* kill_switch.check, then to_order_args: both before the next await.
CheckKillSwitch ==
  LET trades == Evicted(trades_24h) IN
  /\ pc = "check"
  /\ trades_24h' = trades
  /\ \/ /\ ~Passes(trades, Size[cur])
        /\ Work("check", "persist", BlockReason(trades, Size[cur]))
     \/ /\ Passes(trades, Size[cur])
        /\ cur \in Unpriced
        /\ Work("check", "persist", "EXECUTOR_DISABLED")
     \/ /\ Passes(trades, Size[cur])
        /\ cur \notin Unpriced
        /\ Work("check", "create", NoResult)
  /\ UNCHANGED <<pause_file, consecutive_failures, dry_run, exchange, env_vars>>

\* Mutant: an order that was not posted is created again, without a limit.
BugClobError(from) ==
  /\ Work(from, IF from = "post" THEN "create" ELSE "persist",
                IF from = "post" THEN NoResult ELSE "RPC_ERROR")
  /\ UNCHANGED ks_vars

\* An exception of create_order or post_order.
ClobError(from) ==
  /\ \E reason \in ClobErrors : Work(from, "persist", reason)
  /\ RecordFailure

CreateOrder ==
  /\ \/ Work("create", "post", NoResult) /\ UNCHANGED ks_vars
     \/ ClobError("create")
  /\ UNCHANGED <<dry_run, exchange, env_vars>>

\* The exchange accepts the order in hand.
Accept ==
  /\ Work("post", "accepted", NoResult)
  /\ fills' = Append(fills, [event |-> cur, age |-> 0, unseen |-> FALSE])
  /\ in_pause' = IF pause_file THEN in_pause + 1 ELSE in_pause
  /\ UNCHANGED ks_vars

\* The order reaches the exchange, which accepts or rejects it, or the call
\* fails before that.
PostOrder ==
  /\ \/ ClobError("post") /\ UNCHANGED exchange
     \/ Work("post", "rejected", NoResult) /\ UNCHANGED <<ks_vars, exchange>>
     \/ Accept
  /\ UNCHANGED <<dry_run, env_vars>>

\* A fill that the agent takes for a failure.
Missed(fill) == [fill EXCEPT !.unseen = TRUE]

\* Mutant: a lost answer makes the client post the order again.
BugAnswerAcceptedRetry ==
  /\ \/ /\ Work("accepted", "persist", "executed")
        /\ RecordSuccess(Size[cur])
        /\ UNCHANGED fills
     \/ /\ Work("accepted", "post", NoResult)
        /\ fills' = [fills EXCEPT ![Len(fills)] = Missed(@)]
        /\ UNCHANGED ks_vars
  /\ UNCHANGED <<dry_run, in_pause, env_vars>>

\* The answer to an accepted order: read, read without a transactionHash
\* (after record_success), or lost.
AnswerAccepted ==
  /\ \/ /\ \E r \in {"executed", "EXECUTOR_DISABLED"} : Work("accepted", "persist", r)
        /\ RecordSuccess(Size[cur])
        /\ UNCHANGED fills
     \/ /\ ClobError("accepted")
        /\ fills' = [fills EXCEPT ![Len(fills)] = Missed(@)]
  /\ UNCHANGED <<dry_run, in_pause, env_vars>>

\* Mutant: the rejection is not looked at.
BugAnswerRejected ==
  /\ Work("rejected", "persist", "executed")
  /\ RecordSuccess(Size[cur])
  /\ UNCHANGED <<dry_run, exchange, env_vars>>

\* The answer to a rejected order: success false, or lost.
AnswerRejected ==
  /\ \/ ClobError("rejected")
     \/ Work("rejected", "persist", "CLOB_REJECTED_ORDER") /\ RecordFailure
  /\ UNCHANGED <<dry_run, exchange, env_vars>>

Persist == PersistRow /\ UNCHANGED <<ks_vars, dry_run, exchange, env_vars>>
PersistFails == PersistRowFails /\ UNCHANGED <<ks_vars, dry_run, exchange, env_vars>>
PublishResult == PublishRow /\ UNCHANGED <<ks_vars, dry_run, exchange, env_vars>>
PublishFails == PublishRowFails /\ UNCHANGED <<ks_vars, dry_run, exchange, env_vars>>
Ack == AckEvent /\ UNCHANGED <<ks_vars, dry_run, exchange, env_vars>>

Handle ==
  \/ Receive \/ FetchBook \/ CheckKillSwitch \/ CreateOrder \/ PostOrder
  \/ AnswerAccepted \/ AnswerRejected
  \/ Persist \/ PersistFails \/ PublishResult \/ PublishFails \/ Ack
-----------------------------------------------------------------------------
(* The environment.                                                        *)

\* SizingAgent publishes order.sized.
OrderSized(e) == Upstream(e) /\ UNCHANGED <<ks_vars, dry_run, exchange, env_vars>>

Redeliver(e) == Push(e) /\ UNCHANGED <<ks_vars, dry_run, exchange, env_vars>>

Tick ==
  /\ ticks < MaxTicks
  /\ ticks' = ticks + 1
  /\ trades_24h' = Aged(trades_24h)
  /\ fills' = Aged(fills)
  /\ UNCHANGED <<durable_vars, pause_file, consecutive_failures, dry_run, in_pause, toggles>>

\* The operator creates or removes the pause file.
TogglePause ==
  /\ toggles < MaxToggles
  /\ toggles' = toggles + 1
  /\ pause_file' = ~pause_file
  /\ in_pause' = 0
  /\ UNCHANGED <<durable_vars, trades_24h, consecutive_failures, dry_run, fills, ticks>>

Next ==
  \/ Start \/ Crash \/ Handle \/ Tick \/ TogglePause
  \/ \E e \in Events : OrderSized(e) \/ Redeliver(e)

Spec == Init /\ [][Next]_vars

(***************************************************************************)
(* What the code's scheduling gives: Docker restarts the process, the      *)
(* event loop runs the callback to its end, and the server redelivers.     *)
(***************************************************************************)
Fairness ==
  /\ WF_vars(Start)
  /\ WF_vars(Handle)
  /\ \A e \in Events : WF_vars(Redeliver(e))

FairSpec == Spec /\ Fairness
-----------------------------------------------------------------------------
(* Safety.                                                                 *)

FillsOf(e) == {i \in 1..Len(fills) : fills[i].event = e}

\* A row says "executed" only for an order that the exchange accepted and
\* whose acceptance the agent saw.
ExecutedRowsAreFilled ==
  \A e \in Events : rows[e] = "executed" => \E i \in FillsOf(e) : ~fills[i].unseen

\* Redelivery may send the same order again, but never more often than the
\* server delivered it: deliveries still queued have sent nothing.
OneOrderPerDelivery ==
  \A e \in Events :
    Cardinality(FillsOf(e)) + Cardinality({i \in 1..Len(queue) : queue[i].id = e})
      <= delivered[e]

\* Once the pause file exists, the exchange accepts at most the one order
\* that had already passed the check.
PauseStopsOrders == in_pause <= 1

\* The breaker is a latch: once it tripped, only a restart clears it, since
\* no order passes the check any more and so no success can reset it.
BreakerLatches == [][Tripped /\ up => Tripped']_vars

\* While it is tripped, no further order reaches the exchange.
TrippedSendsNothing == [][Tripped => Len(fills') = Len(fills)]_vars

(***************************************************************************)
(* The inductive invariants: what each step of the callback knows about    *)
(* the tables, the fills and the kill switch when it runs.                 *)
(***************************************************************************)

\* The fills whose answer is no longer awaited.
Answered == IF pc = "accepted" THEN Len(fills) - 1 ELSE Len(fills)
SeenFill(e) == \E i \in 1..Answered : fills[i].event = e /\ ~fills[i].unseen

\* An "executed" outcome, in hand or in the table, has its fill.
FillInv ==
  /\ pc = "accepted" => Len(fills) > 0 /\ fills[Len(fills)].event = cur
                                      /\ ~fills[Len(fills)].unseen
  /\ result = "executed" => pc \in {"persist", "publish", "ack"} /\ SeenFill(cur)
  /\ \A e \in Events : rows[e] = "executed" => SeenFill(e)

\* What the check granted still holds while the order is on its way: no one
\* else records trades or failures, and a pause since then is only noticed
\* by the next check.
SwitchInv ==
  /\ Len(trades_24h) <= DailyMaxTrades
  /\ pc \in {"create", "post", "accepted", "rejected"} =>
       ~Tripped /\ Len(trades_24h) < DailyMaxTrades
  /\ in_pause <= 1
  /\ ~pause_file => in_pause = 0
  /\ pc \in {"create", "post"} => in_pause = 0

-----------------------------------------------------------------------------
(* A claim of the documentation that the code does not keep.               *)

\* PROMPT_POLYCOPY_v2.md:44: a unique key prevents a duplicated order even
\* after a crash and reprocessing.  The key is on the row, which is written
\* after the order was sent.
NoDuplicateOrder == \A e \in Events : Cardinality(FillsOf(e)) <= 1

(***************************************************************************)
(* The agent implements Stage.                                             *)
(***************************************************************************)
\* An order is decided once and its outcome announced once at most, and only
\* an order that was delivered and is not finished with.
ImplementsStage ==
  StageOf(Outcome)!Init /\ [][StageOf(Outcome)!Next]_(StageOf(Outcome)!vars)
=============================================================================
