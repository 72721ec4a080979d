----------------------------- MODULE KillSwitch -----------------------------
(***************************************************************************)
(* KillSwitch: the five in-memory layers that Web3CLOBExecutor asks before *)
(* it sends an order.  Time is discrete: a recorded trade carries its age  *)
(* in ticks instead of its timestamp, and Window ticks are the rolling 24  *)
(* hours.  Ages are capped at Window + 1, the first value out of the       *)
(* window.                                                                 *)
(***************************************************************************)
EXTENDS Naturals, SequencesExt

CONSTANTS
  MaxSizeUsdc,             \* max_size_usdc
  DailyMaxUsdc,            \* daily_max_usdc
  DailyMaxTrades,          \* daily_max_trades
  CircuitBreakerFailures,  \* circuit_breaker_failures
  Window                   \* ticks in 24 hours

ASSUME KillSwitchAssumption ==
  /\ MaxSizeUsdc \in Nat
  /\ DailyMaxUsdc \in Nat
  /\ DailyMaxTrades \in Nat
  /\ CircuitBreakerFailures \in Nat
  /\ Window \in Nat

VARIABLES
  pause_file,              \* the operator's pause file exists
  trades_24h,              \* deque of recorded successes, oldest first
  consecutive_failures

ks_vars == <<pause_file, trades_24h, consecutive_failures>>

RecordedTrade == [age : 0..(Window + 1), size : Nat]

KSTypeOK ==
  /\ pause_file \in BOOLEAN
  /\ trades_24h \in Seq(RecordedTrade)
  /\ consecutive_failures \in Nat

\* A new KillSwitch object: nothing survives a restart but the pause file.
KSReset ==
  /\ trades_24h' = <<>>
  /\ consecutive_failures' = 0

\* One tick on a record with an age, and on a sequence of them.
Older(r) == [r EXCEPT !.age = IF @ <= Window THEN @ + 1 ELSE @]
Aged(seq) == [i \in DOMAIN seq |-> Older(seq[i])]

\* Mutant: a trade leaves the window one tick too early.
BugInWindow(trades) == {i \in 1..Len(trades) : trades[i].age < Window}

\* The indices of the trades that are not older than 24 hours.
InWindow(trades) == {i \in 1..Len(trades) : trades[i].age <= Window}

\* Mutant: eviction is forgotten.
BugEvicted(trades) == trades

\* popleft until the head is recent: everything before the first recent one.
Evicted(trades) ==
  IF InWindow(trades) = {} THEN <<>>
  ELSE LET first == CHOOSE i \in InWindow(trades) :
                      \A j \in InWindow(trades) : i <= j
       IN  SubSeq(trades, first, Len(trades))

SpentUsdc(trades) == MapThenSumSet(LAMBDA i : trades[i].size, DOMAIN trades)

\* The layers in the order the code asks them, and the reason each one gives.
BlockReasons ==
  << "MANUALLY_PAUSED", "CIRCUIT_BREAKER", "DAILY_TRADES_EXCEEDED",
     "DAILY_USDC_EXCEEDED", "SIZE_EXCEEDS_EXECUTOR_CAP" >>

\* Mutant: the breaker opens one failure too late.
BugBlocksBreaker(layer, trades, size) ==
  \/ layer = 1 /\ pause_file
  \/ layer = 2 /\ consecutive_failures > CircuitBreakerFailures
  \/ layer = 3 /\ Len(trades) >= DailyMaxTrades
  \/ layer = 4 /\ SpentUsdc(trades) + size > DailyMaxUsdc
  \/ layer = 5 /\ size > MaxSizeUsdc

\* Mutant: nobody looks at the pause file.
BugBlocksPause(layer, trades, size) ==
  \/ layer = 2 /\ consecutive_failures >= CircuitBreakerFailures
  \/ layer = 3 /\ Len(trades) >= DailyMaxTrades
  \/ layer = 4 /\ SpentUsdc(trades) + size > DailyMaxUsdc
  \/ layer = 5 /\ size > MaxSizeUsdc

\* Whether a layer refuses an order of this size after these trades.
Blocks(layer, trades, size) ==
  \/ layer = 1 /\ pause_file
  \/ layer = 2 /\ consecutive_failures >= CircuitBreakerFailures
  \/ layer = 3 /\ Len(trades) >= DailyMaxTrades
  \/ layer = 4 /\ SpentUsdc(trades) + size > DailyMaxUsdc
  \/ layer = 5 /\ size > MaxSizeUsdc

Passes(trades, size) == \A layer \in 1..5 : ~Blocks(layer, trades, size)

\* The first layer that blocks; meaningful only when one does.
BlockReason(trades, size) ==
  BlockReasons[CHOOSE layer \in 1..5 :
                 /\ Blocks(layer, trades, size)
                 /\ \A before \in 1..(layer - 1) : ~Blocks(before, trades, size)]

RecordSuccess(size) ==
  /\ trades_24h' = Append(trades_24h, [age |-> 0, size |-> size])
  /\ consecutive_failures' = 0
  /\ UNCHANGED pause_file

RecordFailure ==
  /\ consecutive_failures' = consecutive_failures + 1
  /\ UNCHANGED <<trades_24h, pause_file>>

Tripped == consecutive_failures >= CircuitBreakerFailures
=============================================================================
