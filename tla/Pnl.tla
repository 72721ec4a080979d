-------------------------------- MODULE Pnl ---------------------------------
(***************************************************************************)
(* The books: order_executions, which Executor fills with the quantity its *)
(* quote expects, market_resolutions, which Resolver fills, the view       *)
(* hypothetical_pnl that joins them, and its two readers: Resolver, which  *)
(* sums it up in gauges after every poll, and the backtest command line.   *)
(*                                                                         *)
(* Money is counted in 1/Grain of a part of a USDC, so that quantity times *)
(* payout needs no division.  recent stands for the timestamps decided_at: *)
(* the orders decided in the last 24 hours.  Of a value that was computed  *)
(* from the tables it only matters whether they have changed since then.   *)
(***************************************************************************)
EXTENDS Integers, Slippage

CONSTANTS
  Orders,      \* trade_event_id of the orders; the views break ties by it
  Order,       \* wallet, condition_id, token_id, side, final_size_usdc of each
  Conditions,  \* condition_id of the markets, in the order of a batch
  Par,         \* parts of a USDC in one USDC, the price of a certain token
  Books,       \* sequences of levels, in the order of the API
  NoBook,      \* the book could not be fetched
  NoRow

Tokens == {"yes", "no"}

ASSUME PnlAssumption ==
  /\ Orders \subseteq Nat /\ IsFiniteSet(Orders)
  /\ Conditions \subseteq Nat /\ IsFiniteSet(Conditions)
  /\ Order \in [Orders -> [wallet : STRING, condition : Conditions, token : Tokens,
                           side : {"BUY", "SELL"}, size : Nat \ {0}]]
  /\ Par \in Nat /\ Par % 2 = 0
  /\ Books \subseteq Seq(Level)

\* The outcome of a market is its winning token, or INVALID.
Outcomes == Tokens \cup {"INVALID"}
Resolution == [outcome : Outcomes, resolved_at : Nat]

ASSUME NoRowAssumption == NoRow \notin Nat \cup {NoQty} /\ NoRow \notin Resolution

VARIABLES
  executions,  \* order_executions: PK trade_event_id
  resolutions, \* market_resolutions: PK condition_id
  recent,      \* orders decided in the last 24 hours
  pc,          \* where ResolverAgent.run_once is
  read,        \* the first statement of get_pnl_summary saw the tables as they are
  gauges       \* for each gauge of the resolver: it shows the tables as they are

tables == <<executions, resolutions, recent>>
vars == <<tables, pc, read, gauges>>

Init ==
  /\ executions = [o \in Orders |-> NoRow]
  /\ resolutions = [c \in Conditions |-> NoRow]
  /\ recent = {}
  /\ pc = "idle"
  /\ read = FALSE
  /\ gauges = [sums |-> FALSE, max_drawdown |-> FALSE]
-----------------------------------------------------------------------------
(* The view hypothetical_pnl.                                              *)

Executed == {o \in Orders : executions[o] # NoRow}
Resolved == {c \in Conditions : resolutions[c] # NoRow}

\* The row of market_resolutions that is joined to an execution.
ResolutionOf(o) == resolutions[Order[o].condition]

PayoutPerToken(o) ==
  CASE ResolutionOf(o).outcome = "INVALID"      -> Par \div 2
    [] ResolutionOf(o).outcome = Order[o].token -> Par
    [] OTHER                                    -> 0

Status(o) ==
  IF ResolutionOf(o) = NoRow THEN "pending"
  ELSE IF executions[o] = NoQty THEN "no_expected_price"
  ELSE IF ResolutionOf(o).outcome = "INVALID" THEN "invalid"
  ELSE IF (Order[o].side = "BUY") <=> (ResolutionOf(o).outcome = Order[o].token) THEN "win"
  ELSE "lose"

\* Mutant: the list of statuses is not the same everywhere.
BugSettled == {o \in Executed : Status(o) \in {"win", "lose"}}

Settled == {o \in Executed : Status(o) \in {"win", "lose", "invalid"}}

\* pnl_usdc, which is NULL for the rows that are not settled.
PnlUsdc(o) ==
  LET received == executions[o] * PayoutPerToken(o)
      paid == Order[o].size * Grain
  IN  IF Order[o].side = "BUY" THEN received - paid ELSE paid - received

Total(orders) == MapThenSumSet(PnlUsdc, orders)
Count(orders, statuses) == Cardinality({o \in orders : Status(o) \in statuses})

\* Mutant: the series is in the order of the rows.
BugBefore(a, b) == a < b

\* ORDER BY resolved_at, trade_event_id
Before(a, b) ==
  \/ ResolutionOf(a).resolved_at < ResolutionOf(b).resolved_at
  \/ ResolutionOf(a).resolved_at = ResolutionOf(b).resolved_at /\ a < b

Series(orders) ==
  [i \in 1..Cardinality(orders) |->
     CHOOSE o \in orders : Cardinality({a \in orders : Before(a, o)}) = i - 1]
-----------------------------------------------------------------------------
(* get_pnl_summary: two statements.                                        *)

Sums ==
  [total    |-> Total(Settled),
   day      |-> Total(Settled \cap recent),
   resolved |-> Cardinality(Settled),
   pending  |-> Count(Executed, {"pending"}),
   wins     |-> Count(Executed, {"win"}),
   decided  |-> Count(Executed, {"win", "lose"})]

\* cum_pnl: the window sum over the rows up to this one.
CumPnl(o) == Total({a \in Settled : a = o \/ Before(a, o)})

\* MAX(running_peak - cum_pnl): the peak is that of the rows so far.
MaxDrawdown ==
  Max({0} \cup {CumPnl(p[1]) - CumPnl(p[2]) : p \in {q \in Settled \X Settled : Before(q[1], q[2])}})
-----------------------------------------------------------------------------
(* The backtest, of the orders since a given time.                         *)

\* The loop of _compute_analytics.
AnalyticsDrawdown(orders) ==
  FoldLeft(LAMBDA acc, o :
             LET cum == acc.cum + PnlUsdc(o)
                 peak == Max({acc.peak, cum})
             IN  [cum |-> cum, peak |-> peak, max_dd |-> Max({acc.max_dd, peak - cum})],
           [cum |-> 0, peak |-> 0, max_dd |-> 0],
           Series(orders \cap Settled)).max_dd

Report(orders) ==
  [total    |-> Total(orders \cap Settled),
   resolved |-> Count(orders, {"win", "lose", "invalid"}),
   pending  |-> Count(orders, {"pending"}),
   excluded |-> Count(orders, {"no_expected_price"}),
   wins     |-> Count(orders, {"win"}),
   decided  |-> Count(orders, {"win", "lose"}),
   max_drawdown |-> AnalyticsDrawdown(orders)]

\* --by wallet
WalletPnl(orders, wallet) ==
  Total({o \in orders \cap Settled : Order[o].wallet = wallet})
-----------------------------------------------------------------------------
(* Executor.                                                               *)

\* expected_avg_price: absent when the book is, or does not hold the size.
Quote(o, book) ==
  IF book = NoBook THEN NoQty
  ELSE ExpectedQty(Levels(book, Order[o].side), Order[o].size)

\* The tables change: what was read of them is old.
Outdate ==
  /\ read' = FALSE
  /\ gauges' = [sums |-> FALSE, max_drawdown |-> FALSE]

\* Mutant: ON CONFLICT DO UPDATE.
BugInsertExecution(o, book) ==
  /\ executions' = [executions EXCEPT ![o] = Quote(o, book)]
  /\ recent' = recent \cup {o}

\* INSERT ... ON CONFLICT DO NOTHING
InsertExecution(o, book) ==
  /\ executions[o] = NoRow
  /\ executions' = [executions EXCEPT ![o] = Quote(o, book)]
  /\ recent' = recent \cup {o}

\* An order is executed, dry or real, or fails: each writes a row.  It may
\* be delivered again, when the book has changed.
Execute(o) ==
  /\ \E book \in Books \cup {NoBook} : InsertExecution(o, book)
  /\ Outdate
  /\ UNCHANGED <<resolutions, pc>>

Day ==
  /\ recent # {}
  /\ recent' = {}
  /\ Outdate
  /\ UNCHANGED <<executions, resolutions, pc>>
-----------------------------------------------------------------------------
(* Resolver.                                                               *)

\* The resolutions of one batch are inserted one after the other, with the
\* time at which each was classified.
Insert(batch, outcome) ==
  resolutions' =
    [c \in Conditions |->
       IF c \in batch
       THEN [outcome |-> outcome[c],
             resolved_at |-> Cardinality(Resolved) + Cardinality({d \in batch : d <= c})]
       ELSE resolutions[c]]

\* Mutant: a poll that resolves nothing does not compute the gauges.
BugPoll ==
  /\ pc = "idle"
  /\ \E batch \in SUBSET (Conditions \ Resolved) :
       /\ \E outcome \in [batch -> Outcomes] : Insert(batch, outcome)
       /\ pc' = IF batch = {} THEN "idle" ELSE "sums"
  /\ Outdate
  /\ UNCHANGED <<executions, recent>>

\* The poll commits what has been settled of the unresolved markets, which
\* may be nothing, and computes the gauges.
Poll ==
  /\ pc = "idle"
  /\ pc' = "sums"
  /\ \/ UNCHANGED <<resolutions, read, gauges>>
     \/ /\ \E batch \in SUBSET (Conditions \ Resolved) \ {{}} :
             \E outcome \in [batch -> Outcomes] : Insert(batch, outcome)
        /\ Outdate
  /\ UNCHANGED <<executions, recent>>

\* The first statement, Sums.
ReadSums ==
  /\ pc = "sums"
  /\ read' = TRUE
  /\ pc' = "drawdown"
  /\ UNCHANGED <<tables, gauges>>

\* The second statement, MaxDrawdown, sees what was committed since the
\* first; then all gauges are set.
ReadDrawdown ==
  /\ pc = "drawdown"
  /\ gauges' = [sums |-> read, max_drawdown |-> TRUE]
  /\ read' = FALSE
  /\ pc' = "idle"
  /\ UNCHANGED tables

\* Best effort: the gauges keep what they had.
ComputeFails ==
  /\ pc \in {"sums", "drawdown"}
  /\ read' = FALSE
  /\ pc' = "idle"
  /\ UNCHANGED <<tables, gauges>>

Next ==
  \/ \E o \in Orders : Execute(o)
  \/ Day \/ Poll \/ ReadSums \/ ReadDrawdown \/ ComputeFails

Spec == Init /\ [][Next]_vars

\* The resolver polls for ever, and the database does not always fail.
Fairness == WF_vars(Poll) /\ SF_vars(ReadSums) /\ SF_vars(ReadDrawdown)

FairSpec == Spec /\ Fairness
-----------------------------------------------------------------------------
BestQtys ==
  [o \in Orders |->
     {BestQty(book, Order[o].side, Order[o].size) : book \in Books} \cup {NoQty}]

\* However the API lists the book that an order meets, the row has the
\* quantity of the best execution on it, or none.
QuotesAreBest == \A o \in Executed : executions[o] \in BestQtys[o]

\* Whenever Resolver reads the view, the backtest would report the same of
\* it, had it been run at that moment: SQL and Python count
\* and sum alike, the wallets sum up to the total, and the drawdowns differ
\* only by their first peak, which is 0 in the backtest and the first row
\* in the gauge.
ReportsAgree ==
  pc = "sums" =>
    LET report == Report(Executed) IN
      /\ \A f \in DOMAIN Sums \ {"day"} : report[f] = Sums[f]
      /\ report.max_drawdown = Max({MaxDrawdown} \cup {-CumPnl(o) : o \in Settled})
      /\ report.resolved + report.pending + report.excluded = Cardinality(Executed)
      /\ Report(recent).total = Sums.day
      /\ report.total =
           MapThenSumSet(LAMBDA w : WalletPnl(Executed, w), {Order[o].wallet : o \in Orders})

\* What is settled stays as it is: neither a redelivered order that meets
\* another book nor another poll changes a result that was reported.
BookedForGood ==
  [][\A o \in Settled : o \in Settled' /\ Status(o)' = Status(o) /\ PnlUsdc(o)' = PnlUsdc(o)]_tables

\* An order that is executed after its market was resolved enters the
\* series in the middle.
LateExecution == \E o \in Executed' \ Executed : ResolutionOf(o) # NoRow

\* The maximal drawdown never gets smaller, but for such a late order.
DrawdownGrows == [][LateExecution \/ MaxDrawdown' >= MaxDrawdown]_tables

\* The gauges come to show the tables as they are, when these stay the same.
GaugesCatchUp == <>[](\A g \in DOMAIN gauges : gauges[g])
=============================================================================
