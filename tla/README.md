# Polycopy in TLA+

Polycopy copies the trades of chosen Polymarket wallets. A chain of small agents, each a process of
its own, passes a trade along over NATS JetStream; each agent writes what it decided to Postgres and
then publishes it. This directory holds TLA+ models of the agents, the TLC configurations that check
them on small instances, and proofs of the most important results for every instance.

Paths below are relative to `src/src/polycopy/` unless they start with `docs/` (which is
`src/docs/`). `PROJECT.json` maps every definition to the lines it models.

    tlc -workers 2 -config executor.cfg MCExecutor     # a run
    tlapm ExecutorProofs.tla                           # a proof

1. [Inventory](#1-inventory) 2. [Modules](#2-modules) 3. [Runs](#3-runs) 4. [Fairness](#4-fairness)
5. [Proofs](#5-proofs) 6. [Where code and documents disagree](#6-where-code-and-documents-disagree)
7. [Not modelled](#7-not-modelled) 8. [Plan](#8-plan)

## 1. Inventory

### How the parts interact

    Data API --poll--> Watcher --wallet.trade.detected--> Risk --order.approved--> Sizing
                          |              |                  |                         |
                          |              |            markets cache               order.sized
                          |              v             ^       ^                      v
                          |          Notifier      MarketData  script             Executor --> exchange
                          v                                                           |
                    wallet_trades --> Resolver --> market_resolutions --.      order_executions
                          ^                                              '--> PnL <---'
                   backfill script                                     gauges, backtest

Messages travel on JetStream with durable consumers: at least once, at most five deliveries,
`ack_wait` of 30 s. Tables are the other means of exchange: `wallet_trades` (written by Watcher and
the backfill, read by Resolver), `markets` (written by MarketData, Risk and a backfill, read by
Risk), `notifier_config` (written by the operator), and one table for the decisions of each of
Risk, Sizing and Executor. The operator also acts through settings, read when a process starts, and
the pause file, read at each order.

### Components

| Component | State it keeps | Operations | Hard about it | Correct when |
|---|---|---|---|---|
| WatcherAgent (`agents/watcher.py`) | `wallet_trades`; the cursor is derived from it | poll each wallet, insert, publish what is new | publication after commit; the cursor moved by others; rows shown late, full responses, rows that never parse | nothing is published twice, no unexplained gap below a cursor, one bad wallet does not stop the others |
| Data API client | none | fetch trades since a time | inclusive `start` in whole seconds, limit of 100, `log_index` always 0 | returns the rows that match |
| Backfill of wallet history | `wallet_trades` | insert pages, publish nothing | runs while the watcher polls | takes no trade from the watcher without a trace |
| RiskAgent (`agents/risk.py`) | `risk_decisions` | evaluate six rules, persist, publish | redelivery on another market snapshot; failures between commit and publication | one decision per trade, announced once, on recent data |
| MarketDataAgent and cache | `markets` | list and upsert, TTL | three writers; the stamp is that of the write | the age of what a row says is bounded |
| Backfill of markets (`scripts/backfill_markets_from_trades.py`) | `markets` | ask for missing markets one by one, upsert in batches | writes old answers over newer rows; a request that fails drops its batch | as the other writers |
| Gamma client | none | list, get one, list closed | retries, transport errors that are not converted | failures reach the callers as one kind of error |
| SizingAgent (`agents/sizing.py`, `domain/sizing.py`) | `order_sizings` | scale, cap, floor, quantize, persist, publish | rounding after the cap; settings that change between deliveries | the size respects the limits, one size per order |
| ExecutorAgent (`agents/executor.py`) | `order_executions` | execute, persist, publish | the order leaves before its row exists | the table, the event and the exchange agree |
| Web3CLOBExecutor | none | check, create, post, classify the answer | lost answers | a failure is recorded as one, a success too |
| DryRunExecutor | none | quote | - | sends nothing |
| KillSwitch (`infrastructure/execution/kill_switch.py`) | deque of 24 h, failure counter, pause file | check, record | rolling window, latch of the breaker, state lost at a restart | caps hold in every window, a pause stops orders |
| NatsMessagingBus | consumers and delivery counts on the server, local queues | publish, subscribe, ack | redelivery while a copy is queued, lost acks, `DeliverPolicy.NEW` | at least once until exhausted |
| ResolverAgent (`agents/resolver.py`) | `market_resolutions`, gauges | batch, ask Gamma, classify, insert, sum up | Gamma moves during a batch; a batch that never changes; one row that breaks the poll; sums in two statements | records what Gamma settles on, and every settled market in the end; the gauges catch up |
| NotifierAgent (`agents/notifier.py`) | a copy of `notifier_config` | reload, filter, send | reload between awaits, lost answers and acks | no wanted trade is silently lost, the filter takes effect |
| Slippage (`domain/slippage.py`) | none | expected price of an order on a book | thin books; the API lists the worst price first | the quote is the best execution on the book |
| PnL view, gauges, backtest | SQL views | status and result of each order, sums, drawdown | the same figures in SQL and in Python; orders executed after their market is resolved; redelivery on another book | view, gauges and backtest agree, what is settled stays |
| Wallet discovery (`scripts/discover_wallets.py`) | two files, `discovery_runs` | page through the leaderboard, filter, write | the leaderboard moves between pages; three outputs, any of which may fail; the seed changes between runs | no wallet twice, none skipped, success means complete |
| CLOB book client | none | fetch and sort a book | failures | a failure only leaves the quote empty |
| Wallet setup | an allowance on chain | approve once | - | - |
| Configuration and seed | settings | read at start, gates of real mode | - | real mode needs all three gates |
| Persistence models, domain values, observability | - | - | - | - |

## 2. Modules

    DecideOnce        what a deciding agent promises (most abstract)
      Stage           such an agent as its neighbours see it: inbox, table, announcements
        Pipeline      Watcher and three stages joined by their streams
    JetStream         one stream, one durable consumer, the client's queue
      DurableAgent    the callback of a deciding agent: take up, work, persist, publish, ack
        Executor      + KillSwitch + Web3CLOBExecutor + the exchange    \
        Risk          + MarketCache                                      | each implements Stage
        Sizing        + the arithmetic                                  /
      Notifier        a consumer without a table
    KillSwitch        the five layers, as operators and state
      KillSwitchClient  KillSwitch under an endless stream of orders
    MarketCache       the markets table, its three writers, Gamma
    Watcher           polls, the table, the backfill, the Data API
    Resolver          batches, the table, Gamma
    Slippage          the quote of an order on a book
      Pnl             the view, the gauges of Resolver, the backtest
    Discovery         runs of discover_wallets
    MC*               constants for TLC;  *Proofs: theorems
    BooksProofs       theorems on Slippage, Pnl, KillSwitchClient, Resolver and Discovery

**DecideOnce, Stage, Pipeline.** Three levels of the same system. In `DecideOnce` an event is decided at
most once, the decision never changes, and at most one message announces it; the announcement may never
come, since row and message are not one transaction. `Stage` adds what the neighbours see: the stream it
consumes, since when (`due`), and which events are `finished` (acknowledged, or their deliveries spent,
with no copy left). Executor, Risk and Sizing refine `Stage` with `decision <- rows`, `announced <-
outbox`, `finished <- Finished` (TLC and proof); `Stage` refines `DecideOnce` (proof, for each of the
three stages of `Pipeline`). `Pipeline` joins the three: an announcement of the right kind is, in the
same step, an event of the next stream. The set `faults` says which of four ways to lose a trade a
behaviour has, so that the run can say what happens without them: published before the next agent's
first subscription (`late`), stored and not published (`silent`), deliveries spent (`undecided`),
committed and not published (`unannounced`).

**JetStream** (`infrastructure/messaging/nats_bus.py`). Deliveries are separate from callbacks: the
server may deliver again whenever `ack_wait` may have run out, whatever the agent does with the
earlier copy, so one message may wait twice in the client's queue. An ack may be lost. `max_deliver`
ends it. `due` tells what the durable consumer was there to receive (`DeliverPolicy.NEW`).

**DurableAgent** (`_durable_wrapper` and the common half of three `_handle_message`). The callback
is cut at its awaits; `pc` says where it is. `PersistRow` is the insert with `ON CONFLICT DO
NOTHING` whose result decides whether anything is published; `PersistRowFails` and `PublishRowFails`
cover both a failure before the effect and one after it; `CrashAgent` may come at any await.
`AgentNext(Results, Steps)` collects every step such an agent can take, for the proofs.

**KillSwitch.** A recorded trade carries its age in ticks, capped just above the window, in place of
a timestamp. `Evicted` is the loop of `_evict_old`, `Passes` and `BlockReason` the five layers in
their order. **KillSwitchClient** offers orders for ever, to a process that may restart; capped ages
make that finite.

**Executor.** `Start` with its gates, `FetchBook` (which ends a dry run), `CheckKillSwitch` (with
`to_order_args`, no await in between), `CreateOrder`, `PostOrder` (the exchange acts),
`AnswerAccepted`/`AnswerRejected` (the agent learns of it, or does not), then the common half. `fills`
is the exchange's side of the story. `unseen` in a fill and `in_pause` are history for the properties.

**MarketCache** and **Risk.** What Gamma showed is carried with the time it showed it (`taken`, which
the code does not keep), so that a property can compare it with `last_synced_at`, which is the time
of the write. The three writers are the sync (`ListActive`, `UpsertListing`), the lazy fetch of Risk
(`AskGamma`, `WriteFetched`) and the script (`FindMissing`, `AskMissing`, `WriteFound`). `Latency`
bounds the time from an answer of Gamma to its write; it is an assumption about the run time of a
transaction or of a batch, not something the code enforces. A market is reduced to the three facts
the rules look at.

**Sizing.** Money in integer quanta (0.000001 USDC); caps, floors and products in parts of a quantum,
`Fine` to one, so that `Quantize` (half-even) has halves to decide. A skip is the result 0.

**Watcher.** `indexed` is what the API shows. One poll is `Fetch`, `Commit`, then `Publish` per trade.
`Inserts` picks one trade per key, since two trades of a transaction share theirs. `late` and `cut`
remember the two ways a trade may fall below the cursor without an error.

**Resolver.** `Begin` picks the batch, `Ask` one market per step, `InsertBatch` writes all. Prices in
hundredths, classified by the code's thresholds. What Gamma finally settles on is a choice of `Final`
prices; prices in between are `Provisional`. The code takes a closed market at its prices, so it trusts
Gamma to keep one price of a pair away from 0, 50 and 100 as long as a market awaits UMA:
`FinalityAssumption`, stated of the prices and not of how the code classifies them.

**Notifier.** Callback cut at the awaits of `send_message`, the reload cut between reading and
assigning. `chat` is what Telegram accepted. `ever` and `blind` are history for the properties.

**Slippage** and **Pnl.** The code keeps an average price and the view divides by it; what counts is
the quantity of tokens, and with prices in whole parts and quantities in 1/`Grain` every division is
exact. `Sorted` is the stable sort of the code: each level goes where the number of levels before it
puts it. `Pnl` has the two tables, the view (`Status`, `PnlUsdc`), the two statements of
`get_pnl_summary` (`Sums`, `MaxDrawdown`) as two steps of `Poll`, and the loop of the backtest as a fold
(`AnalyticsDrawdown`). Gauges are not stored as numbers: a gauge is TRUE while it shows the tables as
they are.

**Discovery.** One run after the other, cut at each page and at each of the three writes
(`WriteCandidates`, `WriteReport`, `InsertRun`), over a `board` that moves, with an operator who copies
candidates of a run that reported success to the seed.

## 3. Runs

Passing runs. Two events (orders, trades) are enough wherever events do not compete: the table, the
counters and the acks are kept per event and events meet only in the client's queue, in the one
callback in hand and in the kill switch. Two deliveries are the least with a redelivery, and what a
third can do, the second can: it meets the same table. One restart separates two lives. The proofs
lift these bounds for the properties they cover.

| Run | Shows | Bounds |
|---|---|---|
| `executor` | whatever is redelivered, lost or crashed: no ack without a row; `executed` rows have a fill the agent saw; no more orders than deliveries; a pause lets at most the order on its way through; the breaker is a latch and silent; refinement of Stage; each due order is finished with | 2 orders, one without a price, 2 deliveries, 1 restart, 1 tick, 1 change of the pause file; breaker at 1 failure, so that it trips in the life of either order; a daily cap that one order fills; all eight combinations of the settings |
| `killswitch` | the caps hold in every window with any number of orders and restarts, the order in flight included, and free themselves | no bound on orders, time or restarts; window of 3 ticks, caps that 2 sizes reach exactly |
| `risk` | the age of what a decision rests on is at most TTL + latency; refinement of Stage although verdicts change between deliveries | 2 trades of one market (one of an excluded wallet), TTL 1, latency 1, clock to 3 (a row can be written, expire and be rewritten), 1 change of Gamma; three writers of the cache |
| `sizing` | sizes respect cap and floor up to the half quantum rounding costs, exactly when the limits are whole quanta; refinement of Stage under changing settings | 2 sizes and a poison message; ratio 1/2 and 1, caps and floors on and off the grid |
| `pipeline` | the four tables agree on every order; every stored trade is concluded, or lost in one of the four ways; without faults it is concluded | 2 trades, 2 sizes, all 16 sets of faults, any order of first starts |
| `watcher` | at most one publication per trade and per transaction; gaps below a cursor have a listed reason; wallets without bad rows are followed | 2 wallets, 5 trades with two in one second, one shared transaction and one bad row; responses of 2 rows; 1 crash, 1 backfill at any moment |
| `resolver` | what is recorded is the settlement nearest to Gamma's prices unless Gamma reverts it; markets that are not crowded out are recorded | 3 markets, batch of 2 (one is always left out), prices at the edges of two classes, 1 reversal |
| `pnl` | the quote is the best of all ways to walk the book; gauges and backtest agree whenever Resolver reads the view; settled results stay; the drawdown grows but for late orders; the gauges catch up | 4 orders of 2 wallets on both sides of 2 markets, a book of two levels listed worst first, and no book; every outcome in every order, days pass |
| `notifier` | messages are at most deliveries; acknowledged wanted trades are in the chat or were below some minimum; small trades stay quiet unless a start was blind; due trades arrive or are exhausted; the operator's minimum takes effect | 2 events, 2 deliveries, 1 restart, minima below, at and above the size, changed without bound |
| `discovery` | no wallet comes twice into the seed; success means that both files and the database have the candidates; on a board that stands still none of the first `--top` is left out | 2 runs, 5 wallets, pages of 2, up to 2 pages, 2 moves, `--top` 1, 3 and 5 (below, inside and beyond the pages) |

`CHECK_DEADLOCK FALSE` in the executor, risk, sizing, pipeline and discovery runs: with its restarts,
events or runs spent the instance stops, as its bounded environment does. In the runs of Watcher,
Resolver, Notifier, KillSwitchClient and Pnl deadlock is checked.

Runs that find a violation: see section 6.

Every property of a passing run has a mutant in `PROJECT.json`: a definition with a plausible bug
(`Bug*`, next to the correct one) under which TLC finds the property violated.

## 4. Fairness

- *Executor*: weak fairness of `Start` (the container is restarted), of `Handle` as a whole (the event
  loop runs the callback to its end; which of success or failure comes is not promised) and of
  redelivery of each event (the server delivers again after `ack_wait`). No fairness of success: that
  is why `EventsFinish` says "acknowledged or deliveries spent" and not "decided".
- *KillSwitchClient*: orders of each size keep coming (strong: an offer is possible only between two
  orders), an order is answered, time passes.
- *Pipeline*: per trade, Watcher goes on to publish (or fails to), and each stage goes on with a due event
  until it is finished with. The latter is `Stage!Progress`, whose counterpart for an agent,
  `EventsFinish`, the executor run shows.
- *Watcher*: weak fairness of the restart and of the loop; strong fairness, wallet by wallet, of a fetch and
  a commit: the API and the database do not fail every time, though a fetch that returns
  a bad row never succeeds and is never required to.
- *Resolver*: weak fairness of `Begin` and of the loop; strong fairness of asking, per number of
  markets left (no failure at the same point of every poll), and of the insert.
- *Pnl*: the resolver polls for ever; strong fairness of the two statements: the database does not
  always fail.
- *Notifier*: as the executor; the loop reads the table again and again, and not every reload fails.
- *Risk*, *Sizing*, *Discovery*: safety only. The callback of the first two is that of DurableAgent,
  whose liveness the executor run shows; a run of the script simply ends.

## 5. Proofs

Assumptions are the named `ASSUME`s of the modules: ranges of the constants, and that the sentinels
(`NoEvent`, `NoResult`, ...) are not values. TLC evaluates each of them in a passing run. The events,
markets, sizes, bounds and settings are arbitrary. Four assumptions say more than a range: the sets of
Resolver's markets and of Pnl's orders and markets are finite (a table has finitely many rows, and sums
are over them); what Gamma is trusted for (`FinalityAssumption`, section 2); `MaxOffset` is a whole
number of pages (1000 and 50 in the code), without which the last page would begin before it; and in Pnl
and the cache, a missing row is not a row.

Every safety invariant and every type invariant that a run checks is proved, and so is every action
property.

| Module | Theorem | Argument |
|---|---|---|
| `DurableAgentProofs` | lemmas `AgentStepType`, `AgentStepDecision` and those on `DeliveryInv` and `Stage` | every step of `AgentNext` keeps the types, `DecisionInv` and `DeliveryInv`, and is a step or a stutter of Stage |
| `ExecutorProofs` | `TypeCorrect`, `PublishedOnce`, `RefinesStage` | each step of Executor is a step of `AgentNext`; then the lemmas |
| | `PauseHonoured`, `BreakerIsALatch`, `TrippedIsSilent` | `SwitchInv` |
| | `ExecutedMeansFilled` | `FillInv` |
| | `OrdersAreDelivered` | `CountInv` |
| `RiskProofs` | `TypeCorrect`, `RecentDecisions`, `RefinesStage` | `RecentInv`, and the lemmas |
| `SizingProofs` | `TypeCorrect`, `SizesAreWithinLimits`, `RefinesStage` | `SizeInv`, lemmas on half-even rounding, and the lemmas of the skeleton |
| `PipelineProofs` | `TypeCorrect`, `OrdersBacked` | each stage keeps its invariant, and `Wiring` |
| | `EachDecidesOnce` | a step of a stage is a step of DecideOnce or a stutter, and a step of the pipeline one of each stage or a stutter |
| `WatcherProofs` | `TypeCorrect`, `NeverTwice`, `CursorIsSafe` | `OnceInv`; `ResponseInv` |
| `NotifierProofs` | `TypeCorrect`, `LossIsChosen`, `FilterIsKept` | `QuietInv` |
| | `MessagesAreDelivered` | `CountInv` of the notifier |
| `BooksProofs` | `WindowIsCapped` | `ClientInv`, and lemmas on sums of suffixes |
| | `ResolverTypeCorrect`, `RecordsAreRight` | `SettlementInv` |
| | `BooksAreWalkedBest` | `TablesInv`, and the exchange argument below |
| | `BacktestAgrees` | `TablesInv`; sums by parts; what the loop knows after k rows |
| | `ResultsAreFinal`, `DrawdownNeverShrinks` | `TablesInv`; a late row is the only one that enters the series in the middle |
| | `NoDuplicateWallets`, `RunsAreComplete`, `NobodyIsSkipped` | `DiscoveryInv` |

Why the invariants need strengthening:

- `DecisionInv`. "Announced once, as persisted" is not inductive: a step from `publish` has to know that
  the row in hand is in the table *and* that nothing was announced of it (only the insert that created
  the row leads there); the ack step has to know that the row exists.
- `DeliveryInv`. Stage lets only due events be decided, and nothing happen to finished ones. So what is
  queued or in hand must be due, and an event without a copy and without a delivery left must stay so.
- `SwitchInv`. That a tripped breaker is silent holds because what `check()` granted is still true while
  the order is on its way: no other callback runs in the process, so between the check and the record
  neither the failures nor the window grow. `in_pause <= 1` needs that an order about to be sent meets
  `in_pause = 0`.
- `FillInv`. A row says `executed` only after its fill was seen; this has to be carried through `result`
  and told apart from the fill whose answer is still awaited (`Answered`).
- `CountInv`. Each delivery is spent once: on a copy in the queue, on the order in hand while it is not
  yet posted, or on a fill. The property leaves out the order in hand; the step that takes it up needs
  it. The cardinalities rest on the library's theorems on finite sets.
- `RecentInv`. A decision is recent because rows and the answer in hand satisfy `taken <=
  last_synced_at` with a distance of at most `Latency`, including the answers that the sync and the
  script hold.
- `SizeInv`. Size in hand and sizes of rows are values of `Size` for some settings; the arithmetic
  lemmas then bound them.
- `Wiring`. That an order is backed by three tables needs the streams: what is in a stream is what the
  stage before announced, and `AnnouncedAsDecided` of that stage leads on to its table.
- `OnceInv`. A trade waiting for publication is stored, was not published, and is the only one of its
  key.
- `ResponseInv`. Between fetch and commit the gap is not in the table yet: what the response in hand
  leaves out is excused or no older than all that it has, whatever a backfill stores meanwhile.
- `QuietInv`. The filter in force was in the table at some time, or the start was blind; the step the
  callback is at knows why its delivery was kept or dropped, since the filter may have changed since.
- `CountInv` of the notifier. As for orders: each delivery is spent once, on a copy in the queue, on the
  trade in hand while it may still be sent, or on a message.
- `ClientInv`. The deque is what the client's own history has of the window, but for what fell out since
  the last check (`WindowInv`); while an order is on its way the caps hold with it included, which is
  what `check()` saw and what the record will need (`Caps(accepted, in_flight)`).
- `SettlementInv`. Gamma moves between answer and insert, so an answer in hand may be old; but one with
  final prices is what Gamma still shows, unless the market was reverted (`FinalInv`). That a row keeps
  agreeing with Gamma afterwards needs that its market is settled (`RecordedInv`), and that provisional
  prices have no class, which follows from `FinalityAssumption`. A poll has one answer per market
  (`AnswersInv`).
- `TablesInv`. Types, and that no recorded resolution is stamped later than the next one will be, so
  that a new resolution comes last in the series.
- `DiscoveryInv`. Between pages: what is collected is the leaderboard up to the offset, unless it moved
  (`PagesInv`). Between the writes: what each of the three outputs has of this run (`WrittenInv`).
  From the start of a run to its adoption: the seed is the one the run has read, so that who is not in
  the one is not in the other (`SeedInv`).

**The quote is the best execution.** `Walk` is greedy; `QuotesAreBest` compares it with the walk through
the levels in every other order. Each of them spends the same target, and on no level more than it
offers. Along a sorted book, some rate (`SortedRate`) separates the levels taken whole from
those not taken: moving an amount from the one kind to the other never gains, and the level cut in the
middle has that rate itself. So the differences of tokens are bounded by the rate times the differences
of amounts (`Exchange`), and the latter sum up to zero.

**The backtest agrees with the view.** Status by status, the orders of the view are parted, and the
parts sum up to the whole (`SumParts`); so do the wallets. The series of the backtest is the settled
rows in the order of the view, none left out (`SeriesIs`, from the lemmas on ranks). After `k` rows the
loop has the peak of the first `k` sums and the deepest fall among them (`NextDrawdown`), so it ends
with `MaxDrawdown` but for the peak it starts from.

Sums, walks, lists and folds of the community modules are recursive functions. The library's induction
theorems cannot be used here; what such a function is for every finite argument is proved from the
least counterexample (`LeastNatural`): if some argument had no value of the wanted kind, a smallest one
would not have one either, and its equation, applied once, gives it one.

Only model-checked: liveness (`EventsFinish`, `CapsFreeThemselves`, `HealthyWalletsAreFollowed`,
`SettledAreRecorded`, `GaugesCatchUp`, `NotifiedOrExhausted`, `FilterTakesEffect`, `EveryTradeEnds`).
Fairness and `ENABLED` are out of the prover's reach.

## 6. Where code and documents disagree

Shown by a run that violates the statement:

- `executor_duplicate` / `NoDuplicateOrder`. `docs/PROMPT_POLYCOPY_v2.md:44` says a unique key
  prevents a duplicated order even after a crash. The key is on a row written after the order was
  sent (`agents/executor.py:110`).
- `resolver_starvation` / `BatchesConverge`. The design of phase 5a, line 230, says that the next polls
  take the rest. They take the oldest unresolved markets again.

Seen while modelling, and described by the models without a run of their own:

- The breaker. The design of phase 4, line 306, says that in a healthy system one success resets it.
  `check()` blocks every order once it tripped, so no success can come; only a restart resets it
  (`BreakerLatches`).
- Published decisions. The design of phase 2b, line 184, promises one decision persisted and one event
  published. After a failure between the two, the redelivery is acknowledged as a duplicate and nothing is
  published (the fault `unannounced` of Pipeline).
- An order that scales to nothing. `docs/superpowers/specs/2026-05-02-fase-2c-sizing-design.md:22`
  records every trade below the floor as skipped; a size that rounds to 0 raises in the constructor
  (`domain/sizing.py:46`) and is retried until exhausted (`DecideFails`).
- The daily cap in USDC (`.env.example:92`). Orders accepted whose answer was lost are not counted
  (`web3_clob_executor.py:119`) and a restart empties the window, so what is spent in a day may exceed
  it. `RollingCaps` states what does hold: of one process, as far as the answers arrived.
- Gamma down. The design of phase 2b, lines 178-179, expects a decision; a transport error leaves
  `gamma_client.py:147` unconverted and ends the callback without one (`FetchFails`).
- Stale rows. `ARCHITECTURE.md:106` uses them when Gamma fails; `agents/risk.py:213` also uses them
  when Gamma answers without the market, that is when it has closed (`Fallback`).
- Closed markets. The script that fills the cache asks Gamma for closed markets too, and the table has no
  column for it: such a row is fresh for a whole TTL and looks to Risk like any other (`AskMissing`).
- The filter of the notifier. `agents/notifier.py:92` says a failed load keeps the last known value; a
  process that starts with a failed load has none and sends everything (`Start`, `blind`).
- The watcher. Trades stored by a poll whose publication fails are skipped by the next poll and never
  published (`agents/watcher.py:78`).
- The gauges. Sums and drawdown come from two statements and so from two states of the tables
  (`ReadSums`, `ReadDrawdown`). The drawdown of the gauge starts from the first row, that of the
  backtest from 0, so they differ when the first results are losses (`ReportsAgree`). It may shrink
  when an order is executed after its market was resolved (`LateExecution`). The view counts failed
  orders as it counts executed ones.
- Discovery. The design of phase 6, line 287, says that the candidates file loads as a seed file; two
  candidates of the same name make it fail (`Loads`). A run may give fewer than `--top` candidates
  although the leaderboard has more: pages are fetched until `--top` entries, before the filter.
  After an exit code 1 or 2 the files of an earlier run are still there.

## 7. Not modelled

- *JetStream*: expiry after seven days; the 300 s window of deduplication (no agent publishes an event
  twice, which the proofs show); ephemeral subscriptions; drain at shutdown (a shutdown is a
  crash at an await).
- *Postgres*: row locks and deadlocks (an aborted transaction is one of the failures); the difference
  between the stamp of an upsert and its commit (covered by `Latency`); constraints that the domain
  types enforce already.
- *Clients of Gamma, the Data API, the CLOB and the leaderboard*: retries and headers, which only delay an
  answer or a failure; which transport error it was.
- *Executor*: whether an accepted GTC order is ever matched; an answer of the exchange that is not a
  dict; exceptions of the slippage computation. The quote does not change the outcome and is in Pnl.
- *Watcher*: the bootstrap start slides with the clock (it is fixed here); `tracked_wallets`, a mirror
  for the dashboard.
- *Resolver*: a backfill that makes a market's first trade older (`FirstTrade` is constant).
- *Notifier*: the 30 s of the reload (it may come at any time); the wording of a message.
- *Profit and loss*: the two views per wallet of revision 0014; Sharpe ratio, holding times and the
  JSON output of the backtest; rounding of the 28th digit.
- *Discovery*: figures of an entry that only the report shows; the wording of the report.
- *Components left out*: wallet setup, a script that sends one approval on chain and keeps no state;
  observability, which no decision reads.

## 8. Plan

Done, in this order: JetStream and DurableAgent; KillSwitch and Executor; DecideOnce; MarketCache and
Risk; Sizing; Watcher; Resolver; Notifier; Stage, the three refinements of it and Pipeline; the third
writer of the cache; Slippage and Pnl; Discovery; proofs about the three deciding agents, Stage,
Pipeline, Watcher and Notifier; proofs about the window of the kill switch, Resolver, Slippage, Pnl and
Discovery.

Next:

1. *Notifier* and *Watcher*: an abstract specification of what each promises, and the refinement.
2. *Risk*: what becomes of a market that closed while its row is stale (`Fallback`), a hazard without a
   property so far.
3. *JetStream*: the lemmas on the queue, of which the proofs of the executor and of the notifier each
   have their own, in one place.
4. *Profit and loss*: the views per wallet.
