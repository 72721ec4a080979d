------------------------------ MODULE Watcher ------------------------------
(***************************************************************************)
(* WatcherAgent: polls the Data API for each wallet in turn, stores new    *)
(* trades in wallet_trades and, after the commit, publishes those it has   *)
(* stored.  The cursor of a wallet is the time of its newest stored trade. *)
(* The backfill script writes the same table and publishes nothing.        *)
(*                                                                         *)
(* The Data API is external: it shows a trade some time after it occurred  *)
(* and returns at most Limit rows, in no order the code relies on.         *)
(***************************************************************************)
EXTENDS Naturals, FiniteSets, SequencesExt

CONSTANTS
  Trades,
  Wallets,          \* sequence of the wallets of the seed, in its order
  Wallet,           \* wallet of each trade
  Time,             \* occurred_at of each trade, in whole seconds
  Key,              \* (tx_hash, log_index), where log_index is always 0
  Unparsable,       \* trades whose row Trade rejects (a price above 1, say)
  Limit,            \* rows in one response
  BootstrapStart,   \* since of a wallet without trades
  MaxCrashes,       \* bound: crashes of the agent
  MaxBackfills      \* bound: runs of the backfill script

ASSUME WatcherAssumption ==
  /\ IsFiniteSet(Trades)
  /\ Wallets \in Seq(ToSet(Wallets)) /\ Wallets # <<>>
  /\ Wallet \in [Trades -> ToSet(Wallets)]
  /\ Time \in [Trades -> Nat]
  /\ DOMAIN Key = Trades
  /\ Unparsable \subseteq Trades
  /\ Limit \in Nat \ {0}
  /\ BootstrapStart \in Nat
  /\ MaxCrashes \in Nat
  /\ MaxBackfills \in Nat

VARIABLES
  indexed,          \* trades the Data API shows
  wallet_trades,    \* the table
  published,        \* how often each trade was published
  up,
  pc,               \* where the poll is
  turn,             \* index of the wallet polled
  batch,            \* rows of the response, then the trades to publish
  late,             \* shown after a newer trade of the same wallet
  cut,              \* left out of a full response, or by a backfill
  crashes,
  backfills

agent_vars == <<up, pc, turn, batch>>
vars == <<indexed, wallet_trades, published, agent_vars, late, cut, crashes, backfills>>

TypeOK ==
  /\ indexed \subseteq Trades
  /\ wallet_trades \subseteq indexed
  /\ published \in [Trades -> Nat]
  /\ up \in BOOLEAN
  /\ pc \in {"poll", "persist", "publish"}
  /\ turn \in DOMAIN Wallets
  /\ batch \subseteq indexed
  /\ late \subseteq indexed
  /\ cut \subseteq indexed
  /\ crashes \in Nat
  /\ backfills \in Nat

Init ==
  /\ indexed = {}
  /\ wallet_trades = {}
  /\ published = [t \in Trades |-> 0]
  /\ up = TRUE
  /\ pc = "poll"
  /\ turn = 1
  /\ batch = {}
  /\ late = {}
  /\ cut = {}
  /\ crashes = 0
  /\ backfills = 0
-----------------------------------------------------------------------------
Of(wallet, trades) == {t \in trades : Wallet[t] = wallet}

\* latest_occurred_at, or the start of the bootstrap.
Since(wallet) ==
  LET stored == Of(wallet, wallet_trades) IN
  IF stored = {} THEN BootstrapStart
  ELSE CHOOSE s \in {Time[t] : t \in stored} : \A t \in stored : Time[t] <= s

\* Mutant: a cursor that excludes its own second.
BugEligible(wallet) ==
  {t \in Of(wallet, indexed) :
     Time[t] > Since(wallet) \/ (Of(wallet, wallet_trades) = {} /\ Time[t] >= Since(wallet))}

\* The rows that match user and start; start is inclusive.
Eligible(wallet) == {t \in Of(wallet, indexed) : Time[t] >= Since(wallet)}

\* The responses the API may give.
Responses(wallet) ==
  IF Cardinality(Eligible(wallet)) <= Limit THEN {Eligible(wallet)}
  ELSE {rows \in SUBSET Eligible(wallet) : Cardinality(rows) = Limit}

\* insert_if_absent, row by row: the trades it may insert, one for each key
\* that is not in the table.
Inserts(rows) ==
  LET fresh == {t \in rows : \A u \in wallet_trades : Key[t] # Key[u]}
  IN  {new \in SUBSET fresh : \A t \in fresh : Cardinality({u \in new : Key[u] = Key[t]}) = 1}
-----------------------------------------------------------------------------
(* The poll of one wallet.                                                 *)

\* Mutant: the wallets are not taken in a circle.
BugEndPoll ==
  /\ pc' = "poll"
  /\ turn' = turn + 1
  /\ batch' = {}

\* _poll_wallet returns, with or without an exception: the next wallet.
EndPoll ==
  /\ pc' = "poll"
  /\ turn' = (turn % Len(Wallets)) + 1
  /\ batch' = {}

\* The cursor is read and the response fetched and parsed.
Fetch ==
  /\ up
  /\ pc = "poll"
  /\ \E rows \in Responses(Wallets[turn]) :
       /\ rows \cap Unparsable = {}
       /\ batch' = rows
       /\ cut' = cut \cup (Eligible(Wallets[turn]) \ rows)
  /\ pc' = "persist"
  /\ UNCHANGED <<indexed, wallet_trades, published, up, turn, late, crashes, backfills>>

\* Mutant: what the response holds is published, new or not.
BugCommitAll ==
  /\ up
  /\ pc = "persist"
  /\ \E new \in Inserts(batch) : wallet_trades' = wallet_trades \cup new
  /\ pc' = "publish"
  /\ UNCHANGED <<indexed, published, up, turn, batch, late, cut, crashes, backfills>>

\* All rows are inserted in one transaction, which commits.
Commit ==
  /\ up
  /\ pc = "persist"
  /\ \E new \in Inserts(batch) :
       /\ wallet_trades' = wallet_trades \cup new
       /\ batch' = new
  /\ pc' = "publish"
  /\ UNCHANGED <<indexed, published, up, turn, late, cut, crashes, backfills>>

\* Mutant: the exception ends the cycle, and the next starts over.
BugPollFails ==
  /\ up
  /\ pc \in {"poll", "persist"}
  /\ pc' = "poll"
  /\ turn' = 1
  /\ batch' = {}
  /\ UNCHANGED <<indexed, wallet_trades, published, up, late, cut, crashes, backfills>>

\* The API, the parser or the database fails before the commit: rollback,
\* and the loop goes on.
PollFails ==
  /\ up
  /\ pc \in {"poll", "persist"}
  /\ EndPoll
  /\ UNCHANGED <<indexed, wallet_trades, published, up, late, cut, crashes, backfills>>

Publish ==
  /\ up
  /\ pc = "publish"
  /\ \E t \in batch :
       /\ published' = [published EXCEPT ![t] = @ + 1]
       /\ batch' = batch \ {t}
  /\ UNCHANGED <<indexed, wallet_trades, up, pc, turn, late, cut, crashes, backfills>>

\* The bus fails, before or after it stored the message: the rest of the
\* batch is not published.
PublishFails ==
  /\ up
  /\ pc = "publish"
  /\ \E t \in batch : published' \in {published, [published EXCEPT ![t] = @ + 1]}
  /\ EndPoll
  /\ UNCHANGED <<indexed, wallet_trades, up, late, cut, crashes, backfills>>

PollDone ==
  /\ up
  /\ pc = "publish"
  /\ batch = {}
  /\ EndPoll
  /\ UNCHANGED <<indexed, wallet_trades, published, up, late, cut, crashes, backfills>>
-----------------------------------------------------------------------------
(* The environment.                                                        *)

Crash ==
  /\ up
  /\ crashes < MaxCrashes
  /\ crashes' = crashes + 1
  /\ up' = FALSE
  /\ pc' = "poll"
  /\ turn' = 1
  /\ batch' = {}
  /\ UNCHANGED <<indexed, wallet_trades, published, late, cut, backfills>>

Restart ==
  /\ ~up
  /\ up' = TRUE
  /\ UNCHANGED <<indexed, wallet_trades, published, pc, turn, batch, late, cut, crashes, backfills>>

\* The Data API shows one more trade.
Index(t) ==
  /\ t \notin indexed
  /\ indexed' = indexed \cup {t}
  /\ late' = IF \E u \in Of(Wallet[t], indexed) : Time[u] > Time[t] THEN late \cup {t} ELSE late
  /\ UNCHANGED <<wallet_trades, published, agent_vars, cut, crashes, backfills>>

\* backfill_wallet_history: the pages since some day, in one transaction,
\* up to max_pages or to the offset at which the API answers 400.
Backfill(wallet) ==
  /\ backfills < MaxBackfills
  /\ backfills' = backfills + 1
  /\ \E rows \in SUBSET Of(wallet, indexed) :
       /\ rows \cap Unparsable = {}
       /\ \E new \in Inserts(rows) : wallet_trades' = wallet_trades \cup new
       /\ cut' = cut \cup (Eligible(wallet) \ rows)
  /\ UNCHANGED <<indexed, published, agent_vars, late, crashes>>

Poll == Fetch \/ Commit \/ Publish \/ PollDone

Next ==
  \/ Poll \/ PollFails \/ PublishFails \/ Crash \/ Restart
  \/ \E t \in Trades : Index(t)
  \/ \E wallet \in ToSet(Wallets) : Backfill(wallet)

Spec == Init /\ [][Next]_vars

(***************************************************************************)
(* Docker restarts the process, the loop goes on for ever, and the API and *)
(* the database do not fail every time a wallet is polled.                 *)
(***************************************************************************)
Fairness ==
  /\ WF_vars(Restart)
  /\ WF_vars(Poll \/ PollFails \/ PublishFails)
  /\ \A i \in DOMAIN Wallets : SF_vars(Fetch /\ turn = i) /\ SF_vars(Commit /\ turn = i)

FairSpec == Spec /\ Fairness
-----------------------------------------------------------------------------
\* Whatever fails between a poll and the next, and whatever the backfill
\* stores meanwhile, a trade is published at most once, and so is each
\* transaction.
PublishedOnce ==
  \A t, u \in Trades : Key[t] = Key[u] => published[t] + (IF t = u THEN 0 ELSE published[u]) <= 1

Collides(t) == \E u \in wallet_trades : u # t /\ Key[u] = Key[t]

\* Nothing below a cursor is missing from the table, but for the reasons
\* the design has no answer to: a trade shown after a newer one, a response
\* that was full or a backfill that did not reach the trade, and a
\* transaction shared with another trade.
NoGapBelowCursor ==
  \A t \in indexed \ wallet_trades :
    BootstrapStart <= Time[t] /\ Time[t] < Since(Wallet[t])
      => t \in late \cup cut \/ Collides(t)

\* A wallet with a row that does not parse stops only itself: every trade of
\* the other wallets, shown in order, is stored in the end.
HealthyWalletsAreFollowed ==
  \A t \in Trades :
    (/\ Of(Wallet[t], Unparsable) = {}
     /\ Time[t] >= BootstrapStart) =>
      (t \in indexed /\ t \notin late) ~> (t \in wallet_trades \cup cut \/ Collides(t))
=============================================================================
