------------------------------ MODULE Resolver ------------------------------
(***************************************************************************)
(* ResolverAgent: looks again and again for markets of wallet_trades that  *)
(* have been settled, and records each settlement once, for ever, in       *)
(* market_resolutions, the source of every profit and loss.                *)
(*                                                                         *)
(* One poll takes at most BatchSize unresolved markets, oldest first trade *)
(* first, asks Gamma about each in a request of its own and inserts what   *)
(* it could classify in one transaction.  The process keeps nothing        *)
(* between two polls, so that its death is one of the ways a poll fails.   *)
(*                                                                         *)
(* Gamma is external.  A market is open, then closed with prices that are  *)
(* not final yet or a row that does not convert, then settled; a           *)
(* settlement may be reverted.  Prices are in hundredths of 1 USDC.        *)
(***************************************************************************)
EXTENDS Integers, FiniteSets

CONSTANTS
  Markets,       \* condition ids
  FirstTrade,    \* MIN(occurred_at) of the trades of each market
  Provisional,   \* the pairs of prices of a closed market that awaits UMA
  Final,         \* the pairs of prices of a settled one
  Open,          \* Gamma lists no closed market, or one without its tokens
  Garbage,       \* a row whose conversion raises
  Unresolved,    \* no row in market_resolutions
  BatchSize,     \* resolver_batch_size
  MaxReversals   \* bound: settlements that are reverted

PricePair == [yes : Nat, no : Nat]

ASSUME ResolverAssumption ==
  /\ IsFiniteSet(Markets)
  /\ FirstTrade \in [Markets -> Nat]
  /\ Provisional \subseteq PricePair /\ Final \subseteq PricePair
  /\ Provisional \cap Final = {}
  /\ Open \notin PricePair /\ Garbage \notin PricePair /\ Open # Garbage
  /\ BatchSize \in Nat \ {0}
  /\ MaxReversals \in Nat

ResolvedOutcome == {"YES", "NO", "INVALID"}

ASSUME UnresolvedAssumption == Unresolved \notin ResolvedOutcome

VARIABLES
  traded,              \* markets with a trade in wallet_trades
  gamma,               \* what Gamma shows of each market
  market_resolutions,  \* the table
  poll,                \* where the poll is
  todo,                \* markets of the batch still to be asked for
  answers,             \* rows of Gamma about the others
  reverted             \* markets whose settlement was reverted

Closed == Provisional \cup Final

poll_vars == <<poll, todo, answers>>
resolver_vars == <<traded, gamma, market_resolutions, poll_vars, reverted>>

Shows == Closed \cup {Open, Garbage}
Answer == [market : Markets, row : Closed \cup {Garbage}]

TypeOK ==
  /\ traded \subseteq Markets
  /\ gamma \in [Markets -> Shows]
  /\ market_resolutions \in [Markets -> ResolvedOutcome \cup {Unresolved}]
  /\ poll \in {"idle", "ask", "insert"}
  /\ todo \subseteq traded /\ Cardinality(todo) <= BatchSize
  /\ answers \subseteq Answer
  /\ reverted \subseteq Markets

ResolverInit ==
  /\ traded = {}
  /\ gamma = [m \in Markets |-> Open]
  /\ market_resolutions = [m \in Markets |-> Unresolved]
  /\ poll = "idle"
  /\ todo = {}
  /\ answers = {}
  /\ reverted = {}
-----------------------------------------------------------------------------
(* _classify_resolution.                                                   *)

\* Mutant: a tolerance of 0.2 for a split.
BugClassify(p) ==
  CASE p.yes >= 99 /\ p.no <= 1 -> "YES"
    [] p.no >= 99 /\ p.yes <= 1 -> "NO"
    [] p.yes \in 30..70 /\ p.no \in 30..70 -> "INVALID"
    [] OTHER -> Unresolved

\* Terminal within 0.01, split within 0.05, anything else is pending.
Classify(p) ==
  CASE p.yes >= 99 /\ p.no <= 1 -> "YES"
    [] p.no >= 99 /\ p.yes <= 1 -> "NO"
    [] p.yes \in 45..55 /\ p.no \in 45..55 -> "INVALID"
    [] OTHER -> Unresolved

\* What the code trusts Gamma for: as long as a market awaits UMA, a price of
\* its pair is away from those that a settlement has, 0, 50 and 100.
ASSUME FinalityAssumption ==
  \A p \in Provisional : \E price \in {p.yes, p.no} : price \in (2..44) \cup (56..98)

IsSettled(m) == gamma[m] \in Final
-----------------------------------------------------------------------------
(* run_once.                                                               *)

\* Mutant: without the IS NULL of the outer join.
BugPending == traded

\* Markets with trades and without a resolution.
Pending == {m \in traded : market_resolutions[m] = Unresolved}

\* Mutant: no LIMIT.
BugBatches == {Pending}

\* ORDER BY MIN(occurred_at) LIMIT: ties are cut in any way.
Batches ==
  {batch \in SUBSET Pending :
     /\ Cardinality(batch) <= BatchSize
     /\ Cardinality(batch) < BatchSize => batch = Pending
     /\ \A m \in batch, n \in Pending \ batch : FirstTrade[m] <= FirstTrade[n]}

\* get_unresolved_condition_ids; without any, the poll is over.
Begin ==
  /\ poll = "idle"
  /\ Pending # {}
  /\ todo' \in Batches
  /\ poll' = "ask"
  /\ UNCHANGED <<traded, gamma, market_resolutions, answers, reverted>>

\* list_markets_by_condition_ids_closed: one request for each market, here
\* in any order.
Ask ==
  /\ poll = "ask"
  /\ \E m \in todo :
       /\ todo' = todo \ {m}
       /\ answers' = IF gamma[m] = Open THEN answers
                     ELSE answers \cup {[market |-> m, row |-> gamma[m]]}
  /\ poll' = IF todo' = {} THEN "insert" ELSE "ask"
  /\ UNCHANGED <<traded, gamma, market_resolutions, reverted>>

\* insert, ON CONFLICT DO NOTHING, for each answer that can be classified.
InsertAnswers ==
  market_resolutions' =
    [m \in Markets |->
       IF market_resolutions[m] = Unresolved /\ \E a \in answers : a.market = m
       THEN Classify((CHOOSE a \in answers : a.market = m).row)
       ELSE market_resolutions[m]]

NoGarbage == \A a \in answers : a.row # Garbage

EndPoll == poll' = "idle" /\ todo' = {} /\ answers' = {}

InsertBatch ==
  /\ poll = "insert"
  /\ NoGarbage
  /\ InsertAnswers
  /\ EndPoll
  /\ UNCHANGED <<traded, gamma, reverted>>

\* Gamma, the conversion of a row, the database or the process fails: the
\* transaction is rolled back, unless only its confirmation was lost.
PollFails ==
  /\ poll # "idle"
  /\ \/ UNCHANGED market_resolutions
     \/ poll = "insert" /\ NoGarbage /\ InsertAnswers
  /\ EndPoll
  /\ UNCHANGED <<traded, gamma, reverted>>
-----------------------------------------------------------------------------
(* The environment.                                                        *)

\* WatcherAgent stores the first trade of a market.
Trade(m) ==
  /\ traded' = traded \cup {m}
  /\ UNCHANGED <<gamma, market_resolutions, poll_vars, reverted>>

\* A market closes, its prices move, or its settlement is reverted.
GammaShows(m) ==
  /\ \E show \in (Closed \cup {Garbage}) \ {gamma[m]} : gamma' = [gamma EXCEPT ![m] = show]
  /\ IF IsSettled(m)
     THEN Cardinality(reverted) < MaxReversals /\ reverted' = reverted \cup {m}
     ELSE UNCHANGED reverted
  /\ UNCHANGED <<traded, market_resolutions, poll_vars>>

RunOnce == Begin \/ Ask \/ InsertBatch

ResolverNext == RunOnce \/ PollFails \/ \E m \in Markets : Trade(m) \/ GammaShows(m)

ResolverSpec == ResolverInit /\ [][ResolverNext]_resolver_vars

(***************************************************************************)
(* The loop goes on for ever, and neither Gamma nor the database fails at  *)
(* the same point of every poll.                                           *)
(***************************************************************************)
ResolverFairness ==
  /\ WF_resolver_vars(Begin)
  /\ WF_resolver_vars(RunOnce \/ PollFails)
  /\ \A k \in 1..BatchSize : SF_resolver_vars(Ask /\ Cardinality(todo) = k)
  /\ SF_resolver_vars(InsertBatch)

ResolverFairSpec == ResolverSpec /\ ResolverFairness
-----------------------------------------------------------------------------
\* How far prices are from those of a settlement.
Ideal == [YES |-> 100, NO |-> 0, INVALID |-> 50]
Gap(a, b) == IF a <= b THEN b - a ELSE a - b
Distance(p, outcome) == Gap(p.yes, Ideal[outcome]) + Gap(p.no, 100 - Ideal[outcome])

\* Although Gamma answers before the batch is complete and the row is never
\* corrected, what was recorded of a market is the settlement nearest to what
\* Gamma shows of it for good, unless Gamma took a settlement back.
ResolutionsAgreeWithGamma ==
  \A m \in Markets :
    market_resolutions[m] # Unresolved /\ m \notin reverted =>
      /\ gamma[m] \in PricePair
      /\ \A o \in ResolvedOutcome : Distance(gamma[m], market_resolutions[m]) <= Distance(gamma[m], o)

\* What keeps the slots of the batch from the market, now.
Blockers(m) == {n \in Pending \ {m} : ~IsSettled(n)}

\* A settled market is recorded in the end if fewer markets than the batch
\* has slots stay unsettled, and none of them breaks the poll.
SettledAreRecorded ==
  \A m \in Markets :
    <>[](/\ m \in traded /\ IsSettled(m)
         /\ Cardinality(Blockers(m)) < BatchSize
         /\ \A n \in Blockers(m) : gamma[n] # Garbage)
      => <>(market_resolutions[m] # Unresolved)

\* 2026-05-04-fase-5a-market-resolver-design.md: markets beyond the batch are
\* left to the next poll, and a few polls reach all of them.  The next poll
\* begins with the same markets as long as they are not settled.
BatchesConverge ==
  \A m \in Markets :
    <>[](/\ m \in traded /\ IsSettled(m)
         /\ \A n \in Markets : gamma[n] # Garbage)
      => <>(market_resolutions[m] # Unresolved)
=============================================================================
