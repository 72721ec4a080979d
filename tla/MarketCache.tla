---------------------------- MODULE MarketCache ----------------------------
(***************************************************************************)
(* The markets table, a cache of the Gamma API with three writers:         *)
(* MarketDataAgent lists the active markets periodically and upserts them, *)
(* RiskAgent (module Risk) reads it and repairs it on a miss, and the      *)
(* script backfill_markets_from_trades adds the markets of trades that     *)
(* have no row.  A row is stale when it was written more than Ttl ago: the *)
(* age of a row is that of its write, not that of what it says.            *)
(*                                                                         *)
(* Gamma is external.  It shows the agents only markets that are not       *)
(* closed; what it shows changes at any time.                              *)
(***************************************************************************)
EXTENDS Naturals, Functions

CONSTANTS
  Tokens,
  Listings,    \* what Gamma may show of a token, as far as Risk looks at it
  NoMarket,    \* Gamma shows nothing
  NoRow,       \* the table has no row
  Ttl,         \* market_cache_ttl_seconds, in ticks
  Latency,     \* ticks from an answer of Gamma to the write of it, at most
  MaxTime,     \* bound: the clock
  MaxChanges   \* bound: changes of what Gamma shows

\* liquid: liquidity_usdc is known and at least the minimum of Risk.
Market == [is_active : BOOLEAN, is_archived : BOOLEAN, liquid : BOOLEAN]

ASSUME MarketCacheAssumption ==
  /\ Listings \subseteq Market
  /\ NoMarket \notin Market
  /\ Ttl \in Nat
  /\ Latency \in Nat
  /\ MaxTime \in Nat
  /\ MaxChanges \in Nat

VARIABLES
  now,         \* the clock
  gamma,       \* what Gamma shows of each token
  markets,     \* the table
  listing,     \* what the sync in progress was told, <<>> if there is none
  missing,     \* the tokens the script has still to ask for
  found,       \* what it was told and has not written yet
  changes      \* changes of gamma so far

script_vars == <<missing, found>>
cache_vars == <<now, gamma, markets, listing, script_vars, changes>>

\* taken: when Gamma said so, which the code does not record.
Snapshot == [market : Market, taken : Nat]
MarketRow == [market : Market, taken : Nat, last_synced_at : Nat]

ASSUME NoRowAssumption == NoRow \notin MarketRow

CacheTypeOK ==
  /\ now \in Nat
  /\ gamma \in [Tokens -> Market \cup {NoMarket}]
  /\ markets \in [Tokens -> MarketRow \cup {NoRow}]
  /\ DOMAIN listing \subseteq Tokens
  /\ listing \in [DOMAIN listing -> Snapshot]
  /\ missing \subseteq Tokens
  /\ DOMAIN found \subseteq Tokens
  /\ found \in [DOMAIN found -> Snapshot]
  /\ changes \in Nat

CacheInit ==
  /\ now = 0
  /\ gamma \in [Tokens -> Listings \cup {NoMarket}]
  /\ markets = [t \in Tokens |-> NoRow]
  /\ listing = <<>>
  /\ missing = {}
  /\ found = <<>>
  /\ changes = 0

Shown(t) == [market |-> gamma[t], taken |-> now]

\* upsert_many: the row is stamped with the time of the write.
RowOf(snapshot) ==
  [market |-> snapshot.market, taken |-> snapshot.taken, last_synced_at |-> now]

\* Mutant: one tick more.
BugIsFresh(row) == row # NoRow /\ now - row.last_synced_at <= Ttl + 1

\* get_market: there is a row, and it is not stale.
IsFresh(row) == row # NoRow /\ now - row.last_synced_at <= Ttl

\* upsert_many and commit: ON CONFLICT DO UPDATE, whatever the row says.
Upserted(snapshots) ==
  [t \in Tokens |-> IF t \in DOMAIN snapshots THEN RowOf(snapshots[t]) ELSE markets[t]]
-----------------------------------------------------------------------------
(* MarketDataAgent.run_once.                                               *)

\* list_active_markets: the first top_n by volume of the active ones.
ListActive ==
  /\ listing = <<>>
  /\ \E top \in SUBSET {t \in Tokens : gamma[t] # NoMarket} :
       /\ \A t \in top : gamma[t].is_active /\ ~gamma[t].is_archived
       /\ listing' = [t \in top |-> Shown(t)]
  /\ UNCHANGED <<now, gamma, markets, script_vars, changes>>

UpsertListing ==
  /\ listing # <<>>
  /\ markets' = Upserted(listing)
  /\ listing' = <<>>
  /\ UNCHANGED <<now, gamma, script_vars, changes>>

\* Gamma or the database fails, or the process dies: until the next sync.
SyncFails ==
  /\ listing # <<>>
  /\ listing' = <<>>
  /\ UNCHANGED <<now, gamma, markets, script_vars, changes>>

Sync == ListActive \/ UpsertListing \/ SyncFails
-----------------------------------------------------------------------------
(* backfill_markets_from_trades, in batches of any size.                   *)

\* The markets without a row; one that gets its row later is still asked for.
FindMissing ==
  /\ missing = {} /\ found = <<>>
  /\ missing' = {t \in Tokens : markets[t] = NoRow}
  /\ UNCHANGED <<now, gamma, markets, listing, found, changes>>

\* list_markets_by_condition_ids asks for one market after the other, open
\* or closed: of a closed one Gamma may show anything, or nothing.
AskMissing(t) ==
  /\ t \in missing
  /\ missing' = missing \ {t}
  /\ \/ \E m \in Listings :
          /\ gamma[t] \in {m, NoMarket}
          /\ found' = [u \in DOMAIN found \cup {t} |->
                        IF u = t THEN [market |-> m, taken |-> now] ELSE found[u]]
     \/ gamma[t] = NoMarket /\ UNCHANGED found
  /\ UNCHANGED <<now, gamma, markets, listing, changes>>

\* The batch is complete.
WriteFound ==
  /\ found # <<>>
  /\ markets' = Upserted(found)
  /\ found' = <<>>
  /\ UNCHANGED <<now, gamma, listing, missing, changes>>

\* A request fails and the script leaves the rest of its batch, or the
\* database fails and it leaves all.
BatchFails ==
  /\ missing \cup DOMAIN found # {}
  /\ missing' \in SUBSET missing
  /\ found' = <<>>
  /\ UNCHANGED <<now, gamma, markets, listing, changes>>

BackfillMarkets ==
  FindMissing \/ (\E t \in Tokens : AskMissing(t)) \/ WriteFound \/ BatchFails
-----------------------------------------------------------------------------
\* A market opens, changes or closes.
GammaChanges(t) ==
  /\ changes < MaxChanges
  /\ changes' = changes + 1
  /\ \E m \in (Listings \cup {NoMarket}) \ {gamma[t]} : gamma' = [gamma EXCEPT ![t] = m]
  /\ UNCHANGED <<now, markets, listing, script_vars>>

\* Time passes, but what Gamma said is written within Latency.
CacheTick ==
  /\ now < MaxTime
  /\ \A t \in DOMAIN listing : now < listing[t].taken + Latency
  /\ \A t \in DOMAIN found : now < found[t].taken + Latency
  /\ now' = now + 1
  /\ UNCHANGED <<gamma, markets, listing, script_vars, changes>>
=============================================================================
