-------------------------------- MODULE Risk --------------------------------
(***************************************************************************)
(* RiskAgent: consumes wallet.trade.detected, approves or rejects each     *)
(* trade by six rules, persists the decision in risk_decisions and         *)
(* publishes it.  The market of the trade comes from the cache or, on a    *)
(* miss, from Gamma.                                                       *)
(***************************************************************************)
EXTENDS DurableAgent, MarketCache

CONSTANTS
  Trade,          \* [wallet, token, size_usdc, price] of each event
  Allowlist,      \* risk_copy_allowlist; empty: every wallet
  MaxTradeUsdc,
  MinPrice,
  MaxPrice

Trades == [wallet : STRING, token : Tokens, size_usdc : Nat, price : Nat]

ASSUME RiskAssumption ==
  /\ Trade \in [Events -> Trades]
  /\ MaxTradeUsdc \in Nat
  /\ MinPrice \in Nat
  /\ MaxPrice \in Nat

VARIABLES
  cached,      \* the stale row in hand, or NoRow
  fetched,     \* what Gamma showed, in hand until it is written
  basis        \* what the decision in hand rests on

risk_vars == <<cached, fetched, basis>>
vars == <<durable_vars, cache_vars, risk_vars>>

Reasons == <<"WALLET_NOT_IN_ALLOWLIST", "SIZE_EXCEEDED", "MARKET_NOT_CACHED",
             "MARKET_INACTIVE", "PRICE_OUT_OF_RANGE", "INSUFFICIENT_LIQUIDITY">>
Decisions == {"approved"} \cup {Reasons[i] : i \in 1..6}

ASSUME NoDecisionAssumption == NoResult \notin Decisions

Steps == {"lookup", "gamma", "upsert"}

\* age: ticks since Gamma showed the market.
Basis == [source : {"fresh", "gamma", "stale", "none"}, age : Nat]
NoBasis == [source |-> "none", age |-> 0]

TypeOK ==
  /\ AgentTypeOK(Decisions, Steps)
  /\ CacheTypeOK
  /\ cached \in MarketRow \cup {NoRow}
  /\ fetched \in Snapshot \cup {NoMarket}
  /\ pc = "upsert" => fetched \in Snapshot
  /\ basis \in Basis

Init ==
  /\ AgentInit
  /\ CacheInit
  /\ cached = NoRow
  /\ fetched = NoMarket
  /\ basis = NoBasis

Forget ==
  /\ cached' = NoRow
  /\ fetched' = NoMarket
  /\ basis' = NoBasis
-----------------------------------------------------------------------------
(* The rules.                                                              *)

NotAllowed(e) == Allowlist # {} /\ Trade[e].wallet \notin Allowlist

Broken(i, e, market) ==
  CASE i = 1 -> NotAllowed(e)
    [] i = 2 -> Trade[e].size_usdc > MaxTradeUsdc
    [] i = 3 -> market = NoMarket
    [] i = 4 -> ~market.is_active \/ market.is_archived
    [] i = 5 -> Trade[e].price < MinPrice \/ Trade[e].price > MaxPrice
    [] i = 6 -> ~market.liquid

\* _evaluate: the first rule that is broken is the one reported.
Verdict(e, market) ==
  IF \A i \in 1..6 : ~Broken(i, e, market) THEN "approved"
  ELSE Reasons[CHOOSE i \in 1..6 : Broken(i, e, market) /\ \A j \in 1..(i - 1) : ~Broken(j, e, market)]
-----------------------------------------------------------------------------
(* The callback.                                                           *)

\* A wallet that is not copied is rejected without a look at the market.
Receive ==
  /\ queue # <<>>
  /\ LET e == Head(queue).id IN
     IF NotAllowed(e) THEN TakeUp("persist", "WALLET_NOT_IN_ALLOWLIST") ELSE TakeUp("lookup", NoResult)
  /\ UNCHANGED <<cache_vars, risk_vars>>

Row == markets[Trade[cur].token]

Decide(from, market, source, taken) ==
  /\ Work(from, "persist", Verdict(cur, market))
  /\ basis' = [source |-> source, age |-> now - taken]

\* get_market of the repository.
Lookup ==
  /\ pc = "lookup"
  /\ \/ /\ IsFresh(Row)
        /\ Decide("lookup", Row.market, "fresh", Row.taken)
        /\ UNCHANGED cached
     \/ /\ ~IsFresh(Row)
        /\ Work("lookup", "gamma", NoResult)
        /\ cached' = Row
        /\ UNCHANGED basis
  /\ UNCHANGED <<cache_vars, fetched>>

\* Without an answer that names the market, a stale row will do.
Fallback ==
  IF cached = NoRow THEN Decide("gamma", NoMarket, "none", now)
                    ELSE Decide("gamma", cached.market, "stale", cached.taken)

\* get_market of Gamma: it shows the market, or it does not or answers with
\* an HTTP error after the retries.
AskGamma ==
  /\ pc = "gamma"
  /\ \/ /\ gamma[Trade[cur].token] # NoMarket
        /\ Work("gamma", "upsert", NoResult)
        /\ fetched' = Shown(Trade[cur].token)
        /\ UNCHANGED basis
     \/ Fallback /\ UNCHANGED fetched
  /\ cached' = NoRow
  /\ UNCHANGED cache_vars

WriteFetched == markets' = [markets EXCEPT ![Trade[cur].token] = RowOf(fetched)]

\* upsert_many of the one market, and commit.
Upsert ==
  /\ pc = "upsert"
  /\ Decide("upsert", fetched.market, "gamma", fetched.taken)
  /\ WriteFetched
  /\ fetched' = NoMarket
  /\ UNCHANGED <<now, gamma, listing, script_vars, changes, cached>>

\* What _fetch_market does not catch: an error of the database, and one of
\* the transport to Gamma, which _fetch_markets of the client lets through.
FetchFails ==
  /\ \E from \in Steps : WorkFails(from)
  /\ UNCHANGED markets \/ (pc = "upsert" /\ WriteFetched)
  /\ Forget
  /\ UNCHANGED <<now, gamma, listing, script_vars, changes>>

Persist == PersistRow /\ Forget /\ UNCHANGED cache_vars
PersistFails == PersistRowFails /\ Forget /\ UNCHANGED cache_vars
PublishDecision == PublishRow /\ UNCHANGED <<cache_vars, risk_vars>>
PublishFails == PublishRowFails /\ Forget /\ UNCHANGED cache_vars
Ack == AckEvent /\ Forget /\ UNCHANGED cache_vars

Handle ==
  \/ Receive \/ Lookup \/ AskGamma \/ Upsert \/ FetchFails
  \/ Persist \/ PersistFails \/ PublishDecision \/ PublishFails \/ Ack
-----------------------------------------------------------------------------
(* The process and its environment.                                        *)

Start == StartAgent /\ UNCHANGED <<cache_vars, risk_vars>>
Crash == CrashAgent /\ Forget /\ UNCHANGED cache_vars

\* WatcherAgent publishes wallet.trade.detected.
WalletTradeDetected(e) == Upstream(e) /\ UNCHANGED <<cache_vars, risk_vars>>
Redeliver(e) == Push(e) /\ UNCHANGED <<cache_vars, risk_vars>>

MarketData == Sync /\ UNCHANGED <<durable_vars, risk_vars>>
MarketScript == BackfillMarkets /\ UNCHANGED <<durable_vars, risk_vars>>
Change == \E t \in Tokens : GammaChanges(t) /\ UNCHANGED <<durable_vars, risk_vars>>

\* What Gamma said is written within Latency here too.
Tick ==
  /\ pc = "upsert" => now < fetched.taken + Latency
  /\ CacheTick
  /\ UNCHANGED <<durable_vars, risk_vars>>

Next ==
  \/ Start \/ Crash \/ Handle \/ MarketData \/ MarketScript \/ Change \/ Tick
  \/ \E e \in Events : WalletTradeDetected(e) \/ Redeliver(e)

Spec == Init /\ [][Next]_vars
-----------------------------------------------------------------------------
\* Three writers, none of which looks at what the others wrote, may replace
\* a newer answer of Gamma by an older one and stamp it as new.  Still, a
\* decision on a row that is not stale, or on what Gamma has just said,
\* rests on what Gamma showed at most Ttl + Latency ago.
DecisionsAreRecent ==
  pc = "persist" /\ basis.source \in {"fresh", "gamma"} => basis.age <= Ttl + Latency

\* A trade is decided once, and the decision announced once at most, however
\* the market changed between its deliveries, and only a trade that was
\* delivered and is not finished with.
ImplementsStage ==
  StageOf(Decisions)!Init /\ [][StageOf(Decisions)!Next]_(StageOf(Decisions)!vars)
=============================================================================
