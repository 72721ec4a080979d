----------------------------- MODULE RiskProofs -----------------------------
(***************************************************************************)
(* Theorems about Risk, checked by TLAPS.                                  *)
(***************************************************************************)
EXTENDS Risk, DurableAgentProofs

(***************************************************************************)
(* The agent is a DurableAgent.                                            *)
(***************************************************************************)

\* The steps of the risk agent are none of the skeleton's.
LEMMA StepsAreOwn == OwnSteps(Steps)
  BY DEF OwnSteps, Steps

\* Of the rules that are broken one is the first.
LEMMA FirstBroken ==
  ASSUME NEW B \in [1..6 -> BOOLEAN], \E i \in 1..6 : B[i]
  PROVE  \E i \in 1..6 : B[i] /\ \A j \in 1..(i - 1) : ~B[j]
<1>1. \A i \in 1..6 : i \in {1, 2, 3, 4, 5, 6}
  OBVIOUS
<1>2. CASE B[1]
  BY <1>2
<1>3. CASE ~B[1] /\ B[2]
  BY <1>3
<1>4. CASE ~B[1] /\ ~B[2] /\ B[3]
  <2>1. \A j \in 1..2 : j = 1 \/ j = 2
    OBVIOUS
  <2> QED
    BY <1>4, <2>1
<1>5. CASE ~B[1] /\ ~B[2] /\ ~B[3] /\ B[4]
  BY <1>5
<1>6. CASE ~B[1] /\ ~B[2] /\ ~B[3] /\ ~B[4] /\ B[5]
  BY <1>6
<1>7. CASE ~B[1] /\ ~B[2] /\ ~B[3] /\ ~B[4] /\ ~B[5] /\ B[6]
  BY <1>7
<1> QED
  BY <1>1, <1>2, <1>3, <1>4, <1>5, <1>6, <1>7

\* The verdict is a decision: approved, or the reason of a broken rule.
LEMMA VerdictType ==
  ASSUME NEW e, NEW market
  PROVE  Verdict(e, market) \in Decisions
<1> DEFINE first(i) == Broken(i, e, market) /\ \A j \in 1..(i - 1) : ~Broken(j, e, market)
           chosen == CHOOSE i \in 1..6 : first(i)
<1>1. CASE \A i \in 1..6 : ~Broken(i, e, market)
  BY <1>1 DEF Verdict, Decisions
<1>2. CASE \E i \in 1..6 : Broken(i, e, market)
  <2>1. \E i \in 1..6 : first(i)
    <3> DEFINE B == [i \in 1..6 |-> Broken(i, e, market) = TRUE]
    <3>1. B \in [1..6 -> BOOLEAN] /\ \E i \in 1..6 : B[i]
      BY <1>2
    <3>2. \A i \in 1..6 : \A j \in 1..(i - 1) : j \in 1..6
      OBVIOUS
    <3>3. \E i \in 1..6 : B[i] /\ \A j \in 1..(i - 1) : ~B[j]
      BY <3>1, FirstBroken
    <3> QED
      BY <3>2, <3>3
  <2>2. chosen \in 1..6
    BY <2>1
  <2>3. Verdict(e, market) = Reasons[chosen]
    BY <1>2 DEF Verdict
  <2> HIDE DEF chosen
  <2> QED
    BY <2>2, <2>3 DEF Decisions
<1> QED
  BY <1>1, <1>2

\* A decision on a market is a step of the skeleton.
LEMMA DecideIsAgentStep ==
  ASSUME NEW from \in Steps, NEW market, NEW source, NEW taken,
         Decide(from, market, source, taken)
  PROVE  AgentNext(Decisions, Steps)
  BY VerdictType DEF Decide, AgentNext

\* Whatever the risk agent does is a step of the skeleton or leaves it alone.
LEMMA NextIsAgentStep ==
  ASSUME [Next]_vars
  PROVE  AgentNext(Decisions, Steps) \/ UNCHANGED durable_vars
<1>1. CASE Start \/ Crash
  BY <1>1 DEF Start, Crash, AgentNext
<1>2. CASE MarketData \/ MarketScript \/ Change \/ Tick \/ UNCHANGED vars
  BY <1>2 DEF MarketData, MarketScript, Change, Tick, vars
<1>3. ASSUME NEW e \in Events, WalletTradeDetected(e) \/ Redeliver(e)
      PROVE  AgentNext(Decisions, Steps)
  BY <1>3 DEF WalletTradeDetected, Redeliver, AgentNext
<1>4. CASE Receive
  <2>1. "WALLET_NOT_IN_ALLOWLIST" \in Decisions
    <3>1. Reasons[1] = "WALLET_NOT_IN_ALLOWLIST"
      BY DEF Reasons
    <3> QED
      BY <3>1 DEF Decisions
  <2> QED
    BY <1>4, <2>1 DEF Receive, AgentNext, Steps
<1>5. CASE Lookup
  BY <1>5, DecideIsAgentStep DEF Lookup, AgentNext, Steps
<1>6. CASE AskGamma
  BY <1>6, DecideIsAgentStep DEF AskGamma, Fallback, AgentNext, Steps
<1>7. CASE Upsert \/ FetchFails
  BY <1>7, DecideIsAgentStep DEF Upsert, FetchFails, AgentNext, Steps
<1>8. CASE Persist \/ PersistFails \/ PublishDecision \/ PublishFails \/ Ack
  BY <1>8 DEF Persist, PersistFails, PublishDecision, PublishFails, Ack, AgentNext
<1> QED
  BY <1>1, <1>2, <1>3, <1>4, <1>5, <1>6, <1>7, <1>8 DEF Next, Handle

(***************************************************************************)
(* Types, and how old what is known of a market is: the two go together,   *)
(* since the age of a decision is a difference.                            *)
(***************************************************************************)

Written(row) ==
  /\ row.taken <= row.last_synced_at
  /\ row.last_synced_at <= row.taken + Latency
  /\ row.last_synced_at <= now

InTime(snapshot) == snapshot.taken <= now /\ now <= snapshot.taken + Latency

\* Whoever wrote a row, it was within Latency of what it says, and what is
\* about to be written is not older than that.
CacheInv ==
  /\ CacheTypeOK
  /\ \A t \in Tokens : markets[t] # NoRow => Written(markets[t])
  /\ \A t \in DOMAIN listing : InTime(listing[t])
  /\ \A t \in DOMAIN found : InTime(found[t])

HandInv ==
  /\ cached \in MarketRow \cup {NoRow}
  /\ cached # NoRow => cached.taken <= now
  /\ fetched \in Snapshot \cup {NoMarket}
  /\ pc = "upsert" => fetched \in Snapshot /\ InTime(fetched)
  /\ basis \in Basis
  /\ basis.source \in {"fresh", "gamma"} => basis.age <= Ttl + Latency

RecentInv == AgentTypeOK(Decisions, Steps) /\ CacheInv /\ HandInv

\* The trade in hand has a token.
LEMMA TokenInHand ==
  ASSUME AgentTypeOK(Decisions, Steps), pc # "idle"
  PROVE  Trade[cur].token \in Tokens
  BY RiskAssumption DEF AgentTypeOK, Trades

\* What upsert_many makes of the table when it writes answers in time.
LEMMA UpsertedRows ==
  ASSUME CacheInv, NEW snapshots, snapshots \in [DOMAIN snapshots -> Snapshot],
         \A t \in DOMAIN snapshots : InTime(snapshots[t]), markets' = Upserted(snapshots),
         UNCHANGED now
  PROVE  /\ markets' \in [Tokens -> MarketRow \cup {NoRow}]
         /\ \A t \in Tokens : markets'[t] # NoRow => Written(markets'[t])
<1>1. \A t \in DOMAIN snapshots :
        RowOf(snapshots[t]) \in MarketRow /\ Written(RowOf(snapshots[t]))
  BY DEF RowOf, InTime, Written, CacheInv, CacheTypeOK, Snapshot, MarketRow
<1> QED
  BY <1>1 DEF Upserted, CacheInv, CacheTypeOK, Written

\* The cache under the steps of the sync, the script, Gamma and the clock.
LEMMA CacheStep ==
  ASSUME CacheInv,
         Sync \/ BackfillMarkets \/ (\E t \in Tokens : GammaChanges(t)) \/ CacheTick
  PROVE  CacheInv'
<1> USE MarketCacheAssumption DEF CacheInv, CacheTypeOK, Snapshot, MarketRow, script_vars
<1>1. CASE ListActive
  <2>1. PICK top \in SUBSET {t \in Tokens : gamma[t] # NoMarket} :
               listing' = [t \in top |-> Shown(t)]
    BY <1>1 DEF ListActive
  <2>2. \A t \in top : Shown(t) \in Snapshot /\ Shown(t).taken = now
    BY <2>1 DEF Shown
  <2> QED
    BY <1>1, <2>1, <2>2 DEF ListActive, InTime, Written
<1>2. CASE UpsertListing
  <2>1. listing \in [DOMAIN listing -> Snapshot] /\ markets' = Upserted(listing) /\ UNCHANGED now
    BY <1>2 DEF UpsertListing
  <2>2. /\ markets' \in [Tokens -> MarketRow \cup {NoRow}]
        /\ \A t \in Tokens : markets'[t] # NoRow => Written(markets'[t])
    BY <2>1, UpsertedRows
  <2>3. DOMAIN listing' = {} /\ listing' \in [DOMAIN listing' -> Snapshot]
    BY <1>2 DEF UpsertListing
  <2> QED
    BY <1>2, <2>1, <2>2, <2>3 DEF UpsertListing, InTime, Written
<1>3. CASE SyncFails
  BY <1>3 DEF SyncFails, InTime, Written
<1>4. ASSUME NEW t \in Tokens, GammaChanges(t)
      PROVE  CacheInv'
  BY <1>4 DEF GammaChanges, InTime, Written
<1>5. CASE CacheTick
  BY <1>5 DEF CacheTick, InTime, Written
<1>6. CASE FindMissing
  BY <1>6 DEF FindMissing, InTime, Written
<1>7. ASSUME NEW t \in Tokens, AskMissing(t)
      PROVE  CacheInv'
  <2>1. CASE UNCHANGED found
    BY <1>7, <2>1 DEF AskMissing, InTime, Written
  <2>2. ASSUME NEW m \in Listings,
               found' = [u \in DOMAIN found \cup {t} |->
                         IF u = t THEN [market |-> m, taken |-> now] ELSE found[u]]
        PROVE  CacheInv'
    <3>1. /\ DOMAIN found' \subseteq Tokens
          /\ found' \in [DOMAIN found' -> Snapshot]
          /\ \A u \in DOMAIN found' : InTime(found'[u])
      BY <2>2 DEF InTime
    <3> QED
      BY <1>7, <3>1 DEF AskMissing, InTime, Written
  <2> QED
    BY <1>7, <2>1, <2>2 DEF AskMissing
<1>8. CASE WriteFound
  <2>1. found \in [DOMAIN found -> Snapshot] /\ markets' = Upserted(found) /\ UNCHANGED now
    BY <1>8 DEF WriteFound
  <2>2. /\ markets' \in [Tokens -> MarketRow \cup {NoRow}]
        /\ \A t \in Tokens : markets'[t] # NoRow => Written(markets'[t])
    BY <2>1, UpsertedRows
  <2>3. DOMAIN found' = {} /\ found' \in [DOMAIN found' -> Snapshot]
    BY <1>8 DEF WriteFound
  <2> QED
    BY <1>8, <2>1, <2>2, <2>3 DEF WriteFound, InTime, Written
<1>9. CASE BatchFails
  BY <1>9 DEF BatchFails, InTime, Written
<1> QED
  BY <1>1, <1>2, <1>3, <1>4, <1>5, <1>6, <1>7, <1>8, <1>9 DEF Sync, BackfillMarkets

\* The cache under the writes of the agent.
LEMMA WriteStep ==
  ASSUME RecentInv, pc = "upsert", WriteFetched, UNCHANGED <<now, gamma, listing, script_vars, changes>>
  PROVE  CacheInv'
<1>1. RowOf(fetched) \in MarketRow /\ Written(RowOf(fetched)) /\ Trade[cur].token \in Tokens
  BY TokenInHand, MarketCacheAssumption
     DEF RecentInv, CacheInv, CacheTypeOK, HandInv, RowOf, InTime, Written, Snapshot, MarketRow
<1>2. markets' \in [Tokens -> MarketRow \cup {NoRow}]
  BY <1>1 DEF WriteFetched, RecentInv, CacheInv, CacheTypeOK
<1>3. \A t \in Tokens : markets'[t] # NoRow => Written(markets'[t])
  BY <1>1 DEF WriteFetched, RecentInv, CacheInv, CacheTypeOK
<1> QED
  BY <1>2, <1>3 DEF RecentInv, CacheInv, CacheTypeOK, script_vars, InTime, Written

\* The cache is untouched.
LEMMA CacheStutter ==
  ASSUME CacheInv, UNCHANGED cache_vars
  PROVE  CacheInv'
  BY DEF CacheInv, CacheTypeOK, cache_vars, script_vars, InTime, Written

\* What the callback has in hand, when it forgets it and when it keeps it.
LEMMA HandForgotten ==
  ASSUME Forget, pc' # "upsert"
  PROVE  HandInv'
  BY MarketCacheAssumption DEF Forget, HandInv, Basis, NoBasis

\* The callback keeps what it has in hand.
LEMMA HandKept ==
  ASSUME HandInv, UNCHANGED <<risk_vars, now>>, pc' = "upsert" => pc = "upsert"
  PROVE  HandInv'
  BY DEF HandInv, risk_vars, InTime

\* A decision on a snapshot of some age.
LEMMA HandDecided ==
  ASSUME RecentInv, NEW from, NEW market, NEW source \in {"fresh", "gamma", "stale", "none"},
         NEW taken \in Nat, taken <= now,
         source \in {"fresh", "gamma"} => now - taken <= Ttl + Latency,
         Decide(from, market, source, taken),
         cached' \in {cached, NoRow}, fetched' \in {fetched, NoMarket}, UNCHANGED now
  PROVE  HandInv'
<1>1. now - taken \in Nat /\ pc' = "persist"
  BY DEF RecentInv, CacheInv, CacheTypeOK, Decide, Work, Goto
<1>2. basis' \in Basis /\ (basis'.source \in {"fresh", "gamma"} => basis'.age <= Ttl + Latency)
  BY <1>1 DEF Decide, Basis
<1> QED
  BY <1>1, <1>2 DEF RecentInv, HandInv

\* Nothing is cached or in hand at the start.
LEMMA RecentInit == Init => RecentInv
<1> SUFFICES ASSUME Init
             PROVE  RecentInv
  OBVIOUS
<1>1. AgentTypeOK(Decisions, Steps)
  BY AgentInitType DEF Init
<1>2. CacheInv
  BY MarketCacheAssumption DEF Init, CacheInit, CacheInv, CacheTypeOK
<1>3. HandInv
  BY MarketCacheAssumption DEF Init, AgentInit, HandInv, Basis, NoBasis
<1> QED
  BY <1>1, <1>2, <1>3 DEF RecentInv

\* Every step keeps RecentInv.
LEMMA RecentInductive == RecentInv /\ [Next]_vars => RecentInv'
<1> SUFFICES ASSUME RecentInv, [Next]_vars
             PROVE  RecentInv'
  OBVIOUS
<1>0. AgentTypeOK(Decisions, Steps)' /\ AgentTypeOK(Decisions, Steps) /\ CacheInv /\ HandInv
  BY NextIsAgentStep, AgentStepType, StepsAreOwn DEF RecentInv
<1>t. now \in Nat /\ Latency \in Nat /\ Ttl \in Nat
  BY <1>0, MarketCacheAssumption DEF CacheInv, CacheTypeOK
<1> SUFFICES CacheInv' /\ HandInv'
  BY <1>0 DEF RecentInv
<1>1. CASE Start \/ Crash \/ UNCHANGED vars
  BY <1>0, <1>1, CacheStutter, HandForgotten, HandKept
     DEF Start, StartAgent, Crash, CrashAgent, vars, cache_vars, durable_vars, agent_vars
<1>2. ASSUME NEW e \in Events, WalletTradeDetected(e) \/ Redeliver(e)
      PROVE  CacheInv' /\ HandInv'
  BY <1>0, <1>2, CacheStutter, HandKept
     DEF WalletTradeDetected, Upstream, Redeliver, Push, cache_vars, agent_vars
<1>3. CASE MarketData \/ MarketScript \/ Change
  BY <1>0, <1>3, CacheStep, HandKept
     DEF MarketData, MarketScript, BackfillMarkets, FindMissing, AskMissing, WriteFound,
         BatchFails, Sync, ListActive, UpsertListing, SyncFails, Change, GammaChanges,
         durable_vars, agent_vars
<1>4. CASE Tick
  <2>1. CacheInv'
    BY <1>0, <1>4, CacheStep DEF Tick
  <2>2. now' = now + 1 /\ UNCHANGED <<risk_vars, pc>> /\ (pc = "upsert" => now < fetched.taken + Latency)
    BY <1>4 DEF Tick, CacheTick, durable_vars, agent_vars
  <2>3. HandInv'
    BY <1>0, <1>t, <2>2 DEF HandInv, risk_vars, InTime, Snapshot, MarketRow
  <2> QED
    BY <2>1, <2>3
<1>5. CASE Receive
  <2>1. pc' # "upsert"
    BY <1>5 DEF Receive, TakeUp
  <2> QED
    BY <1>0, <1>5, <2>1, CacheStutter, HandKept DEF Receive, cache_vars
<1>6. CASE Lookup
  <2>1. CacheInv'
    BY <1>0, <1>6, CacheStutter DEF Lookup
  <2>2. Row \in MarketRow \cup {NoRow} /\ (Row # NoRow => Written(Row))
    BY <1>0, <1>6, TokenInHand DEF Lookup, Row, CacheInv, CacheTypeOK
  <2>3. CASE IsFresh(Row)
    <3>1. /\ Row.taken \in Nat /\ Row.taken <= now
          /\ now - Row.taken <= Ttl + Latency
      BY <1>t, <2>2, <2>3 DEF IsFresh, Written, MarketRow
    <3>2. Decide("lookup", Row.market, "fresh", Row.taken) /\ UNCHANGED <<cached, fetched, now>>
      BY <1>6, <2>3 DEF Lookup, cache_vars
    <3> QED
      BY <2>1, <3>1, <3>2, HandDecided
  <2>4. CASE ~IsFresh(Row)
    <3>1. /\ pc' = "gamma" /\ cached' = Row /\ UNCHANGED <<fetched, basis, now>>
      BY <1>6, <2>4 DEF Lookup, Work, Goto, cache_vars
    <3>2. Row # NoRow => Row.taken <= now
      BY <1>t, <2>2 DEF Written, MarketRow
    <3> QED
      BY <1>0, <2>1, <2>2, <3>1, <3>2 DEF HandInv
  <2> QED
    BY <2>3, <2>4
<1>7. CASE AskGamma
  <2>1. CacheInv' /\ now' = now /\ cached' = NoRow
    BY <1>0, <1>7, CacheStutter DEF AskGamma, cache_vars
  <2>2. ASSUME Fallback, UNCHANGED fetched
        PROVE  HandInv'
    <3>1. CASE cached = NoRow
      BY <1>t, <2>1, <2>2, <3>1, HandDecided DEF Fallback
    <3>2. CASE cached # NoRow
      <4>1. cached.taken \in Nat /\ cached.taken <= now
        BY <1>0, <3>2 DEF HandInv, MarketRow
      <4> QED
        BY <2>1, <2>2, <3>2, <4>1, HandDecided DEF Fallback
    <3> QED
      BY <3>1, <3>2
  <2>3. ASSUME gamma[Trade[cur].token] # NoMarket, pc = "gamma", fetched' = Shown(Trade[cur].token),
               UNCHANGED basis
        PROVE  HandInv'
    <3>1. fetched' \in Snapshot /\ fetched'.taken = now
      BY <1>0, <1>t, <2>3, TokenInHand DEF Shown, Snapshot, CacheInv, CacheTypeOK
    <3> QED
      BY <1>0, <1>t, <2>1, <2>3, <3>1 DEF HandInv, InTime
  <2> QED
    BY <1>7, <2>1, <2>2, <2>3 DEF AskGamma
<1>8. CASE Upsert
  <2>1. /\ pc = "upsert" /\ WriteFetched /\ UNCHANGED <<now, gamma, listing, script_vars, changes, cached>>
        /\ Decide("upsert", fetched.market, "gamma", fetched.taken)
        /\ fetched' = NoMarket
    BY <1>8 DEF Upsert, Decide, Work, Goto
  <2>2. CacheInv'
    BY <2>1, WriteStep
  <2>3. fetched.taken \in Nat /\ fetched.taken <= now /\ now - fetched.taken <= Ttl + Latency
    BY <1>0, <1>t, <2>1 DEF HandInv, InTime, Snapshot
  <2> QED
    BY <2>1, <2>2, <2>3, HandDecided
<1>9. CASE FetchFails
  <2>1. Forget /\ pc' # "upsert" /\ UNCHANGED <<now, gamma, listing, script_vars, changes>>
    BY <1>9 DEF FetchFails, WorkFails, Leave
  <2>2. CacheInv'
    BY <1>0, <1>9, <2>1, CacheStutter, WriteStep DEF FetchFails, cache_vars
  <2> QED
    BY <2>1, <2>2, HandForgotten
<1>10. CASE PublishDecision
  BY <1>0, <1>10, CacheStutter, HandKept DEF PublishDecision, PublishRow, Goto, cache_vars
<1>11. CASE Persist \/ PersistFails \/ PublishFails \/ Ack
  BY <1>0, <1>11, CacheStutter, HandForgotten
     DEF Persist, PersistRow, Goto, PersistFails, PersistRowFails, PublishFails, PublishRowFails, Ack, AckEvent, Leave
<1> QED
  BY <1>1, <1>2, <1>3, <1>4, <1>5, <1>6, <1>7, <1>8, <1>9, <1>10, <1>11 DEF Next, Handle

\* The risk agent and the cache keep RecentInv.
LEMMA RecentInvariant == Spec => []RecentInv
  BY RecentInit, RecentInductive, PTL DEF Spec

\* Every variable keeps its type.
THEOREM TypeCorrect == Spec => []TypeOK
<1>1. RecentInv => TypeOK
  BY DEF RecentInv, CacheInv, HandInv, TypeOK
<1> QED
  BY <1>1, RecentInvariant, PTL

\* A decision that does not rest on a stale row rests on what Gamma showed
\* at most Ttl + Latency before, whichever process wrote it.
THEOREM RecentDecisions == Spec => []DecisionsAreRecent
<1>1. RecentInv => DecisionsAreRecent
  BY DEF RecentInv, HandInv, DecisionsAreRecent
<1> QED
  BY <1>1, RecentInvariant, PTL

(***************************************************************************)
(* The table and what is published from it.                                *)
(***************************************************************************)

\* The risk agent keeps DecisionInv.
LEMMA DecisionInvariant == Spec => []DecisionInv
<1>1. Init => DecisionInv
  BY AgentInitDecision DEF Init
<1>2. TypeOK /\ DecisionInv /\ [Next]_vars => DecisionInv'
  BY NextIsAgentStep, AgentStepDecision, StepsAreOwn, NoDecisionAssumption DEF TypeOK
<1> QED
  BY <1>1, <1>2, TypeCorrect, PTL DEF Spec

\* What is queued or in hand is due.
LEMMA DeliveryInvariant == Spec => []DeliveryInv
<1>1. Init => DeliveryInv
  BY AgentInitDelivery DEF Init
<1>2. TypeOK /\ DeliveryInv /\ [Next]_vars => DeliveryInv'
  BY NextIsAgentStep, AgentStepDelivery, StepsAreOwn DEF TypeOK
<1> QED
  BY <1>1, <1>2, TypeCorrect, PTL DEF Spec

\* For Pipeline the agent is a Stage, whatever the cache and Gamma say while it
\* works on an event.
THEOREM RefinesStage == Spec => ImplementsStage
<1>1. Init => StageOf(Decisions)!Init
  BY AgentInitStage DEF Init
<1>2. TypeOK /\ DecisionInv /\ DeliveryInv /\ [Next]_vars
        => [StageOf(Decisions)!Next]_(StageOf(Decisions)!vars)
  <2> SUFFICES ASSUME TypeOK, DecisionInv, DeliveryInv, [Next]_vars
               PROVE  [StageOf(Decisions)!Next]_(StageOf(Decisions)!vars)
    OBVIOUS
  <2>1. StageStep(Decisions)
    BY NextIsAgentStep, AgentStepStage, StepsAreOwn, NoDecisionAssumption DEF TypeOK
  <2>2. due \subseteq Events
    BY DEF TypeOK, AgentTypeOK, JSTypeOK
  <2> QED
    BY <2>1, <2>2, StageStepIsStep
<1> QED
  BY <1>1, <1>2, TypeCorrect, DecisionInvariant, DeliveryInvariant, PTL
     DEF Spec, ImplementsStage
=============================================================================
