\* A trade that passes and one of a wallet that is not copied, each delivered twice, in a
\* market that Gamma may stop to show, with the sync and the clock.
CONSTANTS
  Events = {1, 3}
  MaxDeliver = 2
  Poison = {}
  NoEvent = NoEvent
  NoResult = NoResult
  MaxRestarts = 1
  Tokens = {"t"}
  Listings <- OpenOnly
  NoMarket = NoMarket
  NoRow = NoRow
  Ttl = 1
  Latency = 1
  MaxTime = 3
  MaxChanges = 1
  Trade <- Mixed
  Allowlist = {"a"}
  MaxTradeUsdc = 2
  MinPrice = 1
  MaxPrice = 9
SPECIFICATION Spec
CHECK_DEADLOCK FALSE
INVARIANTS TypeOK DecisionsAreRecent
PROPERTY ImplementsStage
