\* Two trades through three agents that subscribe at any time, under every set of faults.
CONSTANTS
  Trades = {t1, t2}
  Sizes = {1, 2}
  Skipped = Skipped
  NoDecision = NoDecision
SPECIFICATION FairSpec
CHECK_DEADLOCK FALSE
INVARIANTS TypeOK OrdersAreBacked
PROPERTY EveryTradeEnds
