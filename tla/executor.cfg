\* Redelivery, crashes, lost answers and a breaker of one failure, in every mode the settings
\* allow, with an order without a price, a tick and a pause file that appears.
CONSTANTS
  Events = {1, 2}
  MaxDeliver = 2
  Size <- SizeMixed
  Poison = {}
  Unpriced = {2}
  ClobErrors = {"RPC_ERROR"}
  Configs <- AllConfigs
  NoEvent = NoEvent
  NoResult = NoResult
  MaxRestarts = 1
  MaxTicks = 1
  MaxToggles = 1
  MaxSizeUsdc = 2
  DailyMaxUsdc = 1
  DailyMaxTrades = 4
  CircuitBreakerFailures = 1
  Window = 1
SPECIFICATION FairSpec
CHECK_DEADLOCK FALSE
INVARIANTS TypeOK AckedArePersisted ExecutedRowsAreFilled OneOrderPerDelivery PauseStopsOrders
PROPERTIES BreakerLatches TrippedSendsNothing ImplementsStage EventsFinish
