\* Redelivery of an order that the exchange already accepted.
CONSTANTS
  Events = {1}
  MaxDeliver = 2
  Size <- SizeSmall
  Poison = {}
  Unpriced = {}
  ClobErrors = {"RPC_ERROR"}
  Configs <- RealMode
  NoEvent = NoEvent
  NoResult = NoResult
  MaxRestarts = 0
  MaxTicks = 0
  MaxToggles = 0
  MaxSizeUsdc = 2
  DailyMaxUsdc = 6
  DailyMaxTrades = 4
  CircuitBreakerFailures = 3
  Window = 1
SPECIFICATION Spec
CHECK_DEADLOCK FALSE
INVARIANT NoDuplicateOrder
