\* An endless stream of orders through the rolling window.
CONSTANTS
  Sizes = {1, 2}
  MaxSizeUsdc = 2
  DailyMaxUsdc = 5
  DailyMaxTrades = 3
  CircuitBreakerFailures = 2
  Window = 3
SPECIFICATION ClientFairSpec
INVARIANT RollingCaps
PROPERTY CapsFreeThemselves
