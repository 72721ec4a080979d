\* A trade that changing minima put below, at and above the filter, and one of a wallet not
\* copied, each delivered twice, with a restart.
CONSTANTS
  Events = {1, 2}
  MaxDeliver = 2
  Poison = {}
  Size <- SizeOf
  Ignored = {2}
  Minima = {0, 1, 2}
  NoEvent = NoEvent
  NoValue = NoValue
  MaxRestarts = 1
SPECIFICATION FairSpec
INVARIANTS OneMessagePerDelivery NoSilentLoss SmallTradesStayQuiet
PROPERTIES NotifiedOrExhausted FilterTakesEffect
