\* Three markets, polled two by two, that close, move, fail to parse, settle and are reverted once.
CONSTANTS
  Markets = {1, 2, 3}
  FirstTrade <- FirstTradeOf
  Provisional <- SomeProvisional
  Final <- SomeFinal
  Open = Open
  Garbage = Garbage
  Unresolved = Unresolved
  BatchSize = 2
  MaxReversals = 1
SPECIFICATION ResolverFairSpec
INVARIANTS TypeOK ResolutionsAgreeWithGamma
PROPERTY SettledAreRecorded
