\* Two old markets that are not settled take the two slots of every poll.
CONSTANTS
  Markets = {1, 2, 3}
  FirstTrade <- FirstTradeOf
  Provisional <- SomeProvisional
  Final <- SomeFinal
  Open = Open
  Garbage = Garbage
  Unresolved = Unresolved
  BatchSize = 2
  MaxReversals = 0
SPECIFICATION ResolverFairSpec
PROPERTY BatchesConverge
