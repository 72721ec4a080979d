\* Full responses, late rows, a shared transaction, a row that never parses, a crash and a backfill.
CONSTANTS
  Trades = {1, 2, 3, 4, 5}
  Wallets <- WalletsBA
  Wallet <- WalletOf
  Time <- TimeOf
  Key <- KeyOf
  Unparsable = {5}
  Limit = 2
  BootstrapStart = 2
  MaxCrashes = 1
  MaxBackfills = 1
SPECIFICATION FairSpec
INVARIANTS TypeOK PublishedOnce NoGapBelowCursor
PROPERTY HealthyWalletsAreFollowed
