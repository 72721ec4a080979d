\* Two runs with one or two pages of two, over a leaderboard of five that moves twice.
CONSTANTS
  Wallets = {"a", "b", "c", "d", "e"}
  Ranking <- FiveWallets
  UserName <- Names
  LowVolume = {"c"}
  Tops = {1, 3, 5}
  PAGE_SIZE = 2
  MaxOffset = 2
  NoFile = NoFile
  MaxMoves = 2
  MaxRuns = 2
SPECIFICATION DiscoverySpec
CHECK_DEADLOCK FALSE
INVARIANTS NoWalletTwice SuccessIsComplete NoneSkipped
