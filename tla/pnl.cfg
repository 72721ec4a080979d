\* Four orders, each delivered again at any time, in two markets that are resolved at any time.
CONSTANTS
  Orders = {1, 2, 3, 4}
  Order <- FourOrders
  Conditions = {1, 2}
  Prices = {2, 3}
  Grain = 6
  Par = 4
  Books <- OneBook
  NoQty = NoQty
  NoBook = NoBook
  NoRow = NoRow
SPECIFICATION FairSpec
INVARIANTS QuotesAreBest ReportsAgree
PROPERTIES BookedForGood DrawdownGrows GaugesCatchUp
