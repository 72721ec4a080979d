------------------------------ MODULE Slippage ------------------------------
(***************************************************************************)
(* calculate_expected_avg_price: the tokens that an order of target_usdc   *)
(* would move on an order book, which CLOBBookClient has sorted.           *)
(*                                                                         *)
(* The code returns the average price target_usdc / quantity, and the view *)
(* hypothetical_pnl divides by it again: the quantity is what matters and  *)
(* what is modelled.  Prices are whole parts of one USDC and quantities    *)
(* are counted in 1/Grain of a token, so that every division is exact      *)
(* where the code's Decimal rounds at its 28th digit.                      *)
(***************************************************************************)
EXTENDS Naturals, Sequences, FiniteSetsExt, SequencesExt

CONSTANTS
  Prices,      \* prices of the levels
  Grain,       \* a common multiple of them
  NoQty        \* no expected price

ASSUME SlippageAssumption ==
  /\ Prices \subseteq Nat \ {0}
  /\ Grain \in Nat \ {0}
  /\ \A p \in Prices : Grain % p = 0
  /\ NoQty \notin Nat

Level == [price : Prices, size : Nat]

\* Mutant: the levels stay in the order of the API.
BugSorted(items, descending) == items

\* parsed.sort(key=price, reverse=descending), which is stable: the k-th level
\* is the one that has k - 1 levels before it.
Sorted(items, descending) ==
  LET better(i, j) == IF descending THEN items[i].price > items[j].price
                      ELSE items[i].price < items[j].price
      before(i, j) == better(i, j) \/ (items[i].price = items[j].price /\ i < j)
      all == DOMAIN items
  IN  [k \in all |-> items[CHOOSE i \in all : Cardinality({j \in all : before(j, i)}) = k - 1]]

\* _parse_book: asks ascending, bids descending; a BUY takes the asks.
Levels(items, side) == Sorted(items, side = "SELL")

\* What the levels up to the i-th give, each taken whole or as far as the
\* target needs it.
Walk(levels, target) ==
  LET walk[i \in 0..Len(levels)] ==
        IF i = 0 THEN [usdc |-> 0, qty |-> 0]
        ELSE LET level == levels[i]
                 before == walk[i - 1]
                 slice == Min({level.price * level.size, target - before.usdc})
             IN  [usdc |-> before.usdc + slice,
                  qty |-> before.qty + slice * (Grain \div level.price)]
  IN  walk[Len(levels)]

\* The quantity, or none when the book does not hold the target.
ExpectedQty(levels, target) ==
  LET all == Walk(levels, target) IN IF all.usdc = target THEN all.qty ELSE NoQty
-----------------------------------------------------------------------------
\* Reference: the levels taken in any order at all.
AnyQty(items, target) ==
  {ExpectedQty([i \in DOMAIN items |-> items[p[i]]], target) :
     p \in {f \in [DOMAIN items -> DOMAIN items] : IsInjective(f)}}

\* No order of the levels buys more tokens for the money, or sells fewer.
BestQty(items, side, target) ==
  LET all == AnyQty(items, target)
  IN  IF NoQty \in all THEN NoQty ELSE IF side = "BUY" THEN Max(all) ELSE Min(all)
=============================================================================
