--------------------------- MODULE WatcherProofs ----------------------------
(***************************************************************************)
(* Proofs about Watcher, for any trades, wallets, times, limit of a        *)
(* response and number of crashes and backfills, checked by TLAPS.         *)
(***************************************************************************)
EXTENDS Watcher, FiniteSetTheorems, WellFoundedInduction, TLAPS

\* Of some trades one is the newest.
LEMMA Newest ==
  ASSUME NEW S \in SUBSET Trades, S # {}
  PROVE  \E x \in S : \A y \in S : Time[y] <= Time[x]
<1> DEFINE Endless(T) == T # {} /\ \A x \in T : \E y \in T : Time[x] < Time[y]
           Sizes == {Cardinality(T) : T \in {U \in SUBSET Trades : Endless(U)}}
           R == OpToRel(<, Nat)
<1>1. \A t \in Trades : Time[t] \in Nat
  BY WatcherAssumption
<1>2. \A T \in SUBSET Trades : IsFiniteSet(T) /\ Cardinality(T) \in Nat
  BY WatcherAssumption, FS_Subset, FS_CardinalityType
<1>3. Sizes = {}
  <2> SUFFICES ASSUME Sizes # {}
               PROVE  FALSE
    OBVIOUS
  <2>1. Sizes \subseteq Nat
    BY <1>2
  <2>2. PICK n \in Sizes : \A m \in Sizes : ~ (<<m, n>> \in R)
    <3> HIDE DEF R, Sizes
    <3> QED
      BY <2>1, WFMin, NatLessThanWellFounded DEF R
  <2>3. \A m \in Sizes : ~ (m < n)
    BY <2>1, <2>2 DEF OpToRel
  <2>4. PICK T \in SUBSET Trades : Endless(T) /\ Cardinality(T) = n
    OBVIOUS
  <2>5. PICK x \in T : TRUE
    BY <2>4
  <2>6. Cardinality(T \ {x}) = n - 1 /\ n \in Nat
    BY <1>2, <2>4, <2>5, FS_RemoveElement
  <2>7. Endless(T \ {x})
    <3> SUFFICES ASSUME NEW y \in T \ {x}
                 PROVE  \E z \in T \ {x} : Time[y] < Time[z]
      BY <1>1, <2>4, <2>5
    <3>1. PICK z \in T : Time[y] < Time[z]
      BY <2>4
    <3>2. PICK v \in T : Time[z] < Time[v]
      BY <2>4
    <3> QED
      BY <1>1, <3>1, <3>2
  <2>8. n - 1 \in Sizes
    BY <2>6, <2>7
  <2> QED
    BY <2>3, <2>6, <2>8
<1> QED
  BY <1>1, <1>3

\* The cursor is the time of the newest stored trade of the wallet.
LEMMA SinceMeans ==
  ASSUME wallet_trades \subseteq Trades, NEW wallet
  PROVE  /\ Of(wallet, wallet_trades) = {} => Since(wallet) = BootstrapStart
         /\ Of(wallet, wallet_trades) # {} =>
              \E u \in Of(wallet, wallet_trades) : Time[u] = Since(wallet)
         /\ \A t \in Of(wallet, wallet_trades) : Time[t] <= Since(wallet)
<1> DEFINE stored == Of(wallet, wallet_trades)
           times == {Time[t] : t \in stored}
<1>1. CASE stored = {}
  BY <1>1 DEF Since
<1>2. CASE stored # {}
  <2>1. stored \in SUBSET Trades
    BY DEF Of
  <2>2. \E s \in times : \A t \in stored : Time[t] <= s
    <3> HIDE DEF stored
    <3> QED
      BY <1>2, <2>1, Newest
  <2>3. Since(wallet) = CHOOSE s \in times : \A t \in stored : Time[t] <= s
    BY <1>2 DEF Since
  <2> HIDE DEF stored
  <2>4. Since(wallet) \in times /\ \A t \in stored : Time[t] <= Since(wallet)
    BY <2>2, <2>3
  <2> QED
    BY <1>2, <2>4 DEF stored
<1> QED
  BY <1>1, <1>2

\* What an insert of these rows leaves behind: the keys are unique, and a row
\* that is not in the table shares its key with another trade that is.
LEMMA InsertsMeans ==
  ASSUME wallet_trades \subseteq Trades, NEW rows \in SUBSET Trades, NEW new \in Inserts(rows)
  PROVE  /\ new \subseteq rows \ wallet_trades
         /\ \A t \in new : \A u \in wallet_trades \cup new : Key[t] = Key[u] => t = u
         /\ \A t \in rows \ (wallet_trades \cup new) :
              \E u \in wallet_trades \cup new : u # t /\ Key[u] = Key[t]
<1> DEFINE fresh == {t \in rows : \A u \in wallet_trades : Key[t] # Key[u]}
           same(t) == {u \in new : Key[u] = Key[t]}
<1>1. new \subseteq fresh /\ \A t \in fresh : Cardinality(same(t)) = 1
  BY DEF Inserts
<1>2. \A t \in fresh : \E x : same(t) = {x}
  <2> SUFFICES ASSUME NEW t \in fresh
               PROVE  \E x : same(t) = {x}
    OBVIOUS
  <2>1. same(t) \in SUBSET Trades
    BY <1>1
  <2>2. IsFiniteSet(same(t))
    BY <2>1, WatcherAssumption, FS_Subset
  <2>3. Cardinality(same(t)) = 1
    BY <1>1
  <2> HIDE DEF same, fresh
  <2> QED
    BY <2>2, <2>3, FS_Singleton
<1>3. ASSUME NEW t \in new, NEW u \in wallet_trades \cup new, Key[t] = Key[u]
      PROVE  t = u
  <2>1. t \in same(t) /\ u \in same(t) /\ t \in fresh
    BY <1>1, <1>3
  <2>2. PICK x : same(t) = {x}
    BY <1>2, <2>1
  <2> QED
    BY <2>1, <2>2
<1>4. ASSUME NEW t \in rows \ (wallet_trades \cup new)
      PROVE  \E u \in wallet_trades \cup new : u # t /\ Key[u] = Key[t]
  <2>1. CASE t \in fresh
    BY <1>2, <1>4, <2>1
  <2>2. CASE t \notin fresh
    BY <1>4, <2>2
  <2> QED
    BY <2>1, <2>2
<1> QED
  BY <1>1, <1>3, <1>4
-----------------------------------------------------------------------------
\* Whatever fails, the turn goes to one of the wallets.
LEMMA EndPollType ==
  ASSUME TypeOK, EndPoll
  PROVE  turn' \in DOMAIN Wallets /\ pc' = "poll" /\ batch' = {}
<1>1. DOMAIN Wallets = 1..Len(Wallets) /\ Len(Wallets) \in Nat \ {0}
  BY WatcherAssumption
<1> QED
  BY <1>1 DEF TypeOK, EndPoll

\* Every step keeps the types of the variables.
LEMMA TypeStep == TypeOK /\ [Next]_vars => TypeOK'
<1> SUFFICES ASSUME TypeOK, [Next]_vars
             PROVE  TypeOK'
  OBVIOUS
<1> USE DEF TypeOK
<1>1. CASE Fetch
  <2>1. PICK rows \in Responses(Wallets[turn]) :
          batch' = rows /\ cut' = cut \cup (Eligible(Wallets[turn]) \ rows)
    BY <1>1 DEF Fetch
  <2>2. Eligible(Wallets[turn]) \subseteq indexed /\ rows \subseteq indexed
    BY <2>1 DEF Responses, Eligible, Of
  <2> QED
    BY <1>1, <2>1, <2>2 DEF Fetch
<1>2. CASE Commit
  <2>1. PICK new \in Inserts(batch) : wallet_trades' = wallet_trades \cup new /\ batch' = new
    BY <1>2 DEF Commit
  <2>2. new \subseteq batch
    BY <2>1, InsertsMeans
  <2> QED
    BY <1>2, <2>1, <2>2 DEF Commit
<1>3. CASE PollFails \/ PollDone
  BY <1>3, EndPollType DEF PollFails, PollDone
<1>4. CASE Publish
  BY <1>4 DEF Publish
<1>5. CASE PublishFails
  BY <1>5, EndPollType DEF PublishFails
<1>6. CASE Crash
  <2>1. 1 \in DOMAIN Wallets
    BY WatcherAssumption
  <2>2. up' \in BOOLEAN
    BY <1>6, Zenon DEF Crash
  <2>3. crashes' \in Nat
    BY <1>6 DEF Crash
  <2>4. pc' = "poll" /\ turn' = 1 /\ batch' = {}
        /\ UNCHANGED <<indexed, wallet_trades, published, late, cut, backfills>>
    BY <1>6 DEF Crash
  <2> QED
    BY <2>1, <2>2, <2>3, <2>4
<1>7. CASE Restart
  BY <1>7 DEF Restart
<1>8. ASSUME NEW t \in Trades, Index(t)
      PROVE  TypeOK'
  BY <1>8 DEF Index, agent_vars
<1>9. ASSUME NEW wallet \in ToSet(Wallets), Backfill(wallet)
      PROVE  TypeOK'
  <2>1. PICK rows \in SUBSET Of(wallet, indexed) :
          /\ \E new \in Inserts(rows) : wallet_trades' = wallet_trades \cup new
          /\ cut' = cut \cup (Eligible(wallet) \ rows)
    BY <1>9 DEF Backfill
  <2>2. rows \subseteq indexed /\ Eligible(wallet) \subseteq indexed
    BY DEF Of, Eligible
  <2>3. wallet_trades' \subseteq indexed
    BY <2>1, <2>2, InsertsMeans
  <2> QED
    BY <1>9, <2>1, <2>2, <2>3 DEF Backfill, agent_vars
<1>10. CASE UNCHANGED vars
  BY <1>10 DEF vars, agent_vars
<1> QED
  BY <1>1, <1>2, <1>3, <1>4, <1>5, <1>6, <1>7, <1>8, <1>9, <1>10 DEF Next, Poll

\* Whatever the API shows and whatever fails, the table and the agent keep
\* their types.
THEOREM TypeCorrect == Spec => []TypeOK
<1>1. Init => TypeOK
  BY WatcherAssumption DEF Init, TypeOK
<1> QED
  BY <1>1, TypeStep, PTL DEF Spec
-----------------------------------------------------------------------------
(***************************************************************************)
(* Publication.                                                            *)
(***************************************************************************)

\* The table has one trade of a key; what was published is in it, and what
\* waits for its publication is in it and was not published.
OnceInv ==
  /\ \A t, u \in wallet_trades : Key[t] = Key[u] => t = u
  /\ \A t \in Trades : published[t] \in {0, 1} /\ (published[t] = 1 => t \in wallet_trades)
  /\ pc = "publish" => \A t \in batch : t \in wallet_trades /\ published[t] = 0

\* A step that publishes nothing and keeps the keys of the table unique.
LEMMA OnceStutter ==
  ASSUME OnceInv, wallet_trades \subseteq wallet_trades', published' = published,
         \A t, u \in wallet_trades' : Key[t] = Key[u] => t = u,
         pc' = "publish" => pc = "publish" /\ batch' = batch
  PROVE  OnceInv'
  BY DEF OnceInv

\* An insert keeps the keys of the table unique.
LEMMA KeysStayUnique ==
  ASSUME TypeOK, OnceInv, NEW rows \in SUBSET Trades, NEW new \in Inserts(rows),
         wallet_trades' = wallet_trades \cup new
  PROVE  \A t, u \in wallet_trades' : Key[t] = Key[u] => t = u
<1>1. \A t \in new : \A u \in wallet_trades \cup new : Key[t] = Key[u] => t = u
  BY InsertsMeans DEF TypeOK
<1> QED
  BY <1>1 DEF OnceInv

\* Every step keeps OnceInv.
LEMMA OnceInductive == TypeOK /\ OnceInv /\ [Next]_vars => OnceInv'
<1> SUFFICES ASSUME TypeOK, OnceInv, [Next]_vars
             PROVE  OnceInv'
  OBVIOUS
<1>1. CASE Fetch \/ PollFails \/ PollDone \/ Crash \/ Restart \/ UNCHANGED vars
  <2>1. wallet_trades' = wallet_trades /\ published' = published
        /\ (pc' = "publish" => pc = "publish" /\ batch' = batch)
    BY <1>1 DEF Fetch, PollFails, PollDone, EndPoll, Crash, Restart, vars, agent_vars
  <2> QED
    BY <2>1, OnceStutter DEF OnceInv
<1>2. CASE Commit
  <2>1. PICK new \in Inserts(batch) : wallet_trades' = wallet_trades \cup new /\ batch' = new
    BY <1>2 DEF Commit
  <2>2. batch \subseteq Trades /\ new \subseteq batch \ wallet_trades
    BY <2>1, InsertsMeans DEF TypeOK
  <2>3. \A t, u \in wallet_trades' : Key[t] = Key[u] => t = u
    BY <2>1, <2>2, KeysStayUnique
  <2>4. \A t \in new : published[t] = 0
    BY <2>2 DEF OnceInv
  <2> QED
    BY <1>2, <2>1, <2>3, <2>4 DEF OnceInv, Commit
<1>3. CASE Publish
  <2>1. PICK t \in batch : /\ published' = [published EXCEPT ![t] = @ + 1]
                           /\ batch' = batch \ {t}
    BY <1>3 DEF Publish
  <2>2. t \in Trades /\ t \in wallet_trades /\ published[t] = 0
    BY <1>3 DEF Publish, TypeOK, OnceInv
  <2> QED
    BY <1>3, <2>1, <2>2 DEF Publish, TypeOK, OnceInv
<1>4. CASE PublishFails
  <2>1. PICK t \in batch : published' \in {published, [published EXCEPT ![t] = @ + 1]}
    BY <1>4 DEF PublishFails
  <2>2. t \in Trades /\ t \in wallet_trades /\ published[t] = 0
    BY <1>4 DEF PublishFails, TypeOK, OnceInv
  <2> QED
    BY <1>4, <2>1, <2>2 DEF PublishFails, EndPoll, TypeOK, OnceInv
<1>5. ASSUME NEW t \in Trades, Index(t)
      PROVE  OnceInv'
  BY <1>5, OnceStutter DEF Index, agent_vars, OnceInv
<1>6. ASSUME NEW wallet \in ToSet(Wallets), Backfill(wallet)
      PROVE  OnceInv'
  <2>1. PICK rows \in SUBSET Of(wallet, indexed) :
          \E new \in Inserts(rows) : wallet_trades' = wallet_trades \cup new
    BY <1>6 DEF Backfill
  <2>2. rows \in SUBSET Trades
    BY DEF Of, TypeOK
  <2>3. \A t, u \in wallet_trades' : Key[t] = Key[u] => t = u
    BY <2>1, <2>2, KeysStayUnique
  <2> QED
    BY <1>6, <2>1, <2>3, OnceStutter DEF Backfill, agent_vars
<1> QED
  BY <1>1, <1>2, <1>3, <1>4, <1>5, <1>6 DEF Next, Poll

\* However many polls fail and whatever the backfill stores meanwhile, a
\* trade is published at most once, and so is each transaction.
THEOREM NeverTwice == Spec => []PublishedOnce
<1>1. Init => OnceInv
  BY DEF Init, OnceInv
<1>2. OnceInv => PublishedOnce
  BY DEF OnceInv, PublishedOnce
<1> QED
  BY <1>1, <1>2, TypeCorrect, OnceInductive, PTL DEF Spec
-----------------------------------------------------------------------------
(***************************************************************************)
(* What lies below a cursor.                                               *)
(***************************************************************************)

Excused(t) == t \in late \cup cut \/ Collides(t)

\* A trade of the wallet in hand that the response does not hold is excused,
\* or no older than anything the response holds: the commit moves the cursor
\* past excused trades only.
ResponseInv ==
  pc = "persist" =>
    /\ batch \subseteq Of(Wallets[turn], indexed)
    /\ \A t \in Of(Wallets[turn], indexed) \ (wallet_trades \cup batch) :
         BootstrapStart <= Time[t] /\ ~Excused(t) => \A u \in batch : Time[u] <= Time[t]

GapInv == TypeOK /\ NoGapBelowCursor /\ ResponseInv

\* The cursor depends on the table only.
LEMMA SameSince ==
  ASSUME NEW wallet, Of(wallet, wallet_trades)' = Of(wallet, wallet_trades)
  PROVE  Since(wallet)' = Since(wallet)
  BY DEF Since

\* A trade below the cursor is older than some stored trade of its wallet.
NewerStored ==
  \A t \in Trades :
    BootstrapStart <= Time[t] /\ Time[t] < Since(Wallet[t]) =>
      \E u \in Of(Wallet[t], wallet_trades) : Time[t] < Time[u]

\* The cursor is the time of a stored trade, or the start of the bootstrap.
LEMMA BelowCursor == TypeOK => NewerStored
<1> SUFFICES ASSUME TypeOK, NEW t \in Trades, BootstrapStart <= Time[t],
                    Time[t] < Since(Wallet[t])
             PROVE  \E u \in Of(Wallet[t], wallet_trades) : Time[t] < Time[u]
  BY DEF NewerStored
<1>1. wallet_trades \subseteq Trades /\ Time[t] \in Nat /\ BootstrapStart \in Nat
  BY WatcherAssumption DEF TypeOK
<1>2. Of(Wallet[t], wallet_trades) # {}
  BY <1>1, SinceMeans
<1> QED
  BY <1>1, <1>2, SinceMeans

\* A trade that is not excused and not stored is not below its cursor, hence
\* no stored trade of its wallet is newer.
LEMMA NotBelow ==
  ASSUME GapInv, NEW t \in indexed \ wallet_trades, BootstrapStart <= Time[t], ~Excused(t)
  PROVE  /\ ~(Time[t] < Since(Wallet[t]))
         /\ \A u \in Of(Wallet[t], wallet_trades) : Time[u] <= Time[t]
<1>1. ~(Time[t] < Since(Wallet[t]))
  BY DEF GapInv, NoGapBelowCursor, Excused
<1>2. wallet_trades \subseteq Trades /\ t \in Trades /\ \A u \in Trades : Time[u] \in Nat
  BY WatcherAssumption DEF GapInv, TypeOK
<1>3. \A u \in Of(Wallet[t], wallet_trades) : u \in Trades /\ Time[u] <= Since(Wallet[t])
  BY <1>2, SinceMeans DEF Of
<1>4. Of(Wallet[t], wallet_trades) # {} => Since(Wallet[t]) \in Nat
  BY <1>2, <1>3, SinceMeans
<1> QED
  BY <1>1, <1>2, <1>3, <1>4

\* The table grows by some rows: a trade that no new trade of its wallet is
\* newer than is below its cursor only if it was.
LEMMA GrowsSafely ==
  ASSUME GapInv, TypeOK', indexed' = indexed, wallet_trades \subseteq wallet_trades',
         late \subseteq late', cut \subseteq cut',
         \A t \in indexed \ wallet_trades' :
           BootstrapStart <= Time[t] /\ ~Excused(t)' =>
             \A u \in Of(Wallet[t], wallet_trades') \ wallet_trades : Time[u] <= Time[t]
  PROVE  NoGapBelowCursor'
<1> SUFFICES ASSUME NEW t \in indexed \ wallet_trades',
                    BootstrapStart <= Time[t], Time[t] < Since(Wallet[t])',
                    ~Excused(t)'
             PROVE  FALSE
  BY DEF NoGapBelowCursor, Excused
<1>1. ~Excused(t) /\ t \in Trades /\ \A u \in Trades : Time[u] \in Nat
  BY WatcherAssumption DEF Excused, Collides, GapInv, TypeOK
<1>2. NewerStored'
  BY BelowCursor, PTL
<1>3. PICK u \in Of(Wallet[t], wallet_trades') : Time[t] < Time[u]
  BY <1>1, <1>2 DEF NewerStored, Of
<1>4. u \in Trades
  BY DEF Of, TypeOK
<1>5. u \in Of(Wallet[t], wallet_trades)
  BY <1>1, <1>3, <1>4 DEF Of
<1> QED
  BY <1>1, <1>3, <1>4, <1>5, NotBelow

\* Every step of the poll and its environment keeps GapInv but, for TypeOK,
\* those that move the cursor.
LEMMA GapStutter ==
  ASSUME GapInv, TypeOK', UNCHANGED <<indexed, wallet_trades>>, late' = late, cut \subseteq cut',
         pc' # "persist" \/ UNCHANGED <<pc, turn, batch, cut>>
  PROVE  GapInv'
<1>1. NoGapBelowCursor'
  <2>1. \A w : Of(w, wallet_trades)' = Of(w, wallet_trades)
    BY DEF Of
  <2>2. \A w : Since(w)' = Since(w)
    BY <2>1, SameSince
  <2> QED
    BY <2>2 DEF GapInv, NoGapBelowCursor, Collides
<1>2. ResponseInv'
  BY DEF GapInv, ResponseInv, Excused, Collides, Of
<1> QED
  BY <1>1, <1>2 DEF GapInv

\* A full response excuses what it leaves out, and what lies below the cursor
\* is excused already.
LEMMA FetchGap ==
  ASSUME GapInv, TypeOK', Fetch
  PROVE  GapInv'
<1> DEFINE w == Wallets[turn]
<1>1. PICK rows \in Responses(w) : batch' = rows /\ cut' = cut \cup (Eligible(w) \ rows)
  BY DEF Fetch
<1>2. pc' = "persist" /\ UNCHANGED <<indexed, wallet_trades, turn, late>>
  BY DEF Fetch
<1>3. rows \subseteq Of(w, indexed)
  BY <1>1 DEF Responses, Eligible, Of
<1>4. NoGapBelowCursor'
  <2>1. \A x : Of(x, wallet_trades)' = Of(x, wallet_trades)
    BY <1>2 DEF Of
  <2>2. \A x : Since(x)' = Since(x)
    BY <2>1, SameSince
  <2> QED
    BY <1>1, <1>2, <2>2 DEF GapInv, NoGapBelowCursor, Collides
<1>5. ASSUME NEW t \in Of(w, indexed) \ (wallet_trades \cup rows),
             BootstrapStart <= Time[t], ~Excused(t)'
      PROVE  FALSE
  <2>1. ~Excused(t) /\ t \notin Eligible(w)
    BY <1>1, <1>2, <1>5 DEF Excused, Collides
  <2>2. ~(Time[t] < Since(w))
    BY <1>5, <2>1, NotBelow DEF Of
  <2>3. Time[t] \in Nat /\ wallet_trades \subseteq Trades /\ \A u \in Trades : Time[u] \in Nat
    BY <1>5, WatcherAssumption DEF Of, GapInv, TypeOK
  <2>4. Since(w) \in Nat
    BY <2>3, SinceMeans, WatcherAssumption DEF Of
  <2> QED
    BY <1>5, <2>1, <2>2, <2>3, <2>4 DEF Eligible
<1>6. ResponseInv'
  BY <1>1, <1>2, <1>3, <1>5 DEF ResponseInv, Of
<1> QED
  BY <1>4, <1>6 DEF GapInv

\* The commit moves the cursor to the newest row of the response.
LEMMA CommitGap ==
  ASSUME GapInv, TypeOK', Commit
  PROVE  GapInv'
<1> DEFINE w == Wallets[turn]
<1>1. PICK new \in Inserts(batch) : wallet_trades' = wallet_trades \cup new
  BY DEF Commit
<1>2. pc = "persist" /\ pc' = "publish" /\ UNCHANGED <<indexed, late, cut>>
  BY DEF Commit
<1>3. /\ new \subseteq batch \ wallet_trades
      /\ \A t \in batch \ wallet_trades' : Excused(t)'
  BY <1>1, InsertsMeans DEF GapInv, TypeOK, Excused, Collides
<1>4. ASSUME NEW t \in indexed \ wallet_trades', BootstrapStart <= Time[t], ~Excused(t)',
             NEW u \in Of(Wallet[t], wallet_trades') \ wallet_trades
      PROVE  Time[u] <= Time[t]
  <2>1. t \notin wallet_trades \cup batch /\ ~Excused(t)
    BY <1>1, <1>2, <1>3, <1>4 DEF Excused, Collides
  <2>2. u \in batch /\ Wallet[u] = Wallet[t] /\ Wallet[u] = w
    BY <1>1, <1>2, <1>3, <1>4 DEF Of, GapInv, ResponseInv
  <2> QED
    BY <1>2, <1>4, <2>1, <2>2 DEF Of, GapInv, ResponseInv
<1>5. NoGapBelowCursor'
  BY <1>1, <1>2, <1>4, GrowsSafely
<1> QED
  BY <1>2, <1>5 DEF GapInv, ResponseInv

\* The backfill excuses what it leaves out above the cursor it found.
LEMMA BackfillGap ==
  ASSUME GapInv, TypeOK', NEW wallet \in ToSet(Wallets), Backfill(wallet)
  PROVE  GapInv'
<1>0. PICK rows \in SUBSET Of(wallet, indexed) :
        /\ \E new \in Inserts(rows) : wallet_trades' = wallet_trades \cup new
        /\ cut' = cut \cup (Eligible(wallet) \ rows)
  BY DEF Backfill
<1>1. PICK new \in Inserts(rows) :
        /\ wallet_trades' = wallet_trades \cup new
        /\ cut' = cut \cup (Eligible(wallet) \ rows)
  BY <1>0
<1>2. UNCHANGED <<indexed, agent_vars, late>>
  BY DEF Backfill
<1>3. /\ new \subseteq rows \ wallet_trades
      /\ \A t \in rows \ wallet_trades' : Excused(t)'
  BY <1>1, InsertsMeans DEF GapInv, TypeOK, Excused, Collides, Of
<1>4. \A t : ~Excused(t)' => ~Excused(t)
  BY <1>1, <1>2 DEF Excused, Collides
<1>5. ASSUME NEW t \in indexed \ wallet_trades', BootstrapStart <= Time[t], ~Excused(t)',
             NEW u \in Of(Wallet[t], wallet_trades') \ wallet_trades
      PROVE  FALSE
  <2>1. Wallet[t] = wallet /\ t \notin rows /\ t \notin wallet_trades
    BY <1>1, <1>3, <1>5 DEF Of
  <2>2. t \notin Eligible(wallet)
    BY <1>1, <1>2, <1>5, <2>1 DEF Excused
  <2>3. ~(Time[t] < Since(wallet))
    BY <1>4, <1>5, <2>1, NotBelow
  <2>4. Time[t] \in Nat /\ wallet_trades \subseteq Trades /\ \A x \in Trades : Time[x] \in Nat
    BY <1>5, WatcherAssumption DEF GapInv, TypeOK
  <2>5. Since(wallet) \in Nat
    BY <2>4, SinceMeans, WatcherAssumption DEF Of
  <2> QED
    BY <1>5, <2>1, <2>2, <2>3, <2>4, <2>5 DEF Eligible, Of
<1>6. NoGapBelowCursor'
  BY <1>1, <1>2, <1>5, GrowsSafely
<1>7. ResponseInv'
  BY <1>1, <1>2, <1>4 DEF GapInv, ResponseInv, agent_vars, Of
<1> QED
  BY <1>6, <1>7 DEF GapInv

\* A trade shown below the cursor, or below a row in hand, is late.
LEMMA IndexGap ==
  ASSUME GapInv, TypeOK', NEW t \in Trades, Index(t)
  PROVE  GapInv'
<1>1. /\ t \notin indexed /\ indexed' = indexed \cup {t}
      /\ late \subseteq late'
      /\ (\E u \in Of(Wallet[t], indexed) : Time[u] > Time[t]) => t \in late'
      /\ UNCHANGED <<wallet_trades, agent_vars, cut>>
  BY DEF Index
<1>2. \A x : Excused(x) => Excused(x)'
  BY <1>1 DEF Excused, Collides
<1>3. \A u \in Trades : Time[u] \in Nat
  BY WatcherAssumption
<1>4. NoGapBelowCursor'
  <2> SUFFICES ASSUME NEW x \in indexed' \ wallet_trades,
                      BootstrapStart <= Time[x], Time[x] < Since(Wallet[x])'
               PROVE  Excused(x)'
    BY <1>1 DEF NoGapBelowCursor, Excused
  <2>1. \A w : Of(w, wallet_trades)' = Of(w, wallet_trades)
    BY <1>1 DEF Of
  <2>2. Since(Wallet[x])' = Since(Wallet[x])
    BY <2>1, SameSince
  <2>3. CASE x \in indexed
    BY <1>1, <1>2, <2>2, <2>3 DEF GapInv, NoGapBelowCursor, Excused
  <2>4. CASE x = t
    <3>1. PICK u \in Of(Wallet[t], wallet_trades) : Time[t] < Time[u]
      BY <2>2, <2>4, BelowCursor DEF GapInv, NewerStored
    <3>2. u \in Of(Wallet[t], indexed) /\ u \in Trades
      BY <3>1 DEF Of, GapInv, TypeOK
    <3> QED
      BY <1>1, <1>3, <2>4, <3>1, <3>2 DEF Excused
  <2> QED
    BY <1>1, <2>3, <2>4
<1>5. ResponseInv'
  <2> SUFFICES ASSUME pc = "persist"
               PROVE  ResponseInv'
    BY <1>1 DEF ResponseInv, agent_vars
  <2> DEFINE w == Wallets[turn]
  <2>1. batch \subseteq Of(w, indexed) /\ Of(w, indexed) \subseteq Of(w, indexed')
    BY <1>1 DEF GapInv, ResponseInv, Of
  <2>2. ASSUME NEW x \in Of(w, indexed') \ (wallet_trades \cup batch),
               BootstrapStart <= Time[x], ~Excused(x)', NEW u \in batch
        PROVE  Time[u] <= Time[x]
    <3>1. CASE x \in indexed
      BY <1>2, <2>2, <3>1 DEF GapInv, ResponseInv, Of
    <3>2. CASE x = t
      <4>1. u \in Of(Wallet[t], indexed) /\ u \in Trades
        BY <2>1, <2>2, <3>2 DEF Of, GapInv, TypeOK
      <4> QED
        BY <1>1, <1>3, <2>2, <3>2, <4>1 DEF Excused
    <3> QED
      BY <1>1, <2>2, <3>1, <3>2 DEF Of
  <2> QED
    BY <1>1, <2>1, <2>2 DEF ResponseInv, agent_vars, Of
<1> QED
  BY <1>4, <1>5 DEF GapInv

\* Every step keeps GapInv.
LEMMA GapInductive == GapInv /\ [Next]_vars => GapInv'
<1> SUFFICES ASSUME GapInv, [Next]_vars
             PROVE  GapInv'
  OBVIOUS
<1>1. TypeOK'
  BY TypeStep DEF GapInv
<1>2. CASE PollFails \/ Publish \/ PublishFails \/ PollDone \/ Crash \/ Restart \/ UNCHANGED vars
  <2>1. /\ UNCHANGED <<indexed, wallet_trades, late, cut>>
        /\ pc' # "persist" \/ UNCHANGED <<pc, turn, batch>>
    BY <1>2 DEF PollFails, Publish, PublishFails, PollDone, EndPoll, Crash, Restart, vars, agent_vars
  <2> QED
    BY <1>1, <2>1, GapStutter
<1> QED
  BY <1>1, <1>2, FetchGap, CommitGap, BackfillGap, IndexGap DEF Next, Poll

\* Whatever fails between a poll and the next, and wherever the backfill comes
\* between, no trade below a cursor is missing without a listed reason.
THEOREM CursorIsSafe == Spec => []NoGapBelowCursor
<1>1. Init => GapInv
  BY WatcherAssumption DEF Init, GapInv, TypeOK, NoGapBelowCursor, ResponseInv
<1>2. GapInv => NoGapBelowCursor
  BY DEF GapInv
<1> QED
  BY <1>1, <1>2, GapInductive, PTL DEF Spec
=============================================================================
