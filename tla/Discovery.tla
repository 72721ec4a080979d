----------------------------- MODULE Discovery ------------------------------
(***************************************************************************)
(* discover_wallets: one run after the other, each of which pages through  *)
(* the leaderboard of Polymarket, leaves out what the seed file has, and   *)
(* writes the candidates file, the report and a row of discovery_runs with *)
(* its discovery_candidates.  The leaderboard moves while it is read.  The *)
(* operator copies candidates of a successful run to the seed file.        *)
(*                                                                         *)
(* Abstracted: volume, profit and the badge of an entry, except whether    *)
(* the volume is below the minimum; the wording of the report.             *)
(***************************************************************************)
EXTENDS Naturals, SequencesExt

CONSTANTS
  Wallets,     \* addresses of the leaderboard
  Ranking,     \* the leaderboard at first, best wallet first
  UserName,    \* the sanitized name of each wallet; the fallback is its address
  LowVolume,   \* wallets below min_volume_usdc
  Tops,        \* values of --top
  PAGE_SIZE,
  MaxOffset,   \* the last offset that is asked for
  NoFile,
  MaxMoves,    \* bound: changes of the leaderboard
  MaxRuns      \* bound: runs of the script

ASSUME DiscoveryAssumption ==
  /\ Ranking \in Seq(Wallets) /\ ToSet(Ranking) = Wallets
  /\ Len(Ranking) = Cardinality(Wallets)
  /\ DOMAIN UserName = Wallets
  /\ LowVolume \subseteq Wallets
  /\ Tops \subseteq Nat \ {0}
  /\ PAGE_SIZE \in Nat \ {0}
  /\ MaxOffset \in Nat
  /\ \E pages \in 0..MaxOffset : MaxOffset = pages * PAGE_SIZE
  /\ MaxMoves \in Nat /\ MaxRuns \in Nat

VARIABLES
  board,       \* the leaderboard: wallets in order of profit
  moves,
  seed,        \* wallets_seed.yaml: the addresses, in order
  runs_done,   \* runs started
  script,      \* where run_discover is
  args,        \* --top and --dry-run
  seed_addrs,  \* the addresses the run has read from the seed
  offset,
  fetched,     \* entries of the pages, rank and address
  candidates,
  still,       \* history: the board has not moved since the run started
  exit_code,
  files,       \* the candidates file and the report
  runs,        \* discovery_runs with their candidates
  adopted      \* the operator has dealt with the last run

progress == <<args, seed_addrs, offset, fetched, candidates, exit_code>>
outside == <<board, moves, seed, runs_done, still, adopted>>
outputs == <<files, runs>>
discovery_vars == <<script, progress, outside, outputs>>

Addresses(entries) == {entries[i].address : i \in DOMAIN entries}

\* load_wallets_seed refuses an address or a label that occurs twice.
Loads(addresses) ==
  \A i, j \in DOMAIN addresses : i # j =>
    addresses[i] # addresses[j] /\ UserName[addresses[i]] # UserName[addresses[j]]

DiscoveryInit ==
  /\ board = Ranking
  /\ moves = 0
  /\ seed = <<>>
  /\ runs_done = 0
  /\ script = "off"
  /\ args = [top |-> 1, dry_run |-> FALSE]
  /\ seed_addrs = {}
  /\ offset = 0
  /\ fetched = <<>>
  /\ candidates = <<>>
  /\ still = TRUE
  /\ exit_code = 1
  /\ files = [candidates |-> NoFile, report |-> NoFile]
  /\ runs = <<>>
  /\ adopted = TRUE
-----------------------------------------------------------------------------
(* One run.                                                                *)

Exit(code) == script' = "off" /\ exit_code' = code

\* parse_args, and the seed file, which may not load.
Start ==
  /\ script = "off"
  /\ runs_done < MaxRuns
  /\ runs_done' = runs_done + 1
  /\ args' \in [top : Tops, dry_run : BOOLEAN]
  /\ IF Loads(seed) THEN script' = "fetch" /\ exit_code' = 0 ELSE Exit(1)
  /\ seed_addrs' = ToSet(seed)
  /\ offset' = 0
  /\ fetched' = <<>>
  /\ candidates' = <<>>
  /\ still' = TRUE
  /\ adopted' = FALSE
  /\ UNCHANGED <<board, moves, seed, outputs>>

\* The rows of the board from this offset on; the rank is the position.
Page(from) ==
  [i \in {n \in 1..PAGE_SIZE : from + n <= Len(board)} |->
     [rank |-> from + i, address |-> board[from + i]]]

MorePages(entries, from) == Len(entries) < args.top /\ from <= MaxOffset

\* Mutant: the board is taken to end with a full page.
BugFetchPage ==
  LET page == Page(offset) IN
  /\ script = "fetch"
  /\ fetched' = fetched \o page
  /\ offset' = offset + PAGE_SIZE
  /\ script' = IF Len(page) > PAGE_SIZE /\ MorePages(fetched', offset') THEN "fetch" ELSE "filter"
  /\ UNCHANGED <<args, seed_addrs, candidates, exit_code, outside, outputs>>

FetchPage ==
  LET page == Page(offset) IN
  /\ script = "fetch"
  /\ fetched' = fetched \o page
  /\ offset' = offset + PAGE_SIZE
  /\ script' = IF Len(page) = PAGE_SIZE /\ MorePages(fetched', offset') THEN "fetch" ELSE "filter"
  /\ UNCHANGED <<args, seed_addrs, candidates, exit_code, outside, outputs>>

\* Retries are spent, or a row does not parse.
FetchFails ==
  /\ script = "fetch"
  /\ Exit(1)
  /\ UNCHANGED <<args, seed_addrs, offset, fetched, candidates, outside, outputs>>

Excluded(entry) == entry.address \in seed_addrs \cup LowVolume

\* Mutant: no dedup.
BugFilterAndRank(entries, top_n) ==
  LET out[i \in 0..Len(entries)] ==
        IF i = 0 THEN <<>>
        ELSE IF Excluded(entries[i]) \/ Len(out[i - 1]) = top_n
             THEN out[i - 1] ELSE Append(out[i - 1], entries[i])
  IN  out[Len(entries)]

\* filter_and_rank: the first entry of every address that is not excluded.
\* out[i] is the list after i entries.
FilterAndRank(entries, top_n) ==
  LET out[i \in 0..Len(entries)] ==
        IF i = 0 THEN <<>>
        ELSE IF \/ Excluded(entries[i])
                \/ entries[i].address \in Addresses(out[i - 1])
                \/ Len(out[i - 1]) = top_n
             THEN out[i - 1] ELSE Append(out[i - 1], entries[i])
  IN  out[Len(entries)]

\* No candidates: exit code 2, and nothing is written.
Filter ==
  /\ script = "filter"
  /\ candidates' = FilterAndRank(fetched, args.top)
  /\ IF candidates' = <<>> THEN Exit(2)
     ELSE IF args.dry_run THEN Exit(0)
     ELSE script' = "candidates" /\ UNCHANGED exit_code
  /\ UNCHANGED <<args, seed_addrs, offset, fetched, outside, outputs>>

WriteCandidates ==
  /\ script = "candidates"
  /\ files' = [files EXCEPT !.candidates = candidates]
  /\ script' = "report"
  /\ UNCHANGED <<progress, outside, runs>>

WriteReport ==
  /\ script = "report"
  /\ files' = [files EXCEPT !.report = candidates]
  /\ script' = "insert"
  /\ UNCHANGED <<progress, outside, runs>>

\* insert_run and the commit; the primary key is (run_id, rank).
InsertRun ==
  /\ script = "insert"
  /\ \A i, j \in DOMAIN candidates : i # j => candidates[i].rank # candidates[j].rank
  /\ runs' = Append(runs, candidates)
  /\ Exit(0)
  /\ UNCHANGED <<args, seed_addrs, offset, fetched, candidates, outside, files>>

\* Mutant: the failure is logged, and the run goes on to its end.
BugRunFails ==
  /\ script \in {"candidates", "report", "insert"}
  /\ runs' \in {runs} \cup IF script = "insert" THEN {Append(runs, candidates)} ELSE {}
  /\ Exit(0)
  /\ UNCHANGED <<args, seed_addrs, offset, fetched, candidates, outside, files>>

\* A file cannot be written, the database refuses, the script is killed: the
\* transaction is lost, or only the answer to its commit is.
RunFails ==
  /\ script \in {"candidates", "report", "insert"}
  /\ runs' \in {runs} \cup IF script = "insert" THEN {Append(runs, candidates)} ELSE {}
  /\ Exit(1)
  /\ UNCHANGED <<args, seed_addrs, offset, fetched, candidates, outside, files>>
-----------------------------------------------------------------------------
(* The world.                                                              *)

\* Two neighbours of the leaderboard change places.
Move ==
  /\ moves < MaxMoves
  /\ moves' = moves + 1
  /\ \E i \in 1..(Len(board) - 1) :
       board' = [board EXCEPT ![i] = board[i + 1], ![i + 1] = board[i]]
  /\ still' = FALSE
  /\ UNCHANGED <<script, progress, seed, runs_done, adopted, outputs>>

\* After a run that reports success the operator copies entries of the
\* candidates file to the seed file.
Adopt ==
  /\ script = "off" /\ exit_code = 0 /\ ~args.dry_run /\ ~adopted
  /\ \E n \in 0..Len(files.candidates) :
       \E chosen \in [1..n -> DOMAIN files.candidates] :
         /\ \A i, j \in 1..n : i < j => chosen[i] < chosen[j]
         /\ seed' = seed \o [i \in 1..n |-> files.candidates[chosen[i]].address]
  /\ adopted' = TRUE
  /\ UNCHANGED <<script, progress, board, moves, runs_done, still, outputs>>

Run ==
  \/ Start \/ FetchPage \/ FetchFails \/ Filter
  \/ WriteCandidates \/ WriteReport \/ InsertRun \/ RunFails

DiscoveryNext == Run \/ Move \/ Adopt

DiscoverySpec == DiscoveryInit /\ [][DiscoveryNext]_discovery_vars
-----------------------------------------------------------------------------
\* However the board moves between the pages and the runs, no wallet comes
\* twice into the seed file; so only equal names can keep it from loading.
NoWalletTwice ==
  \A i, j \in DOMAIN seed : i # j => seed[i] # seed[j]

\* A run that reports success has left the same candidates in both files
\* and in the database; and the database has only what the files had.
SuccessIsComplete ==
  /\ script = "off" /\ exit_code = 0 /\ ~args.dry_run =>
       /\ candidates # <<>>
       /\ files = [candidates |-> candidates, report |-> candidates]
       /\ runs # <<>> /\ Last(runs) = candidates
  /\ script = "insert" => files = [candidates |-> candidates, report |-> candidates]

\* On a board that stands still, no wallet of the first --top is left out
\* but for the seed and its volume, and no wallet further down replaces it.
NoneSkipped ==
  script \in {"candidates", "report", "insert"} /\ still =>
    LET asked == {i \in 1..Len(board) : i <= args.top /\ i <= MaxOffset + PAGE_SIZE}
    IN  \A i \in asked :
          board[i] \in seed_addrs \cup LowVolume \cup Addresses(candidates)
=============================================================================
