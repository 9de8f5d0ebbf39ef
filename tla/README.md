# Verification of mevlog

mevlog indexes EVM blocks into one SQLite database per chain and answers queries from it. It is a
command line program, a terminal UI, an MCP server and a web explorer with a scheduler, all of them
processes that share a database file and a directory of parquet files without a server in between.
This directory models what those processes do to the shared state, checks it with TLC on small
instances and proves the central invariants with TLAPS for all of them.

Paths below are relative to `src/crates/mevlog/` unless they begin with `mevlog-backend/`, which stands
for `src/crates/mevlog-backend/`.

## 1. The system

### Components

| Component | State it keeps | Operations | Correct means |
|---|---|---|---|
| Transactions database (`src/db/txs/models`, `src/db/shared.rs`) | tables `blocks`, `transactions`, `logs` of a chain, in WAL mode | `init_db`, `missing_blocks`, three `save_batch`, deletes | a `blocks` row stands for complete data |
| Block indexing (`src/db/txs/indexing.rs`, `src/misc/data_fetch.rs`) | chunks of a run, fetches in flight, the directory of cryo's parquet files | `index_block_range`, `fetch_blocks_batch`, `prune_indexed_cache` | what is flagged is complete, what was asked for is flagged, every run ends |
| Purge (`src/db/txs/purge.rs`) | cutoff, bound of the chunk | `purge_old_blocks` | nothing in the window goes, it ends, no half of a block stays |
| Custom tables (`src/db/txs/custom_tables.rs`, `src/misc/config.rs`) | a table per definition of the config, `custom_tables` with the fingerprints | `load`, `sync`, `populate_range`, `rebuild`, delete with a purge | rows of a table follow `logs`, by one definition; a column is what its type says |
| Scheduler (`mevlog-backend/bin/scheduler.rs`, `src/config/schedule.rs`) | `job_lock`, `last_indexed`, child commands | live task, reindex and purge jobs, restart | one writer, no gap left behind, everybody gets a turn |
| Index commands (`bin/cmd/index.rs`, `reindex.rs`, `purge_db.rs`) | the last indexed block of a live loop | backfill, poll, purge after a round; reindex; purge | the loop follows the chain and leaves no hole |
| Block ranges (`src/misc/args_parsing.rs`) | none | `BlocksRange::from_str`, `get_latest_block` | the blocks the user has named |
| Start of a command (`src/misc/shared_init.rs`, `src/db/shared.rs`) | database files, migrations, the RPC endpoints chosen | `resolve_conn`, `init_deps`, `init_db` | a file that exists has its schema; endpoints are of one chain |
| Signatures database (`src/db/sigs`, `bin/cmd/seed_db.rs`) | a downloaded SQLite file; its seed; caches of lookups | download, decompress, index, seed, look up | a file that exists is whole, and is what the export says |
| Queries (`src/cmds`, `src/db/txs/raw_query.rs`, `src/misc/sql_macros.rs`) | a deadline; the values of the macros | a time budget over indexing, traces and SQL; authorizer, row cap | the budget is kept; an answer is of one state, and whole |
| Tracing (`src/misc/tx_tracing.rs`, `revm_tracing.rs`, `rpc_tracing.rs`) | `coinbase_transfer` of transactions | backfill transaction by transaction, trace of one transaction | what was traced is true and is kept |
| MCP server (`src/mcp_server.rs`), IPFS upload (`src/misc/ipfs.rs`) | child processes | tool calls with nested timeouts | no child outlives its call, none is killed early |
| Web server (`mevlog-backend/src/controllers`) | the commands it runs | block-txs with block-logs, and search, each with a timeout | a reply is of one block, no child is left behind |
| Server caches (`mevlog-backend/src/misc`) | prices, endpoints of a chain | refresh on expiry | what they give is something that was true |
| RPC endpoints (`src/misc/rpc_urls.rs`, `utils.rs`, `ens_utils.rs`) | the chain list and names on disk | download, race of endpoints | only endpoints of the chain; no other name's address, case aside |
| Terminal UI (`bin/cmd/tui`) | the app's mode, chain, endpoint, selection; the worker's tasks; two channels | keys, requests, answers | what is shown answers what was asked last; it never hangs |
| Output models, command line | none | parsing, rendering | an answer says what it is of |

### How they interact

- Every command begins with `resolve_conn` and `init_deps`: it settles on endpoints and a chain, downloads
  and indexes the signatures database if need be, opens (or creates) the chain's database and reconciles the
  custom tables with the config as it is at that moment. The config is not read again.
- `index`, `reindex`, `query`, `block-txs` and the live loop all go through `index_block_range`: it asks
  the database what is missing, cuts that into chunks, keeps one fetch per RPC endpoint going, and
  saves chunk by chunk in four steps (logs, custom tables, transactions, blocks). At the end it prunes
  the cache. Runs of different processes meet in the database and in the cache directory only.
- A fetch runs `cryo`, a child process, on the gaps of the cache, and then reads *all* files that
  overlap its chunk, including those another run wrote and may prune.
- `purge_old_blocks` deletes by block number, a chunk per transaction.
- The scheduler runs `index`, `reindex` and `purge-db` as child commands under one fair
  `tokio::sync::Mutex`; the web server runs `block-txs` on the same database without it, and then
  `block-logs` for the block the first has settled on.
- The terminal UI has two threads with a channel in each direction: the app and the data worker,
  which keeps one task per kind of request and aborts it when the next one comes.
- A query drops its preparation at its deadline and gives the SQL what remains of the budget. The MCP
  server runs it in a child that it kills when its own timer fires; the web server runs it in a future that
  its `TimeoutLayer` drops. Traces are stored one by one, in the middle of the preparation.

### What is hard about it

Saves are not one transaction, so a failure or a kill leaves any prefix behind; the cache is read
twice with a `cryo` run in between and pruned by others at any time; a purge and a run overlap unless
something excludes them; fingerprints say what a table looks like and not since when it was kept; files
are created at their final path and taken for complete once they exist; fairness of a lock that one task
only *tries* decides whether the live task falls behind; an endpoint may lag behind another; an aborted
task may have answered already; a timer does not fire while a replay computes; the chain goes on between two
commands that are to speak of one block. `PROJECT.json` lists 40 such hazards at their lines, with the
properties that are about each, or the reason why there is none.

## 2. The modules

| Module | Models | Used by |
|---|---|---|
| `TxsDb` | the three tables as sets of block numbers; inserts, `missing_blocks`, the bounds and the delete of a purge chunk | all of the database's users |
| `CryoCache` | the parquet directory: per data type a set of files, each the set of its blocks | `BlockIndexing` |
| `Chunking` | the chunks of a run, as sets | `BlockIndexing`, `CustomTables`, `ChunkLoops` |
| `BlockStore` | **abstract**: what the store of indexed blocks promises to those who read it | implemented by `BlockIndexing` |
| `BlockIndexing` | runs of `index_block_range` and purges, of several processes | |
| `CustomTables` | the lives of custom tables under syncs, runs, rebuilds, purges and edits of the config | |
| `Scheduler` | live task, jobs, lock, commands, restart, web requests | |
| `BlockRanges` | the block argument, in unsigned arithmetic of a fixed width | `IndexCommands` |
| `IndexCommands` | `index`, `index --live`, `reindex`, `purge-db` as whole commands beside each other | |
| `Endpoints` | which endpoints a command settles on, and which of them it asks for their chain | `CommandStart` |
| `SigsFile` | the files of the signatures database: archive, unpacking, replacement, indexes | `CommandStart` |
| `CommandStart` | the start of a command, `update-sigs-db` and `chain-info`, with a failure or kill at every step | `WebServer` |
| `WebServer` | requests that run two commands, their timeouts, the cache of endpoints, users beside them | |
| `Traces` | the column `coinbase_transfer`: backfill over RPC or by replay, the trace of one transaction | `Queries` |
| `Queries` | queries with their budget, `mevlog tx`, the callers with theirs | |
| `DataWorker`, `TerminalApp` | the worker's tasks; the app's keys and answers | |
| `ChunkLoops`, `CoverageLoop`, `FetchPlan` | the loops that cut missing blocks into chunks, and a chunk into gaps | `DataPath` |
| `CustomColumns` | the checks of a table's definition, and the SQL that takes columns from a log | `DataPath` |
| `SeedDb` | how the signatures database is made, over seedings that are killed | `DataPath` |
| `QueryAnswer` | a query from the request to the reply, while chain, prices, names and database change | `DataPath` |
| `RowDecoding` | rows of cryo's files to rows of the database, with the signature caches | `DataPath` |
| `DataPath` | the five sequential paths side by side: a behaviour follows one of them | |
| `MC*` | the instances TLC checks | |
| `*Proofs` | the theorems (section 6) | |

### Correspondence to the code

**TxsDb.** A block is a number. `blocks`, `logs`, `txs` hold the numbers that have rows. One save or
one purge chunk is one committed SQLite transaction and one atomic step. `ON CONFLICT DO NOTHING` makes a
save a union. A block is taken to have a transaction and a log, the case in which their loss shows.

**BlockIndexing.** A process is one run. `Begin` reads the missing blocks and forms the chunks; `Issue`
fills a free slot of `buffer_unordered`, newest chunk first; `Scan`, `CryoWrites`, `CryoDone`, `Collect`,
`Parse` and `ParseMissing` are `fetch_blocks_batch`, once per data type in the code's order, each read of
the directory a step of its own; `Yield` takes a result that is ready, and `SaveChunkLogs`,
`SaveChunkTxs`, `SaveChunkBlocks` are the saves. Fetches make progress only while the main task waits for
the next result (`Polled`), because `buffer_unordered` polls them from there; `CryoWrites` does not need
that, as cryo is a process. `YieldError` and `Fail` drop the stream with its children (`kill_on_drop`);
`Crash` drops nothing, and its cryo children go on as `orphans`. `PurgeBegin`, `PurgeSelect`,
`PurgeDelete`, `PurgeEnd` and `PurgeCrash` are the purge loop. `PurgeExcludes` names the processes that
never overlap a purge, which the code leaves to its callers: it is `Procs` under the scheduler's lock.

**BlockStore** knows three things: which blocks are there, each with all of its rows; who has asked for
which range, and whether that run has reported success; and that old blocks leave from the oldest on, while
nobody runs and never into a window. `StoreRefined` (in `BlockIndexing`) maps the flagged blocks to the
store, with the rows they have at that moment, and a run to "open" until it prunes, when it is "done". Chunks,
fetches, cryo, the cache and the order of the saves are stutters.

**CustomTables.** A definition is a value with a set of column names; the code's fingerprint tells
definitions apart, so a fingerprint *is* the definition. `SyncMatches`, `SyncRefuses`, `SyncMissing`,
`SyncCreates`, `SyncClashes`, `SyncDone` are the branches of `sync`; `Populate` and `PopulateFails` those
of `populate_range`; `DropTable`, `ClearMeta`, `Recreate`, `RecreateClashes` the commits of `rebuild`. The
config is read when the process starts (`defs`), and `EditConfig` may change it while nothing runs, or at
any time where `Online` has `"edit"`. What may happen under running commands (`Online`) and how often the
config is edited is chosen with the initial state (`mode`), from the `Modes` of the instance. `amiss` is history:
the blocks that commands with another definition of a table, or none, have saved since it was made.

**Scheduler.** `queue` is `job_lock` with those who wait for it, in order. The live task uses `try_lock`
(`LockFree`), the jobs `lock`. `LivePolls` runs `index` on `last + 1 .. head`; `Exit` and `Fails` are the two
ends of a command, and only the former moves `last_indexed`. `Restart` forgets everything the scheduler
holds in memory, and leaves the commands of the kinds in `Survivors` running. `since` and `wanted` are history.

**IndexCommands.** `Start` lets a command through the checks of its arguments (`Accepted`); `Backfill`,
`Refused`, `BeginLive` are the branches before the first index run, `Save` and `Indexed` that run, `Poll` the
loop, `Reindex`, `Purge`, `PurgeChunk`, `PurgeDone` the other two commands and the purge of `--keep`.
`NothingStored` is the empty database. `Fail` ends a command anywhere: an error of a poll ends a live
command too. An endpoint may say a head that is up to `Lag` blocks old (`Heads`), each time another.
`BlockRanges!Ranges` gives no range for an error or a panic: `Sub` wraps at `MaxU64` in a build without
overflow checks, so "0:latest" stands for the whole chain there.

**CommandStart, Endpoints, SigsFile.** `Resolve`, `Mismatch` and `Unresolved` are `resolve_conn`: the
endpoints of the options, the config or the benchmark (any set of those that answer), held against the
chain where the code asks (`Asked`). `CheckSigs` to `Unzip` are `download_file`, each opening of a file a step,
because opening for writing empties it; `RemoveSigs` is `update_db`. `sigsBy` says who emptied a file last:
two writers write the same bytes, so the file is whole when that one is done. `SigsClash`,
`DownloadClash` and `MigrateClash` are the errors that other processes cause. `CheckTxs`, `CreateTxs`,
`Migrate` are `init_db`. `harm` and `broken` are history.

**WebServer.** `PickUrl`, `GotUrls`, `NoUrls` are `get_random_rpc_url` with its cache and the
`chain-info` child behind it; `TxsDone`, `LogsDone`, `TooNew`, `ChildFailed` follow `block_txs_with_logs`
through its two children. `Timeout` is the call's own timer, the `TimeoutLayer` or the client's leaving:
all drop the handler, and `kill_on_drop` takes the child. A handler is the process of its child. Users'
commands (`UserRuns`) start, are updated and end beside it.

**Traces.** A transaction is its block and index; its trace is what `find_coinbase_transfer` makes of it.
`Select`, `Coinbases`, `RpcTrace`, `RpcTraceFails`, `RpcUpdateFails` are a backfill over RPC, newest block
first; `OpenBlock`, `FetchTxRequest`, `Inspect` or `PassOver`, `Save`, `CommitTx`, `BlockFails` are a replay,
oldest block first, up to the last transaction wanted (`LastIndex`). `clean` says whether the fork is
still in the state of the chain. `Inspect`, `PassOver` and `CommitTx` are the synchronous part (`Sync`). Steps
named in `flaky`, chosen with the initial state, may fail.

**Queries.** `Start`, `EnterQuery`, `InitDeps`, `IndexTxs`, `IndexBlock`, `Indexed`, `Trace`, `TraceOver` and
`StartSql` are a call up to its SQL. `age` is the clock of `query()`, `waited` that of its caller, `left` the
budget of the SQL. `PrepTimesOut` is `timeout_at`, `SqlTimesOut` the progress handler, `Cut` the MCP
server's backstop or the `TimeoutLayer`; a search that is cut in its SQL goes on as an `orphan`, whom nobody
awaits. `InFlight` is a statement that SQLite's worker still runs when its future is dropped.

**TerminalApp.** `Key` is a key press with its guards in the order of the code (an error first, then the
mode, then the popups), `HandleResponse` an answer, `Receive`, `BlockFetched`, `Resolved` and `TaskFails` the
worker. `shown`, `answered`, `astray` and `asked` are history: nothing in the code depends on them.

**DataPath.** Of what nothing runs beside, each behaviour follows one path.
`ChunkLoops`: `Group`, `StartSplit` and `Split` are `contiguous_ranges` and the two loops over its result;
`CoverageLoop`: `Mark`, `Walk` and `Close` are the loops of `analyze_coverage`. The other modules use the sets
these loops are shown to compute (`Chunks`, `FirstGap` and `Uncovered`).
`CustomColumns`: `Load` is `CustomTable::from_config` with all of its checks, `Populate` the `INSERT .. SELECT`,
with `substr`, `zeroblob` and `||` as SQLite defines them.
`SeedDb`: `FetchPart` and `RenamePart` download a file, `TakeKept` passes one over that is there, `LearnRow` is
the loop of `build_type_map`, `SeedRow` that over the dictionary, which inserts in batches and swallows what
fails. The export may change at any time: a file changes, comes or goes.
`QueryAnswer`: `GetDeps` to `Expanded` prepare the values of the macros, `Prepare` puts the statement before
the authorizer and fixes the state it reads, `Row` collects up to one row past the cap, `Respond` and `Upload`
reply; `World` and `UpdatePricesCache` are everything that goes on meanwhile. `EnsLookup` asks for a name as it
is written and keeps the answer under its lower-case form (`Key`), where `EnsCached` finds it.
`RowDecoding`: chunks are parsed row by row in any order, `Look` reads the signatures database and
`ParseLooked` writes the cache, two steps with an await in between; `SaveBatch` is the three `save_batch`,
skipped transactions and duplicate keys included; `EndRun` parses what is unsaved again.

### Abstractions

- A file of the cache is a set of blocks, its content the rows of these blocks; `cryo` writes the file
  for its range or fails. Endpoints are not told apart in `BlockIndexing`: which one serves a chunk does
  not change it.
- One step of `Prune`, `Collect` or `Parse` handles all files of a data type. Each file's removal is
  independent of the others, and what is opened one by one fails if any is gone by then.
- In `CustomTables` a run picks any missing chunk, since a fetch may take any time; the chunk has its rows
  at hand. Every log matches every definition, so a table has a row per block with logs.
  `SyncMatches` reads existence and fingerprint in one step.
- `Scheduler` and `IndexCommands` merge the selection and the deletion of a purge chunk, and save block by
  block; `IndexCommands` also merges the saves of a block. Web requests ask for `WebBlocks`, one at a time,
  and web requests and ticks together are finitely many (`MaxTicks`): jobs that always take longer than their
  period, which would defer the live task for ever, are not modelled.
- `ETH_RPC_URL`, which is a default of `--rpc-url`, is left out; so is the sync of custom tables at the end of
  a start, which is `CustomTables`'.
- In `TerminalApp` a task answers and ends in one step, a key is handled when it is pressed, a search
  query is the number of its letters. Given a URL, the start of the app takes its endpoint to be one of
  the chain the URL comes with.
- `Queries` saves the transactions of a block, then flags it, block by block; logs and the cache are
  `BlockIndexing`'s. Time is counted in ticks, timers fire when they are due unless the task computes
  (`MayWait`), and a synchronous part takes at most `MaxReplay` ticks. Blocking tasks start at once: the
  pool of the runtime is not modelled. Both trace modes are taken to agree on a transaction's payment.
- A statement of `QueryAnswer` is what SQLite tells of it: what it reads, what else it does, its columns
  and macros. Its rows are blocks. A row of `RowDecoding` has what decides its fate: kind, block, key, what it
  calls, whether its price fits and how much data it has.
- Of an ENS name only its lower-case form matters (`to_lowercase`, any function on `Names`). Names are taken
  without the variation selectors that `namehash` drops; one that has some is only cached once more.
- A name of the config, a hash or a signature is a model value; a byte of a log is a number, and words and
  addresses have any size.

## 3. The runs

Nine runs pass; three show a disagreement between the code and what is said of it.

| Run | Question | Bounds |
|---|---|---|
| `Indexing_concurrent` | Two runs over `1..2` and `2..2` share cache and database, each pruning what the other may need. Are flagged blocks complete, is a run's range covered when it prunes, does each run end? | 2 processes, 1 endpoint, batches of 2 |
| `Indexing_purge` | A run with two endpoints, alternating with purges of 0, 2 and 5 kept blocks out of 3, failing or killed anywhere: the inductive invariant, the order of the backfill, the window, the end of the purge; is all of it the abstract store? | 1 process, 2 slots, 3 blocks, purge chunk of 1, 1 fault |
| `Tables_kept` | Tables are edited (one of them may also be removed) between commands: do they stay in step, fit their fingerprints, not outlive their logs; is a rebuild lossless? And with edits and rebuilds under running commands: which blocks may lack their row, or have it of another definition? | 2 processes, 2 blocks, 1 fault; offline: 2 tables, 2 definitions, 3 edits; online: 2 edits |
| `Scheduler_jobs` | Rounds, jobs and web requests that may fail at any step, and a restart that a running purge may survive: one writer, no gap, a reindex that closes those of the downtime and stays in the window, jobs that get their turn, a live task that catches up | head up to 3, keep 2, 2 ticks or web requests, each of any block, 1 restart |
| `Index_commands` | Any two of twelve commands beside each other, over an endpoint that may be a block behind: is what is indexed what was asked for, does a live command leave no hole and keep up? | 2 processes, head up to 2, 2 starts, 3-bit numbers |
| `Web_commands` | A request beside a user's command and an update of the signatures: of which chain are the endpoints, what may a database that exists lack, is a reply of one block, does a child outlive its request? | 1 handler, 1 shell, 2 endpoints of 2 chains, 1 fault, head up to 1 |
| `Query_budget` | A query with a backfill beside `mevlog tx` and a purge; tool calls beside a web search: are traced values true, kept and complete, do budgets hold, and is a call cut by its caller only if it began late? | 2 processes, 2 blocks with 2 and 1 transactions, 1 purge; budget 2, grace 1, upload 2, outer 3, replay 2 ticks |
| `Terminal_requests` | Any four keys against a worker that answers, fails and aborts: does loading end, does the screen show what was asked for? | 3 chains, blocks `0..2`, 2 transactions, 4 keys |
| `Data_paths` | Do the loops compute the sets the other models use, do columns hold what their types promise, is the signatures database the join of its files, is an answer whole, are rows decoded as some edition of the signatures says? | blocks `0..5`, batches of 1, 2, 10, any two cached ranges; words of 4 bytes, any source within 9 bytes; 3 seedings, 2 kills; 2 requests of 28 kinds, 3 names of which 2 differ in case, 2 changes; 2 chunks, 2 editions |
| `Indexing_unlocked` (violation) | Is `FlaggedComplete` true without a lock around runs and purges? | 1 process, 3 ranges of 1 block |
| `Tables_removed` (violation) | Does a table that was removed for a while stay in step? | 1 process, 1 table, 3 edits |
| `Terminal_refresh` (violation) | Can one press `r` after a refresh has failed? | 2 keys |

Why these bounds are enough: the hazards of the cache need a file that reaches beyond a chunk (two ranges that
overlap and a batch of two), a gap on either side, and two runs; those of saving need a fault at each of the
steps, of which one at a time is what the code's comments speak of. Two endpoints show every order of two
fetches. A purge needs a window of no block, of a part of the blocks and of more blocks than there are. A table
needs two definitions, of which one has a column the other lacks, and three edits: add, remove, add again. The
scheduler needs a live round beside one waiting job and a second one, a head beyond the window, a downtime in
which the chain grows, and web requests for blocks below the window, in it, and at the head while the live task
lags behind. A live command needs a head that grows after it has begun, and a purge or a reindex beside it;
counts of 0 to 3 blocks with heads of 0 to 2 give each form of the argument a number below, at and above the
head, and "n:latest" ranges that begin above 0. Two commands show every clash at the start of a command, as each
clash is of two; a third adds another pair. A refresh with a change of network in between is three keys. A
budget of two ticks lets time pass both before and in every phase, and a replay of two can pass the deadline;
the caller's grace differs from zero, so being late and being on time are two cases. Two transactions in a block
show a replay that passes one over. Sources of up to nine bytes contain those that are shorter than, as long as
and longer than a word of four. A second seeding meets the files of the first, a third those of a seeding that
was killed. Where a bound might hide something, the theorems of section 6 have none.

All configurations but `Query_budget` and `Web_commands` say `CHECK_DEADLOCK FALSE`: faults, edits, ticks,
keys, starts and the head of the chain are bounded, and behaviours end when the bounds are used up; apart from
that an index run, a loop or the app may really stop. Waiting for ever is covered by `RunEnds`, `PurgeEnds`,
`JobsGetTheirTurn`, `LiveCatchesUp`, `LiveFollows` and `LoadingEnds`. `Symmetry` (permutations of processes) is
used for custom tables only, where the one temporal property is an action property. The type invariants
are no properties of these runs; they hold on the same instances, and those of the modules that section 6 is
about are proved.

### What they show

- **Index runs are safe against each other.** With `FlaggedComplete` and `RangeCovered` the cache may be
  pruned under a reader: a run may fail over a vanished file (`ParseMissing`), but it never flags a block
  without its rows, nor does it end well with a block of its range missing. The reason is in `IndexInv`.
- **A reader may forget how blocks come.** Under the scheduler's lock, runs and purges are the abstract
  store, step by step (`StoreRefined`): blocks are seen whole or not at all, and leave from the oldest on.
- **An interrupted backfill leaves its gap at the bottom**, but for what the other endpoints were at:
  `GapAtBottom` allows `(Workers - 1) * BatchSize` blocks for that.
- **A purge keeps its window** at every step, and ends.
- **Tables that stay in the config stay in step**; `sync` and `rebuild` survive kills between their
  commits, and the tables never mix rows of two definitions. Under edits and rebuilds at any time the damage is
  confined (`OnlyStaleIsAmiss`) to the blocks saved by commands that had read another definition: a failure, a
  clash of two commands or a rebuild between two saves loses no row.
- **The scheduler leaves no gap**, a reindex that ends well closes those it finds in the window (`ReindexHeals`)
  though the web server saves blocks anywhere meanwhile, the jobs overtake a live task that fails for ever, and
  the live task catches up if retries succeed in the end.
- **`index --live` leaves none either**, though a lagging endpoint, a reindex or a purge runs beside it:
  `last_indexed` passes nothing that nobody has indexed, and comes up with the chain. What a purge took is
  excepted.
- **No endpoint of another chain is used** where the code asks; where it does not, the user, the config or
  ChainList has said so.
- **A file that is half made has a reason**: a kill, or two downloads at once. It has no cure, though: later
  commands take what exists for complete. Only `update-sigs-db` makes the signatures whole again.
- **A reply of the web server is of one block**, because the logs are asked for by the block the
  transactions have settled on; and no child outlives its request.
- **What was traced is kept.** No failure, drop, second process or repeated indexing takes a value away, and
  a replay that passes over stored transactions still commits them, so that the next one's value is true. A
  backfill that ends well leaves NULL only where something failed or was purged meanwhile.
- **One budget is enough.** A query's work ends at its deadline, at most one replayed transaction later, even
  when its caller has gone. The caller's timer wins only if `query()` began when its grace was used up.
- **An answer is of one state of the database** and never a part of one: past the cap it is an error.
  `block` and `tx` never pass a block that was purged meanwhile for an empty one.
- **A row has a signature its hash had in some edition**, whichever chunk has looked it up first.
- **The terminal UI comes to rest** with the answer to the last request, unless a refresh has failed.

## 4. Disagreements

With a run:

1. `Indexing_unlocked`. `indexing.rs:25-26` says a block is flagged only once its transactions and logs have
   landed. A purge between the log save and the block save of an old block leaves the flag alone. Only
   the scheduler's lock rules this out; `query`, `block-txs` and commands given by hand are outside it.
2. `Tables_removed`. `custom-tables.md:17` says that tables stay in step with `logs`. A table that is
   removed from the config keeps its fingerprint; added again, it is accepted with the gap.
3. `Terminal_refresh`. `app.rs:373` says "press 'r' to refresh". After a failed refresh
   `rpc_refreshing` stays set, and the key does nothing.

Seen while reading, without a run:

- `purge.rs:72` selects by the `blocks` table, so rows of a block that was never flagged stay if they lie
  above the last flagged block below the cutoff (the comment at 32-34 says all tables lose them).
- The purge commits per chunk; `indexing.md:95` says "in a single transaction".
- `indexing.rs:73` deals endpoints by the index of a chunk. Fetches end in any order, so one endpoint may be
  given two at once; 30-32 says one cryo process per endpoint.
- A running indexer keeps the definitions it started with (`indexing.rs:125`) when tables are rebuilt.
- A purge reads the names of the tables once (`purge.rs:56`), a table created meanwhile keeps its old rows.
- Commands may survive the scheduler (`scheduler.rs:48`); the next one has a new lock, so two of them may work
  on the database at once. The run has surviving purges; the theorems have survivors of any kind.
- `schedule.rs:14-15` speaks of about seven days; 7200 blocks of 12 seconds are one.
- Data columns of custom tables that are shorter than a word are padded with `zeroblob(..) || slice`, which is a
  TEXT in SQLite. Its bytes are right (`ColumnFits`), but it equals no blob literal, contrary to
  `custom_tables.rs:296-297` and `config.rs:132-134`. A word that the data ends within is stored as far as it
  goes, unpadded. Both are excepted: `ColumnFits` speaks of bytes, and of logs that have the source.
- A web request that is cut while its child downloads the signatures leaves them half made
  (`HalfMadeHasReason` counts it as `harm`), and with them every later command.
- Signature caches keep "none" for the life of a process, so a scheduler or server that runs on does not
  see what an update brings. Cached ENS names never expire.
- An ENS name is resolved as it is written (`ens_utils.rs:83`, `125-131`), but cached in lower case (30, 46; the
  test at 175-184 wants that). "Foo.eth" and "foo.eth" are two nodes of ENS with one entry, so either may be
  answered with the other's address; `AnswerIsWhole` allows for it.
- `query` with `n:latest` looks the latest block up twice, for the range and for the macro.
- `block-txs`, `block-logs` and `tx-logs` answer with nothing if the block is purged between its indexing and
  the statement; only `block` and `tx` tell that from an empty block.
- A failed insert of a seeding is counted and passed over (`SeededIsJoin` excepts it); files that are on disk
  are not compared with an export that has changed.
- A replay whose inspection fails stores 0 (`revm_tracing.rs:392-394`), although `tx_tracing.rs:229-231` says that
  NULL remains when a trace failed; `mevlog tx` may so replace a good value. A commit that fails is logged,
  and what is traced after it in the block is computed from a wrong state. `StoredIsTrue` excepts both.
- `query.rs:40-42` says the phase before the SQL "is all async and cancels cleanly"; a replay is
  synchronous, hence the `MaxReplay` in `BudgetKept`.
- `search_controller.rs:17-19` holds only if price, head and endpoint are there within two seconds: they are
  fetched before the clock of `query()` starts, so the layer's ten seconds may be over first. A search that is
  cut in its SQL runs on until its own deadline.
- `find_coinbase_transfer` takes the first call to the coinbase; a second payment is not counted.
- In the terminal UI a late `ChainInfo` answer replaces a network chosen meanwhile (`app.rs:460`), a late list
  of matches replaces the defaults after the query has been cleared, and a latest block without
  transactions is shown as block 0 (`worker.rs:69-70`).

## 5. Fairness

- `BlockIndexing`: weak fairness of the main step of each process, of each fetch, and of a purge that has
  begun. They are the code's own loops: the task awaits the stream, cryo exits, SQLite returns. Nobody has
  to begin a run, and neither faults nor the writes of orphans are fair.
- `Scheduler`: weak fairness of a command's work, of a job that holds the lock, and of the live task's
  first call and polls. `tokio::sync::Mutex` is fair by its documentation and is modelled as a queue. That
  retries succeed in the end (`RetriesSucceed`, strong fairness of the steps of a round) is a hypothesis of
  `LiveCatchesUp` and of nothing else: `JobsGetTheirTurn` holds with a live task that fails for ever.
- `IndexCommands`: weak fairness of each command's own steps (`index.rs:178-201` sleeps, polls and goes on),
  and strong fairness of a poll that sees the head: an endpoint may lag at any poll, but not for ever. A
  command may end by an error at any time, and `LiveFollows` excepts one that has.
- `TerminalApp`: weak fairness of the two threads and of the tasks that fetch a block or the chains,
  which have timeouts in the code. The tasks that look up a chain or an endpoint have none, so
  `LoadingEnds` excepts them.
- The other modules state none: their properties are safety properties.

## 6. Proofs

Checked by TLAPS with Z3, Zenon and LS4; every leaf, nothing assumed but the named assumptions on constants,
which TLC evaluates for the instances of section 3.

| Theorem | Says | Module |
|---|---|---|
| `TypeCorrect` | `Spec => []TypeOK` | `BlockIndexingProofs` |
| `IndexInvAlways` | `PurgeExcludes = Procs => (Spec => []IndexInv)` | `BlockIndexingProofs` |
| `FlaggedAreComplete`, `RangesAreCovered` | the same for `FlaggedComplete`, `RangeCovered` | `BlockIndexingProofs` |
| `WindowIsKept` | `Spec => KeptWindowUntouched` | `BlockIndexingProofs` |
| `StoreIsRefined` | `PurgeExcludes = Procs => (Spec => StoreRefined)` | `BlockIndexingProofs` |
| `TypesAlways` | `Spec => []TypeOK` | `CustomTablesProofs` |
| `RowsAlwaysThere` | `Spec => []OnlyStaleIsAmiss` | `CustomTablesProofs` |
| `KeptTablesInStep`, `OneDefinitionPerTable` | `Spec => []InStepWithLogs`, `Spec => []RowsFitFingerprint` | `CustomTablesProofs` |
| `NoRowOutlivesItsLog`, `RebuildLosesNothing` | `Spec => []RowsHaveLogs`, `Spec => RebuildIsLossless` | `CustomTablesProofs` |
| `SchedInvAlways`, `LockCorrect` | `Spec => []SchedInv`, and its part on types and lock | `SchedulerProofs` |
| `OneWriterAtATime` | `Spec => []OneWriter` | `SchedulerProofs` |
| `NoGapIsLeft` | `Spec => []NoGapBehindLive` | `SchedulerProofs` |
| `CommandsInvAlways` | `Spec => []CommandsInv` | `IndexCommandsProofs` |
| `AlwaysAsAsked`, `LiveLeavesNoHole` | `Spec => []RangeIsAsAsked`, `Spec => []NoHoleBehind` | `IndexCommandsProofs` |
| `WebInvAlways` | `WebSpec => []WebInv` | `WebServerProofs` |
| `NoOrphans`, `RepliesFit` | `WebSpec => []NoChildLeft`, `WebSpec => []LogsFitTxs` | `WebServerProofs` |
| `EndpointsAlwaysAgree` | `WebSpec => []EndpointsAgree` | `WebServerProofs` |
| `HalfMadeAlwaysHasReason` | `WebSpec => []HalfMadeHasReason` | `WebServerProofs` |
| `GapStaysAtBottom` | `Spec => []GapAtBottom`, for one process and `PurgeExcludes = Procs` | `BlockIndexingProofs` |
| `ReindexKeepsToWindow` | `Spec => ReindexStaysInWindow` | `SchedulerProofs` |
| `ReindexClosesGaps` | `Spec => ReindexHeals` | `SchedulerProofs` |
| `ColumnsAlwaysFit` | `PathSpec => []ColumnFits` | `DataPathProofs` |
| `ChunksAlwaysAgree`, `GapsAlwaysAgree` | `PathSpec => []ChunksAgree`, `PathSpec => []GapsAgree` | `DataPathProofs` |
| `RowsAlwaysDecoded` | `PathSpec => []RowsDecoded` | `DataPathProofs` |
| `AnswersAlwaysWhole` | `PathSpec => []AnswerIsWhole` | `DataPathProofs` |
| `SeededAlwaysJoin` | `PathSpec => []SeededIsJoin` | `DataPathProofs` |
| `TypesAlways`, `LoadingAlwaysPending` | `Spec => []TypeOK`, `Spec => []LoadingIsPending` | `TerminalAppProofs` |
| `LastIsAnswered`, `ScreenAlwaysAgrees` | `Spec => []LastAskedIsAnswered`, `Spec => []ScreenAgrees` | `TerminalAppProofs` |
| `QueryTypesAlways` | `Spec => []TypeOK` | `QueriesProofs` |
| `StoredAlwaysTrue`, `BackfillAlwaysComplete` | `Spec => []StoredIsTrue`, `Spec => []BackfillIsComplete` | `QueriesProofs` |
| `TracedAlwaysKept`, `BudgetAlwaysKept` | `Spec => TracedIsKept`, `Spec => BudgetKept` | `QueriesProofs` |

**The argument for index runs.** `FlaggedComplete` is not inductive: whether a save of the `blocks` rows
keeps it depends on what was saved before (`SavedInOrder`), this on what was collected
(`CollectedCovered`), and this on what the coverage scan saw (`ScannedCovered`, `GapsWritten`). The file that
was seen may be gone by then. The invariant therefore says that what a fetch has found covered is
covered by the cache *or is indexed*: a file is pruned only when all of its blocks are, and an indexed
block is complete already. `RangeAccounted` says that no block of a range gets lost between the chunks in
the list and the rows in the database, and gives `RangeCovered` when the list is empty. `PurgeAlone`
follows from `PurgeExcludes = Procs`; `Indexing_unlocked` shows that it is needed.

**The argument for the window.** `KeptWindowUntouched` needs that the bound of a chunk lies below the cutoff,
and that the block the cutoff was counted from is still indexed, or a higher one is: a delete removes only
blocks below the cutoff, and saves only raise the maximum. This holds whether purges exclude runs or not.

**The argument for the refinement.** Only three kinds of steps are not stutters: a save of `blocks` rows is an
`Insert`, whole because `IndexInv` has the logs and transactions there already, and asked for because a
run's chunks lie in its range (`AskedInv`); the step to pruning is `Succeed`, by `RangeCovered`; and a purge's
delete is `Remove`, because it is alone (`PurgeAlone`) and its bound leaves the window (`WindowInv`) of a
`keep` that is one of the values asked for (`KeepAsked`). Saves of logs and transactions change rows of
blocks that are not seen, or add nothing to one that is whole.

**The argument for custom tables.** `FlagInv` and `AmissInv` hold under edits and rebuilds at any time. The former:
rows of a chunk are saved in order, and no run is under way during a purge. The latter: a row is of the definition
its table was made for or of a block that is `amiss`, an indexed block has its row or is `amiss` (`RowsFit`), and
the chunk of a command has its rows in each table the command has gone through (`Filled`), which a step of another
command keeps since it only adds rows, drops the table, or makes it anew from all logs (`TableChanges`). Together
they give `OnlyStaleIsAmiss`. The rest (`OfflineInv`) is for a
config that is edited or rebuilt only between commands. `InStepWithLogs` alone does not survive a save of
`blocks` rows: the chunk must be in every table by then (`CommandFits`), which needs that each
command holds the config's definitions, and that the tables it has gone through in sync are its own
(`Fine`, `Made`). That the steps of *other* commands keep this follows from one fact, that only
a rebuild takes anything from a table (`Grows`), and a rebuild is alone. `RebuildFits` says which tables exist
between its commits: before the fingerprints are cleared those it has still to drop, afterwards those it has
made, so that one which ends has missed none and one which is stopped has left none with a stale fingerprint.

**The argument for the scheduler.** `LockInv` ties every command of the running scheduler to the head of
the queue, so two cannot run; `OneWriter` excepts, by name, commands that survive an earlier one.
`RoundInv` says that of a round's range each block is indexed, in the hands of
the round's command, or has left the window: a purge of an *earlier* scheduler may run beside the round, and a
purge only takes what lies below the cutoff (`PurgeInv`). When the command exits with nothing left, the
range joins `NoGapBehindLive`.

**The argument for the live loop.** `CommandsInv` says of each live command that every block from its first to
`last_indexed` is stored, was purged by somebody else (`gone`), or has left the window of its own `--keep`
(`Safe`), and that while it indexes a range, each block up to the end of that range is safe or still to be
saved. A purge of another process moves blocks from stored to `gone`, one of its own
takes only what lies below the cutoff.

**The argument for the web server.** `WebInv` ties the step of a handler to where its child is, and the block
its transactions are of to the block its logs are asked for, which the head never falls behind. For the
files there is an invariant of its own (`FilesInv`): a download that meets nobody owns the file it unpacks,
and a partial file is in the hands of the process that emptied it last, or has `harm` behind it.

**The argument for the gap.** With one process, the list and what is fetched determine what the database lacks.
`GapInv` orders them: the chunks still in the list lie below every block that is being fetched or was flagged by
the run (`BelowAll`), and below a flagged block there is always a slot whose chunk, if any, lies below it
(`SlotBelow`: the slot that flagged it, which is handed only older chunks from then on). So at most
`Workers - 1` chunks can be outstanding above a flagged block. With a second process that fills the same
range this is no longer so: a flagged block of one says nothing of the order of the other, and TLC finds the gap.

**The argument for the reindex.** `wanted` is the range from the lowest to the highest block that a reindex has found
indexed. While it is at work, each block of this range is indexed, in its hands, or has left the window
(`HealInv`). It begins so: what lies below its start is below the cutoff that is counted from the highest indexed
block. Then only a purge takes blocks away, of this scheduler's or of one that has survived, and what it takes
has left the window by the block its cutoff was counted from, which it keeps (`PurgeInv`, `CoveredPurge`). Blocks
that web requests or survivors save beside it do no harm, and are not in its range. When it exits with nothing left
in its hands, the gaps are closed.

**The arguments for the paths of data.** Each path is a part of `PathNext` that leaves the others alone
(`PathParts`), so each has an invariant of its own.

- *Columns*: the lemmas give what `substr` and `||` return on sequences of any length; each accepted pair of
  source and type is one case. `ConfigsAssumption` and `LogsAssumption` say that the offsets of the config are
  natural numbers and that topics are words of bytes.
- *Chunks* (`CutInv`): the ranges collected are maximal runs of the blocks taken so far, in order, and every
  block taken is in a range or, once it is split, in the list (`RangesInv`); the list holds chunks of the
  missing blocks, newest first, and all of them lie above the ranges still to be split (`ListInv`). The
  arithmetic is in `CeilDivCounts` and `BatchesOfGap`: a batch of the loop is the chunk that `Chunks` makes of
  the block it starts with.
- *Gaps* (`CoverInv`): an open gap begins after a covered block, or at the bottom, and has only uncovered blocks up
  to the one the walk is at. `FileRangesAssumption` says that cached files have ranges of natural numbers.
- *Rows* (`DecodeInv`): what a lookup has returned is a signature of an edition up to the present one
  (`LookInv`), a chunk has parsed every row of its own that is behind it (`ParsedInv`), and the database
  has the rows of saved chunks and, by kind, of the one being saved (`StoredInv`). `ParquetAssumption` says that
  the files are of one chain: rows of one key are one row; `ChunkRangeAssumption` that chunks are
  disjoint, which `ChunksAgree` shows of the list they come from.
- *Answers* (`AnswerInv`): the world only adds to what a name has stood for, and prices only go up in number
  (`Grows`), so what was true of a value when it was settled stays true. The invariant says from which stage on
  a value is settled (`ValuesInv`), and that what is collected is how the rows of one state begin (`RowsInv`).
  An entry of the ENS caches is an address that some name of its key has stood for (`HasStood`, `OutsideInv`),
  which is what a resolved name gets. That a display shows its one block then follows from the rows being
  distinct. The rows of a statement come in any order (`SetToSeqs`).
- *Seeding* (`SeedInv`): each file that is listed is still to be read or its rows are unread, known to the type map,
  or in their tables. The type map is sound for the rows of the compiled contracts (`Sound`) and misses none that
  is read (`Knows`); a row of the dictionary is in its table, in the open transaction, or lost. The proof
  showed that the files which count are those the run has listed: one that an earlier export had may lie beside
  them on disk, and is not read.

**The argument for the terminal UI.** A request of a kind goes through three places: the channel to the worker, the
worker's task of that kind, and the channel back. What is on its way of one kind has one *last* value at each
place (`Last`), and a send, a receipt, an answer and a key move it from place to place, because a newer request
aborts the older one's task and the channels keep their order. The invariant (`AppInv`) says where the last
request of each kind is: while the app is loading it is somewhere (`LoadInv`); the block asked for last is
answered, or the last one on its way asks for it (`AskInv`); and the same for the endpoint (`RpcInv`) and the
items (`ShownInv`) of the chain on display. At rest nothing is on its way, which gives the properties.

**The argument for traces and budgets.** Each step of one trace is treated alone (`TraceNow`, `TraceDone`), then
what it does to the others (`RowsKept`: rows appear, or get a true value). `StoredIsTrue` needs that the fork
is clean up to the transaction that is replayed (`TrueSoFar`). `BackfillIsComplete` needs the place of the
replay in its block: rows that are NULL are excused or still to come (`FillInv`), and those of other
processes' inserts are of blocks that were purged since. For `BudgetKept`, `ClockInv` relates the clocks: a
query is late by no more than the replay under way has taken (`ran`), age and what is left for the SQL
add up to the budget, and the clock of a caller is that of its query, which began later.

Every safety property of the runs that pass is a theorem, and so is every action property. Only model-checked:
liveness (`RunEnds`, `PurgeEnds`, `JobsGetTheirTurn`, `LiveCatchesUp`, `LiveFollows`, `LoadingEnds`), as
fairness and `ENABLED` are outside what TLAPS does; the runs that expect a violation, which are behaviours to be
found; and `GapAtBottom` for more than one process, which is false. No proof needs induction over data: the
loops of the code are loops of the model, and the induction is that of the specification.

## 7. Not modelled

- **Reorganisations of the chain**, and endpoints that serve a block without its logs: the code has no answer to
  either, nothing tells such a block from a good one, and files cached before a reorganisation are combined
  with those fetched after it. A model would show only that.
- **Rendering**: the views of the terminal UI, scrolling and the tabs of its popup, tables, CSV and HTML. They
  read state and change none.
- **The web server's routes**: redirects, titles, static pages and caching headers (where the comment of
  `cache_control` and the code part over stable URLs) decide no state.
- **EVM replay** is revm's, **statements** are SQLite's, **fetching** is cryo's: each is modelled by what the
  code here relies on. Traces other than `coinbase_transfer` store nothing.
- **The benchmark of endpoints** and the file cache of ChainList: their outcome is any set of the chain's
  endpoints, which is all that the callers rely on.
- **Commands that only read**: `db-info`, `chains` and the debug commands; **argument parsing**, which is clap's.
- **Two seedings at once**: `seed-db` is run by hand on one machine, and makes a file that is then uploaded.
- **The docs site and the frontend**: static content and a viewer in the browser.
- **The WAL truncation** that ends a purge, uptime pings, logs and progress bars: no state of the system.
