--------------------------- MODULE BlockIndexing ---------------------------
(***************************************************************************)
(* Index runs (index_block_range) and purges (purge_old_blocks) of several *)
(* mevlog processes over one transactions database and one cryo cache.     *)
(*                                                                         *)
(* A process is one run of index_block_range: `mevlog index`, a round of   *)
(* its live loop, `reindex`, `query`, or the block-txs command behind the  *)
(* web explorer.  It keeps up to Workers fetches going, each in a slot of  *)
(* its own; one main task saves their results chunk by chunk, and the      *)
(* fetches are polled only while that task waits for the next result.      *)
(* Custom tables, which a chunk also fills, are the subject of the module  *)
(* CustomTables.                                                           *)
(***************************************************************************)
EXTENDS TxsDb, CryoCache, Chunking

CONSTANTS
    Procs,          \* processes that index blocks
    Workers,        \* RPC endpoints of a process (deps.rpc_urls.len())
    BatchSize,      \* --batch-size
    Ranges,         \* the <<from, to>> ranges a run may be asked for
    Keeps,          \* the --keep values of a purge
    PurgeChunk,     \* PURGE_CHUNK_BLOCKS
    PurgeExcludes,  \* the processes that never overlap a purge (job_lock)
    MaxFaults       \* bound: how many runs and purges may fail or be killed

ASSUME WorkersAssumption == Workers \in Nat \ {0}
ASSUME BatchSizeAssumption == BatchSize \in Nat \ {0}
ASSUME RangesAssumption == Ranges \subseteq Nat \X Nat
ASSUME KeepsAssumption == Keeps \subseteq Nat
ASSUME PurgeChunkAssumption == PurgeChunk \in Nat \ {0}
ASSUME PurgeExcludesAssumption == PurgeExcludes \subseteq Procs
ASSUME MaxFaultsAssumption == MaxFaults \in Nat

VARIABLES
    orphans,    \* ranges that cryo children of killed processes still write
    pc,         \* where the main task of each process is
    range,      \* the range <<from, to>> of its run
    miss,       \* the blocks missing when the run began
    todo,       \* chunks whose fetch has not begun
    cur,        \* the slot whose result is being saved
    phase,      \* where the fetch of each slot is
    dtype,      \* the data type the phase is at
    chunk,      \* the chunk the slot fetches
    need,       \* the gaps of dtype that cryo still has to fetch
    files,      \* the files collected for each data type
    ppc,        \* where the purge is
    keep,       \* its --keep
    cutoff,     \* blocks below it are purged
    upper,      \* upper bound of the chunk being deleted
    faults      \* counts failures and kills, for the bound

runVars == <<pc, range, miss, todo, cur>>
fetchVars == <<phase, dtype, chunk, need, files>>
purgeVars == <<ppc, keep, cutoff, upper>>
vars == <<blocks, logs, txs, cache, orphans, pc, range, miss, todo, cur,
          phase, dtype, chunk, need, files, ppc, keep, cutoff, upper,
          faults>>

Slots == 1 .. Workers
Fetchers == Procs \X Slots

\* Once the chunks are saved, pc is the data type whose files are being pruned.
Steps == {"idle", "fetching", "saveLogs", "saveTxs", "saveBlocks"} \cup DataTypes
Phases == {"free", "scan", "run", "ran", "collect", "parse", "ready",
           "failed"}

NoFiles == [t \in DataTypes |-> {}]

TypeOK ==
    /\ DbTypeOK
    /\ CacheTypeOK
    /\ orphans \in [DataTypes -> SUBSET SUBSET Nat]
    /\ pc \in [Procs -> Steps]
    /\ range \in [Procs -> Nat \X Nat]
    /\ miss \in [Procs -> SUBSET Nat]
    /\ todo \in [Procs -> SUBSET SUBSET Nat]
    /\ cur \in [Procs -> Slots]
    /\ phase \in [Fetchers -> Phases]
    /\ dtype \in [Fetchers -> DataTypes]
    /\ chunk \in [Fetchers -> SUBSET Nat]
    /\ need \in [Fetchers -> SUBSET Nat]
    /\ files \in [Fetchers -> [DataTypes -> SUBSET SUBSET Nat]]
    /\ ppc \in {"idle", "select", "delete"}
    /\ keep \in Nat
    /\ cutoff \in Nat
    /\ upper \in Nat
    /\ faults \in Nat

Init ==
    /\ DbInit
    /\ CacheInit
    /\ orphans = NoFiles
    /\ pc = [p \in Procs |-> "idle"]
    /\ range = [p \in Procs |-> <<0, 0>>]
    /\ miss = [p \in Procs |-> {}]
    /\ todo = [p \in Procs |-> {}]
    /\ cur = [p \in Procs |-> 1]
    /\ phase = [f \in Fetchers |-> "free"]
    /\ dtype = [f \in Fetchers |-> "transactions"]
    /\ chunk = [f \in Fetchers |-> {}]
    /\ need = [f \in Fetchers |-> {}]
    /\ files = [f \in Fetchers |-> NoFiles]
    /\ ppc = "idle"
    /\ keep = 0
    /\ cutoff = 0
    /\ upper = 0
    /\ faults = 0

-----------------------------------------------------------------------------
(* Beginning and ending a run.                                             *)

Begin(p) ==
    /\ pc[p] = "idle"
    /\ p \in PurgeExcludes => ppc = "idle"
    /\ \E r \in Ranges :
        /\ range' = [range EXCEPT ![p] = r]
        /\ miss' = [miss EXCEPT ![p] = MissingBlocks(r[1], r[2])]
        /\ todo' = [todo EXCEPT
                        ![p] = Chunks(MissingBlocks(r[1], r[2]), BatchSize)]
    /\ pc' = [pc EXCEPT ![p] = "fetching"]
    /\ UNCHANGED <<dbVars, cache, orphans, cur, fetchVars, purgeVars, faults>>

\* The process is gone, and with it all it knew.
Forget(p) ==
    /\ pc' = [pc EXCEPT ![p] = "idle"]
    /\ range' = [range EXCEPT ![p] = <<0, 0>>]
    /\ miss' = [miss EXCEPT ![p] = {}]
    /\ todo' = [todo EXCEPT ![p] = {}]
    /\ cur' = [cur EXCEPT ![p] = 1]
    /\ phase' = [f \in Fetchers |-> IF f[1] = p THEN "free" ELSE phase[f]]
    /\ dtype' = [f \in Fetchers |->
                    IF f[1] = p THEN "transactions" ELSE dtype[f]]
    /\ chunk' = [f \in Fetchers |-> IF f[1] = p THEN {} ELSE chunk[f]]
    /\ need' = [f \in Fetchers |-> IF f[1] = p THEN {} ELSE need[f]]
    /\ files' = [f \in Fetchers |-> IF f[1] = p THEN NoFiles ELSE files[f]]

Fault == faults < MaxFaults /\ faults' = faults + 1

\* An error anywhere (RPC, cryo, a busy database) ends the run through `?`:
\* the stream is dropped and kill_on_drop takes its cryo children along.
Fail(p) ==
    /\ pc[p] # "idle"
    /\ Fault
    /\ Forget(p)
    /\ UNCHANGED <<dbVars, cache, orphans, purgeVars>>

\* A killed process drops nothing: its cryo children go on.
Crash(p) ==
    /\ pc[p] # "idle"
    /\ Fault
    /\ orphans' = [t \in DataTypes |-> orphans[t] \cup
                    {FirstGap(need[f]) :
                        f \in {g \in Fetchers : /\ g[1] = p
                                                /\ phase[g] = "run"
                                                /\ dtype[g] = t}}]
    /\ Forget(p)
    /\ UNCHANGED <<dbVars, cache, purgeVars>>

OrphanWrites ==
    /\ \E t \in DataTypes : \E F \in orphans[t] :
        /\ WriteFile(t, F)
        /\ orphans' = [orphans EXCEPT ![t] = @ \ {F}]
    /\ UNCHANGED <<dbVars, runVars, fetchVars, purgeVars, faults>>

-----------------------------------------------------------------------------
(* One fetch: fetch_blocks_batch, in slot f of process f[1].               *)

CanIssue(p) == todo[p] # {} /\ \E s \in Slots : phase[<<p, s>>] = "free"

\* buffer_unordered fills its free slots before it polls any of them.  Which
\* endpoint a chunk is fetched from makes no difference to its rows.
Issue(p) ==
    /\ pc[p] = "fetching"
    /\ \E c \in todo[p], s \in Slots :
        /\ Newest(c, todo[p])
        /\ phase[<<p, s>>] = "free"
        /\ phase' = [phase EXCEPT ![<<p, s>>] = "scan"]
        /\ chunk' = [chunk EXCEPT ![<<p, s>>] = c]
        /\ todo' = [todo EXCEPT ![p] = @ \ {c}]
    /\ UNCHANGED <<dbVars, cache, orphans, pc, range, miss, cur,
                   dtype, need, files, purgeVars, faults>>

Polled(f) == pc[f[1]] = "fetching" /\ ~CanIssue(f[1])

\* The phase after one for data type dtype[f]: the same for the next type, or
\* the phase `after` once the blocks are done.
StepType(f, same, after) ==
    /\ phase' = [phase EXCEPT
                    ![f] = IF dtype[f] = "blocks" THEN after ELSE same]
    /\ dtype' = [dtype EXCEPT
                    ![f] = IF @ = "blocks" THEN "transactions" ELSE NextType(@)]

\* scan_cached_ranges and analyze_coverage; with no gap cryo is not run.
Scan(f) ==
    /\ Polled(f)
    /\ phase[f] = "scan"
    /\ need' = [need EXCEPT ![f] = Uncovered(dtype[f], chunk[f])]
    /\ IF Uncovered(dtype[f], chunk[f]) = {}
        THEN StepType(f, "scan", "collect")
        ELSE /\ phase' = [phase EXCEPT ![f] = "run"]
             /\ UNCHANGED dtype
    /\ UNCHANGED <<dbVars, cache, orphans, runVars, chunk, files,
                   purgeVars, faults>>

\* The cryo child writes its file whether or not mevlog is polling.
CryoWrites(f) ==
    /\ phase[f] = "run"
    /\ WriteFile(dtype[f], FirstGap(need[f]))
    /\ phase' = [phase EXCEPT ![f] = "ran"]
    /\ UNCHANGED <<dbVars, orphans, runVars, dtype, chunk, need, files,
                   purgeVars, faults>>

\* cryo has exited with success: on to the next gap, or to the next type.
CryoDone(f) ==
    LET rest == need[f] \ FirstGap(need[f]) IN
    /\ Polled(f)
    /\ phase[f] = "ran"
    /\ need' = [need EXCEPT ![f] = rest]
    /\ IF rest = {}
        THEN StepType(f, "scan", "collect")
        ELSE /\ phase' = [phase EXCEPT ![f] = "run"]
             /\ UNCHANGED dtype
    /\ UNCHANGED <<dbVars, cache, orphans, runVars, chunk, files,
                   purgeVars, faults>>

\* The second scan of the directory, one data type after the other.
Collect(f) ==
    /\ Polled(f)
    /\ phase[f] = "collect"
    /\ files' = [files EXCEPT
                    ![f][dtype[f]] = Overlapping(dtype[f], chunk[f])]
    /\ StepType(f, "collect", "parse")
    /\ UNCHANGED <<dbVars, cache, orphans, runVars, chunk, need,
                   purgeVars, faults>>

\* The collected files are opened, one data type after the other.
Parse(f) ==
    /\ Polled(f)
    /\ phase[f] = "parse"
    /\ files[f][dtype[f]] \subseteq cache[dtype[f]]
    /\ StepType(f, "parse", "ready")
    /\ UNCHANGED <<dbVars, cache, orphans, runVars, chunk, need, files,
                   purgeVars, faults>>

\* A file that another run has pruned since it was collected is an error.
ParseMissing(f) ==
    /\ Polled(f)
    /\ phase[f] = "parse"
    /\ ~(files[f][dtype[f]] \subseteq cache[dtype[f]])
    /\ phase' = [phase EXCEPT ![f] = "failed"]
    /\ UNCHANGED <<dbVars, cache, orphans, runVars, dtype, chunk, need, files,
                   purgeVars, faults>>

-----------------------------------------------------------------------------
(* The main task: saving what the fetches yield.                           *)

\* The rows of data type t a fetch found for its chunk.
Fetched(f, t) == chunk[f] \cap (UNION files[f][t])

CurOf(p) == <<p, cur[p]>>

Yield(p) ==
    /\ pc[p] = "fetching"
    /\ ~CanIssue(p)
    /\ \E s \in Slots :
        /\ phase[<<p, s>>] = "ready"
        /\ cur' = [cur EXCEPT ![p] = s]
    /\ pc' = [pc EXCEPT ![p] = "saveLogs"]
    /\ UNCHANGED <<dbVars, cache, orphans, range, miss, todo, fetchVars,
                   purgeVars, faults>>

\* Mutant: an error is logged and its slot never freed.
YieldErrorSwallowed(p) ==
    /\ pc[p] = "fetching"
    /\ ~CanIssue(p)
    /\ \E s \in Slots : phase[<<p, s>>] = "failed"
    /\ UNCHANGED vars

\* A fetch that yields an error ends the run.
YieldError(p) ==
    /\ pc[p] = "fetching"
    /\ ~CanIssue(p)
    /\ \E s \in Slots : phase[<<p, s>>] = "failed"
    /\ Forget(p)
    /\ UNCHANGED <<dbVars, cache, orphans, purgeVars, faults>>

SaveChunkLogs(p) ==
    /\ pc[p] = "saveLogs"
    /\ SaveLogs(Fetched(CurOf(p), "logs"))
    /\ pc' = [pc EXCEPT ![p] = "saveTxs"]
    /\ UNCHANGED <<blocks, txs, cache, orphans, range, miss, todo, cur,
                   fetchVars, purgeVars, faults>>

SaveChunkTxs(p) ==
    /\ pc[p] = "saveTxs"
    /\ SaveTxs(Fetched(CurOf(p), "transactions"))
    /\ pc' = [pc EXCEPT ![p] = "saveBlocks"]
    /\ UNCHANGED <<blocks, logs, cache, orphans, range, miss, todo, cur,
                   fetchVars, purgeVars, faults>>

\* The rows that flag the chunk come last; its slot is free again.
SaveChunkBlocks(p) ==
    /\ pc[p] = "saveBlocks"
    /\ SaveBlocks(Fetched(CurOf(p), "blocks"))
    /\ pc' = [pc EXCEPT ![p] = "fetching"]
    /\ phase' = [phase EXCEPT ![CurOf(p)] = "free"]
    /\ chunk' = [chunk EXCEPT ![CurOf(p)] = {}]
    /\ files' = [files EXCEPT ![CurOf(p)] = NoFiles]
    /\ cur' = [cur EXCEPT ![p] = 1]
    /\ UNCHANGED <<logs, txs, cache, orphans, range, miss, todo,
                   dtype, need, purgeVars, faults>>

\* Mutant: the run does not wait for the fetches that are still going.
AllSavedEarly(p) ==
    /\ pc[p] = "fetching"
    /\ todo[p] = {}
    /\ pc' = [pc EXCEPT ![p] = "transactions"]
    /\ UNCHANGED <<dbVars, cache, orphans, range, miss, todo, cur,
                   fetchVars, purgeVars, faults>>

\* The stream is exhausted.
AllSaved(p) ==
    /\ pc[p] = "fetching"
    /\ todo[p] = {}
    /\ \A s \in Slots : phase[<<p, s>>] = "free"
    /\ pc' = [pc EXCEPT ![p] = "transactions"]
    /\ UNCHANGED <<dbVars, cache, orphans, range, miss, todo, cur,
                   fetchVars, purgeVars, faults>>

\* prune_indexed_cache removes the files it finds to be indexed, one data type
\* after the other; then the run is over.
Prune(p) ==
    /\ pc[p] \in DataTypes
    /\ RemoveFiles(pc[p], Prunable(pc[p], range[p][1], range[p][2], blocks))
    /\ IF pc[p] = "blocks"
        THEN Forget(p)
        ELSE /\ pc' = [pc EXCEPT ![p] = NextType(@)]
             /\ UNCHANGED <<range, miss, todo, cur, fetchVars>>
    /\ UNCHANGED <<dbVars, orphans, purgeVars, faults>>

-----------------------------------------------------------------------------
(* A purge: purge_old_blocks.                                              *)

\* With no indexed block there is no reference and nothing is done.
PurgeBegin ==
    /\ ppc = "idle"
    /\ \A p \in PurgeExcludes : pc[p] = "idle"
    /\ \E k \in Keeps, m \in blocks :
        /\ IsMax(m, blocks)
        /\ keep' = k
        /\ cutoff' = CutoffOf(m, k)
    /\ ppc' = "select"
    /\ UNCHANGED <<dbVars, cache, orphans, runVars, fetchVars, upper, faults>>

Purgeable == {b \in blocks : b < cutoff}

PurgeSelect ==
    /\ ppc = "select"
    /\ \E u \in Purgeable : IsChunkUpper(u, Purgeable, PurgeChunk) /\ upper' = u
    /\ ppc' = "delete"
    /\ UNCHANGED <<dbVars, cache, orphans, runVars, fetchVars, keep, cutoff, faults>>

PurgeDelete ==
    /\ ppc = "delete"
    /\ DeleteThrough(upper)
    /\ ppc' = "select"
    /\ upper' = 0
    /\ UNCHANGED <<cache, orphans, runVars, fetchVars, keep, cutoff, faults>>

PurgeOver ==
    /\ ppc' = "idle"
    /\ keep' = 0
    /\ cutoff' = 0
    /\ upper' = 0
    /\ UNCHANGED <<dbVars, cache, orphans, runVars, fetchVars>>

PurgeEnd ==
    /\ ppc = "select"
    /\ Purgeable = {}
    /\ PurgeOver
    /\ UNCHANGED faults

\* Killed, or stopped by an error: what is committed stays committed.
PurgeCrash == ppc # "idle" /\ Fault /\ PurgeOver

Purge == PurgeBegin \/ PurgeSelect \/ PurgeDelete \/ PurgeEnd

-----------------------------------------------------------------------------
Fetch(f) ==
    \/ Scan(f) \/ CryoWrites(f) \/ CryoDone(f)
    \/ Collect(f) \/ Parse(f) \/ ParseMissing(f)

MainStep(p) ==
    \/ Issue(p) \/ Yield(p) \/ YieldError(p)
    \/ SaveChunkLogs(p) \/ SaveChunkTxs(p) \/ SaveChunkBlocks(p)
    \/ AllSaved(p) \/ Prune(p)

Next ==
    \/ \E p \in Procs : Begin(p) \/ MainStep(p) \/ Fail(p) \/ Crash(p)
    \/ \E f \in Fetchers : Fetch(f)
    \/ OrphanWrites
    \/ Purge
    \/ PurgeCrash

Spec == Init /\ [][Next]_vars

\* A run goes on by itself, cryo exits, and a purge goes through its chunks;
\* nobody has to start a run or a purge, and nothing has to fail.
Fairness ==
    /\ \A p \in Procs : WF_vars(MainStep(p))
    /\ \A f \in Fetchers : WF_vars(Fetch(f))
    /\ WF_vars(Purge /\ ~PurgeBegin)

FairSpec == Spec /\ Fairness

-----------------------------------------------------------------------------
(* Properties.                                                             *)

\* A block is flagged by its blocks row only once its logs and transactions
\* are stored, and stays so: what index_block_range promises whatever run
\* fails, is killed, or prunes the cache under another run's feet.
FlaggedComplete == \A b \in blocks : Complete(b)

\* A run that gets as far as pruning has left no block of its range behind,
\* although some of its files may have been pruned by another run.
RangeCovered ==
    \A p \in Procs :
        pc[p] \in DataTypes => (range[p][1] .. range[p][2]) \subseteq blocks

\* Why these two hold when no purge overlaps a run; the conjuncts below are
\* inductive together.  What a fetch has found covered stays covered by the
\* cache or is indexed already, because a file is pruned only when all of its
\* blocks are.
Scanned(f, t) ==
    \/ phase[f] \in {"scan", "run", "ran"} /\ Before(t, dtype[f])
    \/ phase[f] \in {"collect", "parse", "ready", "failed"}
Collected(f, t) ==
    \/ phase[f] = "collect" /\ Before(t, dtype[f])
    \/ phase[f] \in {"parse", "ready", "failed"}

Covered(t) == (UNION cache[t]) \cup blocks

SlotShape(f) ==
    /\ phase[f] = "free" => chunk[f] = {}
    /\ phase[f] \in {"free", "ready"} => dtype[f] = "transactions"
GapsWritten(f) ==
    /\ phase[f] = "run" => chunk[f] \ need[f] \subseteq Covered(dtype[f])
    /\ phase[f] = "ran" =>
        chunk[f] \ (need[f] \ FirstGap(need[f])) \subseteq Covered(dtype[f])
ScannedCovered(f) ==
    \A t \in DataTypes : Scanned(f, t) => chunk[f] \subseteq Covered(t)
CollectedCovered(f) ==
    \A t \in DataTypes :
        Collected(f, t) => chunk[f] \subseteq (UNION files[f][t]) \cup blocks
FetchInv(f) ==
    SlotShape(f) /\ GapsWritten(f) /\ ScannedCovered(f) /\ CollectedCovered(f)

Saving == {"saveLogs", "saveTxs", "saveBlocks"}

IdleSlotsFree(p) == pc[p] = "idle" => \A s \in Slots : phase[<<p, s>>] = "free"
SavedInOrder(p) ==
    /\ pc[p] \in Saving => phase[CurOf(p)] = "ready"
    /\ pc[p] \in {"saveTxs", "saveBlocks"} => chunk[CurOf(p)] \subseteq logs
    /\ pc[p] = "saveBlocks" => chunk[CurOf(p)] \subseteq txs

\* No block of its range gets lost between the list of chunks and the rows.
InHand(p, b) ==
    \/ \E c \in todo[p] : b \in c
    \/ \E s \in Slots : b \in chunk[<<p, s>>]
RangeAccounted(p) ==
    pc[p] \in {"fetching"} \cup Saving =>
        \A b \in range[p][1] .. range[p][2] : b \in blocks \/ InHand(p, b)
RunInv(p) == IdleSlotsFree(p) /\ SavedInOrder(p) /\ RangeAccounted(p)

PurgeAlone == ppc # "idle" => \A p \in Procs : pc[p] = "idle"

IndexInv ==
    /\ FlaggedComplete
    /\ PurgeAlone
    /\ \A f \in Fetchers : FetchInv(f)
    /\ \A p \in Procs : RunInv(p)
    /\ RangeCovered

\* Newest first: an interrupted backfill leaves its gap at the bottom of the range,
\* but for the chunks that its other endpoints were fetching.  Above a block that a
\* run has flagged there are no more missing ones than these chunks may hold.
GapAtBottom ==
    \A p \in Procs : \A b \in miss[p] \cap blocks :
        Cardinality({c \in miss[p] \ blocks : c > b}) <= (Workers - 1) * BatchSize

\* No step takes a row of one of the `keep` newest block numbers, counted from
\* the newest block that is indexed when the rows go.
InWindow(b) == \E m \in blocks : IsMax(m, blocks) /\ b + keep > m
KeptWindowUntouched ==
    [][/\ \A b \in blocks : InWindow(b) => b \in blocks'
       /\ \A b \in logs : InWindow(b) => b \in logs'
       /\ \A b \in txs : InWindow(b) => b \in txs']_vars

\* All of this at once, for somebody who only looks at the store: the rows of the
\* flagged blocks, and how far each run has come, are those of the abstract store.
Stored == [b \in blocks |-> [logs |-> b \in logs, txs |-> b \in txs]]
Reported(p) ==
    CASE pc[p] = "idle" -> "idle"
      [] pc[p] \in DataTypes -> "done"
      [] OTHER -> "open"

Store == INSTANCE BlockStore WITH
    Runs <- Procs,
    store <- Stored,
    run <- [p \in Procs |-> Reported(p)],
    asked <- range

\* Whatever runs fail or are killed and whatever purges do, as long as no purge
\* overlaps a run, index_block_range and purge_old_blocks are the abstract store:
\* a block is seen whole or not at all, a run that gets to its pruning has stored
\* its range and nothing else, and old blocks go before new ones.
StoreRefined == Store!Spec

\* A run comes to an end, whatever other runs do to the shared cache.
RunEnds == \A p \in Procs : (pc[p] # "idle") ~> (pc[p] = "idle")

\* A purge comes to an end.
PurgeEnds == (ppc # "idle") ~> (ppc = "idle")

=============================================================================
