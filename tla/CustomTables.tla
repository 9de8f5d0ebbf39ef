---------------------------- MODULE CustomTables ----------------------------
(***************************************************************************)
(* Custom tables (custom_tables.rs): tables declared in the config and     *)
(* derived from the logs table, over the lives of the processes that keep  *)
(* them: commands that reconcile the tables with the config when they      *)
(* start (sync) and then index block after block (populate_range), the     *)
(* command that rebuilds the tables (rebuild), and purges.                 *)
(*                                                                         *)
(* The config file is read once, when a process starts.  Fetching is left  *)
(* out: a chunk has its rows at hand (the module BlockIndexing is about    *)
(* how it gets them).  Every log matches every definition of a table, so   *)
(* that a table has one row per block: a definition differs from another   *)
(* in what it decodes, and maybe in the columns it decodes to.             *)
(***************************************************************************)
EXTENDS TxsDb, Chunking

CONSTANTS
    Procs,          \* processes that run mevlog commands
    Tables,         \* names a custom table may have
    Defs,           \* definitions a table may be given (topic0, addresses, columns)
    Columns,        \* the column names of each definition
    NoDef,          \* no definition, no fingerprint, no table
    BatchSize,      \* --batch-size
    Ranges,         \* the <<from, to>> ranges a run may be asked for
    Keeps,          \* the --keep values of a purge
    PurgeChunk,     \* PURGE_CHUNK_BLOCKS
    Removable,      \* the tables the user may take out of the config again
    Modes,          \* the ways a behaviour may go, see mode
    MaxFaults       \* bound: how many commands and purges are killed or fail

ASSUME DefsAssumption == NoDef \notin Defs
ASSUME ColumnsAssumption == DOMAIN Columns = Defs
ASSUME BatchSizeAssumption == BatchSize \in Nat \ {0}
ASSUME RangesAssumption == Ranges \subseteq Nat \X Nat
ASSUME KeepsAssumption == Keeps \subseteq Nat
ASSUME PurgeChunkAssumption == PurgeChunk \in Nat \ {0}
ASSUME ModesAssumption ==
    Modes \subseteq [online : SUBSET {"edit", "rebuild"}, edits : Nat]
ASSUME BoundsAssumption == MaxFaults \in Nat

VARIABLES
    mode,       \* what may overlap running commands, and the bound on edits
    config,     \* the definition the config file gives each table
    layout,     \* the definition each existing table was created with
    stored,     \* the fingerprint the meta table has for each name
    rows,       \* the rows of each table: <<block, the definition it is decoded by>>
    amiss,      \* history: the blocks of each table since it was created that a command
                \* with another definition of it, or none, has saved
    pc,         \* where each process is
    defs,       \* the definitions a process has read from the config
    pend,       \* the tables its current loop has still to go through
    making,     \* the table it is about to create
    span,       \* the chunk it is indexing
    ppc,        \* where the purge is
    names,      \* the table names it has read
    cutoff,     \* blocks below it are purged
    upper,      \* upper bound of the chunk being deleted
    edits,      \* counts edits, for the bound
    faults      \* counts failures and kills, for the bound

tableVars == <<layout, stored, rows, amiss>>
procVars == <<pc, defs, pend, making, span>>
purgeVars == <<ppc, names, cutoff, upper>>
vars == <<mode, blocks, logs, txs, config, layout, stored, rows, amiss, pc, defs,
          pend, making, span, ppc, names, cutoff, upper, edits, faults>>

Online == mode.online

MaybeDef == Defs \cup {NoDef}
Nothing == [t \in Tables |-> NoDef]

SyncSteps == {"sync", "create"}
IndexSteps == {"ready", "logs", "populate", "txs", "blocks"}
RebuildSteps == {"drop", "recreate"}

TypeOK ==
    /\ DbTypeOK
    /\ mode \in Modes
    /\ config \in [Tables -> MaybeDef]
    /\ layout \in [Tables -> MaybeDef]
    /\ stored \in [Tables -> MaybeDef]
    /\ rows \in [Tables -> SUBSET (Nat \X Defs)]
    /\ amiss \in [Tables -> SUBSET Nat]
    /\ pc \in [Procs -> {"idle"} \cup SyncSteps \cup IndexSteps \cup RebuildSteps]
    /\ defs \in [Procs -> [Tables -> MaybeDef]]
    /\ pend \in [Procs -> SUBSET Tables]
    /\ making \in [Procs -> SUBSET Tables]
    /\ span \in [Procs -> SUBSET Nat]
    /\ ppc \in {"idle", "select", "delete"}
    /\ names \subseteq Tables
    /\ cutoff \in Nat
    /\ upper \in Nat
    /\ edits \in Nat
    /\ faults \in Nat

Init ==
    /\ DbInit
    /\ mode \in Modes
    /\ config = Nothing
    /\ layout = Nothing
    /\ stored = Nothing
    /\ rows = [t \in Tables |-> {}]
    /\ amiss = [t \in Tables |-> {}]
    /\ pc = [p \in Procs |-> "idle"]
    /\ defs = [p \in Procs |-> Nothing]
    /\ pend = [p \in Procs |-> {}]
    /\ making = [p \in Procs |-> {}]
    /\ span = [p \in Procs |-> {}]
    /\ ppc = "idle"
    /\ names = {}
    /\ cutoff = 0
    /\ upper = 0
    /\ edits = 0
    /\ faults = 0

Exists(t) == layout[t] # NoDef
BlocksOf(t) == {r[1] : r \in rows[t]}

AllIdle == ppc = "idle" /\ \A p \in Procs : pc[p] = "idle"
Rebuilding == \E p \in Procs : pc[p] \in RebuildSteps

\* The tables a process has definitions for: what sync returns.
Applicable(p) == {t \in Tables : defs[p][t] # NoDef}

-----------------------------------------------------------------------------
(* The user.                                                               *)

\* A table is added, changed or, if it is Removable, removed.
EditConfig ==
    /\ edits < mode.edits
    /\ edits' = edits + 1
    /\ "edit" \in Online \/ AllIdle
    /\ \E t \in Tables, d \in MaybeDef :
        /\ d # config[t]
        /\ d = NoDef => t \in Removable
        /\ config' = [config EXCEPT ![t] = d]
    /\ UNCHANGED <<dbVars, tableVars, procVars, purgeVars, faults>>

-----------------------------------------------------------------------------
(* A command that opens the database (init_deps), and its end.             *)

Alone(p) == ppc = "idle" /\ \A q \in Procs \ {p} : pc[q] = "idle"

\* Commands and purges exclude each other, as the scheduler's job_lock has it;
\* BlockIndexing is about those that do not.
Begin(p) ==
    /\ pc[p] = "idle"
    /\ "rebuild" \in Online \/ ~Rebuilding
    /\ ppc = "idle"
    /\ pc' = [pc EXCEPT ![p] = "sync"]
    /\ defs' = [defs EXCEPT ![p] = config]
    /\ pend' = [pend EXCEPT ![p] = {t \in Tables : config[t] # NoDef}]
    /\ UNCHANGED <<dbVars, config, tableVars, making, span, purgeVars, edits,
                   faults>>

Quit(p) ==
    /\ pc' = [pc EXCEPT ![p] = "idle"]
    /\ defs' = [defs EXCEPT ![p] = Nothing]
    /\ pend' = [pend EXCEPT ![p] = {}]
    /\ making' = [making EXCEPT ![p] = {}]
    /\ span' = [span EXCEPT ![p] = {}]

\* The command is over: all it had to do is done.
Exit(p) ==
    /\ pc[p] = "ready"
    /\ Quit(p)
    /\ UNCHANGED <<dbVars, config, tableVars, purgeVars, edits, faults>>

Fault == faults < MaxFaults /\ faults' = faults + 1

\* Killed, or stopped by an error, between two of its commits.
Stop(p) ==
    /\ pc[p] # "idle"
    /\ Fault
    /\ Quit(p)
    /\ UNCHANGED <<dbVars, config, tableVars, purgeVars, edits>>

\* The loop of p is over: it goes to the step next, to do `again` there.
LoopTo(p, next, again) ==
    /\ pend[p] = {}
    /\ pc' = [pc EXCEPT ![p] = next]
    /\ pend' = [pend EXCEPT ![p] = again]
    /\ UNCHANGED <<defs, making, span>>

Done(p, t) ==
    /\ pend' = [pend EXCEPT ![p] = @ \ {t}]
    /\ UNCHANGED <<pc, defs, making, span>>

-----------------------------------------------------------------------------
(* create_and_backfill, and sync.                                          *)

\* Mutant: the table is not backfilled.
CreateEmpty(t, d) ==
    /\ ~Exists(t)
    /\ layout' = [layout EXCEPT ![t] = d]
    /\ stored' = [stored EXCEPT ![t] = d]
    /\ rows' = [rows EXCEPT ![t] = {}]
    /\ amiss' = [amiss EXCEPT ![t] = {}]

\* The table, its fingerprint and the rows of all logs are committed together.
CreateAndBackfill(t, d) ==
    /\ ~Exists(t)
    /\ layout' = [layout EXCEPT ![t] = d]
    /\ stored' = [stored EXCEPT ![t] = d]
    /\ rows' = [rows EXCEPT ![t] = logs \X {d}]
    /\ amiss' = [amiss EXCEPT ![t] = {}]

\* Mutant: a tracked table is accepted by its name.
SyncMatchesByName(p) ==
    /\ pc[p] = "sync"
    /\ \E t \in pend[p] : Exists(t) /\ stored[t] # NoDef /\ Done(p, t)
    /\ UNCHANGED <<dbVars, config, tableVars, purgeVars, edits, faults>>

\* The table is there with the fingerprint of its definition: nothing to do.
SyncMatches(p) ==
    /\ pc[p] = "sync"
    /\ \E t \in pend[p] : Exists(t) /\ stored[t] = defs[p][t] /\ Done(p, t)
    /\ UNCHANGED <<dbVars, config, tableVars, purgeVars, edits, faults>>

\* Another fingerprint, or none: the command refuses to go on.
SyncRefuses(p) ==
    /\ pc[p] = "sync"
    /\ \E t \in pend[p] : Exists(t) /\ stored[t] # defs[p][t]
    /\ Quit(p)
    /\ UNCHANGED <<dbVars, config, tableVars, purgeVars, edits, faults>>

\* The table is found missing; creating it is a transaction of its own.
SyncMissing(p) ==
    /\ pc[p] = "sync"
    /\ \E t \in pend[p] :
        /\ ~Exists(t)
        /\ making' = [making EXCEPT ![p] = {t}]
        /\ pend' = [pend EXCEPT ![p] = @ \ {t}]
    /\ pc' = [pc EXCEPT ![p] = "create"]
    /\ UNCHANGED <<dbVars, config, tableVars, defs, span, purgeVars, edits,
                   faults>>

SyncCreates(p) ==
    /\ pc[p] = "create"
    /\ \E t \in making[p] : CreateAndBackfill(t, defs[p][t])
    /\ pc' = [pc EXCEPT ![p] = "sync"]
    /\ making' = [making EXCEPT ![p] = {}]
    /\ UNCHANGED <<dbVars, config, defs, pend, span, purgeVars, edits, faults>>

\* Another process was first: CREATE TABLE is an error, which ends the command.
SyncClashes(p) ==
    /\ pc[p] = "create"
    /\ \E t \in making[p] : Exists(t)
    /\ Quit(p)
    /\ UNCHANGED <<dbVars, config, tableVars, purgeVars, edits, faults>>

SyncDone(p) ==
    /\ pc[p] = "sync"
    /\ LoopTo(p, "ready", {})
    /\ UNCHANGED <<dbVars, config, tableVars, purgeVars, edits, faults>>

-----------------------------------------------------------------------------
(* index_block_range: one chunk that is missing, saved step after step.    *)

StartChunk(p) ==
    /\ pc[p] = "ready"
    /\ \E r \in Ranges : \E c \in Chunks(MissingBlocks(r[1], r[2]), BatchSize) :
        span' = [span EXCEPT ![p] = c]
    /\ pc' = [pc EXCEPT ![p] = "logs"]
    /\ UNCHANGED <<dbVars, config, tableVars, defs, pend, making, purgeVars,
                   edits, faults>>

SaveChunkLogs(p) ==
    /\ pc[p] = "logs"
    /\ SaveLogs(span[p])
    /\ pc' = [pc EXCEPT ![p] = "populate"]
    /\ pend' = [pend EXCEPT ![p] = Applicable(p)]
    /\ UNCHANGED <<blocks, txs, config, tableVars, defs, making, span, purgeVars,
                   edits, faults>>

\* The statement names its columns: each must be a column of the table.
Insertable(t, d) == Exists(t) /\ Columns[d] \subseteq Columns[layout[t]]

\* populate_range: a log that has a row already keeps it.
Populate(p) ==
    /\ pc[p] = "populate"
    /\ \E t \in pend[p] :
        /\ Insertable(t, defs[p][t])
        /\ rows' = [rows EXCEPT ![t] =
                @ \cup (((logs \cap span[p]) \ BlocksOf(t)) \X {defs[p][t]})]
        /\ amiss' = [amiss EXCEPT ![t] =
                IF defs[p][t] = layout[t] THEN @ ELSE @ \cup span[p]]
        /\ Done(p, t)
    /\ UNCHANGED <<dbVars, config, layout, stored, purgeVars, edits, faults>>

\* Mutant: a table that cannot be filled is passed over.
PopulatePassesOver(p) ==
    /\ pc[p] = "populate"
    /\ \E t \in pend[p] : ~Insertable(t, defs[p][t]) /\ Done(p, t)
    /\ UNCHANGED <<dbVars, config, tableVars, purgeVars, edits, faults>>

PopulateFails(p) ==
    /\ pc[p] = "populate"
    /\ \E t \in pend[p] : ~Insertable(t, defs[p][t])
    /\ Quit(p)
    /\ UNCHANGED <<dbVars, config, tableVars, purgeVars, edits, faults>>

Populated(p) ==
    /\ pc[p] = "populate"
    /\ LoopTo(p, "txs", {})
    /\ UNCHANGED <<dbVars, config, tableVars, purgeVars, edits, faults>>

SaveChunkTxs(p) ==
    /\ pc[p] = "txs"
    /\ SaveTxs(span[p])
    /\ pc' = [pc EXCEPT ![p] = "blocks"]
    /\ UNCHANGED <<blocks, logs, config, tableVars, defs, pend, making, span,
                   purgeVars, edits, faults>>

SaveChunkBlocks(p) ==
    /\ pc[p] = "blocks"
    /\ SaveBlocks(span[p])
    /\ pc' = [pc EXCEPT ![p] = "ready"]
    /\ span' = [span EXCEPT ![p] = {}]
    /\ amiss' = [t \in Tables |-> IF Exists(t) /\ t \notin Applicable(p)
                                  THEN amiss[t] \cup span[p] ELSE amiss[t]]
    /\ UNCHANGED <<logs, txs, config, layout, stored, rows, defs, pend, making,
                   purgeVars, edits, faults>>

-----------------------------------------------------------------------------
(* rebuild: `mevlog update-custom-tables`, each statement a commit.        *)

BeginRebuild(p) ==
    /\ pc[p] = "idle"
    /\ "rebuild" \in Online \/ Alone(p)
    /\ pc' = [pc EXCEPT ![p] = "drop"]
    /\ defs' = [defs EXCEPT ![p] = config]
    /\ pend' = [pend EXCEPT ![p] = {t \in Tables : stored[t] # NoDef
                                                   \/ config[t] # NoDef}]
    /\ UNCHANGED <<dbVars, config, tableVars, making, span, purgeVars, edits,
                   faults>>

DropTable(p) ==
    /\ pc[p] = "drop"
    /\ \E t \in pend[p] :
        /\ layout' = [layout EXCEPT ![t] = NoDef]
        /\ rows' = [rows EXCEPT ![t] = {}]
        /\ amiss' = [amiss EXCEPT ![t] = {}]
        /\ Done(p, t)
    /\ UNCHANGED <<dbVars, config, stored, purgeVars, edits, faults>>

\* Mutant: the fingerprints of dropped tables stay.
ClearNothing(p) ==
    /\ pc[p] = "drop"
    /\ LoopTo(p, "recreate", Applicable(p))
    /\ UNCHANGED <<dbVars, config, tableVars, purgeVars, edits, faults>>

\* DELETE FROM custom_tables, whatever it holds by now.
ClearMeta(p) ==
    /\ pc[p] = "drop"
    /\ LoopTo(p, "recreate", Applicable(p))
    /\ stored' = Nothing
    /\ UNCHANGED <<dbVars, config, layout, rows, amiss, purgeVars, edits, faults>>

Recreate(p) ==
    /\ pc[p] = "recreate"
    /\ \E t \in pend[p] : CreateAndBackfill(t, defs[p][t]) /\ Done(p, t)
    /\ UNCHANGED <<dbVars, config, purgeVars, edits, faults>>

RecreateClashes(p) ==
    /\ pc[p] = "recreate"
    /\ \E t \in pend[p] : Exists(t)
    /\ Quit(p)
    /\ UNCHANGED <<dbVars, config, tableVars, purgeVars, edits, faults>>

RebuildEnd(p) ==
    /\ pc[p] = "recreate"
    /\ pend[p] = {}
    /\ Quit(p)
    /\ UNCHANGED <<dbVars, config, tableVars, purgeVars, edits, faults>>

-----------------------------------------------------------------------------
(* purge_old_blocks, with the tables it cleans.                            *)

\* tracked_table_names is asked once, before the first chunk.
PurgeBegin ==
    /\ ppc = "idle"
    /\ \A p \in Procs :
        pc[p] = "idle" \/ ("rebuild" \in Online /\ pc[p] \in RebuildSteps)
    /\ \E k \in Keeps, m \in blocks :
        IsMax(m, blocks) /\ cutoff' = CutoffOf(m, k)
    /\ names' = {t \in Tables : Exists(t) /\ stored[t] # NoDef}
    /\ ppc' = "select"
    /\ UNCHANGED <<dbVars, config, tableVars, procVars, upper, edits, faults>>

Purgeable == {b \in blocks : b < cutoff}

PurgeSelect ==
    /\ ppc = "select"
    /\ \E u \in Purgeable : IsChunkUpper(u, Purgeable, PurgeChunk) /\ upper' = u
    /\ ppc' = "delete"
    /\ UNCHANGED <<dbVars, config, tableVars, procVars, names, cutoff, edits,
                   faults>>

\* Mutant: the rows of the bound itself stay.
RowsAfterShort(t) == {r \in rows[t] : t \in names => r[1] >= upper}

RowsAfter(t) == {r \in rows[t] : t \in names => r[1] > upper}

PurgeDelete ==
    /\ ppc = "delete"
    /\ \A t \in names : Exists(t)
    /\ DeleteThrough(upper)
    /\ rows' = [t \in Tables |-> RowsAfter(t)]
    /\ amiss' = [t \in Tables |-> {b \in amiss[t] : t \in names => b > upper}]
    /\ ppc' = "select"
    /\ upper' = 0
    /\ UNCHANGED <<config, layout, stored, procVars, names, cutoff, edits, faults>>

PurgeOver ==
    /\ ppc' = "idle"
    /\ names' = {}
    /\ cutoff' = 0
    /\ upper' = 0
    /\ UNCHANGED <<dbVars, config, tableVars, procVars, edits>>

PurgeEnd ==
    /\ ppc = "select"
    /\ Purgeable = {}
    /\ PurgeOver
    /\ UNCHANGED faults

\* A table that has been dropped since is an error: the chunk is rolled back.
PurgeFails ==
    /\ ppc = "delete"
    /\ \E t \in names : ~Exists(t)
    /\ PurgeOver
    /\ UNCHANGED faults

PurgeStops == ppc # "idle" /\ Fault /\ PurgeOver

-----------------------------------------------------------------------------
Sync(p) ==
    \/ SyncMatches(p) \/ SyncRefuses(p) \/ SyncMissing(p)
    \/ SyncCreates(p) \/ SyncClashes(p) \/ SyncDone(p)

IndexChunk(p) ==
    \/ StartChunk(p) \/ SaveChunkLogs(p) \/ Populate(p) \/ PopulateFails(p)
    \/ Populated(p) \/ SaveChunkTxs(p) \/ SaveChunkBlocks(p)

Rebuild(p) ==
    \/ BeginRebuild(p) \/ DropTable(p) \/ ClearMeta(p)
    \/ Recreate(p) \/ RecreateClashes(p) \/ RebuildEnd(p)

Purge ==
    PurgeBegin \/ PurgeSelect \/ PurgeDelete \/ PurgeEnd \/ PurgeFails \/ PurgeStops

Next ==
    /\ \/ \E p \in Procs : Begin(p) \/ Sync(p) \/ IndexChunk(p) \/ Rebuild(p)
                           \/ Exit(p) \/ Stop(p)
       \/ EditConfig
       \/ Purge
    /\ UNCHANGED mode

Spec == Init /\ [][Next]_vars

-----------------------------------------------------------------------------
(* Properties.                                                             *)

InStep(t) == Exists(t) /\ stored[t] = config[t] => blocks \subseteq BlocksOf(t)

\* A table that sync accepts has the rows of every indexed block: the tables
\* stay in step with logs, however commands are stopped and started again, if
\* they are never taken out of the config, which is edited while nothing runs.
InStepWithLogs == Online = {} => \A t \in Tables \ Removable : InStep(t)

\* "so they stay in step with logs", the docs say of all tables.
AllInStep == \A t \in Tables : InStep(t)

\* A table never holds a row decoded by another definition than the one its
\* fingerprint stands for, and no command that is indexing is about to write one: an
\* edit of the config leads to a refusal or to a rebuild, not to a table with rows of
\* both, if nothing runs meanwhile.
RowsFitFingerprint ==
    Online = {} =>
        /\ \A t \in Tables : \A r \in rows[t] : stored[t] # NoDef => r[2] = stored[t]
        /\ \A p \in Procs : pc[p] \in IndexSteps => \A t \in Applicable(p) :
            layout[t] = defs[p][t] /\ stored[t] = defs[p][t]

\* Rows of a custom table, derived from logs, do not outlive them.
RowsHaveLogs == Online = {} => \A t \in Tables : BlocksOf(t) \subseteq logs

\* Whatever is edited, rebuilt, purged or killed under running commands, an indexed
\* block has its row in every table that is there, and that row is decoded by the
\* definition the table was made for: but for blocks that a command has saved, since the
\* table was made, which had read another definition of it or none.  A failure over a
\* table, a table made twice or a rebuild between two saves of a chunk loses no row.
OnlyStaleIsAmiss ==
    \A t \in Tables : Exists(t) =>
        \A b \in blocks \ amiss[t] :
            {r \in rows[t] : r[1] = b} = {<<b, layout[t]>>}

\* A rebuild that reaches its end has left the tables of the config and no
\* other tracked table, each with the rows of all logs: it is lossless.
RebuildIsLossless ==
    [][\A p \in Procs : Online = {} /\ RebuildEnd(p) =>
        \A t \in Tables :
            /\ stored[t] = config[t]
            /\ config[t] # NoDef => BlocksOf(t) = logs]_vars

=============================================================================
