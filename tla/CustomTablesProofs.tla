------------------------- MODULE CustomTablesProofs -------------------------
(***************************************************************************)
(* Theorems about custom tables, for any processes, tables, definitions,   *)
(* ranges, windows and faults, and any number of edits of the config.      *)
(***************************************************************************)
EXTENDS CustomTables, TLAPS

(* Types.                                                                   *)

\* What a loop of sync, populate_range or rebuild goes through are tables the command
\* has a definition for.
PendFits(p) ==
    /\ pc[p] \in SyncSteps \cup {"populate", "recreate"} => pend[p] \subseteq Applicable(p)
    /\ IF pc[p] = "create" THEN \E t \in Applicable(p) : making[p] = {t}
                           ELSE making[p] = {}

Types == TypeOK /\ \A p \in Procs : PendFits(p)

AllSteps == {"idle"} \cup SyncSteps \cup IndexSteps \cup RebuildSteps

LEMMA Steps0 ==
    /\ SyncSteps = {"sync", "create"}
    /\ IndexSteps = {"ready", "logs", "populate", "txs", "blocks"}
    /\ RebuildSteps = {"drop", "recreate"}
    /\ AllSteps = {"idle", "sync", "create", "ready", "logs", "populate", "txs", "blocks",
                   "drop", "recreate"}
BY DEF SyncSteps, IndexSteps, RebuildSteps, AllSteps

\* The types of what belongs to the processes, and of what belongs to all.
ProcTypes ==
    /\ pc \in [Procs -> AllSteps]
    /\ defs \in [Procs -> [Tables -> MaybeDef]]
    /\ pend \in [Procs -> SUBSET Tables]
    /\ making \in [Procs -> SUBSET Tables]
    /\ span \in [Procs -> SUBSET Nat]
    /\ \A p \in Procs : PendFits(p)
TableTypes ==
    /\ layout \in [Tables -> MaybeDef]
    /\ stored \in [Tables -> MaybeDef]
    /\ rows \in [Tables -> SUBSET (Nat \X Defs)]
    /\ amiss \in [Tables -> SUBSET Nat]
OtherTypes ==
    /\ mode \in Modes
    /\ config \in [Tables -> MaybeDef]
    /\ edits \in Nat /\ faults \in Nat
PurgeTypes ==
    /\ ppc \in {"idle", "select", "delete"}
    /\ names \subseteq Tables
    /\ cutoff \in Nat
    /\ upper \in Nat

LEMMA TypesParts == Types <=> DbTypeOK /\ ProcTypes /\ TableTypes /\ OtherTypes /\ PurgeTypes
BY DEF Types, TypeOK, ProcTypes, TableTypes, OtherTypes, PurgeTypes, AllSteps

LEMMA TypesInit == Init => Types
BY ModesAssumption
DEF Init, Types, TypeOK, DbInit, DbTypeOK, Nothing, MaybeDef, PendFits, Applicable, SyncSteps

\* The others stay as they are.
Others(p) ==
    \A q \in Procs \ {p} :
        /\ pc'[q] = pc[q] /\ defs'[q] = defs[q] /\ pend'[q] = pend[q]
        /\ making'[q] = making[q] /\ span'[q] = span[q]

LEMMA OneIsEnough ==
    ASSUME ProcTypes, NEW p \in Procs, Others(p), PendFits(p)',
           pc' \in [Procs -> AllSteps],
           defs' \in [Procs -> [Tables -> MaybeDef]],
           pend' \in [Procs -> SUBSET Tables],
           making' \in [Procs -> SUBSET Tables],
           span' \in [Procs -> SUBSET Nat]
    PROVE  ProcTypes'
<1>1. ASSUME NEW q \in Procs \ {p} PROVE PendFits(q)'
  <2>1. PendFits(q)
    BY DEF ProcTypes
  <2>2. /\ pc'[q] = pc[q] /\ defs'[q] = defs[q] /\ pend'[q] = pend[q]
        /\ making'[q] = making[q]
    BY DEF Others
  <2>3. Applicable(q)' = Applicable(q)
    BY <2>2 DEF Applicable
  <2> QED
    BY <2>1, <2>2, <2>3 DEF PendFits
<1>2. \A q \in Procs : PendFits(q)'
  BY <1>1
<1> QED
  BY <1>2 DEF ProcTypes

LEMMA Quits ==
    ASSUME ProcTypes, NEW p \in Procs, Quit(p)
    PROVE  ProcTypes' /\ Others(p) /\ pc'[p] = "idle"
<1>1. /\ pc'[p] = "idle" /\ defs'[p] = Nothing /\ pend'[p] = {}
      /\ making'[p] = {} /\ span'[p] = {}
  BY DEF Quit, ProcTypes
<1>2. Others(p)
  BY DEF Quit, ProcTypes, Others
<1>3. Nothing \in [Tables -> MaybeDef]
  BY DEF Nothing, MaybeDef
<1>4. PendFits(p)'
  BY <1>1 DEF PendFits
<1>5. /\ pc' \in [Procs -> AllSteps]
      /\ defs' \in [Procs -> [Tables -> MaybeDef]]
      /\ pend' \in [Procs -> SUBSET Tables]
      /\ making' \in [Procs -> SUBSET Tables]
      /\ span' \in [Procs -> SUBSET Nat]
  BY <1>3, Steps0 DEF Quit, ProcTypes
<1> QED
  BY <1>1, <1>2, <1>4, <1>5, OneIsEnough

LEMMA Dones ==
    ASSUME ProcTypes, NEW p \in Procs, NEW t \in Tables, Done(p, t)
    PROVE  /\ ProcTypes' /\ Others(p)
           /\ pc' = pc /\ defs' = defs /\ making' = making /\ span' = span
           /\ pend'[p] = pend[p] \ {t}
<1>1. pend'[p] = pend[p] \ {t} /\ Others(p)
  BY DEF Done, ProcTypes, Others
<1>2. PendFits(p)'
  BY <1>1 DEF Done, ProcTypes, PendFits, Applicable
<1>3. /\ pc' \in [Procs -> AllSteps]
      /\ defs' \in [Procs -> [Tables -> MaybeDef]]
      /\ pend' \in [Procs -> SUBSET Tables]
      /\ making' \in [Procs -> SUBSET Tables]
      /\ span' \in [Procs -> SUBSET Nat]
  BY DEF Done, ProcTypes
<1> QED
  BY <1>1, <1>2, <1>3, OneIsEnough DEF Done

LEMMA LoopsTo ==
    ASSUME ProcTypes, NEW p \in Procs, pc[p] # "create", NEW next \in AllSteps \ {"create"},
           NEW again \in SUBSET Tables,
           next \in {"sync", "populate", "recreate"} => again \subseteq Applicable(p),
           LoopTo(p, next, again)
    PROVE  /\ ProcTypes' /\ Others(p) /\ pend[p] = {}
           /\ pc'[p] = next /\ pend'[p] = again
           /\ defs' = defs /\ making' = making /\ span' = span
<1>1. pc'[p] = next /\ pend'[p] = again /\ Others(p) /\ pend[p] = {}
  BY DEF LoopTo, ProcTypes, Others
<1>2. PendFits(p)'
  BY <1>1, Steps0 DEF LoopTo, ProcTypes, PendFits, Applicable
<1>3. /\ pc' \in [Procs -> AllSteps]
      /\ defs' \in [Procs -> [Tables -> MaybeDef]]
      /\ pend' \in [Procs -> SUBSET Tables]
      /\ making' \in [Procs -> SUBSET Tables]
      /\ span' \in [Procs -> SUBSET Nat]
  BY DEF LoopTo, ProcTypes
<1> QED
  BY <1>1, <1>2, <1>3, OneIsEnough DEF LoopTo

LEMMA ChunksAreBlocks ==
    ASSUME NEW r \in Ranges, NEW c \in Chunks(MissingBlocks(r[1], r[2]), BatchSize)
    PROVE  c \in SUBSET Nat
<1>1. c \subseteq MissingBlocks(r[1], r[2])
  BY DEF Chunks, ChunkOf
<1>2. r[1] \in Nat /\ r[2] \in Nat
  BY RangesAssumption
<1> QED
  BY <1>1, <1>2 DEF MissingBlocks

\* The steps that end a command.
Ends(p) ==
    \/ Exit(p) \/ Stop(p) \/ SyncRefuses(p) \/ SyncClashes(p) \/ PopulateFails(p)
    \/ RecreateClashes(p) \/ RebuildEnd(p)

LEMMA EndsOnly ==
    ASSUME NEW p \in Procs, Ends(p)
    PROVE  /\ Quit(p) /\ pc[p] # "idle"
           /\ UNCHANGED <<dbVars, config, tableVars, purgeVars, edits>>
BY DEF Ends, Exit, Stop, SyncRefuses, SyncClashes, PopulateFails, RecreateClashes, RebuildEnd

CommandStep(p) == Begin(p) \/ Sync(p) \/ IndexChunk(p) \/ Rebuild(p) \/ Exit(p) \/ Stop(p)

\* A command changes nothing of the other commands, of the purge or of the config.
LEMMA ProcStep ==
    ASSUME Types, NEW p \in Procs, CommandStep(p)
    PROVE  ProcTypes' /\ Others(p) /\ UNCHANGED <<config, edits, purgeVars>>
<1> USE TypesParts
<1>0. ProcTypes /\ config \in [Tables -> MaybeDef]
  BY DEF OtherTypes
<1>1. CASE Begin(p)
  <2>1. /\ pc'[p] = "sync" /\ defs'[p] = config /\ making'[p] = making[p]
        /\ pend'[p] = {t \in Tables : config[t] # NoDef} /\ Others(p)
    BY <1>0, <1>1 DEF Begin, ProcTypes, Others
  <2>2. making[p] = {}
    BY <1>0, <1>1 DEF Begin, ProcTypes, PendFits
  <2>3. PendFits(p)'
    BY <2>1, <2>2 DEF PendFits, Applicable
  <2>4. /\ pc' \in [Procs -> AllSteps]
        /\ defs' \in [Procs -> [Tables -> MaybeDef]]
        /\ pend' \in [Procs -> SUBSET Tables]
        /\ making' \in [Procs -> SUBSET Tables]
        /\ span' \in [Procs -> SUBSET Nat]
    BY <1>0, <1>1, Steps0 DEF Begin, ProcTypes
  <2> QED
    BY <1>0, <1>1, <2>1, <2>3, <2>4, OneIsEnough DEF Begin
<1>2. CASE Ends(p)
  BY <1>0, <1>2, EndsOnly, Quits
<1>3. CASE SyncMatches(p) \/ Populate(p) \/ DropTable(p) \/ Recreate(p)
  <2>1. PICK t \in pend[p] : Done(p, t)
    BY <1>3 DEF SyncMatches, Populate, DropTable, Recreate
  <2>2. t \in Tables
    BY <1>0, <2>1 DEF ProcTypes
  <2>3. UNCHANGED <<config, edits, purgeVars>>
    BY <1>3 DEF SyncMatches, Populate, DropTable, Recreate
  <2> QED
    BY <1>0, <2>1, <2>2, <2>3, Dones
<1>4. CASE SyncDone(p) \/ Populated(p) \/ ClearMeta(p)
  <2>1. PICK next \in {"ready", "txs", "recreate"}, again \in {{}, Applicable(p)} :
            LoopTo(p, next, again) /\ pc[p] # "create"
    BY <1>4 DEF SyncDone, Populated, ClearMeta
  <2>2. again \in SUBSET Tables /\ again \subseteq Applicable(p) /\ next \in AllSteps \ {"create"}
    BY <2>1, Steps0 DEF Applicable
  <2>3. UNCHANGED <<config, edits, purgeVars>>
    BY <1>4 DEF SyncDone, Populated, ClearMeta
  <2> QED
    BY <1>0, <2>1, <2>2, <2>3, LoopsTo
<1>5. CASE SyncMissing(p)
  <2>1. PICK t \in pend[p] : /\ making' = [making EXCEPT ![p] = {t}]
                             /\ pend' = [pend EXCEPT ![p] = @ \ {t}]
    BY <1>5 DEF SyncMissing
  <2>2. /\ pc'[p] = "create" /\ defs' = defs /\ making'[p] = {t} /\ pend'[p] = pend[p] \ {t}
        /\ Others(p)
    BY <1>0, <1>5, <2>1 DEF SyncMissing, ProcTypes, Others
  <2>3. pend[p] \subseteq Applicable(p)
    BY <1>0, <1>5, Steps0 DEF SyncMissing, ProcTypes, PendFits
  <2>4. PendFits(p)'
    BY <2>1, <2>2, <2>3 DEF PendFits, Applicable
  <2>5. /\ pc' \in [Procs -> AllSteps]
        /\ defs' \in [Procs -> [Tables -> MaybeDef]]
        /\ pend' \in [Procs -> SUBSET Tables]
        /\ making' \in [Procs -> SUBSET Tables]
        /\ span' \in [Procs -> SUBSET Nat]
    BY <1>0, <1>5, <2>1, Steps0 DEF SyncMissing, ProcTypes
  <2> QED
    BY <1>0, <1>5, <2>2, <2>4, <2>5, OneIsEnough DEF SyncMissing
<1>6. CASE SyncCreates(p)
  <2>1. /\ pc'[p] = "sync" /\ defs' = defs /\ making'[p] = {} /\ pend' = pend
        /\ Others(p)
    BY <1>0, <1>6 DEF SyncCreates, ProcTypes, Others
  <2>2. pend[p] \subseteq Applicable(p)
    BY <1>0, <1>6, Steps0 DEF SyncCreates, ProcTypes, PendFits
  <2>3. PendFits(p)'
    BY <2>1, <2>2 DEF PendFits, Applicable
  <2>4. /\ pc' \in [Procs -> AllSteps]
        /\ defs' \in [Procs -> [Tables -> MaybeDef]]
        /\ pend' \in [Procs -> SUBSET Tables]
        /\ making' \in [Procs -> SUBSET Tables]
        /\ span' \in [Procs -> SUBSET Nat]
    BY <1>0, <1>6, Steps0 DEF SyncCreates, ProcTypes
  <2> QED
    BY <1>0, <1>6, <2>1, <2>3, <2>4, OneIsEnough DEF SyncCreates
<1>7. CASE StartChunk(p)
  <2>1. PICK c \in SUBSET Nat : span' = [span EXCEPT ![p] = c]
    BY <1>7, ChunksAreBlocks DEF StartChunk
  <2>2. /\ pc'[p] = "logs" /\ defs' = defs /\ making' = making /\ pend' = pend
        /\ Others(p)
    BY <1>0, <1>7, <2>1 DEF StartChunk, ProcTypes, Others
  <2>3. PendFits(p)'
    BY <1>0, <1>7, <2>2, Steps0 DEF PendFits, Applicable, StartChunk, ProcTypes
  <2>4. /\ pc' \in [Procs -> AllSteps]
        /\ span' \in [Procs -> SUBSET Nat]
    BY <1>0, <1>7, <2>1, Steps0 DEF StartChunk, ProcTypes
  <2> QED
    BY <1>0, <1>7, <2>2, <2>3, <2>4, OneIsEnough DEF StartChunk, ProcTypes
<1>8. CASE SaveChunkLogs(p)
  <2>1. /\ pc'[p] = "populate" /\ defs' = defs /\ making' = making
        /\ pend'[p] = Applicable(p) /\ span' = span /\ Others(p)
    BY <1>0, <1>8 DEF SaveChunkLogs, ProcTypes, Others
  <2>2. PendFits(p)'
    BY <1>0, <1>8, <2>1, Steps0 DEF PendFits, Applicable, SaveChunkLogs, ProcTypes
  <2>3. /\ pc' \in [Procs -> AllSteps]
        /\ pend' \in [Procs -> SUBSET Tables]
    BY <1>0, <1>8, Steps0 DEF SaveChunkLogs, ProcTypes, Applicable
  <2> QED
    BY <1>0, <1>8, <2>1, <2>2, <2>3, OneIsEnough DEF SaveChunkLogs, ProcTypes
<1>9. CASE SaveChunkTxs(p) \/ SaveChunkBlocks(p)
  <2>1. /\ pc'[p] \in {"blocks", "ready"} /\ defs' = defs /\ making' = making
        /\ pend' = pend /\ Others(p)
    BY <1>0, <1>9 DEF SaveChunkTxs, SaveChunkBlocks, ProcTypes, Others
  <2>2. PendFits(p)'
    BY <1>0, <1>9, <2>1, Steps0 DEF PendFits, Applicable, SaveChunkTxs, SaveChunkBlocks, ProcTypes
  <2>3. /\ pc' \in [Procs -> AllSteps]
        /\ span' \in [Procs -> SUBSET Nat]
    BY <1>0, <1>9, Steps0 DEF SaveChunkTxs, SaveChunkBlocks, ProcTypes
  <2>4. UNCHANGED <<config, edits, purgeVars>>
    BY <1>9 DEF SaveChunkTxs, SaveChunkBlocks
  <2> QED
    BY <1>0, <2>1, <2>2, <2>3, <2>4, OneIsEnough DEF ProcTypes
<1>10. CASE BeginRebuild(p)
  <2>1. /\ pc'[p] = "drop" /\ defs'[p] = config /\ making' = making /\ span' = span
        /\ Others(p)
    BY <1>0, <1>10 DEF BeginRebuild, ProcTypes, Others
  <2>2. PendFits(p)'
    BY <1>0, <1>10, <2>1, Steps0 DEF PendFits, BeginRebuild, ProcTypes
  <2>3. /\ pc' \in [Procs -> AllSteps]
        /\ defs' \in [Procs -> [Tables -> MaybeDef]]
        /\ pend' \in [Procs -> SUBSET Tables]
    BY <1>0, <1>10, Steps0 DEF BeginRebuild, ProcTypes
  <2> QED
    BY <1>0, <1>10, <2>1, <2>2, <2>3, OneIsEnough DEF BeginRebuild, ProcTypes
<1> QED
  BY <1>1, <1>2, <1>3, <1>4, <1>5, <1>6, <1>7, <1>8, <1>9, <1>10
  DEF CommandStep, Sync, IndexChunk, Rebuild, Ends

\* Of the tables only t changes.
OnlyTable(t) ==
    \A u \in Tables \ {t} :
        /\ layout'[u] = layout[u] /\ stored'[u] = stored[u]
        /\ rows'[u] = rows[u] /\ amiss'[u] = amiss[u]

LEMMA Creates ==
    ASSUME DbTypeOK, TableTypes, NEW t \in Tables, NEW d \in Defs, CreateAndBackfill(t, d)
    PROVE  /\ TableTypes' /\ OnlyTable(t) /\ ~Exists(t)
           /\ layout'[t] = d /\ stored'[t] = d /\ rows'[t] = logs \X {d}
           /\ amiss'[t] = {}
<1>1. logs \X {d} \in SUBSET (Nat \X Defs)
  BY DEF DbTypeOK
<1> QED
  BY <1>1 DEF CreateAndBackfill, TableTypes, OnlyTable, MaybeDef

LEMMA Backfilled ==
    ASSUME NEW S, NEW d
    PROVE  {r[1] : r \in S \X {d}} = S
<1>1. ASSUME NEW b \in S PROVE b \in {r[1] : r \in S \X {d}}
  <2>1. <<b, d>> \in S \X {d}
    OBVIOUS
  <2> QED
    BY <2>1
<1> QED
  BY <1>1

LEMMA MakingFits ==
    ASSUME ProcTypes, NEW p \in Procs, pc[p] = "create"
    PROVE  \E t \in Tables : making[p] = {t} /\ t \in Applicable(p) /\ defs[p][t] \in Defs
BY DEF ProcTypes, PendFits, Applicable, MaybeDef

LEMMA PendApplies ==
    ASSUME ProcTypes, NEW p \in Procs, pc[p] \in {"sync", "populate", "recreate"}, NEW t \in pend[p]
    PROVE  t \in Tables /\ t \in Applicable(p) /\ defs[p][t] \in Defs
BY Steps0 DEF ProcTypes, PendFits, Applicable, MaybeDef

\* The steps that change tables, one at a time, and what they do.
LEMMA CreateStep ==
    ASSUME Types, NEW p \in Procs, SyncCreates(p)
    PROVE  \E t \in Tables :
            /\ making[p] = {t} /\ t \in Applicable(p) /\ defs[p][t] \in Defs
            /\ CreateAndBackfill(t, defs[p][t])
            /\ pc[p] = "create" /\ pc'[p] = "sync" /\ making'[p] = {}
            /\ UNCHANGED <<dbVars, config, defs, pend, span, purgeVars>>
<1>1. pc[p] = "create" /\ ProcTypes
  BY TypesParts DEF SyncCreates
<1>2. PICK t \in Tables : making[p] = {t} /\ t \in Applicable(p) /\ defs[p][t] \in Defs
  BY <1>1, MakingFits
<1> QED
  BY <1>1, <1>2 DEF SyncCreates, ProcTypes

LEMMA PopulateStep ==
    ASSUME Types, NEW p \in Procs, Populate(p)
    PROVE  \E t \in pend[p] :
            /\ t \in Tables /\ t \in Applicable(p) /\ defs[p][t] \in Defs
            /\ Exists(t) /\ Done(p, t) /\ OnlyTable(t)
            /\ rows'[t] = rows[t] \cup (((logs \cap span[p]) \ BlocksOf(t)) \X {defs[p][t]})
            /\ amiss'[t] = IF defs[p][t] = layout[t] THEN amiss[t] ELSE amiss[t] \cup span[p]
            /\ UNCHANGED <<dbVars, config, layout, stored, purgeVars>>
            /\ pc[p] = "populate" /\ TableTypes'
<1>1. pc[p] = "populate" /\ ProcTypes /\ TableTypes /\ DbTypeOK
  BY TypesParts DEF Populate
<1>2. PICK t \in pend[p] :
        /\ Insertable(t, defs[p][t]) /\ Done(p, t)
        /\ rows' = [rows EXCEPT ![t] =
                @ \cup (((logs \cap span[p]) \ BlocksOf(t)) \X {defs[p][t]})]
        /\ amiss' = [amiss EXCEPT ![t] =
                IF defs[p][t] = layout[t] THEN @ ELSE @ \cup span[p]]
  BY DEF Populate
<1>3. t \in Tables /\ t \in Applicable(p) /\ defs[p][t] \in Defs
  BY <1>1, PendApplies
<1>4. ((logs \cap span[p]) \ BlocksOf(t)) \X {defs[p][t]} \in SUBSET (Nat \X Defs)
  BY <1>1, <1>3 DEF DbTypeOK
<1>5. UNCHANGED <<dbVars, config, layout, stored, purgeVars>>
  BY DEF Populate
<1> QED
  BY <1>1, <1>2, <1>3, <1>4, <1>5 DEF TableTypes, OnlyTable, Insertable, ProcTypes

LEMMA DropStep ==
    ASSUME Types, NEW p \in Procs, DropTable(p)
    PROVE  \E t \in pend[p] :
            /\ t \in Tables /\ Done(p, t) /\ OnlyTable(t)
            /\ layout'[t] = NoDef /\ rows'[t] = {}
            /\ UNCHANGED <<dbVars, config, stored, purgeVars>>
            /\ pc[p] = "drop" /\ TableTypes'
<1>1. pc[p] = "drop" /\ ProcTypes /\ TableTypes
  BY TypesParts DEF DropTable
<1>2. PICK t \in pend[p] :
        /\ layout' = [layout EXCEPT ![t] = NoDef]
        /\ rows' = [rows EXCEPT ![t] = {}]
        /\ amiss' = [amiss EXCEPT ![t] = {}]
        /\ Done(p, t)
  BY DEF DropTable
<1>3. t \in Tables
  BY <1>1 DEF ProcTypes
<1>4. UNCHANGED <<dbVars, config, stored, purgeVars>>
  BY DEF DropTable
<1> QED
  BY <1>1, <1>2, <1>3, <1>4 DEF TableTypes, OnlyTable, MaybeDef

LEMMA RecreateStep ==
    ASSUME Types, NEW p \in Procs, Recreate(p)
    PROVE  \E t \in pend[p] :
            /\ t \in Tables /\ t \in Applicable(p) /\ defs[p][t] \in Defs
            /\ Done(p, t) /\ CreateAndBackfill(t, defs[p][t])
            /\ UNCHANGED <<dbVars, config, purgeVars>>
            /\ pc[p] = "recreate"
<1>1. pc[p] = "recreate" /\ ProcTypes
  BY TypesParts DEF Recreate
<1> QED
  BY <1>1, PendApplies DEF Recreate

\* What the other steps of a command do to the tables: ClearMeta forgets fingerprints,
\* and blocks that are flagged may be amiss.
LEMMA TablesStay ==
    ASSUME Types, NEW p \in Procs, CommandStep(p),
           ~SyncCreates(p), ~Populate(p), ~DropTable(p), ~Recreate(p)
    PROVE  /\ UNCHANGED <<layout, rows>>
           /\ stored' = IF ClearMeta(p) THEN Nothing ELSE stored
           /\ \/ amiss' = amiss
              \/ /\ SaveChunkBlocks(p)
                 /\ amiss' = [t \in Tables |-> IF Exists(t) /\ t \notin Applicable(p)
                                              THEN amiss[t] \cup span[p] ELSE amiss[t]]
<1>1. CASE ClearMeta(p)
  BY <1>1 DEF ClearMeta
<1>2. CASE ~ClearMeta(p)
  BY <1>2
  DEF CommandStep, Sync, IndexChunk, Rebuild, Begin, Exit, Stop, SyncMatches, SyncRefuses,
      SyncMissing, SyncClashes, SyncDone, StartChunk, SaveChunkLogs, PopulateFails, Populated,
      SaveChunkTxs, SaveChunkBlocks, BeginRebuild, RecreateClashes, RebuildEnd, tableVars
<1> QED
  BY <1>1, <1>2

LEMMA CommandTables ==
    ASSUME Types, NEW p \in Procs, CommandStep(p)
    PROVE  TableTypes'
<1>0. DbTypeOK /\ TableTypes
  BY TypesParts
<1>1. CASE SyncCreates(p)
  BY <1>0, <1>1, CreateStep, Creates
<1>2. CASE Recreate(p)
  BY <1>0, <1>2, RecreateStep, Creates
<1>3. CASE Populate(p)
  BY <1>3, PopulateStep
<1>4. CASE DropTable(p)
  BY <1>4, DropStep
<1>5. CASE ~SyncCreates(p) /\ ~Populate(p) /\ ~DropTable(p) /\ ~Recreate(p)
  <2>1. Nothing \in [Tables -> MaybeDef]
    BY DEF Nothing, MaybeDef
  <2>2. amiss' \in [Tables -> SUBSET Nat]
    BY <1>0, <1>5, TablesStay, TypesParts DEF TableTypes, ProcTypes
  <2> QED
    BY <1>0, <1>5, <2>1, <2>2, TablesStay DEF TableTypes
<1> QED
  BY <1>1, <1>2, <1>3, <1>4, <1>5

\* What the steps of a command do to blocks, logs and transactions.
LEMMA CommandSaves ==
    ASSUME Types, NEW p \in Procs, CommandStep(p)
    PROVE  /\ logs' = IF SaveChunkLogs(p) THEN logs \cup span[p] ELSE logs
           /\ txs' = IF SaveChunkTxs(p) THEN txs \cup span[p] ELSE txs
           /\ blocks' = IF SaveChunkBlocks(p) THEN blocks \cup span[p] ELSE blocks
<1>1. CASE SaveChunkLogs(p)
  BY <1>1 DEF SaveChunkLogs, SaveChunkTxs, SaveChunkBlocks, SaveLogs
<1>2. CASE SaveChunkTxs(p)
  BY <1>2 DEF SaveChunkLogs, SaveChunkTxs, SaveChunkBlocks, SaveTxs
<1>3. CASE SaveChunkBlocks(p)
  BY <1>3 DEF SaveChunkLogs, SaveChunkTxs, SaveChunkBlocks, SaveBlocks
<1>4. CASE ~SaveChunkLogs(p) /\ ~SaveChunkTxs(p) /\ ~SaveChunkBlocks(p)
  BY <1>4
  DEF CommandStep, Sync, IndexChunk, Rebuild, Begin, Exit, Stop, SyncMatches, SyncRefuses,
      SyncMissing, SyncCreates, SyncClashes, SyncDone, StartChunk, Populate, PopulateFails,
      Populated, BeginRebuild, DropTable, ClearMeta, Recreate, RecreateClashes, RebuildEnd, dbVars
<1> QED
  BY <1>1, <1>2, <1>3, <1>4

LEMMA CommandTypes ==
    ASSUME Types, NEW p \in Procs, CommandStep(p), mode' = mode
    PROVE  Types'
<1>1. DbTypeOK'
  BY CommandSaves, TypesParts DEF DbTypeOK, ProcTypes
<1>2. faults' \in Nat
  <2>1. faults' = faults \/ faults' = faults + 1
    BY DEF CommandStep, Sync, IndexChunk, Rebuild, Begin, Exit, Stop, Fault, SyncMatches,
           SyncRefuses, SyncMissing, SyncCreates, SyncClashes, SyncDone, StartChunk,
           SaveChunkLogs, Populate, PopulateFails, Populated, SaveChunkTxs, SaveChunkBlocks,
           BeginRebuild, DropTable, ClearMeta, Recreate, RecreateClashes, RebuildEnd
  <2> QED
    BY <2>1, TypesParts DEF OtherTypes
<1>3. OtherTypes' /\ PurgeTypes'
  BY <1>2, ProcStep, TypesParts DEF OtherTypes, PurgeTypes, purgeVars
<1>4. (DbTypeOK /\ ProcTypes /\ TableTypes /\ OtherTypes /\ PurgeTypes)' => Types'
  BY DEF Types, TypeOK, ProcTypes, TableTypes, OtherTypes, PurgeTypes, AllSteps
<1> QED
  BY <1>1, <1>3, <1>4, ProcStep, CommandTables

\* Edits and purges leave the commands alone.
LEMMA PurgeUpper ==
    ASSUME Types, PurgeSelect
    PROVE  upper' \in Nat
BY DEF PurgeSelect, Purgeable, IsChunkUpper, Types, TypeOK, DbTypeOK

LEMMA PurgeCutoff ==
    ASSUME Types, PurgeBegin
    PROVE  cutoff' \in Nat
<1>1. PICK k \in Keeps, m \in blocks : cutoff' = CutoffOf(m, k)
  BY DEF PurgeBegin
<1>2. k \in Nat /\ m \in Nat
  BY KeepsAssumption DEF Types, TypeOK, DbTypeOK
<1> QED
  BY <1>1, <1>2 DEF CutoffOf, SaturatingSub

LEMMA PurgeTypesKept ==
    ASSUME Types, Purge, mode' = mode
    PROVE  Types' /\ UNCHANGED <<config, layout, stored, procVars>>
<1>1. TypeOK
  BY DEF Types
<1>2. UNCHANGED <<config, layout, stored, procVars>>
  BY DEF Purge, PurgeBegin, PurgeSelect, PurgeDelete, PurgeEnd, PurgeFails, PurgeStops,
         PurgeOver, tableVars
<1>3. TypeOK'
  <2>1. CASE PurgeBegin
    BY <1>1, <2>1, PurgeCutoff
    DEF PurgeBegin, TypeOK, DbTypeOK, dbVars, tableVars, procVars
  <2>2. CASE PurgeSelect
    BY <1>1, <2>2, PurgeUpper DEF PurgeSelect, TypeOK, DbTypeOK, dbVars, tableVars, procVars
  <2>3. CASE PurgeDelete
    <3>1. rows' \in [Tables -> SUBSET (Nat \X Defs)]
      BY <1>1, <2>3 DEF PurgeDelete, RowsAfter, TypeOK
    <3>2. DbTypeOK' /\ amiss' \in [Tables -> SUBSET Nat]
      BY <1>1, <2>3 DEF PurgeDelete, DeleteThrough, TypeOK, DbTypeOK
    <3> QED
      BY <1>1, <2>3, <3>1, <3>2 DEF PurgeDelete, TypeOK, procVars
  <2>4. CASE PurgeEnd \/ PurgeFails \/ PurgeStops
    <3>1. PurgeOver /\ faults' \in {faults, faults + 1}
      BY <2>4 DEF PurgeEnd, PurgeFails, PurgeStops, Fault
    <3>2. faults' \in Nat
      BY <1>1, <3>1 DEF TypeOK
    <3> QED
      BY <1>1, <3>1, <3>2 DEF PurgeOver, TypeOK, DbTypeOK, dbVars, tableVars, procVars
  <2> QED
    BY <2>1, <2>2, <2>3, <2>4 DEF Purge
<1>4. \A p \in Procs : PendFits(p)'
  BY <1>2 DEF Types, PendFits, Applicable, procVars
<1> QED
  BY <1>2, <1>3, <1>4 DEF Types

LEMMA EditTypes ==
    ASSUME Types, EditConfig, mode' = mode
    PROVE  Types'
<1>1. TypeOK'
  BY DEF Types, TypeOK, EditConfig, DbTypeOK, dbVars, tableVars, procVars, purgeVars
<1>2. \A p \in Procs : PendFits(p)'
  BY DEF Types, PendFits, Applicable, EditConfig, procVars
<1> QED
  BY <1>1, <1>2 DEF Types

LEMMA StutterTypes ==
    ASSUME Types, UNCHANGED vars
    PROVE  Types'
<1>1. TypeOK'
  BY DEF Types, TypeOK, DbTypeOK, vars
<1>2. \A p \in Procs : PendFits(p)'
  BY DEF Types, PendFits, Applicable, vars
<1> QED
  BY <1>1, <1>2 DEF Types

\* The steps of Next, as the proofs below go through them.
LEMMA NextSteps ==
    ASSUME Next
    PROVE  /\ mode' = mode
           /\ (\E p \in Procs : CommandStep(p)) \/ EditConfig \/ Purge
BY DEF Next, CommandStep

LEMMA TypesNext == Types /\ [Next]_vars => Types'
BY NextSteps, CommandTypes, EditTypes, PurgeTypesKept, StutterTypes

\* The variables keep to their types, and a loop to the tables it has definitions for.
THEOREM TypesAlways == Spec => []TypeOK
<1>1. Types => TypeOK
  BY DEF Types
<1> QED
  BY <1>1, TypesInit, TypesNext, PTL DEF Spec

-----------------------------------------------------------------------------
(* A flagged block is complete, whatever overlaps.                          *)

\* What was saved of a block before it was flagged is there.
FlaggedComplete == \A b \in blocks : Complete(b)

\* The rows of the chunk that p is past saving are there.
SavedInOrder(p) ==
    /\ pc[p] \in {"populate", "txs", "blocks"} => span[p] \subseteq logs
    /\ pc[p] = "blocks" => span[p] \subseteq txs

\* Nothing is indexed while a purge runs, so that what was saved for the chunk of a
\* command stays until the chunk is flagged.
FlagInv ==
    /\ FlaggedComplete
    /\ ppc # "idle" => \A p \in Procs : pc[p] \in {"idle"} \cup RebuildSteps
    /\ \A p \in Procs : SavedInOrder(p)

LEMMA FlagInit == Init => FlagInv
BY DEF Init, DbInit, FlagInv, FlaggedComplete, SavedInOrder

\* Where a step of p takes it.
LEMMA Advances ==
    ASSUME Types, NEW p \in Procs, CommandStep(p)
    PROVE  /\ pc'[p] = "populate" =>
                \/ SaveChunkLogs(p) /\ span'[p] = span[p]
                \/ pc[p] = "populate" /\ span'[p] = span[p]
           /\ pc'[p] = "txs" => pc[p] = "populate" /\ span'[p] = span[p]
           /\ pc'[p] = "blocks" => pc[p] = "txs" /\ SaveChunkTxs(p) /\ span'[p] = span[p]
           /\ pc'[p] \notin {"idle"} \cup RebuildSteps /\ ppc # "idle"
                => pc[p] \notin {"idle"} \cup RebuildSteps
<1>0. ProcTypes
  BY TypesParts
<1>1. CASE Begin(p) \/ BeginRebuild(p)
  BY <1>0, <1>1, Steps0 DEF Begin, BeginRebuild, ProcTypes
<1>2. CASE Ends(p)
  BY <1>0, <1>2, EndsOnly, Quits
<1>3. CASE SyncMatches(p) \/ Populate(p) \/ DropTable(p) \/ Recreate(p)
  BY <1>0, <1>3, Steps0 DEF SyncMatches, Populate, DropTable, Recreate, Done
<1>4. CASE SyncMissing(p) \/ SyncCreates(p) \/ SyncDone(p) \/ ClearMeta(p)
  BY <1>0, <1>4, Steps0
  DEF SyncMissing, SyncCreates, SyncDone, ClearMeta, LoopTo, ProcTypes
<1>5. CASE StartChunk(p) \/ SaveChunkBlocks(p)
  BY <1>0, <1>5, Steps0 DEF StartChunk, SaveChunkBlocks, ProcTypes
<1>6. CASE SaveChunkLogs(p) \/ Populated(p) \/ SaveChunkTxs(p)
  BY <1>0, <1>6, Steps0 DEF SaveChunkLogs, Populated, SaveChunkTxs, LoopTo, ProcTypes
<1> QED
  BY <1>1, <1>2, <1>3, <1>4, <1>5, <1>6 DEF CommandStep, Sync, IndexChunk, Rebuild, Ends

LEMMA FlagCommand ==
    ASSUME Types, FlagInv, NEW p \in Procs, CommandStep(p)
    PROVE  FlagInv'
<1>0. ProcTypes
  BY TypesParts
<1>1. Others(p) /\ ppc' = ppc
  BY ProcStep DEF purgeVars
<1>2. logs \subseteq logs' /\ txs \subseteq txs'
  BY CommandSaves
<1>3. SaveChunkLogs(p) => span[p] \subseteq logs'
  BY CommandSaves
<1>4. SaveChunkTxs(p) => span[p] \subseteq txs'
  BY CommandSaves
<1>5. SavedInOrder(p)'
  BY <1>2, <1>3, <1>4, Advances DEF FlagInv, SavedInOrder
<1>6. ASSUME NEW q \in Procs \ {p} PROVE SavedInOrder(q)'
  BY <1>1, <1>2 DEF FlagInv, SavedInOrder, Others
<1>7. FlaggedComplete'
  <2>1. CASE SaveChunkBlocks(p)
    <3>1. pc[p] = "blocks" /\ blocks' = blocks \cup span[p]
      BY <2>1, CommandSaves DEF SaveChunkBlocks
    <3>2. span[p] \subseteq logs /\ span[p] \subseteq txs
      BY <3>1 DEF FlagInv, SavedInOrder
    <3> QED
      BY <3>1, <3>2, <1>2 DEF FlagInv, FlaggedComplete, Complete
  <2>2. CASE ~SaveChunkBlocks(p)
    BY <2>2, <1>2, CommandSaves DEF FlagInv, FlaggedComplete, Complete
  <2> QED
    BY <2>1, <2>2
<1>8. ppc' # "idle" => \A q \in Procs : pc'[q] \in {"idle"} \cup RebuildSteps
  BY <1>1, Advances DEF FlagInv, Others
<1> QED
  BY <1>5, <1>6, <1>7, <1>8 DEF FlagInv

LEMMA FlagPurge ==
    ASSUME Types, FlagInv, Purge, mode' = mode
    PROVE  FlagInv'
<1>1. pc' = pc /\ span' = span
  BY PurgeTypesKept DEF procVars
<1>2. CASE PurgeDelete
  <2>1. FlaggedComplete'
    BY <1>2 DEF PurgeDelete, DeleteThrough, AtMost, FlagInv, FlaggedComplete, Complete
  <2>2. \A p \in Procs : pc[p] \in {"idle"} \cup RebuildSteps
    BY <1>2 DEF PurgeDelete, FlagInv
  <2> QED
    BY <1>1, <2>1, <2>2, Steps0 DEF FlagInv, SavedInOrder
<1>3. CASE ~PurgeDelete
  <2>1. UNCHANGED dbVars
    BY <1>3 DEF Purge, PurgeBegin, PurgeSelect, PurgeEnd, PurgeFails, PurgeStops, PurgeOver
  <2>2. ppc' # "idle" => \A p \in Procs : pc[p] \in {"idle"} \cup RebuildSteps
    BY <1>3 DEF Purge, PurgeBegin, PurgeSelect, PurgeEnd, PurgeFails, PurgeStops, PurgeOver,
                FlagInv
  <2> QED
    BY <1>1, <2>1, <2>2 DEF dbVars, FlagInv, FlaggedComplete, Complete, SavedInOrder
<1> QED
  BY <1>2, <1>3

LEMMA FlagNext == Types /\ FlagInv /\ [Next]_vars => FlagInv'
<1> SUFFICES ASSUME Types, FlagInv, [Next]_vars PROVE FlagInv'
  OBVIOUS
<1>1. CASE EditConfig \/ UNCHANGED vars
  BY <1>1
  DEF EditConfig, vars, dbVars, procVars, purgeVars, FlagInv, FlaggedComplete, Complete,
      SavedInOrder
<1> QED
  BY <1>1, NextSteps, FlagCommand, FlagPurge

-----------------------------------------------------------------------------
(* The rows of indexed blocks, whatever overlaps.                           *)

\* The rows of a table are of its own definition, and indexed blocks have one, but for
\* what is amiss.
RowsFit(t) ==
    Exists(t) =>
        /\ \A r \in rows[t] : r[2] = layout[t] \/ r[1] \in amiss[t]
        /\ blocks \subseteq BlocksOf(t) \cup amiss[t]

\* The chunk of p has its rows in the tables p has gone through.
Filled(p) ==
    pc[p] \in {"populate", "txs", "blocks"} =>
        \A t \in Applicable(p) :
            \/ ~Exists(t)
            \/ pc[p] = "populate" /\ t \in pend[p]
            \/ span[p] \subseteq BlocksOf(t)

AmissInv ==
    /\ \A t \in Tables : RowsFit(t)
    /\ \A p \in Procs : Filled(p)

LEMMA AmissInit == Init => AmissInv
BY DEF Init, DbInit, AmissInv, RowsFit, Filled, Exists, Nothing

\* What a step does to one table: it is made anew, it goes, or it only gains rows.
MadeAnew(t) == BlocksOf(t)' = logs /\ \A r \in rows'[t] : r[2] = layout'[t]
Gains(t) ==
    /\ Exists(t) /\ layout'[t] = layout[t]
    /\ rows[t] \subseteq rows'[t] /\ amiss[t] \subseteq amiss'[t]
    /\ \A r \in rows'[t] : r \in rows[t] \/ r[2] = layout[t] \/ r[1] \in amiss'[t]

LEMMA TableChanges ==
    ASSUME Types, NEW p \in Procs, CommandStep(p), NEW t \in Tables
    PROVE  ~Exists(t)' \/ Gains(t) \/ (MadeAnew(t) /\ UNCHANGED dbVars)
<1>0. DbTypeOK /\ TableTypes
  BY TypesParts
<1>1. ASSUME NEW u \in Tables, NEW d \in Defs, CreateAndBackfill(u, d), UNCHANGED dbVars
      PROVE  ~Exists(t)' \/ Gains(t) \/ (MadeAnew(t) /\ UNCHANGED dbVars)
  <2>1. OnlyTable(u) /\ layout'[u] = d /\ rows'[u] = logs \X {d}
    BY <1>0, <1>1, Creates
  <2>2. CASE t = u
    <3>1. BlocksOf(t)' = logs
      BY <2>1, <2>2, Backfilled DEF BlocksOf
    <3> QED
      BY <1>1, <2>1, <2>2, <3>1 DEF MadeAnew
  <2>3. CASE t # u
    BY <2>1, <2>3 DEF OnlyTable, Gains, Exists
  <2> QED
    BY <2>2, <2>3
<1>2. CASE SyncCreates(p)
  BY <1>1, <1>2, CreateStep
<1>3. CASE Recreate(p)
  BY <1>1, <1>3, RecreateStep
<1>4. CASE Populate(p)
  <2>1. PICK u \in pend[p] :
          /\ u \in Tables /\ Exists(u) /\ OnlyTable(u)
          /\ rows'[u] = rows[u] \cup (((logs \cap span[p]) \ BlocksOf(u)) \X {defs[p][u]})
          /\ amiss'[u] = IF defs[p][u] = layout[u] THEN amiss[u] ELSE amiss[u] \cup span[p]
          /\ layout' = layout
    BY <1>4, PopulateStep
  <2>2. CASE t # u
    BY <2>1, <2>2 DEF OnlyTable, Gains, Exists
  <2>3. CASE t = u
    <3>1. ASSUME NEW r \in rows'[t], r \notin rows[t]
          PROVE  r[2] = layout[t] \/ r[1] \in amiss'[t]
      BY <2>1, <2>3, <3>1
    <3>2. rows[t] \subseteq rows'[t] /\ amiss[t] \subseteq amiss'[t]
      BY <2>1, <2>3
    <3> QED
      BY <2>1, <2>3, <3>1, <3>2 DEF Gains
  <2> QED
    BY <2>2, <2>3
<1>5. CASE DropTable(p)
  <2>1. PICK u \in Tables : OnlyTable(u) /\ layout'[u] = NoDef
    BY <1>5, DropStep
  <2> QED
    BY <2>1 DEF OnlyTable, Gains, Exists
<1>6. CASE ~SyncCreates(p) /\ ~Populate(p) /\ ~DropTable(p) /\ ~Recreate(p)
  <2>1. layout' = layout /\ rows' = rows /\ amiss[t] \subseteq amiss'[t]
    BY <1>6, TablesStay
  <2> QED
    BY <2>1 DEF Gains, Exists
<1> QED
  BY <1>2, <1>3, <1>4, <1>5, <1>6

LEMMA GainsBlocks ==
    ASSUME NEW t, Gains(t)
    PROVE  BlocksOf(t) \subseteq BlocksOf(t)'
BY DEF Gains, BlocksOf

\* What is filled stays so while the rest of the command goes on.
LEMMA StaysFilled ==
    ASSUME Types, FlagInv, NEW p \in Procs, CommandStep(p), NEW t \in Tables, NEW q \in Procs,
           pc[q] \in {"populate", "txs", "blocks"}, Exists(t) => span[q] \subseteq BlocksOf(t),
           Exists(t)'
    PROVE  span[q] \subseteq BlocksOf(t)'
<1>1. span[q] \subseteq logs
  BY DEF FlagInv, SavedInOrder
<1> QED
  BY <1>1, TableChanges, GainsBlocks DEF MadeAnew, Gains

LEMMA OthersFilled ==
    ASSUME Types, FlagInv, AmissInv, NEW p \in Procs, CommandStep(p), NEW q \in Procs \ {p}
    PROVE  Filled(q)'
<1>1. /\ pc'[q] = pc[q] /\ pend'[q] = pend[q] /\ span'[q] = span[q]
      /\ Applicable(q)' = Applicable(q)
  BY ProcStep DEF Others, Applicable
<1> SUFFICES ASSUME pc[q] \in {"populate", "txs", "blocks"}, NEW t \in Applicable(q),
                    Exists(t)', ~(pc[q] = "populate" /\ t \in pend[q])
             PROVE  span[q] \subseteq BlocksOf(t)'
  BY <1>1 DEF Filled
<1>2. t \in Tables
  BY DEF Applicable
<1>3. Exists(t) => span[q] \subseteq BlocksOf(t)
  BY DEF AmissInv, Filled
<1> QED
  BY <1>2, <1>3, StaysFilled

LEMMA OwnFilled ==
    ASSUME Types, FlagInv, AmissInv, NEW p \in Procs, CommandStep(p)
    PROVE  Filled(p)'
<1>0. ProcTypes
  BY TypesParts
<1> SUFFICES ASSUME pc'[p] \in {"populate", "txs", "blocks"}, NEW t \in Applicable(p)',
                    Exists(t)', ~(pc'[p] = "populate" /\ t \in pend'[p])
             PROVE  span'[p] \subseteq BlocksOf(t)'
  BY DEF Filled
<1>1. CASE SaveChunkLogs(p)
  <2>1. pend'[p] = Applicable(p) /\ defs' = defs /\ pc'[p] = "populate"
    BY <1>0, <1>1 DEF SaveChunkLogs, ProcTypes
  <2> QED
    BY <2>1 DEF Applicable
<1>2. CASE ~SaveChunkLogs(p)
  <2>1. pc[p] \in {"populate", "txs"} /\ span'[p] = span[p]
    BY <1>2, Advances
  <2>2. defs' = defs /\ t \in Tables /\ t \in Applicable(p)
    <3>1. defs' = defs
      BY <1>0, <1>2, <2>1, Steps0
      DEF CommandStep, Sync, IndexChunk, Rebuild, Begin, Exit, Stop, SyncMatches, SyncRefuses,
          SyncMissing, SyncCreates, SyncClashes, SyncDone, StartChunk, Populate, PopulateFails,
          Populated, SaveChunkTxs, SaveChunkBlocks, BeginRebuild, DropTable, ClearMeta, Recreate,
          RecreateClashes, RebuildEnd, Quit, Done, LoopTo, ProcTypes
    <3> QED
      BY <3>1 DEF Applicable
  <2>3. CASE Populate(p)
    <3>1. PICK u \in pend[p] :
            /\ u \in Tables /\ Exists(u) /\ Done(p, u)
            /\ rows'[u] = rows[u] \cup (((logs \cap span[p]) \ BlocksOf(u)) \X {defs[p][u]})
            /\ pc[p] = "populate"
      BY <2>3, PopulateStep
    <3>2. span[p] \subseteq logs
      BY <3>1 DEF FlagInv, SavedInOrder
    <3>3. CASE t = u
      <4>1. ASSUME NEW b \in span[p] PROVE b \in BlocksOf(u)'
        <5>1. CASE b \in BlocksOf(u)
          BY <3>1, <5>1 DEF BlocksOf
        <5>2. CASE b \notin BlocksOf(u)
          <6>1. <<b, defs[p][u]>> \in rows'[u]
            BY <3>1, <3>2, <4>1, <5>2
          <6> QED
            BY <6>1 DEF BlocksOf
        <5> QED
          BY <5>1, <5>2
      <4> QED
        BY <2>1, <3>3, <4>1
    <3>4. CASE t # u
      <4>1. t \notin pend[p]
        BY <1>0, <3>1, <3>4 DEF Done, ProcTypes
      <4>2. Exists(t) => span[p] \subseteq BlocksOf(t)
        BY <2>2, <3>1, <4>1 DEF AmissInv, Filled
      <4> QED
        BY <2>1, <2>2, <4>2, StaysFilled
    <3> QED
      BY <3>3, <3>4
  <2>4. CASE ~Populate(p)
    <3>1. ~(pc[p] = "populate" /\ t \in pend[p])
      BY <1>0, <2>1, <2>4, <1>2, Steps0
      DEF CommandStep, Sync, IndexChunk, Rebuild, Begin, Exit, Stop, SyncMatches, SyncRefuses,
          SyncMissing, SyncCreates, SyncClashes, SyncDone, StartChunk, PopulateFails,
          Populated, SaveChunkTxs, SaveChunkBlocks, BeginRebuild, DropTable, ClearMeta, Recreate,
          RecreateClashes, RebuildEnd, Quit, Done, LoopTo, ProcTypes
    <3>2. Exists(t) => span[p] \subseteq BlocksOf(t)
      BY <2>1, <2>2, <3>1 DEF AmissInv, Filled
    <3> QED
      BY <2>1, <2>2, <3>2, StaysFilled
  <2> QED
    BY <2>3, <2>4
<1> QED
  BY <1>1, <1>2

LEMMA RowsStayFit ==
    ASSUME Types, FlagInv, AmissInv, NEW p \in Procs, CommandStep(p), NEW t \in Tables
    PROVE  RowsFit(t)'
<1> SUFFICES ASSUME Exists(t)' PROVE RowsFit(t)'
  BY DEF RowsFit
<1>1. CASE MadeAnew(t) /\ UNCHANGED dbVars
  <2>1. blocks \subseteq logs
    BY DEF FlagInv, FlaggedComplete, Complete
  <2> QED
    BY <1>1, <2>1 DEF MadeAnew, RowsFit, dbVars
<1>2. CASE Gains(t)
  <2>1. \A r \in rows'[t] : r[2] = layout'[t] \/ r[1] \in amiss'[t]
    BY <1>2 DEF Gains, AmissInv, RowsFit
  <2>2. BlocksOf(t) \subseteq BlocksOf(t)' /\ amiss[t] \subseteq amiss'[t] /\ Exists(t)
    BY <1>2, GainsBlocks DEF Gains
  <2>3. blocks \subseteq BlocksOf(t)' \cup amiss'[t]
    BY <2>2 DEF AmissInv, RowsFit
  <2>4. SaveChunkBlocks(p) => span[p] \subseteq BlocksOf(t)' \cup amiss'[t]
    <3> SUFFICES ASSUME SaveChunkBlocks(p) PROVE span[p] \subseteq BlocksOf(t)' \cup amiss'[t]
      OBVIOUS
    <3>1. CASE t \in Applicable(p)
      BY <2>2, <3>1 DEF SaveChunkBlocks, AmissInv, Filled
    <3>2. CASE t \notin Applicable(p)
      BY <2>2, <3>2 DEF SaveChunkBlocks
    <3> QED
      BY <3>1, <3>2
  <2>5. blocks' = IF SaveChunkBlocks(p) THEN blocks \cup span[p] ELSE blocks
    BY CommandSaves
  <2> QED
    BY <2>1, <2>3, <2>4, <2>5 DEF RowsFit
<1> QED
  BY <1>1, <1>2, TableChanges

LEMMA AmissPurge ==
    ASSUME Types, FlagInv, AmissInv, Purge, mode' = mode
    PROVE  AmissInv'
<1>0. UNCHANGED <<layout, pc, defs, pend, span>>
  BY PurgeTypesKept DEF procVars
<1>1. CASE PurgeDelete
  <2>1. \A p \in Procs : Filled(p)'
    BY <1>0, <1>1, Steps0 DEF PurgeDelete, FlagInv, Filled
  <2>2. upper \in Nat /\ DbTypeOK
    BY TypesParts DEF PurgeTypes
  <2>3. \A b \in blocks' : b \in blocks /\ b > upper
    <3>1. blocks' = blocks \ {b \in blocks : b <= upper}
      BY <1>1 DEF PurgeDelete, DeleteThrough, AtMost
    <3> QED
      BY <2>2, <3>1 DEF DbTypeOK
  <2>4. ASSUME NEW t \in Tables, Exists(t)' PROVE RowsFit(t)'
    <3>1. /\ rows'[t] = {r \in rows[t] : t \in names => r[1] > upper}
          /\ amiss'[t] = {b \in amiss[t] : t \in names => b > upper}
      BY <1>1 DEF PurgeDelete, RowsAfter
    <3>2. /\ \A r \in rows[t] : r[2] = layout[t] \/ r[1] \in amiss[t]
          /\ blocks \subseteq BlocksOf(t) \cup amiss[t]
      BY <1>0, <2>4 DEF AmissInv, RowsFit, Exists
    <3>3. \A r \in rows'[t] : r[2] = layout'[t] \/ r[1] \in amiss'[t]
      BY <1>0, <3>1, <3>2
    <3>4. blocks' \subseteq BlocksOf(t)' \cup amiss'[t]
      BY <2>3, <3>1, <3>2 DEF BlocksOf
    <3> QED
      BY <3>3, <3>4 DEF RowsFit
  <2>5. \A t \in Tables : RowsFit(t)'
    BY <2>4 DEF RowsFit
  <2> QED
    BY <2>1, <2>5 DEF AmissInv
<1>2. CASE ~PurgeDelete
  <2>1. UNCHANGED <<blocks, rows, amiss>>
    BY <1>2 DEF Purge, PurgeBegin, PurgeSelect, PurgeEnd, PurgeFails, PurgeStops, PurgeOver,
                dbVars, tableVars
  <2> QED
    BY <1>0, <2>1 DEF AmissInv, RowsFit, Filled, Exists, BlocksOf, Applicable
<1> QED
  BY <1>1, <1>2

LEMMA AmissNext == Types /\ FlagInv /\ AmissInv /\ [Next]_vars => AmissInv'
<1> SUFFICES ASSUME Types, FlagInv, AmissInv, [Next]_vars PROVE AmissInv'
  OBVIOUS
<1>1. CASE EditConfig \/ UNCHANGED vars
  <2>1. UNCHANGED <<blocks, layout, rows, amiss, pc, defs, pend, span>>
    BY <1>1 DEF EditConfig, vars, dbVars, tableVars, procVars
  <2> QED
    BY <2>1 DEF AmissInv, RowsFit, Filled, Exists, BlocksOf, Applicable
<1>2. ASSUME NEW p \in Procs, CommandStep(p) PROVE AmissInv'
  BY <1>2, OthersFilled, OwnFilled, RowsStayFit DEF AmissInv
<1> QED
  BY <1>1, <1>2, NextSteps, AmissPurge

LEMMA AmissIsStale == Types /\ AmissInv => OnlyStaleIsAmiss
<1> SUFFICES ASSUME Types, AmissInv, NEW t \in Tables, Exists(t), NEW b \in blocks \ amiss[t]
             PROVE  {r \in rows[t] : r[1] = b} = {<<b, layout[t]>>}
  BY DEF OnlyStaleIsAmiss
<1>1. rows[t] \in SUBSET (Nat \X Defs)
  BY TypesParts DEF TableTypes
<1>2. b \in BlocksOf(t)
  BY DEF AmissInv, RowsFit
<1>3. PICK r \in rows[t] : r[1] = b
  BY <1>2 DEF BlocksOf
<1>4. \A s \in rows[t] : s[1] = b => s = <<b, layout[t]>>
  BY <1>1 DEF AmissInv, RowsFit
<1> QED
  BY <1>3, <1>4

\* Under edits, rebuilds, purges, kills and failures at any time, and for any number of
\* commands, an indexed block has its row in each table there is, decoded by the
\* definition of the table, unless a command that had read another one has saved it.
THEOREM RowsAlwaysThere == Spec => []OnlyStaleIsAmiss
BY TypesInit, TypesNext, FlagInit, FlagNext, AmissInit, AmissNext, AmissIsStale, PTL DEF Spec

-----------------------------------------------------------------------------
(* The tables, while the config is edited and rebuilt only between commands. *)

\* A table that exists has the fingerprint it was created with and rows of that
\* definition only, all of logs that are there; if the user keeps it in the config, it
\* has the rows of every flagged block.
TableFits(t) ==
    /\ ~Exists(t) => rows[t] = {}
    /\ Exists(t) => stored[t] = layout[t]
    /\ \A r \in rows[t] : r[2] = layout[t]
    /\ BlocksOf(t) \subseteq logs
    /\ Exists(t) /\ t \notin Removable => config[t] # NoDef /\ blocks \subseteq BlocksOf(t)

Made(p, t) == layout[t] = defs[p][t] /\ stored[t] = defs[p][t]

\* The tables that p has accepted or created so far.
Fine(p) ==
    {t \in Applicable(p) :
        \/ pc[p] \in IndexSteps
        \/ pc[p] \in SyncSteps \cup {"recreate"} /\ t \notin pend[p] \cup making[p]}

CommandFits(p) ==
    /\ pc[p] # "idle" => defs[p] = config
    /\ \A t \in Fine(p) : Made(p, t)
    /\ pc[p] = "populate" =>
        \A t \in Applicable(p) : t \in pend[p] \/ span[p] \subseteq BlocksOf(t)
    /\ pc[p] \in {"txs", "blocks"} => \A t \in Applicable(p) : span[p] \subseteq BlocksOf(t)

RebuildFits(p) ==
    /\ pc[p] \in RebuildSteps => Alone(p)
    /\ pc[p] = "drop" => \A t \in Tables : Exists(t) => t \in pend[p]
    /\ pc[p] = "recreate" => \A t \in Tables :
        IF t \in Fine(p) THEN BlocksOf(t) = logs ELSE stored[t] = NoDef /\ ~Exists(t)

PurgeFits ==
    ppc # "idle" => /\ \A p \in Procs : pc[p] = "idle"
                    /\ names = {t \in Tables : Exists(t)}

OfflineInv ==
    /\ PurgeFits
    /\ \A t \in Tables : TableFits(t)
    /\ \A p \in Procs : CommandFits(p) /\ RebuildFits(p)

TablesInv == FlagInv /\ (Online = {} => OfflineInv)

LEMMA TablesInit == Init => TablesInv
BY FlagInit
DEF Init, DbInit, TablesInv, OfflineInv, PurgeFits, TableFits, CommandFits, RebuildFits, Fine,
    Applicable, Exists, BlocksOf, Nothing, RebuildSteps, IndexSteps, SyncSteps

\* Who may step: a rebuild is alone, and so is a purge.
LEMMA OnlyBeginsAreIdle ==
    ASSUME NEW p \in Procs, CommandStep(p), pc[p] = "idle"
    PROVE  Begin(p) \/ BeginRebuild(p)
BY DEF CommandStep, Sync, IndexChunk, Rebuild, Begin, Exit, Stop, SyncMatches, SyncRefuses,
       SyncMissing, SyncCreates, SyncClashes, SyncDone, StartChunk, SaveChunkLogs, Populate,
       PopulateFails, Populated, SaveChunkTxs, SaveChunkBlocks, DropTable, ClearMeta,
       Recreate, RecreateClashes, RebuildEnd

LEMMA Alones ==
    ASSUME Types, OfflineInv, Online = {}, NEW p \in Procs, CommandStep(p)
    PROVE  /\ ppc = "idle"
           /\ \A q \in Procs \ {p} : pc[q] \notin RebuildSteps
           /\ pc[p] \in RebuildSteps \/ BeginRebuild(p) => Alone(p)
<1>1. ASSUME pc[p] = "idle"
      PROVE  ppc = "idle" /\ \A q \in Procs \ {p} : pc[q] \notin RebuildSteps
  <2>1. CASE Begin(p)
    BY <2>1 DEF Begin, Rebuilding
  <2>2. CASE BeginRebuild(p)
    BY <2>2, Steps0 DEF BeginRebuild, Alone
  <2> QED
    BY <1>1, <2>1, <2>2, OnlyBeginsAreIdle
<1>2. ASSUME pc[p] # "idle"
      PROVE  ppc = "idle" /\ \A q \in Procs \ {p} : pc[q] \notin RebuildSteps
  BY <1>2 DEF OfflineInv, PurgeFits, RebuildFits, Alone
<1>3. BeginRebuild(p) => Alone(p)
  BY DEF BeginRebuild
<1> QED
  BY <1>1, <1>2, <1>3 DEF OfflineInv, RebuildFits

\* Only a rebuild takes anything from a table.
LEMMA Grows ==
    ASSUME Types, NEW p \in Procs, CommandStep(p), pc[p] \notin RebuildSteps,
           NEW t \in Tables, Exists(t)
    PROVE  layout'[t] = layout[t] /\ stored'[t] = stored[t] /\ BlocksOf(t) \subseteq BlocksOf(t)'
<1>0. DbTypeOK /\ TableTypes
  BY TypesParts
<1>1. CASE SyncCreates(p)
  <2>1. PICK u \in Tables : defs[p][u] \in Defs /\ CreateAndBackfill(u, defs[p][u])
    BY <1>1, CreateStep
  <2>2. OnlyTable(u) /\ ~Exists(u)
    BY <1>0, <2>1, Creates
  <2> QED
    BY <2>2 DEF OnlyTable, BlocksOf
<1>2. CASE Populate(p)
  <2>1. PICK u \in Tables :
            /\ OnlyTable(u) /\ UNCHANGED <<layout, stored>>
            /\ rows'[u] = rows[u] \cup (((logs \cap span[p]) \ BlocksOf(u)) \X {defs[p][u]})
    BY <1>2, PopulateStep
  <2>2. rows[t] \subseteq rows'[t]
    BY <2>1 DEF OnlyTable
  <2> QED
    BY <2>1, <2>2 DEF BlocksOf
<1>3. CASE ~SyncCreates(p) /\ ~Populate(p)
  <2>1. ~DropTable(p) /\ ~Recreate(p) /\ ~ClearMeta(p)
    BY Steps0 DEF DropTable, Recreate, ClearMeta
  <2>2. UNCHANGED <<layout, rows, stored>>
    BY <1>3, <2>1, TablesStay
  <2> QED
    BY <2>2 DEF BlocksOf
<1> QED
  BY <1>1, <1>2, <1>3

\* What a step of p leaves of the others.
LEMMA OthersFit ==
    ASSUME Types, OfflineInv, Online = {}, NEW p \in Procs, CommandStep(p),
           NEW q \in Procs \ {p}
    PROVE  CommandFits(q)' /\ RebuildFits(q)'
<1>1. /\ pc'[q] = pc[q] /\ defs'[q] = defs[q] /\ pend'[q] = pend[q]
      /\ making'[q] = making[q] /\ span'[q] = span[q] /\ config' = config
  BY ProcStep DEF Others
<1>2. pc[q] \notin RebuildSteps
  BY Alones
<1>3. RebuildFits(q)'
  BY <1>1, <1>2, Steps0 DEF RebuildFits
<1>4. Applicable(q)' = Applicable(q)
  BY <1>1 DEF Applicable
<1>5. Fine(q)' = Fine(q)
  BY <1>1, <1>4 DEF Fine
<1>6. CommandFits(q)
  BY DEF OfflineInv
<1>7. CASE pc[q] = "idle"
  <2>1. Fine(q) = {}
    BY <1>7, Steps0 DEF Fine
  <2> QED
    BY <1>1, <1>3, <1>5, <1>7, <2>1 DEF CommandFits
<1>8. CASE pc[q] # "idle"
  <2>1. pc[p] \notin RebuildSteps
    BY <1>8, Alones DEF Alone
  <2>2. ASSUME NEW t \in Fine(q)
        PROVE  t \in Tables /\ Exists(t)
    BY <1>6 DEF CommandFits, Made, Fine, Applicable, Exists
  <2>3. ASSUME NEW t \in Fine(q)
        PROVE  Made(q, t)' /\ BlocksOf(t) \subseteq BlocksOf(t)'
    BY <1>1, <1>6, <2>1, <2>2, Grows DEF CommandFits, Made
  <2>4. pc[q] \in IndexSteps => Fine(q) = Applicable(q)
    BY DEF Fine
  <2>5. /\ pc[q] = "populate" =>
            \A t \in Applicable(q) : t \in pend[q] \/ span[q] \subseteq BlocksOf(t)'
        /\ pc[q] \in {"txs", "blocks"} =>
            \A t \in Applicable(q) : span[q] \subseteq BlocksOf(t)'
    BY <1>6, <2>3, <2>4, Steps0 DEF CommandFits
  <2> QED
    BY <1>1, <1>3, <1>4, <1>5, <1>6, <2>3, <2>5 DEF CommandFits
<1> QED
  BY <1>3, <1>7, <1>8

\* What a step of p leaves of its own part, the steps of sync first.
LEMMA SyncFits ==
    ASSUME Types, OfflineInv, NEW p \in Procs, Sync(p)
    PROVE  CommandFits(p)'
<1>0. /\ ProcTypes /\ TableTypes /\ DbTypeOK /\ CommandFits(p)
      /\ CommandStep(p) /\ \A t \in Tables : TableFits(t)
  BY TypesParts DEF OfflineInv, CommandStep
<1>1. config' = config
  BY <1>0, ProcStep
<1>2. CASE SyncRefuses(p) \/ SyncClashes(p)
  <2>1. pc'[p] = "idle"
    BY <1>0, <1>2, EndsOnly, Quits DEF Ends
  <2>2. Fine(p)' = {}
    BY <2>1, Steps0 DEF Fine
  <2> QED
    BY <2>1, <2>2 DEF CommandFits
<1>3. CASE SyncMatches(p)
  <2>1. PICK t \in pend[p] : Exists(t) /\ stored[t] = defs[p][t] /\ Done(p, t)
    BY <1>3 DEF SyncMatches
  <2>2. /\ t \in Tables /\ pc[p] = "sync" /\ pc' = pc /\ defs' = defs /\ making' = making
        /\ pend'[p] = pend[p] \ {t} /\ UNCHANGED <<layout, stored>>
    BY <1>0, <1>3, <2>1, PendApplies, Dones DEF SyncMatches, tableVars
  <2>3. Made(p, t)
    BY <1>0, <2>1, <2>2 DEF TableFits, Made
  <2>4. \A u \in Fine(p)' : u \in Fine(p) \/ u = t
    BY <2>2, Steps0 DEF Fine, Applicable
  <2>5. \A u \in Fine(p)' : Made(p, u)'
    BY <1>0, <2>2, <2>3, <2>4 DEF CommandFits, Made
  <2> QED
    BY <1>0, <1>1, <2>2, <2>5 DEF CommandFits
<1>4. CASE SyncMissing(p)
  <2>1. PICK t \in pend[p] : /\ making' = [making EXCEPT ![p] = {t}]
                             /\ pend' = [pend EXCEPT ![p] = @ \ {t}]
    BY <1>4 DEF SyncMissing
  <2>2. /\ pc[p] = "sync" /\ pc'[p] = "create" /\ defs' = defs /\ making'[p] = {t}
        /\ pend'[p] = pend[p] \ {t} /\ UNCHANGED <<layout, stored>>
    BY <1>0, <1>4, <2>1 DEF SyncMissing, ProcTypes, tableVars
  <2>3. \A u \in Fine(p)' : u \in Fine(p)
    <3>1. making[p] = {}
      BY <1>0, <2>2 DEF ProcTypes, PendFits
    <3> QED
      BY <2>2, <3>1, Steps0 DEF Fine, Applicable
  <2>4. \A u \in Fine(p)' : Made(p, u)'
    BY <1>0, <2>2, <2>3 DEF CommandFits, Made
  <2> QED
    BY <1>0, <1>1, <2>2, <2>4 DEF CommandFits
<1>5. CASE SyncCreates(p)
  <2>1. PICK t \in Tables :
            /\ making[p] = {t} /\ t \in Applicable(p) /\ defs[p][t] \in Defs
            /\ CreateAndBackfill(t, defs[p][t])
            /\ pc[p] = "create" /\ pc'[p] = "sync" /\ making'[p] = {}
            /\ UNCHANGED <<dbVars, config, defs, pend, span, purgeVars>>
    BY <1>5, CreateStep
  <2>2. OnlyTable(t) /\ ~Exists(t) /\ layout'[t] = defs[p][t] /\ stored'[t] = defs[p][t]
    BY <1>0, <2>1, Creates
  <2>3. \A u \in Fine(p)' : u \in Fine(p) \/ u = t
    BY <2>1, Steps0 DEF Fine, Applicable
  <2>4. Made(p, t)'
    BY <2>1, <2>2 DEF Made
  <2>5. \A u \in Fine(p) \ {t} : Made(p, u)'
    BY <1>0, <2>1, <2>2 DEF CommandFits, Made, OnlyTable, Fine, Applicable
  <2>6. \A u \in Fine(p)' : Made(p, u)'
    BY <2>3, <2>4, <2>5
  <2> QED
    BY <1>0, <1>1, <2>1, <2>6 DEF CommandFits
<1>6. CASE SyncDone(p)
  <2>1. /\ pc[p] = "sync" /\ pc'[p] = "ready" /\ pend[p] = {} /\ making[p] = {}
        /\ UNCHANGED <<defs, layout, stored>>
    BY <1>0, <1>6 DEF SyncDone, LoopTo, ProcTypes, PendFits, tableVars
  <2>2. \A u \in Fine(p)' : u \in Fine(p)
    BY <2>1, Steps0 DEF Fine, Applicable
  <2>3. \A u \in Fine(p)' : Made(p, u)'
    BY <1>0, <2>1, <2>2 DEF CommandFits, Made
  <2> QED
    BY <1>0, <1>1, <2>1, <2>3 DEF CommandFits
<1> QED
  BY <1>2, <1>3, <1>4, <1>5, <1>6 DEF Sync

LEMMA EndFits ==
    ASSUME Types, NEW p \in Procs, Ends(p)
    PROVE  CommandFits(p)' /\ RebuildFits(p)'
<1>1. pc'[p] = "idle"
  BY EndsOnly, Quits, TypesParts
<1>2. Fine(p)' = {}
  BY <1>1, Steps0 DEF Fine
<1> QED
  BY <1>1, <1>2, Steps0 DEF CommandFits, RebuildFits

LEMMA BeginFits ==
    ASSUME Types, NEW p \in Procs, Begin(p)
    PROVE  CommandFits(p)'
<1>1. /\ pc'[p] = "sync" /\ defs'[p] = config /\ config' = config
      /\ pend'[p] = {t \in Tables : config[t] # NoDef}
  BY TypesParts DEF Begin, ProcTypes
<1>2. Fine(p)' = {}
  BY <1>1, Steps0 DEF Fine, Applicable
<1> QED
  BY <1>1, <1>2 DEF CommandFits

\* The steps of a chunk.
LEMMA IndexFits ==
    ASSUME Types, FlagInv, OfflineInv, NEW p \in Procs, IndexChunk(p)
    PROVE  CommandFits(p)'
<1>0. /\ ProcTypes /\ CommandFits(p) /\ CommandStep(p)
      /\ pc[p] \in IndexSteps
  BY TypesParts, Steps0
  DEF OfflineInv, CommandStep, IndexChunk, StartChunk, SaveChunkLogs, Populate, PopulateFails,
      Populated, SaveChunkTxs, SaveChunkBlocks
<1>1. config' = config
  BY <1>0, ProcStep
<1>2. Fine(p) = Applicable(p)
  BY <1>0 DEF Fine
<1>3. ASSUME UNCHANGED <<defs, layout, stored>>
      PROVE  \A u \in Fine(p)' : Made(p, u)'
  <2>1. \A u \in Fine(p)' : u \in Fine(p)
    BY <1>2, <1>3 DEF Fine, Applicable
  <2> QED
    BY <1>0, <1>3, <2>1 DEF CommandFits, Made
<1>4. CASE StartChunk(p) \/ SaveChunkLogs(p) \/ SaveChunkBlocks(p)
  <2>1. /\ UNCHANGED <<defs, layout, stored>>
        /\ \/ pc'[p] \in {"logs", "ready"}
           \/ pc'[p] = "populate" /\ pend'[p] = Applicable(p)
    BY <1>0, <1>4 DEF StartChunk, SaveChunkLogs, SaveChunkBlocks, ProcTypes, tableVars
  <2>2. Applicable(p)' = Applicable(p)
    BY <2>1 DEF Applicable
  <2>3. defs'[p] = config'
    BY <1>0, <1>1, <2>1, Steps0 DEF CommandFits
  <2>4. pc'[p] = "populate" =>
            \A u \in Applicable(p)' : u \in pend'[p] \/ span'[p] \subseteq BlocksOf(u)'
    BY <2>1, <2>2
  <2> QED
    BY <1>3, <2>1, <2>3, <2>4 DEF CommandFits
<1>5. CASE Populate(p)
  <2>1. PICK t \in pend[p] :
            /\ t \in Tables /\ defs[p][t] \in Defs /\ Done(p, t) /\ OnlyTable(t)
            /\ rows'[t] = rows[t] \cup (((logs \cap span[p]) \ BlocksOf(t)) \X {defs[p][t]})
            /\ UNCHANGED <<layout, stored>>
            /\ pc[p] = "populate"
    BY <1>5, PopulateStep
  <2>2. /\ UNCHANGED <<pc, defs, span>> /\ pend'[p] = pend[p] \ {t}
    BY <1>0, <2>1, Dones
  <2>3. span[p] \subseteq logs
    BY <2>1 DEF FlagInv, SavedInOrder
  <2>4. ASSUME NEW b \in span[p] PROVE b \in BlocksOf(t)'
    <3>1. CASE b \in BlocksOf(t)
      BY <2>1, <3>1 DEF BlocksOf
    <3>2. CASE b \notin BlocksOf(t)
      <4>1. <<b, defs[p][t]>> \in rows'[t]
        BY <2>1, <2>3, <3>2
      <4> QED
        BY <4>1 DEF BlocksOf
    <3> QED
      BY <3>1, <3>2
  <2>5. \A u \in Applicable(p)' : u \in pend'[p] \/ span'[p] \subseteq BlocksOf(u)'
    BY <1>0, <2>1, <2>2, <2>4 DEF CommandFits, Applicable, OnlyTable, BlocksOf
  <2> QED
    BY <1>0, <1>1, <1>3, <2>1, <2>2, <2>5 DEF CommandFits
<1>6. CASE PopulateFails(p)
  BY <1>6, EndFits DEF Ends
<1>7. CASE Populated(p) \/ SaveChunkTxs(p)
  <2>1. /\ UNCHANGED <<defs, layout, stored, rows, span>>
        /\ \/ pc[p] = "populate" /\ pend[p] = {} /\ pc'[p] = "txs"
           \/ pc[p] = "txs" /\ pc'[p] = "blocks"
    BY <1>0, <1>7 DEF Populated, SaveChunkTxs, LoopTo, ProcTypes, tableVars
  <2>2. \A u \in Applicable(p) : span[p] \subseteq BlocksOf(u)
    BY <1>0, <2>1 DEF CommandFits
  <2>3. \A u \in Applicable(p)' : span'[p] \subseteq BlocksOf(u)'
    BY <2>1, <2>2 DEF Applicable, BlocksOf
  <2> QED
    BY <1>0, <1>1, <1>3, <2>1, <2>3, Steps0 DEF CommandFits
<1> QED
  BY <1>4, <1>5, <1>6, <1>7 DEF IndexChunk

LEMMA IndexIsNoRebuild ==
    ASSUME Types, NEW p \in Procs, Begin(p) \/ Sync(p) \/ IndexChunk(p)
    PROVE  RebuildFits(p)'
<1>0. ProcTypes /\ pc[p] \notin RebuildSteps
  BY TypesParts, Steps0
  DEF Begin, Sync, IndexChunk, SyncMatches, SyncRefuses, SyncMissing, SyncCreates, SyncClashes,
      SyncDone, StartChunk, SaveChunkLogs, Populate, PopulateFails, Populated, SaveChunkTxs,
      SaveChunkBlocks
<1>1. CASE SyncRefuses(p) \/ SyncClashes(p) \/ PopulateFails(p)
  BY <1>1, EndFits DEF Ends
<1>2. CASE ~SyncRefuses(p) /\ ~SyncClashes(p) /\ ~PopulateFails(p)
  <2>1. pc'[p] \in SyncSteps \cup IndexSteps
    BY <1>0, <1>2, Steps0
    DEF Begin, Sync, IndexChunk, SyncMatches, SyncMissing, SyncCreates, SyncDone, StartChunk,
        SaveChunkLogs, Populate, Populated, SaveChunkTxs, SaveChunkBlocks, LoopTo, Done, ProcTypes
  <2> QED
    BY <2>1, Steps0 DEF RebuildFits
<1> QED
  BY <1>1, <1>2

\* The steps of a rebuild.
LEMMA RebuildKeeps ==
    ASSUME Types, OfflineInv, Online = {}, NEW p \in Procs, Rebuild(p)
    PROVE  CommandFits(p)' /\ RebuildFits(p)'
<1>0. /\ ProcTypes /\ TableTypes /\ DbTypeOK /\ CommandFits(p) /\ RebuildFits(p)
      /\ CommandStep(p) /\ \A t \in Tables : TableFits(t)
  BY TypesParts DEF OfflineInv, CommandStep
<1>1. config' = config /\ Others(p) /\ ppc' = ppc
  BY <1>0, ProcStep DEF purgeVars
<1>2. pc'[p] \in RebuildSteps => Alone(p)'
  <2>1. pc'[p] \in RebuildSteps => pc[p] \in RebuildSteps \/ BeginRebuild(p)
    BY <1>0, Steps0
    DEF Rebuild, DropTable, ClearMeta, Recreate, RecreateClashes, RebuildEnd
  <2> QED
    BY <1>0, <1>1, <2>1, Alones DEF Alone, Others
<1>3. CASE RecreateClashes(p) \/ RebuildEnd(p)
  BY <1>3, EndFits DEF Ends
<1>4. CASE BeginRebuild(p)
  <2>1. /\ pc'[p] = "drop" /\ defs'[p] = config /\ UNCHANGED <<layout, stored>>
        /\ pend'[p] = {t \in Tables : stored[t] # NoDef \/ config[t] # NoDef}
    BY <1>0, <1>4 DEF BeginRebuild, ProcTypes, tableVars
  <2>2. Fine(p)' = {}
    BY <2>1, Steps0 DEF Fine
  <2>3. \A t \in Tables : Exists(t)' => t \in pend'[p]
    BY <1>0, <2>1 DEF Exists, TableFits
  <2> QED
    BY <1>1, <1>2, <2>1, <2>2, <2>3 DEF CommandFits, RebuildFits
<1>5. CASE DropTable(p)
  <2>1. PICK t \in pend[p] :
            /\ t \in Tables /\ Done(p, t) /\ OnlyTable(t)
            /\ layout'[t] = NoDef /\ pc[p] = "drop"
    BY <1>5, DropStep
  <2>2. UNCHANGED <<pc, defs>> /\ pend'[p] = pend[p] \ {t}
    BY <1>0, <2>1, Dones
  <2>3. Fine(p)' = {}
    BY <2>1, <2>2, Steps0 DEF Fine
  <2>4. \A u \in Tables : Exists(u)' => u \in pend'[p]
    BY <1>0, <2>1, <2>2 DEF RebuildFits, OnlyTable, Exists
  <2> QED
    BY <1>0, <1>1, <1>2, <2>1, <2>2, <2>3, <2>4 DEF CommandFits, RebuildFits
<1>6. CASE ClearMeta(p)
  <2>1. /\ pc[p] = "drop" /\ pc'[p] = "recreate" /\ pend[p] = {} /\ pend'[p] = Applicable(p)
        /\ UNCHANGED <<layout, defs>> /\ stored' = Nothing
    BY <1>0, <1>6 DEF ClearMeta, LoopTo, ProcTypes
  <2>2. Fine(p)' = {}
    BY <2>1, Steps0 DEF Fine, Applicable
  <2>3. \A t \in Tables : stored'[t] = NoDef /\ ~Exists(t)'
    BY <1>0, <2>1 DEF RebuildFits, Exists, Nothing
  <2> QED
    BY <1>0, <1>1, <1>2, <2>1, <2>2, <2>3 DEF CommandFits, RebuildFits
<1>7. CASE Recreate(p)
  <2>1. PICK t \in pend[p] :
            /\ t \in Tables /\ t \in Applicable(p) /\ defs[p][t] \in Defs
            /\ Done(p, t) /\ CreateAndBackfill(t, defs[p][t])
            /\ logs' = logs /\ pc[p] = "recreate"
    BY <1>7, RecreateStep DEF dbVars
  <2>2. UNCHANGED <<pc, defs, making>> /\ pend'[p] = pend[p] \ {t}
    BY <1>0, <2>1, Dones
  <2>3. /\ OnlyTable(t) /\ layout'[t] = defs[p][t] /\ stored'[t] = defs[p][t]
        /\ rows'[t] = logs \X {defs[p][t]}
    BY <1>0, <2>1, Creates
  <2>4. making[p] = {}
    BY <1>0, <2>1 DEF ProcTypes, PendFits
  <2>5. Fine(p)' = Fine(p) \cup {t}
    BY <2>1, <2>2, <2>4, Steps0 DEF Fine, Applicable
  <2>6. Made(p, t)' /\ BlocksOf(t)' = logs
    <3>1. BlocksOf(t)' = logs
      BY <2>3, Backfilled DEF BlocksOf
    <3> QED
      BY <2>2, <2>3, <3>1 DEF Made
  <2>7. \A u \in Fine(p) \ {t} : Made(p, u)'
    BY <1>0, <2>2, <2>3 DEF CommandFits, Made, OnlyTable, Fine, Applicable
  <2>8. CommandFits(p)'
    <3>1. \A u \in Fine(p)' : Made(p, u)'
      BY <2>5, <2>6, <2>7
    <3> QED
      BY <1>0, <1>1, <2>1, <2>2, <3>1 DEF CommandFits
  <2>9. ASSUME NEW u \in Tables \ {t}
        PROVE  IF u \in Fine(p)' THEN BlocksOf(u)' = logs' ELSE stored'[u] = NoDef /\ ~Exists(u)'
    BY <1>0, <2>1, <2>3, <2>5 DEF RebuildFits, OnlyTable, BlocksOf, Exists
  <2>10. \A u \in Tables :
            IF u \in Fine(p)' THEN BlocksOf(u)' = logs' ELSE stored'[u] = NoDef /\ ~Exists(u)'
    BY <2>1, <2>5, <2>6, <2>9
  <2> QED
    BY <1>2, <2>1, <2>2, <2>8, <2>10 DEF RebuildFits
<1> QED
  BY <1>3, <1>4, <1>5, <1>6, <1>7 DEF Rebuild

\* All commands fit after a step of one of them.
LEMMA AllFit ==
    ASSUME Types, FlagInv, OfflineInv, Online = {}, NEW p \in Procs, CommandStep(p)
    PROVE  \A q \in Procs : CommandFits(q)' /\ RebuildFits(q)'
<1>1. CommandFits(p)' /\ RebuildFits(p)'
  <2>1. CASE Begin(p)
    BY <2>1, BeginFits, IndexIsNoRebuild
  <2>2. CASE Sync(p)
    BY <2>2, SyncFits, IndexIsNoRebuild
  <2>3. CASE IndexChunk(p)
    BY <2>3, IndexFits, IndexIsNoRebuild
  <2>4. CASE Rebuild(p)
    BY <2>4, RebuildKeeps
  <2>5. CASE Exit(p) \/ Stop(p)
    BY <2>5, EndFits DEF Ends
  <2> QED
    BY <2>1, <2>2, <2>3, <2>4, <2>5 DEF CommandStep
<1> QED
  BY <1>1, OthersFit

\* The tables fit: one that is created has the rows of all logs, hence of all flagged
\* blocks; a chunk is flagged once every table has its rows.
LEMMA CreatedFits ==
    ASSUME Types, FlagInv, OfflineInv, NEW p \in Procs, pc[p] # "idle", NEW u \in Tables,
           defs[p][u] \in Defs, CreateAndBackfill(u, defs[p][u]), UNCHANGED <<dbVars, config>>,
           NEW t \in Tables
    PROVE  TableFits(t)'
<1>0. /\ DbTypeOK /\ TableTypes /\ CommandFits(p) /\ TableFits(t) /\ UNCHANGED <<logs, blocks>>
  BY TypesParts DEF OfflineInv, dbVars
<1>1. /\ OnlyTable(u) /\ layout'[u] = defs[p][u] /\ stored'[u] = defs[p][u]
      /\ rows'[u] = logs \X {defs[p][u]}
  BY <1>0, Creates
<1>2. CASE t # u
  BY <1>0, <1>1, <1>2 DEF OnlyTable, TableFits, Exists, BlocksOf
<1>3. CASE t = u
  <2>1. config[u] = defs[p][u] /\ defs[p][u] # NoDef
    BY <1>0, DefsAssumption DEF CommandFits
  <2>2. BlocksOf(t)' = logs
    BY <1>1, <1>3, Backfilled DEF BlocksOf
  <2>3. blocks \subseteq logs
    BY DEF FlagInv, FlaggedComplete, Complete
  <2>4. Exists(t)' /\ \A r \in rows'[t] : r[2] = layout'[t]
    BY <1>1, <1>3, <2>1 DEF Exists
  <2> QED
    BY <1>0, <1>1, <1>3, <2>1, <2>2, <2>3, <2>4 DEF TableFits
<1> QED
  BY <1>2, <1>3

LEMMA PopulatedFits ==
    ASSUME Types, OfflineInv, NEW p \in Procs, Populate(p), NEW t \in Tables
    PROVE  TableFits(t)'
<1>1. PICK u \in pend[p] :
        /\ u \in Tables /\ u \in Applicable(p) /\ OnlyTable(u)
        /\ rows'[u] = rows[u] \cup (((logs \cap span[p]) \ BlocksOf(u)) \X {defs[p][u]})
        /\ UNCHANGED <<dbVars, config, layout, stored>>
        /\ pc[p] = "populate"
  BY PopulateStep
<1>2. CommandFits(p) /\ TableFits(t) /\ UNCHANGED <<logs, blocks, config>>
  BY <1>1 DEF OfflineInv, dbVars
<1>3. CASE t # u
  BY <1>1, <1>2, <1>3 DEF OnlyTable, TableFits, Exists, BlocksOf
<1>4. CASE t = u
  <2>1. layout[u] = defs[p][u] /\ Exists(u)
    BY <1>1, <1>2, Steps0 DEF CommandFits, Fine, Made, Applicable, Exists
  <2>2. \A r \in rows'[t] : r \in rows[t] \/ r \in logs \X {layout[t]}
    BY <1>1, <1>4, <2>1
  <2>3. \A r \in rows'[t] : r[2] = layout'[t] /\ r[1] \in logs'
    BY <1>1, <1>2, <2>2 DEF TableFits, BlocksOf
  <2>4. rows[t] \subseteq rows'[t]
    BY <1>1, <1>4
  <2>5. BlocksOf(t) \subseteq BlocksOf(t)' /\ BlocksOf(t)' \subseteq logs'
    BY <2>3, <2>4 DEF BlocksOf
  <2>6. Exists(t)'
    BY <1>1, <1>4, <2>1 DEF Exists
  <2> QED
    BY <1>1, <1>2, <1>4, <2>1, <2>3, <2>5, <2>6 DEF TableFits
<1> QED
  BY <1>3, <1>4

LEMMA TablesFit ==
    ASSUME Types, FlagInv, OfflineInv, Online = {}, NEW p \in Procs, CommandStep(p),
           NEW t \in Tables
    PROVE  TableFits(t)'
<1>0. /\ ProcTypes /\ TableTypes /\ CommandFits(p) /\ RebuildFits(p) /\ TableFits(t)
      /\ config' = config
  BY ProcStep, TypesParts DEF OfflineInv
<1>1. CASE SyncCreates(p)
  BY <1>1, CreateStep, CreatedFits
<1>2. CASE Recreate(p)
  BY <1>2, RecreateStep, CreatedFits
<1>3. CASE Populate(p)
  BY <1>3, PopulatedFits
<1>4. CASE DropTable(p)
  <2>1. PICK u \in Tables :
            /\ OnlyTable(u) /\ layout'[u] = NoDef /\ rows'[u] = {} /\ UNCHANGED dbVars
    BY <1>4, DropStep
  <2> QED
    BY <1>0, <2>1 DEF OnlyTable, TableFits, Exists, BlocksOf, dbVars
<1>5. CASE ClearMeta(p)
  <2>1. pc[p] = "drop" /\ pend[p] = {} /\ UNCHANGED <<layout, rows, logs>>
    BY <1>5 DEF ClearMeta, LoopTo, dbVars
  <2>2. ~Exists(t)
    BY <1>0, <2>1 DEF RebuildFits
  <2> QED
    BY <1>0, <2>1, <2>2 DEF TableFits, Exists, BlocksOf
<1>6. CASE /\ ~SyncCreates(p) /\ ~Recreate(p) /\ ~Populate(p) /\ ~DropTable(p)
           /\ ~ClearMeta(p)
  <2>1. UNCHANGED <<layout, stored, rows>>
    BY <1>6, TablesStay
  <2>2. logs \subseteq logs'
    BY CommandSaves
  <2>3. Exists(t) /\ t \notin Removable => config[t] # NoDef /\ blocks' \subseteq BlocksOf(t)
    <3>1. CASE SaveChunkBlocks(p)
      <4>1. pc[p] = "blocks" /\ blocks' = blocks \cup span[p]
        BY <3>1, CommandSaves DEF SaveChunkBlocks
      <4>2. config[t] # NoDef => span[p] \subseteq BlocksOf(t)
        BY <1>0, <4>1 DEF CommandFits, Applicable
      <4> QED
        BY <1>0, <4>1, <4>2 DEF TableFits
    <3>2. CASE ~SaveChunkBlocks(p)
      BY <1>0, <3>2, CommandSaves DEF TableFits
    <3> QED
      BY <3>1, <3>2
  <2> QED
    BY <1>0, <2>1, <2>2, <2>3 DEF TableFits, Exists, BlocksOf
<1> QED
  BY <1>1, <1>2, <1>3, <1>4, <1>5, <1>6

LEMMA OfflineCommand ==
    ASSUME Types, FlagInv, OfflineInv, Online = {}, NEW p \in Procs, CommandStep(p)
    PROVE  OfflineInv'
<1>1. ppc' = "idle"
  BY Alones, ProcStep DEF purgeVars
<1>2. PurgeFits'
  BY <1>1 DEF PurgeFits
<1>3. \A t \in Tables : TableFits(t)'
  BY TablesFit
<1>4. \A q \in Procs : CommandFits(q)' /\ RebuildFits(q)'
  BY AllFit
<1> QED
  BY <1>2, <1>3, <1>4 DEF OfflineInv

\* A purge takes a block's rows from every table, with its logs.
LEMMA PurgedFits ==
    ASSUME Types, OfflineInv, PurgeDelete, NEW t \in Tables
    PROVE  TableFits(t)'
<1>0. /\ upper \in Nat /\ DbTypeOK /\ TableTypes /\ TableFits(t)
      /\ names = {u \in Tables : Exists(u)}
  BY TypesParts DEF OfflineInv, PurgeFits, PurgeTypes, PurgeDelete
<1>1. /\ UNCHANGED <<layout, stored, config>>
      /\ rows'[t] = {r \in rows[t] : t \in names => r[1] > upper}
      /\ logs' = logs \ {b \in logs : b <= upper}
      /\ blocks' = blocks \ {b \in blocks : b <= upper}
  BY DEF PurgeDelete, RowsAfter, DeleteThrough, AtMost
<1>2. CASE ~Exists(t)
  <2>1. rows'[t] = {} /\ BlocksOf(t)' = {}
    BY <1>0, <1>1, <1>2 DEF TableFits, BlocksOf
  <2> QED
    BY <1>0, <1>1, <1>2, <2>1 DEF TableFits, Exists
<1>3. CASE Exists(t)
  <2>1. rows'[t] = {r \in rows[t] : r[1] > upper}
    BY <1>0, <1>1, <1>3
  <2>2. BlocksOf(t)' = {b \in BlocksOf(t) : b > upper}
    BY <2>1 DEF BlocksOf
  <2>3. ASSUME NEW b \in Nat
        PROVE  /\ b \in BlocksOf(t)' <=> b \in BlocksOf(t) /\ b > upper
               /\ b \in logs' <=> b \in logs /\ b > upper
               /\ b \in blocks' <=> b \in blocks /\ b > upper
    BY <1>0, <1>1, <2>2
  <2>4. BlocksOf(t)' \subseteq logs' /\ blocks' \subseteq blocks
    BY <1>0, <1>1, <2>2, <2>3 DEF TableFits, DbTypeOK
  <2>5. blocks \subseteq BlocksOf(t) => blocks' \subseteq BlocksOf(t)'
    BY <1>0, <2>3, <2>4 DEF DbTypeOK
  <2> QED
    BY <1>0, <1>1, <1>3, <2>1, <2>4, <2>5 DEF TableFits, Exists
<1> QED
  BY <1>2, <1>3

\* Steps in which no command runs.
LEMMA IdleFits ==
    ASSUME NEW p \in Procs, pc'[p] = "idle"
    PROVE  CommandFits(p)' /\ RebuildFits(p)'
<1>1. Fine(p)' = {}
  BY Steps0 DEF Fine
<1> QED
  BY <1>1, Steps0 DEF CommandFits, RebuildFits

LEMMA OfflinePurge ==
    ASSUME Types, FlagInv, OfflineInv, Online = {}, Purge, mode' = mode
    PROVE  OfflineInv'
<1>0. UNCHANGED <<config, layout, stored, pc>>
  BY PurgeTypesKept DEF procVars
<1>1. \A p \in Procs : pc'[p] = "idle"
  BY <1>0
  DEF Purge, PurgeBegin, PurgeSelect, PurgeDelete, PurgeEnd, PurgeFails, PurgeStops, OfflineInv,
      PurgeFits
<1>2. \A p \in Procs : CommandFits(p)' /\ RebuildFits(p)'
  BY <1>1, IdleFits
<1>3. \A t \in Tables : TableFits(t)'
  <2>1. CASE PurgeDelete
    BY <2>1, PurgedFits
  <2>2. CASE ~PurgeDelete
    <3>1. UNCHANGED <<rows, logs, blocks>>
      BY <2>2
      DEF Purge, PurgeBegin, PurgeSelect, PurgeEnd, PurgeFails, PurgeStops, PurgeOver, dbVars,
          tableVars
    <3> QED
      BY <1>0, <3>1 DEF OfflineInv, TableFits, Exists, BlocksOf
  <2> QED
    BY <2>1, <2>2
<1>4. ppc' # "idle" => names' = {t \in Tables : Exists(t)'}
  <2>1. CASE PurgeBegin
    <3>1. names' = {t \in Tables : Exists(t) /\ stored[t] # NoDef}
      BY <2>1 DEF PurgeBegin
    <3>2. \A t \in Tables : Exists(t) => stored[t] # NoDef
      BY DEF OfflineInv, TableFits, Exists
    <3> QED
      BY <1>0, <3>1, <3>2 DEF Exists
  <2>2. CASE PurgeSelect \/ PurgeDelete
    BY <1>0, <2>2 DEF PurgeSelect, PurgeDelete, OfflineInv, PurgeFits, Exists
  <2>3. CASE PurgeEnd \/ PurgeFails \/ PurgeStops
    BY <2>3 DEF PurgeEnd, PurgeFails, PurgeStops, PurgeOver
  <2> QED
    BY <2>1, <2>2, <2>3 DEF Purge
<1> QED
  BY <1>1, <1>2, <1>3, <1>4 DEF OfflineInv, PurgeFits

LEMMA OfflineEdit ==
    ASSUME Types, OfflineInv, Online = {}, EditConfig
    PROVE  OfflineInv'
<1>1. /\ ppc = "idle" /\ (\A p \in Procs : pc[p] = "idle")
      /\ UNCHANGED <<pc, ppc, layout, stored, rows, logs, blocks>>
  BY DEF EditConfig, AllIdle, dbVars, tableVars, procVars, purgeVars
<1>2. \A t \in Tables : t \notin Removable /\ config[t] # NoDef => config'[t] # NoDef
  BY TypesParts DEF EditConfig, OtherTypes
<1>3. \A t \in Tables : TableFits(t)'
  BY <1>1, <1>2 DEF OfflineInv, TableFits, Exists, BlocksOf
<1>4. \A p \in Procs : CommandFits(p)' /\ RebuildFits(p)'
  BY <1>1, IdleFits
<1> QED
  BY <1>1, <1>3, <1>4 DEF OfflineInv, PurgeFits

LEMMA OfflineStutter ==
    ASSUME OfflineInv, UNCHANGED vars
    PROVE  OfflineInv'
<1>1. \A p \in Procs : Fine(p)' = Fine(p)
  BY DEF vars, Fine, Applicable
<1> QED
  BY <1>1
  DEF vars, OfflineInv, PurgeFits, TableFits, CommandFits, RebuildFits, Made, Applicable, Exists,
      BlocksOf, Alone

LEMMA TablesNext == Types /\ TablesInv /\ [Next]_vars => TablesInv'
<1> SUFFICES ASSUME Types, TablesInv, [Next]_vars PROVE TablesInv'
  OBVIOUS
<1>1. FlagInv'
  BY FlagNext DEF TablesInv
<1>2. Online' = Online
  BY NextSteps DEF Online, vars
<1>3. ASSUME Online = {} PROVE OfflineInv'
  BY <1>3, NextSteps, OfflineCommand, OfflinePurge, OfflineEdit, OfflineStutter DEF TablesInv
<1> QED
  BY <1>1, <1>2, <1>3 DEF TablesInv

LEMMA TablesAlways == Spec => [](Types /\ TablesInv)
BY TypesInit, TypesNext, TablesInit, TablesNext, PTL DEF Spec

-----------------------------------------------------------------------------
(* What the invariant says of the tables.                                   *)

\* Among tables that the user keeps in the config, edited only between commands, one
\* that sync accepts has the rows of every indexed block.
THEOREM KeptTablesInStep == Spec => []InStepWithLogs
<1>1. TablesInv => InStepWithLogs
  BY DEF TablesInv, OfflineInv, TableFits, InStepWithLogs, InStep
<1> QED
  BY <1>1, TablesAlways, PTL

\* No table holds rows of two definitions, nor is a command about to make it so.
THEOREM OneDefinitionPerTable == Spec => []RowsFitFingerprint
<1>1. ASSUME Types, TablesInv PROVE RowsFitFingerprint
  <2>1. ASSUME Online = {}, NEW t \in Tables, NEW r \in rows[t]
        PROVE  r[2] = stored[t]
    BY <1>1, <2>1 DEF TablesInv, OfflineInv, TableFits
  <2>2. ASSUME Online = {}, NEW p \in Procs, pc[p] \in IndexSteps, NEW t \in Applicable(p)
        PROVE  layout[t] = defs[p][t] /\ stored[t] = defs[p][t]
    BY <1>1, <2>2 DEF TablesInv, OfflineInv, CommandFits, Fine, Made
  <2> QED
    BY <2>1, <2>2 DEF RowsFitFingerprint
<1> QED
  BY <1>1, TablesAlways, PTL

\* A purge or a failed chunk leaves no row of a custom table without its log.
THEOREM NoRowOutlivesItsLog == Spec => []RowsHaveLogs
<1>1. TablesInv => RowsHaveLogs
  BY DEF TablesInv, OfflineInv, TableFits, RowsHaveLogs
<1> QED
  BY <1>1, TablesAlways, PTL

\* A rebuild that reaches its end has made every table of the config from all logs, and
\* left no other: nothing is lost, however often it was stopped before.
THEOREM RebuildLosesNothing == Spec => RebuildIsLossless
<1> DEFINE Lossless ==
        \A p \in Procs : Online = {} /\ RebuildEnd(p) =>
            \A t \in Tables :
                /\ stored[t] = config[t]
                /\ config[t] # NoDef => BlocksOf(t) = logs
<1>1. ASSUME Types, TablesInv PROVE Lossless
  <2> SUFFICES ASSUME NEW p \in Procs, Online = {}, RebuildEnd(p), NEW t \in Tables
               PROVE  /\ stored[t] = config[t]
                      /\ config[t] # NoDef => BlocksOf(t) = logs
    OBVIOUS
  <2>1. /\ pc[p] = "recreate" /\ pend[p] = {} /\ ProcTypes
        /\ CommandFits(p) /\ RebuildFits(p)
    BY <1>1, TypesParts DEF RebuildEnd, TablesInv, OfflineInv
  <2>2. defs[p] = config /\ making[p] = {}
    BY <2>1 DEF CommandFits, ProcTypes, PendFits
  <2>3. Fine(p) = {u \in Tables : config[u] # NoDef}
    BY <2>1, <2>2 DEF Fine, Applicable
  <2>4. CASE config[t] # NoDef
    BY <2>1, <2>2, <2>3, <2>4 DEF CommandFits, RebuildFits, Made
  <2>5. CASE config[t] = NoDef
    BY <2>1, <2>3, <2>5 DEF RebuildFits
  <2> QED
    BY <2>4, <2>5
<1>2. Types /\ TablesInv => [Lossless]_vars
  BY <1>1
<1>3. Spec => [][Lossless]_vars
  BY <1>2, TablesAlways, PTL
<1> QED
  BY <1>3 DEF RebuildIsLossless

=============================================================================
