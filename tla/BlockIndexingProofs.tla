------------------------ MODULE BlockIndexingProofs ------------------------
(***************************************************************************)
(* Proofs about BlockIndexing, for any processes, workers, batch size,     *)
(* ranges, purges and faults.  In three parts: the types and the window of *)
(* a purge; the inductive invariant IndexInv and what follows from it, for *)
(* processes that all exclude purges; and the refinement of BlockStore.    *)
(***************************************************************************)
EXTENDS BlockIndexing, FiniteSetTheorems, TLAPS

-----------------------------------------------------------------------------
(* Facts about the operators.                                              *)

\* The three data types, in the order a batch handles them.
LEMMA TypeOrder ==
    ASSUME NEW t \in DataTypes, NEW d \in DataTypes
    PROVE  /\ NextType(d) \in DataTypes
           /\ d # "blocks" => (Before(t, NextType(d)) <=> Before(t, d) \/ t = d)
           /\ d = "blocks" => Before(t, d) \/ t = d
           /\ ~Before(t, "transactions")
BY DEF DataTypes, NextType, Before

\* A gap is made of missing blocks.
LEMMA GapMissing == ASSUME NEW M PROVE FirstGap(M) \subseteq M
BY DEF FirstGap

\* Every missing block is in a chunk, and a chunk holds missing blocks only.
LEMMA ChunksCover ==
    ASSUME NEW M, NEW n
    PROVE  /\ M \subseteq UNION Chunks(M, n)
           /\ \A c \in Chunks(M, n) : c \subseteq M
BY DEF Chunks, ChunkOf

\* A file a run may be told to remove is indexed completely.
LEMMA PrunableIndexed ==
    ASSUME NEW t, NEW lo, NEW hi, NEW F \in Prunable(t, lo, hi, blocks)
    PROVE  F \subseteq blocks
BY DEF Prunable

LEMMA CutoffNat ==
    ASSUME NEW m \in Nat, NEW k \in Nat PROVE CutoffOf(m, k) \in Nat
BY DEF CutoffOf, SaturatingSub

-----------------------------------------------------------------------------
(* Type correctness.                                                       *)

LEMMA TypeInit == Init => TypeOK
<1> SUFFICES ASSUME Init PROVE TypeOK
  OBVIOUS
<1>1. DbTypeOK /\ CacheTypeOK
  BY DEF Init, DbInit, CacheInit, DbTypeOK, CacheTypeOK
<1>2. 1 \in Slots
  BY WorkersAssumption DEF Slots
<1>3. NoFiles \in [DataTypes -> SUBSET SUBSET Nat]
  BY DEF NoFiles
<1> QED
  BY <1>1, <1>2, <1>3 DEF Init, TypeOK, Steps, Phases, DataTypes

LEMMA ForgetTypes ==
    ASSUME TypeOK, NEW p \in Procs, Forget(p),
           UNCHANGED <<purgeVars>>, DbTypeOK', CacheTypeOK',
           orphans' \in [DataTypes -> SUBSET SUBSET Nat], faults' \in Nat
    PROVE  TypeOK'
<1>1. 1 \in Slots
  BY WorkersAssumption DEF Slots
<1>2. NoFiles \in [DataTypes -> SUBSET SUBSET Nat]
  BY DEF NoFiles
<1>3. pc' \in [Procs -> Steps] /\ range' \in [Procs -> Nat \X Nat]
  BY DEF TypeOK, Forget, Steps
<1>4. miss' \in [Procs -> SUBSET Nat] /\ todo' \in [Procs -> SUBSET SUBSET Nat]
  BY DEF TypeOK, Forget
<1>5. cur' \in [Procs -> Slots]
  BY <1>1 DEF TypeOK, Forget
<1>6. phase' \in [Fetchers -> Phases] /\ dtype' \in [Fetchers -> DataTypes]
  BY DEF TypeOK, Forget, Phases, DataTypes
<1>7. /\ chunk' \in [Fetchers -> SUBSET Nat]
      /\ need' \in [Fetchers -> SUBSET Nat]
  BY DEF TypeOK, Forget
<1>8. files' \in [Fetchers -> [DataTypes -> SUBSET SUBSET Nat]]
  BY <1>2 DEF TypeOK, Forget
<1> QED
  BY <1>3, <1>4, <1>5, <1>6, <1>7, <1>8 DEF TypeOK, purgeVars

LEMMA BeginTypes == ASSUME TypeOK, NEW p \in Procs, Begin(p) PROVE TypeOK'
<1>1. PICK r \in Ranges :
        /\ range' = [range EXCEPT ![p] = r]
        /\ miss' = [miss EXCEPT ![p] = MissingBlocks(r[1], r[2])]
        /\ todo' = [todo EXCEPT
                        ![p] = Chunks(MissingBlocks(r[1], r[2]), BatchSize)]
  BY DEF Begin
<1>2. MissingBlocks(r[1], r[2]) \subseteq Nat
  BY RangesAssumption DEF MissingBlocks
<1>3. Chunks(MissingBlocks(r[1], r[2]), BatchSize) \subseteq SUBSET Nat
  BY <1>2, ChunksCover
<1>4. r \in Nat \X Nat
  BY RangesAssumption
<1>5. range' \in [Procs -> Nat \X Nat]
  BY <1>1, <1>4 DEF TypeOK
<1>6. miss' \in [Procs -> SUBSET Nat]
  BY <1>1, <1>2 DEF TypeOK
<1>7. todo' \in [Procs -> SUBSET SUBSET Nat]
  BY <1>1, <1>3 DEF TypeOK
<1>8. pc' \in [Procs -> Steps]
  BY DEF TypeOK, Begin, Steps
<1> QED
  BY <1>5, <1>6, <1>7, <1>8
  DEF Begin, TypeOK, DbTypeOK, CacheTypeOK, dbVars, fetchVars, purgeVars

LEMMA FaultTypes == ASSUME TypeOK, Fault PROVE faults' \in Nat
BY DEF TypeOK, Fault

LEMMA SameStore ==
    ASSUME TypeOK, UNCHANGED <<dbVars, cache>> PROVE DbTypeOK' /\ CacheTypeOK'
BY DEF TypeOK, DbTypeOK, CacheTypeOK, dbVars

LEMMA FailTypes == ASSUME TypeOK, NEW p \in Procs, Fail(p) PROVE TypeOK'
<1>1. faults' \in Nat
  BY FaultTypes DEF Fail
<1>2. DbTypeOK' /\ CacheTypeOK'
  BY SameStore DEF Fail
<1>3. orphans' \in [DataTypes -> SUBSET SUBSET Nat]
  BY DEF Fail, TypeOK
<1> QED
  BY <1>1, <1>2, <1>3, ForgetTypes DEF Fail

LEMMA CrashTypes == ASSUME TypeOK, NEW p \in Procs, Crash(p) PROVE TypeOK'
<1>1. ASSUME NEW t \in DataTypes
      PROVE  {FirstGap(need[f]) :
                f \in {g \in Fetchers : /\ g[1] = p
                                        /\ phase[g] = "run"
                                        /\ dtype[g] = t}} \subseteq SUBSET Nat
  BY GapMissing DEF TypeOK
<1>2. orphans' \in [DataTypes -> SUBSET SUBSET Nat]
  BY <1>1 DEF TypeOK, Crash
<1>3. faults' \in Nat
  BY FaultTypes DEF Crash
<1>4. DbTypeOK' /\ CacheTypeOK'
  BY SameStore DEF Crash
<1> QED
  BY <1>2, <1>3, <1>4, ForgetTypes DEF Crash

LEMMA OrphanTypes == ASSUME TypeOK, OrphanWrites PROVE TypeOK'
<1>0. PICK t \in DataTypes : \E F \in orphans[t] :
        WriteFile(t, F) /\ orphans' = [orphans EXCEPT ![t] = @ \ {F}]
  BY DEF OrphanWrites
<1>1. PICK F \in orphans[t] :
        WriteFile(t, F) /\ orphans' = [orphans EXCEPT ![t] = @ \ {F}]
  BY <1>0
<1>2. F \in SUBSET Nat
  BY DEF TypeOK
<1>3. CacheTypeOK' /\ orphans' \in [DataTypes -> SUBSET SUBSET Nat]
  BY <1>1, <1>2 DEF TypeOK, CacheTypeOK, WriteFile
<1> QED
  BY <1>3
  DEF OrphanWrites, TypeOK, DbTypeOK, dbVars, runVars, fetchVars, purgeVars

LEMMA IssueTypes == ASSUME TypeOK, NEW p \in Procs, Issue(p) PROVE TypeOK'
<1>1. PICK c \in todo[p], s \in Slots :
        /\ phase' = [phase EXCEPT ![<<p, s>>] = "scan"]
        /\ chunk' = [chunk EXCEPT ![<<p, s>>] = c]
        /\ todo' = [todo EXCEPT ![p] = @ \ {c}]
  BY DEF Issue
<1>2. c \in SUBSET Nat /\ <<p, s>> \in Fetchers
  BY DEF TypeOK, Fetchers
<1>3. phase' \in [Fetchers -> Phases] /\ chunk' \in [Fetchers -> SUBSET Nat]
  BY <1>1, <1>2 DEF TypeOK, Phases
<1>4. todo' \in [Procs -> SUBSET SUBSET Nat]
  BY <1>1, <1>2 DEF TypeOK
<1> QED
  BY <1>3, <1>4 DEF Issue, TypeOK, DbTypeOK, CacheTypeOK, dbVars, purgeVars

LEMMA StepTypes ==
    ASSUME TypeOK, NEW f \in Fetchers, NEW same \in Phases, NEW after \in Phases,
           StepType(f, same, after)
    PROVE  phase' \in [Fetchers -> Phases] /\ dtype' \in [Fetchers -> DataTypes]
BY TypeOrder DEF TypeOK, StepType, DataTypes

LEMMA FetchTypes == ASSUME TypeOK, NEW f \in Fetchers, Fetch(f) PROVE TypeOK'
<1>1. /\ "scan" \in Phases /\ "run" \in Phases /\ "ran" \in Phases
      /\ "collect" \in Phases /\ "parse" \in Phases /\ "ready" \in Phases
      /\ "failed" \in Phases
  BY DEF Phases
<1>2. dtype[f] \in DataTypes /\ need[f] \in SUBSET Nat /\ chunk[f] \in SUBSET Nat
  BY DEF TypeOK
<1>3. CASE Scan(f)
  <2>1. phase' \in [Fetchers -> Phases] /\ dtype' \in [Fetchers -> DataTypes]
    BY <1>1, <1>3, StepTypes DEF Scan, TypeOK
  <2>2. need' \in [Fetchers -> SUBSET Nat]
    BY <1>2, <1>3 DEF Scan, TypeOK, Uncovered
  <2> QED
    BY <1>3, <2>1, <2>2
    DEF Scan, TypeOK, DbTypeOK, CacheTypeOK, dbVars, runVars, purgeVars
<1>4. CASE CryoWrites(f)
  <2>1. CacheTypeOK'
    BY <1>2, <1>4, GapMissing DEF CryoWrites, WriteFile, TypeOK, CacheTypeOK
  <2>2. phase' \in [Fetchers -> Phases]
    BY <1>1, <1>4 DEF CryoWrites, TypeOK
  <2> QED
    BY <1>4, <2>1, <2>2
    DEF CryoWrites, TypeOK, DbTypeOK, dbVars, runVars, purgeVars
<1>5. CASE CryoDone(f)
  <2>1. phase' \in [Fetchers -> Phases] /\ dtype' \in [Fetchers -> DataTypes]
    BY <1>1, <1>5, StepTypes DEF CryoDone, TypeOK
  <2>2. need' \in [Fetchers -> SUBSET Nat]
    BY <1>2, <1>5 DEF CryoDone, TypeOK
  <2> QED
    BY <1>5, <2>1, <2>2
    DEF CryoDone, TypeOK, DbTypeOK, CacheTypeOK, dbVars, runVars, purgeVars
<1>6. CASE Collect(f)
  <2>1. phase' \in [Fetchers -> Phases] /\ dtype' \in [Fetchers -> DataTypes]
    BY <1>1, <1>6, StepTypes DEF Collect
  <2>2. Overlapping(dtype[f], chunk[f]) \in SUBSET SUBSET Nat
    BY <1>2 DEF Overlapping, TypeOK, CacheTypeOK
  <2>3. files' \in [Fetchers -> [DataTypes -> SUBSET SUBSET Nat]]
    BY <1>2, <1>6, <2>2 DEF Collect, TypeOK
  <2> QED
    BY <1>6, <2>1, <2>3
    DEF Collect, TypeOK, DbTypeOK, CacheTypeOK, dbVars, runVars, purgeVars
<1>7. CASE Parse(f)
  <2>1. phase' \in [Fetchers -> Phases] /\ dtype' \in [Fetchers -> DataTypes]
    BY <1>1, <1>7, StepTypes DEF Parse
  <2> QED
    BY <1>7, <2>1
    DEF Parse, TypeOK, DbTypeOK, CacheTypeOK, dbVars, runVars, purgeVars
<1>8. CASE ParseMissing(f)
  BY <1>1, <1>8
  DEF ParseMissing, TypeOK, DbTypeOK, CacheTypeOK, dbVars, runVars, purgeVars
<1> QED
  BY <1>3, <1>4, <1>5, <1>6, <1>7, <1>8 DEF Fetch

LEMMA SaveTypes ==
    ASSUME TypeOK, NEW p \in Procs,
           SaveChunkLogs(p) \/ SaveChunkTxs(p) \/ SaveChunkBlocks(p)
    PROVE  TypeOK'
<1>1. CurOf(p) \in Fetchers
  BY DEF TypeOK, CurOf, Fetchers
<1>2. \A t \in DataTypes : Fetched(CurOf(p), t) \subseteq Nat
  BY <1>1 DEF TypeOK, Fetched
<1>3. /\ "logs" \in DataTypes /\ "transactions" \in DataTypes
      /\ "blocks" \in DataTypes
  BY DEF DataTypes
<1>4. CASE SaveChunkLogs(p)
  BY <1>2, <1>3, <1>4
  DEF SaveChunkLogs, SaveLogs, TypeOK, DbTypeOK, CacheTypeOK, Steps, fetchVars,
      purgeVars
<1>5. CASE SaveChunkTxs(p)
  BY <1>2, <1>3, <1>5
  DEF SaveChunkTxs, SaveTxs, TypeOK, DbTypeOK, CacheTypeOK, Steps, fetchVars,
      purgeVars
<1>6. CASE SaveChunkBlocks(p)
  <2>1. DbTypeOK'
    BY <1>2, <1>3, <1>6 DEF SaveChunkBlocks, SaveBlocks, TypeOK, DbTypeOK
  <2>2. pc' \in [Procs -> Steps] /\ cur' \in [Procs -> Slots]
    BY <1>6, WorkersAssumption DEF SaveChunkBlocks, TypeOK, Steps, Slots
  <2>3. /\ phase' \in [Fetchers -> Phases]
        /\ chunk' \in [Fetchers -> SUBSET Nat]
    BY <1>1, <1>6 DEF SaveChunkBlocks, TypeOK, Phases
  <2>4. files' \in [Fetchers -> [DataTypes -> SUBSET SUBSET Nat]]
    BY <1>1, <1>6 DEF SaveChunkBlocks, TypeOK, NoFiles
  <2> QED
    BY <1>6, <2>1, <2>2, <2>3, <2>4
    DEF SaveChunkBlocks, TypeOK, CacheTypeOK, purgeVars
<1> QED
  BY <1>4, <1>5, <1>6

LEMMA MainTypes == ASSUME TypeOK, NEW p \in Procs, MainStep(p) PROVE TypeOK'
<1>1. CASE Issue(p)
  BY <1>1, IssueTypes
<1>2. CASE Yield(p)
  BY <1>2
  DEF Yield, TypeOK, DbTypeOK, CacheTypeOK, Steps, dbVars, fetchVars, purgeVars
<1>3. CASE YieldError(p)
  BY <1>3, ForgetTypes DEF YieldError, TypeOK, DbTypeOK, CacheTypeOK, dbVars
<1>4. CASE SaveChunkLogs(p) \/ SaveChunkTxs(p) \/ SaveChunkBlocks(p)
  BY <1>4, SaveTypes
<1>5. CASE AllSaved(p)
  BY <1>5
  DEF AllSaved, TypeOK, DbTypeOK, CacheTypeOK, Steps, DataTypes, dbVars,
      fetchVars, purgeVars
<1>6. CASE Prune(p)
  <2>1. CacheTypeOK'
    BY <1>6 DEF Prune, RemoveFiles, TypeOK, CacheTypeOK
  <2>2. CASE pc[p] = "blocks"
    BY <1>6, <2>1, <2>2, ForgetTypes DEF Prune, TypeOK, DbTypeOK, dbVars
  <2>3. CASE pc[p] # "blocks"
    <3>1. pc' = [pc EXCEPT ![p] = NextType(pc[p])]
      BY <1>6, <2>3 DEF Prune, TypeOK
    <3>2. NextType(pc[p]) \in Steps
      BY <1>6, TypeOrder DEF Prune, Steps
    <3>3. pc' \in [Procs -> Steps]
      BY <3>1, <3>2 DEF TypeOK
    <3>4. UNCHANGED <<range, miss, todo, cur, fetchVars>>
      BY <1>6, <2>3 DEF Prune
    <3> QED
      BY <1>6, <2>1, <3>3, <3>4
      DEF Prune, TypeOK, DbTypeOK, dbVars, fetchVars, purgeVars
  <2> QED
    BY <2>2, <2>3
<1> QED
  BY <1>1, <1>2, <1>3, <1>4, <1>5, <1>6 DEF MainStep

LEMMA PurgeTypes == ASSUME TypeOK, Purge \/ PurgeCrash PROVE TypeOK'
<1>1. CASE PurgeBegin
  <2>1. PICK k \in Keeps, m \in blocks : keep' = k /\ cutoff' = CutoffOf(m, k)
    BY <1>1 DEF PurgeBegin
  <2>2. keep' \in Nat /\ cutoff' \in Nat
    BY <2>1, KeepsAssumption, CutoffNat DEF TypeOK, DbTypeOK
  <2> QED
    BY <1>1, <2>2
    DEF PurgeBegin, TypeOK, DbTypeOK, CacheTypeOK, dbVars, runVars, fetchVars
<1>2. CASE PurgeSelect
  BY <1>2
  DEF PurgeSelect, Purgeable, TypeOK, DbTypeOK, CacheTypeOK, dbVars, runVars,
      fetchVars
<1>3. CASE PurgeDelete
  BY <1>3
  DEF PurgeDelete, DeleteThrough, TypeOK, DbTypeOK, CacheTypeOK, runVars,
      fetchVars
<1>4. CASE PurgeEnd \/ PurgeCrash
  <2>1. faults' \in Nat
    BY <1>4, FaultTypes DEF PurgeEnd, PurgeCrash, TypeOK
  <2>2. PurgeOver
    BY <1>4 DEF PurgeEnd, PurgeCrash
  <2>3. DbTypeOK' /\ CacheTypeOK'
    BY <2>2, SameStore DEF PurgeOver
  <2> QED
    BY <2>1, <2>2, <2>3 DEF PurgeOver, TypeOK, runVars, fetchVars
<1> QED
  BY <1>1, <1>2, <1>3, <1>4 DEF Purge

LEMMA TypeStep == TypeOK /\ [Next]_vars => TypeOK'
<1> SUFFICES ASSUME TypeOK, [Next]_vars PROVE TypeOK'
  OBVIOUS
<1>1. ASSUME NEW p \in Procs, Begin(p) \/ MainStep(p) \/ Fail(p) \/ Crash(p)
      PROVE  TypeOK'
  BY <1>1, BeginTypes, MainTypes, FailTypes, CrashTypes
<1>2. ASSUME NEW f \in Fetchers, Fetch(f) PROVE TypeOK'
  BY <1>2, FetchTypes
<1>3. CASE OrphanWrites
  BY <1>3, OrphanTypes
<1>4. CASE Purge \/ PurgeCrash
  BY <1>4, PurgeTypes
<1>5. CASE UNCHANGED vars
  BY <1>5 DEF vars, TypeOK, DbTypeOK, CacheTypeOK
<1> QED
  BY <1>1, <1>2, <1>3, <1>4, <1>5 DEF Next

\* Every variable keeps its type, whatever the parameters: in particular no
\* block number, cutoff or chunk bound ever leaves the naturals.
THEOREM TypeCorrect == Spec => []TypeOK
BY TypeInit, TypeStep, PTL DEF Spec

-----------------------------------------------------------------------------
(* What a purge keeps, whether or not runs overlap it.                     *)

\* The bound of the chunk is an indexed block below the cutoff, and the cutoff
\* leaves room for the `keep` newest blocks: the block it was computed from is
\* still there, because none of them is deleted.
ChunkBelowCutoff == ppc = "delete" => upper \in blocks /\ upper < cutoff
CutoffKeepsWindow ==
    ppc # "idle" /\ cutoff > 0 /\ keep > 0 =>
        \E m \in blocks : cutoff + keep <= m + 1
WindowInv == ChunkBelowCutoff /\ CutoffKeepsWindow

LEMMA CutoffBound ==
    ASSUME NEW m \in Nat, NEW k \in Nat, CutoffOf(m, k) > 0
    PROVE  CutoffOf(m, k) + k = m + 1
BY DEF CutoffOf, SaturatingSub

\* Steps of runs store rows and take none.
LEMMA RunsStore ==
    ASSUME NEW p \in Procs, Begin(p) \/ MainStep(p) \/ Fail(p) \/ Crash(p)
    PROVE  /\ blocks \subseteq blocks' /\ logs \subseteq logs' /\ txs \subseteq txs'
           /\ UNCHANGED purgeVars
BY DEF Begin, MainStep, Fail, Crash, Issue, Yield, YieldError, SaveChunkLogs,
       SaveChunkTxs, SaveChunkBlocks, AllSaved, Prune, SaveLogs, SaveTxs,
       SaveBlocks, dbVars

LEMMA FetchesStore ==
    ASSUME OrphanWrites \/ \E f \in Fetchers : Fetch(f)
    PROVE  UNCHANGED <<dbVars, purgeVars>>
BY DEF OrphanWrites, Fetch, Scan, CryoWrites, CryoDone, Collect, Parse,
       ParseMissing

LEMMA WindowInvKept ==
    ASSUME WindowInv, blocks \subseteq blocks', UNCHANGED purgeVars
    PROVE  WindowInv'
BY DEF WindowInv, ChunkBelowCutoff, CutoffKeepsWindow, purgeVars

LEMMA WindowInit == Init => WindowInv
BY DEF Init, WindowInv, ChunkBelowCutoff, CutoffKeepsWindow

LEMMA PurgeWindow ==
    ASSUME TypeOK, WindowInv, Purge \/ PurgeCrash PROVE WindowInv'
<1>1. CASE PurgeBegin
  <2>1. PICK k \in Keeps, m \in blocks : keep' = k /\ cutoff' = CutoffOf(m, k)
    BY <1>1 DEF PurgeBegin
  <2>2. k \in Nat /\ m \in Nat
    BY <2>1, KeepsAssumption DEF TypeOK, DbTypeOK
  <2>3. cutoff' > 0 => cutoff' + keep' <= m + 1
    BY <2>1, <2>2, CutoffBound
  <2> QED
    BY <1>1, <2>1, <2>3
    DEF PurgeBegin, WindowInv, ChunkBelowCutoff, CutoffKeepsWindow, dbVars
<1>2. CASE PurgeSelect
  BY <1>2 DEF PurgeSelect, Purgeable, WindowInv, ChunkBelowCutoff,
              CutoffKeepsWindow, dbVars
<1>3. CASE PurgeDelete
  <2>1. ppc = "delete" /\ ppc' = "select" /\ UNCHANGED <<keep, cutoff>>
    BY <1>3 DEF PurgeDelete
  <2>2. ASSUME cutoff > 0, keep > 0
        PROVE  \E m \in blocks' : cutoff + keep <= m + 1
    <3>1. PICK m \in blocks : cutoff + keep <= m + 1
      BY <2>1, <2>2 DEF WindowInv, CutoffKeepsWindow
    <3>2. m > upper
      BY <2>1, <2>2, <3>1
      DEF WindowInv, ChunkBelowCutoff, TypeOK, DbTypeOK
    <3>3. m \in blocks'
      BY <1>3, <3>2 DEF PurgeDelete, DeleteThrough, AtMost, TypeOK, DbTypeOK
    <3> QED
      BY <3>1, <3>3
  <2> QED
    BY <2>1, <2>2 DEF WindowInv, ChunkBelowCutoff, CutoffKeepsWindow
<1>4. CASE PurgeEnd \/ PurgeCrash
  BY <1>4 DEF PurgeEnd, PurgeCrash, PurgeOver, WindowInv, ChunkBelowCutoff,
              CutoffKeepsWindow
<1> QED
  BY <1>1, <1>2, <1>3, <1>4 DEF Purge

LEMMA WindowStep == TypeOK /\ WindowInv /\ [Next]_vars => WindowInv'
<1> SUFFICES ASSUME TypeOK, WindowInv, [Next]_vars PROVE WindowInv'
  OBVIOUS
<1>1. CASE \E p \in Procs : Begin(p) \/ MainStep(p) \/ Fail(p) \/ Crash(p)
  BY <1>1, RunsStore, WindowInvKept
<1>2. CASE OrphanWrites \/ \E f \in Fetchers : Fetch(f)
  BY <1>2, FetchesStore, WindowInvKept DEF dbVars
<1>3. CASE Purge \/ PurgeCrash
  BY <1>3, PurgeWindow
<1>4. CASE UNCHANGED vars
  BY <1>4, WindowInvKept DEF vars, purgeVars
<1> QED
  BY <1>1, <1>2, <1>3, <1>4 DEF Next

\* A row in the window lies above the bound of the chunk being deleted.
LEMMA AboveUpper ==
    ASSUME TypeOK, WindowInv, ppc = "delete", NEW b \in Nat, InWindow(b)
    PROVE  b > upper
<1>1. PICK M \in blocks : IsMax(M, blocks) /\ b + keep > M
  BY DEF InWindow
<1>2. M \in Nat /\ upper <= M /\ upper < cutoff
  BY <1>1 DEF WindowInv, ChunkBelowCutoff, IsMax, TypeOK, DbTypeOK
<1>3. CASE keep = 0
  BY <1>1, <1>2, <1>3 DEF TypeOK
<1>4. CASE keep > 0
  <2>1. PICK m \in blocks : cutoff + keep <= m + 1
    BY <1>2, <1>4 DEF WindowInv, CutoffKeepsWindow, TypeOK
  <2>2. m \in Nat /\ m <= M
    BY <1>1, <2>1 DEF IsMax, TypeOK, DbTypeOK
  <2> QED
    BY <1>1, <1>2, <2>1, <2>2 DEF TypeOK
<1> QED
  BY <1>3, <1>4 DEF TypeOK

Kept ==
    /\ \A b \in blocks : InWindow(b) => b \in blocks'
    /\ \A b \in logs : InWindow(b) => b \in logs'
    /\ \A b \in txs : InWindow(b) => b \in txs'

LEMMA StepKeeps == TypeOK /\ WindowInv /\ [Next]_vars => [Kept]_vars
<1> SUFFICES ASSUME TypeOK, WindowInv, Next PROVE Kept
  BY DEF vars
<1>1. CASE \E p \in Procs : Begin(p) \/ MainStep(p) \/ Fail(p) \/ Crash(p)
  BY <1>1, RunsStore DEF Kept
<1>2. CASE OrphanWrites \/ \E f \in Fetchers : Fetch(f)
  BY <1>2, FetchesStore DEF Kept, dbVars
<1>3. CASE PurgeDelete
  BY <1>3, AboveUpper
  DEF PurgeDelete, DeleteThrough, AtMost, Kept, TypeOK, DbTypeOK
<1>4. CASE PurgeBegin \/ PurgeSelect \/ PurgeEnd \/ PurgeCrash
  BY <1>4 DEF PurgeBegin, PurgeSelect, PurgeEnd, PurgeCrash, PurgeOver, Kept,
              dbVars
<1> QED
  BY <1>1, <1>2, <1>3, <1>4 DEF Next, Purge

\* No step of any process takes a row of one of the `keep` newest blocks, for
\* any chunk size of the purge, and also while runs index above it.
THEOREM WindowIsKept == Spec => KeptWindowUntouched
<1>1. Init => TypeOK /\ WindowInv
  BY TypeInit, WindowInit
<1>2. TypeOK /\ WindowInv /\ [Next]_vars => (TypeOK /\ WindowInv)'
  BY TypeStep, WindowStep
<1>3. TypeOK /\ WindowInv /\ [Next]_vars => [Kept]_vars
  BY StepKeeps
<1> QED
  BY <1>1, <1>2, <1>3, PTL DEF Spec, KeptWindowUntouched, Kept

-----------------------------------------------------------------------------
(***************************************************************************)
(* The inductive invariant IndexInv.                                       *)
(***************************************************************************)

\* Nothing a fetch relies on goes away: a block that a cached file covers stays
\* covered, or is indexed.
CoveredGrows == \A t \in DataTypes : Covered(t) \subseteq Covered(t)'
StoreGrows == blocks \subseteq blocks' /\ logs \subseteq logs' /\ txs \subseteq txs'

SlotKept(f) ==
    /\ phase'[f] = phase[f]
    /\ dtype'[f] = dtype[f]
    /\ chunk'[f] = chunk[f]
    /\ need'[f] = need[f]
    /\ files'[f] = files[f]

RunKept(p) ==
    /\ pc'[p] = pc[p]
    /\ range'[p] = range[p]
    /\ todo'[p] = todo[p]
    /\ cur'[p] = cur[p]
    /\ \A s \in Slots :
        /\ chunk'[<<p, s>>] = chunk[<<p, s>>]
        /\ phase[<<p, s>>] \in {"free", "ready"} =>
            phase'[<<p, s>>] = phase[<<p, s>>]

-----------------------------------------------------------------------------
(* What a step that leaves a fetch, or a run, alone preserves of it.       *)

LEMMA FetchInvKept ==
    ASSUME TypeOK, NEW f \in Fetchers, FetchInv(f), SlotKept(f), CoveredGrows,
           blocks \subseteq blocks'
    PROVE  FetchInv(f)'
<1>1. dtype[f] \in DataTypes
  BY DEF TypeOK
<1>2. SlotShape(f)'
  BY DEF FetchInv, SlotShape, SlotKept
<1>3. GapsWritten(f)'
  BY <1>1 DEF FetchInv, GapsWritten, SlotKept, CoveredGrows, Covered
<1>4. ScannedCovered(f)'
  BY DEF FetchInv, ScannedCovered, Scanned, SlotKept, CoveredGrows, Covered
<1>5. CollectedCovered(f)'
  BY DEF FetchInv, CollectedCovered, Collected, SlotKept
<1> QED
  BY <1>2, <1>3, <1>4, <1>5 DEF FetchInv

LEMMA RunInvKept ==
    ASSUME TypeOK, NEW p \in Procs, RunInv(p), RunKept(p), StoreGrows
    PROVE  RunInv(p)'
<1>1. cur[p] \in Slots
  BY DEF TypeOK
<1>2. IdleSlotsFree(p)'
  BY DEF RunInv, IdleSlotsFree, RunKept
<1>3. SavedInOrder(p)'
  BY <1>1 DEF RunInv, SavedInOrder, Saving, RunKept, StoreGrows, CurOf
<1>4. RangeAccounted(p)'
  <2>1. \A b : InHand(p, b)' <=> InHand(p, b)
    BY DEF InHand, RunKept
  <2> QED
    BY <2>1 DEF RunInv, RangeAccounted, RunKept, StoreGrows
<1> QED
  BY <1>2, <1>3, <1>4 DEF RunInv

LEMMA InvInit == Init => IndexInv
<1> SUFFICES ASSUME Init PROVE IndexInv
  OBVIOUS
<1>1. FlaggedComplete /\ PurgeAlone /\ RangeCovered
  BY DEF Init, DbInit, FlaggedComplete, PurgeAlone, RangeCovered, DataTypes
<1>2. ASSUME NEW f \in Fetchers PROVE FetchInv(f)
  BY DEF Init, FetchInv, SlotShape, GapsWritten, ScannedCovered, Scanned,
         CollectedCovered, Collected
<1>3. ASSUME NEW p \in Procs PROVE RunInv(p)
  BY DEF Init, RunInv, IdleSlotsFree, SavedInOrder, RangeAccounted, Saving,
         Fetchers
<1> QED
  BY <1>1, <1>2, <1>3 DEF IndexInv

-----------------------------------------------------------------------------
(* One lemma for each action of a run.                                     *)

\* A process ends or is gone.
LEMMA ForgetInv ==
    ASSUME TypeOK, IndexInv, NEW p \in Procs, Forget(p), CoveredGrows,
           UNCHANGED <<dbVars, ppc>>
    PROVE  IndexInv'
<1>1. blocks \subseteq blocks' /\ StoreGrows
  BY DEF dbVars, StoreGrows
<1>2. ASSUME NEW f \in Fetchers PROVE FetchInv(f)'
  <2>1. CASE f[1] = p
    BY <2>1 DEF Forget, FetchInv, SlotShape, GapsWritten, ScannedCovered,
                Scanned, CollectedCovered, Collected
  <2>2. CASE f[1] # p
    <3>1. SlotKept(f)
      BY <2>2 DEF Forget, SlotKept
    <3> QED
      BY <1>1, <3>1, FetchInvKept DEF IndexInv
  <2> QED
    BY <2>1, <2>2
<1>3. ASSUME NEW q \in Procs PROVE RunInv(q)'
  <2>1. CASE q = p
    BY <2>1 DEF TypeOK, Forget, RunInv, IdleSlotsFree, SavedInOrder,
                RangeAccounted, Saving, Fetchers
  <2>2. CASE q # p
    <3>1. RunKept(q)
      BY <2>2 DEF TypeOK, Forget, RunKept, Fetchers
    <3> QED
      BY <1>1, <3>1, RunInvKept DEF IndexInv
  <2> QED
    BY <2>1, <2>2
<1>4. FlaggedComplete'
  BY DEF IndexInv, FlaggedComplete, Complete, dbVars
<1>5. PurgeAlone'
  BY DEF IndexInv, PurgeAlone, TypeOK, Forget
<1>6. RangeCovered'
  BY DEF IndexInv, RangeCovered, TypeOK, Forget, dbVars, DataTypes
<1> QED
  BY <1>2, <1>3, <1>4, <1>5, <1>6 DEF IndexInv

LEMMA BeginInv ==
    ASSUME TypeOK, IndexInv, PurgeExcludes = Procs, NEW p \in Procs, Begin(p)
    PROVE  IndexInv'
<1>1. PICK r \in Ranges :
        /\ range' = [range EXCEPT ![p] = r]
        /\ todo' = [todo EXCEPT
                        ![p] = Chunks(MissingBlocks(r[1], r[2]), BatchSize)]
  BY DEF Begin
<1>2. CoveredGrows /\ StoreGrows
  BY DEF Begin, CoveredGrows, StoreGrows, Covered, dbVars
<1>3. ASSUME NEW f \in Fetchers PROVE FetchInv(f)'
  BY <1>2, FetchInvKept DEF IndexInv, Begin, SlotKept, StoreGrows, fetchVars
<1>4. ASSUME NEW q \in Procs PROVE RunInv(q)'
  <2>1. CASE q = p
    <3>1. pc'[p] = "fetching" /\ range'[p] = r
      BY <1>1 DEF Begin, TypeOK
    <3>2. \A b \in MissingBlocks(r[1], r[2]) : InHand(p, b)'
      BY <1>1, ChunksCover DEF TypeOK, InHand
    <3>3. RangeAccounted(p)'
      BY <3>1, <3>2 DEF Begin, RangeAccounted, MissingBlocks, dbVars
    <3> QED
      BY <2>1, <3>1, <3>3 DEF RunInv, IdleSlotsFree, SavedInOrder, Saving
  <2>2. CASE q # p
    <3>1. RunKept(q)
      BY <1>1, <2>2 DEF Begin, RunKept, TypeOK, fetchVars
    <3> QED
      BY <1>2, <3>1, RunInvKept DEF IndexInv
  <2> QED
    BY <2>1, <2>2
<1>5. FlaggedComplete'
  BY DEF Begin, IndexInv, FlaggedComplete, Complete, dbVars
<1>6. PurgeAlone'
  BY DEF Begin, PurgeAlone, purgeVars
<1>7. RangeCovered'
  BY DEF Begin, IndexInv, RangeCovered, TypeOK, DataTypes, dbVars
<1> QED
  BY <1>3, <1>4, <1>5, <1>6, <1>7 DEF IndexInv

LEMMA IssueInv ==
    ASSUME TypeOK, IndexInv, NEW p \in Procs, Issue(p) PROVE IndexInv'
<1>1. PICK c \in todo[p], s \in Slots :
        /\ phase[<<p, s>>] = "free"
        /\ phase' = [phase EXCEPT ![<<p, s>>] = "scan"]
        /\ chunk' = [chunk EXCEPT ![<<p, s>>] = c]
        /\ todo' = [todo EXCEPT ![p] = @ \ {c}]
  BY DEF Issue
<1> DEFINE g == <<p, s>>
<1>2. g \in Fetchers /\ pc[p] = "fetching"
  BY DEF Issue, Fetchers
<1>3. CoveredGrows /\ StoreGrows
  BY DEF Issue, CoveredGrows, StoreGrows, Covered, dbVars
<1>4. ASSUME NEW f \in Fetchers PROVE FetchInv(f)'
  <2>1. CASE f = g
    <3>1. phase'[f] = "scan" /\ dtype'[f] = "transactions"
      BY <1>1, <1>2, <2>1 DEF Issue, IndexInv, FetchInv, SlotShape, TypeOK
    <3> QED
      BY <3>1, TypeOrder DEF FetchInv, SlotShape, GapsWritten, ScannedCovered,
                             Scanned, CollectedCovered, Collected, DataTypes
  <2>2. CASE f # g
    <3>1. SlotKept(f)
      BY <1>1, <2>2 DEF Issue, SlotKept, TypeOK
    <3> QED
      BY <1>3, <3>1, FetchInvKept DEF IndexInv, StoreGrows
  <2> QED
    BY <2>1, <2>2
<1>5. ASSUME NEW q \in Procs PROVE RunInv(q)'
  <2>1. CASE q = p
    <3>1. todo'[p] = todo[p] \ {c}
      BY <1>1 DEF TypeOK
    <3>2. chunk[g] = {} /\ chunk'[g] = c
      BY <1>1, <1>2 DEF IndexInv, FetchInv, SlotShape, TypeOK
    <3>3. \A r \in Slots : r # s => chunk'[<<p, r>>] = chunk[<<p, r>>]
      BY <1>1 DEF TypeOK, Fetchers
    <3>4. ASSUME NEW b, InHand(p, b) PROVE InHand(p, b)'
      <4>1. CASE \E d \in todo[p] : b \in d
        BY <3>1, <3>2, <4>1 DEF InHand
      <4>2. CASE \E r \in Slots : b \in chunk[<<p, r>>]
        BY <3>2, <3>3, <4>2 DEF InHand
      <4> QED
        BY <3>4, <4>1, <4>2 DEF InHand
    <3>6. pc' = pc /\ range' = range /\ blocks' = blocks
      BY DEF Issue, dbVars
    <3> QED
      BY <1>2, <2>1, <3>4, <3>6
      DEF IndexInv, RunInv, IdleSlotsFree, SavedInOrder, RangeAccounted, Saving
  <2>2. CASE q # p
    <3>1. RunKept(q)
      BY <1>1, <2>2 DEF Issue, RunKept, TypeOK, Fetchers
    <3> QED
      BY <1>3, <3>1, RunInvKept DEF IndexInv
  <2> QED
    BY <2>1, <2>2
<1>6. FlaggedComplete' /\ PurgeAlone' /\ RangeCovered'
  BY DEF Issue, IndexInv, FlaggedComplete, Complete, PurgeAlone, RangeCovered,
         dbVars, purgeVars
<1> QED
  BY <1>4, <1>5, <1>6 DEF IndexInv

LEMMA YieldInv ==
    ASSUME TypeOK, IndexInv, NEW p \in Procs, Yield(p) PROVE IndexInv'
<1>1. PICK s \in Slots :
        phase[<<p, s>>] = "ready" /\ cur' = [cur EXCEPT ![p] = s]
  BY DEF Yield
<1>2. pc[p] = "fetching" /\ pc' = [pc EXCEPT ![p] = "saveLogs"]
  BY DEF Yield
<1>3. CoveredGrows /\ StoreGrows
  BY DEF Yield, CoveredGrows, StoreGrows, Covered, dbVars
<1>4. ASSUME NEW f \in Fetchers PROVE FetchInv(f)'
  BY <1>3, FetchInvKept DEF IndexInv, Yield, SlotKept, StoreGrows, fetchVars
<1>5. ASSUME NEW q \in Procs PROVE RunInv(q)'
  <2>1. CASE q = p
    <3>1. pc'[p] = "saveLogs" /\ cur'[p] = s
      BY <1>1, <1>2 DEF TypeOK
    <3>2. SavedInOrder(p)' /\ IdleSlotsFree(p)'
      BY <1>1, <3>1
      DEF Yield, SavedInOrder, IdleSlotsFree, Saving, CurOf, fetchVars
    <3>3. (\A b : InHand(p, b)' <=> InHand(p, b)) /\ range' = range
          /\ blocks' = blocks
      BY DEF Yield, InHand, fetchVars, dbVars
    <3> QED
      BY <1>2, <2>1, <3>2, <3>3 DEF IndexInv, RunInv, RangeAccounted
  <2>2. CASE q # p
    <3>1. RunKept(q)
      BY <1>1, <1>2, <2>2 DEF Yield, RunKept, TypeOK, fetchVars
    <3> QED
      BY <1>3, <3>1, RunInvKept DEF IndexInv
  <2> QED
    BY <2>1, <2>2
<1>6. FlaggedComplete' /\ PurgeAlone'
  BY <1>2 DEF Yield, IndexInv, FlaggedComplete, Complete, PurgeAlone, TypeOK,
              dbVars, purgeVars
<1>7. RangeCovered'
  BY <1>2 DEF Yield, IndexInv, RangeCovered, TypeOK, DataTypes, dbVars
<1> QED
  BY <1>4, <1>5, <1>6, <1>7 DEF IndexInv

\* The rows a fetch has collected are all of its chunk that is not indexed yet.
LEMMA FetchedAll ==
    ASSUME TypeOK, IndexInv, NEW p \in Procs, pc[p] \in Saving,
           NEW t \in DataTypes
    PROVE  /\ CurOf(p) \in Fetchers
           /\ chunk[CurOf(p)] \subseteq Fetched(CurOf(p), t) \cup blocks
<1>1. CurOf(p) \in Fetchers
  BY DEF TypeOK, CurOf, Fetchers
<1>2. phase[CurOf(p)] = "ready"
  BY DEF IndexInv, RunInv, SavedInOrder
<1>3. chunk[CurOf(p)] \subseteq (UNION files[CurOf(p)][t]) \cup blocks
  BY <1>1, <1>2 DEF IndexInv, FetchInv, CollectedCovered, Collected
<1> QED
  BY <1>1, <1>3 DEF Fetched

LEMMA SaveLogsInv ==
    ASSUME TypeOK, IndexInv, NEW p \in Procs, SaveChunkLogs(p) PROVE IndexInv'
<1>1. pc[p] = "saveLogs" /\ pc' = [pc EXCEPT ![p] = "saveTxs"]
  BY DEF SaveChunkLogs
<1>2. CoveredGrows /\ StoreGrows
  BY DEF SaveChunkLogs, SaveLogs, CoveredGrows, StoreGrows, Covered
<1>3. ASSUME NEW f \in Fetchers PROVE FetchInv(f)'
  BY <1>2, FetchInvKept
  DEF IndexInv, SaveChunkLogs, SlotKept, StoreGrows, fetchVars
<1>4. chunk[CurOf(p)] \subseteq logs' /\ phase[CurOf(p)] = "ready"
  <2>1. "logs" \in DataTypes /\ pc[p] \in Saving
    BY <1>1 DEF DataTypes, Saving
  <2>2. chunk[CurOf(p)] \subseteq Fetched(CurOf(p), "logs") \cup blocks
    BY <2>1, FetchedAll
  <2>3. blocks \subseteq logs
    BY DEF IndexInv, FlaggedComplete, Complete
  <2> QED
    BY <2>1, <2>2, <2>3
    DEF SaveChunkLogs, SaveLogs, IndexInv, RunInv, SavedInOrder
<1>5. ASSUME NEW q \in Procs PROVE RunInv(q)'
  <2>1. CASE q = p
    <3>1. pc'[p] = "saveTxs" /\ CurOf(p)' = CurOf(p)
      BY <1>1 DEF TypeOK, SaveChunkLogs, CurOf
    <3>2. SavedInOrder(p)' /\ IdleSlotsFree(p)'
      BY <1>4, <3>1
      DEF SaveChunkLogs, SavedInOrder, IdleSlotsFree, fetchVars
    <3>3. (\A b : InHand(p, b)' <=> InHand(p, b)) /\ range' = range
          /\ blocks' = blocks
      BY DEF SaveChunkLogs, InHand, fetchVars
    <3> QED
      BY <1>1, <2>1, <3>2, <3>3 DEF IndexInv, RunInv, RangeAccounted, Saving
  <2>2. CASE q # p
    <3>1. RunKept(q)
      BY <1>1, <2>2 DEF SaveChunkLogs, RunKept, TypeOK, fetchVars
    <3> QED
      BY <1>2, <3>1, RunInvKept DEF IndexInv
  <2> QED
    BY <2>1, <2>2
<1>6. FlaggedComplete' /\ PurgeAlone'
  BY <1>1, <1>2 DEF SaveChunkLogs, IndexInv, FlaggedComplete, Complete,
                    PurgeAlone, StoreGrows, TypeOK, purgeVars
<1>7. RangeCovered'
  BY <1>1 DEF SaveChunkLogs, IndexInv, RangeCovered, TypeOK, DataTypes
<1> QED
  BY <1>3, <1>5, <1>6, <1>7 DEF IndexInv

LEMMA SaveTxsInv ==
    ASSUME TypeOK, IndexInv, NEW p \in Procs, SaveChunkTxs(p) PROVE IndexInv'
<1>1. pc[p] = "saveTxs" /\ pc' = [pc EXCEPT ![p] = "saveBlocks"]
  BY DEF SaveChunkTxs
<1>2. CoveredGrows /\ StoreGrows
  BY DEF SaveChunkTxs, SaveTxs, CoveredGrows, StoreGrows, Covered
<1>3. ASSUME NEW f \in Fetchers PROVE FetchInv(f)'
  BY <1>2, FetchInvKept
  DEF IndexInv, SaveChunkTxs, SlotKept, StoreGrows, fetchVars
<1>4. /\ chunk[CurOf(p)] \subseteq logs
      /\ chunk[CurOf(p)] \subseteq txs'
      /\ phase[CurOf(p)] = "ready"
  <2>1. "transactions" \in DataTypes /\ pc[p] \in Saving
    BY <1>1 DEF DataTypes, Saving
  <2>2. chunk[CurOf(p)] \subseteq Fetched(CurOf(p), "transactions") \cup blocks
    BY <2>1, FetchedAll
  <2>3. blocks \subseteq txs
    BY DEF IndexInv, FlaggedComplete, Complete
  <2> QED
    BY <1>1, <2>1, <2>2, <2>3
    DEF SaveChunkTxs, SaveTxs, IndexInv, RunInv, SavedInOrder
<1>5. ASSUME NEW q \in Procs PROVE RunInv(q)'
  <2>1. CASE q = p
    <3>1. pc'[p] = "saveBlocks" /\ CurOf(p)' = CurOf(p)
      BY <1>1 DEF TypeOK, SaveChunkTxs, CurOf
    <3>2. SavedInOrder(p)' /\ IdleSlotsFree(p)'
      BY <1>4, <3>1
      DEF SaveChunkTxs, SavedInOrder, IdleSlotsFree, fetchVars
    <3>3. (\A b : InHand(p, b)' <=> InHand(p, b)) /\ range' = range
          /\ blocks' = blocks
      BY DEF SaveChunkTxs, InHand, fetchVars
    <3> QED
      BY <1>1, <2>1, <3>2, <3>3 DEF IndexInv, RunInv, RangeAccounted, Saving
  <2>2. CASE q # p
    <3>1. RunKept(q)
      BY <1>1, <2>2 DEF SaveChunkTxs, RunKept, TypeOK, fetchVars
    <3> QED
      BY <1>2, <3>1, RunInvKept DEF IndexInv
  <2> QED
    BY <2>1, <2>2
<1>6. FlaggedComplete' /\ PurgeAlone'
  BY <1>1, <1>2 DEF SaveChunkTxs, IndexInv, FlaggedComplete, Complete,
                    PurgeAlone, StoreGrows, TypeOK, purgeVars
<1>7. RangeCovered'
  BY <1>1 DEF SaveChunkTxs, IndexInv, RangeCovered, TypeOK, DataTypes
<1> QED
  BY <1>3, <1>5, <1>6, <1>7 DEF IndexInv

\* The step that flags blocks: their logs and transactions are in by now.
LEMMA SaveBlocksInv ==
    ASSUME TypeOK, IndexInv, NEW p \in Procs, SaveChunkBlocks(p)
    PROVE  IndexInv'
<1> DEFINE g == CurOf(p)
<1>1. pc[p] = "saveBlocks" /\ pc' = [pc EXCEPT ![p] = "fetching"]
  BY DEF SaveChunkBlocks
<1>2. CoveredGrows /\ StoreGrows
  BY DEF SaveChunkBlocks, SaveBlocks, CoveredGrows, StoreGrows, Covered
<1>3. /\ g \in Fetchers
      /\ chunk[g] \subseteq blocks'
      /\ Fetched(g, "blocks") \subseteq logs \cap txs
      /\ phase[g] = "ready" /\ dtype[g] = "transactions"
  <2>1. "blocks" \in DataTypes /\ pc[p] \in Saving
    BY <1>1 DEF DataTypes, Saving
  <2>2. g \in Fetchers /\ chunk[g] \subseteq Fetched(g, "blocks") \cup blocks
    BY <2>1, FetchedAll
  <2>3. chunk[g] \subseteq blocks'
    BY <2>2 DEF SaveChunkBlocks, SaveBlocks
  <2>4. phase[g] = "ready" /\ chunk[g] \subseteq logs /\ chunk[g] \subseteq txs
    BY <1>1, <2>1 DEF IndexInv, RunInv, SavedInOrder
  <2>5. dtype[g] = "transactions"
    BY <2>2, <2>4 DEF IndexInv, FetchInv, SlotShape
  <2> QED
    BY <2>2, <2>3, <2>4, <2>5 DEF Fetched
<1>4. ASSUME NEW f \in Fetchers PROVE FetchInv(f)'
  <2>1. CASE f = g
    <3>1. phase'[f] = "free" /\ chunk'[f] = {} /\ dtype'[f] = "transactions"
      BY <1>3, <2>1 DEF SaveChunkBlocks, TypeOK
    <3> QED
      BY <3>1 DEF FetchInv, SlotShape, GapsWritten, ScannedCovered, Scanned,
                  CollectedCovered, Collected
  <2>2. CASE f # g
    <3>1. SlotKept(f)
      BY <2>2 DEF SaveChunkBlocks, SlotKept, TypeOK
    <3> QED
      BY <1>2, <3>1, FetchInvKept DEF IndexInv, StoreGrows
  <2> QED
    BY <2>1, <2>2
<1>5. ASSUME NEW q \in Procs PROVE RunInv(q)'
  <2>1. CASE q = p
    <3>1. pc'[p] = "fetching" /\ range' = range /\ todo' = todo
      BY <1>1 DEF TypeOK, SaveChunkBlocks
    <3>2. \A s \in Slots : s # cur[p] => chunk'[<<p, s>>] = chunk[<<p, s>>]
      BY DEF SaveChunkBlocks, TypeOK, CurOf, Fetchers
    <3>3. ASSUME NEW b, InHand(p, b), b \notin blocks' PROVE InHand(p, b)'
      BY <1>3, <3>1, <3>2, <3>3 DEF InHand, CurOf
    <3>4. RangeAccounted(p)'
      BY <1>1, <1>2, <3>1, <3>3
      DEF IndexInv, RunInv, RangeAccounted, Saving, StoreGrows
    <3> QED
      BY <2>1, <3>1, <3>4 DEF RunInv, SavedInOrder, IdleSlotsFree, Saving
  <2>2. CASE q # p
    <3>1. RunKept(q)
      BY <1>1, <2>2 DEF SaveChunkBlocks, RunKept, TypeOK, CurOf, Fetchers
    <3> QED
      BY <1>2, <3>1, RunInvKept DEF IndexInv
  <2> QED
    BY <2>1, <2>2
<1>6. FlaggedComplete'
  BY <1>3 DEF SaveChunkBlocks, SaveBlocks, IndexInv, FlaggedComplete, Complete
<1>7. PurgeAlone'
  BY <1>1 DEF SaveChunkBlocks, IndexInv, PurgeAlone, TypeOK, purgeVars
<1>8. RangeCovered'
  BY <1>1, <1>2
  DEF SaveChunkBlocks, IndexInv, RangeCovered, TypeOK, DataTypes, StoreGrows
<1> QED
  BY <1>4, <1>5, <1>6, <1>7, <1>8 DEF IndexInv

LEMMA AllSavedInv ==
    ASSUME TypeOK, IndexInv, NEW p \in Procs, AllSaved(p) PROVE IndexInv'
<1>1. /\ pc[p] = "fetching" /\ pc' = [pc EXCEPT ![p] = "transactions"]
      /\ todo[p] = {}
      /\ \A s \in Slots : phase[<<p, s>>] = "free"
  BY DEF AllSaved
<1>2. CoveredGrows /\ StoreGrows
  BY DEF AllSaved, CoveredGrows, StoreGrows, Covered, dbVars
<1>3. ASSUME NEW f \in Fetchers PROVE FetchInv(f)'
  BY <1>2, FetchInvKept DEF IndexInv, AllSaved, SlotKept, StoreGrows, fetchVars
<1>4. ASSUME NEW q \in Procs PROVE RunInv(q)'
  <2>1. CASE q = p
    BY <1>1, <2>1
    DEF RunInv, IdleSlotsFree, SavedInOrder, RangeAccounted, Saving, TypeOK
  <2>2. CASE q # p
    <3>1. RunKept(q)
      BY <1>1, <2>2 DEF AllSaved, RunKept, TypeOK, fetchVars
    <3> QED
      BY <1>2, <3>1, RunInvKept DEF IndexInv
  <2> QED
    BY <2>1, <2>2
<1>5. (range[p][1] .. range[p][2]) \subseteq blocks
  <2>1. \A s \in Slots : chunk[<<p, s>>] = {}
    BY <1>1 DEF IndexInv, FetchInv, SlotShape, Fetchers
  <2>2. RangeAccounted(p)
    BY DEF IndexInv, RunInv
  <2> QED
    BY <1>1, <2>1, <2>2 DEF RangeAccounted, InHand
<1>6. FlaggedComplete' /\ PurgeAlone'
  BY <1>1 DEF AllSaved, IndexInv, FlaggedComplete, Complete, PurgeAlone, TypeOK,
              dbVars, purgeVars
<1>7. RangeCovered'
  BY <1>1, <1>5 DEF AllSaved, IndexInv, RangeCovered, TypeOK, dbVars
<1> QED
  BY <1>3, <1>4, <1>6, <1>7 DEF IndexInv

\* Files are pruned only when all of their blocks are indexed.
LEMMA PruneCovered ==
    ASSUME TypeOK, NEW p \in Procs, Prune(p) PROVE CoveredGrows
<1> SUFFICES ASSUME NEW t \in DataTypes, NEW b \in Covered(t), b \notin blocks
             PROVE  b \in UNION cache'[t]
  BY DEF CoveredGrows, Covered, Prune, dbVars
<1>1. PICK F \in cache[t] : b \in F
  BY DEF Covered
<1>2. F \in cache'[t]
  BY <1>1, PrunableIndexed DEF Prune, RemoveFiles, TypeOK, CacheTypeOK
<1> QED
  BY <1>1, <1>2

LEMMA PruneInv ==
    ASSUME TypeOK, IndexInv, NEW p \in Procs, Prune(p) PROVE IndexInv'
<1>1. CoveredGrows /\ StoreGrows
  BY PruneCovered DEF Prune, StoreGrows, dbVars
<1>2. CASE pc[p] = "blocks"
  BY <1>1, <1>2, ForgetInv DEF Prune, purgeVars
<1>3. CASE pc[p] # "blocks"
  <2>1. /\ pc[p] \in DataTypes /\ NextType(pc[p]) \in DataTypes
        /\ pc' = [pc EXCEPT ![p] = NextType(pc[p])]
    BY <1>3, TypeOrder DEF Prune, TypeOK
  <2>2. /\ UNCHANGED <<range, miss, todo, cur, fetchVars>>
        /\ UNCHANGED <<dbVars, purgeVars>>
    BY <1>3 DEF Prune
  <2>3. ASSUME NEW f \in Fetchers PROVE FetchInv(f)'
    BY <1>1, <2>2, FetchInvKept DEF IndexInv, SlotKept, StoreGrows, fetchVars
  <2>4. ASSUME NEW q \in Procs PROVE RunInv(q)'
    <3>1. CASE q = p
      <4>1. pc'[p] \in DataTypes
        BY <2>1 DEF TypeOK
      <4> QED
        BY <3>1, <4>1 DEF RunInv, IdleSlotsFree, SavedInOrder, RangeAccounted,
                          Saving, DataTypes
    <3>2. CASE q # p
      <4>1. RunKept(q)
        BY <2>1, <2>2, <3>2 DEF RunKept, TypeOK, fetchVars
      <4> QED
        BY <1>1, <4>1, RunInvKept DEF IndexInv
    <3> QED
      BY <3>1, <3>2
  <2>5. FlaggedComplete'
    BY <2>2 DEF IndexInv, FlaggedComplete, Complete, dbVars
  <2>6. PurgeAlone'
    BY <2>1, <2>2 DEF IndexInv, PurgeAlone, DataTypes, purgeVars
  <2>7. RangeCovered'
    BY <2>1, <2>2 DEF IndexInv, RangeCovered, TypeOK, dbVars
  <2> QED
    BY <2>3, <2>4, <2>5, <2>6, <2>7 DEF IndexInv
<1> QED
  BY <1>2, <1>3

-----------------------------------------------------------------------------
(* The steps of a fetch.                                                   *)

\* What a step of one fetch has to show: the rest follows.
LEMMA OneFetchInv ==
    ASSUME TypeOK, IndexInv, NEW f \in Fetchers, FetchInv(f)', CoveredGrows,
           UNCHANGED <<dbVars, runVars, chunk, ppc>>,
           phase[f] \notin {"free", "ready"},
           \A g \in Fetchers \ {f} : SlotKept(g)
    PROVE  IndexInv'
<1>1. StoreGrows
  BY DEF StoreGrows, dbVars
<1>2. ASSUME NEW g \in Fetchers PROVE FetchInv(g)'
  BY <1>1, FetchInvKept DEF IndexInv, StoreGrows
<1>3. ASSUME NEW p \in Procs PROVE RunInv(p)'
  <2>1. RunKept(p)
    BY DEF RunKept, SlotKept, Fetchers, runVars
  <2> QED
    BY <1>1, <2>1, RunInvKept DEF IndexInv
<1>4. FlaggedComplete' /\ PurgeAlone' /\ RangeCovered'
  BY DEF IndexInv, FlaggedComplete, Complete, PurgeAlone, RangeCovered, dbVars,
         runVars
<1> QED
  BY <1>2, <1>3, <1>4 DEF IndexInv

\* On to the next data type: what has been shown for dtype[f] is kept.
LEMMA ScanStepCovered ==
    ASSUME TypeOK, NEW f \in Fetchers, phase[f] \in {"scan", "run", "ran"},
           FetchInv(f), StepType(f, "scan", "collect"),
           UNCHANGED <<blocks, cache, chunk, files>>,
           chunk[f] \subseteq Covered(dtype[f])
    PROVE  FetchInv(f)'
<1>1. dtype[f] \in DataTypes
  BY DEF TypeOK
<1>2. CASE dtype[f] = "blocks"
  <2>1. phase'[f] = "collect" /\ dtype'[f] = "transactions"
    BY <1>2 DEF StepType, TypeOK
  <2>2. \A t \in DataTypes : chunk[f] \subseteq Covered(t)
    BY <1>1, <1>2, TypeOrder DEF FetchInv, ScannedCovered, Scanned
  <2> QED
    BY <2>1, <2>2, TypeOrder
    DEF FetchInv, SlotShape, GapsWritten, ScannedCovered, CollectedCovered,
        Collected, Covered, DataTypes
<1>3. CASE dtype[f] # "blocks"
  <2>1. phase'[f] = "scan" /\ dtype'[f] = NextType(dtype[f])
    BY <1>3 DEF StepType, TypeOK
  <2>2. ScannedCovered(f)'
    BY <1>1, <1>3, <2>1, TypeOrder
    DEF FetchInv, ScannedCovered, Scanned, Covered
  <2> QED
    BY <2>1, <2>2 DEF FetchInv, SlotShape, GapsWritten, CollectedCovered,
                      Collected
<1> QED
  BY <1>2, <1>3

LEMMA ScanInv ==
    ASSUME TypeOK, IndexInv, NEW f \in Fetchers, Scan(f) PROVE IndexInv'
<1>1. phase[f] = "scan" /\ dtype[f] \in DataTypes /\ FetchInv(f)
  BY DEF Scan, TypeOK, IndexInv
<1>2. need'[f] = Uncovered(dtype[f], chunk[f])
  BY DEF Scan, TypeOK
<1>3. CoveredGrows
  BY DEF Scan, CoveredGrows, Covered, dbVars
<1>4. FetchInv(f)'
  <2>1. CASE Uncovered(dtype[f], chunk[f]) = {}
    <3>1. chunk[f] \subseteq Covered(dtype[f])
      BY <2>1 DEF Uncovered, Covered
    <3> QED
      BY <1>1, <2>1, <3>1, ScanStepCovered DEF Scan, dbVars
  <2>2. CASE Uncovered(dtype[f], chunk[f]) # {}
    <3>1. phase'[f] = "run" /\ dtype' = dtype
      BY <2>2 DEF Scan, TypeOK
    <3>2. GapsWritten(f)'
      BY <1>2, <3>1 DEF Scan, GapsWritten, Uncovered, Covered, dbVars
    <3> QED
      BY <1>1, <3>1, <3>2
      DEF Scan, FetchInv, SlotShape, ScannedCovered, Scanned, CollectedCovered,
          Collected, Covered, dbVars
  <2> QED
    BY <2>1, <2>2
<1>5. \A g \in Fetchers \ {f} : SlotKept(g)
  BY DEF Scan, StepType, SlotKept, TypeOK
<1> QED
  BY <1>1, <1>3, <1>4, <1>5, OneFetchInv DEF Scan, purgeVars

LEMMA CryoWritesInv ==
    ASSUME TypeOK, IndexInv, NEW f \in Fetchers, CryoWrites(f) PROVE IndexInv'
<1>1. phase[f] = "run" /\ dtype[f] \in DataTypes /\ FetchInv(f)
  BY DEF CryoWrites, TypeOK, IndexInv
<1>2. phase'[f] = "ran" /\ dtype' = dtype /\ need' = need /\ chunk' = chunk
  BY DEF CryoWrites, TypeOK
<1>3. cache' = [cache EXCEPT ![dtype[f]] = @ \cup {FirstGap(need[f])}]
  BY DEF CryoWrites, WriteFile
<1>4. CoveredGrows
  BY <1>3 DEF CryoWrites, CoveredGrows, Covered, TypeOK, CacheTypeOK, dbVars
<1>5. FetchInv(f)'
  <2>1. FirstGap(need[f]) \in cache'[dtype[f]]
    BY <1>1, <1>3 DEF TypeOK, CacheTypeOK
  <2>2. FirstGap(need[f]) \subseteq Covered(dtype[f])'
    BY <1>2, <2>1 DEF Covered
  <2>3. chunk[f] \ need[f] \subseteq Covered(dtype[f])'
    <3>1. chunk[f] \ need[f] \subseteq Covered(dtype[f])
      BY <1>1 DEF FetchInv, GapsWritten
    <3>2. Covered(dtype[f]) \subseteq Covered(dtype[f])'
      BY <1>1, <1>2, <1>4 DEF CoveredGrows, Covered
    <3> QED
      BY <3>1, <3>2
  <2>4. GapsWritten(f)'
    <3>1. FirstGap(need[f])' = FirstGap(need[f])
      BY <1>2 DEF FirstGap
    <3> QED
      BY <1>2, <2>2, <2>3, <3>1 DEF GapsWritten
  <2>5. ScannedCovered(f)'
    BY <1>1, <1>2, <1>4 DEF FetchInv, ScannedCovered, Scanned, CoveredGrows
  <2> QED
    BY <1>1, <1>2, <2>4, <2>5
    DEF FetchInv, SlotShape, CollectedCovered, Collected
<1>6. \A g \in Fetchers \ {f} : SlotKept(g)
  BY DEF CryoWrites, SlotKept, TypeOK
<1> QED
  BY <1>1, <1>2, <1>4, <1>5, <1>6, OneFetchInv DEF CryoWrites, purgeVars

LEMMA CryoDoneInv ==
    ASSUME TypeOK, IndexInv, NEW f \in Fetchers, CryoDone(f) PROVE IndexInv'
<1> DEFINE rest == need[f] \ FirstGap(need[f])
<1>1. phase[f] = "ran" /\ dtype[f] \in DataTypes /\ FetchInv(f)
  BY DEF CryoDone, TypeOK, IndexInv
<1>2. need'[f] = rest
  BY DEF CryoDone, TypeOK
<1>3. chunk[f] \ rest \subseteq Covered(dtype[f])
  BY <1>1 DEF FetchInv, GapsWritten
<1>4. CoveredGrows
  BY DEF CryoDone, CoveredGrows, Covered, dbVars
<1>5. FetchInv(f)'
  <2>1. CASE rest = {}
    BY <1>1, <1>3, <2>1, ScanStepCovered DEF CryoDone, dbVars
  <2>2. CASE rest # {}
    <3>1. phase'[f] = "run" /\ dtype' = dtype
      BY <2>2 DEF CryoDone, TypeOK
    <3>2. GapsWritten(f)'
      BY <1>2, <1>3, <3>1 DEF CryoDone, GapsWritten, Covered, dbVars
    <3> QED
      BY <1>1, <3>1, <3>2
      DEF CryoDone, FetchInv, SlotShape, ScannedCovered, Scanned,
          CollectedCovered, Collected, Covered, dbVars
  <2> QED
    BY <2>1, <2>2
<1>6. \A g \in Fetchers \ {f} : SlotKept(g)
  BY DEF CryoDone, StepType, SlotKept, TypeOK
<1> QED
  BY <1>1, <1>4, <1>5, <1>6, OneFetchInv DEF CryoDone, purgeVars

LEMMA CollectInv ==
    ASSUME TypeOK, IndexInv, NEW f \in Fetchers, Collect(f) PROVE IndexInv'
<1> DEFINE d == dtype[f]
<1>1. phase[f] = "collect" /\ d \in DataTypes /\ FetchInv(f)
  BY DEF Collect, TypeOK, IndexInv
<1>2. /\ files'[f][d] = Overlapping(d, chunk[f])
      /\ \A t \in DataTypes \ {d} : files'[f][t] = files[f][t]
  BY <1>1 DEF Collect, TypeOK
<1>3. CoveredGrows
  BY DEF Collect, CoveredGrows, Covered, dbVars
<1>4. FetchInv(f)'
  <2>1. chunk[f] \subseteq (UNION files'[f][d]) \cup blocks
    <3>1. chunk[f] \subseteq Covered(d)
      BY <1>1 DEF FetchInv, ScannedCovered, Scanned
    <3> QED
      BY <1>2, <3>1 DEF Covered, Overlapping
  <2>2. \A t \in DataTypes : Before(t, d) \/ t = d
            => chunk[f] \subseteq (UNION files'[f][t]) \cup blocks
    BY <1>1, <1>2, <2>1 DEF FetchInv, CollectedCovered, Collected
  <2>3. ScannedCovered(f)'
    BY <1>1 DEF Collect, StepType, FetchInv, ScannedCovered, Scanned, Covered,
                TypeOK, dbVars
  <2>4. CASE d = "blocks"
    <3>1. phase'[f] = "parse" /\ dtype'[f] = "transactions"
      BY <2>4 DEF Collect, StepType, TypeOK
    <3>2. CollectedCovered(f)'
      BY <1>1, <2>2, <2>4, TypeOrder DEF Collect, CollectedCovered, dbVars
    <3> QED
      BY <2>3, <3>1, <3>2 DEF FetchInv, SlotShape, GapsWritten
  <2>5. CASE d # "blocks"
    <3>1. phase'[f] = "collect" /\ dtype'[f] = NextType(d)
      BY <2>5 DEF Collect, StepType, TypeOK
    <3>2. CollectedCovered(f)'
      BY <1>1, <2>2, <2>5, <3>1, TypeOrder
      DEF Collect, CollectedCovered, Collected, dbVars
    <3> QED
      BY <2>3, <3>1, <3>2 DEF FetchInv, SlotShape, GapsWritten
  <2> QED
    BY <2>4, <2>5
<1>5. \A g \in Fetchers \ {f} : SlotKept(g)
  BY DEF Collect, StepType, SlotKept, TypeOK
<1> QED
  BY <1>1, <1>3, <1>4, <1>5, OneFetchInv DEF Collect, purgeVars

LEMMA ParseInv ==
    ASSUME TypeOK, IndexInv, NEW f \in Fetchers, Parse(f) \/ ParseMissing(f)
    PROVE  IndexInv'
<1>1. /\ phase[f] = "parse" /\ dtype[f] \in DataTypes /\ FetchInv(f)
      /\ UNCHANGED <<dbVars, cache, runVars, chunk, need, files, purgeVars>>
  BY DEF Parse, ParseMissing, TypeOK, IndexInv
<1>2. /\ phase'[f] \in {"parse", "ready", "failed"}
      /\ phase'[f] = "ready" => dtype'[f] = "transactions"
  BY <1>1 DEF Parse, ParseMissing, StepType, TypeOK
<1>3. CoveredGrows
  BY <1>1 DEF CoveredGrows, Covered, dbVars
<1>4. FetchInv(f)'
  BY <1>1, <1>2
  DEF FetchInv, SlotShape, GapsWritten, ScannedCovered, Scanned,
      CollectedCovered, Collected, Covered, dbVars
<1>5. \A g \in Fetchers \ {f} : SlotKept(g)
  BY DEF Parse, ParseMissing, StepType, SlotKept, TypeOK
<1> QED
  BY <1>1, <1>3, <1>4, <1>5, OneFetchInv DEF purgeVars

-----------------------------------------------------------------------------
(* Steps outside the runs.                                                 *)

LEMMA OrphanInv == ASSUME TypeOK, IndexInv, OrphanWrites PROVE IndexInv'
<1>1. /\ UNCHANGED <<dbVars, runVars, fetchVars, purgeVars>>
      /\ StoreGrows
  BY DEF OrphanWrites, StoreGrows, dbVars
<1>2. CoveredGrows
  <2>1. PICK t \in DataTypes : \E F \in orphans[t] : WriteFile(t, F)
    BY DEF OrphanWrites
  <2>2. PICK F : cache' = [cache EXCEPT ![t] = @ \cup {F}]
    BY <2>1 DEF WriteFile
  <2>3. \A u \in DataTypes : cache[u] \subseteq cache'[u]
    BY <2>2 DEF TypeOK, CacheTypeOK
  <2> QED
    BY <1>1, <2>3 DEF CoveredGrows, Covered, dbVars
<1>3. ASSUME NEW f \in Fetchers PROVE FetchInv(f)'
  BY <1>1, <1>2, FetchInvKept DEF IndexInv, SlotKept, StoreGrows, fetchVars
<1>4. ASSUME NEW p \in Procs PROVE RunInv(p)'
  BY <1>1, RunInvKept DEF IndexInv, RunKept, runVars, fetchVars
<1>5. FlaggedComplete' /\ PurgeAlone' /\ RangeCovered'
  BY <1>1 DEF IndexInv, FlaggedComplete, Complete, PurgeAlone, RangeCovered,
              dbVars, runVars, purgeVars
<1> QED
  BY <1>3, <1>4, <1>5 DEF IndexInv

\* While every run is idle the fetches and runs have nothing to lose.
LEMMA IdleInv ==
    ASSUME TypeOK, IndexInv, \A p \in Procs : pc[p] = "idle",
           UNCHANGED <<runVars, fetchVars>>
    PROVE  /\ \A f \in Fetchers : FetchInv(f)'
           /\ \A p \in Procs : RunInv(p)'
           /\ PurgeAlone'
           /\ RangeCovered'
<1>1. ASSUME NEW f \in Fetchers PROVE FetchInv(f)'
  <2>1. phase[f] = "free"
    BY DEF IndexInv, RunInv, IdleSlotsFree, Fetchers
  <2>2. phase'[f] = "free" /\ chunk'[f] = {} /\ dtype'[f] = "transactions"
    BY <2>1 DEF IndexInv, FetchInv, SlotShape, fetchVars
  <2> QED
    BY <2>2 DEF FetchInv, SlotShape, GapsWritten, ScannedCovered, Scanned,
                CollectedCovered, Collected
<1>2. ASSUME NEW p \in Procs PROVE RunInv(p)'
  BY DEF IndexInv, RunInv, IdleSlotsFree, SavedInOrder, RangeAccounted, Saving,
         runVars, fetchVars
<1>3. PurgeAlone' /\ RangeCovered'
  BY DEF PurgeAlone, RangeCovered, DataTypes, runVars
<1> QED
  BY <1>1, <1>2, <1>3

LEMMA PurgeInv ==
    ASSUME TypeOK, IndexInv, PurgeExcludes = Procs, Purge \/ PurgeCrash
    PROVE  IndexInv'
<1>1. \A p \in Procs : pc[p] = "idle"
  BY DEF Purge, PurgeBegin, PurgeSelect, PurgeDelete, PurgeEnd, PurgeCrash,
         IndexInv, PurgeAlone
<1>2. UNCHANGED <<runVars, fetchVars>>
  BY DEF Purge, PurgeBegin, PurgeSelect, PurgeDelete, PurgeEnd, PurgeCrash,
         PurgeOver
<1>3. FlaggedComplete'
  <2>1. CASE UNCHANGED dbVars
    BY <2>1 DEF IndexInv, FlaggedComplete, Complete, dbVars
  <2>2. CASE PurgeDelete
    BY <2>2 DEF PurgeDelete, DeleteThrough, AtMost, IndexInv, FlaggedComplete,
                Complete
  <2> QED
    BY <2>1, <2>2 DEF Purge, PurgeBegin, PurgeSelect, PurgeEnd, PurgeCrash,
                      PurgeOver
<1> QED
  BY <1>1, <1>2, <1>3, IdleInv DEF IndexInv

-----------------------------------------------------------------------------
LEMMA InvStep ==
    ASSUME PurgeExcludes = Procs PROVE TypeOK /\ IndexInv /\ [Next]_vars => IndexInv'
<1> SUFFICES ASSUME TypeOK, IndexInv, [Next]_vars PROVE IndexInv'
  OBVIOUS
<1>1. ASSUME NEW p \in Procs, Begin(p) PROVE IndexInv'
  BY <1>1, BeginInv
<1>2. ASSUME NEW p \in Procs, MainStep(p) PROVE IndexInv'
  <2>1. CASE YieldError(p)
    <3>1. CoveredGrows
      BY <2>1 DEF YieldError, CoveredGrows, Covered, dbVars
    <3> QED
      BY <2>1, <3>1, ForgetInv DEF YieldError, purgeVars
  <2> QED
    BY <1>2, <2>1, IssueInv, YieldInv, SaveLogsInv, SaveTxsInv, SaveBlocksInv,
       AllSavedInv, PruneInv DEF MainStep
<1>3. ASSUME NEW p \in Procs, Fail(p) \/ Crash(p) PROVE IndexInv'
  <2>1. CoveredGrows
    BY <1>3 DEF Fail, Crash, CoveredGrows, Covered, dbVars
  <2> QED
    BY <1>3, <2>1, ForgetInv DEF Fail, Crash, purgeVars
<1>4. ASSUME NEW f \in Fetchers, Fetch(f) PROVE IndexInv'
  BY <1>4, ScanInv, CryoWritesInv, CryoDoneInv, CollectInv, ParseInv DEF Fetch
<1>5. CASE OrphanWrites
  BY <1>5, OrphanInv
<1>6. CASE Purge \/ PurgeCrash
  BY <1>6, PurgeInv
<1>7. CASE UNCHANGED vars
  <2>1. CoveredGrows /\ StoreGrows
    BY <1>7 DEF vars, CoveredGrows, StoreGrows, Covered
  <2>2. ASSUME NEW f \in Fetchers PROVE FetchInv(f)'
    BY <1>7, <2>1, FetchInvKept DEF IndexInv, SlotKept, StoreGrows, vars
  <2>3. ASSUME NEW p \in Procs PROVE RunInv(p)'
    BY <1>7, <2>1, RunInvKept DEF IndexInv, RunKept, vars
  <2>4. FlaggedComplete' /\ PurgeAlone' /\ RangeCovered'
    BY <1>7 DEF IndexInv, FlaggedComplete, Complete, PurgeAlone, RangeCovered,
                vars
  <2> QED
    BY <2>2, <2>3, <2>4 DEF IndexInv
<1> QED
  BY <1>1, <1>2, <1>3, <1>4, <1>5, <1>6, <1>7 DEF Next

\* The invariant the other two theorems rest on: it holds as long as no run
\* overlaps a purge.
THEOREM IndexInvAlways ==
    ASSUME PurgeExcludes = Procs PROVE Spec => []IndexInv
<1>1. Init => TypeOK /\ IndexInv
  BY TypeInit, InvInit
<1>2. TypeOK /\ IndexInv /\ [Next]_vars => (TypeOK /\ IndexInv)'
  BY TypeStep, InvStep
<1> QED
  BY <1>1, <1>2, PTL DEF Spec

\* A block is flagged as indexed only while its logs and transactions are
\* stored, with any number of processes, workers and failures, as long as no
\* run overlaps a purge: the promise of index_block_range.
THEOREM FlaggedAreComplete ==
    ASSUME PurgeExcludes = Procs PROVE Spec => []FlaggedComplete
<1>1. IndexInv => FlaggedComplete
  BY DEF IndexInv
<1> QED
  BY <1>1, IndexInvAlways, PTL

\* A run that gets as far as pruning has indexed its whole range, although
\* other runs prune the cache it fetches into.
THEOREM RangesAreCovered ==
    ASSUME PurgeExcludes = Procs PROVE Spec => []RangeCovered
<1>1. IndexInv => RangeCovered
  BY DEF IndexInv
<1> QED
  BY <1>1, IndexInvAlways, PTL

-----------------------------------------------------------------------------
(***************************************************************************)
(* BlockIndexing implements BlockStore: seen through the flagged blocks,   *)
(* every step of a run or a purge is one step of the abstract store or     *)
(* none, for processes that all exclude purges.                            *)
(***************************************************************************)

\* What the refinement needs beyond IndexInv and WindowInv: a run only fetches
\* blocks that it was asked for, and a purge keeps as much as it was told to.
AskedOf(p) == range[p][1] .. range[p][2]
ChunksAsked(p) ==
    /\ \A c \in todo[p] : c \subseteq AskedOf(p)
    /\ \A s \in Slots : chunk[<<p, s>>] \subseteq AskedOf(p)
KeepAsked == ppc # "idle" => keep \in Keeps
AskedInv == KeepAsked /\ \A p \in Procs : ChunksAsked(p)

RefInv == TypeOK /\ IndexInv /\ WindowInv /\ AskedInv

-----------------------------------------------------------------------------
(* The runs fetch what they were asked for.                                *)

LEMMA AskedInit == Init => AskedInv
BY DEF Init, AskedInv, KeepAsked, ChunksAsked, Fetchers

LEMMA ChunksAskedKept ==
    ASSUME NEW p \in Procs, ChunksAsked(p), range'[p] = range[p],
           todo'[p] \subseteq todo[p],
           \A s \in Slots : chunk'[<<p, s>>] \subseteq chunk[<<p, s>>]
    PROVE  ChunksAsked(p)'
BY DEF ChunksAsked, AskedOf

LEMMA ForgetAsked ==
    ASSUME TypeOK, AskedInv, NEW p \in Procs, Forget(p), NEW q \in Procs
    PROVE  ChunksAsked(q)'
<1>1. CASE q = p
  BY <1>1 DEF Forget, TypeOK, ChunksAsked, Fetchers
<1>2. CASE q # p
  <2>1. range'[q] = range[q] /\ todo'[q] = todo[q]
    BY <1>2 DEF Forget, TypeOK
  <2>2. \A s \in Slots : chunk'[<<q, s>>] = chunk[<<q, s>>]
    BY <1>2 DEF Forget, Fetchers
  <2> QED
    BY <2>1, <2>2, ChunksAskedKept DEF AskedInv
<1> QED
  BY <1>1, <1>2

LEMMA BeginAsked ==
    ASSUME TypeOK, IndexInv, AskedInv, NEW p \in Procs, Begin(p), NEW q \in Procs
    PROVE  ChunksAsked(q)'
<1>1. PICK r \in Ranges :
        /\ range' = [range EXCEPT ![p] = r]
        /\ todo' = [todo EXCEPT
                        ![p] = Chunks(MissingBlocks(r[1], r[2]), BatchSize)]
  BY DEF Begin
<1>2. UNCHANGED chunk
  BY DEF Begin, fetchVars
<1>3. CASE q = p
  <2>1. \A c \in todo'[p] : c \subseteq r[1] .. r[2]
    BY <1>1 DEF TypeOK, Chunks, ChunkOf, MissingBlocks
  <2>2. \A s \in Slots : chunk[<<p, s>>] = {}
    BY DEF Begin, IndexInv, RunInv, IdleSlotsFree, FetchInv, SlotShape, Fetchers
  <2> QED
    BY <1>1, <1>2, <1>3, <2>1, <2>2 DEF TypeOK, ChunksAsked, AskedOf
<1>4. CASE q # p
  <2>1. range'[q] = range[q] /\ todo'[q] = todo[q]
    BY <1>1, <1>4 DEF TypeOK
  <2> QED
    BY <1>2, <2>1, ChunksAskedKept DEF AskedInv
<1> QED
  BY <1>3, <1>4

LEMMA IssueAsked ==
    ASSUME TypeOK, AskedInv, NEW p \in Procs, Issue(p), NEW q \in Procs
    PROVE  ChunksAsked(q)'
<1>1. PICK c \in todo[p], s \in Slots :
        /\ chunk' = [chunk EXCEPT ![<<p, s>>] = c]
        /\ todo' = [todo EXCEPT ![p] = @ \ {c}]
  BY DEF Issue
<1>2. UNCHANGED range
  BY DEF Issue
<1>3. CASE q = p
  BY <1>1, <1>2, <1>3 DEF TypeOK, AskedInv, ChunksAsked, AskedOf, Fetchers
<1>4. CASE q # p
  <2>1. todo'[q] = todo[q] /\ \A t \in Slots : chunk'[<<q, t>>] = chunk[<<q, t>>]
    BY <1>1, <1>4 DEF TypeOK, Fetchers
  <2> QED
    BY <1>2, <2>1, ChunksAskedKept DEF AskedInv
<1> QED
  BY <1>3, <1>4

LEMMA SaveBlocksAsked ==
    ASSUME TypeOK, AskedInv, NEW p \in Procs, SaveChunkBlocks(p), NEW q \in Procs
    PROVE  ChunksAsked(q)'
<1>1. chunk' = [chunk EXCEPT ![CurOf(p)] = {}] /\ UNCHANGED <<range, todo>>
  BY DEF SaveChunkBlocks
<1>2. \A s \in Slots : chunk'[<<q, s>>] \subseteq chunk[<<q, s>>]
  BY <1>1 DEF TypeOK, Fetchers
<1> QED
  BY <1>1, <1>2, ChunksAskedKept DEF AskedInv

LEMMA SameAsked ==
    ASSUME AskedInv, UNCHANGED <<range, todo, chunk>>, NEW q \in Procs
    PROVE  ChunksAsked(q)'
BY ChunksAskedKept DEF AskedInv

LEMMA AskedStep ==
    TypeOK /\ IndexInv /\ AskedInv /\ [Next]_vars => AskedInv'
<1> SUFFICES ASSUME TypeOK, IndexInv, AskedInv, [Next]_vars PROVE AskedInv'
  OBVIOUS
<1>1. ASSUME NEW p \in Procs, Begin(p) \/ MainStep(p) \/ Fail(p) \/ Crash(p),
             NEW q \in Procs
      PROVE  ChunksAsked(q)'
  <2>1. CASE Begin(p)
    BY <2>1, BeginAsked
  <2>2. CASE Issue(p)
    BY <2>2, IssueAsked
  <2>3. CASE SaveChunkBlocks(p)
    BY <2>3, SaveBlocksAsked
  <2>4. CASE YieldError(p) \/ Fail(p) \/ Crash(p)
    BY <2>4, ForgetAsked DEF YieldError, Fail, Crash
  <2>5. CASE Yield(p) \/ SaveChunkLogs(p) \/ SaveChunkTxs(p) \/ AllSaved(p)
    BY <2>5, SameAsked DEF Yield, SaveChunkLogs, SaveChunkTxs, AllSaved, fetchVars
  <2>6. CASE Prune(p)
    BY <2>6, ForgetAsked, SameAsked DEF Prune, fetchVars
  <2> QED
    BY <1>1, <2>1, <2>2, <2>3, <2>4, <2>5, <2>6 DEF MainStep
<1>2. ASSUME Purge \/ PurgeCrash \/ UNCHANGED vars, NEW q \in Procs
      PROVE  ChunksAsked(q)'
  BY <1>2, SameAsked
  DEF Purge, PurgeBegin, PurgeSelect, PurgeDelete, PurgeEnd, PurgeCrash,
      PurgeOver, vars, runVars, fetchVars
<1>3. ASSUME OrphanWrites \/ \E f \in Fetchers : Fetch(f), NEW q \in Procs
      PROVE  ChunksAsked(q)'
  BY <1>3, SameAsked
  DEF OrphanWrites, Fetch, Scan, CryoWrites, CryoDone, Collect, Parse,
      ParseMissing, runVars, fetchVars
<1>4. KeepAsked'
  <2>1. CASE Purge \/ PurgeCrash
    BY <2>1 DEF AskedInv, KeepAsked, Purge, PurgeBegin, PurgeSelect,
                PurgeDelete, PurgeEnd, PurgeCrash, PurgeOver
  <2>2. CASE ~(Purge \/ PurgeCrash)
    BY <2>2, RunsStore, FetchesStore
    DEF AskedInv, KeepAsked, Next, vars, purgeVars
  <2> QED
    BY <2>1, <2>2
<1> QED
  BY <1>1, <1>2, <1>3, <1>4 DEF AskedInv, Next

-----------------------------------------------------------------------------
(* What the mapping makes of a state.                                      *)

\* Every block that is seen is seen whole.
WholeOn(B) == [b \in B |-> Store!Whole]

LEMMA AllWhole ==
    ASSUME NEW B, NEW L, NEW X, \A b \in B : b \in L /\ b \in X
    PROVE  [b \in B |-> [logs |-> b \in L, txs |-> b \in X]] = WholeOn(B)
<1>1. ASSUME NEW b \in B
      PROVE  [logs |-> b \in L, txs |-> b \in X] = Store!Whole
  <2>1. (b \in L) = TRUE /\ (b \in X) = TRUE
    OBVIOUS
  <2> QED
    BY <2>1 DEF Store!Whole
<1> QED
  BY <1>1 DEF WholeOn

LEMMA StoredWhole == ASSUME FlaggedComplete PROVE Stored = WholeOn(blocks)
BY AllWhole DEF Stored, FlaggedComplete, Complete

LEMMA StoredWholeNext == ASSUME FlaggedComplete' PROVE Stored' = WholeOn(blocks')
BY AllWhole DEF Stored, FlaggedComplete, Complete

LEMMA SameStored ==
    ASSUME FlaggedComplete, FlaggedComplete', UNCHANGED blocks PROVE Stored' = Stored
BY StoredWhole, StoredWholeNext

\* How far each run is, for the abstract store.
Report == [p \in Procs |-> Reported(p)]

LEMMA ReportIdle == ASSUME NEW p \in Procs, pc[p] = "idle" PROVE Report[p] = "idle"
BY DEF Report, Reported, DataTypes

LEMMA ReportBusy ==
    ASSUME NEW p \in Procs, pc[p] \in {"fetching"} \cup Saving PROVE Report[p] = "open"
BY DEF Report, Reported, Saving, DataTypes

LEMMA ReportDone ==
    ASSUME NEW p \in Procs, pc[p] \in DataTypes PROVE Report[p] = "done"
BY DEF Report, Reported, DataTypes

LEMMA ReportSet ==
    ASSUME NEW p \in Procs, TypeOK, NEW s, pc' = [pc EXCEPT ![p] = s], NEW r,
           \/ s = "idle" /\ r = "idle"
           \/ s \in DataTypes /\ r = "done"
           \/ s \in {"fetching"} \cup Saving /\ r = "open"
    PROVE  Report' = [Report EXCEPT ![p] = r]
<1>1. ASSUME NEW q \in Procs, q # p PROVE Reported(q)' = Reported(q)
  BY <1>1 DEF Reported, TypeOK
<1>2. pc'[p] = s
  BY DEF TypeOK
<1>3. Reported(p)' = r
  BY <1>2 DEF Reported, Saving, DataTypes
<1> QED
  BY <1>1, <1>3 DEF Report

-----------------------------------------------------------------------------
(* The steps.                                                              *)

Unseen == UNCHANGED Store!vars

LEMMA UnseenStep ==
    ASSUME FlaggedComplete, FlaggedComplete', UNCHANGED <<blocks, pc, range>>
    PROVE  Unseen
<1>1. Report' = Report
  BY DEF Report, Reported
<1>2. Stored' = Stored
  BY SameStored
<1> QED
  BY <1>1, <1>2 DEF Unseen, Store!vars, Report

\* A step of the main task from one state to another with the same report.
LEMMA SameReport ==
    ASSUME FlaggedComplete, FlaggedComplete', TypeOK, NEW p \in Procs, NEW s,
           pc' = [pc EXCEPT ![p] = s], UNCHANGED <<blocks, range>>,
           \/ pc[p] \in {"fetching"} \cup Saving /\ s \in {"fetching"} \cup Saving
           \/ pc[p] \in DataTypes /\ s \in DataTypes
    PROVE  Unseen
<1>1. Reported(p)' = Reported(p)
  BY DEF Reported, TypeOK, Saving, DataTypes
<1>2. \A q \in Procs : Reported(q)' = Reported(q)
  BY <1>1 DEF Reported, TypeOK
<1>3. Stored' = Stored
  BY SameStored
<1> QED
  BY <1>2, <1>3 DEF Unseen, Store!vars

LEMMA BeginMaps ==
    ASSUME RefInv, FlaggedComplete', NEW p \in Procs, Begin(p) PROVE Store!Ask(p)
<1>1. Report[p] = "idle" /\ Report' = [Report EXCEPT ![p] = "open"]
  BY ReportIdle, ReportSet DEF Begin, RefInv, DataTypes
<1>2. Stored' = Stored
  BY SameStored DEF Begin, RefInv, IndexInv, dbVars
<1>3. \E r \in Ranges : range' = [range EXCEPT ![p] = r]
  BY DEF Begin
<1> QED
  BY <1>1, <1>2, <1>3 DEF Store!Ask, Report

LEMMA SaveBlocksMaps ==
    ASSUME RefInv, FlaggedComplete', NEW p \in Procs, SaveChunkBlocks(p)
    PROVE  Store!Insert(p)
<1> DEFINE S == Fetched(CurOf(p), "blocks")
<1>1. pc[p] = "saveBlocks" /\ blocks' = blocks \cup S
  BY DEF SaveChunkBlocks, SaveBlocks
<1>2. S \subseteq AskedOf(p)
  BY DEF RefInv, AskedInv, ChunksAsked, Fetched, CurOf, TypeOK
<1>3. Stored = WholeOn(blocks) /\ Stored' = WholeOn(blocks \cup S)
  BY <1>1, StoredWhole, StoredWholeNext DEF RefInv, IndexInv
<1>4. DOMAIN Stored = blocks
  BY DEF Stored
<1>5. Report[p] = "open"
  BY <1>1, ReportBusy DEF Saving
<1>6. Reported(p)' = Reported(p)
  BY <1>1 DEF SaveChunkBlocks, Reported, RefInv, TypeOK, DataTypes
<1>7. \A q \in Procs : Reported(q)' = Reported(q)
  BY <1>6 DEF SaveChunkBlocks, Reported, RefInv, TypeOK
<1>8. Report' = Report
  BY <1>7 DEF Report
<1>9. \E T \in SUBSET (range[p][1] .. range[p][2]) :
        Stored' = [b \in DOMAIN Stored \cup T |-> Store!Whole]
  BY <1>2, <1>3, <1>4 DEF WholeOn, AskedOf
<1> QED
  BY <1>5, <1>8, <1>9 DEF Store!Insert, Report, SaveChunkBlocks

LEMMA AllSavedMaps ==
    ASSUME RefInv, IndexInv', NEW p \in Procs, AllSaved(p) PROVE Store!Succeed(p)
<1>1. /\ pc[p] = "fetching" /\ pc' = [pc EXCEPT ![p] = "transactions"]
      /\ UNCHANGED <<blocks, range>>
  BY DEF AllSaved, dbVars
<1>2. Report[p] = "open" /\ Report' = [Report EXCEPT ![p] = "done"]
  BY <1>1, ReportBusy, ReportSet DEF RefInv, DataTypes
<1>3. Stored' = Stored
  BY <1>1, SameStored DEF RefInv, IndexInv
<1>4. (range[p][1] .. range[p][2]) \subseteq DOMAIN Stored
  <2>1. pc'[p] \in DataTypes
    BY <1>1 DEF RefInv, TypeOK, DataTypes
  <2>2. (range[p][1] .. range[p][2]) \subseteq blocks
    BY <1>1, <2>1 DEF IndexInv, RangeCovered
  <2> QED
    BY <2>2 DEF Stored
<1> QED
  BY <1>1, <1>2, <1>3, <1>4 DEF Store!Succeed, Report

LEMMA ForgetMaps ==
    ASSUME RefInv, FlaggedComplete', NEW p \in Procs, pc[p] # "idle", Forget(p),
           UNCHANGED blocks
    PROVE  Store!End(p)
<1>1. Report[p] # "idle" /\ Report' = [Report EXCEPT ![p] = "idle"]
  BY ReportSet DEF Forget, RefInv, Report, Reported
<1>2. Stored' = Stored
  BY SameStored DEF RefInv, IndexInv
<1>3. range' = [range EXCEPT ![p] = Store!NoRange]
  BY DEF Forget, Store!NoRange
<1> QED
  BY <1>1, <1>2, <1>3 DEF Store!End, Report

LEMMA DeleteMaps ==
    ASSUME RefInv, FlaggedComplete', PurgeDelete
    PROVE  \E u \in DOMAIN Stored : Store!Remove(u)
<1>1. ppc = "delete" /\ upper \in blocks /\ upper < cutoff
  BY DEF PurgeDelete, RefInv, WindowInv, ChunkBelowCutoff
<1>2. UNCHANGED <<pc, range>>
  BY DEF PurgeDelete, runVars
<1>3. \A p \in Procs : pc[p] = "idle"
  BY <1>1 DEF RefInv, IndexInv, PurgeAlone
<1>4. \A p \in Procs : Report[p] = "idle"
  BY <1>3, ReportIdle
<1>5. Report' = Report
  BY <1>2 DEF Report, Reported
<1>6. blocks' = {b \in blocks : b > upper}
  <2>1. blocks' = blocks \ AtMost(blocks, upper)
    BY DEF PurgeDelete, DeleteThrough
  <2>2. \A b \in blocks : b \in Nat /\ upper \in Nat
    BY DEF RefInv, TypeOK, DbTypeOK
  <2> QED
    BY <2>1, <2>2 DEF AtMost
<1>7. DOMAIN Stored = blocks
  BY DEF Stored
<1>8. Stored' = [b \in {c \in DOMAIN Stored : c > upper} |-> Stored[b]]
  BY <1>6, <1>7, StoredWhole, StoredWholeNext DEF RefInv, IndexInv, WholeOn
<1>9. \E k \in Keeps, m \in DOMAIN Stored : upper + k <= m
  <2>1. keep \in Keeps /\ keep \in Nat
    BY <1>1 DEF RefInv, AskedInv, KeepAsked, TypeOK
  <2>2. CASE keep = 0
    BY <1>1, <1>7, <2>1, <2>2 DEF RefInv, TypeOK, DbTypeOK
  <2>3. CASE keep > 0
    <3>1. PICK m \in blocks : cutoff + keep <= m + 1
      BY <1>1, <2>3 DEF RefInv, WindowInv, CutoffKeepsWindow, TypeOK
    <3>2. upper + keep <= m
      BY <1>1, <2>1, <3>1 DEF RefInv, TypeOK, DbTypeOK
    <3> QED
      BY <1>7, <2>1, <3>2
  <2> QED
    BY <2>1, <2>2, <2>3
<1> QED
  BY <1>1, <1>2, <1>4, <1>5, <1>7, <1>8, <1>9 DEF Store!Remove, Report

LEMMA MainMaps ==
    ASSUME RefInv, IndexInv', NEW p \in Procs, MainStep(p)
    PROVE  Store!Next \/ Unseen
<1>1. TypeOK /\ FlaggedComplete /\ FlaggedComplete'
  BY DEF RefInv, IndexInv
<1>2. CASE Issue(p)
  BY <1>1, <1>2, UnseenStep DEF Issue, dbVars
<1>3. CASE Yield(p)
  BY <1>1, <1>3, SameReport DEF Yield, Saving, dbVars
<1>4. CASE SaveChunkLogs(p) \/ SaveChunkTxs(p)
  BY <1>1, <1>4, SameReport DEF SaveChunkLogs, SaveChunkTxs, Saving
<1>5. CASE SaveChunkBlocks(p)
  BY <1>1, <1>5, SaveBlocksMaps DEF Store!Next
<1>6. CASE AllSaved(p)
  BY <1>6, AllSavedMaps DEF Store!Next
<1>7. CASE YieldError(p)
  <2>1. Store!End(p)
    BY <1>1, <1>7, ForgetMaps DEF YieldError, dbVars
  <2> QED
    BY <2>1 DEF Store!Next
<1>8. CASE Prune(p) /\ pc[p] = "blocks"
  <2>1. Store!End(p)
    BY <1>1, <1>8, ForgetMaps DEF Prune, dbVars
  <2> QED
    BY <2>1 DEF Store!Next
<1>9. CASE Prune(p) /\ pc[p] # "blocks"
  <2>1. /\ pc' = [pc EXCEPT ![p] = NextType(pc[p])]
        /\ pc[p] \in DataTypes /\ NextType(pc[p]) \in DataTypes
    BY <1>9, TypeOrder DEF Prune, RefInv, TypeOK
  <2> QED
    BY <1>1, <1>9, <2>1, SameReport DEF Prune, dbVars
<1> QED
  BY <1>2, <1>3, <1>4, <1>5, <1>6, <1>7, <1>8, <1>9 DEF MainStep

LEMMA StepMaps ==
    ASSUME RefInv, IndexInv', [Next]_vars PROVE [Store!Next]_(Store!vars)
<1>1. FlaggedComplete /\ FlaggedComplete'
  BY DEF RefInv, IndexInv
<1>2. ASSUME NEW p \in Procs, Begin(p) PROVE Store!Next
  BY <1>1, <1>2, BeginMaps DEF Store!Next
<1>3. ASSUME NEW p \in Procs, MainStep(p) PROVE Store!Next \/ Unseen
  BY <1>3, MainMaps
<1>4. ASSUME NEW p \in Procs, Fail(p) \/ Crash(p) PROVE Store!Next
  <2>1. Store!End(p)
    BY <1>1, <1>4, ForgetMaps DEF Fail, Crash, dbVars
  <2> QED
    BY <2>1 DEF Store!Next
<1>5. CASE PurgeDelete
  BY <1>1, <1>5, DeleteMaps DEF Store!Next
<1>6. CASE OrphanWrites \/ \E f \in Fetchers : Fetch(f)
  <2>1. UNCHANGED <<blocks, pc, range>>
    BY <1>6
    DEF OrphanWrites, Fetch, Scan, CryoWrites, CryoDone, Collect, Parse,
        ParseMissing, runVars, dbVars
  <2> QED
    BY <1>1, <2>1, UnseenStep DEF Unseen
<1>7. CASE PurgeBegin \/ PurgeSelect \/ PurgeEnd \/ PurgeCrash \/ UNCHANGED vars
  <2>1. UNCHANGED <<blocks, pc, range>>
    BY <1>7
    DEF PurgeBegin, PurgeSelect, PurgeEnd, PurgeCrash, PurgeOver, vars, runVars,
        dbVars
  <2> QED
    BY <1>1, <2>1, UnseenStep DEF Unseen
<1> QED
  BY <1>2, <1>3, <1>4, <1>5, <1>6, <1>7 DEF Next, Purge, Unseen

LEMMA RefInit == Init => RefInv /\ Store!Init
<1> SUFFICES ASSUME Init PROVE RefInv /\ Store!Init
  OBVIOUS
<1>1. RefInv
  BY TypeInit, InvInit, WindowInit, AskedInit DEF RefInv
<1>2. Stored = [b \in {} |-> Store!Whole]
  BY DEF Init, DbInit, Stored
<1>3. \A p \in Procs : Reported(p) = "idle"
  BY DEF Init, Reported, DataTypes
<1> QED
  BY <1>1, <1>2, <1>3 DEF Init, Store!Init, Store!NoRange

\* Runs and purges that never overlap implement the abstract store, for any number of
\* processes, endpoints and chunks, whatever fails or is killed: a block appears with
\* all of its rows or not at all and only for a run that asked for it, a run that
\* reports success has its range there, and the oldest blocks go first.
THEOREM StoreIsRefined ==
    ASSUME PurgeExcludes = Procs PROVE Spec => StoreRefined
<1>1. Init => RefInv /\ Store!Init
  BY RefInit
<1>2. RefInv /\ [Next]_vars => RefInv'
  BY TypeStep, InvStep, WindowStep, AskedStep DEF RefInv
<1>3. RefInv /\ RefInv' /\ [Next]_vars => [Store!Next]_(Store!vars)
  BY StepMaps DEF RefInv
<1> QED
  BY <1>1, <1>2, <1>3, PTL DEF Spec, StoreRefined, Store!Spec

-----------------------------------------------------------------------------
(***************************************************************************)
(* The order of a backfill, for a process that indexes alone.              *)
(***************************************************************************)

\* The chunks are handed out from the top: what is listed lies below what is fetched
\* or flagged.  Since a chunk was flagged at least one slot has held nothing above it.
BelowAll(p, b) == \A c \in todo[p] : \A y \in c : y < b
SlotBelow(p, b) == \E s \in Slots : \A x \in chunk[<<p, s>>] : x < b
GapInv(p) ==
    /\ pc[p] = "idle" => miss[p] = {}
    /\ miss[p] \subseteq range[p][1] .. range[p][2]
    /\ todo[p] \subseteq Chunks(miss[p], BatchSize)
    /\ \A s \in Slots :
           /\ chunk[<<p, s>>] = {} \/ chunk[<<p, s>>] \in Chunks(miss[p], BatchSize)
           /\ \A x \in chunk[<<p, s>>] : BelowAll(p, x)
    /\ \A b \in miss[p] \cap blocks : BelowAll(p, b) /\ SlotBelow(p, b)

\* A gap has a first block.
LEMMA RunStartIs ==
    ASSUME NEW M \in SUBSET Nat, NEW b \in M
    PROVE  RunStart(M, b) \in M /\ RunStart(M, b) <= b
<1> DEFINE S == {a \in M : (a .. b) \subseteq M}
<1>1. S \in SUBSET Nat /\ b \in S
  BY (b .. b) = {b}
<1>2. PICK a \in S : \A c \in S : ~(<<c, a>> \in OpToRel(<, Nat))
  BY <1>1, NatLessThanWellFounded, WFMin
<1>3. ASSUME NEW c \in S PROVE a <= c
  <2>1. c \in Nat /\ a \in Nat
    BY <1>1
  <2>2. ~(c < a)
    BY <1>2, <2>1 DEF OpToRel
  <2> QED
    BY <2>1, <2>2
<1>4. \E x \in M : (x .. b) \subseteq M /\ \A c \in M : (c .. b) \subseteq M => x <= c
  BY <1>2, <1>3
<1>5. /\ RunStart(M, b) \in M
      /\ \A c \in M : (c .. b) \subseteq M => RunStart(M, b) <= c
  BY <1>4 DEF RunStart
<1> QED
  BY <1>1, <1>5

\* The place of a block in its chunk tells it from the others there.
Place(M, n, b) == (b - RunStart(M, b)) % n

LEMMA PlaceInChunk ==
    ASSUME NEW M \in SUBSET Nat, NEW n \in Nat \ {0}, NEW k \in Chunks(M, n), NEW b \in k
    PROVE  /\ Place(M, n, b) \in 0 .. n - 1
           /\ \A c \in k : Place(M, n, c) = Place(M, n, b) => c = b
<1>1. PICK a \in M : k = ChunkOf(M, n, a)
  BY DEF Chunks
<1>2. ASSUME NEW c \in k
      PROVE  /\ c \in Nat /\ RunStart(M, c) \in Nat /\ c - RunStart(M, c) \in Nat
             /\ RunStart(M, c) = RunStart(M, a)
             /\ (c - RunStart(M, c)) \div n = (a - RunStart(M, a)) \div n
  <2>1. c \in M
    BY <1>1 DEF ChunkOf
  <2>2. RunStart(M, c) \in M /\ RunStart(M, c) <= c
    BY <2>1, RunStartIs
  <2>3. /\ RunStart(M, c) = RunStart(M, a)
        /\ (c - RunStart(M, c)) \div n = (a - RunStart(M, a)) \div n
    BY <1>1 DEF ChunkOf
  <2>4. c \in Nat /\ RunStart(M, c) \in Nat
    BY <2>1, <2>2
  <2>5. c - RunStart(M, c) \in Nat
    BY <2>2, <2>4
  <2> QED
    BY <2>3, <2>4, <2>5
<1>3. ASSUME NEW x \in Nat PROVE x % n \in 0 .. n - 1
  OBVIOUS
<1>4. ASSUME NEW x \in Nat, NEW y \in Nat, x \div n = y \div n, x % n = y % n PROVE x = y
  BY <1>4
<1>5. Place(M, n, b) \in 0 .. n - 1
  BY <1>2, <1>3 DEF Place
<1>6. ASSUME NEW c \in k, Place(M, n, c) = Place(M, n, b) PROVE c = b
  <2>1. c - RunStart(M, c) = b - RunStart(M, b)
    BY <1>2, <1>4, <1>6 DEF Place
  <2> QED
    BY <1>2, <2>1
<1> QED
  BY <1>5, <1>6

\* The slots but one hold no more blocks than fit into as many chunks.
LEMMA SlotsHold ==
    ASSUME TypeOK, NEW p \in Procs, NEW w \in Slots, NEW S,
           \A s \in Slots : \/ chunk[<<p, s>>] = {}
                            \/ chunk[<<p, s>>] \in Chunks(miss[p], BatchSize),
           \A c \in S : \E s \in Slots \ {w} : c \in chunk[<<p, s>>]
    PROVE  Cardinality(S) <= (Workers - 1) * BatchSize
<1> DEFINE slot(c) == CHOOSE s \in Slots \ {w} : c \in chunk[<<p, s>>]
           f == [c \in S |-> <<slot(c), Place(miss[p], BatchSize, c)>>]
           T == (Slots \ {w}) \X (0 .. BatchSize - 1)
<1>1. miss[p] \in SUBSET Nat /\ BatchSize \in Nat \ {0} /\ Workers \in Nat \ {0}
  BY WorkersAssumption, BatchSizeAssumption DEF TypeOK
<1>2. ASSUME NEW c \in S
      PROVE  /\ slot(c) \in Slots \ {w} /\ c \in chunk[<<p, slot(c)>>]
             /\ chunk[<<p, slot(c)>>] \in Chunks(miss[p], BatchSize)
  OBVIOUS
<1> HIDE DEF slot
<1>3. f \in [S -> T]
  BY <1>1, <1>2, PlaceInChunk
<1>4. ASSUME NEW c \in S, NEW d \in S, f[c] = f[d] PROVE c = d
  <2>1. /\ slot(c) = slot(d)
        /\ Place(miss[p], BatchSize, c) = Place(miss[p], BatchSize, d)
    BY <1>4
  <2>2. c \in chunk[<<p, slot(c)>>] /\ d \in chunk[<<p, slot(c)>>]
    BY <1>2, <2>1
  <2> QED
    BY <1>1, <1>2, <2>1, <2>2, PlaceInChunk
<1>5. f \in Injection(S, T)
  BY <1>3, <1>4 DEF Injection, IsInjective
<1>6. IsFiniteSet(Slots \ {w}) /\ Cardinality(Slots \ {w}) = Workers - 1
  <2>1. IsFiniteSet(Slots) /\ Cardinality(Slots) = Workers
    BY <1>1, FS_Interval DEF Slots
  <2> QED
    BY <2>1, FS_RemoveElement
<1>7. IsFiniteSet(0 .. BatchSize - 1) /\ Cardinality(0 .. BatchSize - 1) = BatchSize
  BY <1>1, FS_Interval
<1>8. IsFiniteSet(T) /\ Cardinality(T) = (Workers - 1) * BatchSize
  BY <1>6, <1>7, FS_Product
<1> HIDE DEF f, T
<1> QED
  BY <1>5, <1>8, FS_Injection

-----------------------------------------------------------------------------
(* No step of such a process breaks the order.                             *)

LEMMA GapInit == ASSUME NEW p \in Procs, Init PROVE GapInv(p)
BY DEF Init, GapInv, Fetchers

\* The steps that hand out and flag nothing.
LEMMA GapSame ==
    ASSUME NEW p \in Procs, GapInv(p), UNCHANGED <<blocks, range, miss, todo, chunk>>,
           pc'[p] = "idle" => pc[p] = "idle"
    PROVE  GapInv(p)'
BY DEF GapInv, BelowAll, SlotBelow

LEMMA GapForget == ASSUME TypeOK, NEW p \in Procs, Forget(p) PROVE GapInv(p)'
<1>1. miss'[p] = {} /\ todo'[p] = {}
  BY DEF Forget, TypeOK
<1>2. \A s \in Slots : chunk'[<<p, s>>] = {}
  BY DEF Forget, Fetchers
<1> QED
  BY <1>1, <1>2 DEF GapInv

LEMMA GapBegin ==
    ASSUME TypeOK, IndexInv, NEW p \in Procs, Begin(p) PROVE GapInv(p)'
<1>1. PICK r \in Ranges :
        /\ range' = [range EXCEPT ![p] = r]
        /\ miss' = [miss EXCEPT ![p] = MissingBlocks(r[1], r[2])]
        /\ todo' = [todo EXCEPT
                        ![p] = Chunks(MissingBlocks(r[1], r[2]), BatchSize)]
  BY DEF Begin
<1>2. /\ pc'[p] = "fetching" /\ range'[p] = r
      /\ miss'[p] = MissingBlocks(r[1], r[2])
      /\ todo'[p] = Chunks(miss'[p], BatchSize)
  BY <1>1 DEF Begin, TypeOK
<1>3. miss'[p] \subseteq range'[p][1] .. range'[p][2] /\ miss'[p] \cap blocks' = {}
  BY <1>2 DEF MissingBlocks, Begin, dbVars
<1>4. \A s \in Slots : chunk'[<<p, s>>] = {}
  BY DEF Begin, IndexInv, RunInv, IdleSlotsFree, FetchInv, SlotShape, Fetchers,
         fetchVars
<1> QED
  BY <1>2, <1>3, <1>4 DEF GapInv

LEMMA GapIssue ==
    ASSUME TypeOK, NEW p \in Procs, GapInv(p), Issue(p) PROVE GapInv(p)'
<1>1. PICK c \in todo[p], w \in Slots :
        /\ Newest(c, todo[p])
        /\ chunk' = [chunk EXCEPT ![<<p, w>>] = c]
        /\ todo' = [todo EXCEPT ![p] = @ \ {c}]
  BY DEF Issue
<1>2. /\ todo'[p] = todo[p] \ {c}
      /\ chunk'[<<p, w>>] = c
      /\ \A s \in Slots \ {w} : chunk'[<<p, s>>] = chunk[<<p, s>>]
  BY <1>1 DEF TypeOK, Fetchers
<1>3. miss' = miss /\ blocks' = blocks /\ range' = range /\ pc' = pc
  BY DEF Issue, dbVars
<1>4. ASSUME NEW b, BelowAll(p, b) PROVE BelowAll(p, b)'
  BY <1>2, <1>4 DEF BelowAll
<1>5. \A x \in c : BelowAll(p, x)'
  BY <1>1, <1>2 DEF Newest, BelowAll
<1>6. ASSUME NEW s \in Slots
      PROVE  /\ \/ chunk'[<<p, s>>] = {}
                \/ chunk'[<<p, s>>] \in Chunks(miss'[p], BatchSize)
             /\ \A x \in chunk'[<<p, s>>] : BelowAll(p, x)'
  <2>1. CASE s = w
    BY <1>2, <1>3, <1>5, <2>1 DEF GapInv
  <2>2. CASE s # w
    BY <1>2, <1>3, <1>4, <2>2 DEF GapInv
  <2> QED
    BY <2>1, <2>2
<1>7. ASSUME NEW b \in miss[p] \cap blocks PROVE BelowAll(p, b)' /\ SlotBelow(p, b)'
  <2>1. BelowAll(p, b) /\ SlotBelow(p, b)
    BY DEF GapInv
  <2>2. \A x \in c : x < b
    BY <2>1 DEF BelowAll
  <2>3. SlotBelow(p, b)'
    BY <1>2, <2>1, <2>2 DEF SlotBelow
  <2> QED
    BY <1>4, <2>1, <2>3
<1>8. todo'[p] \subseteq Chunks(miss'[p], BatchSize)
  BY <1>2, <1>3 DEF GapInv
<1> QED
  BY <1>3, <1>6, <1>7, <1>8 DEF GapInv

LEMMA GapSave ==
    ASSUME TypeOK, NEW p \in Procs, GapInv(p), SaveChunkBlocks(p) PROVE GapInv(p)'
<1> DEFINE w == cur[p]
<1>1. /\ w \in Slots
      /\ chunk'[<<p, w>>] = {}
      /\ \A s \in Slots \ {w} : chunk'[<<p, s>>] = chunk[<<p, s>>]
  BY DEF SaveChunkBlocks, CurOf, TypeOK, Fetchers
<1>2. miss' = miss /\ range' = range /\ todo' = todo /\ pc'[p] # "idle"
  BY DEF SaveChunkBlocks, TypeOK
<1>3. blocks' \subseteq blocks \cup chunk[<<p, w>>]
  BY DEF SaveChunkBlocks, SaveBlocks, Fetched, CurOf
<1>4. ASSUME NEW b \in miss'[p] \cap blocks' PROVE BelowAll(p, b)' /\ SlotBelow(p, b)'
  <2>1. BelowAll(p, b)
    BY <1>1, <1>2, <1>3 DEF GapInv
  <2>2. SlotBelow(p, b)'
    BY <1>1 DEF SlotBelow
  <2> QED
    BY <1>2, <2>1, <2>2 DEF BelowAll
<1>5. ASSUME NEW s \in Slots
      PROVE  /\ \/ chunk'[<<p, s>>] = {}
                \/ chunk'[<<p, s>>] \in Chunks(miss'[p], BatchSize)
             /\ \A x \in chunk'[<<p, s>>] : BelowAll(p, x)'
  <2>1. CASE s = w
    BY <1>1, <2>1
  <2>2. CASE s # w
    BY <1>1, <1>2, <2>2 DEF GapInv, BelowAll
  <2> QED
    BY <2>1, <2>2
<1> QED
  BY <1>2, <1>4, <1>5 DEF GapInv

\* A purge that excludes the process finds it idle, with no backfill to upset.
LEMMA GapPurge ==
    ASSUME IndexInv, NEW p \in Procs, GapInv(p), Purge \/ PurgeCrash PROVE GapInv(p)'
<1>1. UNCHANGED <<pc, range, miss, todo, chunk>>
  BY DEF Purge, PurgeBegin, PurgeSelect, PurgeDelete, PurgeEnd, PurgeCrash,
         PurgeOver, runVars, fetchVars
<1>2. CASE PurgeDelete
  <2>1. miss[p] = {}
    BY <1>2 DEF PurgeDelete, IndexInv, PurgeAlone, GapInv
  <2> QED
    BY <1>1, <2>1 DEF GapInv, BelowAll
<1>3. CASE UNCHANGED blocks
  BY <1>1, <1>3, GapSame
<1> QED
  BY <1>2, <1>3 DEF Purge, PurgeBegin, PurgeSelect, PurgeEnd, PurgeCrash,
                    PurgeOver, dbVars

LEMMA GapStep ==
    ASSUME TypeOK, IndexInv, \A q, r \in Procs : q = r,
           NEW p \in Procs, GapInv(p), [Next]_vars
    PROVE  GapInv(p)'
<1>1. CASE Begin(p)
  BY <1>1, GapBegin
<1>2. CASE Fail(p) \/ Crash(p) \/ YieldError(p)
  BY <1>2, GapForget DEF Fail, Crash, YieldError
<1>3. CASE Prune(p)
  <2>1. CASE pc[p] = "blocks"
    BY <1>3, <2>1, GapForget DEF Prune
  <2>2. CASE pc[p] # "blocks"
    <3>1. UNCHANGED <<blocks, range, miss, todo, chunk>> /\ pc'[p] # "idle"
      BY <1>3, <2>2 DEF Prune, NextType, TypeOK, dbVars, fetchVars
    <3> QED
      BY <3>1, GapSame
  <2> QED
    BY <2>1, <2>2
<1>4. CASE Issue(p)
  BY <1>4, GapIssue
<1>5. CASE SaveChunkBlocks(p)
  BY <1>5, GapSave
<1>6. CASE Yield(p) \/ SaveChunkLogs(p) \/ SaveChunkTxs(p) \/ AllSaved(p)
  <2>1. UNCHANGED <<blocks, range, miss, todo, chunk>> /\ pc'[p] # "idle"
    BY <1>6 DEF Yield, SaveChunkLogs, SaveChunkTxs, AllSaved, TypeOK, dbVars, fetchVars
  <2> QED
    BY <2>1, GapSame
<1>7. ASSUME NEW f \in Fetchers, Fetch(f) PROVE GapInv(p)'
  <2>1. UNCHANGED <<blocks, pc, range, miss, todo, chunk>>
    BY <1>7 DEF Fetch, Scan, CryoWrites, CryoDone, Collect, Parse, ParseMissing,
                dbVars, runVars
  <2> QED
    BY <2>1, GapSame
<1>8. CASE OrphanWrites \/ UNCHANGED vars
  <2>1. UNCHANGED <<blocks, pc, range, miss, todo, chunk>>
    BY <1>8 DEF OrphanWrites, vars, dbVars, runVars, fetchVars
  <2> QED
    BY <2>1, GapSame
<1>9. CASE Purge \/ PurgeCrash
  BY <1>9, GapPurge
<1> QED
  BY <1>1, <1>2, <1>3, <1>4, <1>5, <1>6, <1>7, <1>8, <1>9 DEF Next, MainStep

-----------------------------------------------------------------------------
\* What the order says of the blocks above one that the run has flagged.
LEMMA GapBounded ==
    ASSUME TypeOK, IndexInv, NEW p \in Procs, GapInv(p), NEW b \in miss[p] \cap blocks
    PROVE  Cardinality({c \in miss[p] \ blocks : c > b}) <= (Workers - 1) * BatchSize
<1> DEFINE S == {c \in miss[p] \ blocks : c > b}
<1>1. BelowAll(p, b) /\ pc[p] # "idle" /\ miss[p] \subseteq range[p][1] .. range[p][2]
  BY DEF GapInv
<1>2. miss[p] \subseteq Nat
  BY DEF TypeOK
<1>3. CASE pc[p] \in DataTypes
  <2>1. S = {}
    BY <1>1, <1>3 DEF IndexInv, RangeCovered
  <2>2. Workers - 1 \in Nat /\ BatchSize \in Nat
    BY WorkersAssumption, BatchSizeAssumption
  <2>3. 0 <= (Workers - 1) * BatchSize
    BY <2>2
  <2> HIDE DEF S
  <2>4. Cardinality(S) = 0
    BY <2>1, FS_EmptySet
  <2> QED
    BY <2>3, <2>4 DEF S
<1>4. CASE pc[p] \notin DataTypes
  <2>1. PICK w \in Slots : \A x \in chunk[<<p, w>>] : x < b
    BY DEF GapInv, SlotBelow
  <2>2. pc[p] \in {"fetching"} \cup Saving
    BY <1>1, <1>4 DEF TypeOK, Steps, Saving
  <2>3. ASSUME NEW c \in S PROVE \E s \in Slots \ {w} : c \in chunk[<<p, s>>]
    <3>1. InHand(p, c)
      BY <1>1, <2>2 DEF IndexInv, RunInv, RangeAccounted
    <3>2. ~(c < b)
      BY <1>2
    <3> QED
      BY <1>1, <2>1, <3>1, <3>2 DEF InHand, BelowAll
  <2>4. \A s \in Slots : \/ chunk[<<p, s>>] = {}
                         \/ chunk[<<p, s>>] \in Chunks(miss[p], BatchSize)
    BY DEF GapInv
  <2> HIDE DEF S
  <2>5. Cardinality(S) <= (Workers - 1) * BatchSize
    BY <2>3, <2>4, SlotsHold
  <2> QED
    BY <2>5 DEF S
<1> QED
  BY <1>3, <1>4

\* An interrupted backfill leaves its gap at the bottom of the range, but for what its
\* other endpoints were fetching: for a process that indexes alone, as long as no purge
\* overlaps its run.  With a second process that fills the same range, what one of them
\* has flagged says nothing of the order of the other.
THEOREM GapStaysAtBottom ==
    ASSUME PurgeExcludes = Procs, \A p, q \in Procs : p = q
    PROVE  Spec => []GapAtBottom
<1> DEFINE Gaps == \A p \in Procs : GapInv(p)
<1>1. Init => Gaps
  BY GapInit
<1>2. TypeOK /\ IndexInv /\ Gaps /\ [Next]_vars => Gaps'
  BY GapStep
<1>3. TypeOK /\ IndexInv /\ Gaps => GapAtBottom
  BY GapBounded DEF GapAtBottom
<1> HIDE DEF Gaps
<1> QED
  BY <1>1, <1>2, <1>3, TypeCorrect, IndexInvAlways, PTL DEF Spec

=============================================================================
