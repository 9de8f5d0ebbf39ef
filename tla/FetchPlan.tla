------------------------------ MODULE FetchPlan ------------------------------
(***************************************************************************)
(* How a run arrives at the cryo commands it runs: the missing blocks of   *)
(* its range are cut into chunks (ChunkLoops), and for a chunk the gaps in *)
(* the cache are found (CoverageLoop).  A behaviour cuts one set of        *)
(* missing blocks and follows one chunk into the cache, for one data type. *)
(***************************************************************************)
EXTENDS ChunkLoops, CoverageLoop

VARIABLE taken      \* whether a chunk has been followed

vars == <<chunkVars, coverageVars, taken>>

TypeOK == ChunkTypeOK /\ CoverageTypeOK /\ taken \in BOOLEAN

Init == ChunkInit /\ Idle /\ taken = FALSE

\* fetch_blocks_batch is given the first and the last block of a chunk.
Fetch ==
    /\ Finished /\ ~taken
    /\ \E i \in DOMAIN chunks : \E lo, hi \in chunks[i] :
        /\ \A b \in chunks[i] : lo <= b /\ b <= hi
        /\ Begin(<<lo, hi>>)
    /\ taken' = TRUE
    /\ UNCHANGED chunkVars

Next ==
    \/ Cut /\ UNCHANGED <<coverageVars, taken>>
    \/ Fetch
    \/ Step /\ UNCHANGED <<chunkVars, taken>>

Spec == Init /\ [][Next]_vars

=============================================================================
