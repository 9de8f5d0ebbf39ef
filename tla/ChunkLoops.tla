----------------------------- MODULE ChunkLoops -----------------------------
(***************************************************************************)
(* The loops that turn the missing blocks of a run into the list of chunks *)
(* it fetches (indexing.rs): contiguous_ranges collapses the sorted block  *)
(* numbers into ranges, and index_block_range splits each range into       *)
(* batches, ranges and batches both taken from the newest.  A behaviour    *)
(* runs the loops once, on any set of missing blocks and any batch size.   *)
(***************************************************************************)
EXTENDS Chunking, Sequences, SequencesExt

CONSTANTS
    MaxBlock,   \* bound: block numbers are 0 .. MaxBlock
    Batches     \* values of --batch-size

ASSUME MaxBlockAssumption == MaxBlock \in Nat
ASSUME BatchesAssumption == Batches \subseteq Nat \ {0}

VARIABLES
    missing,    \* what missing_blocks returned
    batch,      \* --batch-size
    left,       \* missing blocks contiguous_ranges has not looked at
    ranges,     \* its result, ascending; then the ranges still to be split
    split,      \* whether the second loop has begun
    chunks      \* the list of chunks, each the set of its blocks

chunkVars == <<missing, batch, left, ranges, split, chunks>>

ChunkTypeOK ==
    /\ missing \subseteq 0 .. MaxBlock
    /\ batch \in Batches
    /\ left \subseteq missing
    /\ ranges \in Seq((0 .. MaxBlock) \X (0 .. MaxBlock))
    /\ split \in BOOLEAN
    /\ chunks \in Seq(SUBSET (0 .. MaxBlock))

ChunkInit ==
    /\ missing \in SUBSET (0 .. MaxBlock)
    /\ batch \in Batches
    /\ left = missing
    /\ ranges = <<>>
    /\ split = FALSE
    /\ chunks = <<>>

\* contiguous_ranges: the next block extends the last range or opens a new one.
Group ==
    /\ ~split
    /\ \E b \in left :
        /\ \A a \in left : b <= a
        /\ left' = left \ {b}
        /\ ranges' =
             IF ranges # <<>> /\ b = Last(ranges)[2] + 1
             THEN [ranges EXCEPT ![Len(ranges)][2] = b]
             ELSE Append(ranges, <<b, b>>)
    /\ UNCHANGED <<missing, batch, split, chunks>>

StartSplit ==
    /\ ~split
    /\ left = {}
    /\ split' = TRUE
    /\ UNCHANGED <<missing, batch, left, ranges, chunks>>

\* Mutant: a short last batch is dropped.
FloorDiv(n, d) == n \div d

\* slice::chunks, reversed: the last batch of a range may be shorter.
CeilDiv(n, d) == (n + d - 1) \div d
Batch(r, k) == {b \in r[1] .. r[2] : (b - r[1]) \div batch = k - 1}
ReversedBatches(r) ==
    Reverse([k \in 1 .. CeilDiv(r[2] - r[1] + 1, batch) |-> Batch(r, k)])

Split ==
    /\ split
    /\ ranges # <<>>
    /\ chunks' = chunks \o ReversedBatches(Last(ranges))
    /\ ranges' = Front(ranges)
    /\ UNCHANGED <<missing, batch, left, split>>

Cut == Group \/ StartSplit \/ Split

-----------------------------------------------------------------------------
Finished == split /\ ranges = <<>>

\* The list holds exactly the chunks the index runs are modelled with: every missing
\* block is in one of them and no block that is indexed is.  At every point each
\* chunk lies below all chunks listed before it: newest first, also across gaps.
ChunksAgree ==
    /\ Finished => ToSet(chunks) = Chunks(missing, batch)
    /\ \A i, j \in DOMAIN chunks : i < j =>
        \A x \in chunks[i], y \in chunks[j] : y < x

=============================================================================
