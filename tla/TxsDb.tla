------------------------------- MODULE TxsDb -------------------------------
(***************************************************************************)
(* The per-chain transactions database: one SQLite file in WAL mode,       *)
(* shared by every mevlog process of the chain.  A writer commits whole    *)
(* transactions, so each operator below is one committed statement or      *)
(* transaction and one atomic step for every other process.                *)
(*                                                                         *)
(* A block is a number.  blocks holds the numbers that have a row in the   *)
(* blocks table; logs and txs hold the numbers whose logs and transactions *)
(* rows are stored.  save_batch commits the rows of a whole chunk at once, *)
(* so the rows of one block are never stored in part, and a block is taken *)
(* to have at least one transaction and one log: the case in which losing  *)
(* them can be seen.                                                       *)
(***************************************************************************)
EXTENDS Integers, FiniteSets

VARIABLES
    blocks,     \* block numbers flagged as indexed by a row of table blocks
    logs,       \* block numbers whose logs rows are stored
    txs         \* block numbers whose transactions rows are stored

dbVars == <<blocks, logs, txs>>

DbTypeOK ==
    /\ blocks \subseteq Nat
    /\ logs \subseteq Nat
    /\ txs \subseteq Nat

DbInit ==
    /\ blocks = {}
    /\ logs = {}
    /\ txs = {}

\* Block::missing_blocks: the numbers of lo..hi that have no blocks row.
MissingBlocks(lo, hi) == (lo .. hi) \ blocks

\* Log::save_batch, Transaction::save_batch, Block::save_batch: every insert
\* is ON CONFLICT DO NOTHING, so saving what is already there changes nothing.
SaveLogs(S) == logs' = logs \cup S
SaveTxs(S) == txs' = txs \cup S
SaveBlocks(S) == blocks' = blocks \cup S

\* Mutant: the comparison is strict.
Below(S, upper) == {b \in S : b < upper}

AtMost(S, upper) == {b \in S : b <= upper}

\* Mutant: the blocks table keeps the row of the bound itself.
DeleteThroughShort(upper) ==
    /\ logs' = logs \ AtMost(logs, upper)
    /\ txs' = txs \ AtMost(txs, upper)
    /\ blocks' = blocks \ {b \in blocks : b < upper}

\* One purge transaction: every row of a block at or below upper goes.
DeleteThrough(upper) ==
    /\ logs' = logs \ AtMost(logs, upper)
    /\ txs' = txs \ AtMost(txs, upper)
    /\ blocks' = blocks \ AtMost(blocks, upper)

\* m is MAX(block_number) of a set of rows; no m exists when there is none.
IsMax(m, S) == m \in S /\ \A b \in S : b <= m

SaturatingSub(a, b) == IF a >= b THEN a - b ELSE 0

\* Mutant: the window begins one block too late.
LateCutoff(m, keep) == SaturatingSub(m + 2, keep)

\* purge_old_blocks: where the window of `keep` blocks up to block m begins.
CutoffOf(m, keep) == SaturatingSub(m + 1, keep)

\* The upper bound of its next chunk: the highest of the n lowest blocks of S,
\* the indexed blocks below the cutoff.
IsChunkUpper(u, S, n) ==
    /\ u \in S
    /\ Cardinality(AtMost(S, u)) <= n
    /\ Cardinality(AtMost(S, u)) = n \/ IsMax(u, S)

\* What a reader relies on: the block is flagged, and so are its rows there.
Complete(b) == b \in logs /\ b \in txs

=============================================================================
