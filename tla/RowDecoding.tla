---------------------------- MODULE RowDecoding ----------------------------
(***************************************************************************)
(* How rows of cryo's files become rows of the database                    *)
(* (parse_batch_*_from_files, from_parquet_row, save_batch): the chunks    *)
(* of a run are parsed side by side, hashes get their signatures from the  *)
(* signatures database by way of caches that the process never empties,    *)
(* and the signatures database is replaced by newer editions meanwhile.    *)
(* A row of a file tells what it is, its block, its key and what it calls; *)
(* a hash is a selector or a topic.                                        *)
(***************************************************************************)
EXTENDS Integers, Sequences

CONSTANTS
    Parts,          \* the chunks of a run
    ChunkRange,     \* the blocks each is to have
    Parquet,        \* the rows of the files collected for it, in order
    Hashes,         \* selectors and topics
    Editions,       \* the signatures a hash has, in every edition
    Unresolved,     \* no signature
    MaxEnds         \* bound: so many times a run ends early

\* The files are of one chain, where a key is that of one row.
ASSUME ParquetAssumption ==
    /\ \A c \in Parts :
        /\ Parquet[c] \in Seq({Parquet[c][i] : i \in DOMAIN Parquet[c]})
        /\ \A i \in DOMAIN Parquet[c] : Parquet[c][i].kind \in {"tx", "log", "block"}
    /\ \A c, d \in Parts : \A i \in DOMAIN Parquet[c], j \in DOMAIN Parquet[d] :
        LET r == Parquet[c][i]
            q == Parquet[d][j]
        IN  r.kind = q.kind /\ r.key = q.key => r = q
\* The chunks of a run have no block in common (Chunking).
ASSUME ChunkRangeAssumption ==
    \A c, d \in Parts : c # d => ChunkRange[c] \cap ChunkRange[d] = {}
\* A creation and a transfer have no selector.
ASSUME HashesAssumption == "create" \notin Hashes /\ "transfer" \notin Hashes

VARIABLES
    edition,        \* the newest edition on disk
    opened,         \* the one on disk when the process started
    memo,           \* *_SIG_MEMORY_CACHE
    behind,         \* rows each chunk has behind it
    looked,         \* what a look into the database has found, until it is kept
    parsed,         \* the rows each chunk will save
    stored,         \* the database
    ends            \* counts ends, for the bound

decodeVars == <<edition, opened, memo, behind, looked, parsed, stored, ends>>

NotAsked == "not asked"
NoLook == "no look"
EmptyMemo == [h \in Hashes |-> NotAsked]
Unparsed == [c \in Parts |-> <<>>]

DecodeInit ==
    /\ edition = 1 /\ opened = 1
    /\ memo = EmptyMemo
    /\ behind = [c \in Parts |-> 0]
    /\ looked = [c \in Parts |-> NoLook]
    /\ parsed = Unparsed
    /\ stored = {}
    /\ ends = 0

-----------------------------------------------------------------------------
(* One row.                                                                 *)

\* extract_signature, and the event of a log: a creation and a transfer of ether
\* have no selector; the topic of an anonymous log is looked for like any other.
Overwritten(r) == r.kind = "tx" /\ r.calls = "0x098999be" /\ r.index = 0
Asks(r) == r.calls \in Hashes /\ ~Overwritten(r)

TxSignature(r, s) ==
    IF r.calls = "create" THEN "CREATE()"
    ELSE IF r.calls = "transfer" THEN Unresolved
    ELSE IF Overwritten(r) THEN "setL1BlockValuesIsthmus()"
    ELSE IF s = Unresolved THEN "?" ELSE s

\* from_parquet_row; the amount of a token transfer is known by its signature.
TransferEvent == "Transfer(address,address,uint256)"
from_parquet_row(r, s) ==
    [row |-> r,
     signature |-> IF r.kind = "tx" THEN TxSignature(r, s) ELSE s,
     erc20_amount |-> r.kind = "log" /\ s = TransferEvent /\ r.words >= 1]

\* Mutant: files reach beyond a chunk, and their rows are taken with them.
InBatchUpwards(c, b) == \E first \in ChunkRange[c] : b >= first

InBatch(c, b) == b \in ChunkRange[c]

Behind(c, s) ==
    LET r == Parquet[c][behind[c] + 1] IN
    /\ behind' = [behind EXCEPT ![c] = @ + 1]
    /\ parsed' = IF InBatch(c, r.block)
                 THEN [parsed EXCEPT ![c] = Append(@, from_parquet_row(r, s))] ELSE parsed
    /\ UNCHANGED <<edition, opened, stored, ends>>

AtRow(c) == behind[c] < Len(Parquet[c]) /\ looked[c] = NoLook
RowAt(c) == Parquet[c][behind[c] + 1]

ParsePlain(c) ==
    /\ AtRow(c) /\ ~Asks(RowAt(c))
    /\ Behind(c, Unresolved)
    /\ UNCHANGED <<memo, looked>>

ParseKnown(c) ==
    /\ AtRow(c) /\ Asks(RowAt(c)) /\ memo[RowAt(c).calls] # NotAsked
    /\ Behind(c, memo[RowAt(c).calls])
    /\ UNCHANGED <<memo, looked>>

\* A connection of the pool has the edition that was on disk when it was opened;
\* one of several signatures is as good as another (LIMIT 1).
Look(c) ==
    /\ AtRow(c) /\ Asks(RowAt(c)) /\ memo[RowAt(c).calls] = NotAsked
    /\ \E e \in opened .. edition :
        LET sigs == Editions[e][RowAt(c).calls] IN
        \E s \in IF sigs = {} THEN {Unresolved} ELSE sigs : looked' = [looked EXCEPT ![c] = s]
    /\ UNCHANGED <<edition, opened, memo, behind, parsed, stored, ends>>

\* What was found is kept, also if it was nothing, and over what another chunk has
\* kept meanwhile.
ParseLooked(c) ==
    /\ looked[c] # NoLook
    /\ memo' = [memo EXCEPT ![RowAt(c).calls] = looked[c]]
    /\ looked' = [looked EXCEPT ![c] = NoLook]
    /\ Behind(c, looked[c])

-----------------------------------------------------------------------------
(* The chunk.                                                               *)

\* ON CONFLICT DO NOTHING: of rows with one key the first is kept.
SameRow(d, e) == d.row.kind = e.row.kind /\ d.row.key = e.row.key

\* A price that a signed integer cannot hold keeps a transaction out.
Storable(r) == r.kind = "tx" => r.price = "fits"

save_batch(c, kind) ==
    {parsed[c][i] : i \in {j \in DOMAIN parsed[c] :
        LET d == parsed[c][j] IN
        /\ d.row.kind = kind /\ Storable(d.row)
        /\ \A e \in stored : ~SameRow(d, e)
        /\ \A k \in 1 .. j - 1 : ~SameRow(d, parsed[c][k])}}

\* Logs, transactions, blocks, one chunk after the other: behind goes on past the last
\* row.
Saving(c) == behind[c] - Len(Parquet[c]) \in {1, 2}
SaveBatch(c) ==
    /\ looked[c] = NoLook
    /\ \A d \in Parts \ {c} : ~Saving(d)
    /\ \E i \in 1 .. 3 :
        /\ behind[c] = Len(Parquet[c]) + i - 1
        /\ stored' = stored \cup save_batch(c, <<"log", "tx", "block">>[i])
    /\ behind' = [behind EXCEPT ![c] = @ + 1]
    /\ UNCHANGED <<edition, opened, memo, looked, parsed, ends>>

Saved(c) == behind[c] = Len(Parquet[c]) + 3

\* A run ends early: the chunks it has not saved will be parsed again, in the same
\* process or in another.
EndRun ==
    /\ ends < MaxEnds
    /\ ends' = ends + 1
    /\ behind' = [c \in Parts |-> IF Saved(c) THEN behind[c] ELSE 0]
    /\ looked' = [c \in Parts |-> NoLook]
    /\ parsed' = Unparsed
    /\ \/ UNCHANGED <<memo, opened>>
       \/ memo' = EmptyMemo /\ opened' = edition
    /\ UNCHANGED <<edition, stored>>

\* update-sigs-db.
NewEdition ==
    /\ edition < Len(Editions)
    /\ edition' = edition + 1
    /\ UNCHANGED <<opened, memo, behind, looked, parsed, stored, ends>>

DecodeStep ==
    \/ \E c \in Parts :
        ParsePlain(c) \/ ParseKnown(c) \/ Look(c) \/ ParseLooked(c) \/ SaveBatch(c)
    \/ EndRun
    \/ NewEdition

-----------------------------------------------------------------------------
(* Properties.                                                             *)

SignaturesOf(h) ==
    UNION {IF Editions[e][h] = {} THEN {Unresolved} ELSE Editions[e][h] : e \in 1 .. edition}

\* Whatever edition a row met, in whatever order, and however often it was parsed:
\* the database has it once, from the chunk of its block; its signature is one that
\* some edition gave its hash, none that another hash had; and a log has an amount
\* exactly if it has the signature of a token transfer, and a word of data.  With
\* its flag a block has all its rows but the transactions whose price is too high.
RowsDecoded ==
    /\ \A d, e \in stored : SameRow(d, e) => d = e
    /\ \A d \in stored :
        /\ \E c \in Parts : d.row.block \in ChunkRange[c]
        /\ Asks(d.row) => \E s \in SignaturesOf(d.row.calls) :
                            d.signature = IF d.row.kind = "tx" /\ s = Unresolved THEN "?" ELSE s
        /\ d.erc20_amount <=> /\ d.row.kind = "log" /\ d.signature = TransferEvent
                              /\ d.row.words >= 1
        /\ d.row.kind = "block" => \A c \in Parts : \A i \in DOMAIN Parquet[c] :
            LET r == Parquet[c][i] IN
            r.block = d.row.block /\ r.block \in ChunkRange[c] /\ Storable(r)
                => \E e \in stored : e.row = r

=============================================================================
