--------------------------- MODULE IndexCommands ---------------------------
(***************************************************************************)
(* The commands that change which blocks a database holds, as whole        *)
(* processes: `index`, `index --live`, `reindex` and `purge-db`, any of    *)
(* them beside any other, with nothing between them but the database.      *)
(*                                                                         *)
(* Each saves its missing blocks newest first; that the three inserts of a *)
(* chunk are three steps is the subject of BlockIndexing, and so is the    *)
(* choice of a purge chunk.  The endpoint a process asks for the head of   *)
(* the chain may lag.                                                      *)
(***************************************************************************)
EXTENDS BlockRanges, TxsDb

CONSTANTS
    Procs,          \* processes
    Commands,       \* the commands they run: their kind and their options
    NoBlocks,       \* --blocks is not given
    NoLimit,        \* --max-range, or --keep, is not given
    Lag,            \* how many blocks an endpoint may be behind
    MaxHead,        \* bound: the head of the chain
    MaxStarts       \* bound: how many commands are run

ASSUME HeadAssumption == MaxU64 \in Nat /\ MaxHead \in 0 .. MaxU64 /\ Lag \in Nat
ASSUME MaxStartsAssumption == MaxStarts \in Nat
ASSUME CommandsAssumption ==
    \A c \in Commands :
        /\ c.kind \in {"index", "live", "reindex", "purge"}
        /\ c.blocks # NoBlocks =>
            /\ c.blocks.form \in Forms
            /\ c.blocks.a \in 0 .. MaxU64 /\ c.blocks.b \in 0 .. MaxU64
        /\ c.offset \in Nat
        /\ c.max # NoLimit => c.max \in Nat
        /\ c.keep # NoLimit => c.keep \in Nat

VARIABLES
    head,           \* the newest block of the chain
    cmd,            \* the command of each process, and its options
    at,             \* where it is
    seen,           \* the latest block it has found last
    range,          \* the blocks it is indexing
    todo,           \* those of them it has still to save
    cutoff,         \* the blocks below it are being purged
    first,          \* live: the first block it has indexed
    last_indexed,   \* live
    gone,           \* history: blocks others have purged under a live command
    starts          \* counts commands, for the bound

procVars == <<cmd, at, seen, range, todo, cutoff, first, last_indexed>>
vars == <<dbVars, head, procVars, gone, starts>>

NoRange == [from |-> 0, to |-> 0]
\* A command has a kind, "index", "live" (index --live), "reindex" or "purge",
\* and the options --blocks, --latest-offset (0 for none), --max-range, --keep.
Command(kind, arg, offset, max, keep) ==
    [kind |-> kind, blocks |-> arg, offset |-> offset, max |-> max, keep |-> keep]
NoCommand == Command("index", NoBlocks, 0, NoLimit, NoLimit)

TypeOK ==
    /\ DbTypeOK
    /\ head \in 0 .. MaxHead
    /\ cmd \in [Procs -> Commands \cup {NoCommand}]
    /\ at \in [Procs -> {"off", "begin", "index", "prune", "purge", "poll"}]
    /\ seen \in [Procs -> Nat]
    /\ range \in [Procs -> [from : Nat, to : Nat]]
    /\ todo \in [Procs -> SUBSET Nat]
    /\ cutoff \in [Procs -> Nat]
    /\ first \in [Procs -> Nat]
    /\ last_indexed \in [Procs -> Nat]
    /\ gone \in [Procs -> SUBSET Nat]
    /\ starts \in 0 .. MaxStarts

Init ==
    /\ DbInit
    /\ head = 0
    /\ cmd = [p \in Procs |-> NoCommand]
    /\ at = [p \in Procs |-> "off"]
    /\ seen = [p \in Procs |-> 0]
    /\ range = [p \in Procs |-> NoRange]
    /\ todo = [p \in Procs |-> {}]
    /\ cutoff = [p \in Procs |-> 0]
    /\ first = [p \in Procs |-> 0]
    /\ last_indexed = [p \in Procs |-> 0]
    /\ gone = [p \in Procs |-> {}]
    /\ starts = 0

Grow ==
    /\ head < MaxHead
    /\ head' = head + 1
    /\ UNCHANGED <<dbVars, procVars, gone, starts>>

\* What an endpoint may take for the head.
Heads == {h \in 0 .. head : h + Lag >= head}

\* What the checks of each command let through.
Accepted(c) ==
    /\ c.kind \in {"reindex", "purge"} =>
        c.blocks = NoBlocks /\ c.offset = 0 /\ c.max = NoLimit
    /\ c.kind = "index" => c.blocks # NoBlocks /\ c.keep = NoLimit
    /\ c.kind = "purge" => c.keep # NoLimit
    /\ c.keep = 0 => c.kind = "purge"

Start(p) ==
    /\ at[p] = "off"
    /\ starts < MaxStarts
    /\ starts' = starts + 1
    /\ \E c \in Commands : Accepted(c) /\ cmd' = [cmd EXCEPT ![p] = c]
    /\ at' = [at EXCEPT ![p] = "begin"]
    /\ UNCHANGED <<dbVars, head, seen, range, todo, cutoff, first, last_indexed, gone>>

\* The command is over, well or not.
End(p) ==
    /\ at' = [at EXCEPT ![p] = "off"]
    /\ cmd' = [cmd EXCEPT ![p] = NoCommand]
    /\ seen' = [seen EXCEPT ![p] = 0]
    /\ range' = [range EXCEPT ![p] = NoRange]
    /\ todo' = [todo EXCEPT ![p] = {}]
    /\ cutoff' = [cutoff EXCEPT ![p] = 0]
    /\ first' = [first EXCEPT ![p] = 0]
    /\ last_indexed' = [last_indexed EXCEPT ![p] = 0]
    /\ gone' = [gone EXCEPT ![p] = {}]
    /\ UNCHANGED <<dbVars, head, starts>>

\* index_block_range begins: what it has to fetch is what the database lacks.
Index(p, r) ==
    /\ range' = [range EXCEPT ![p] = r]
    /\ todo' = [todo EXCEPT ![p] = MissingBlocks(r.from, r.to)]
    /\ at' = [at EXCEPT ![p] = "index"]

-----------------------------------------------------------------------------
(* index, with or without --live.                                          *)

\* The ranges the command may index: the one of its argument, no longer than
\* --max-range.
Asked(c, latest) ==
    {r \in Ranges(c.blocks, latest) : c.max # NoLimit => size(r) <= c.max}

Backfill(p) ==
    /\ at[p] = "begin"
    /\ cmd[p].blocks # NoBlocks
    /\ \E h \in Heads :
        LET latest == get_latest_block(h, cmd[p].offset) IN
        \E r \in Asked(cmd[p], latest) :
            /\ seen' = [seen EXCEPT ![p] = latest]
            /\ Index(p, r)
            /\ first' = [first EXCEPT ![p] = r.from]
    /\ UNCHANGED <<dbVars, head, cmd, cutoff, last_indexed, gone, starts>>

Refused(p) ==
    /\ at[p] = "begin"
    /\ cmd[p].blocks # NoBlocks
    /\ \E h \in Heads : Asked(cmd[p], get_latest_block(h, cmd[p].offset)) = {}
    /\ End(p)

\* Without an argument --live begins at the head.
BeginLive(p) ==
    /\ at[p] = "begin"
    /\ cmd[p].kind = "live" /\ cmd[p].blocks = NoBlocks
    /\ \E h \in Heads :
        /\ seen' = [seen EXCEPT ![p] = h]
        /\ Index(p, [from |-> h, to |-> h])
        /\ first' = [first EXCEPT ![p] = h]
    /\ UNCHANGED <<dbVars, head, cmd, cutoff, last_indexed, gone, starts>>

Save(p) ==
    /\ at[p] = "index"
    /\ \E b \in todo[p] :
        /\ IsMax(b, todo[p])
        /\ SaveLogs({b}) /\ SaveTxs({b}) /\ SaveBlocks({b})
        /\ todo' = [todo EXCEPT ![p] = @ \ {b}]
    /\ UNCHANGED <<head, cmd, at, seen, range, cutoff, first, last_indexed, gone, starts>>

\* The range is indexed: last_indexed follows, and --keep prunes.
Indexed(p) ==
    /\ at[p] = "index" /\ todo[p] = {}
    /\ IF cmd[p].kind # "live" THEN End(p)
       ELSE /\ last_indexed' = [last_indexed EXCEPT ![p] = range[p].to]
            /\ at' = [at EXCEPT ![p] = IF cmd[p].keep = NoLimit THEN "poll" ELSE "prune"]
            /\ UNCHANGED <<dbVars, head, cmd, seen, range, todo, cutoff, first, gone, starts>>

\* Mutant: the next round begins at the head.
PollsFromHead(p) ==
    /\ at[p] = "poll"
    /\ \E h \in Heads :
        /\ h > last_indexed[p]
        /\ seen' = [seen EXCEPT ![p] = h]
        /\ Index(p, [from |-> h, to |-> h])
    /\ UNCHANGED <<dbVars, head, cmd, cutoff, first, last_indexed, gone, starts>>

\* Mutant: one new block is not enough.
PollsLate(p) ==
    /\ at[p] = "poll"
    /\ \E h \in Heads :
        /\ h > last_indexed[p] + 1
        /\ seen' = [seen EXCEPT ![p] = h]
        /\ Index(p, [from |-> last_indexed[p] + 1, to |-> h])
    /\ UNCHANGED <<dbVars, head, cmd, cutoff, first, last_indexed, gone, starts>>

\* New blocks; --latest-offset is not looked at.
Poll(p) ==
    /\ at[p] = "poll"
    /\ \E h \in Heads :
        /\ h > last_indexed[p]
        /\ seen' = [seen EXCEPT ![p] = h]
        /\ Index(p, [from |-> last_indexed[p] + 1, to |-> h])
    /\ UNCHANGED <<dbVars, head, cmd, cutoff, first, last_indexed, gone, starts>>

-----------------------------------------------------------------------------
(* reindex, purge-db and the purge of --keep.                              *)

\* The stored range, or its part in the window of --keep.
Reindex(p) ==
    /\ at[p] = "begin"
    /\ cmd[p].kind = "reindex"
    /\ \E l, m \in blocks :
        LET from == IF cmd[p].keep = NoLimit THEN l
                    ELSE IF l > CutoffOf(m, cmd[p].keep) THEN l
                    ELSE CutoffOf(m, cmd[p].keep)
        IN  /\ \A b \in blocks : l <= b /\ b <= m
            /\ Index(p, [from |-> from, to |-> m])
    /\ UNCHANGED <<dbVars, head, cmd, seen, cutoff, first, last_indexed, gone, starts>>

BeginsPurge(p) == at[p] = "prune" \/ (at[p] = "begin" /\ cmd[p].kind = "purge")

\* purge_old_blocks counts its window from the newest block there is.
Purge(p) ==
    /\ BeginsPurge(p)
    /\ \E m \in blocks :
        IsMax(m, blocks) /\ cutoff' = [cutoff EXCEPT ![p] = CutoffOf(m, cmd[p].keep)]
    /\ at' = [at EXCEPT ![p] = "purge"]
    /\ UNCHANGED <<dbVars, head, cmd, seen, range, todo, first, last_indexed, gone, starts>>

PurgeChunk(p) ==
    /\ at[p] = "purge"
    /\ \E u \in blocks :
        /\ u < cutoff[p]
        /\ IsChunkUpper(u, Below(blocks, cutoff[p]), 1)
        /\ DeleteThrough(u)
        /\ gone' = [q \in Procs |-> IF q # p /\ at[q] # "off"
                                    THEN gone[q] \cup AtMost(blocks, u) ELSE gone[q]]
    /\ UNCHANGED <<head, procVars, starts>>

PurgeDone(p) ==
    /\ at[p] = "purge"
    /\ Below(blocks, cutoff[p]) = {}
    /\ IF cmd[p].kind = "purge" THEN End(p)
       ELSE /\ at' = [at EXCEPT ![p] = "poll"]
            /\ cutoff' = [cutoff EXCEPT ![p] = 0]
            /\ UNCHANGED <<dbVars, head, cmd, seen, range, todo, first, last_indexed, gone, starts>>

\* With no block stored reindex is an error, and a purge has nothing to do.
NothingStored(p) ==
    /\ blocks = {}
    /\ BeginsPurge(p) \/ (at[p] = "begin" /\ cmd[p].kind = "reindex")
    /\ IF cmd[p].kind # "live" THEN End(p)
       ELSE /\ at' = [at EXCEPT ![p] = "poll"]
            /\ UNCHANGED <<dbVars, head, cmd, seen, range, todo, cutoff, first,
                           last_indexed, gone, starts>>

\* An endpoint or SQLite fails, or the command is killed: every error ends it, a
\* live one too.
Fail(p) ==
    /\ at[p] # "off"
    /\ End(p)

-----------------------------------------------------------------------------
Step(p) ==
    \/ Backfill(p) \/ Refused(p) \/ BeginLive(p) \/ Save(p) \/ Indexed(p)
    \/ Poll(p) \/ Reindex(p) \/ Purge(p) \/ PurgeChunk(p) \/ PurgeDone(p) \/ NothingStored(p)

Next == Grow \/ \E p \in Procs : Start(p) \/ Step(p) \/ Fail(p)

Spec == Init /\ [][Next]_vars

\* A command goes on by itself, and an endpoint does not lag for ever.
Fairness == \A p \in Procs : WF_vars(Step(p)) /\ SF_vars(Poll(p) /\ seen'[p] = head)

FairSpec == Spec /\ Fairness

-----------------------------------------------------------------------------
(* Properties.                                                             *)

\* A live command leaves no hole between the first block it has indexed and
\* last_indexed, but for what its own --keep or somebody else has purged.
NoHoleBehind ==
    \A p \in Procs :
        cmd[p].kind = "live" /\ at[p] \in {"prune", "purge", "poll"} =>
            \A b \in first[p] .. last_indexed[p] :
                \/ b \in blocks \cup gone[p]
                \/ \E m \in blocks \cup gone[p] :
                    cmd[p].keep # NoLimit /\ m >= b + cmd[p].keep

\* What a command indexes is what its argument says: never above the latest
\* block, never longer than --max-range; of "latest" that block alone, and of
\* "n:latest" exactly the n latest blocks, or all there are when there are fewer.
\* "0:latest" is refused or stands for all of them.
RangeIsAsAsked ==
    \A p \in Procs :
        LET r == range[p]
            a == cmd[p].blocks
        IN  at[p] = "index" /\ a # NoBlocks /\ r.from = first[p] =>
            /\ r.to <= seen[p]
            /\ cmd[p].max # NoLimit => size(r) <= cmd[p].max
            /\ a.form \in {"latest", "last"} => r.to = seen[p]
            /\ a.form = "latest" => size(r) = 1
            /\ a.form = "last" => size(r) = IF a.a \in 1 .. seen[p] THEN a.a ELSE seen[p] + 1

\* A live command that does not end comes up with the chain, whatever else is run.
LiveFollows ==
    \A p \in Procs : \A h \in 1 .. MaxHead :
        head >= h /\ cmd[p].kind = "live" ~> last_indexed[p] >= h \/ at[p] = "off"

=============================================================================
