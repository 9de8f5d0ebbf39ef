------------------------------- MODULE Traces -------------------------------
(***************************************************************************)
(* The column coinbase_transfer of stored transactions, and the traces     *)
(* that fill it (tx_tracing.rs, rpc_tracing.rs, revm_tracing.rs).          *)
(*                                                                         *)
(* A transaction is <<its block, its index there>>.  Of its trace only the *)
(* outcome is kept: whether it paid the coinbase of its block directly.    *)
(* Revm replays a block from the state of its parent, each transaction on  *)
(* what those before it have left: `clean` says whether that is the state  *)
(* of the chain.                                                           *)
(***************************************************************************)
EXTENDS Integers

CONSTANTS
    Procs,      \* processes that run mevlog commands
    Blocks,     \* the blocks of the chain
    TxCount,    \* the number of transactions of each block
    Payment,    \* what the trace of each transaction shows: "zero" or "paid"
    Flaky       \* the sets of steps that may fail in a behaviour

Txs == {<<b, i>> : b \in Blocks, i \in 1 .. 10} \cap
       UNION {{b} \X (1 .. TxCount[b]) : b \in Blocks}
TxsOf(b) == {t \in Txs : t[1] = b}
Traced == {"zero", "paid"}

ASSUME BlocksAssumption == Blocks \subseteq Nat
ASSUME TxCountAssumption == TxCount \in [Blocks -> 1 .. 10]
ASSUME PaymentAssumption == Payment \in [Txs -> Traced]

VARIABLES
    value,      \* coinbase_transfer of each transaction; "absent": no row
    flagged,    \* the blocks with a row, which tells the coinbase
    flaky,      \* the steps that may fail in this behaviour
    at,         \* where each trace is
    mode,       \* --evm-trace
    persist,    \* whether values are stored as they come (a backfill)
    todo,       \* the transactions still to be traced
    cur,        \* the transaction that Revm is at
    last,       \* index of the last one to trace in its block
    clean,      \* whether the forked state is that of the chain
    got,        \* the outcome of the last trace
    excused     \* history: transactions a backfill need not have filled

dbVars == <<value, flagged>>
replayVars == <<cur, last, clean, got>>
traceVars == <<at, mode, persist, todo, replayVars, excused>>

Busy == {"select", "coinbases", "rpc", "block", "fetch", "replay", "save", "commit"}

\* The synchronous parts of a replay, in which a task cannot be dropped.
Sync(p) == at[p] \in {"replay", "commit"}

TraceTypeOK ==
    /\ value \in [Txs -> {"absent", "null"} \cup Traced]
    /\ flagged \subseteq Blocks
    /\ flaky \in Flaky
    /\ at \in [Procs -> {"off", "over", "failed"} \cup Busy]
    /\ mode \in [Procs -> {"none", "rpc", "revm"}]
    /\ persist \in [Procs -> BOOLEAN]
    /\ todo \in [Procs -> SUBSET Txs]
    /\ cur \in [Procs -> Nat \X Nat]
    /\ last \in [Procs -> Nat]
    /\ clean \in [Procs -> BOOLEAN]
    /\ got \in [Procs -> Traced]
    /\ excused \in [Procs -> SUBSET Txs]

TraceInit ==
    /\ value = [t \in Txs |-> "absent"]
    /\ flagged = {}
    /\ flaky \in Flaky
    /\ at = [p \in Procs |-> "off"]
    /\ mode = [p \in Procs |-> "none"]
    /\ persist = [p \in Procs |-> FALSE]
    /\ todo = [p \in Procs |-> {}]
    /\ cur = [p \in Procs |-> <<0, 0>>]
    /\ last = [p \in Procs |-> 0]
    /\ clean = [p \in Procs |-> FALSE]
    /\ got = [p \in Procs |-> "zero"]
    /\ excused = [p \in Procs |-> {}]

-----------------------------------------------------------------------------
(* The rows (index_block_range and purge_old_blocks, in outline).          *)

\* Mutant: rows that exist are replaced.
SaveTxsReplacing(bs) ==
    value' = [t \in Txs |-> IF t[1] \in bs THEN "null" ELSE value[t]]

SaveTxs(bs) ==
    value' = [t \in Txs |-> IF t[1] \in bs /\ value[t] = "absent"
                            THEN "null" ELSE value[t]]

PurgeBlock(b) ==
    /\ value' = [t \in Txs |-> IF t[1] = b THEN "absent" ELSE value[t]]
    /\ flagged' = flagged \ {b}
    /\ excused' = [p \in Procs |-> IF persist[p] THEN excused[p] \cup TxsOf(b)
                                                 ELSE excused[p]]
    /\ UNCHANGED <<flaky, at, mode, persist, todo, replayVars>>

\* UPDATE ... WHERE tx_hash: nothing happens to a row that is gone.
UpdateCoinbaseTransfer(t, v) ==
    value' = [value EXCEPT ![t] = IF @ = "absent" THEN @ ELSE v]

-----------------------------------------------------------------------------
(* Start and end of a trace.                                               *)

\* A backfill of the untraced transactions of a range.
StartBackfill(p, m) ==
    /\ at' = [at EXCEPT ![p] = "select"]
    /\ mode' = [mode EXCEPT ![p] = m]
    /\ persist' = [persist EXCEPT ![p] = TRUE]
    /\ UNCHANGED <<todo, replayVars, excused>>

\* The trace of a single transaction, whatever its row holds.
StartSingle(p, m, t) ==
    /\ at' = [at EXCEPT ![p] = IF m = "rpc" THEN "rpc" ELSE "block"]
    /\ mode' = [mode EXCEPT ![p] = m]
    /\ persist' = [persist EXCEPT ![p] = FALSE]
    /\ todo' = [todo EXCEPT ![p] = {t}]
    /\ UNCHANGED <<replayVars, excused>>

Reset(p) ==
    /\ at' = [at EXCEPT ![p] = "off"]
    /\ mode' = [mode EXCEPT ![p] = "none"]
    /\ persist' = [persist EXCEPT ![p] = FALSE]
    /\ todo' = [todo EXCEPT ![p] = {}]
    /\ cur' = [cur EXCEPT ![p] = <<0, 0>>]
    /\ last' = [last EXCEPT ![p] = 0]
    /\ clean' = [clean EXCEPT ![p] = FALSE]
    /\ got' = [got EXCEPT ![p] = "zero"]
    /\ excused' = [excused EXCEPT ![p] = {}]

\* Where a trace goes when `left` is still to be traced.
Goes(p, left, next) ==
    /\ todo' = [todo EXCEPT ![p] = left]
    /\ at' = [at EXCEPT ![p] = IF left = {} THEN "over" ELSE next]
    /\ UNCHANGED <<mode, persist>>

Fail(p) ==
    /\ at' = [at EXCEPT ![p] = "failed"]
    /\ UNCHANGED <<dbVars, mode, persist, todo, replayVars, excused>>

Untraced == {t \in Txs : value[t] = "null"}

Select(p) ==
    /\ at[p] = "select"
    /\ Goes(p, Untraced, IF mode[p] = "rpc" THEN "coinbases" ELSE "block")
    /\ UNCHANGED <<dbVars, replayVars, excused>>

-----------------------------------------------------------------------------
(* Over RPC.                                                               *)

Coinbases(p) ==
    /\ at[p] = "coinbases"
    /\ Goes(p, {t \in todo[p] : t[1] \in flagged}, "rpc")
    /\ UNCHANGED <<dbVars, replayVars, excused>>

\* The newest block first, its transactions in order.
RpcNext(p, t) ==
    /\ t \in todo[p]
    /\ \A s \in todo[p] : s[1] < t[1] \/ (s[1] = t[1] /\ s[2] >= t[2])

RpcTrace(p) ==
    /\ at[p] = "rpc"
    /\ \E t \in todo[p] :
        /\ RpcNext(p, t)
        /\ Goes(p, todo[p] \ {t}, "rpc")
        /\ IF persist[p]
           THEN UpdateCoinbaseTransfer(t, Payment[t]) /\ UNCHANGED got
           ELSE got' = [got EXCEPT ![p] = Payment[t]] /\ UNCHANGED value
    /\ UNCHANGED <<flagged, cur, last, clean, excused>>

\* A backfill leaves the transaction as it is and goes on.
RpcTraceFails(p) ==
    /\ at[p] = "rpc"
    /\ "trace" \in flaky
    /\ IF persist[p]
       THEN \E t \in todo[p] :
              /\ RpcNext(p, t)
              /\ Goes(p, todo[p] \ {t}, "rpc")
              /\ excused' = [excused EXCEPT ![p] = @ \cup {t}]
              /\ UNCHANGED <<dbVars, replayVars>>
       ELSE Fail(p)

\* An error of the update, in contrast, ends the command.
RpcUpdateFails(p) ==
    /\ at[p] = "rpc" /\ persist[p]
    /\ "update" \in flaky
    /\ Fail(p)

-----------------------------------------------------------------------------
(* By replay with Revm, block after block.                                 *)

\* Mutant: the replay ends before the last transaction wanted.
LastShort(p, b) ==
    CHOOSE i \in 0 .. TxCount[b] :
        <<b, i + 1>> \in todo[p] /\ \A t \in todo[p] \cap TxsOf(b) : t[2] <= i + 1

LastIndex(p, b) ==
    CHOOSE i \in 1 .. TxCount[b] :
        <<b, i>> \in todo[p] /\ \A t \in todo[p] \cap TxsOf(b) : t[2] <= i

\* The block that a replay is at: the oldest that is left.
BlockAt(p) == CHOOSE b \in Blocks : /\ \E t \in todo[p] : t[1] = b
                                    /\ \A t \in todo[p] : t[1] >= b

\* The block, its context, and a fork of the state of its parent.
OpenBlock(p) ==
    /\ at[p] = "block"
    /\ cur' = [cur EXCEPT ![p] = <<BlockAt(p), 1>>]
    /\ last' = [last EXCEPT ![p] = LastIndex(p, BlockAt(p))]
    /\ clean' = [clean EXCEPT ![p] = TRUE]
    /\ at' = [at EXCEPT ![p] = "fetch"]
    /\ UNCHANGED <<dbVars, mode, persist, todo, got, excused>>

FetchTxRequest(p) ==
    /\ at[p] = "fetch"
    /\ at' = [at EXCEPT ![p] = "replay"]
    /\ UNCHANGED <<dbVars, mode, persist, todo, replayVars, excused>>

\* revm_tx_calls for a transaction that is wanted.  An inspection that fails
\* returns no calls, and no calls are no payment.
Inspect(p) ==
    /\ at[p] = "replay" /\ cur[p] \in todo[p]
    /\ at' = [at EXCEPT ![p] = IF persist[p] THEN "save" ELSE "commit"]
    /\ \E v \in Traced :
        /\ \/ v = Payment[cur[p]]
           \/ ~clean[p]
           \/ "inspect" \in flaky /\ v = "zero"
        /\ got' = [got EXCEPT ![p] = v]
    /\ UNCHANGED <<dbVars, mode, persist, todo, cur, last, clean, excused>>

PassOver(p) ==
    /\ at[p] = "replay" /\ cur[p] \notin todo[p]
    /\ at' = [at EXCEPT ![p] = "commit"]
    /\ UNCHANGED <<dbVars, mode, persist, todo, replayVars, excused>>

\* Each value is stored at once, in the middle of the replay.
Save(p) ==
    /\ at[p] = "save"
    /\ UpdateCoinbaseTransfer(cur[p], got[p])
    /\ got' = [got EXCEPT ![p] = "zero"]
    /\ at' = [at EXCEPT ![p] = "commit"]
    /\ UNCHANGED <<flagged, mode, persist, todo, cur, last, clean, excused>>

\* The fork and all that belongs to it go when the block is left.
LeaveBlock(p) ==
    /\ cur' = [cur EXCEPT ![p] = <<0, 0>>]
    /\ last' = [last EXCEPT ![p] = 0]
    /\ clean' = [clean EXCEPT ![p] = FALSE]
    /\ Goes(p, {t \in todo[p] : t[1] > BlockAt(p)}, "block")

\* On to the next transaction, after the last one wanted to the next block.
Advance(p, intact) ==
    IF cur[p][2] >= last[p]
    THEN LeaveBlock(p)
    ELSE /\ cur' = [cur EXCEPT ![p][2] = @ + 1]
         /\ clean' = [clean EXCEPT ![p] = @ /\ intact]
         /\ at' = [at EXCEPT ![p] = "fetch"]
         /\ UNCHANGED <<mode, persist, todo, last>>

\* Mutant: only the transactions that are wanted are committed to the fork.
CommitTargets(p) ==
    /\ at[p] = "commit"
    /\ Advance(p, cur[p] \in todo[p])
    /\ UNCHANGED <<dbVars, got, excused>>

\* "Commit unconditionally so the next tx sees this tx's state changes"; a
\* commit that fails is logged, and the replay goes on without it.
CommitTx(p) ==
    /\ at[p] = "commit"
    /\ \E done \in {TRUE, "commit" \notin flaky} : Advance(p, done)
    /\ UNCHANGED <<dbVars, got, excused>>

\* Any error inside a block: a backfill goes on with the next block, and the
\* rest of this one stays untraced.
BlockFails(p) ==
    /\ \/ at[p] \in {"block", "fetch"} /\ "fetch" \in flaky
       \/ at[p] = "save" /\ "update" \in flaky
    /\ IF persist[p]
       THEN /\ LeaveBlock(p)
            /\ excused' = [excused EXCEPT ![p] = @ \cup
                  {t \in todo[p] : t[1] = BlockAt(p) /\ t[2] >= cur[p][2]}]
            /\ UNCHANGED <<dbVars, got>>
       ELSE Fail(p)

\* Steps at which the task waits, and those during which it does not.
TraceAwaits(p) ==
    \/ Select(p) \/ Coinbases(p) \/ RpcTrace(p) \/ RpcTraceFails(p)
    \/ RpcUpdateFails(p) \/ OpenBlock(p) \/ FetchTxRequest(p) \/ Save(p)
    \/ BlockFails(p)

TraceComputes(p) == Inspect(p) \/ PassOver(p) \/ CommitTx(p)

-----------------------------------------------------------------------------
(* Properties.                                                             *)

\* "0: traced, but the transaction made no direct payment", "> 0: the wei amount
\* paid": a value is that of the trace, unless a replay could not inspect or
\* commit a transaction.
StoredIsTrue ==
    flaky \cap {"inspect", "commit"} = {} =>
        \A t \in Txs : value[t] \in Traced => value[t] = Payment[t]

\* What has been traced is kept: neither indexing again, nor a trace that fails,
\* is dropped or comes from another process takes a value away again.
TracedIsKept ==
    [][\A t \in Txs :
        value[t] \in Traced /\ flaky \cap {"inspect", "commit"} = {} =>
            value'[t] \in {value[t], "absent"}]_<<value, flaky>>

\* A backfill that is over has left NULL only where a trace, or one before it in
\* the block, has failed, and what was purged and indexed again meanwhile.
BackfillIsComplete ==
    \A p \in Procs : at[p] = "over" /\ persist[p] =>
        \A t \in Txs : value[t] = "null" => t \in excused[p]

=============================================================================
