------------------------------ MODULE Queries ------------------------------
(***************************************************************************)
(* Queries and their time budgets: `mevlog query`, `mevlog tx`, the MCP    *)
(* tools query and upload_query (a child process with a hard kill), and    *)
(* the search of the web server (a future under a TimeoutLayer).           *)
(*                                                                         *)
(* A query has one budget for its preparation, which is dropped at the     *)
(* deadline, and for its SQL, which is interrupted.  A replay inside the   *)
(* preparation is synchronous and ends first.  Time is a count of ticks; a *)
(* timer that is due stops the clock until it has fired.                   *)
(***************************************************************************)
EXTENDS Traces

CONSTANTS
    Plans,          \* what the processes may run: subset of [Procs -> Kinds]
    Targets,        \* the transactions that `mevlog tx` is asked for
    Budget,         \* --timeout-ms, QUERY_TIMEOUT_MS
    Grace,          \* KILL_GRACE
    UploadBudget,   \* IPFS_UPLOAD_BUDGET
    Outer,          \* TimeoutLayer of the web server
    MaxReplay,      \* bound: ticks that a synchronous part of a replay takes
    MaxPurges       \* bound: blocks purged

Kinds == {"query", "tx", "mcp", "upload", "search"}
Served == {"mcp", "upload", "search"}
NoTx == <<0, 0>>

ASSUME PlansAssumption == Plans \subseteq [Procs -> Kinds]
ASSUME TargetsAssumption == Targets \subseteq Txs
ASSUME TimesAssumption ==
    /\ {Budget, Grace, UploadBudget, Outer, MaxReplay, MaxPurges} \subseteq Nat
    /\ 0 < Budget /\ Budget < Outer

VARIABLES
    plan,       \* what each process runs
    stage,      \* how far it has come
    target,     \* the transaction that `mevlog tx` is for
    limit,      \* the budget of query(); 0: none
    age,        \* ticks since query() began; in stage "upload", since that began
    left,       \* what the SQL may still take
    waited,     \* ticks since the caller began to wait
    began,      \* when, on that clock, query() began
    ran,        \* ticks of the present synchronous part of a replay
    reply,      \* how the last call ended
    purges

clocks == <<limit, age, left, waited, began, ran>>
queryVars == <<plan, stage, target, clocks, reply, purges>>
vars == <<dbVars, flaky, traceVars, queryVars>>

Prep == {"deps", "index", "trace", "macros"}
Stages == {"idle", "startup", "sql", "orphan", "upload"} \cup Prep

\* Types of all variables.
TypeOK ==
    /\ TraceTypeOK
    /\ plan \in Plans
    /\ stage \in [Procs -> Stages]
    /\ target \in [Procs -> Targets \cup {NoTx}]
    /\ limit \in [Procs -> {0, Budget}]
    /\ \A c \in {age, left, waited, began, ran} : c \in [Procs -> Nat]
    /\ reply \in [Procs -> {"none", "rows", "error", "timed out", "cut"}]
    /\ purges \in 0 .. MaxPurges

Zero == [p \in Procs |-> 0]

Init ==
    /\ TraceInit
    /\ plan \in Plans
    /\ stage = [p \in Procs |-> "idle"]
    /\ target = [p \in Procs |-> NoTx]
    /\ limit = Zero /\ age = Zero /\ left = Zero
    /\ waited = Zero /\ began = Zero /\ ran = Zero
    /\ reply = [p \in Procs |-> "none"]
    /\ purges = 0

-----------------------------------------------------------------------------
(* Timers.                                                                 *)

\* How long the caller waits: the backstop of the MCP server, or the TimeoutLayer.
Patience(p) ==
    CASE plan[p] = "mcp" -> Budget + Grace
      [] plan[p] = "upload" -> Budget + UploadBudget + Grace
      [] plan[p] = "search" -> Outer

AwaitedBy(p) == plan[p] \in Served /\ stage[p] \notin {"idle", "orphan"}

\* Mutant: the preparation is under the timer only while it has nothing to index.
PrepDueServed(p) == stage[p] \in {"deps", "macros"} /\ limit[p] > 0 /\ age[p] >= limit[p]

PrepDue(p) == stage[p] \in Prep /\ limit[p] > 0 /\ age[p] >= limit[p]
SqlDue(p) == stage[p] \in {"sql", "orphan"} /\ limit[p] > 0 /\ left[p] = 0
CallDue(p) == AwaitedBy(p) /\ waited[p] >= Patience(p)
Due(p) == PrepDue(p) \/ SqlDue(p) \/ CallDue(p)

Timed(p) == limit[p] > 0 \/ AwaitedBy(p)

\* A timer cannot fire while its task computes.
MayWait(p) == IF Sync(p) THEN ran[p] < MaxReplay ELSE ~Due(p)

Ticks(clock, ps) == [p \in Procs |-> IF p \in ps THEN clock[p] + 1 ELSE clock[p]]

Tick ==
    /\ \E p \in Procs : Timed(p)
    /\ \A p \in Procs : Timed(p) => MayWait(p)
    /\ age' = Ticks(age, {p \in Procs : stage[p] # "startup" /\ limit[p] > 0})
    /\ waited' = Ticks(waited, {p \in Procs : AwaitedBy(p)})
    /\ ran' = Ticks(ran, {p \in Procs : Sync(p) /\ limit[p] > 0})
    /\ left' = [p \in Procs |->
                  IF stage[p] \in {"sql", "orphan"} /\ limit[p] > 0
                  THEN left[p] - 1 ELSE left[p]]
    /\ UNCHANGED <<dbVars, flaky, traceVars, plan, stage, target, limit, began,
                   reply, purges>>

-----------------------------------------------------------------------------
(* From the call to the SQL.                                               *)

GoTo(p, s) == stage' = [stage EXCEPT ![p] = s]

Start(p) ==
    /\ stage[p] = "idle"
    /\ GoTo(p, IF plan[p] \in Served THEN "startup" ELSE "deps")
    /\ \E n \in {0, Budget} :
        /\ plan[p] \in Served => n = Budget
        /\ plan[p] = "tx" => n = 0
        /\ limit' = [limit EXCEPT ![p] = n]
    /\ \E t \in Targets \cup {NoTx} :
        /\ plan[p] = "tx" <=> t # NoTx
        /\ target' = [target EXCEPT ![p] = t]
    /\ reply' = [reply EXCEPT ![p] = "none"]
    /\ UNCHANGED <<dbVars, flaky, traceVars, plan, age, left, waited, began, ran,
                   purges>>

\* The child has started, or the handler has its price, head and endpoint.
EnterQuery(p) ==
    /\ stage[p] = "startup" /\ ~Due(p)
    /\ GoTo(p, "deps")
    /\ began' = [began EXCEPT ![p] = waited[p]]
    /\ UNCHANGED <<dbVars, flaky, traceVars, plan, target, limit, age, left, waited,
                   ran, reply, purges>>

\* The calls that are served pass --skip-index.
InitDeps(p) ==
    /\ stage[p] = "deps" /\ ~Due(p)
    /\ GoTo(p, IF plan[p] \in Served THEN "macros" ELSE "index")
    /\ UNCHANGED <<dbVars, flaky, traceVars, plan, target, clocks, reply, purges>>

Wanted(p) == IF plan[p] = "tx" THEN {target[p][1]} ELSE Blocks

\* The newest block that is missing.
Missing(p) == {b \in Wanted(p) \ flagged : \A c \in Wanted(p) \ flagged : c <= b}

\* A chunk: its transactions, and its block rows last.
IndexTxs(p) ==
    /\ stage[p] = "index" /\ ~Due(p)
    /\ \E b \in Missing(p) : SaveTxs({b})
    /\ UNCHANGED <<flagged, flaky, traceVars, queryVars>>

IndexBlock(p) ==
    /\ stage[p] = "index" /\ ~Due(p)
    /\ \E b \in Missing(p) :
        /\ \A t \in TxsOf(b) : value[t] # "absent"
        /\ flagged' = flagged \cup {b}
    /\ UNCHANGED <<value, flaky, traceVars, queryVars>>

\* The range is indexed: on to the trace, if one is wanted.
Indexed(p) ==
    /\ stage[p] = "index" /\ Wanted(p) \subseteq flagged
    /\ \/ GoTo(p, "macros") /\ UNCHANGED traceVars
       \/ /\ GoTo(p, "trace")
          /\ \E m \in {"rpc", "revm"} :
                IF plan[p] = "tx" THEN StartSingle(p, m, target[p])
                                  ELSE StartBackfill(p, m)
    /\ UNCHANGED <<dbVars, flaky, plan, target, clocks, reply, purges>>

Trace(p) ==
    /\ stage[p] = "trace"
    /\ \/ TraceAwaits(p) /\ ~Due(p) /\ ran' = [ran EXCEPT ![p] = 0]
       \/ TraceComputes(p) /\ UNCHANGED ran
    /\ UNCHANGED <<flaky, plan, stage, target, limit, age, left, waited, began, reply,
                   purges>>

\* `mevlog tx` stores what it has got, whatever the row holds.
TraceOver(p) ==
    /\ stage[p] = "trace" /\ at[p] = "over"
    /\ GoTo(p, "macros")
    /\ IF plan[p] = "tx" THEN UpdateCoinbaseTransfer(target[p], got[p])
                         ELSE UNCHANGED value
    /\ Reset(p)
    /\ UNCHANGED <<flagged, flaky, plan, target, clocks, reply, purges>>

\* saturating_duration_since: nothing is left after a replay that ran late.
Remaining(p) == IF age[p] < limit[p] THEN limit[p] - age[p] ELSE 0

\* The preparation has its result before its timer is looked at.
StartSql(p) ==
    /\ stage[p] = "macros" /\ ~CallDue(p)
    /\ GoTo(p, "sql")
    /\ left' = [left EXCEPT ![p] = Remaining(p)]
    /\ UNCHANGED <<dbVars, flaky, traceVars, plan, target, limit, age, waited, began,
                   ran, reply, purges>>

-----------------------------------------------------------------------------
(* How a call ends.                                                        *)

\* The process, or the future, is gone; what the database was doing is not.
Ended(p) ==
    /\ GoTo(p, "idle")
    /\ target' = [target EXCEPT ![p] = NoTx]
    /\ limit' = [limit EXCEPT ![p] = 0]
    /\ age' = [age EXCEPT ![p] = 0]
    /\ left' = [left EXCEPT ![p] = 0]
    /\ waited' = [waited EXCEPT ![p] = 0]
    /\ began' = [began EXCEPT ![p] = 0]
    /\ ran' = [ran EXCEPT ![p] = 0]
    /\ Reset(p)
    /\ UNCHANGED <<flagged, flaky, plan, purges>>

Reply(p, r) == reply' = [reply EXCEPT ![p] = r]

\* A statement that was under way when its future was dropped may still be run.
InFlight(p) ==
    \/ UNCHANGED value
    \/ stage[p] = "index" /\ \E b \in Missing(p) : SaveTxs({b})
    \/ at[p] = "save" /\ UpdateCoinbaseTransfer(cur[p], got[p])
    \/ at[p] = "rpc" /\ persist[p]
       /\ \E t \in todo[p] : RpcNext(p, t) /\ UpdateCoinbaseTransfer(t, Payment[t])

\* "Query timed out after {}ms": timeout_at drops the preparation.
PrepTimesOut(p) ==
    /\ PrepDue(p) /\ ~Sync(p)
    /\ InFlight(p)
    /\ Ended(p) /\ Reply(p, "timed out")

\* An error of a step, or a signal to the process.
Stops(p) ==
    /\ stage[p] \in Prep \cup {"sql", "upload"}
    /\ InFlight(p)
    /\ Ended(p) /\ Reply(p, "error")

\* A query that is over before SQLite asks the progress handler is not timed out.
\* A transaction that the store does not hold is an error of `mevlog tx`.
SqlEnds(p) ==
    /\ stage[p] = "sql"
    /\ IF plan[p] = "upload"
       THEN /\ GoTo(p, "upload")
            /\ age' = [age EXCEPT ![p] = 0]
            /\ left' = [left EXCEPT ![p] = 0]
            /\ UNCHANGED <<dbVars, flaky, traceVars, plan, target, limit, waited,
                           began, ran, reply, purges>>
       ELSE /\ Ended(p) /\ UNCHANGED value
            /\ Reply(p, IF plan[p] = "tx" /\ value[target[p]] = "absent"
                        THEN "error" ELSE "rows")

SqlTimesOut(p) ==
    /\ SqlDue(p) /\ stage[p] = "sql"
    /\ Ended(p) /\ UNCHANGED value
    /\ Reply(p, "timed out")

UploadEnds(p) ==
    /\ stage[p] = "upload"
    /\ Ended(p) /\ UNCHANGED value
    /\ Reply(p, "rows")

\* The caller gives up.  The child of the MCP server is killed; the future of the
\* web server is dropped, but its SQL goes on in a blocking task.
Cut(p) ==
    /\ CallDue(p)
    /\ Reply(p, "cut")
    /\ IF plan[p] = "search" /\ stage[p] = "sql"
       THEN /\ GoTo(p, "orphan")
            /\ UNCHANGED <<dbVars, flaky, traceVars, plan, target, clocks, purges>>
       ELSE Ended(p) /\ UNCHANGED value

OrphanEnds(p) ==
    /\ stage[p] = "orphan"
    /\ Ended(p) /\ UNCHANGED <<value, reply>>

\* Another process purges a block.
Purge(b) ==
    /\ purges < MaxPurges /\ b \in flagged
    /\ purges' = purges + 1
    /\ PurgeBlock(b)
    /\ UNCHANGED <<flaky, plan, stage, target, clocks, reply>>

Step(p) ==
    \/ Start(p) \/ EnterQuery(p) \/ InitDeps(p)
    \/ IndexTxs(p) \/ IndexBlock(p) \/ Indexed(p)
    \/ Trace(p) \/ TraceOver(p) \/ StartSql(p)
    \/ PrepTimesOut(p) \/ Stops(p)
    \/ SqlEnds(p) \/ SqlTimesOut(p) \/ UploadEnds(p)
    \/ Cut(p) \/ OrphanEnds(p)

Next ==
    \/ \E p \in Procs : Step(p)
    \/ \E b \in Blocks : Purge(b)
    \/ Tick

Spec == Init /\ [][Next]_vars

-----------------------------------------------------------------------------
(* Properties.                                                             *)

\* No part of a query goes on past its deadline for longer than one synchronous
\* part of a replay takes.
WithinBudget(p) ==
    limit[p] > 0 /\ stage[p] \in Prep \cup {"sql", "orphan"} =>
        age[p] <= limit[p] + MaxReplay

\* What is left for a call when it has spent the whole budget of its query.
Slack(p) == Patience(p) - Budget

\* A call is cut by its caller only if it began query() later than the grace allows,
\* or if its upload has had IPFS_UPLOAD_BUDGET.
CutOnlyWhenLate(p) ==
    reply[p] = "none" /\ reply'[p] = "cut" =>
        \/ stage[p] = "startup"
        \/ began[p] >= Slack(p)
        \/ stage[p] = "upload" /\ (began[p] > Grace \/ age[p] >= UploadBudget)

\* "the whole phase shares one wall-clock budget", the SQL has what remains of it, and
\* the timers are in order, "so query()'s decorated timeout error wins the race
\* instead of the outer layer's generic 408" (and KILL_GRACE "lets the CLI's own
\* timeout error surface"): a query stops in time, whether or not somebody still waits
\* for it, and its caller does not cut it off before.
BudgetKept == [][\A p \in Procs : WithinBudget(p)' /\ CutOnlyWhenLate(p)]_vars

=============================================================================
