------------------------------ MODULE Scheduler ------------------------------
(***************************************************************************)
(* The scheduler of the backend (bin/scheduler.rs, config/schedule.rs): a  *)
(* live task that indexes new blocks, and cron jobs that reindex gaps and  *)
(* purge old blocks, each by running a mevlog command on the database of   *)
(* the chain.  A mutex lets one of them do so at a time.  The web server,  *)
(* a process of its own, runs block-txs on the same database on demand.    *)
(*                                                                         *)
(* A command that indexes saves its missing blocks newest first, one per   *)
(* chunk; fetching is the subject of BlockIndexing.  A purge selects and   *)
(* deletes a chunk in one step here, in two there.                         *)
(***************************************************************************)
EXTENDS TxsDb, Sequences

CONSTANTS
    Keep,               \* PURGE_KEEP_BLOCKS
    PurgeChunk,         \* PURGE_CHUNK_BLOCKS
    FirstHead,          \* the head of the chain to begin with
    WebBlocks,          \* the blocks that web requests ask for
    Failing,            \* the kinds of commands that may fail or time out,
                        \* and "connect", the live task's first RPC call
    Survivors,          \* the kinds of commands that may survive the scheduler
    MaxHead,            \* bound on the head of the chain
    MaxTicks,           \* bound: how often cron jobs and web requests come
    MaxRestarts         \* bound: how often the scheduler ends and starts again

ASSUME KeepAssumption == Keep \in Nat \ {0}
ASSUME PurgeChunkAssumption == PurgeChunk \in Nat \ {0}
ASSUME HeadAssumption == FirstHead \in Nat /\ MaxHead \in Nat
ASSUME WebBlocksAssumption == WebBlocks \subseteq Nat
ASSUME SurviveAssumption == Survivors \subseteq {"live", "purge", "reindex"}
ASSUME TicksAssumption == MaxTicks \in Nat /\ MaxRestarts \in Nat

VARIABLES
    head,       \* the newest block of the chain
    gen,        \* how often the scheduler has been started
    queue,      \* who holds job_lock, and who waits for it, in order
    live,       \* where the live task is
    since,      \* last_indexed when the live task began (history)
    last,       \* last_indexed
    goal,       \* the block up to which the live task's command indexes
    wanted,     \* the blocks from the lowest indexed one to the highest, as a reindex of
                \* the running scheduler has found them (history)
    step,       \* where each command is
    todo,       \* the missing blocks an index command has still to save
    cutoff,     \* a purge command removes the blocks below it
    ticks       \* counts cron ticks and web requests, for the bound

liveVars == <<live, since, last, goal, wanted>>
cmdVars == <<step, todo, cutoff>>
vars == <<blocks, logs, txs, head, gen, queue, live, since, last, goal,
          wanted, step, todo, cutoff, ticks>>

Jobs == {"purge", "reindex"}
Kinds == Jobs \cup {"live"}
Gens == 1 .. MaxRestarts + 1

\* A command is known by its kind and by the scheduler that has started it;
\* the web server runs one at a time.
Web == <<"web", 0>>
Indexers == ({"live", "reindex"} \X Gens) \cup {Web}
Purgers == {"purge"} \X Gens
Commands == Indexers \cup Purgers
Mine(k) == <<k, gen>>

TypeOK ==
    /\ DbTypeOK
    /\ head \in Nat
    /\ gen \in Gens
    /\ queue \in Seq(Kinds)
    /\ live \in {"starting", "polling", "dead"}
    /\ since \in Nat
    /\ last \in Nat
    /\ goal \in Nat
    /\ wanted \subseteq Nat
    /\ step \in [Commands -> {"off", "next", "txs", "blocks", "purge"}]
    /\ todo \in [Commands -> SUBSET Nat]
    /\ cutoff \in [Commands -> Nat]
    /\ ticks \in Nat

Init ==
    /\ DbInit
    /\ head = FirstHead
    /\ gen = 1
    /\ queue = <<>>
    /\ live = "starting"
    /\ since = 0
    /\ last = 0
    /\ goal = 0
    /\ wanted = {}
    /\ step = [c \in Commands |-> "off"]
    /\ todo = [c \in Commands |-> {}]
    /\ cutoff = [c \in Commands |-> 0]
    /\ ticks = 0

Grow ==
    /\ head < MaxHead
    /\ head' = head + 1
    /\ UNCHANGED <<dbVars, gen, queue, liveVars, cmdVars, ticks>>

-----------------------------------------------------------------------------
(* Commands.                                                               *)

\* c sets out to save the blocks of S, or to purge those below cut.
Run(c, S, cut) ==
    /\ step' = [step EXCEPT ![c] = IF c \in Purgers THEN "purge" ELSE "next"]
    /\ todo' = [todo EXCEPT ![c] = S]
    /\ cutoff' = [cutoff EXCEPT ![c] = cut]

SaveLogsOf(c) ==
    /\ step[c] = "next"
    /\ \E b \in todo[c] : IsMax(b, todo[c]) /\ SaveLogs({b})
    /\ step' = [step EXCEPT ![c] = "txs"]
    /\ UNCHANGED <<blocks, txs, head, gen, queue, liveVars, todo, cutoff, ticks>>

SaveTxsOf(c) ==
    /\ step[c] = "txs"
    /\ \E b \in todo[c] : IsMax(b, todo[c]) /\ SaveTxs({b})
    /\ step' = [step EXCEPT ![c] = "blocks"]
    /\ UNCHANGED <<blocks, logs, head, gen, queue, liveVars, todo, cutoff, ticks>>

SaveBlocksOf(c) ==
    /\ step[c] = "blocks"
    /\ \E b \in todo[c] :
        /\ IsMax(b, todo[c])
        /\ SaveBlocks({b})
        /\ todo' = [todo EXCEPT ![c] = @ \ {b}]
    /\ step' = [step EXCEPT ![c] = "next"]
    /\ UNCHANGED <<logs, txs, head, gen, queue, liveVars, cutoff, ticks>>

Purgeable(c) == {b \in blocks : b < cutoff[c]}

PurgeChunkOf(c) ==
    /\ step[c] = "purge"
    /\ \E u \in Purgeable(c) :
        IsChunkUpper(u, Purgeable(c), PurgeChunk) /\ DeleteThrough(u)
    /\ UNCHANGED <<head, gen, queue, liveVars, cmdVars, ticks>>

\* The guard is dropped: job_lock goes to the task that has waited longest.
Release(c) == queue' = IF c[2] = gen THEN Tail(queue) ELSE queue

End(c) ==
    /\ step' = [step EXCEPT ![c] = "off"]
    /\ todo' = [todo EXCEPT ![c] = {}]
    /\ cutoff' = [cutoff EXCEPT ![c] = 0]
    /\ wanted' = IF c = Mine("reindex") THEN {} ELSE wanted
    /\ Release(c)

\* A round of the live task has succeeded: last_indexed follows.
Exit(c) ==
    /\ \/ step[c] = "next" /\ todo[c] = {}
       \/ step[c] = "purge" /\ Purgeable(c) = {}
    /\ End(c)
    /\ last' = IF c = Mine("live") THEN goal ELSE last
    /\ goal' = IF c = Mine("live") THEN 0 ELSE goal
    /\ UNCHANGED <<dbVars, head, gen, live, since, ticks>>

\* Mutant: a round that failed counts as done.
FailsDone(c) ==
    /\ c[1] \in Failing
    /\ step[c] # "off"
    /\ End(c)
    /\ last' = IF c = Mine("live") THEN goal ELSE last
    /\ goal' = IF c = Mine("live") THEN 0 ELSE goal
    /\ UNCHANGED <<dbVars, head, gen, live, since, ticks>>

\* Mutant: the lock is not given back.
FailsLocked(c) ==
    /\ c[1] \in Failing
    /\ step[c] # "off"
    /\ step' = [step EXCEPT ![c] = "off"]
    /\ todo' = [todo EXCEPT ![c] = {}]
    /\ cutoff' = [cutoff EXCEPT ![c] = 0]
    /\ goal' = IF c = Mine("live") THEN 0 ELSE goal
    /\ UNCHANGED <<dbVars, head, gen, queue, live, since, last, wanted, ticks>>

\* The command fails, or runs into the web server's timeout: a round of the
\* live task is taken up again, a job waits for its next tick.
Fails(c) ==
    /\ c[1] \in Failing
    /\ step[c] # "off"
    /\ End(c)
    /\ goal' = IF c = Mine("live") THEN 0 ELSE goal
    /\ UNCHANGED <<dbVars, head, gen, live, since, last, ticks>>

-----------------------------------------------------------------------------
(* The live task: populate_mainnet_cache.                                  *)

LiveStarts ==
    /\ live = "starting"
    /\ live' = "polling"
    /\ since' = head
    /\ last' = head
    /\ UNCHANGED <<dbVars, head, gen, queue, goal, wanted, cmdVars, ticks>>

\* The first call for the head of the chain fails, which ends the task: it is
\* logged, and the scheduler goes on without it.
LiveDies ==
    /\ live = "starting"
    /\ "connect" \in Failing
    /\ live' = "dead"
    /\ UNCHANGED <<dbVars, head, gen, queue, since, last, goal, wanted, cmdVars, ticks>>

\* Mutant: the lock may be taken while others wait for it.
LockFreeBarging == \A k \in Kinds : step[Mine(k)] = "off"

\* Mutant: the lock is not asked for.
LockIgnored == step[Mine("live")] = "off"

\* try_lock fails while the lock is held, and while it is waited for.
LockFree == queue = <<>>

\* There are new blocks, and the lock is free: they are indexed.
LivePolls ==
    /\ live = "polling"
    /\ head > last
    /\ LockFree
    /\ queue' = <<"live">> \o queue
    /\ goal' = head
    /\ Run(Mine("live"), MissingBlocks(last + 1, head), 0)
    /\ UNCHANGED <<dbVars, head, gen, live, since, last, wanted, ticks>>

-----------------------------------------------------------------------------
(* The jobs of get_schedule.                                               *)

Tick(k) ==
    /\ ticks < MaxTicks
    /\ ticks' = ticks + 1
    /\ queue' = Append(queue, k)
    /\ UNCHANGED <<dbVars, head, gen, liveVars, cmdVars>>

\* The job holds the lock, and has not yet run its command.
HasTurn(k) == queue # <<>> /\ Head(queue) = k /\ step[Mine(k)] = "off"

\* With no block indexed, reindex is an error and purge-db does nothing.
NothingToDo(k) ==
    /\ HasTurn(k)
    /\ blocks = {}
    /\ queue' = Tail(queue)
    /\ UNCHANGED <<dbVars, head, gen, liveVars, cmdVars, ticks>>

StartPurge ==
    /\ HasTurn("purge")
    /\ \E m \in blocks :
        IsMax(m, blocks) /\ Run(Mine("purge"), {}, CutoffOf(m, Keep))
    /\ UNCHANGED <<dbVars, head, gen, queue, liveVars, ticks>>

\* Mutants: the whole indexed range; a window that begins one block late.
ReindexAll(lowest, m) == lowest
ReindexLate(lowest, m) ==
    IF lowest > CutoffOf(m, Keep) + 1 THEN lowest ELSE CutoffOf(m, Keep) + 1

\* Where reindex begins: the window of the purge, or the lowest indexed block.
ReindexFrom(lowest, m) ==
    IF lowest > CutoffOf(m, Keep) THEN lowest ELSE CutoffOf(m, Keep)

IsMin(l, S) == l \in S /\ \A b \in S : l <= b

StartReindex ==
    /\ HasTurn("reindex")
    /\ \E l, m \in blocks :
        /\ IsMin(l, blocks) /\ IsMax(m, blocks)
        /\ Run(Mine("reindex"), MissingBlocks(ReindexFrom(l, m), m), 0)
        /\ wanted' = l .. m
    /\ UNCHANGED <<dbVars, head, gen, queue, live, since, last, goal, ticks>>

-----------------------------------------------------------------------------
\* block-txs for a block the chain has, with no regard to job_lock.
WebRequest ==
    /\ step[Web] = "off"
    /\ ticks < MaxTicks
    /\ ticks' = ticks + 1
    /\ \E b \in WebBlocks : b <= head /\ Run(Web, MissingBlocks(b, b), 0)
    /\ UNCHANGED <<dbVars, head, gen, queue, liveVars>>

\* The scheduler ends and is started again.  Nothing stops the commands it has
\* been running, except whatever ended it.
Restart ==
    /\ gen <= MaxRestarts
    /\ gen' = gen + 1
    /\ queue' = <<>>
    /\ live' = "starting"
    /\ since' = 0 /\ last' = 0 /\ goal' = 0 /\ wanted' = {}
    /\ \/ /\ \A c \in Commands : step[c] # "off" /\ c[2] = gen => c[1] \in Survivors
          /\ UNCHANGED cmdVars
       \/ /\ step' = [c \in Commands |-> IF c[2] = gen THEN "off" ELSE step[c]]
          /\ todo' = [c \in Commands |-> IF c[2] = gen THEN {} ELSE todo[c]]
          /\ cutoff' = [c \in Commands |-> IF c[2] = gen THEN 0 ELSE cutoff[c]]
    /\ UNCHANGED <<dbVars, head, ticks>>

-----------------------------------------------------------------------------
Work(c) ==
    SaveLogsOf(c) \/ SaveTxsOf(c) \/ SaveBlocksOf(c) \/ PurgeChunkOf(c) \/ Exit(c)

StartJob(k) ==
    NothingToDo(k) \/ (k = "purge" /\ StartPurge) \/ (k = "reindex" /\ StartReindex)

Next ==
    \/ Grow
    \/ \E c \in Commands : Work(c) \/ Fails(c)
    \/ LiveStarts \/ LiveDies \/ LivePolls
    \/ \E k \in Jobs : Tick(k) \/ StartJob(k)
    \/ WebRequest
    \/ Restart

Spec == Init /\ [][Next]_vars

\* Commands run on by themselves, a job that has the lock runs its command,
\* and the live task polls.  Nothing has to be retried with success.
Fairness ==
    /\ \A c \in Commands : WF_vars(Work(c))
    /\ \A k \in Jobs : WF_vars(StartJob(k))
    /\ WF_vars(LiveStarts)
    /\ WF_vars(LivePolls)

FairSpec == Spec /\ Fairness

\* What a round of the live task tries again and again succeeds in the end: the
\* RPC endpoint does not fail it for ever at the same step.
RetriesSucceed ==
    /\ SF_vars(SaveLogsOf(Mine("live"))) /\ SF_vars(SaveTxsOf(Mine("live")))
    /\ SF_vars(SaveBlocksOf(Mine("live"))) /\ SF_vars(Exit(Mine("live")))

-----------------------------------------------------------------------------
(* Properties.                                                             *)

\* No two commands of the running scheduler work on the database at the same
\* time, and only a command that has survived an earlier one may overlap them.
OneWriter ==
    \A c, d \in Commands \ {Web} : step[c] # "off" /\ step[d] # "off" =>
        \/ c = d
        \/ c[2] # gen /\ c[1] \in Survivors
        \/ d[2] # gen /\ d[1] \in Survivors

\* Block b has left the window of the purge.
Left(b) == \E m \in blocks : m >= b + Keep

\* Rounds of the live task that fail, are deferred, or save their newest blocks
\* only leave no gap behind: what last_indexed has passed is indexed, unless it
\* has left the window of the purge.
NoGapBehindLive ==
    \A b \in since + 1 .. last :
        b \in blocks \/ Left(b)

\* Why these hold: a command of the running scheduler has the head of the queue
\* for its kind, a purge keeps the block its cutoff is counted from, and of the
\* range of a round what is not indexed is in the hands of its command.
LockInv ==
    /\ \A c \in Commands : step[c] # "off" /\ c[2] = gen =>
        queue # <<>> /\ c[1] = Head(queue)
    /\ \A c \in Commands : c[2] > gen => step[c] = "off"
    /\ \A c \in Commands \ {Web} :
        step[c] # "off" => c[2] = gen \/ c[1] \in Survivors

PurgeInv ==
    \A c \in Commands :
        cutoff[c] = 0 \/ \E m \in blocks : m + 1 >= cutoff[c] + Keep

RoundInv ==
    /\ step[Mine("live")] # "purge"
    /\ live # "polling" => step[Mine("live")] = "off"
    /\ step[Mine("live")] # "off" =>
        \A b \in last + 1 .. goal :
            b \in blocks \/ Left(b) \/ b \in todo[Mine("live")]

SchedInv == TypeOK /\ LockInv /\ PurgeInv /\ RoundInv /\ NoGapBehindLive

\* A reindex of the running scheduler that ends well has left no gap between the
\* lowest and the highest block it has found indexed, but for what has left the window
\* of the purge: gaps of earlier schedulers are closed, whatever web requests, purges
\* and commands that have survived their scheduler do to the database meanwhile.
ReindexHeals ==
    [][Exit(Mine("reindex")) => \A b \in wanted : b \in blocks \/ Left(b)]_vars

\* What a reindex sets out to fetch is nothing that a purge would remove at that
\* moment: a stray old block that a web request has left does not make it fetch
\* all that lies between, to be deleted and fetched again for ever.
ReindexStaysInWindow ==
    [][StartReindex =>
        \A b \in todo'[Mine("reindex")], m \in blocks : b >= CutoffOf(m, Keep)]_vars

\* A job that is due gets its turn, even if the live task takes the lock again
\* and again because its command keeps failing.
JobsGetTheirTurn ==
    \A k \in Jobs :
        (\E i \in DOMAIN queue : queue[i] = k) ~>
            (\A i \in DOMAIN queue : queue[i] # k)

\* When the chain stops growing, the live task has caught up with it and stays
\* so, whatever jobs, failures and survivors of an earlier scheduler come in
\* between, unless its first call has failed.
LiveCatchesUp ==
    RetriesSucceed => <>[](last >= head \/ live = "dead")

=============================================================================
