----------------------------- MODULE DataWorker -----------------------------
(***************************************************************************)
(* The data worker of the terminal UI (tui/data/worker.rs): a thread that  *)
(* takes requests off a channel and runs each as a task of its own.  It    *)
(* keeps one task per kind of request: a new one aborts the old.  Tasks    *)
(* answer over the channel on which the app waits for events.              *)
(*                                                                         *)
(* A task answers and is over in one step.  An aborted task may still send *)
(* an answer it has just got; that is the same as an abort right after the *)
(* answer, unless the answer is later than that of the task's successor,   *)
(* which has yet to go to the network: this is taken not to happen.        *)
(***************************************************************************)
EXTENDS Naturals, Sequences

CONSTANTS
    Chains,     \* the chains one can look at
    Heads,      \* the blocks that "latest" may stand for
    MaxTxs,     \* bound on the number of transactions of a block
    FailingKeys,    \* the kinds of requests that may fail or time out
    Latest,     \* the latest block, in place of a number
    NoTask      \* no task of a kind is running

VARIABLES
    reqs,       \* the channel of requests
    active,     \* active_tasks: the request of the task that runs, by kind
    responses   \* the answers the app has yet to handle

workerVars == <<reqs, active, responses>>

\* A task for a chain: chain is the chain to look up or that of the endpoint
\* to be used, what the block or the filter, n the number of a block request.
Keys == {"Block", "Chains", "ChainInfo", "RefreshRpc"}
Request(key, chain, what, n) ==
    [key |-> key, chain |-> chain, what |-> what, n |-> n]

WorkerInit(sent) ==
    /\ reqs = sent
    /\ active = [k \in Keys |-> NoTask]
    /\ responses = <<>>

Send(r) == reqs' = Append(reqs, r)

\* Mutant: a request of a kind that is being worked on is dropped.
Started(r) == [active EXCEPT ![r.key] = IF @ = NoTask THEN r ELSE @]

\* The task of the same kind, if it still runs, is aborted.
Spawned(r) == [active EXCEPT ![r.key] = r]

Receive ==
    /\ reqs # <<>>
    /\ reqs' = Tail(reqs)
    /\ active' = Spawned(Head(reqs))
    /\ UNCHANGED responses

Respond(k, kind, block, txs) ==
    /\ responses' = Append(responses,
           [kind |-> kind, req |-> active[k], block |-> block, txs |-> txs])
    /\ active' = [active EXCEPT ![k] = NoTask]
    /\ UNCHANGED reqs

\* A latest block without transactions is taken to be block 0: its number is
\* read off the first transaction.
BlockFetched ==
    /\ active["Block"] # NoTask
    /\ \E txs \in 0 .. MaxTxs :
        IF active["Block"].what # Latest
        THEN Respond("Block", "Block", active["Block"].what, txs)
        ELSE \E b \in Heads :
                 Respond("Block", "Block", IF txs = 0 THEN 0 ELSE b, txs)

Resolved(k) ==
    /\ k # "Block"
    /\ active[k] # NoTask
    /\ Respond(k, k, 0, 0)

TaskFails(k) ==
    /\ k \in FailingKeys
    /\ active[k] # NoTask
    /\ Respond(k, "Error", 0, 0)

TaskEnds(k) == (k = "Block" /\ BlockFetched) \/ Resolved(k) \/ TaskFails(k)

\* A request of this kind is on its way, at work or answered.
Pending(k) ==
    \/ \E i \in DOMAIN reqs : reqs[i].key = k
    \/ active[k] # NoTask
    \/ \E i \in DOMAIN responses : responses[i].req.key = k

AtRest == \A k \in Keys : ~Pending(k)

=============================================================================
