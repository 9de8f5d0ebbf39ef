----------------------------- MODULE WebServer -----------------------------
(***************************************************************************)
(* The requests of the web server that run mevlog commands, beside users   *)
(* who run commands of their own on the same machine (CommandStart).       *)
(*                                                                         *)
(* A request for a block (block_txs_with_logs) gets an endpoint from the   *)
(* server's cache, runs `block-txs`, and then `block-logs` for the block   *)
(* that one has settled on.  Each command is a child process, killed when  *)
(* the call that waits for it is dropped; the TimeoutLayer drops the whole *)
(* handler at any point.                                                   *)
(***************************************************************************)
EXTENDS CommandStart

CONSTANTS
    Handlers,       \* requests the server works on at a time; each is the
                    \* process of its child
    Shells,         \* processes of users
    Invocations,    \* the connection options users give
    Served,         \* the chains requests are for
    LatestOffset,   \* --latest-offset of block-txs
    MaxHead,        \* bound: the block the chains end at
    Latest,         \* the block "latest"
    Nothing         \* no block

ASSUME HandlersAssumption == Procs = Handlers \cup Shells /\ Handlers \cap Shells = {}
ASSUME ServedAssumption == Served \subseteq Chains
ASSUME BlockAssumption ==
    LatestOffset \in Nat /\ MaxHead \in Nat /\ Latest \notin Nat /\ Nothing \notin Nat
ASSUME InvocationsAssumption == Invocations \subseteq Options

VARIABLES
    head,           \* the latest block of the chains
    step,           \* what each handler awaits
    ask,            \* its request: the chain and the block, or "latest"
    url,            \* --rpc-url of its commands, or NoUrl
    txsOf,          \* the block its transactions are of
    urlCache        \* RPC_URL_MEMORY_CACHE, for each chain

handlerVars == <<step, ask, url, txsOf>>
webVars == <<startVars, head, handlerVars, urlCache>>

Blocks == 0 .. MaxHead
NoAsk == [chain |-> NoChain, block |-> Nothing]
HandlerSteps == {"idle", "url", "info", "txs", "logs"}

WebTypeOK ==
    /\ StartTypeOK
    /\ head \in Blocks
    /\ step \in [Handlers -> HandlerSteps]
    /\ ask \in [Handlers -> [chain : Chains \cup {NoChain},
                             block : Blocks \cup {Latest, Nothing}]]
    /\ url \in [Handlers -> Urls \cup {NoUrl}]
    /\ txsOf \in [Handlers -> Blocks \cup {Nothing}]
    /\ urlCache \in [Chains -> SUBSET Urls]

WebInit ==
    /\ StartInit
    /\ head = 0
    /\ step = [h \in Handlers |-> "idle"]
    /\ ask = [h \in Handlers |-> NoAsk]
    /\ url = [h \in Handlers |-> NoUrl]
    /\ txsOf = [h \in Handlers |-> Nothing]
    /\ urlCache = [c \in Chains |-> {}]

-----------------------------------------------------------------------------
(* The world, and the users.                                               *)

Grow ==
    /\ head < MaxHead
    /\ head' = head + 1
    /\ UNCHANGED <<startVars, handlerVars, urlCache>>

\* init_deps and update_db, with what users run them for left out.
UserRuns(p) ==
    /\ \/ \E o \in Invocations : Launch(p, "serve", o)
       \/ Launch(p, "update", NoOptions)
    /\ UNCHANGED <<head, handlerVars, urlCache>>

UserDone(p) ==
    /\ at[p] = "ready"
    /\ Stop(p, "idle")
    /\ UNCHANGED <<faults, head, handlerVars, urlCache>>

Proceed(p) ==
    /\ StartStep(p) \/ Crash(p)
    /\ UNCHANGED <<head, handlerVars, urlCache>>

-----------------------------------------------------------------------------
(* block_txs_with_logs.                                                    *)

Request(h) ==
    /\ step[h] = "idle"
    /\ \E c \in Served, b \in Blocks \cup {Latest} :
        ask' = [ask EXCEPT ![h] = [chain |-> c, block |-> b]]
    /\ step' = [step EXCEPT ![h] = "url"]
    /\ UNCHANGED <<startVars, head, url, txsOf, urlCache>>

\* The options both commands of a request get.
ChildOptions(h, u) ==
    [urls |-> IF u = NoUrl THEN <<>> ELSE <<u>>, chain |-> ask[h].chain, skip |-> TRUE]

StartTxs(h, u) ==
    /\ Launch(h, "serve", ChildOptions(h, u))
    /\ url' = [url EXCEPT ![h] = u]
    /\ step' = [step EXCEPT ![h] = "txs"]

\* get_random_rpc_url, without ETH_RPC_URL: with it mainnet has an endpoint that
\* is always known.
PickUrl(h) ==
    /\ step[h] = "url"
    /\ IF urlCache[ask[h].chain] # {}
        THEN \E u \in urlCache[ask[h].chain] : StartTxs(h, u)
        ELSE /\ Launch(h, "chain-info", ChildOptions(h, NoUrl))
             /\ step' = [step EXCEPT ![h] = "info"]
             /\ UNCHANGED url
    /\ UNCHANGED <<head, ask, txsOf, urlCache>>

\* fetch_chain_info has the answer, of which three are kept.
UrlsKept == 3
GotUrls(h) ==
    /\ step[h] = "info" /\ at[h] = "ready"
    /\ \E S \in Benchmarked(ask[h].chain, UrlsKept) \ {{}} : \E u \in S :
        /\ urlCache' = [urlCache EXCEPT ![ask[h].chain] = S]
        /\ Relaunch(h, "serve", ChildOptions(h, u))
        /\ url' = [url EXCEPT ![h] = u]
    /\ step' = [step EXCEPT ![h] = "txs"]
    /\ UNCHANGED <<head, ask, txsOf>>

\* Without it the commands look for an endpoint themselves.
NoUrls(h) ==
    /\ step[h] = "info" /\ at[h] = "failed"
    /\ StartTxs(h, NoUrl)
    /\ UNCHANGED <<head, ask, txsOf, urlCache>>

\* get_latest_block, and BlocksRange::from_str for a single block: the block, if
\* it is not above the latest.
LatestBlock(offset) == IF offset < head THEN head - offset ELSE 0
Settled(b, offset) ==
    IF b = Latest THEN {LatestBlock(offset)}
    ELSE {n \in {b} : n <= LatestBlock(offset)}

\* Mutant: the logs are asked for as the transactions were.
TxsDoneAsAsked(h) ==
    /\ step[h] = "txs" /\ at[h] = "ready"
    /\ \E b \in Settled(ask[h].block, LatestOffset) : txsOf' = [txsOf EXCEPT ![h] = b]
    /\ Relaunch(h, "serve", ChildOptions(h, url[h]))
    /\ step' = [step EXCEPT ![h] = "logs"]
    /\ UNCHANGED <<head, ask, url, urlCache>>

\* block-txs has settled on a block; the logs are asked for by its number.
TxsDone(h) ==
    /\ step[h] = "txs" /\ at[h] = "ready"
    /\ \E b \in Settled(ask[h].block, LatestOffset) :
        /\ txsOf' = [txsOf EXCEPT ![h] = b]
        /\ ask' = [ask EXCEPT ![h].block = b]
    /\ Relaunch(h, "serve", ChildOptions(h, url[h]))
    /\ step' = [step EXCEPT ![h] = "logs"]
    /\ UNCHANGED <<head, url, urlCache>>

\* The handler is over, with a reply or with an error.
EndHandler(h) ==
    /\ step' = [step EXCEPT ![h] = "idle"]
    /\ ask' = [ask EXCEPT ![h] = NoAsk]
    /\ url' = [url EXCEPT ![h] = NoUrl]
    /\ txsOf' = [txsOf EXCEPT ![h] = Nothing]
    /\ UNCHANGED <<head, urlCache>>

\* block-logs is called without an offset.
LogsDone(h) ==
    /\ step[h] = "logs" /\ at[h] = "ready"
    /\ Settled(ask[h].block, 0) # {}
    /\ Stop(h, "idle")
    /\ EndHandler(h)
    /\ UNCHANGED faults

\* "Block number exceeds latest block".
TooNew(h) ==
    /\ step[h] = "txs"
    /\ at[h] = "ready"
    /\ Settled(ask[h].block, LatestOffset) = {}
    /\ Stop(h, "failed")
    /\ UNCHANGED <<faults, head, handlerVars, urlCache>>

ChildFailed(h) ==
    /\ step[h] \in {"txs", "logs"} /\ at[h] = "failed"
    /\ EndHandler(h)
    /\ UNCHANGED startVars

\* Mutant: the child goes on.
TimeoutNoKill(h) ==
    /\ step[h] # "idle"
    /\ EndHandler(h)
    /\ UNCHANGED startVars

\* The handler is dropped, and its child is killed (kill_on_drop).
Timeout(h) ==
    /\ step[h] # "idle"
    /\ EndHandler(h)
    /\ IF at[h] \in Over THEN UNCHANGED startVars
                         ELSE Stop(h, "failed") /\ UNCHANGED faults

-----------------------------------------------------------------------------
(* The caches.                                                             *)

\* CACHE_DURATION is over.
UrlsExpire(c) ==
    /\ urlCache[c] # {}
    /\ urlCache' = [urlCache EXCEPT ![c] = {}]
    /\ UNCHANGED <<startVars, head, handlerVars>>

-----------------------------------------------------------------------------
Handle(h) ==
    \/ Request(h) \/ PickUrl(h) \/ GotUrls(h) \/ NoUrls(h) \/ TxsDone(h)
    \/ LogsDone(h) \/ TooNew(h) \/ ChildFailed(h) \/ Timeout(h)

WebNext ==
    \/ Grow
    \/ \E p \in Procs : Proceed(p)
    \/ \E p \in Shells : UserRuns(p) \/ UserDone(p)
    \/ \E h \in Handlers : Handle(h)
    \/ \E c \in Chains : UrlsExpire(c)

WebSpec == WebInit /\ [][WebNext]_webVars

-----------------------------------------------------------------------------
(* Properties.                                                             *)

\* The logs of a reply are nested under the transactions by their index alone,
\* so both must be of one block, however the chain moves between the commands.
LogsFitTxs ==
    \A h \in Handlers :
        step[h] = "logs" /\ at[h] = "ready" => Settled(ask[h].block, 0) = {txsOf[h]}

\* No command works on for a request that has been answered or given up:
\* "otherwise it keeps indexing over RPC as an orphan".
NoChildLeft == \A h \in Handlers : step[h] \notin {"info", "txs", "logs"} => at[h] \in Over

=============================================================================
