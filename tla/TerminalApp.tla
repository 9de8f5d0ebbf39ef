----------------------------- MODULE TerminalApp -----------------------------
(***************************************************************************)
(* The terminal UI (tui/app.rs, app/data.rs, app/keys.rs, app/state.rs):   *)
(* one thread that handles the user's keys and the answers of the data     *)
(* worker, one at a time.                                                  *)
(*                                                                         *)
(* Keys and answers come over one channel.  A key is handled when it is    *)
(* pressed here: pressing it before an answer is sent comes to the same.   *)
(* The digits of a block number are typed and confirmed in one step, and a *)
(* search query is the number of its letters.  Scrolling and the tabs of   *)
(* the transaction popup are left out.                                     *)
(***************************************************************************)
EXTENDS DataWorker

CONSTANTS
    Starts,         \* how the app is started: sets of "chain" and "url"
    DefaultChains,  \* DEFAULT_CHAINS, a sequence
    Matching,       \* for each query the sequence of chains that match it
    MaxBlock,       \* bound on the blocks one can ask for
    MaxKeys,        \* bound on the keys pressed
    None            \* no chain, no block, no selection

\* The requests the app may send.
Requests ==
    [key : {"Block"}, chain : Chains, what : Nat \cup {Latest}, n : Nat]
        \cup [key : {"Chains"}, chain : {None}, what : DOMAIN Matching, n : {0}]
        \cup [key : {"ChainInfo", "RefreshRpc"}, chain : Chains, what : {None}, n : {0}]

ASSUME WorkerAssumption ==
    /\ NoTask \notin Requests
    /\ Heads \subseteq Nat
    /\ MaxTxs \in Nat
ASSUME ChainsAssumption ==
    /\ None \notin Chains
    /\ DefaultChains \in Seq(Chains)
    /\ Matching \in Seq(Seq(Chains))
ASSUME StartsAssumption == Starts \subseteq SUBSET {"chain", "url"}
ASSUME MaxBlockAssumption == MaxBlock \in Nat

VARIABLES
    mode,           \* AppMode, or "exited"
    chain,          \* chain_id, and selected_chain's
    selected,       \* whether selected_chain is known
    rpc,            \* rpc_url: the chain whose endpoint it is
    refreshing,     \* rpc_refreshing
    loading,        \* is_loading
    loadingBlock,   \* loading_block
    error,          \* whether error_message is set
    current,        \* current_block
    shown,          \* the chain of the endpoint that the last block, or the
                    \* error in its place, came from (history)
    astray,         \* a refresh has failed, or the chain of the endpoint the app
                    \* was started with has been looked up (history)
    txs,            \* the number of items
    row,            \* the selected item, from 0
    popup,          \* block_input_popup_open, info_popup_open: never both
    txPopup,        \* tx_popup_open
    query,          \* search_query
    search,         \* search_popup_open
    listed,         \* available_chains
    netRow,         \* the selected one of them, from 0
    asked,          \* the number of block requests sent (history)
    answered,       \* the last of them with an answer handled (history)
    keys            \* counts keys, for the bound

connVars == <<chain, selected, rpc, refreshing>>
loadVars == <<loading, loadingBlock, error>>
viewVars == <<current, txs, row, popup, txPopup>>
netVars == <<query, search, listed, netRow>>
histVars == <<shown, answered, astray>>
vars == <<workerVars, mode, connVars, loadVars, viewVars, netVars, asked, histVars, keys>>

TypeOK ==
    /\ mode \in {"select", "main", "exited"}
    /\ {chain, rpc, shown} \subseteq Chains \cup {None}
    /\ {selected, refreshing, loading, error, txPopup, search, astray} \subseteq BOOLEAN
    /\ {loadingBlock, current} \subseteq Nat \cup {None}
    /\ {txs, query, asked, answered, keys} \subseteq Nat
    /\ {row, netRow} \subseteq Nat \cup {None}
    /\ popup \in {"none", "input", "info"}
    /\ listed \in Seq(Chains)

InDefault(c) == \E i \in DOMAIN DefaultChains : DefaultChains[i] = c

\* What App::new asks the worker for, with the chain and endpoint it is given.
FirstRequests(c, url) ==
    IF url # None
    THEN IF c # None THEN <<Request("Block", url, Latest, 1)>>
         ELSE <<Request("ChainInfo", url, None, 0)>>
    ELSE IF c # None THEN <<Request("RefreshRpc", c, None, 0)>> ELSE <<>>

Init ==
    \E start \in Starts, c \in Chains :
        /\ chain = IF "chain" \in start THEN c ELSE None
        /\ rpc = IF "url" \in start THEN c ELSE None
        /\ selected = ("chain" \in start /\ InDefault(c))
        /\ refreshing = (start = {"chain"})
        /\ mode = IF start = {} THEN "select" ELSE "main"
        /\ loading = (start # {})
        /\ loadingBlock = None /\ error = FALSE
        /\ current = None /\ shown = None /\ astray = FALSE /\ txs = 0 /\ row = None
        /\ popup = "none" /\ txPopup = FALSE
        /\ query = 0 /\ search = FALSE /\ netRow = 0
        /\ listed = IF start = {} THEN DefaultChains ELSE <<>>
        /\ WorkerInit(FirstRequests(chain, rpc))
        /\ asked = (IF start = {"chain", "url"} THEN 1 ELSE 0)
        /\ answered = 0 /\ keys = 0

-----------------------------------------------------------------------------
(* What the handlers call.                                                 *)

Ready == chain # None /\ rpc # None     \* rpc_opts

\* A block is asked for: nothing happens unless chain and endpoint are known.
Ask(block) ==
    IF Ready
    THEN /\ Send(Request("Block", rpc, block, asked + 1))
         /\ asked' = asked + 1
         /\ loading' = TRUE
         /\ loadingBlock' = IF block = Latest THEN None ELSE block
    ELSE UNCHANGED <<reqs, asked, loading, loadingBlock>>

EffectiveBlock == IF loadingBlock # None THEN loadingBlock ELSE current

\* A refresh is refused while one is under way.
RequestRpcRefresh ==
    IF ~refreshing /\ chain # None
    THEN refreshing' = TRUE /\ Send(Request("RefreshRpc", chain, None, 0))
    ELSE UNCHANGED <<refreshing, reqs>>

\* The query is q now: the default chains, or the worker looks for matches.
RequestFilteredChains(q) ==
    /\ query' = q
    /\ IF q = 0
       THEN /\ listed' = DefaultChains
            /\ loading' = FALSE
            /\ UNCHANGED reqs
       ELSE /\ loading' = TRUE
            /\ Send(Request("Chains", None, q, 0))
            /\ UNCHANGED listed

CanReturn == selected \/ rpc # None

\* select_next and select_previous, among the rows 0 .. n - 1.
Next1(r, n) == IF r = None THEN 0 ELSE IF r + 1 < n THEN r + 1 ELSE n - 1
Previous1(r) == IF r = None \/ r = 0 THEN 0 ELSE r - 1

-----------------------------------------------------------------------------
(* Keys while an error is shown.                                           *)

DismissError ==
    /\ error
    /\ error' = FALSE
    /\ UNCHANGED <<workerVars, mode, connVars, loading, loadingBlock, viewVars,
                   netVars, asked>>

RefreshOnError ==
    /\ error
    /\ error' = FALSE
    /\ RequestRpcRefresh
    /\ UNCHANGED <<active, responses, mode, chain, selected, rpc, loading,
                   loadingBlock, viewVars, netVars, asked>>

-----------------------------------------------------------------------------
(* Keys of the main screen.                                                *)

InMain(p) == ~error /\ mode = "main" /\ popup = p

OpenNetworks ==
    /\ InMain("none")
    /\ ~txPopup
    /\ mode' = "select"
    /\ listed' = DefaultChains
    /\ netRow' = 0
    /\ UNCHANGED <<workerVars, connVars, loadVars, viewVars, query, search, asked>>

Navigate ==
    /\ InMain("none")
    /\ EffectiveBlock # None
    /\ \/ EffectiveBlock > 0 /\ Ask(EffectiveBlock - 1)
       \/ EffectiveBlock < MaxBlock /\ Ask(EffectiveBlock + 1)
    /\ UNCHANGED <<active, responses, mode, connVars, error, viewVars, netVars>>

OpenPopup ==
    /\ InMain("none")
    /\ popup' \in {"input", "info"}
    /\ UNCHANGED <<workerVars, mode, connVars, loadVars, current, txs, row,
                   txPopup, netVars, asked>>

ToggleTxPopup ==
    /\ InMain("none")
    /\ txPopup' = ~txPopup
    /\ UNCHANGED <<workerVars, mode, connVars, loadVars, current, txs, row,
                   popup, netVars, asked>>

SelectRow ==
    /\ InMain("none")
    /\ txs > 0
    /\ \/ row' \in {Next1(row, txs), Previous1(row)}
       \/ ~txPopup /\ row' \in {0, txs - 1}
    /\ UNCHANGED <<workerVars, mode, connVars, loadVars, current, txs,
                   popup, txPopup, netVars, asked>>

\* A number is confirmed, or the latest block is asked for.
ConfirmInput ==
    /\ InMain("input")
    /\ \E b \in 0 .. MaxBlock \cup {Latest} : Ask(b)
    /\ popup' = "none"
    /\ UNCHANGED <<active, responses, mode, connVars, error, current, txs,
                   row, txPopup, netVars>>

\* Escape, or nothing that is a number is confirmed.
ClosePopup ==
    /\ ~error /\ mode = "main" /\ popup # "none"
    /\ popup' = "none"
    /\ UNCHANGED <<workerVars, mode, connVars, loadVars, current, txs, row,
                   txPopup, netVars, asked>>

RefreshFromInfo ==
    /\ InMain("info")
    /\ RequestRpcRefresh
    /\ UNCHANGED <<active, responses, mode, chain, selected, rpc, loadVars,
                   viewVars, netVars, asked>>

-----------------------------------------------------------------------------
(* Keys of the network selection.                                          *)

InSelect(s) == ~error /\ mode = "select" /\ search = s

ToggleSearch ==
    /\ ~error /\ mode = "select"
    /\ search' = ~search
    /\ UNCHANGED <<workerVars, mode, connVars, loadVars, viewVars, query, listed,
                   netRow, asked>>

\* A letter is typed or removed, or the query is cleared.
EditQuery ==
    /\ \/ InSelect(TRUE) /\ query + 1 \in DOMAIN Matching /\ RequestFilteredChains(query + 1)
       \/ InSelect(TRUE) /\ query > 0 /\ RequestFilteredChains(query - 1)
       \/ InSelect(FALSE) /\ query > 0 /\ RequestFilteredChains(0)
    /\ UNCHANGED <<active, responses, mode, connVars, loadingBlock, error, viewVars,
                   search, netRow, asked>>

SelectNetwork ==
    /\ InSelect(FALSE)
    /\ listed # <<>>
    /\ netRow' \in {Next1(netRow, Len(listed)), Previous1(netRow)}
    /\ UNCHANGED <<workerVars, mode, connVars, loadVars, viewVars, query, search,
                   listed, asked>>

ReturnToMain ==
    /\ InSelect(FALSE)
    /\ CanReturn
    /\ mode' = "main"
    /\ listed' = <<>>
    /\ query' = 0
    /\ UNCHANGED <<workerVars, connVars, loadVars, viewVars, search, netRow, asked>>

ConfirmNetwork ==
    /\ InSelect(FALSE)
    /\ netRow < Len(listed)
    /\ chain' = listed[netRow + 1]
    /\ selected' = TRUE
    /\ rpc' = None
    /\ mode' = "main"
    /\ loading' = TRUE
    /\ refreshing' = TRUE
    /\ Send(Request("RefreshRpc", listed[netRow + 1], None, 0))
    /\ listed' = <<>>
    /\ query' = 0
    /\ UNCHANGED <<active, responses, loadingBlock, error, viewVars, search, netRow, asked>>

Quit ==
    /\ mode' = "exited"
    /\ UNCHANGED <<workerVars, connVars, loadVars, viewVars, netVars, asked>>

Key ==
    /\ mode # "exited"
    /\ keys < MaxKeys
    /\ keys' = keys + 1
    /\ \/ DismissError \/ RefreshOnError
       \/ OpenNetworks \/ Navigate \/ OpenPopup \/ ToggleTxPopup \/ SelectRow
       \/ ConfirmInput \/ ClosePopup \/ RefreshFromInfo
       \/ ToggleSearch \/ EditQuery \/ SelectNetwork \/ ReturnToMain \/ ConfirmNetwork
       \/ Quit
    /\ UNCHANGED histVars

-----------------------------------------------------------------------------
(* Answers: handle_data_response.                                          *)

\* The selection stays where it is while the transaction popup is open.
RowIn(n) ==
    IF n = 0 THEN None
    ELSE IF txPopup /\ row # None THEN IF row < n THEN row ELSE n - 1
    ELSE 0

OnBlock(r) ==
    /\ r.kind = "Block"
    /\ current' = r.block
    /\ shown' = r.req.chain
    /\ txs' = r.txs
    /\ row' = RowIn(r.txs)
    /\ loading' = FALSE
    /\ loadingBlock' = None
    /\ answered' = r.req.n
    /\ UNCHANGED <<reqs, connVars, error, popup, txPopup, netVars, asked, astray>>

OnChains(r) ==
    /\ r.kind = "Chains"
    /\ listed' = Matching[r.req.what]
    /\ loading' = FALSE
    /\ netRow' = IF listed' # <<>> THEN 0 ELSE netRow
    /\ UNCHANGED <<reqs, connVars, loadingBlock, error, viewVars, query, search,
                   asked, histVars>>

\* The chain of the endpoint the app was started with.
OnChainInfo(r) ==
    /\ r.kind = "ChainInfo"
    /\ chain' = r.req.chain
    /\ selected' = TRUE
    /\ IF rpc # None
       THEN /\ Send(Request("Block", rpc, Latest, asked + 1))
            /\ asked' = asked + 1
       ELSE UNCHANGED <<reqs, asked>>
    /\ astray' = TRUE
    /\ UNCHANGED <<rpc, refreshing, loadVars, viewVars, netVars, shown, answered>>

OnRpcRefreshed(r) ==
    /\ r.kind = "RefreshRpc"
    /\ refreshing' = FALSE
    /\ rpc' = r.req.chain
    /\ IF chain # None
       THEN /\ loading' = TRUE
            /\ Send(Request("Block", r.req.chain, Latest, asked + 1))
            /\ asked' = asked + 1
       ELSE UNCHANGED <<reqs, loading, asked>>
    /\ UNCHANGED <<chain, selected, loadingBlock, error, viewVars, netVars, histVars>>

\* What an error that answers req changes in the history.
ErrorFor(req) ==
    /\ IF req.key = "Block"
       THEN shown' = req.chain /\ answered' = req.n
       ELSE UNCHANGED <<shown, answered>>
    /\ astray' = (astray \/ req.key \in {"RefreshRpc", "ChainInfo"})

\* Mutant: the app goes on waiting for the block that has failed.
OnErrorWaiting(r) ==
    /\ r.kind = "Error"
    /\ error' = TRUE
    /\ ErrorFor(r.req)
    /\ UNCHANGED <<reqs, connVars, loading, loadingBlock, viewVars, netVars, asked>>

OnError(r) ==
    /\ r.kind = "Error"
    /\ loading' = FALSE
    /\ loadingBlock' = None
    /\ error' = TRUE
    /\ ErrorFor(r.req)
    /\ UNCHANGED <<reqs, connVars, viewVars, netVars, asked>>

HandleResponse ==
    /\ mode # "exited"
    /\ responses # <<>>
    /\ \E r \in {Head(responses)} :
        OnBlock(r) \/ OnChains(r) \/ OnChainInfo(r) \/ OnRpcRefreshed(r) \/ OnError(r)
    /\ responses' = Tail(responses)
    /\ UNCHANGED <<active, mode, keys>>

-----------------------------------------------------------------------------
WorkerOnly ==
    UNCHANGED <<mode, connVars, loadVars, viewVars, netVars, asked, histVars, keys>>

Worker ==
    /\ mode # "exited"
    /\ Receive \/ \E k \in Keys : TaskEnds(k)
    /\ WorkerOnly

Next == Key \/ HandleResponse \/ Worker

Spec == Init /\ [][Next]_vars

\* Both threads run on.  Fetches of blocks and of chains have a timeout, so these
\* tasks end; the other two wait for the chain list or an endpoint without one.
FairSpec ==
    /\ Spec
    /\ WF_vars(HandleResponse)
    /\ WF_vars(mode # "exited" /\ Receive /\ WorkerOnly)
    /\ \A k \in {"Block", "Chains"} :
           WF_vars(mode # "exited" /\ TaskEnds(k) /\ WorkerOnly)

-----------------------------------------------------------------------------
(* Properties.                                                             *)

\* While the app says that it is loading, a request is under way: no order of
\* keys, aborted tasks and errors leaves the popup there for good.
LoadingIsPending == loading => ~AtRest

\* Whatever was aborted or came late, what is shown in the end answers the last
\* block that was asked for, or an error was.
LastAskedIsAnswered == ~Pending("Block") => answered = asked

\* The selected row is one of the items shown.
RowInRange == row # None => row < txs

\* The parts of the screen fit together: the selected row is one of the block's, and
\* in the end the endpoint and the items (or an error in their place) are those of
\* the chain on display, even if the user has changed networks while others were
\* being resolved.  The latter is not so once a refresh has failed, nor when the
\* chain of the first endpoint is found after another network has been chosen.
ScreenAgrees ==
    /\ RowInRange
    /\ AtRest /\ ~astray /\ rpc # None /\ mode # "exited" => rpc = chain /\ shown = chain

\* The app does not load for ever, whatever is aborted or fails, unless a task
\* without a timeout is left to wait for the chain list or an endpoint.
LoadingEnds ==
    loading ~> \/ ~loading \/ mode = "exited"
               \/ active["ChainInfo"] # NoTask \/ active["RefreshRpc"] # NoTask

\* "press 'r' to refresh", the error popup says: a refresh is not refused for one
\* that is no longer under way.
RefreshIsOffered == error /\ chain # None => ~refreshing \/ Pending("RefreshRpc")

=============================================================================
