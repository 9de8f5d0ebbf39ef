---------------------------- MODULE QueryAnswer ----------------------------
(***************************************************************************)
(* What a query answers (query.rs, the display commands block, block-txs,  *)
(* block-logs, tx and tx-logs, sql_macros.rs, ens_utils.rs, prices.rs,     *)
(* raw_query.rs, ipfs.rs, and their callers in mcp_server.rs and in the    *)
(* web server): from the request by way of its macros, its statement and   *)
(* its rows to the reply, while the chain grows, prices move, names change *)
(* hands and the database is written.  Queries has the time budgets.       *)
(*                                                                         *)
(* A statement is what SQLite tells of it: the tables it reads, what else  *)
(* it does, its columns, its macros; its rows are the blocks it selects.   *)
(***************************************************************************)
EXTENDS Naturals, SequencesExt

CONSTANTS
    Requests,       \* what callers may ask for
    BUILTIN_TABLES,
    Harmless,       \* what a statement may do besides reading tables
    Names,          \* ENS names, without the variation selectors that namehash drops
    to_lowercase,   \* the key of each in the caches
    Addresses,      \* what they may stand for
    ZeroAddress,    \* and what stands for nothing
    None,           \* no value
    Window,         \* how many blocks back a statement with a {LATEST_BLOCK()} looks
    MaxHeight,      \* bound: the newest block
    MaxCalls,       \* bound: so many requests
    MaxChanges      \* bound: so many changes of the world around them

\* A request may have a limit on the rows; only a display command names a block.
ASSUME RequestsAssumption ==
    \A c \in Requests :
        /\ {"by", "sql", "price", "max_rows", "what", "block"} \subseteq DOMAIN c
        /\ c.max_rows \in Nat \cup {None}
        /\ c.block \in Nat \cup {None}
        /\ c.sql.names \in Seq(Names)
        /\ c.what \in {"block", "tx"} => c.by = "display"
ASSUME LowercaseAssumption == to_lowercase \in [Names -> Names]
ASSUME NoneAssumption == None \notin Nat

VARIABLES
    height,         \* the newest block of the chain
    held,           \* the blocks the database has
    tables,         \* the tables it has
    owner,          \* what each name stands for
    stood,          \* history: what it has stood for
    market,         \* the price, each a new one
    prices,         \* PRICE_CACHE of the web server
    fetched,        \* a price on its way there
    disk,           \* .ens-cache, by lower-case name
    memory,         \* ENS_ADDR_CACHE of the process that works on the request
    call,           \* the request, or None
    stage,          \* what is next for it
    allowed,        \* the custom tables it has found in place
    values,         \* what its macros stand for
    snapshot,       \* the rows of its statement, as of its first step
    out,            \* those it has collected
    reply,          \* the last reply
    calls,          \* counts requests, for the bound
    changes         \* counts changes of the world, for the bound

worldVars == <<height, held, tables, owner, stood, changes>>
priceVars == <<market, prices, fetched>>
answerVars == <<worldVars, priceVars, disk, memory, call, stage, allowed, values, snapshot, out, reply,
                calls>>

NoValues == [latest |-> None, price |-> None, block |-> None, ens |-> <<>>]
NoReply == [kind |-> "none"]
Unknown == [n \in Names |-> None]

AnswerInit ==
    /\ height = 0 /\ held = {}
    /\ tables = BUILTIN_TABLES
    /\ owner = [n \in Names |-> ZeroAddress]
    /\ stood = [n \in Names |-> {}]
    /\ market = 1 /\ prices = None /\ fetched = None
    /\ disk = Unknown /\ memory = Unknown
    /\ call = None /\ stage = "idle"
    /\ allowed = {} /\ values = NoValues
    /\ snapshot = <<>> /\ out = <<>>
    /\ reply = NoReply
    /\ calls = 0 /\ changes = 0

-----------------------------------------------------------------------------
(* The world goes on.                                                       *)

World ==
    /\ stage # "idle" /\ changes < MaxChanges
    /\ changes' = changes + 1
    /\ \/ /\ height < MaxHeight /\ height' = height + 1
          /\ UNCHANGED <<held, tables, owner, stood>>
       \/ /\ \/ \E b \in 0 .. height : held' = held \cup {b}
             \/ \E b \in held : held' = {c \in held : c > b}
          /\ UNCHANGED <<height, tables, owner, stood>>
       \/ /\ tables' \in {BUILTIN_TABLES, BUILTIN_TABLES \cup {"custom"}}
          /\ UNCHANGED <<height, held, owner, stood>>
       \/ /\ \E n \in Names, a \in Addresses :
                /\ owner' = [owner EXCEPT ![n] = a]
                /\ stood' = [stood EXCEPT ![n] = @ \cup {a}]
          /\ UNCHANGED <<height, held, tables>>
    /\ UNCHANGED <<priceVars, disk, memory, call, stage, allowed, values, snapshot, out, reply,
                   calls>>

-----------------------------------------------------------------------------
(* Replies.                                                                 *)

\* api_json_errors: what the layers of the server make of a response.
api_json_errors(r) == IF r.kind # "error" \/ r.json THEN r ELSE [r EXCEPT !.json = TRUE]

Reply(r) ==
    /\ reply' = IF call.by = "web" THEN api_json_errors(r) ELSE r
    /\ stage' = "idle"
    /\ call' = None
    /\ allowed' = {} /\ values' = NoValues
    /\ snapshot' = <<>> /\ out' = <<>>

Error(json) == Reply([kind |-> "error", by |-> call.by, json |-> json])

\* An endpoint, SQLite or the upload fails, or the time is up: the TimeoutLayer's
\* answer is no JSON.
Fails ==
    /\ stage # "idle"
    /\ \E json \in BOOLEAN : (json \/ call.by = "web") /\ Error(json)
    /\ UNCHANGED <<worldVars, priceVars, disk, memory, calls>>

-----------------------------------------------------------------------------
(* Before the SQL.                                                          *)

\* A request: a child of its own, or, of the web server, a future in it.  Too long
\* a description is refused.
Ask ==
    /\ stage = "idle" /\ calls < MaxCalls
    /\ \E c \in Requests :
        /\ c.by = "upload" \/ ~c.longDesc
        /\ call' = c
        /\ memory' = IF c.by = "web" THEN memory ELSE Unknown
        /\ stage' = IF c.longDesc THEN "refuse" ELSE IF c.by = "web" THEN "quote" ELSE "deps"
    /\ calls' = calls + 1
    /\ reply' = NoReply
    /\ UNCHANGED <<worldVars, priceVars, disk, allowed, values, snapshot, out>>

Refuse ==
    /\ stage = "refuse"
    /\ Error(TRUE)
    /\ UNCHANGED <<worldVars, priceVars, disk, memory, calls>>

\* get_crypto_prices: the price of the cache, or, if it has none, that of the API,
\* which is then kept.
Quoted(q) == call' = [call EXCEPT !.price = q]
GetCryptoPrices ==
    /\ stage = "quote"
    /\ \/ /\ prices # None /\ Quoted(prices) /\ stage' = "deps"
       \/ /\ prices = None
          /\ \/ Quoted(None) /\ stage' = "deps"
             \/ Quoted(market) /\ stage' = "keep quote"
    /\ UNCHANGED <<worldVars, priceVars, disk, memory, allowed, values, snapshot, out, reply, calls>>

KeepQuote ==
    /\ stage = "keep quote"
    /\ prices' = call.price
    /\ stage' = "deps"
    /\ UNCHANGED <<worldVars, market, fetched, disk, memory, call, allowed, values, snapshot, out,
                   reply, calls>>

\* update_prices_cache, every five minutes.
UpdatePricesCache ==
    /\ stage # "idle" /\ call.by = "web"
    /\ \/ /\ fetched = None /\ changes < MaxChanges
          /\ changes' = changes + 1
          /\ fetched' = market /\ market' = market + 1
          /\ UNCHANGED prices
       \/ /\ fetched # None
          /\ prices' = fetched /\ fetched' = None
          /\ UNCHANGED <<changes, market>>
    /\ UNCHANGED <<height, held, tables, owner, stood, disk, memory, call, stage, allowed, values,
                   snapshot, out, reply, calls>>

HighestHeld == IF held = {} THEN None ELSE CHOOSE b \in held : \A c \in held : c <= b

\* The price given, or that of an oracle, if there is one that answers.
get_native_token_price(given) == IF given # None THEN {given} ELSE {None, "oracle"}

\* The latest block: the newest the web server finds in its database, that of the
\* chain if blocks are indexed, or none.
GetDeps ==
    /\ stage = "deps"
    /\ allowed' = tables \ BUILTIN_TABLES
    /\ \E price \in get_native_token_price(call.price) :
        values' = [NoValues EXCEPT
                    !.price = price,
                    !.latest = IF call.by = "web" THEN HighestHeld
                               ELSE IF call.by = "cli" THEN height ELSE None]
    /\ stage' = IF call.by \in {"cli", "display"} THEN "index" ELSE "latest"
    /\ UNCHANGED <<worldVars, priceVars, disk, memory, call, snapshot, out, reply, calls>>

\* The range "n:latest" asks for the latest block once more.
IndexRange ==
    /\ stage = "index" /\ call.by = "cli"
    /\ held' = held \cup {b \in 0 .. height : b + call.last > height}
    /\ stage' = "latest"
    /\ UNCHANGED <<height, tables, owner, stood, changes, priceVars, disk, memory, call, allowed,
                   values, snapshot, out, reply, calls>>

\* The display commands index one block: the one given, that of the transaction
\* given, or the latest.
IndexBlock ==
    /\ stage = "index" /\ call.by = "display"
    /\ LET b == IF call.block = None THEN height ELSE call.block IN
        /\ b <= height
        /\ held' = held \cup {b}
        /\ values' = [values EXCEPT !.block = b]
    /\ stage' = "latest"
    /\ UNCHANGED <<height, tables, owner, stood, changes, priceVars, disk, memory, call, allowed,
                   snapshot, out, reply, calls>>

\* substitute_sql_macros: {LATEST_BLOCK()} is asked for if it is not known,
ExpandLatest ==
    /\ stage = "latest"
    /\ values' = IF "latest" \in call.sql.macros /\ values.latest = None
                 THEN [values EXCEPT !.latest = height] ELSE values
    /\ stage' = "price"
    /\ UNCHANGED <<worldVars, priceVars, disk, memory, call, allowed, snapshot, out, reply, calls>>

\* {NATIVE_TOKEN_PRICE()} without a price is an error, except in a display, where it
\* becomes NULL; {RESOLVE_ENS()} is one away from mainnet.
ExpandPrice ==
    /\ stage = "price"
    /\ "price" \in call.sql.macros => values.price # None \/ call.by = "display"
    /\ call.sql.names # <<>> => call.mainnet
    /\ stage' = "ens"
    /\ UNCHANGED <<worldVars, priceVars, disk, memory, call, allowed, values, snapshot, out, reply, calls>>

NextName == call.sql.names[Len(values.ens) + 1]
Key == to_lowercase[NextName]
Resolved == Len(values.ens) = Len(call.sql.names)

TakeAddress(a) == values' = [values EXCEPT !.ens = Append(@, a)]

\* read_ens_addr_cache: what the disk has is kept in memory.
EnsCached ==
    /\ stage = "ens" /\ ~Resolved
    /\ LET a == IF memory[Key] # None THEN memory[Key] ELSE disk[Key] IN
        /\ a # None
        /\ TakeAddress(a)
        /\ memory' = [memory EXCEPT ![Key] = a]
    /\ UNCHANGED <<worldVars, priceVars, disk, call, stage, allowed, snapshot, out, reply, calls>>

\* ens_addr_lookup: the node is that of the name as it is written, the key is not.  A
\* name that stands for nothing is an error, and is not cached.
EnsLookup ==
    /\ stage = "ens" /\ ~Resolved
    /\ memory[Key] = None /\ disk[Key] = None
    /\ owner[NextName] # ZeroAddress
    /\ TakeAddress(owner[NextName])
    /\ memory' = [memory EXCEPT ![Key] = owner[NextName]]
    /\ disk' \in {disk, [disk EXCEPT ![Key] = owner[NextName]]}
    /\ UNCHANGED <<worldVars, priceVars, call, stage, allowed, snapshot, out, reply, calls>>

Expanded ==
    /\ stage = "ens" /\ Resolved
    /\ stage' = "prepare"
    /\ UNCHANGED <<worldVars, priceVars, disk, memory, call, allowed, values, snapshot, out, reply, calls>>

-----------------------------------------------------------------------------
(* run_raw_query.                                                           *)

authorize(s) == s.reads \subseteq BUILTIN_TABLES \cup allowed /\ s.acts \subseteq Harmless

\* The statements of the display commands: their columns differ, their rows are
\* those of one block.
Display(reads, macros) ==
    [reads |-> reads, acts |-> {"select", "function"}, columns |-> <<"a", "b">>,
     macros |-> macros, names |-> <<>>]
tx_display_query == Display({"transactions"}, {"price"})
block_display_query == Display({"blocks", "transactions"}, {})
logs_display_query == Display({"logs"}, {})
block_logs_display_query == Display({"logs"}, {})

Selected(s, blocks) ==
    {b \in blocks : /\ "latest" \in s.macros => b + Window > values.latest
                    /\ values.block # None => b = values.block}

\* The statement is prepared under the authorizer, has every column once, and sees
\* the database as it is at its first step; its rows come in an order of its own.
Prepare ==
    /\ stage = "prepare"
    /\ authorize(call.sql)
    /\ call.sql.reads \subseteq tables
    /\ IsInjective(call.sql.columns)
    /\ snapshot' \in SetToSeqs(Selected(call.sql, held))
    /\ stage' = "rows"
    /\ UNCHANGED <<worldVars, priceVars, disk, memory, call, allowed, values, out, reply, calls>>

\* Mutant: the cap is a LIMIT.
RowCapped ==
    /\ stage = "rows"
    /\ IF Len(out) = Len(snapshot) \/ Len(out) = call.max_rows
       THEN stage' = "done" /\ UNCHANGED out
       ELSE out' = Append(out, snapshot[Len(out) + 1]) /\ UNCHANGED stage
    /\ UNCHANGED <<worldVars, priceVars, disk, memory, call, allowed, values, snapshot, reply, calls>>

\* The next row; one past max_rows is an error.
Row ==
    /\ stage = "rows"
    /\ IF Len(out) = Len(snapshot) THEN stage' = "done" /\ UNCHANGED out
       ELSE /\ Len(out) # call.max_rows
            /\ out' = Append(out, snapshot[Len(out) + 1])
            /\ UNCHANGED stage
    /\ UNCHANGED <<worldVars, priceVars, disk, memory, call, allowed, values, snapshot, reply, calls>>

-----------------------------------------------------------------------------
(* The reply.                                                               *)

Answer(kind, pinata) ==
    [kind |-> kind, of |-> call, rows |-> out, values |-> values, whole |-> snapshot,
     pinata |-> pinata]

\* block and tx have something to show, or fail.
MustShow(c) == c.what \in {"block", "tx"}

Respond ==
    /\ stage = "done" /\ call.by # "upload"
    /\ MustShow(call) => out # <<>>
    /\ Reply(Answer("answer", None))
    /\ UNCHANGED <<worldVars, priceVars, disk, memory, calls>>

\* upload: Pinata wants a token, and names its own gateway when it is configured
\* or can be found out; the identifier is that of the content.
Upload ==
    /\ stage = "done" /\ call.by = "upload"
    /\ call.backend = "pinata" => call.jwt
    /\ \E gateway \in {None} \cup (IF call.backend = "pinata" THEN {"pinata"} ELSE {}) :
        Reply(Answer("receipt", gateway))
    /\ UNCHANGED <<worldVars, priceVars, disk, memory, calls>>

AnswerStep ==
    \/ World \/ Fails \/ Ask \/ Refuse \/ GetCryptoPrices \/ KeepQuote \/ UpdatePricesCache \/ GetDeps
    \/ IndexRange \/ IndexBlock \/ ExpandLatest \/ ExpandPrice \/ EnsCached \/ EnsLookup \/ Expanded \/ Prepare \/ Row \/ Respond \/ Upload

-----------------------------------------------------------------------------
(* Properties.                                                             *)

\* What the names of one key have stood for.
HasStood(key) == UNION {stood[m] : m \in {n \in Names : to_lowercase[n] = key}}

\* An answer, uploaded or not, has every row that the statement selects in one
\* state of the database, and none past max_rows ("errors when exceeded", never a
\* part of them); its statement has read no other tables and done nothing else; and
\* what stands for its macros is what they mean: a block, a price, for every name an
\* address that this name has stood for, or one that differs from it in case only (the
\* two share an entry of the caches, though they are two nodes of ENS), and never the
\* zero address.  A display shows one block and no other, and block and tx never show
\* nothing, whatever a purge has done since the block was indexed.  What the web server
\* refuses it refuses in JSON.
AnswerIsWhole ==
    LET r == reply
        s == r.of.sql
    IN  /\ r.kind \in {"answer", "receipt"} =>
            /\ r.rows = r.whole
            /\ r.of.max_rows # None => Len(r.rows) <= r.of.max_rows
            /\ s.acts \subseteq Harmless
            /\ s.reads \subseteq BUILTIN_TABLES \cup {"custom"}
            /\ "latest" \in s.macros => \A b \in ToSet(r.rows) : b + Window > r.values.latest
            /\ "price" \in s.macros => r.values.price # None \/ r.of.by = "display"
            /\ r.of.by = "web" /\ r.of.price # None => r.values.price \in 1 .. market
            /\ r.of.by = "display" => ToSet(r.rows) \subseteq {r.values.block}
            /\ MustShow(r.of) => r.rows = <<r.values.block>>
            /\ Len(r.values.ens) = Len(s.names)
            /\ \A i \in DOMAIN s.names : r.values.ens[i] \in HasStood(to_lowercase[s.names[i]])
        /\ r.kind = "receipt" => r.of.by = "upload"
        /\ r.kind = "error" /\ r.by = "web" => r.json

=============================================================================
