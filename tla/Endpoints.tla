----------------------------- MODULE Endpoints -----------------------------
(***************************************************************************)
(* Which RPC endpoints a command uses (resolve_conn in shared_init.rs and  *)
(* the benchmark of rpc_urls.rs).  An endpoint is a model value; the chain *)
(* it serves is what its eth_chainId answers, whatever the config or       *)
(* ChainList say of it.                                                    *)
(***************************************************************************)
EXTENDS Naturals, Sequences, FiniteSets

CONSTANTS
    Urls,           \* RPC endpoints
    Chains,         \* chain ids
    NoUrl, NoChain, \* no [chains.N] entry, no --chain-id
    ReportedBy,     \* the chain id each endpoint reports
    Configured,     \* the rpc_url the config has for each chain, or NoUrl
    Listed,         \* the endpoints ChainList has for each chain
    Usable          \* those with an https url that has no ${KEY} in it

ASSUME ReportedByAssumption == ReportedBy \in [Urls -> Chains]
ASSUME ConfiguredAssumption == Configured \in [Chains -> Urls \cup {NoUrl}]
ASSUME ListedAssumption == Listed \in [Chains -> SUBSET Urls]

\* The connection options of a command: --rpc-url, repeated; --chain-id;
\* --skip-verify-chain-id.
Options == [urls : Seq(Urls), chain : Chains \cup {NoChain}, skip : BOOLEAN]

\* get_chain_info: up to limit endpoints of the chain that have answered; any
\* of them may be too slow, or unable to serve logs, at the moment.
Benchmarked(c, limit) ==
    {S \in SUBSET (Listed[c] \cap Usable) : Cardinality(S) <= limit}

\* The endpoints the options may lead to; none when the command ends here.
Resolved(o) ==
    IF o.urls # <<>> THEN {o.urls}
    ELSE IF o.chain = NoChain THEN {}
    ELSE IF Configured[o.chain] # NoUrl THEN {<<Configured[o.chain]>>}
    ELSE {<<u>> : u \in UNION Benchmarked(o.chain, 1)}

\* Mutant: only the first endpoint is asked.
AskedFirst(o, i) ==
    i = 1 /\ (o.chain = NoChain \/ (o.urls # <<>> /\ ~o.skip))

\* Whether the i-th endpoint is asked for its chain id.
Asked(o, i) ==
    IF i = 1 THEN o.chain = NoChain \/ (o.urls # <<>> /\ ~o.skip)
    ELSE ~o.skip

\* The chain the endpoints us are used for: the one asked for, or the one the
\* first of them reports.
ChainOf(o, us) == IF o.chain = NoChain THEN ReportedBy[us[1]] ELSE o.chain

\* No endpoint that is asked reports another one.
Verified(o, us) ==
    \A i \in DOMAIN us : Asked(o, i) => ReportedBy[us[i]] = ChainOf(o, us)

\* What the options trust without asking: the config, ChainList, and the user
\* who says so.
Trusted(o) == o.skip \/ o.urls = <<>>

=============================================================================
