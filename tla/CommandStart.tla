---------------------------- MODULE CommandStart ----------------------------
(***************************************************************************)
(* What a command does before it gets to its own work (resolve_conn and    *)
(* init_deps): it finds out which endpoints to use and which chain they    *)
(* serve, downloads the signatures database if there is none and indexes   *)
(* it, and creates the transactions database of the chain if there is      *)
(* none.  Beside such commands ("serve") there are `update-sigs-db`, which *)
(* only downloads, and `chain-info`, which only asks endpoints.            *)
(*                                                                         *)
(* A process may fail or be killed at every step.  How custom tables are   *)
(* reconciled with the config at the end of the start is the subject of    *)
(* CustomTables.                                                           *)
(***************************************************************************)
EXTENDS Endpoints, SigsFile

CONSTANTS
    MaxFaults       \* bound: how many processes fail or are killed by accident

ASSUME MaxFaultsAssumption == MaxFaults \in Nat

VARIABLES
    txsDb,      \* the database of each chain: "absent", "empty" or "migrated"
    broken,     \* history: chains whose database was left empty by a fault
    at,         \* where each process is
    kind,       \* the command it runs
    opts,       \* its connection options
    urls,       \* the endpoints it uses
    chain,      \* the chain it works on
    next,       \* the endpoint, or the index, it is to look at next
    faults      \* counts faults, for the bound

procVars == <<at, kind, opts, urls, chain, next>>
startVars == <<sigsVars, txsDb, broken, procVars, faults>>

Kinds == {"serve", "update", "chain-info"}
NoOptions == [urls |-> <<>>, chain |-> NoChain, skip |-> FALSE]

Downloading == {"get", "fetch", "open", "unzip"}
Creating == {"createDb", "migrate"}
Over == {"idle", "failed"}
Steps ==
    {"resolve", "sigs", "remove", "openSigs", "index", "createIndex",
     "txs", "ready"} \cup Downloading \cup Creating \cup Over

StartTypeOK ==
    /\ SigsTypeOK
    /\ txsDb \in [Chains -> {"absent", "empty", "migrated"}]
    /\ broken \subseteq Chains
    /\ at \in [Procs -> Steps]
    /\ kind \in [Procs -> Kinds]
    /\ opts \in [Procs -> Options]
    /\ urls \in [Procs -> Seq(Urls)]
    /\ chain \in [Procs -> Chains \cup {NoChain}]
    /\ next \in [Procs -> Nat]
    /\ faults \in 0 .. MaxFaults

StartInit ==
    /\ SigsInit
    /\ txsDb = [c \in Chains |-> "absent"]
    /\ broken = {}
    /\ at = [p \in Procs |-> "idle"]
    /\ kind = [p \in Procs |-> "serve"]
    /\ opts = [p \in Procs |-> NoOptions]
    /\ urls = [p \in Procs |-> <<>>]
    /\ chain = [p \in Procs |-> NoChain]
    /\ next = [p \in Procs |-> 1]
    /\ faults = 0

\* A process p with the options o begins.
Launch(p, k, o) ==
    /\ at[p] \in Over
    /\ at' = [at EXCEPT ![p] = IF k = "update" THEN "remove" ELSE "resolve"]
    /\ kind' = [kind EXCEPT ![p] = k]
    /\ opts' = [opts EXCEPT ![p] = o]
    /\ UNCHANGED <<sigsVars, txsDb, broken, urls, chain, next, faults>>

\* A child that is done, and the next one of the same handler.
Relaunch(p, k, o) ==
    /\ at[p] = "ready"
    /\ at' = [at EXCEPT ![p] = "resolve"]
    /\ kind' = [kind EXCEPT ![p] = k]
    /\ opts' = [opts EXCEPT ![p] = o]
    /\ urls' = [urls EXCEPT ![p] = <<>>]
    /\ chain' = [chain EXCEPT ![p] = NoChain]
    /\ stale' = stale \ {p}
    /\ UNCHANGED <<sigs, sigsBy, zst, zstBy, indexes, got, solo, harm,
                   txsDb, broken, next, faults>>

Goto(p, s) ==
    /\ at' = [at EXCEPT ![p] = s]
    /\ UNCHANGED <<kind, opts, urls, chain, next>>

\* The process is gone, and what it knew with it; s says how it ended.
EndProc(p, s) ==
    /\ at' = [at EXCEPT ![p] = s]
    /\ kind' = [kind EXCEPT ![p] = "serve"]
    /\ opts' = [opts EXCEPT ![p] = NoOptions]
    /\ urls' = [urls EXCEPT ![p] = <<>>]
    /\ chain' = [chain EXCEPT ![p] = NoChain]
    /\ next' = [next EXCEPT ![p] = 1]

\* The process stops where it is: by an error, or because it is killed.
Stop(p, s) ==
    /\ EndProc(p, s)
    /\ SigsForget(p, at[p] \in Downloading)
    /\ broken' = IF /\ at[p] = "migrate" /\ txsDb[chain[p]] = "empty"
                 THEN broken \cup {chain[p]} ELSE broken
    /\ UNCHANGED txsDb

Fault == faults < MaxFaults /\ faults' = faults + 1

\* The network, the disk or SQLite fails the command, or it is killed.
Crash(p) ==
    /\ at[p] \notin Over
    /\ Fault
    /\ Stop(p, "failed")

-----------------------------------------------------------------------------
(* resolve_conn.                                                           *)

\* The endpoints are chosen, and asked for their chain where need be.
Resolve(p) ==
    /\ at[p] = "resolve"
    /\ kind[p] = "serve"
    /\ \E us \in Resolved(opts[p]) :
        /\ Verified(opts[p], us)
        /\ urls' = [urls EXCEPT ![p] = us]
        /\ chain' = [chain EXCEPT ![p] = ChainOf(opts[p], us)]
    /\ at' = [at EXCEPT ![p] = "sigs"]
    /\ UNCHANGED <<sigsVars, txsDb, broken, kind, opts, next, faults>>

\* "Chain ID mismatch".
Mismatch(p) ==
    /\ at[p] = "resolve"
    /\ kind[p] = "serve"
    /\ \E us \in Resolved(opts[p]) : ~Verified(opts[p], us)
    /\ Stop(p, "failed")
    /\ UNCHANGED faults

\* chain-info has found endpoints that answer.
ChainInfo(p) ==
    /\ at[p] = "resolve"
    /\ kind[p] = "chain-info"
    /\ Listed[opts[p].chain] \cap Usable # {}
    /\ Goto(p, "ready")
    /\ UNCHANGED <<sigsVars, txsDb, broken, faults>>

\* Neither an endpoint nor a chain, or no endpoint of the chain answers.
Unresolved(p) ==
    /\ at[p] = "resolve"
    /\ opts[p].urls = <<>>
    /\ opts[p].chain \notin {c \in Chains : kind[p] = "serve" /\ Configured[c] # NoUrl}
    /\ Stop(p, "failed")
    /\ UNCHANGED faults

-----------------------------------------------------------------------------
(* The signatures database: init_deps, update_db, download_file.           *)

CheckSigs(p) ==
    /\ at[p] = "sigs"
    /\ Goto(p, IF file_exists THEN "openSigs" ELSE "get")
    /\ UNCHANGED <<sigsVars, txsDb, broken, faults>>

Users == {q \in Procs : at[q] \in {"index", "createIndex"}}

RemoveSigs(p) ==
    /\ at[p] = "remove"
    /\ IF file_exists THEN remove_files(Users) ELSE UNCHANGED sigsVars
    /\ Goto(p, "get")
    /\ UNCHANGED <<txsDb, broken, faults>>

Downloaders(p) == {q \in Procs \ {p} : at[q] \in Downloading \ {"get"}}

Get(p) ==
    /\ at[p] = "get"
    /\ CreateArchive(p, Downloaders(p))
    /\ Goto(p, "fetch")
    /\ UNCHANGED <<txsDb, broken, faults>>

FetchArchive(p) ==
    /\ at[p] = "fetch"
    /\ FillArchive(p)
    /\ Goto(p, "open")
    /\ UNCHANGED <<txsDb, broken, faults>>

OpenArchive(p) ==
    /\ at[p] = "open"
    /\ CreateDb(p)
    /\ Goto(p, "unzip")
    /\ UNCHANGED <<txsDb, broken, faults>>

\* update-sigs-db is done, any other command goes on with its start.
Unzip(p) ==
    /\ at[p] = "unzip"
    /\ FillDb(p)
    /\ IF kind[p] = "update" THEN EndProc(p, "idle") ELSE Goto(p, "openSigs")
    /\ UNCHANGED <<txsDb, broken, faults>>

\* The archive is gone, or has a hole or an end where another one rewrites it.
DownloadClash(p) ==
    \/ /\ \/ at[p] = "open" /\ zst = "absent"
          \/ at[p] = "unzip" /\ p \notin got
       /\ Stop(p, "failed")
       /\ UNCHANGED faults
    \/ /\ at[p] = "unzip"
       /\ FillDbNoArchive(p)
       /\ EndProc(p, "failed")
       /\ UNCHANGED <<txsDb, broken, faults>>

\* sigs::conn, and the file_exists of check_and_create_indexes.
ConnectSigs(p) ==
    /\ at[p] = "openSigs"
    /\ file_exists
    /\ Goto(p, "index")
    /\ UNCHANGED <<sigsVars, txsDb, broken, faults>>

\* An index is there; after the last one the command goes on.
IndexDone(p) ==
    /\ at' = [at EXCEPT ![p] = IF next[p] = 2 THEN "txs" ELSE "index"]
    /\ next' = [next EXCEPT ![p] = IF @ = 2 THEN 1 ELSE @ + 1]
    /\ UNCHANGED <<kind, opts, urls, chain>>

\* Whether a removed file has the index makes no difference to anyone.
CheckIndex(p) ==
    /\ at[p] = "index"
    /\ IF next[p] \in indexes \/ p \in stale THEN IndexDone(p) ELSE Goto(p, "createIndex")
    /\ UNCHANGED <<sigsVars, txsDb, broken, faults>>

MakeIndex(p) ==
    /\ at[p] = "createIndex"
    /\ CreateIndex(p, next[p])
    /\ IndexDone(p)
    /\ UNCHANGED <<txsDb, broken, faults>>

\* The file is gone, or SQLite finds it malformed, or another command has made
\* the index since it was looked for.
SigsClash(p) ==
    /\ \/ at[p] = "openSigs" /\ sigs # "whole"
       \/ at[p] = "index" /\ p \notin stale /\ sigs = "partial"
       \/ at[p] = "createIndex" /\ ~CanIndex(p, next[p])
    /\ Stop(p, "failed")
    /\ UNCHANGED faults

-----------------------------------------------------------------------------
(* The transactions database: shared::init_db.  The connection that follows *)
(* creates nothing.                                                         *)

CheckTxs(p) ==
    /\ at[p] = "txs"
    /\ Goto(p, IF txsDb[chain[p]] = "absent" THEN "createDb" ELSE "ready")
    /\ UNCHANGED <<sigsVars, txsDb, broken, faults>>

CreateTxs(p) ==
    /\ at[p] = "createDb"
    /\ txsDb' = [txsDb EXCEPT ![chain[p]] = IF @ = "absent" THEN "empty" ELSE @]
    /\ Goto(p, "migrate")
    /\ UNCHANGED <<sigsVars, broken, faults>>

Migrate(p) ==
    /\ at[p] = "migrate"
    /\ txsDb' = [txsDb EXCEPT ![chain[p]] = "migrated"]
    /\ broken' = broken \ {chain[p]}
    /\ Goto(p, "ready")
    /\ UNCHANGED <<sigsVars, faults>>

\* Another command has migrated in between: the migrator panics.
MigrateClash(p) ==
    /\ at[p] = "migrate"
    /\ txsDb[chain[p]] = "migrated"
    /\ Stop(p, "failed")
    /\ UNCHANGED faults

-----------------------------------------------------------------------------
StartStep(p) ==
    \/ Resolve(p) \/ ChainInfo(p) \/ Unresolved(p) \/ Mismatch(p)
    \/ CheckSigs(p) \/ RemoveSigs(p) \/ Get(p) \/ FetchArchive(p)
    \/ OpenArchive(p) \/ Unzip(p) \/ DownloadClash(p) \/ ConnectSigs(p)
    \/ CheckIndex(p) \/ MakeIndex(p) \/ SigsClash(p)
    \/ CheckTxs(p) \/ CreateTxs(p) \/ Migrate(p) \/ MigrateClash(p)

-----------------------------------------------------------------------------
(* Properties.                                                             *)

\* A command that has come through resolve_conn fetches from no endpoint that
\* serves another chain than the one whose database it fills, but for what the
\* user, the config and ChainList say without being asked for proof: "so a
\* misconfigured secondary URL can't fetch foreign blocks and mark them indexed".
Resolving == {"resolve", "remove"} \cup Over
EndpointsAgree ==
    \A p \in Procs :
        kind[p] = "serve" /\ at[p] \notin Resolving =>
            \A i \in DOMAIN urls[p] :
                ReportedBy[urls[p][i]] = chain[p] \/ Trusted(opts[p])

\* A database that exists is taken to be complete by every later command.  One
\* that is not has a process at work on it, or a fault behind it; the signatures
\* database also when two downloads have met.  A download that goes through
\* alone leaves it whole whatever happened before.
HalfMadeHasReason ==
    /\ sigs = "partial" => harm \/ \E p \in Procs : at[p] = "unzip"
    /\ \A c \in Chains :
        txsDb[c] = "empty" =>
            c \in broken \/ \E p \in Procs : at[p] = "migrate" /\ chain[p] = c

=============================================================================
