------------------------------- MODULE SeedDb -------------------------------
(***************************************************************************)
(* How the signatures database is made (seed_db.rs): the chains of         *)
(* ChainList, and, when SEED_SIGNATURES is set, the signatures of an       *)
(* export that consists of files.  The compiled-contracts files tell of a  *)
(* hash whether it is a function's or an event's, the dictionary gives it  *)
(* its text.  Files once downloaded are kept between seedings, the export  *)
(* may change meanwhile, and a seeding may be killed at any point.         *)
(***************************************************************************)
EXTENDS Naturals, SequencesExt

CONSTANTS
    ChainList,      \* the chains ChainList has, in its order
    Exports,        \* the states of the export, in order: by kind the files it
                    \* lists, each a sequence of rows
    NoFile,         \* no such file
    SeedBatch,      \* inserts of a transaction (5000)
    MaxKills,       \* bound: so many seedings, the first ones, may be killed
    MaxSeedings     \* bound: how many are begun

Kinds == {"compiled", "dictionary"}

ASSUME SeedBatchAssumption == SeedBatch \in Nat \ {0}
ASSUME ChainListAssumption == ChainList \in Seq(ToSet(ChainList))
ASSUME ExportsAssumption ==
    /\ Exports # <<>> /\ Exports \in Seq(ToSet(Exports))
    /\ \A n \in DOMAIN Exports, k \in Kinds :
        /\ IsFiniteSet(DOMAIN Exports[n][k])
        /\ \A f \in DOMAIN Exports[n][k] :
            /\ Exports[n][k][f] # NoFile
            /\ Exports[n][k][f] \in Seq(ToSet(Exports[n][k][f]))

VARIABLES
    export,         \* the state of the export
    kept,           \* the files on disk, of either kind
    part,           \* whether a download is under way, into its .part file
    listed,         \* the files of either kind it goes by
    step,           \* what the seeding is at
    signatures,     \* whether it seeds signatures
    todo,           \* the chains or files it has still to go through
    unread,         \* and the rows of the file that is open
    types,          \* the type of each hash
    chains,         \* the tables of the database
    methods,
    events,
    pending,        \* rows of the open transaction
    batch_count,
    lost,           \* history: rows whose insert has failed
    seedings        \* counts seedings, for the bound

seedVars == <<export, kept, part, listed, step, signatures, todo, unread, types, chains, methods,
              events, pending, batch_count, lost, seedings>>
tableVars == <<chains, methods, events>>

NoListing == [k \in Kinds |-> {}]
NoRows == [methods |-> {}, events |-> {}]

Files == UNION {DOMAIN Exports[n][k] : n \in DOMAIN Exports, k \in Kinds}

SeedInit ==
    /\ export = 1
    /\ kept = [k \in Kinds |-> [f \in Files |-> NoFile]]
    /\ part = FALSE
    /\ listed = NoListing
    /\ step = "off"
    /\ signatures = FALSE
    /\ todo = <<>> /\ unread = <<>>
    /\ types = <<>>
    /\ chains = {} /\ methods = {} /\ events = {}
    /\ pending = NoRows
    /\ batch_count = 0
    /\ lost = NoRows
    /\ seedings = 0

\* A new state of the export: files may change, come and go.
NewExport ==
    /\ step # "off"
    /\ export < Len(Exports)
    /\ export' = export + 1
    /\ UNCHANGED <<kept, part, listed, step, signatures, todo, unread, types, tableVars, pending,
                   batch_count, lost, seedings>>

\* SeedDBArgs::run: signatures are seeded into a new database only.
BeginSeeding ==
    /\ step \in {"off", "done"}
    /\ seedings < MaxSeedings
    /\ signatures' \in BOOLEAN
    /\ IF signatures' THEN chains' = {} /\ methods' = {} /\ events' = {}
                      ELSE UNCHANGED tableVars
    /\ step' = "chains"
    /\ todo' = ChainList
    /\ listed' = NoListing
    /\ lost' = NoRows
    /\ types' = <<>>
    /\ seedings' = seedings + 1
    /\ UNCHANGED <<export, kept, part, unread, pending, batch_count>>

\* seed_chains: a chain that is there is left alone; a failed insert is logged.
SeedChain ==
    /\ step = "chains" /\ todo # <<>>
    /\ chains' \in {chains, chains \cup {Head(todo)}}
    /\ todo' = Tail(todo)
    /\ UNCHANGED <<export, kept, part, listed, step, signatures, unread, types, methods, events,
                   pending, batch_count, lost, seedings>>

\* download_files: the files of a kind, as the export lists them now, in some order.
List(kind) ==
    LET files == DOMAIN Exports[export][kind] IN
    /\ files # {}
    /\ step' = kind
    /\ listed' = [listed EXCEPT ![kind] = files]
    /\ todo' \in SetToSeqs(files)

ChainsSeeded ==
    /\ step = "chains" /\ todo = <<>>
    /\ IF signatures THEN List("compiled") ELSE step' = "done" /\ UNCHANGED <<todo, listed>>
    /\ UNCHANGED <<export, kept, part, signatures, unread, types, tableVars, pending, batch_count,
                   lost, seedings>>

Fetching == step \in Kinds /\ todo # <<>>
OnDisk(f) == kept[step][f] \notin {NoFile, <<>>}

\* A file on disk that is not empty is taken as it is.
TakeKept ==
    /\ Fetching /\ ~part
    /\ OnDisk(Head(todo))
    /\ todo' = Tail(todo)
    /\ UNCHANGED <<export, kept, part, listed, step, signatures, unread, types, tableVars, pending,
                   batch_count, lost, seedings>>

\* The export still has the file.
Served(f) == f \in DOMAIN Exports[export][step]

\* Mutant: there is no .part file; the rows come where they belong, one by one.
FetchInPlace ==
    /\ Fetching /\ ~part
    /\ ~OnDisk(Head(todo)) /\ Served(Head(todo))
    /\ part' = TRUE
    /\ kept' = [kept EXCEPT ![step][Head(todo)] = SubSeq(Exports[export][step][Head(todo)], 1, 1)]
    /\ UNCHANGED <<export, listed, step, signatures, todo, unread, types, tableVars, pending,
                   batch_count, lost, seedings>>

\* Any other comes by way of a .part file, that may be there from a seeding that
\* was killed and is emptied,
FetchPart ==
    /\ Fetching /\ ~part
    /\ ~OnDisk(Head(todo)) /\ Served(Head(todo))
    /\ part' = TRUE
    /\ UNCHANGED <<export, kept, listed, step, signatures, todo, unread, types, tableVars, pending,
                   batch_count, lost, seedings>>

\* and is renamed when it is whole.
RenamePart ==
    /\ Fetching /\ part
    /\ Served(Head(todo))
    /\ kept' = [kept EXCEPT ![step][Head(todo)] = Exports[export][step][Head(todo)]]
    /\ part' = FALSE
    /\ todo' = Tail(todo)
    /\ UNCHANGED <<export, listed, step, signatures, unread, types, tableVars, pending, batch_count,
                   lost, seedings>>

-----------------------------------------------------------------------------
(* The files of a kind, row by row.                                         *)

\* All are on disk: what is read from them first.
ReadFiles ==
    /\ step \in Kinds /\ todo = <<>>
    /\ step' = IF step = "compiled" THEN "learn" ELSE "insert"
    /\ todo' \in SetToSeqs(listed[step])
    /\ UNCHANGED <<export, kept, part, listed, signatures, unread, types, tableVars, pending,
                   batch_count, lost, seedings>>

Open(kind) ==
    /\ unread = <<>> /\ todo # <<>>
    /\ unread' = kept[kind][Head(todo)]
    /\ todo' = Tail(todo)

OpenFile ==
    /\ \/ step = "learn" /\ Open("compiled")
       \/ step = "insert" /\ Open("dictionary")
    /\ UNCHANGED <<export, kept, part, listed, step, signatures, types, tableVars, pending,
                   batch_count, lost, seedings>>

\* build_type_map: "error" rows and rows without a hash are passed over.
Learn(known, row) ==
    IF row.type \notin {"function", "event"} THEN known
    ELSE [h \in DOMAIN known \cup {row.hash} |->
            IF h # row.hash THEN known[h]
            ELSE IF h \notin DOMAIN known \/ known[h] = row.type THEN row.type
            ELSE "both"]

LearnRow ==
    /\ step = "learn" /\ unread # <<>>
    /\ types' = Learn(types, Head(unread))
    /\ unread' = Tail(unread)
    /\ UNCHANGED <<export, kept, part, listed, step, signatures, todo, tableVars, pending,
                   batch_count, lost, seedings>>

TypesLearnt ==
    /\ step = "learn" /\ unread = <<>> /\ todo = <<>>
    /\ List("dictionary")
    /\ UNCHANGED <<export, kept, part, signatures, unread, types, tableVars, pending, batch_count,
                   lost, seedings>>

\* The inserts a row of the dictionary leads to.
InsertsOf(row) ==
    [methods |-> {r \in {row} : r.hash \in DOMAIN types /\ types[r.hash] \in {"function", "both"}},
     events  |-> {r \in {row} : r.hash \in DOMAIN types /\ types[r.hash] \in {"event", "both"}}]

Plus(a, b) == [methods |-> a.methods \cup b.methods, events |-> a.events \cup b.events]

Commit(rows) ==
    /\ methods' = methods \cup rows.methods
    /\ events' = events \cup rows.events
    /\ pending' = NoRows
    /\ batch_count' = 0

\* A row of the dictionary: what its inserts fail at is passed over in silence,
\* and counted.
SeedRow ==
    /\ step = "insert" /\ unread # <<>>
    /\ LET inserts == InsertsOf(Head(unread))
           count == batch_count + Cardinality(inserts.methods) + Cardinality(inserts.events)
       IN  \E m \in SUBSET inserts.methods, e \in SUBSET inserts.events :
            LET failed == [methods |-> m, events |-> e]
                made == [methods |-> inserts.methods \ m, events |-> inserts.events \ e]
            IN  /\ lost' = Plus(lost, failed)
                /\ IF count >= SeedBatch THEN Commit(Plus(pending, made))
                   ELSE /\ pending' = Plus(pending, made)
                        /\ batch_count' = count
                        /\ UNCHANGED <<methods, events>>
    /\ unread' = Tail(unread)
    /\ UNCHANGED <<export, kept, part, listed, step, signatures, todo, types, chains, seedings>>

Seeded ==
    /\ step = "insert" /\ unread = <<>> /\ todo = <<>>
    /\ Commit(pending)
    /\ step' = "done"
    /\ UNCHANGED <<export, kept, part, listed, signatures, todo, unread, types, chains, lost, seedings>>

\* Killed, or ended by an error of the network or the disk: the open transaction
\* is undone.
Kill ==
    /\ step \notin {"off", "done"}
    /\ MaxKills > 0 /\ seedings <= MaxKills
    /\ step' = "off"
    /\ todo' = <<>> /\ unread' = <<>>
    /\ listed' = NoListing
    /\ types' = <<>>
    /\ pending' = NoRows
    /\ batch_count' = 0
    /\ lost' = NoRows
    /\ part' = FALSE
    /\ UNCHANGED <<export, kept, signatures, tableVars, seedings>>

SeedStep ==
    \/ NewExport \/ BeginSeeding \/ SeedChain \/ ChainsSeeded \/ TakeKept \/ FetchPart
    \/ RenamePart \/ ReadFiles \/ OpenFile \/ LearnRow \/ TypesLearnt \/ SeedRow \/ Seeded \/ Kill

-----------------------------------------------------------------------------
(* Properties.                                                             *)

\* A seeding of signatures that ends well leaves exactly the rows of the files it has
\* listed, as they are on disk, each under the kind the compiled contracts give its
\* hash, but for the inserts that failed; and a file on disk is one the export has
\* had, whole, whatever was killed or published before.
KeptRows(kind) == UNION {ToSet(kept[kind][f]) : f \in listed[kind]}
Of(type) == {r \in KeptRows("dictionary") :
                \E c \in KeptRows("compiled") : c.hash = r.hash /\ c.type = type}
SeededIsJoin ==
    /\ step = "done" /\ signatures =>
        /\ methods \cup lost.methods = Of("function")
        /\ events \cup lost.events = Of("event")
    /\ \A k \in Kinds, f \in Files : kept[k][f] # NoFile =>
        \E n \in DOMAIN Exports : f \in DOMAIN Exports[n][k] /\ Exports[n][k][f] = kept[k][f]

=============================================================================
