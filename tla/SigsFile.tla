------------------------------ MODULE SigsFile ------------------------------
(***************************************************************************)
(* The signatures database: one file for all chains, made somewhere else,  *)
(* that the first command downloads (download_file), that update-sigs-db   *)
(* removes and downloads again, and that gets its two indexes on first     *)
(* use.  The archive is written to a path of its own, which all downloads  *)
(* share, and is then unpacked straight to the final path; to open either  *)
(* file for writing empties it.                                            *)
(*                                                                         *)
(* Two writers of one file write the same bytes, so it is whole once the   *)
(* one that emptied it last is done.                                       *)
(***************************************************************************)
EXTENDS Naturals

CONSTANTS
    Procs,      \* processes that run mevlog commands
    Nobody      \* no process

VARIABLES
    sigs,       \* the database file: "absent", "partial" or "whole"
    sigsBy,     \* who emptied it last
    zst,        \* the archive, likewise
    zstBy,
    indexes,    \* the indexes the database has
    got,        \* whether the archive a process unpacks was whole when opened
    stale,      \* processes whose open database has been removed
    solo,       \* processes whose download has overlapped no other
    harm        \* history: a download has stopped short or met another one,
                \* and none has gone through alone since

sigsVars == <<sigs, sigsBy, zst, zstBy, indexes, got, stale, solo, harm>>

\* ("methods_hash_4_index", "events_hash_32_index"), in this order.
Indexes == {1, 2}
Contents == {"absent", "partial", "whole"}

SigsTypeOK ==
    /\ sigs \in Contents
    /\ zst \in Contents
    /\ sigsBy \in Procs \cup {Nobody}
    /\ zstBy \in Procs \cup {Nobody}
    /\ indexes \subseteq Indexes
    /\ got \subseteq Procs
    /\ stale \subseteq Procs
    /\ solo \subseteq Procs
    /\ harm \in BOOLEAN

SigsInit ==
    /\ sigs = "absent" /\ sigsBy = Nobody
    /\ zst = "absent" /\ zstBy = Nobody
    /\ indexes = {}
    /\ got = {}
    /\ stale = {}
    /\ solo = {}
    /\ harm = FALSE

file_exists == sigs # "absent"

\* remove_files: everything that begins with the path of the database goes, the
\* archive of another download included.  Users have the database open.
remove_files(users) ==
    /\ sigs' = "absent" /\ sigsBy' = Nobody
    /\ zst' = "absent" /\ zstBy' = Nobody
    /\ indexes' = {}
    /\ stale' = stale \cup users
    /\ UNCHANGED <<got, solo, harm>>

\* The answer of the server is there: the archive is created.  Others are
\* the processes that are downloading already.
CreateArchive(p, others) ==
    /\ zst' = "partial" /\ zstBy' = p
    /\ solo' = IF others = {} THEN solo \cup {p} ELSE {}
    /\ harm' = (harm \/ others # {})
    /\ UNCHANGED <<sigs, sigsBy, indexes, got, stale>>

FillArchive(p) ==
    /\ zst' = IF zstBy = p THEN "whole" ELSE zst
    /\ UNCHANGED <<sigs, sigsBy, zstBy, indexes, got, stale, solo, harm>>

\* The archive is opened, and the final file created.
CreateDb(p) ==
    /\ zst # "absent"
    /\ got' = IF zst = "whole" THEN got \cup {p} ELSE got \ {p}
    /\ sigs' = "partial" /\ sigsBy' = p
    /\ indexes' = {}
    /\ UNCHANGED <<zst, zstBy, stale, solo, harm>>

\* Mutant: what the decoder has buffered last is not written.
FillDbShort(p) ==
    /\ p \in got
    /\ zst # "absent"
    /\ sigsBy' = IF sigsBy = p THEN Nobody ELSE sigsBy
    /\ zst' = "absent" /\ zstBy' = Nobody
    /\ harm' = (harm /\ p \notin solo)
    /\ got' = got \ {p}
    /\ solo' = solo \ {p}
    /\ UNCHANGED <<sigs, indexes, stale>>

\* Unpacked to the end, and the archive removed.
FillDb(p) ==
    /\ p \in got
    /\ zst # "absent"
    /\ sigs' = IF sigsBy = p THEN "whole" ELSE sigs
    /\ sigsBy' = IF sigsBy = p THEN Nobody ELSE sigsBy
    /\ zst' = "absent" /\ zstBy' = Nobody
    /\ harm' = (harm /\ p \notin solo)
    /\ got' = got \ {p}
    /\ solo' = solo \ {p}
    /\ UNCHANGED <<indexes, stale>>

\* Unpacked to the end, but another download has removed the archive: an error.
FillDbNoArchive(p) ==
    /\ p \in got
    /\ zst = "absent"
    /\ sigs' = IF sigsBy = p THEN "whole" ELSE sigs
    /\ sigsBy' = IF sigsBy = p THEN Nobody ELSE sigsBy
    /\ harm' = TRUE
    /\ got' = got \ {p}
    /\ solo' = solo \ {p}
    /\ UNCHANGED <<zst, zstBy, indexes, stale>>

\* SQLite refuses a file shorter than its header says, and an empty one has no
\* table to index; in a file that has been removed from under its connection
\* nobody sees the index.
CanIndex(p, i) == p \in stale \/ (sigs = "whole" /\ i \notin indexes)

CreateIndex(p, i) ==
    /\ CanIndex(p, i)
    /\ indexes' = IF p \in stale THEN indexes ELSE indexes \cup {i}
    /\ UNCHANGED <<sigs, sigsBy, zst, zstBy, got, stale, solo, harm>>

\* A process is over, whatever it was at: in a download, or not.
SigsForget(p, downloading) ==
    /\ got' = got \ {p}
    /\ solo' = solo \ {p}
    /\ harm' = (harm \/ downloading)
    /\ stale' = stale \ {p}
    /\ sigsBy' = IF sigsBy = p THEN Nobody ELSE sigsBy
    /\ zstBy' = IF zstBy = p THEN Nobody ELSE zstBy
    /\ UNCHANGED <<sigs, zst, indexes>>

=============================================================================
