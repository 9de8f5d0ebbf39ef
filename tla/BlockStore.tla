----------------------------- MODULE BlockStore -----------------------------
(***************************************************************************)
(* What the store of indexed blocks promises to those who ask it, without  *)
(* a word on chunks, fetches, the cryo cache or the order of the saves: a  *)
(* block appears at once with all of its rows, only for a run that was     *)
(* asked for it; a run that reports success has its whole range there; and *)
(* blocks leave from the oldest on, never one of the newest that a purge   *)
(* was told to keep.  BlockIndexing implements this, see StoreRefined.     *)
(***************************************************************************)
EXTENDS Naturals

CONSTANTS
    Runs,       \* those that run index_block_range
    Ranges,     \* the <<from, to>> ranges a run may be asked for
    Keeps       \* the --keep values of a purge

VARIABLES
    store,      \* for each visible block, which of its rows are there
    run,        \* "idle", "open" or, once its range is stored, "done"
    asked       \* the range of a run that is not idle

vars == <<store, run, asked>>

Whole == [logs |-> TRUE, txs |-> TRUE]
NoRange == <<0, 0>>

Init ==
    /\ store = [b \in {} |-> Whole]
    /\ run = [p \in Runs |-> "idle"]
    /\ asked = [p \in Runs |-> NoRange]

Ask(p) ==
    /\ run[p] = "idle"
    /\ \E r \in Ranges : asked' = [asked EXCEPT ![p] = r]
    /\ run' = [run EXCEPT ![p] = "open"]
    /\ UNCHANGED store

Insert(p) ==
    /\ run[p] = "open"
    /\ \E S \in SUBSET (asked[p][1] .. asked[p][2]) :
        store' = [b \in DOMAIN store \cup S |-> Whole]
    /\ UNCHANGED <<run, asked>>

Succeed(p) ==
    /\ run[p] = "open"
    /\ (asked[p][1] .. asked[p][2]) \subseteq DOMAIN store
    /\ run' = [run EXCEPT ![p] = "done"]
    /\ UNCHANGED <<store, asked>>

\* After success, or by an error or a kill at any time before.
End(p) ==
    /\ run[p] # "idle"
    /\ run' = [run EXCEPT ![p] = "idle"]
    /\ asked' = [asked EXCEPT ![p] = NoRange]
    /\ UNCHANGED store

\* The blocks up to u go, and `keep` block numbers from above u on stay.
Remove(u) ==
    /\ \A p \in Runs : run[p] = "idle"
    /\ \E keep \in Keeps, m \in DOMAIN store : u + keep <= m
    /\ store' = [b \in {c \in DOMAIN store : c > u} |-> store[b]]
    /\ UNCHANGED <<run, asked>>

Next ==
    \/ \E p \in Runs : Ask(p) \/ Insert(p) \/ Succeed(p) \/ End(p)
    \/ \E u \in DOMAIN store : Remove(u)

Spec == Init /\ [][Next]_vars

=============================================================================
