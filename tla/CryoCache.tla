----------------------------- MODULE CryoCache -----------------------------
(***************************************************************************)
(* The directory of parquet files cryo writes and mevlog reads, shared by  *)
(* every mevlog process of the chain (~/.mevlog/.cryo-cache/<chain>).      *)
(*                                                                         *)
(* A file's name gives its data type and its block range, and the code     *)
(* reads nothing else before it opens it: a file is its data type and the  *)
(* set of blocks it covers.  cryo itself is outside the repository: a run  *)
(* over a range either leaves one file with that range or fails.           *)
(***************************************************************************)
EXTENDS Naturals

VARIABLE cache      \* the files of each data type, each the set of its blocks

DataTypes == {"transactions", "logs", "blocks"}

\* The order in which a batch handles the data types.
Before(t, u) ==
    <<t, u>> \in {<<"transactions", "logs">>, <<"transactions", "blocks">>,
                  <<"logs", "blocks">>}

NextType(t) == IF t = "transactions" THEN "logs" ELSE "blocks"

CacheTypeOK == cache \in [DataTypes -> SUBSET SUBSET Nat]

CacheInit == cache = [t \in DataTypes |-> {}]

\* Mutant: a file that reaches beyond the chunk is not collected.
Inside(t, S) == {F \in cache[t] : F \subseteq S}

\* collect_files_for_range: the files that overlap S.
Overlapping(t, S) == {F \in cache[t] : F \cap S # {}}

\* analyze_coverage: the blocks of S that no scanned file covers.
Uncovered(t, S) == S \ UNION cache[t]

\* The first of the contiguous ranges analyze_coverage splits M into: cryo is
\* run on these gaps one after the other, lowest first.
FirstGap(M) ==
    {b \in M : \A a \in M : a <= b => (a .. b) \subseteq M}

WriteFile(t, F) == cache' = [cache EXCEPT ![t] = @ \cup {F}]

\* Mutant: a file is pruned without asking the database.
PrunableUnchecked(t, lo, hi, indexed) == Overlapping(t, lo .. hi)

\* prune_indexed_cache, one data type: the files that overlap lo..hi and whose
\* whole range is indexed are removed.
Prunable(t, lo, hi, indexed) ==
    {F \in Overlapping(t, lo .. hi) : F \subseteq indexed}
RemoveFiles(t, S) == cache' = [cache EXCEPT ![t] = @ \ S]

=============================================================================
