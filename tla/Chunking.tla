------------------------------ MODULE Chunking ------------------------------
(***************************************************************************)
(* How an index run cuts the missing blocks of its range into the chunks   *)
(* it fetches and saves (indexing.rs, contiguous_ranges and the two loops  *)
(* over its result), as sets of block numbers.  The module ChunkLoops      *)
(* holds the loops themselves and shows that both agree.                   *)
(***************************************************************************)
EXTENDS Naturals

\* The first block of the gap (maximal contiguous run) of M that b is in.
RunStart(M, b) ==
    CHOOSE a \in M : /\ (a .. b) \subseteq M
                     /\ \A c \in M : (c .. b) \subseteq M => a <= c

\* The chunk of b: the blocks of its gap that fall in the same batch, counted
\* in steps of batch from the first block of the gap.
ChunkOf(M, batch, b) ==
    {c \in M :
        /\ RunStart(M, c) = RunStart(M, b)
        /\ (c - RunStart(M, c)) \div batch = (b - RunStart(M, b)) \div batch}

Chunks(M, batch) == {ChunkOf(M, batch, b) : b \in M}

\* Mutant: oldest first.
Oldest(c, C) == c \in C /\ \A d \in C \ {c} : \A x \in d, y \in c : x > y

\* Chunks are handed out newest first.
Newest(c, C) == c \in C /\ \A d \in C \ {c} : \A x \in d, y \in c : x < y

=============================================================================
