---------------------------- MODULE CoverageLoop ----------------------------
(***************************************************************************)
(* analyze_coverage (data_fetch.rs): which ranges of a batch no cached     *)
(* parquet file covers.  The ranges of the files, overlapping in any way,  *)
(* are marked one by one in an array of booleans; one pass over the array  *)
(* then cuts the gaps out of it.  Begin starts the loops on a batch.       *)
(***************************************************************************)
EXTENDS Integers

CONSTANTS
    FileRanges, \* the ranges <<first, last>> that cached files may have
    MaxFiles    \* bound on the number of cached ranges

ASSUME FileRangesAssumption == FileRanges \subseteq Nat \X Nat /\ MaxFiles \in Nat

VARIABLES
    span,       \* the batch <<start_block, end_block>>
    cached,     \* the cached ranges, marked or not
    marked,     \* those the first loop has gone through
    covered,    \* the array: whether a block of the batch is covered
    at,         \* the block the second loop is at
    gapStart,   \* first block of an open gap, or NoGap
    gaps        \* the missing ranges found

coverageVars == <<span, cached, marked, covered, at, gapStart, gaps>>

NoGap == -1

MinOf(a, b) == IF a <= b THEN a ELSE b
MaxOf(a, b) == IF a >= b THEN a ELSE b

\* What the cache may hold: up to MaxFiles ranges.
Caches == UNION {{{s[k] : k \in 1 .. n} : s \in [1 .. n -> FileRanges]} : n \in 0 .. MaxFiles}

Uncovered(b) == [n \in b[1] .. b[2] |-> FALSE]

\* No batch is at work: that of block 0 is, and it is through.
Idle ==
    /\ span = <<0, 0>> /\ cached = {} /\ marked = {} /\ covered = Uncovered(<<0, 0>>)
    /\ at = 2 /\ gapStart = NoGap /\ gaps = {<<0, 0>>}

Begin(b) ==
    /\ span' = b
    /\ cached' \in Caches
    /\ marked' = {}
    /\ covered' = Uncovered(b)
    /\ at' = b[1]
    /\ gapStart' = NoGap
    /\ gaps' = {}

\* A range outside the batch is skipped, any other is cut to the batch.
CoverStart(r) == MaxOf(r[1], span[1])
CoverEnd(r) == MinOf(r[2], span[2])

Mark ==
    /\ \E r \in cached \ marked :
        /\ marked' = marked \cup {r}
        /\ IF r[2] < span[1] \/ r[1] > span[2]
            THEN UNCHANGED covered
            ELSE covered' = [b \in DOMAIN covered |->
                    \/ covered[b]
                    \/ b \in CoverStart(r) .. CoverEnd(r)]
    /\ UNCHANGED <<span, cached, at, gapStart, gaps>>

\* Mutant: every uncovered block opens a gap anew.
WalkReopening ==
    /\ marked = cached
    /\ at <= span[2]
    /\ at' = at + 1
    /\ gapStart' = IF covered[at] THEN NoGap ELSE at
    /\ gaps' = IF covered[at] /\ gapStart # NoGap
               THEN gaps \cup {<<gapStart, at - 1>>} ELSE gaps
    /\ UNCHANGED <<span, cached, marked, covered>>

\* An uncovered block opens a gap unless one is open; a covered one closes it.
Walk ==
    /\ marked = cached
    /\ at <= span[2]
    /\ at' = at + 1
    /\ IF ~covered[at]
        THEN /\ gapStart' = IF gapStart = NoGap THEN at ELSE gapStart
             /\ UNCHANGED gaps
        ELSE /\ gaps' = IF gapStart = NoGap
                        THEN gaps
                        ELSE gaps \cup {<<gapStart, at - 1>>}
             /\ gapStart' = NoGap
    /\ UNCHANGED <<span, cached, marked, covered>>

\* A gap still open at the end of the batch reaches to the end.
Close ==
    /\ marked = cached
    /\ at = span[2] + 1
    /\ at' = at + 1
    /\ gaps' = IF gapStart = NoGap THEN gaps ELSE gaps \cup {<<gapStart, span[2]>>}
    /\ gapStart' = NoGap
    /\ UNCHANGED <<span, cached, marked, covered>>

Step == Mark \/ Walk \/ Close

-----------------------------------------------------------------------------
Through == at = span[2] + 2

\* The blocks of the batch that no cached range holds.
Missing ==
    {b \in span[1] .. span[2] : \A r \in cached : b \notin r[1] .. r[2]}

CoverageTypeOK ==
    /\ span \in Nat \X Nat
    /\ cached \subseteq FileRanges
    /\ marked \subseteq cached
    /\ covered \in [span[1] .. span[2] -> BOOLEAN]
    /\ at \in span[1] .. span[2] + 2
    /\ gapStart \in {NoGap} \cup (span[1] .. span[2])
    /\ gaps \subseteq (span[1] .. span[2]) \X (span[1] .. span[2])

\* cryo is run on exactly the missing blocks: what is cached is not fetched again
\* and nothing is left out.  At every point each gap is maximal: one cryo run
\* fetches it, and no two runs touch.
GapsAgree ==
    /\ Through => UNION {g[1] .. g[2] : g \in gaps} = Missing
    /\ \A g \in gaps : g[1] - 1 \notin Missing /\ g[2] + 1 \notin Missing

=============================================================================
