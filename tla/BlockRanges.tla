---------------------------- MODULE BlockRanges ----------------------------
(***************************************************************************)
(* The block argument of a command (BlocksRange in args_parsing.rs):       *)
(* "latest", a block number, "from:to", and "n:latest" or "n:" for the n   *)
(* latest blocks.  Every form is held against the latest block, which      *)
(* --latest-offset moves back.                                             *)
(***************************************************************************)
EXTENDS Integers

CONSTANTS
    MaxU64,             \* the greatest value of a u64
    OverflowChecks      \* whether the build has them (the debug build has)

Forms == {"latest", "single", "between", "last"}

\* a is the number before the colon, b the one after it.
Argument(form, a, b) == [form |-> form, a |-> a, b |-> b]

\* get_latest_block, from the head an endpoint reports.
get_latest_block(head, offset) == IF offset < head THEN head - offset ELSE 0

\* u64 subtraction, in a build without overflow checks.
Sub(a, b) == (a - b) % (MaxU64 + 1)
Less(a, b) == IF a >= b THEN a - b ELSE 0

\* Mutant: one block more than asked for.
LastFromLong(latest, n) == Less(latest, n)

\* Where the n latest blocks begin.
LastFrom(latest, n) == Less(latest, Sub(n, 1))

\* BlocksRange::from_str: the ranges an argument may give, none for an error or
\* a panic.
Ranges(arg, latest) ==
    LET range == CASE arg.form = "latest"  -> [from |-> latest, to |-> latest]
                   [] arg.form = "single"  -> [from |-> arg.a, to |-> arg.a]
                   [] arg.form = "between" -> [from |-> arg.a, to |-> arg.b]
                   [] arg.form = "last"    -> [from |-> LastFrom(latest, arg.a), to |-> latest]
    IN  {r \in {range} :
            /\ r.from <= r.to
            /\ r.to <= latest
            /\ ~(arg.form = "last" /\ arg.a = 0 /\ OverflowChecks)}

size(r) == r.to - r.from + 1

=============================================================================
