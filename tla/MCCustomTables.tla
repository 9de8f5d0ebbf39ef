--------------------------- MODULE MCCustomTables ---------------------------
EXTENDS CustomTables, TLC

CONSTANTS p1, p2, t1, t2, d1, d2

SomeRanges == {<<1, 2>>}
SomeColumns == (d1 :> {"sender"}) @@ (d2 :> {"sender", "amount"})
\* Edits between commands, or edits and rebuilds under them.
Offline == [online |-> {}, edits |-> 3]
Overlapping == [online |-> {"edit", "rebuild"}, edits |-> 2]
BothModes == {Offline, Overlapping}
OfflineMode == {Offline}
Symmetry == Permutations(Procs)
=============================================================================
