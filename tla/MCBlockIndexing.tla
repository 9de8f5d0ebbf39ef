-------------------------- MODULE MCBlockIndexing --------------------------
EXTENDS BlockIndexing, TLC

CONSTANTS p1, p2

RangesNested == {<<1, 2>>, <<2, 2>>}
RangesPurge == {<<1, 3>>}
RangesSingle == {<<1, 1>>, <<2, 2>>, <<3, 3>>}
Symmetry == Permutations(Procs)
=============================================================================
