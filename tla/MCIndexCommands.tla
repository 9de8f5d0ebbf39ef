-------------------------- MODULE MCIndexCommands --------------------------
EXTENDS IndexCommands

CONSTANTS p1, p2

MCProcs == {p1, p2}

Last(n) == Argument("last", n, 0)

\* Each form of an argument, each option, and a window of each command that has
\* one; of the n latest blocks none, fewer than the chain has, as many and more;
\* and the wipe that is purge-db --keep 0.
MCCommands ==
    {Command("live", NoBlocks, 0, NoLimit, 1),
     Command("live", Last(1), 1, NoLimit, 2),
     Command("live", Argument("between", 0, 1), 0, 2, NoLimit),
     Command("index", Last(0), 0, NoLimit, NoLimit),
     Command("index", Last(2), 0, 2, NoLimit),
     Command("index", Last(3), 0, 2, NoLimit),
     Command("index", Argument("single", 1, 0), 1, NoLimit, NoLimit),
     Command("index", Argument("latest", 0, 0), 1, NoLimit, NoLimit),
     Command("reindex", NoBlocks, 0, NoLimit, NoLimit),
     Command("reindex", NoBlocks, 0, NoLimit, 2),
     Command("purge", NoBlocks, 0, NoLimit, 0),
     Command("purge", NoBlocks, 0, NoLimit, 2)}
=============================================================================
