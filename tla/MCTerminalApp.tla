--------------------------- MODULE MCTerminalApp ---------------------------
EXTENDS TerminalApp

CONSTANTS c1, c2, c3

\* The third chain is not among the default ones.
Defaults == <<c1, c2>>
\* One letter matches two chains, two letters none.
Matches == [q \in {1, 2} |-> IF q = 1 THEN <<c3, c1>> ELSE <<>>]
AnyStart == {{}, {"chain"}, {"url"}, {"chain", "url"}}
ChainStarts == {{}, {"chain"}, {"chain", "url"}}

=============================================================================
