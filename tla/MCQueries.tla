----------------------------- MODULE MCQueries -----------------------------
(* Two processes, two blocks with two and one transactions.                *)
EXTENDS Queries, TLC

CONSTANTS p1, p2

TwoBlocks == (1 :> 2) @@ (2 :> 1)
SomePay == (<<1, 1>> :> "paid") @@ (<<1, 2>> :> "zero") @@ (<<2, 1>> :> "paid")
LastOfFirst == {<<1, 2>>}
Failures == {{"trace", "fetch", "update"}, {"inspect", "commit"}}

Plan(a, b) == (p1 :> a) @@ (p2 :> b)
Local == {Plan("query", "tx")}
Remote == {Plan("mcp", "search"), Plan("upload", "search")}
AllPlans == Local \cup Remote
=============================================================================
