----------------------------- MODULE MCDataPath -----------------------------
(***************************************************************************)
(* The instance of DataPath that TLC checks: words of four bytes, addresses *)
(* of two; an export of two files that grows.                              *)
(***************************************************************************)
EXTENDS DataPath

AllRanges == {r \in (0 .. MaxBlock) \X (0 .. MaxBlock) : r[1] <= r[2]}

MaxByte == 9
Sources ==
    {[kind |-> "topic", index |-> i] : i \in 0 .. 4} \cup
    {[kind |-> "data", start |-> s, end |-> e] : s \in 0 .. MaxByte - 1, e \in 0 .. MaxByte} \cup
    {[kind |-> "unknown"]}
Types == {"address", "uint256", "bytes", "text"}
Column(n, s, t) == [name |-> n, source |-> s, type |-> t]
First == {Column("a", s, t) : s \in Sources, t \in Types}
Second == {Column(n, [kind |-> "topic", index |-> 1], "uint256") : n \in {"a", "b", "B", "address"}}
Topic(t) == [i \in 1 .. WordSize |-> 100 + 10 * t + i]
Contract(a) == [i \in 1 .. AddressSize |-> 200 + 10 * a + i]
Table(n, cs) == [name |-> n, topic0 |-> Topic(1), addresses |-> {}, columns |-> cs]
OneColumn == Table("t", <<CHOOSE c \in Second : c.name = "b">>)
MCConfigs ==
    {Table("t", cs) :
        cs \in {<<>>} \cup {<<c>> : c \in First} \cup {<<Column("a", [kind |-> "topic", index |-> 2], "address"), c>> : c \in Second}}
    \cup {[OneColumn EXCEPT !.name = n] : n \in {"T", "logs"}}
    \cup {[OneColumn EXCEPT !.topic0 = t] : t \in {Topic(0), SubSeq(Topic(1), 2, WordSize)}}
    \cup {[OneColumn EXCEPT !.addresses = as] : as \in {{Contract(1)}, {Contract(2)}, {Topic(1)}}}

\* Every byte of a log is another one: a topic of four, the data as long as may be.
MCLogs ==
    {[address |-> Contract(1),
      topics |-> [t \in 1 .. n |-> Topic(t)],
      data |-> [i \in 1 .. d |-> i]] : n \in 0 .. 4, d \in 0 .. MaxByte}

R(h, t) == [hash |-> h, type |-> t]
D(h, s) == [hash |-> h, sig |-> s]
MCExports ==
    LET c1 == <<R("h1", "function"), R("h2", "event"), R("h3", "error"), R("h1", "event"), R("h1", "function")>>
        c2 == <<R("h3", "event"), R("h4", "function")>>
        d1 == <<D("h1", "s1"), D("h2", "s2"), D("h3", "s3"), D("h5", "s5")>>
        d2 == <<D("h2", "s2"), D("h4", "s4")>>
    IN  <<[compiled |-> [f \in {"a"} |-> c1], dictionary |-> [f \in {"a"} |-> d1]],
          [compiled |-> [f \in {"a", "b"} |-> IF f = "a" THEN c2 \o c1 ELSE c2],
           dictionary |-> [f \in {"b"} |-> d2]]>>
\* n1 and N1 differ in case only.
MCLowercase == [n \in Names |-> IF n = "N1" THEN "n1" ELSE n]

\* Statements, one for each thing that may be wrong with one, or right.
Statement(reads, acts, columns, macros, names) ==
    [reads |-> reads, acts |-> acts, columns |-> columns, macros |-> macros, names |-> names]
Plain(macros, names) == Statement({"blocks"}, {"select"}, <<"a", "b">>, macros, names)
MCStatements ==
    {Plain({"latest"}, <<"n1">>), Plain({"price"}, <<"n2", "N1">>), Plain({}, <<>>),
     Statement({"blocks", "custom"}, {"select", "function"}, <<"a">>, {}, <<>>),
     Statement({"custom_tables"}, {"select"}, <<"a">>, {}, <<>>),
     Statement({"blocks"}, {"select", "insert"}, <<"a">>, {}, <<>>),
     Statement({"blocks"}, {"select"}, <<"a", "a">>, {}, <<>>)}
Request(by, sql, max_rows, price, option) ==
    [by |-> by, sql |-> sql, max_rows |-> max_rows, price |-> price, mainnet |-> option # "away",
     last |-> 1, longDesc |-> option = "long", jwt |-> option # "no jwt",
     what |-> "query", block |-> None, backend |-> IF option = "kubo" THEN "kubo" ELSE "pinata"]
Shown(what, sql, block) ==
    [Request("display", sql, None, None, "none") EXCEPT !.what = what, !.block = block]
MCRequests ==
    {Request("web", s, m, None, "none") : s \in MCStatements, m \in {None, 1}}
    \cup {Request("cli", s, 1, None, "none") : s \in {t \in MCStatements : t.macros # {}}}
    \cup {Request("mcp", Plain({"latest"}, <<"n1">>), None, None, "none")}
    \cup {Request("upload", Plain({"latest"}, <<"n1">>), 1, "given", o) :
            o \in {"none", "away", "long", "no jwt", "kubo"}}
    \cup {Shown("block", block_display_query, b) : b \in {None, 0}}
    \cup {Shown("tx", tx_display_query, 1), Shown("tx-logs", logs_display_query, 0),
          Shown("block-txs", tx_display_query, None),
          Shown("block-logs", block_logs_display_query, 0)}

\* A file reaches beyond its chunk, and some of its rows are in it twice.
Tx(b, k, what, price) == [kind |-> "tx", block |-> b, key |-> k, calls |-> what, index |-> 0, price |-> price]
Log(b, k, topic, words) == [kind |-> "log", block |-> b, key |-> k, calls |-> topic, words |-> words]
Block(b) == [kind |-> "block", block |-> b, key |-> b, calls |-> "none"]
MCParquet ==
    [new |-> <<Tx(2, 1, "selector", "fits"), Tx(2, 2, "create", "big"),
               Log(2, 1, "topic", 1), Log(2, 1, "topic", 1), Log(2, 2, "topic", 0),
               Block(2), Block(3)>>,
     old |-> <<Tx(1, 3, "selector", "fits"), Tx(1, 4, "transfer", "fits"),
               Tx(1, 5, "0x098999be", "fits"), Log(1, 3, "", 1), Log(2, 1, "topic", 1),
               Log(1, 4, "topic", 1), Block(1)>>]
MCChunkRange == [new |-> {2}, old |-> {1}]
Edition(selectors, topics) ==
    [h \in Hashes |-> IF h = "selector" THEN selectors ELSE IF h = "topic" THEN topics ELSE {}]
MCEditions ==
    <<Edition({}, {}), Edition({"f()", "g()"}, {"Transfer(address,address,uint256)"})>>

MCChainList == <<"c1", "c2">>

=============================================================================
