--------------------------- MODULE CustomColumns ---------------------------
(***************************************************************************)
(* What the config may say of a custom table, and what a log becomes in    *)
(* its columns (config.rs, and the SQL that custom_tables.rs writes).      *)
(*                                                                         *)
(* Bytes are taken as they come: a topic or the data of a log is a         *)
(* sequence of them.  A value of SQLite is a blob, a text or null, and it  *)
(* matters which.                                                          *)
(***************************************************************************)
EXTENDS Integers, Sequences, FiniteSets

CONSTANTS
    WordSize,       \* bytes of a topic and of an ABI word (32)
    AddressSize,    \* bytes of an address (20)
    BadNames,       \* names that are no lower-case identifiers
    Reserved,       \* names of tables of the schema, and those of SQLite
    Implicit,       \* columns every custom table has
    Configs,        \* the [tables.<name>] entries a user may write
    Logs            \* the logs there may be

ASSUME WordAssumption ==
    /\ WordSize \in Nat /\ AddressSize \in Nat
    /\ 0 < AddressSize /\ AddressSize <= WordSize

Byte == 0 .. 255
\* Numbers in the config are usize, and cryo reads topics of exactly one word.
ASSUME ConfigsAssumption ==
    \A t \in Configs : \A i \in DOMAIN t.columns :
        LET s == t.columns[i].source IN s.kind = "data" => s.start \in Nat /\ s.end \in Nat
ASSUME LogsAssumption ==
    \A log \in Logs :
        /\ log.topics \in Seq([1 .. WordSize -> Byte])
        /\ log.data \in Seq(Byte)

VARIABLES
    table,      \* the entry that has been loaded, or NoTable
    row         \* the values of a log in its columns, or NoRow

columnVars == <<table, row>>

NoTable == [name |-> "", topic0 |-> <<>>, addresses |-> {}, columns |-> <<>>]
NoRow == <<>>

-----------------------------------------------------------------------------
(* The config.  A source is [kind |-> "topic", index], a range of the data   *)
(* [kind |-> "data", start, end] with its end excluded, or anything else.   *)

\* ColumnSource::parse.
KnownSource(s) ==
    \/ s.kind = "topic" /\ s.index \in 1 .. 3
    \/ s.kind = "data" /\ s.start < s.end

\* CustomColumn::from_config: which types a source may have.
FitsType(s, type) ==
    \/ s.kind = "topic" /\ type \in {"address", "uint256"}
    \/ s.kind = "data" /\ type = "address" /\ s.end - s.start \in {AddressSize, WordSize}
    \/ s.kind = "data" /\ type = "uint256" /\ s.end - s.start <= WordSize
    \/ s.kind = "data" /\ type = "bytes"

ColumnAccepted(c) ==
    /\ c.name \notin BadNames \cup Implicit
    /\ KnownSource(c.source)
    /\ FitsType(c.source, c.type)

\* parse_hex_bytes, of what the config gives as hex.
parse_hex_bytes(bytes, expected_len) == Len(bytes) = expected_len

\* CustomTable::from_config.
TableAccepted(t) ==
    /\ t.name \notin BadNames \cup Reserved
    /\ t.columns # <<>>
    /\ parse_hex_bytes(t.topic0, WordSize)
    /\ \A a \in t.addresses : parse_hex_bytes(a, AddressSize)
    /\ \A i \in DOMAIN t.columns : ColumnAccepted(t.columns[i])
    /\ \A i, j \in DOMAIN t.columns : t.columns[i].name = t.columns[j].name => i = j

-----------------------------------------------------------------------------
(* What SQLite computes.                                                    *)

Null == [type |-> "null", bytes |-> <<>>]
Blob(b) == [type |-> "blob", bytes |-> b]
zeroblob(n) == Blob([i \in 1 .. n |-> 0])

\* The bytes from the y-th to the last of z, as far as there are any.  A blob
\* without bytes gives null; y = 0 stands for the place before the first byte.
substr(v, y, z) ==
    IF v.bytes = <<>> THEN Null
    ELSE LET last == IF y + z - 1 < Len(v.bytes) THEN y + z - 1 ELSE Len(v.bytes)
         IN  Blob(SubSeq(v.bytes, IF y = 0 THEN 1 ELSE y, last))

\* x || y is a text, whatever x and y are.
Concat(x, y) ==
    IF x.type = "null" \/ y.type = "null" THEN Null
    ELSE [type |-> "text", bytes |-> x.bytes \o y.bytes]

\* The columns topic1 .. topic3 of a log; topic0 is the first of its topics.
TopicOf(log, i) == IF i < Len(log.topics) THEN Blob(log.topics[i + 1]) ELSE Null

\* Mutant: the offset of the data is not moved to SQLite's, which is from 1.
column_expr_zero_based(c, log) ==
    LET s == c.source IN
    CASE s.kind = "topic" /\ c.type = "address" ->
            substr(TopicOf(log, s.index), WordSize - AddressSize + 1, AddressSize)
      [] s.kind = "topic" /\ c.type # "address" -> TopicOf(log, s.index)
      [] OTHER -> substr(Blob(log.data), s.start, s.end - s.start)

\* column_expr: the value of a column for a log.
column_expr(c, log) ==
    LET s == c.source
        data == Blob(log.data)
        length == s.end - s.start
        slice == substr(data, s.start + 1, length)
        pad == WordSize - AddressSize
    IN  CASE s.kind = "topic" /\ c.type = "address" ->
                substr(TopicOf(log, s.index), pad + 1, AddressSize)
          [] s.kind = "topic" /\ c.type # "address" -> TopicOf(log, s.index)
          [] s.kind = "data" /\ c.type = "address" ->
                substr(data, IF length = WordSize THEN s.start + pad + 1 ELSE s.start + 1,
                       AddressSize)
          [] s.kind = "data" /\ c.type = "uint256" ->
                IF length = WordSize THEN slice
                ELSE Concat(zeroblob(WordSize - Len(slice.bytes)), slice)
          [] s.kind = "data" /\ c.type = "bytes" -> slice

-----------------------------------------------------------------------------
TableInit == table = NoTable /\ row = NoRow

\* Config::load: an entry that is not accepted is an error of the command.
Load ==
    /\ table = NoTable
    /\ \E t \in Configs : TableAccepted(t) /\ table' = t
    /\ UNCHANGED row

\* The logs a table is about: WHERE topic0 = ... AND address IN (...).
Captured(log) ==
    /\ log.topics # <<>> /\ log.topics[1] = table.topic0
    /\ table.addresses # {} => log.address \in table.addresses

\* populate_sql.
Populate ==
    /\ table # NoTable /\ row = NoRow
    /\ \E log \in Logs : Captured(log) /\
        row' = [i \in DOMAIN table.columns |->
                    [log |-> log, value |-> column_expr(table.columns[i], log)]]
    /\ UNCHANGED table

TableStep == Load \/ Populate

-----------------------------------------------------------------------------
(* Properties.                                                             *)

\* The log has what the column takes its value from.
Has(log, s) ==
    IF s.kind = "topic" THEN s.index < Len(log.topics) ELSE s.end <= Len(log.data)

\* The bytes of the source, counted from 0 as the config counts them.
Source(log, s) ==
    IF s.kind = "topic" THEN log.topics[s.index + 1]
    ELSE [i \in 1 .. s.end - s.start |-> log.data[s.start + i]]

\* What the types promise: of an address its own bytes, without the pad in front
\* of it; of a number a whole word with the same value; of bytes all of them.
Promised(c, log) ==
    LET s == Source(log, c.source) IN
    CASE c.type = "address" -> [i \in 1 .. AddressSize |-> s[Len(s) - AddressSize + i]]
      [] c.type = "uint256" ->
            [i \in 1 .. WordSize |->
                IF i <= WordSize - Len(s) THEN 0 ELSE s[i - (WordSize - Len(s))]]
      [] c.type = "bytes" -> s

\* Every column of an accepted table has, of a log that has its source, exactly
\* the bytes its type promises; of a log that lacks the topic or has no data it
\* is null.
ColumnFits ==
    \A i \in DOMAIN row :
        LET c == table.columns[i]
            log == row[i].log
            v == row[i].value
        IN  /\ Has(log, c.source) => v.bytes = Promised(c, log)
            /\ v.type = "null" <=> (IF c.source.kind = "topic"
                                    THEN ~Has(log, c.source) ELSE log.data = <<>>)

=============================================================================
