--------------------------- MODULE DataPathProofs ---------------------------
(***************************************************************************)
(* From data to data, whatever the data are: the columns of a custom       *)
(* table, the chunks of a run and the gaps the cached files leave in them, *)
(* the rows decoded from the files, and the answers to queries.            *)
(***************************************************************************)
EXTENDS DataPath, SequenceTheorems, FiniteSetTheorems, TLAPS

Bytes == Seq(Byte)
Pick(b, y, z) == [i \in 1 .. z |-> b[y + i - 1]]

\* A part of the bytes that are there is cut out as it is.
LEMMA Slice ==
    ASSUME NEW b \in Bytes, NEW y \in Nat \ {0}, NEW z \in Nat \ {0},
           y + z - 1 <= Len(b)
    PROVE  substr(Blob(b), y, z) = Blob(Pick(b, y, z))
<1>1. Len(b) \in Nat /\ b # <<>>
  BY LenProperties, EmptySeq DEF Bytes
<1>2. substr(Blob(b), y, z) = Blob(SubSeq(b, y, y + z - 1))
  <2>1. (IF y + z - 1 < Len(b) THEN y + z - 1 ELSE Len(b)) = y + z - 1 /\ y # 0
    BY <1>1
  <2> QED
    BY <1>1, <2>1 DEF substr, Blob
<1>3. \A i \in y .. y + z - 1 : b[i] \in Byte
  BY <1>1, ElementOfSeq DEF Bytes
<1>4. /\ SubSeq(b, y, y + z - 1) \in Seq(Byte)
      /\ Len(SubSeq(b, y, y + z - 1)) = z
      /\ \A i \in 1 .. z : SubSeq(b, y, y + z - 1)[i] = b[y + i - 1]
  BY <1>3, SubSeqProperties
<1>5. SubSeq(b, y, y + z - 1) \in [1 .. z -> Byte]
  BY <1>4, LenProperties
<1>6. SubSeq(b, y, y + z - 1) = Pick(b, y, z)
  BY <1>4, <1>5 DEF Pick
<1> QED
  BY <1>2, <1>6

\* Only of no bytes at all is there no part.
LEMMA SliceNull ==
    ASSUME NEW b, NEW y, NEW z
    PROVE  (substr(Blob(b), y, z).type = "null") <=> b = <<>>
BY DEF substr, Blob, Null

LEMMA TopicWord ==
    ASSUME NEW log \in Logs, NEW i \in Nat, i < Len(log.topics)
    PROVE  /\ TopicOf(log, i) = Blob(log.topics[i + 1])
           /\ log.topics[i + 1] \in Bytes
           /\ Len(log.topics[i + 1]) = WordSize
           /\ log.topics[i + 1] # <<>>
<1>1. log.topics \in Seq([1 .. WordSize -> Byte])
  BY LogsAssumption
<1>2. i + 1 \in 1 .. Len(log.topics)
  BY <1>1, LenProperties
<1>3. log.topics[i + 1] \in [1 .. WordSize -> Byte]
  BY <1>1, <1>2, ElementOfSeq
<1>4. WordSize \in Nat /\ WordSize > 0
  BY WordAssumption
<1>5. log.topics[i + 1] \in Seq(Byte) /\ Len(log.topics[i + 1]) = WordSize
  BY <1>3, <1>4
<1> QED
  BY <1>4, <1>5, EmptySeq DEF TopicOf, Bytes

Fits(c, log) ==
    /\ Has(log, c.source) => column_expr(c, log).bytes = Promised(c, log)
    /\ column_expr(c, log).type = "null"
        <=> (IF c.source.kind = "topic" THEN ~Has(log, c.source) ELSE log.data = <<>>)

LEMMA TopicFits ==
    ASSUME NEW log \in Logs, NEW c, ColumnAccepted(c), c.source.kind = "topic"
    PROVE  Fits(c, log)
<1> DEFINE i == c.source.index
           t == log.topics[i + 1]
<1>1. i \in Nat /\ c.type \in {"address", "uint256"}
  BY DEF ColumnAccepted, KnownSource, FitsType
<1>2. CASE ~(i < Len(log.topics))
  BY <1>1, <1>2 DEF Fits, Has, column_expr, TopicOf, substr, Null
<1>3. CASE i < Len(log.topics)
  <2>1. /\ TopicOf(log, i) = Blob(t) /\ t \in Bytes /\ Len(t) = WordSize
        /\ t # <<>>
    BY <1>1, <1>3, TopicWord
  <2>2. Source(log, c.source) = t
    BY DEF Source
  <2>3. CASE c.type = "uint256"
    <3>1. column_expr(c, log) = Blob(t)
      BY <2>1, <2>3 DEF column_expr
    <3>2. Promised(c, log) = [j \in 1 .. WordSize |-> t[j]]
      BY <2>1, <2>2, <2>3, WordAssumption DEF Promised
    <3>3. t \in [1 .. WordSize -> Byte]
      BY <2>1, LenProperties DEF Bytes
    <3>4. Promised(c, log) = t
      BY <3>2, <3>3
    <3> QED
      BY <1>3, <3>1, <3>4 DEF Fits, Has, Blob
  <2>4. CASE c.type = "address"
    <3> DEFINE y == WordSize - AddressSize + 1
    <3>1. column_expr(c, log) = substr(Blob(t), y, AddressSize)
      BY <2>1, <2>4 DEF column_expr
    <3>2. y \in Nat \ {0} /\ AddressSize \in Nat \ {0} /\ y + AddressSize - 1 <= Len(t)
      BY <2>1, WordAssumption
    <3>3. column_expr(c, log) = Blob(Pick(t, y, AddressSize))
      BY <2>1, <3>1, <3>2, Slice
    <3>4. Promised(c, log) = [j \in 1 .. AddressSize |-> t[Len(t) - AddressSize + j]]
      BY <2>2, <2>4 DEF Promised
    <3>5. Promised(c, log) = Pick(t, y, AddressSize)
      BY <2>1, <3>4, WordAssumption DEF Pick
    <3> QED
      BY <1>3, <3>3, <3>5 DEF Fits, Has, Blob
  <2> QED
    BY <1>1, <2>3, <2>4
<1> QED
  BY <1>2, <1>3

-----------------------------------------------------------------------------
(* Columns that are cut out of the data.                                   *)

\* A range of the data, as TableAccepted lets it through.
DataColumn(c) ==
    /\ ColumnAccepted(c)
    /\ c.source.kind = "data"
    /\ c.source.start \in Nat /\ c.source.end \in Nat

Length(c) == c.source.end - c.source.start

LEMMA DataShape ==
    ASSUME NEW c, DataColumn(c)
    PROVE  /\ Length(c) \in Nat \ {0}
           /\ \/ c.type = "address" /\ Length(c) \in {AddressSize, WordSize}
              \/ c.type = "uint256" /\ Length(c) <= WordSize
              \/ c.type = "bytes"
BY DEF DataColumn, ColumnAccepted, KnownSource, FitsType, Length

LEMMA DataSource ==
    ASSUME NEW c, DataColumn(c), NEW log \in Logs, Has(log, c.source)
    PROVE  /\ log.data \in Bytes
           /\ c.source.start + Length(c) <= Len(log.data)
           /\ Len(log.data) \in Nat
           /\ Source(log, c.source) = Pick(log.data, c.source.start + 1, Length(c))
           /\ Source(log, c.source) \in Bytes
           /\ Len(Source(log, c.source)) = Length(c)
<1> DEFINE s == c.source.start
           n == Length(c)
<1>1. log.data \in Seq(Byte) /\ Len(log.data) \in Nat
  BY LogsAssumption, LenProperties
<1>2. s \in Nat /\ n \in Nat \ {0} /\ s + n <= Len(log.data)
  BY <1>1, DataShape DEF DataColumn, Has, Length
<1>3. Source(log, c.source) = [i \in 1 .. n |-> log.data[s + i]]
  BY DEF Source, DataColumn, Length
<1>4. \A i \in 1 .. n : s + 1 + i - 1 = s + i /\ log.data[s + i] \in Byte
  BY <1>1, <1>2, ElementOfSeq
<1>5. Source(log, c.source) = Pick(log.data, s + 1, n)
  BY <1>3, <1>4 DEF Pick
<1>6. Source(log, c.source) \in [1 .. n -> Byte]
  BY <1>3, <1>4
<1>7. Source(log, c.source) \in Seq(Byte) /\ Len(Source(log, c.source)) = n
  BY <1>2, <1>6
<1> QED
  BY <1>1, <1>2, <1>5, <1>7 DEF Bytes

LEMMA DataNull ==
    ASSUME NEW c, DataColumn(c), NEW log
    PROVE  (column_expr(c, log).type = "null") <=> log.data = <<>>
<1>1. CASE c.type = "address" \/ c.type = "bytes"
  BY <1>1, SliceNull DEF column_expr, DataColumn
<1>2. CASE c.type = "uint256"
  <2>1. \A x, y : (Concat(x, y).type = "null") <=> x.type = "null" \/ y.type = "null"
    BY DEF Concat, Null
  <2>2. \A n : zeroblob(n).type = "blob"
    BY DEF zeroblob, Blob
  <2> QED
    BY <1>2, <2>1, <2>2, SliceNull DEF column_expr, DataColumn
<1> QED
  BY <1>1, <1>2, DataShape

LEMMA BytesFit ==
    ASSUME NEW c, DataColumn(c), NEW log \in Logs, Has(log, c.source),
           \/ c.type = "bytes"
           \/ c.type = "uint256" /\ Length(c) = WordSize
    PROVE  column_expr(c, log).bytes = Promised(c, log)
<1> DEFINE src == Source(log, c.source)
<1>1. column_expr(c, log) = substr(Blob(log.data), c.source.start + 1, Length(c))
  BY DEF column_expr, DataColumn, Length
<1>2. /\ c.source.start + 1 \in Nat \ {0}
      /\ c.source.start + 1 + Length(c) - 1 <= Len(log.data)
  BY DataSource, DataShape DEF DataColumn
<1>3. column_expr(c, log) = Blob(src)
  BY <1>1, <1>2, DataSource, DataShape, Slice
<1>4. CASE c.type = "bytes"
  BY <1>3, <1>4 DEF Promised, Blob
<1>5. CASE c.type = "uint256" /\ Length(c) = WordSize
  <2>1. src \in [1 .. WordSize -> Byte] /\ Len(src) = WordSize
    BY <1>5, DataSource, LenProperties DEF Bytes
  <2>2. Promised(c, log) = [i \in 1 .. WordSize |-> src[i]]
    BY <1>5, <2>1, WordAssumption DEF Promised
  <2>3. Promised(c, log) = src
    BY <2>1, <2>2
  <2> QED
    BY <1>3, <2>3 DEF Blob
<1> QED
  BY <1>4, <1>5

LEMMA NumberFits ==
    ASSUME NEW c, DataColumn(c), NEW log \in Logs, Has(log, c.source),
           c.type = "uint256", Length(c) < WordSize
    PROVE  column_expr(c, log).bytes = Promised(c, log)
<1> DEFINE src == Source(log, c.source)
           n == Length(c)
           pad == [i \in 1 .. WordSize - n |-> 0]
<1>1. n \in Nat \ {0} /\ WordSize \in Nat /\ n < WordSize
  BY DataShape, WordAssumption
<1>2. src \in Seq(Byte) /\ Len(src) = n
  BY DataSource DEF Bytes
<1>3. substr(Blob(log.data), c.source.start + 1, n) = Blob(src)
  <2>1. /\ c.source.start + 1 \in Nat \ {0}
        /\ c.source.start + 1 + n - 1 <= Len(log.data)
    BY DataSource, DataShape DEF DataColumn
  <2> QED
    BY <1>1, <2>1, DataSource, Slice
<1>4. column_expr(c, log) = Concat(zeroblob(WordSize - Len(src)), Blob(src))
  BY <1>1, <1>3 DEF column_expr, DataColumn, Length, Blob
<1>5. column_expr(c, log).bytes = pad \o src
  <2>1. zeroblob(WordSize - Len(src)) = Blob(pad)
    BY <1>2 DEF zeroblob
  <2>2. \A a, b : Concat(Blob(a), Blob(b)).bytes = a \o b
    BY DEF Concat, Blob
  <2> QED
    BY <1>4, <2>1, <2>2
<1>6. pad \in [1 .. WordSize - n -> Byte] /\ WordSize - n \in Nat
  BY <1>1 DEF Byte
<1>7. pad \in Seq(Byte) /\ Len(pad) = WordSize - n
  BY <1>6
<1>8. /\ pad \o src \in Seq(Byte)
      /\ Len(pad \o src) = WordSize
      /\ \A i \in 1 .. WordSize :
            (pad \o src)[i] = IF i <= WordSize - n THEN pad[i] ELSE src[i - (WordSize - n)]
  <2>1. Len(pad) + Len(src) = WordSize
    BY <1>1, <1>2, <1>7
  <2> HIDE DEF pad, src, n
  <2>2. /\ pad \o src \in Seq(Byte)
        /\ Len(pad \o src) = Len(pad) + Len(src)
        /\ \A i \in 1 .. Len(pad) + Len(src) :
            (pad \o src)[i] = IF i <= Len(pad) THEN pad[i] ELSE src[i - Len(pad)]
    BY <1>2, <1>7, ConcatProperties
  <2> QED
    BY <1>7, <2>1, <2>2
<1>9. \A i \in 1 .. WordSize : i <= WordSize - n => pad[i] = 0
  BY <1>1
<1>10. Promised(c, log) =
        [i \in 1 .. WordSize |-> IF i <= WordSize - n THEN 0 ELSE src[i - (WordSize - n)]]
  BY <1>2 DEF Promised
<1>11. pad \o src \in [1 .. WordSize -> Byte]
  BY <1>8, LenProperties
<1>12. pad \o src = Promised(c, log)
  <2> HIDE DEF pad, n, src
  <2> QED
    BY <1>8, <1>9, <1>10, <1>11
<1> QED
  BY <1>5, <1>12

LEMMA AddressFits ==
    ASSUME NEW c, DataColumn(c), NEW log \in Logs, Has(log, c.source),
           c.type = "address"
    PROVE  column_expr(c, log).bytes = Promised(c, log)
<1> DEFINE src == Source(log, c.source)
           s == c.source.start
           n == Length(c)
           y == s + n - AddressSize + 1
<1>1. /\ n \in {AddressSize, WordSize} /\ s \in Nat
      /\ AddressSize \in Nat \ {0} /\ WordSize \in Nat /\ AddressSize <= n
  BY DataShape, WordAssumption DEF DataColumn
<1>2. column_expr(c, log) = substr(Blob(log.data), y, AddressSize)
  <2>1. (IF n = WordSize THEN s + (WordSize - AddressSize) + 1 ELSE s + 1) = y
    BY <1>1
  <2> QED
    BY <2>1 DEF column_expr, DataColumn, Length
<1>3. /\ y \in Nat \ {0} /\ y + AddressSize - 1 <= Len(log.data)
      /\ log.data \in Bytes
  BY <1>1, DataSource
<1>4. column_expr(c, log) = Blob(Pick(log.data, y, AddressSize))
  BY <1>1, <1>2, <1>3, Slice
<1>5. Promised(c, log) = [i \in 1 .. AddressSize |-> src[n - AddressSize + i]]
  BY DataSource DEF Promised
<1>6. \A i \in 1 .. AddressSize : src[n - AddressSize + i] = log.data[y + i - 1]
  <2>1. src = [i \in 1 .. n |-> log.data[s + 1 + i - 1]]
    BY DataSource DEF Pick
  <2>2. ASSUME NEW i \in 1 .. AddressSize
        PROVE  /\ n - AddressSize + i \in 1 .. n
               /\ s + 1 + (n - AddressSize + i) - 1 = y + i - 1
    BY <1>1
  <2> HIDE DEF src
  <2> QED
    BY <2>1, <2>2
<1>7. Promised(c, log) = Pick(log.data, y, AddressSize)
  BY <1>5, <1>6 DEF Pick
<1> QED
  BY <1>4, <1>7 DEF Blob

LEMMA DataFits ==
    ASSUME NEW c, DataColumn(c), NEW log \in Logs PROVE Fits(c, log)
<1>1. ASSUME Has(log, c.source)
      PROVE  column_expr(c, log).bytes = Promised(c, log)
  <2>1. c.type = "uint256" => Length(c) = WordSize \/ Length(c) < WordSize
    BY DataShape, WordAssumption
  <2>2. CASE c.type = "address"
    BY <1>1, <2>2, AddressFits
  <2>3. CASE c.type = "bytes"
    BY <1>1, <2>3, BytesFit
  <2>4. CASE c.type = "uint256"
    BY <1>1, <2>1, <2>4, BytesFit, NumberFits
  <2> QED
    BY <2>2, <2>3, <2>4, DataShape
<1>2. (column_expr(c, log).type = "null") <=> log.data = <<>>
  BY DataNull
<1> QED
  BY <1>1, <1>2 DEF Fits, DataColumn

-----------------------------------------------------------------------------
\* A row is made from one log, by the columns of a table that was accepted.
TableInv ==
    /\ table # NoTable => table \in Configs /\ TableAccepted(table)
    /\ row # NoRow =>
        /\ table # NoTable
        /\ \E log \in Logs :
            row = [i \in DOMAIN table.columns |->
                    [log |-> log, value |-> column_expr(table.columns[i], log)]]

LEMMA TableStepInv == TableInv /\ [TableStep]_columnVars => TableInv'
<1> SUFFICES ASSUME TableInv, [TableStep]_columnVars PROVE TableInv'
  OBVIOUS
<1>1. CASE Load
  BY <1>1 DEF Load, TableInv
<1>2. CASE Populate
  BY <1>2 DEF Populate, TableInv
<1>3. CASE UNCHANGED columnVars
  BY <1>3 DEF columnVars, TableInv
<1> QED
  BY <1>1, <1>2, <1>3 DEF TableStep

LEMMA RowsFit == ASSUME TableInv PROVE ColumnFits
<1> SUFFICES ASSUME row # NoRow PROVE ColumnFits
  BY DEF ColumnFits, NoRow
<1>1. PICK log \in Logs :
        row = [i \in DOMAIN table.columns |->
                [log |-> log, value |-> column_expr(table.columns[i], log)]]
  BY DEF TableInv
<1>2. table \in Configs /\ TableAccepted(table)
  BY DEF TableInv
<1>3. ASSUME NEW i \in DOMAIN table.columns PROVE Fits(table.columns[i], log)
  <2> DEFINE c == table.columns[i]
  <2>1. ColumnAccepted(c)
    BY <1>2 DEF TableAccepted
  <2>2. CASE c.source.kind = "topic"
    BY <2>1, <2>2, TopicFits
  <2>3. CASE c.source.kind # "topic"
    <3>1. DataColumn(c)
      BY <1>2, <2>1, <2>3, ConfigsAssumption
      DEF DataColumn, ColumnAccepted, KnownSource
    <3> QED
      BY <3>1, DataFits
  <2> QED
    BY <2>2, <2>3
<1> QED
  BY <1>1, <1>3 DEF ColumnFits, Fits

-----------------------------------------------------------------------------
(***************************************************************************)
(* The chunks of an index run: the two loops make of any set of missing    *)
(* blocks the chunks that the other modules take runs to have.             *)
(***************************************************************************)

\* A gap has a first block.
LEMMA RunStartIs ==
    ASSUME NEW M \in SUBSET Nat, NEW b \in M
    PROVE  /\ RunStart(M, b) \in M /\ RunStart(M, b) <= b
           /\ (RunStart(M, b) .. b) \subseteq M
           /\ \A c \in M : (c .. b) \subseteq M => RunStart(M, b) <= c
<1> DEFINE S == {a \in M : (a .. b) \subseteq M}
<1>1. S \in SUBSET Nat /\ b \in S
  BY (b .. b) = {b}
<1>2. PICK a \in S : \A c \in S : ~(<<c, a>> \in OpToRel(<, Nat))
  BY <1>1, NatLessThanWellFounded, WFMin
<1>3. ASSUME NEW c \in S PROVE a <= c
  <2>1. c \in Nat /\ a \in Nat
    BY <1>1
  <2>2. ~(c < a)
    BY <1>2, <2>1 DEF OpToRel
  <2> QED
    BY <2>1, <2>2
<1>4. \E x \in M : (x .. b) \subseteq M /\ \A c \in M : (c .. b) \subseteq M => x <= c
  BY <1>2, <1>3
<1>5. /\ RunStart(M, b) \in M
      /\ (RunStart(M, b) .. b) \subseteq M
      /\ \A c \in M : (c .. b) \subseteq M => RunStart(M, b) <= c
  BY <1>4 DEF RunStart
<1> QED
  BY <1>1, <1>5

\* A gap, by its first and its last block.
IsGap(M, r) ==
    /\ r[1] \in Nat /\ r[2] \in Nat /\ r[1] <= r[2]
    /\ (r[1] .. r[2]) \subseteq M
    /\ r[1] - 1 \notin M
    /\ r[2] + 1 \notin M

\* The blocks of a gap are those whose gap begins where it does.
LEMMA GapIsRun ==
    ASSUME NEW M \in SUBSET Nat, NEW r, IsGap(M, r), NEW c \in M
    PROVE  RunStart(M, c) = r[1] <=> c \in r[1] .. r[2]
<1> DEFINE a == RunStart(M, c)
<1>1. /\ a \in M /\ a <= c /\ (a .. c) \subseteq M
      /\ \A d \in M : (d .. c) \subseteq M => a <= d
  BY RunStartIs
<1>2. a \in Nat /\ c \in Nat /\ r[1] \in Nat /\ r[2] \in Nat /\ r[1] <= r[2]
  BY <1>1 DEF IsGap
<1> HIDE DEF a
<1>3. ASSUME c \in r[1] .. r[2] PROVE a = r[1]
  <2>1. (r[1] .. c) \subseteq M /\ r[1] \in M
    BY <1>2, <1>3 DEF IsGap
  <2>2. a <= r[1]
    BY <1>1, <2>1
  <2>3. ~(a < r[1])
    <3>1. a < r[1] => r[1] - 1 \in a .. c
      BY <1>2, <1>3
    <3> QED
      BY <1>1, <3>1 DEF IsGap
  <2> QED
    BY <1>2, <2>2, <2>3
<1>4. ASSUME a = r[1] PROVE c \in r[1] .. r[2]
  <2>1. ~(r[2] < c)
    <3>1. r[2] < c => r[2] + 1 \in a .. c
      BY <1>2, <1>4
    <3> QED
      BY <1>1, <3>1 DEF IsGap
  <2> QED
    BY <1>1, <1>2, <1>4, <2>1
<1> QED
  BY <1>3, <1>4 DEF a

\* The k-th batch of m blocks has a first block, and every block has a batch.
LEMMA DivFacts ==
    ASSUME NEW m \in Nat, NEW n \in Nat \ {0}
    PROVE  /\ m \div n \in Nat
           /\ (m \div n) * n <= m
           /\ m < (m \div n) * n + n
OBVIOUS

LEMMA DivOfMultiple ==
    ASSUME NEW k \in Nat, NEW n \in Nat \ {0}
    PROVE  (k * n) \div n = k /\ k * n \in Nat
OBVIOUS

LEMMA CeilDivCounts ==
    ASSUME NEW m \in Nat \ {0}, NEW n \in Nat \ {0}
    PROVE  /\ CeilDiv(m, n) \in Nat
           /\ \A k \in 1 .. CeilDiv(m, n) : (k - 1) * n < m
           /\ \A x \in 0 .. m - 1 : x \div n + 1 \in 1 .. CeilDiv(m, n)
<1> DEFINE q == (m + n - 1) \div n
<1>1. q \in Nat /\ q * n <= m + n - 1 /\ m + n - 1 < q * n + n
  BY m + n - 1 \in Nat, DivFacts
<1> HIDE DEF q
<1>2. ASSUME NEW k \in 1 .. q PROVE (k - 1) * n < m
  <2>1. k * n <= q * n
    BY <1>1
  <2>2. (k - 1) * n = k * n - n
    OBVIOUS
  <2>3. k * n \in Nat /\ q * n \in Nat
    BY <1>1
  <2> QED
    BY <1>1, <2>1, <2>2, <2>3
<1>3. ASSUME NEW x \in 0 .. m - 1 PROVE x \div n + 1 \in 1 .. q
  <2>1. x \div n \in Nat /\ (x \div n) * n <= x
    BY DivFacts
  <2> DEFINE p == x \div n
  <2>2. p \in Nat /\ p * n <= x
    BY <2>1
  <2> HIDE DEF p
  <2>3. p * n + n < q * n + n
    <3>1. p * n \in Nat /\ q * n \in Nat
      BY <1>1, <2>2
    <3> QED
      BY <1>1, <2>2, <3>1
  <2>4. p < q
    <3>1. q <= p => q * n <= p * n
      BY <1>1, <2>2
    <3>2. p * n \in Nat /\ q * n \in Nat
      BY <1>1, <2>2
    <3> QED
      BY <1>1, <2>2, <2>3, <3>1, <3>2
  <2>5. p + 1 \in 1 .. q
    BY <1>1, <2>2, <2>4
  <2> QED
    BY <2>5 DEF p
<1> QED
  BY <1>1, <1>2, <1>3 DEF CeilDiv, q

\* What each step of the second loop appends are the chunks of one gap, from the top.
LEMMA BatchIsChunk ==
    ASSUME missing \in SUBSET Nat, batch \in Nat \ {0}, NEW r, IsGap(missing, r),
           NEW k \in 1 .. CeilDiv(r[2] - r[1] + 1, batch)
    PROVE  Batch(r, k) \in Chunks(missing, batch)
<1> DEFINE m == r[2] - r[1] + 1
           f == (k - 1) * batch
           b == r[1] + f
<1>1. r[1] \in Nat /\ r[2] \in Nat /\ m \in Nat \ {0}
  BY DEF IsGap
<1>2. k - 1 \in Nat /\ f \in Nat /\ f < m /\ f \div batch = k - 1
  <2>1. k \in 1 .. CeilDiv(m, batch)
    OBVIOUS
  <2> HIDE DEF m
  <2>2. \A l \in 1 .. CeilDiv(m, batch) : (l - 1) * batch < m
    BY <1>1, CeilDivCounts
  <2>3. k - 1 \in Nat
    BY <1>1, <2>1, CeilDivCounts
  <2> QED
    BY <2>1, <2>2, <2>3, DivOfMultiple
<1>3. b \in r[1] .. r[2] /\ b - r[1] = f
  BY <1>1, <1>2
<1> HIDE DEF f, b, m
<1>4. b \in missing /\ RunStart(missing, b) = r[1]
  <2>1. b \in missing
    BY <1>3 DEF IsGap
  <2> QED
    BY <1>3, <2>1, GapIsRun
<1>5. (b - RunStart(missing, b)) \div batch = k - 1
  BY <1>2, <1>3, <1>4
<1>6. ASSUME NEW c
      PROVE  c \in Batch(r, k) <=> c \in ChunkOf(missing, batch, b)
  <2>1. c \in r[1] .. r[2] => c \in missing
    BY DEF IsGap
  <2>2. c \in missing => (RunStart(missing, c) = r[1] <=> c \in r[1] .. r[2])
    BY GapIsRun
  <2>3. c \in Batch(r, k) <=> /\ c \in r[1] .. r[2]
                              /\ (c - r[1]) \div batch = k - 1
    BY DEF Batch
  <2>4. c \in ChunkOf(missing, batch, b) <=>
            /\ c \in missing
            /\ RunStart(missing, c) = r[1]
            /\ (c - RunStart(missing, c)) \div batch = k - 1
    BY <1>4, <1>5 DEF ChunkOf
  <2> QED
    BY <2>1, <2>2, <2>3, <2>4
<1>7. Batch(r, k) = ChunkOf(missing, batch, b)
  BY <1>6 DEF Batch, ChunkOf
<1> QED
  BY <1>4, <1>7 DEF Chunks

LEMMA OfBatch ==
    ASSUME batch \in Nat \ {0}, NEW r, NEW k \in Nat, NEW x \in Batch(r, k)
    PROVE  x \in r[1] .. r[2] /\ (x - r[1]) \div batch = k - 1
BY DEF Batch

LEMMA BatchesOfGap ==
    ASSUME missing \in SUBSET Nat, batch \in Nat \ {0}, NEW r, IsGap(missing, r)
    PROVE  LET s == ReversedBatches(r) IN
           /\ s \in Seq(SUBSET Nat)
           /\ \A i \in DOMAIN s : s[i] \in Chunks(missing, batch) /\ s[i] \subseteq r[1] .. r[2]
           /\ \A x \in r[1] .. r[2] : \E i \in DOMAIN s : x \in s[i]
           /\ \A i, j \in DOMAIN s : i < j => \A x \in s[i], y \in s[j] : y < x
<1> DEFINE m == r[2] - r[1] + 1
           n == CeilDiv(m, batch)
           u == [k \in 1 .. n |-> Batch(r, k)]
           s == ReversedBatches(r)
<1>1. r[1] \in Nat /\ r[2] \in Nat /\ m \in Nat \ {0} /\ r[1] <= r[2]
  BY DEF IsGap
<1>2. /\ n \in Nat
      /\ \A x \in 0 .. m - 1 : x \div batch + 1 \in 1 .. n
  BY <1>1, CeilDivCounts
<1>3. ASSUME NEW k \in 1 .. n
      PROVE  Batch(r, k) \in Chunks(missing, batch) /\ Batch(r, k) \subseteq r[1] .. r[2]
  BY BatchIsChunk DEF Batch
<1>4. s = Reverse(u)
  BY DEF ReversedBatches
<1> HIDE DEF n, m
<1>5. u \in Seq(SUBSET Nat) /\ Len(u) = n
  BY <1>1, <1>2, <1>3
<1>6. s = [i \in 1 .. n |-> u[n - i + 1]]
  BY <1>4, <1>5 DEF Reverse
<1> HIDE DEF s
<1>7. ASSUME NEW i \in 1 .. n PROVE n - i + 1 \in 1 .. n /\ s[i] = Batch(r, n - i + 1)
  BY <1>2, <1>6
<1>8. s \in Seq(SUBSET Nat) /\ DOMAIN s = 1 .. n
  <2>1. \A i \in 1 .. n : s[i] \in SUBSET Nat
    BY <1>1, <1>3, <1>7
  <2>2. s \in [1 .. n -> SUBSET Nat]
    BY <1>6, <2>1
  <2> QED
    BY <1>2, <2>2
<1>9. ASSUME NEW x \in r[1] .. r[2] PROVE \E i \in 1 .. n : x \in s[i]
  <2> DEFINE k == (x - r[1]) \div batch + 1
  <2>1. x - r[1] \in 0 .. m - 1
    BY <1>1 DEF m
  <2>2. k \in 1 .. n
    BY <1>2, <2>1
  <2>3. x \in Batch(r, k)
    <3>1. (x - r[1]) \div batch \in Nat
      BY <2>1, DivFacts, <1>1 DEF m
    <3> QED
      BY <3>1 DEF Batch
  <2> HIDE DEF k
  <2>4. n - k + 1 \in 1 .. n /\ n - (n - k + 1) + 1 = k
    BY <1>2, <2>2
  <2> QED
    BY <1>7, <2>3, <2>4
<1>10. ASSUME NEW i \in 1 .. n, NEW j \in 1 .. n, i < j, NEW x \in s[i], NEW y \in s[j]
       PROVE  y < x
  <2> DEFINE k == n - i + 1
             l == n - j + 1
  <2>0. x \in Batch(r, k) /\ y \in Batch(r, l) /\ l < k /\ k \in Nat /\ l \in Nat
    BY <1>2, <1>7, <1>10
  <2> HIDE DEF k, l
  <2>1. /\ x \in r[1] .. r[2] /\ (x - r[1]) \div batch = k - 1
        /\ y \in r[1] .. r[2] /\ (y - r[1]) \div batch = l - 1
    <3>1. /\ x \in r[1] .. r[2] /\ (x - r[1]) \div batch = k - 1
      BY <2>0, OfBatch
    <3>2. /\ y \in r[1] .. r[2] /\ (y - r[1]) \div batch = l - 1
      BY <2>0, OfBatch
    <3> QED
      BY <3>1, <3>2
  <2> DEFINE p == (x - r[1]) \div batch
             q == (y - r[1]) \div batch
  <2>2. /\ p \in Nat /\ p * batch <= x - r[1]
        /\ q \in Nat /\ y - r[1] < q * batch + batch
    <3>1. x - r[1] \in Nat /\ y - r[1] \in Nat
      BY <1>1, <2>1
    <3> QED
      BY <3>1, DivFacts
  <2>3. q < p
    BY <2>0, <2>1
  <2> HIDE DEF p, q
  <2>4. q * batch + batch <= p * batch
    BY <2>2, <2>3
  <2>5. q * batch \in Nat /\ p * batch \in Nat
    BY <2>2
  <2> QED
    BY <1>1, <2>1, <2>2, <2>4, <2>5
<1>11. \A i \in DOMAIN s : s[i] \in Chunks(missing, batch) /\ s[i] \subseteq r[1] .. r[2]
  BY <1>3, <1>7, <1>8
<1> HIDE DEF u
<1> QED
  BY <1>8, <1>9, <1>10, <1>11 DEF s

\* The blocks contiguous_ranges has been through are below those it has not; they are
\* held by the ranges, each a whole gap of them, in order.  Once these are split from
\* the top the chunks listed lie above the ranges left.
Grouped == missing \ left
CutTypes ==
    /\ missing \in SUBSET Nat /\ batch \in Nat \ {0} /\ left \in SUBSET missing
    /\ split \in BOOLEAN
    /\ ranges \in Seq(Nat \X Nat)
    /\ chunks \in Seq(SUBSET Nat)
RangesInv ==
    /\ split => left = {}
    /\ ~split => chunks = <<>>
    /\ \A a \in left, b \in Grouped : b < a
    /\ \A i \in DOMAIN ranges : IsGap(Grouped, ranges[i])
    /\ \A i, j \in DOMAIN ranges : i < j => ranges[i][2] < ranges[j][1]
    /\ \A b \in Grouped :
        \/ \E i \in DOMAIN ranges : b \in ranges[i][1] .. ranges[i][2]
        \/ \E i \in DOMAIN chunks : b \in chunks[i]
ListInv ==
    /\ \A j \in DOMAIN chunks :
        /\ chunks[j] \in Chunks(missing, batch)
        /\ \A i \in DOMAIN ranges : \A x \in chunks[j] : ranges[i][2] < x
    /\ \A i, j \in DOMAIN chunks : i < j => \A x \in chunks[i], y \in chunks[j] : y < x
CutInv == CutTypes /\ RangesInv /\ ListInv

\* A block right above a range belongs to the last one, or to none.
LEMMA NextBlock ==
    ASSUME CutInv, ~split, NEW b \in left, \A a \in left : b <= a
    PROVE  /\ b \in Nat
           /\ \A a \in Grouped : a < b
           /\ \A i \in DOMAIN ranges : ranges[i][2] + 1 = b => i = Len(ranges)
           /\ b - 1 \in Grouped => \E i \in DOMAIN ranges : ranges[i][2] + 1 = b
<1>1. /\ b \in Nat /\ Grouped \in SUBSET Nat
      /\ \A a \in Grouped : a < b
  BY DEF CutInv, CutTypes, RangesInv, Grouped
<1>2. \A i \in DOMAIN ranges : /\ ranges[i][1] \in Nat /\ ranges[i][2] \in Nat
                               /\ ranges[i][1] <= ranges[i][2]
                               /\ ranges[i][2] \in Grouped
  BY DEF CutInv, RangesInv, IsGap
<1>3. /\ Len(ranges) \in Nat /\ DOMAIN ranges = 1 .. Len(ranges)
      /\ \A i, j \in DOMAIN ranges : i < j => ranges[i][2] < ranges[j][1]
  BY DEF CutInv, CutTypes, RangesInv
<1>4. ASSUME NEW i \in DOMAIN ranges, ranges[i][2] + 1 = b PROVE i = Len(ranges)
  <2> DEFINE n == Len(ranges)
  <2>1. i \in 1 .. n /\ n \in DOMAIN ranges /\ n \in Nat
    BY <1>3
  <2>2. /\ ranges[n][1] \in Nat /\ ranges[n][2] \in Nat
        /\ ranges[n][1] <= ranges[n][2] /\ ranges[n][2] < b
        /\ ranges[i][2] \in Nat
    BY <1>1, <1>2, <2>1
  <2>3. i < n => ranges[i][2] < ranges[n][1]
    BY <1>3, <2>1
  <2>4. ~(i < n)
    BY <1>1, <1>4, <2>2, <2>3
  <2> QED
    BY <2>1, <2>4
<1>5. ASSUME b - 1 \in Grouped PROVE \E i \in DOMAIN ranges : ranges[i][2] + 1 = b
  <2>1. chunks = <<>> /\ DOMAIN chunks = {}
    BY DEF CutInv, RangesInv
  <2>2. PICK i \in DOMAIN ranges : b - 1 \in ranges[i][1] .. ranges[i][2]
    BY <1>5, <2>1 DEF CutInv, RangesInv
  <2>3. ranges[i][2] \in Nat /\ ranges[i][2] < b /\ b - 1 <= ranges[i][2]
    BY <1>1, <1>2, <2>2
  <2>4. ranges[i][2] + 1 = b
    BY <1>1, <2>3
  <2> QED
    BY <2>4
<1> QED
  BY <1>1, <1>4, <1>5

LEMMA GroupStep == ASSUME CutInv, Group PROVE CutInv'
<1>1. ~split /\ split' = split /\ missing' = missing /\ batch' = batch /\ chunks' = chunks
  BY DEF Group
<1>2. PICK b \in left :
        /\ \A a \in left : b <= a
        /\ left' = left \ {b}
        /\ ranges' =
             IF ranges # <<>> /\ b = Last(ranges)[2] + 1
             THEN [ranges EXCEPT ![Len(ranges)][2] = b]
             ELSE Append(ranges, <<b, b>>)
  BY DEF Group
<1> DEFINE n == Len(ranges)
           M == Grouped
<1>3. /\ missing \in SUBSET Nat /\ left \in SUBSET missing /\ ranges \in Seq(Nat \X Nat)
      /\ n \in Nat /\ DOMAIN ranges = 1 .. n
      /\ chunks = <<>> /\ DOMAIN chunks = {}
  BY <1>1 DEF CutInv, CutTypes, RangesInv
<1>4. /\ b \in Nat
      /\ \A a \in M : a < b
      /\ \A i \in 1 .. n : ranges[i][2] + 1 = b => i = n
      /\ b - 1 \in M => \E i \in 1 .. n : ranges[i][2] + 1 = b
  BY <1>1, <1>2, <1>3, NextBlock
<1>5. Grouped' = M \cup {b} /\ M \in SUBSET Nat
  BY <1>1, <1>2, <1>3 DEF Grouped
<1>6. \A i \in 1 .. n : IsGap(M, ranges[i])
  BY <1>3 DEF CutInv, RangesInv
<1>7. \A i, j \in 1 .. n : i < j => ranges[i][2] < ranges[j][1]
  BY <1>3 DEF CutInv, RangesInv
<1>8. \A a \in M : \E i \in 1 .. n : a \in ranges[i][1] .. ranges[i][2]
  BY <1>3 DEF CutInv, RangesInv
<1>9. \A a \in left', c \in M \cup {b} : c < a
  <2>1. \A a \in left, c \in M : c < a
    BY DEF CutInv, RangesInv
  <2>2. \A a \in left : a \in Nat
    BY <1>3
  <2>3. ASSUME NEW a \in left' PROVE a \in left /\ b < a
    BY <1>2, <1>4, <2>2
  <2> QED
    BY <2>1, <2>3
<1> HIDE DEF M, n
<1>10. \A i \in 1 .. n : /\ ranges[i][1] \in Nat /\ ranges[i][2] \in Nat
                         /\ ranges[i][1] <= ranges[i][2] /\ ranges[i][2] < b
                         /\ ranges[i] \in Nat \X Nat
  <2>1. \A i \in 1 .. n : ranges[i] \in Nat \X Nat
    BY <1>3
  <2>2. \A i \in 1 .. n : /\ ranges[i][1] \in Nat /\ ranges[i][2] \in Nat
                          /\ ranges[i][1] <= ranges[i][2]
                          /\ (ranges[i][1] .. ranges[i][2]) \subseteq M
    BY <1>6 DEF IsGap
  <2> QED
    BY <1>4, <2>1, <2>2
<1> DEFINE Shape(rs) ==
      /\ rs \in Seq(Nat \X Nat)
      /\ \A i \in DOMAIN rs : IsGap(M \cup {b}, rs[i])
      /\ \A i, j \in DOMAIN rs : i < j => rs[i][2] < rs[j][1]
      /\ \A a \in M \cup {b} : \E i \in DOMAIN rs : a \in rs[i][1] .. rs[i][2]
<1>11. ASSUME NEW i \in 1 .. n, ranges[i][2] + 1 # b PROVE IsGap(M \cup {b}, ranges[i])
  <2>1. ranges[i][1] - 1 # b
    BY <1>4, <1>10
  <2> QED
    BY <1>6, <1>11, <2>1 DEF IsGap
<1>12. ASSUME ranges # <<>>, b = Last(ranges)[2] + 1 PROVE Shape(ranges')
  <2>1. ranges' = [ranges EXCEPT ![n][2] = b]
    BY <1>2, <1>12 DEF n
  <2>2. n \in 1 .. n /\ n # 0 /\ b = ranges[n][2] + 1
    BY <1>3, <1>12 DEF Last, n
  <2> DEFINE rs == [ranges EXCEPT ![n][2] = b]
  <2>3. /\ DOMAIN rs = 1 .. n /\ Len(rs) = n
        /\ rs[n] = <<ranges[n][1], b>>
        /\ \A i \in 1 .. n : i # n => rs[i] = ranges[i]
        /\ rs \in Seq(Nat \X Nat)
    <3>1. ranges[n] \in Nat \X Nat
      BY <1>10, <2>2
    <3>2. [ranges[n] EXCEPT ![2] = b] = <<ranges[n][1], b>>
      BY <3>1
    <3>3. rs = [i \in 1 .. n |-> IF i = n THEN <<ranges[n][1], b>> ELSE ranges[i]]
      BY <1>3, <2>2, <3>2
    <3>4. \A i \in 1 .. n : (IF i = n THEN <<ranges[n][1], b>> ELSE ranges[i]) \in Nat \X Nat
      BY <1>4, <1>10
    <3>5. rs \in [1 .. n -> Nat \X Nat]
      BY <3>3, <3>4
    <3>6. rs \in Seq(Nat \X Nat) /\ Len(rs) = n
      BY <1>3, <3>5
    <3> HIDE DEF rs
    <3> QED
      BY <2>2, <3>3, <3>5, <3>6
  <2> HIDE DEF rs
  <2>4. /\ rs[n][1] = ranges[n][1] /\ rs[n][2] = b
        /\ \A i \in 1 .. n : rs[i][1] = ranges[i][1]
    <3>1. rs[n][1] = ranges[n][1] /\ rs[n][2] = b
      BY <2>3
    <3>2. ASSUME NEW i \in 1 .. n PROVE rs[i][1] = ranges[i][1]
      BY <2>3, <3>1
    <3> QED
      BY <3>1, <3>2
  <2>5. IsGap(M \cup {b}, rs[n])
    <3>1. (rs[n][1] .. rs[n][2]) \subseteq M \cup {b}
      <4>1. \A a \in rs[n][1] .. rs[n][2] : a = b \/ a \in ranges[n][1] .. ranges[n][2]
        BY <1>4, <1>10, <2>2, <2>4
      <4> QED
        BY <1>6, <2>2, <4>1 DEF IsGap
    <3>2. rs[n][1] \in Nat /\ rs[n][2] \in Nat /\ rs[n][1] <= rs[n][2]
      BY <1>4, <1>10, <2>2, <2>4
    <3>3. rs[n][1] - 1 \notin M /\ rs[n][1] - 1 # b
      BY <1>4, <1>6, <1>10, <2>2, <2>4 DEF IsGap
    <3>4. b + 1 \notin M /\ b + 1 # b
      BY <1>4, <1>5
    <3> QED
      BY <2>4, <3>1, <3>2, <3>3, <3>4 DEF IsGap
  <2>6. ASSUME NEW i \in 1 .. n PROVE IsGap(M \cup {b}, rs[i])
    BY <1>4, <1>11, <2>3, <2>5
  <2>7. ASSUME NEW i \in 1 .. n, NEW j \in 1 .. n, i < j PROVE rs[i][2] < rs[j][1]
    <3>1. i # n /\ rs[i] = ranges[i]
      <4>1. n \in Nat
        BY <1>3
      <4>2. i # n
        BY <2>7, <4>1
      <4> QED
        BY <2>3, <4>2
    <3>2. rs[j][1] = ranges[j][1]
      BY <2>4
    <3>3. ranges[i][2] < ranges[j][1]
      BY <1>7, <2>7
    <3> QED
      BY <3>1, <3>2, <3>3
  <2>8. ASSUME NEW a \in M \cup {b} PROVE \E i \in 1 .. n : a \in rs[i][1] .. rs[i][2]
    <3>1. CASE a = b
      BY <1>4, <1>10, <2>2, <2>4, <3>1
    <3>2. CASE a \in M
      <4>1. PICK i \in 1 .. n : a \in ranges[i][1] .. ranges[i][2]
        BY <1>8, <3>2
      <4>2. CASE i # n
        BY <2>3, <4>1, <4>2
      <4>3. CASE i = n
        BY <1>4, <1>10, <2>2, <2>4, <4>1, <4>3
      <4> QED
        BY <4>2, <4>3
    <3> QED
      BY <3>1, <3>2
  <2>9. Shape(rs)
    BY <2>3, <2>6, <2>7, <2>8
  <2> HIDE DEF Shape
  <2> QED
    BY <2>1, <2>9 DEF rs
<1>13. ASSUME ~(ranges # <<>> /\ b = Last(ranges)[2] + 1) PROVE Shape(ranges')
  <2> DEFINE rs == Append(ranges, <<b, b>>)
  <2>1. ranges' = rs
    BY <1>2, <1>13
  <2>2. /\ rs \in Seq(Nat \X Nat) /\ DOMAIN rs = 1 .. n + 1
        /\ \A i \in 1 .. n : rs[i] = ranges[i]
        /\ rs[n + 1] = <<b, b>>
    <3>1. <<b, b>> \in Nat \X Nat /\ Len(ranges) = n
      BY <1>4 DEF n
    <3>2. /\ rs \in Seq(Nat \X Nat) /\ Len(rs) = n + 1
          /\ \A i \in 1 .. n : rs[i] = ranges[i]
          /\ rs[n + 1] = <<b, b>>
      BY <1>3, <3>1, AppendProperties
    <3> HIDE DEF rs
    <3>3. DOMAIN rs = 1 .. Len(rs)
      BY <3>2, LenProperties
    <3> QED
      BY <3>2, <3>3
  <2> HIDE DEF rs
  <2>3. ASSUME NEW i \in 1 .. n PROVE ranges[i][2] + 1 # b
    <3>1. ranges # <<>> /\ Last(ranges) = ranges[n]
      BY <1>3 DEF Last, n
    <3>2. ranges[n][2] + 1 # b
      BY <1>13, <3>1
    <3> QED
      BY <1>4, <3>2
  <2>4. IsGap(M \cup {b}, <<b, b>>)
    <3>1. b - 1 \notin M
      BY <1>4, <2>3
    <3>2. b + 1 \notin M
      BY <1>4, <1>5
    <3>3. (b .. b) = {b}
      BY <1>4
    <3> QED
      BY <1>4, <3>1, <3>2, <3>3 DEF IsGap
  <2>5. ASSUME NEW i \in 1 .. n + 1 PROVE IsGap(M \cup {b}, rs[i])
    <3>1. CASE i \in 1 .. n
      BY <1>11, <2>2, <2>3, <3>1
    <3>2. CASE i = n + 1
      BY <2>2, <2>4, <3>2
    <3> QED
      BY <1>3, <3>1, <3>2
  <2>6. ASSUME NEW i \in 1 .. n + 1, NEW j \in 1 .. n + 1, i < j PROVE rs[i][2] < rs[j][1]
    <3>1. i \in 1 .. n
      BY <1>3, <2>6
    <3>2. CASE j \in 1 .. n
      BY <1>7, <2>2, <2>6, <3>1, <3>2
    <3>3. CASE j = n + 1
      BY <1>10, <2>2, <3>1, <3>3
    <3> QED
      BY <1>3, <3>2, <3>3
  <2>7. ASSUME NEW a \in M \cup {b} PROVE \E i \in 1 .. n + 1 : a \in rs[i][1] .. rs[i][2]
    <3>1. CASE a = b
      <4>1. n + 1 \in 1 .. n + 1 /\ b \in rs[n + 1][1] .. rs[n + 1][2]
        BY <1>3, <1>4, <2>2
      <4> QED
        BY <3>1, <4>1
    <3>2. CASE a \in M
      <4>1. PICK i \in 1 .. n : a \in ranges[i][1] .. ranges[i][2]
        BY <1>8, <3>2
      <4>2. i \in 1 .. n + 1 /\ rs[i] = ranges[i]
        BY <1>3, <2>2
      <4> QED
        BY <4>1, <4>2
    <3> QED
      BY <3>1, <3>2
  <2>8. Shape(rs)
    BY <2>2, <2>5, <2>6, <2>7
  <2> HIDE DEF Shape
  <2> QED
    BY <2>1, <2>8
<1>14. Shape(ranges')
  BY <1>12, <1>13
<1>15. CutTypes'
  BY <1>1, <1>2, <1>3, <1>14 DEF CutInv, CutTypes
<1>16. RangesInv'
  BY <1>1, <1>3, <1>5, <1>9, <1>14 DEF RangesInv
<1>17. ListInv'
  BY <1>1, <1>3 DEF ListInv
<1> QED
  BY <1>15, <1>16, <1>17 DEF CutInv

LEMMA SplitStep == ASSUME CutInv, Split PROVE CutInv'
<1> DEFINE n == Len(ranges)
           r == Last(ranges)
           s == ReversedBatches(r)
           m == Len(chunks)
           l == Len(s)
<1>1. /\ missing' = missing /\ batch' = batch /\ left' = left /\ split' = split
      /\ split /\ ranges # <<>>
      /\ chunks' = chunks \o s
      /\ ranges' = Front(ranges)
  BY DEF Split
<1>2. /\ missing \in SUBSET Nat /\ batch \in Nat \ {0}
      /\ ranges \in Seq(Nat \X Nat) /\ chunks \in Seq(SUBSET Nat)
      /\ left = {} /\ Grouped = missing
  BY <1>1 DEF CutInv, CutTypes, RangesInv, Grouped
<1>3. /\ n \in Nat \ {0} /\ DOMAIN ranges = 1 .. n
      /\ r = ranges[n] /\ m \in Nat /\ DOMAIN chunks = 1 .. m
  BY <1>1, <1>2 DEF Last
<1>4. /\ ranges' \in Seq(Nat \X Nat) /\ DOMAIN (ranges') = 1 .. n - 1
      /\ \A i \in 1 .. n - 1 : ranges'[i] = ranges[i]
  <2>1. ranges' = SubSeq(ranges, 1, n - 1)
    BY <1>1 DEF Front
  <2>2. \A i \in 1 .. n - 1 : ranges[i] \in Nat \X Nat
    BY <1>2, <1>3
  <2>3. /\ SubSeq(ranges, 1, n - 1) \in Seq(Nat \X Nat)
        /\ Len(SubSeq(ranges, 1, n - 1)) = n - 1
        /\ \A i \in 1 .. n - 1 : SubSeq(ranges, 1, n - 1)[i] = ranges[i]
    BY <1>3, <2>2
  <2> QED
    BY <1>3, <2>1, <2>3
<1>5. \A i \in 1 .. n : IsGap(missing, ranges[i])
  BY <1>2, <1>3 DEF CutInv, RangesInv
<1>6. \A i \in 1 .. n - 1 : ranges[i][2] < r[1]
  <2>1. \A i, j \in DOMAIN ranges : i < j => ranges[i][2] < ranges[j][1]
    BY DEF CutInv, RangesInv
  <2> QED
    BY <1>3, <2>1
<1>7. \A b \in missing : \/ \E i \in 1 .. n : b \in ranges[i][1] .. ranges[i][2]
                         \/ \E i \in 1 .. m : b \in chunks[i]
  BY <1>2, <1>3 DEF CutInv, RangesInv
<1>8. \A j \in 1 .. m : /\ chunks[j] \in Chunks(missing, batch)
                        /\ \A i \in 1 .. n : \A x \in chunks[j] : ranges[i][2] < x
  BY <1>3 DEF CutInv, ListInv
<1>9. \A i, j \in 1 .. m : i < j => \A x \in chunks[i], y \in chunks[j] : y < x
  BY <1>3 DEF CutInv, ListInv
<1>10. IsGap(missing, r)
  BY <1>3, <1>5
<1>11. /\ s \in Seq(SUBSET Nat)
       /\ \A i \in DOMAIN s : s[i] \in Chunks(missing, batch) /\ s[i] \subseteq r[1] .. r[2]
       /\ \A x \in r[1] .. r[2] : \E i \in DOMAIN s : x \in s[i]
       /\ \A i, j \in DOMAIN s : i < j => \A x \in s[i], y \in s[j] : y < x
  BY <1>2, <1>10, BatchesOfGap
<1> HIDE DEF s, r, n
<1>12. l \in Nat /\ DOMAIN s = 1 .. l
  BY <1>11
<1> DEFINE cs == chunks \o s
<1>13. /\ cs \in Seq(SUBSET Nat) /\ DOMAIN cs = 1 .. m + l
       /\ \A i \in 1 .. m : cs[i] = chunks[i]
       /\ \A i \in 1 .. l : cs[m + i] = s[i]
  <2>1. /\ cs \in Seq(SUBSET Nat) /\ Len(cs) = m + l
        /\ \A i \in 1 .. m + l : cs[i] = IF i <= m THEN chunks[i] ELSE s[i - m]
    BY <1>2, <1>11, ConcatProperties
  <2>2. ASSUME NEW i \in 1 .. m PROVE cs[i] = chunks[i]
    BY <1>3, <1>12, <2>1, <2>2
  <2>3. ASSUME NEW i \in 1 .. l PROVE cs[m + i] = s[i]
    <3>1. m + i \in 1 .. m + l /\ ~(m + i <= m) /\ m + i - m = i
      BY <1>3, <1>12
    <3> QED
      BY <2>1, <3>1
  <2> HIDE DEF cs, m, l
  <2> QED
    BY <1>3, <1>12, <2>1, <2>2, <2>3
<1> HIDE DEF cs, m, l
<1>14. ASSUME NEW i \in 1 .. m + l
       PROVE  i \in 1 .. m \/ \E k \in 1 .. l : i = m + k
  <2>1. i \in 1 .. m \/ i - m \in 1 .. l
    BY <1>3, <1>12
  <2> QED
    BY <1>3, <1>12, <2>1
<1>15. \A b \in missing : \/ \E i \in 1 .. n - 1 : b \in ranges[i][1] .. ranges[i][2]
                          \/ \E i \in 1 .. m + l : b \in cs[i]
  <2> SUFFICES ASSUME NEW b \in missing
               PROVE  \/ \E i \in 1 .. n - 1 : b \in ranges[i][1] .. ranges[i][2]
                      \/ \E i \in 1 .. m + l : b \in cs[i]
    OBVIOUS
  <2>1. CASE \E i \in 1 .. m : b \in chunks[i]
    BY <1>3, <1>12, <1>13, <2>1
  <2>2. ASSUME NEW i \in 1 .. n, b \in ranges[i][1] .. ranges[i][2]
        PROVE  \/ i \in 1 .. n - 1
               \/ \E k \in 1 .. m + l : b \in cs[k]
    <3>1. CASE i = n
      <4>1. PICK k \in 1 .. l : b \in s[k]
        BY <1>3, <1>11, <1>12, <2>2, <3>1
      <4>2. m + k \in 1 .. m + l /\ cs[m + k] = s[k]
        BY <1>3, <1>12, <1>13
      <4> QED
        BY <4>1, <4>2
    <3>2. CASE i # n
      BY <1>3, <3>2
    <3> QED
      BY <3>1, <3>2
  <2> QED
    BY <1>7, <2>1, <2>2
<1>16. ASSUME NEW k \in 1 .. l, NEW x \in s[k]
       PROVE  /\ x \in Nat /\ r[1] <= x /\ x <= r[2]
              /\ \A i \in 1 .. n - 1 : ranges[i][2] < x
  <2>1. x \in r[1] .. r[2] /\ r[1] \in Nat /\ r[2] \in Nat
    BY <1>10, <1>11, <1>12 DEF IsGap
  <2>2. \A i \in 1 .. n - 1 : ranges[i][2] \in Nat
    BY <1>3, <1>5 DEF IsGap
  <2> QED
    BY <1>6, <2>1, <2>2
<1>17. ASSUME NEW j \in 1 .. m + l
       PROVE  /\ cs[j] \in Chunks(missing, batch)
              /\ \A i \in 1 .. n - 1 : \A x \in cs[j] : ranges[i][2] < x
  <2>1. CASE j \in 1 .. m
    BY <1>3, <1>8, <1>13, <2>1
  <2>2. ASSUME NEW k \in 1 .. l, j = m + k
        PROVE  /\ cs[j] \in Chunks(missing, batch)
               /\ \A i \in 1 .. n - 1 : \A x \in cs[j] : ranges[i][2] < x
    <3>1. cs[j] = s[k]
      BY <1>13, <2>2
    <3> QED
      BY <1>11, <1>12, <1>16, <3>1
  <2> QED
    BY <1>14, <2>1, <2>2
<1>18. ASSUME NEW i \in 1 .. m + l, NEW j \in 1 .. m + l, i < j, NEW x \in cs[i], NEW y \in cs[j]
       PROVE  y < x
  <2>1. CASE i \in 1 .. m /\ j \in 1 .. m
    BY <1>9, <1>13, <1>18, <2>1
  <2>2. CASE i \in 1 .. m /\ j \notin 1 .. m
    <3>1. PICK k \in 1 .. l : j = m + k
      BY <1>14, <2>2
    <3>2. y \in s[k] /\ x \in chunks[i]
      BY <1>13, <2>2, <3>1
    <3>3. r[2] < x
      BY <1>3, <1>8, <2>2, <3>2
    <3>4. y \in Nat /\ y <= r[2] /\ r[2] \in Nat
      BY <1>10, <1>16, <3>2 DEF IsGap
    <3>5. x \in Nat
      BY <1>2, <1>3, <2>2, <3>2
    <3> QED
      BY <3>3, <3>4, <3>5
  <2>3. CASE i \notin 1 .. m
    <3>1. PICK k \in 1 .. l : i = m + k
      BY <1>14, <2>3
    <3>2. j \notin 1 .. m
      BY <1>3, <1>12, <1>18, <3>1
    <3>3. PICK h \in 1 .. l : j = m + h
      BY <1>14, <3>2
    <3>4. k < h
      BY <1>3, <1>12, <1>18, <3>1, <3>3
    <3>5. x \in s[k] /\ y \in s[h]
      BY <1>13, <3>1, <3>3
    <3> QED
      BY <1>11, <1>12, <3>4, <3>5
  <2> QED
    BY <2>1, <2>2, <2>3
<1>19. chunks' = cs
  BY <1>1 DEF cs
<1>20. CutTypes'
  BY <1>1, <1>2, <1>4, <1>13, <1>19 DEF CutInv, CutTypes
<1>21. RangesInv'
  <2>1. Grouped' = missing
    BY <1>1, <1>2 DEF Grouped
  <2>2. \A i \in 1 .. n - 1 : i \in 1 .. n
    BY <1>3
  <2>3. \A i \in DOMAIN (ranges') : IsGap(missing, ranges'[i])
    BY <1>4, <1>5, <2>2
  <2>4. \A i, j \in DOMAIN (ranges') : i < j => ranges'[i][2] < ranges'[j][1]
    <3>1. \A i, j \in 1 .. n : i < j => ranges[i][2] < ranges[j][1]
      BY <1>3 DEF CutInv, RangesInv
    <3> QED
      BY <1>4, <2>2, <3>1
  <2>5. \A b \in missing : \/ \E i \in DOMAIN (ranges') : b \in ranges'[i][1] .. ranges'[i][2]
                           \/ \E i \in DOMAIN (chunks') : b \in chunks'[i]
    BY <1>4, <1>13, <1>15, <1>19
  <2> QED
    BY <1>1, <1>2, <2>1, <2>3, <2>4, <2>5 DEF RangesInv
<1>22. ListInv'
  <2>1. \A j \in DOMAIN (chunks') :
            /\ chunks'[j] \in Chunks(missing, batch)
            /\ \A i \in DOMAIN (ranges') : \A x \in chunks'[j] : ranges'[i][2] < x
    BY <1>4, <1>13, <1>17, <1>19
  <2>2. \A i, j \in DOMAIN (chunks') : i < j =>
            \A x \in chunks'[i], y \in chunks'[j] : y < x
    BY <1>13, <1>18, <1>19
  <2> QED
    BY <1>1, <2>1, <2>2 DEF ListInv
<1> QED
  BY <1>20, <1>21, <1>22 DEF CutInv

LEMMA CutKeeps == CutInv /\ [Cut]_chunkVars => CutInv'
<1> SUFFICES ASSUME CutInv, [Cut]_chunkVars PROVE CutInv'
  OBVIOUS
<1>1. CASE StartSplit
  <2>1. /\ missing' = missing /\ batch' = batch /\ left' = left /\ ranges' = ranges
        /\ chunks' = chunks /\ split' = TRUE /\ left = {}
    BY <1>1 DEF StartSplit
  <2>2. Grouped' = Grouped
    BY <2>1 DEF Grouped
  <2> QED
    BY <2>1, <2>2 DEF CutInv, CutTypes, RangesInv, ListInv
<1>2. CASE UNCHANGED chunkVars
  <2>1. /\ missing' = missing /\ batch' = batch /\ left' = left /\ ranges' = ranges
        /\ chunks' = chunks /\ split' = split
    BY <1>2 DEF chunkVars
  <2>2. Grouped' = Grouped
    BY <2>1 DEF Grouped
  <2> QED
    BY <2>1, <2>2 DEF CutInv, CutTypes, RangesInv, ListInv
<1> QED
  BY <1>1, <1>2, GroupStep, SplitStep DEF Cut

LEMMA CutStarts == ChunkInit => CutInv
<1> SUFFICES ASSUME ChunkInit PROVE CutInv
  OBVIOUS
<1>1. missing \in SUBSET Nat /\ batch \in Nat \ {0} /\ left = missing /\ Grouped = {}
  BY MaxBlockAssumption, BatchesAssumption DEF ChunkInit, Grouped
<1>2. /\ ranges = <<>> /\ chunks = <<>> /\ split = FALSE
      /\ DOMAIN ranges = {} /\ DOMAIN chunks = {}
  BY DEF ChunkInit
<1>3. ranges \in Seq(Nat \X Nat) /\ chunks \in Seq(SUBSET Nat)
  BY <1>2
<1> QED
  BY <1>1, <1>2, <1>3 DEF CutInv, CutTypes, RangesInv, ListInv

\* Two blocks of one chunk have the same chunk.
LEMMA OneChunk ==
    ASSUME NEW M, NEW n, NEW a \in M, NEW b \in ChunkOf(M, n, a)
    PROVE  ChunkOf(M, n, b) = ChunkOf(M, n, a)
BY DEF ChunkOf

LEMMA CutAgrees == CutInv => ChunksAgree
<1> SUFFICES ASSUME CutInv PROVE ChunksAgree
  OBVIOUS
<1>1. ASSUME Finished PROVE ToSet(chunks) = Chunks(missing, batch)
  <2>1. Grouped = missing /\ DOMAIN ranges = {}
    BY <1>1 DEF Finished, CutInv, RangesInv, Grouped
  <2>2. ToSet(chunks) \subseteq Chunks(missing, batch)
    BY DEF ToSet, CutInv, ListInv
  <2>3. ASSUME NEW b \in missing PROVE ChunkOf(missing, batch, b) \in ToSet(chunks)
    <3>1. PICK i \in DOMAIN chunks : b \in chunks[i]
      BY <2>1 DEF CutInv, RangesInv
    <3>2. PICK a \in missing : chunks[i] = ChunkOf(missing, batch, a)
      BY DEF CutInv, ListInv, Chunks
    <3>3. ChunkOf(missing, batch, b) = chunks[i]
      BY <3>1, <3>2, OneChunk
    <3> QED
      BY <3>3 DEF ToSet
  <2> QED
    BY <2>2, <2>3 DEF Chunks
<1> QED
  BY <1>1 DEF ChunksAgree, CutInv, ListInv

-----------------------------------------------------------------------------
(***************************************************************************)
(* The gaps of a batch: the two loops of analyze_coverage find the blocks  *)
(* that no cached file has, however the ranges of the files overlap.       *)
(***************************************************************************)

\* The gaps found lie behind the block the second loop is at, and are whole gaps of
\* what the cache lacks; what it lacks behind that block is in one of them, or in the
\* open one.  The second loop begins when every cached range is marked.
CoverTypes ==
    /\ span \in Nat \X Nat /\ span[1] <= span[2]
    /\ marked \subseteq cached /\ cached \subseteq FileRanges
    /\ covered \in [span[1] .. span[2] -> BOOLEAN]
    /\ at \in span[1] .. span[2] + 2
    /\ gapStart # NoGap => gapStart \in span[1] .. at - 1 /\ at <= span[2] + 1
CoverInv ==
    /\ CoverTypes
    /\ \A b \in span[1] .. span[2] : covered[b] <=> \E r \in marked : b \in r[1] .. r[2]
    /\ at # span[1] => marked = cached
    /\ \A g \in gaps : IsGap(Missing, g) /\ g[2] < at
    /\ \A b \in Missing : b < at =>
            \/ \E g \in gaps : b \in g[1] .. g[2]
            \/ gapStart # NoGap /\ gapStart <= b
    /\ gapStart # NoGap =>
            /\ (gapStart .. at - 1) \subseteq Missing
            /\ gapStart - 1 \notin Missing

LEMMA CoverStarts == Idle => CoverInv
<1> SUFFICES ASSUME Idle PROVE CoverInv
  OBVIOUS
<1>1. /\ span = <<0, 0>> /\ span[1] = 0 /\ span[2] = 0 /\ cached = {} /\ marked = {}
      /\ at = 2 /\ gapStart = NoGap /\ gaps = {<<0, 0>>}
      /\ covered = [b \in 0 .. 0 |-> FALSE]
  BY DEF Idle, Uncovered
<1>2. Missing = {0} /\ (0 .. 0) = {0}
  BY <1>1 DEF Missing
<1>3. IsGap({0}, <<0, 0>>)
  BY <1>2 DEF IsGap
<1>4. CoverTypes
  BY <1>1 DEF CoverTypes
<1> QED
  BY <1>1, <1>2, <1>3, <1>4 DEF CoverInv

LEMMA CoverBegins ==
    ASSUME NEW lo \in Nat, NEW hi \in Nat, lo <= hi, Begin(<<lo, hi>>)
    PROVE  CoverInv'
<1>1. /\ span' = <<lo, hi>> /\ span'[1] = lo /\ span'[2] = hi
      /\ cached' \in Caches /\ marked' = {}
      /\ covered' = [b \in lo .. hi |-> FALSE]
      /\ at' = lo /\ gapStart' = NoGap /\ gaps' = {}
  BY DEF Begin, Uncovered
<1>2. cached' \subseteq FileRanges
  BY <1>1 DEF Caches
<1>3. CoverTypes'
  BY <1>1, <1>2 DEF CoverTypes
<1>4. \A b \in Missing' : b \in lo .. hi
  BY <1>1 DEF Missing
<1> QED
  BY <1>1, <1>3, <1>4 DEF CoverInv

LEMMA MarkStep == ASSUME CoverInv, Mark PROVE CoverInv'
<1>1. PICK r \in cached \ marked :
        /\ marked' = marked \cup {r}
        /\ IF r[2] < span[1] \/ r[1] > span[2]
            THEN UNCHANGED covered
            ELSE covered' = [b \in DOMAIN covered |->
                    \/ covered[b]
                    \/ b \in CoverStart(r) .. CoverEnd(r)]
  BY DEF Mark
<1>2. /\ span' = span /\ cached' = cached /\ at' = at /\ gapStart' = gapStart /\ gaps' = gaps
      /\ Missing' = Missing
  BY DEF Mark, Missing
<1>3. /\ span[1] \in Nat /\ span[2] \in Nat /\ DOMAIN covered = span[1] .. span[2]
      /\ covered \in [span[1] .. span[2] -> BOOLEAN]
      /\ r[1] \in Nat /\ r[2] \in Nat
  BY FileRangesAssumption DEF CoverInv, CoverTypes
<1>4. ASSUME NEW b \in span[1] .. span[2]
      PROVE  /\ covered'[b] \in BOOLEAN
             /\ covered'[b] <=> (covered[b] \/ b \in r[1] .. r[2])
  <2>1. CASE r[2] < span[1] \/ r[1] > span[2]
    BY <1>1, <1>3, <2>1
  <2>2. CASE ~(r[2] < span[1] \/ r[1] > span[2])
    <3>1. covered'[b] = (covered[b] \/ b \in CoverStart(r) .. CoverEnd(r))
      BY <1>1, <1>3, <2>2
    <3>2. b \in CoverStart(r) .. CoverEnd(r) <=> b \in r[1] .. r[2]
      BY <1>3 DEF CoverStart, CoverEnd, MaxOf, MinOf
    <3> QED
      BY <3>1, <3>2, <1>3
  <2> QED
    BY <2>1, <2>2
<1>5. covered' \in [span[1] .. span[2] -> BOOLEAN]
  <2>1. DOMAIN covered' = span[1] .. span[2] /\ covered' = [b \in DOMAIN covered' |-> covered'[b]]
    BY <1>1, <1>3
  <2> QED
    BY <1>4, <2>1
<1>6. CoverTypes'
  BY <1>1, <1>2, <1>5 DEF CoverInv, CoverTypes
<1>7. \A b \in span[1] .. span[2] : covered'[b] <=> \E q \in marked' : b \in q[1] .. q[2]
  <2>1. \A b \in span[1] .. span[2] : covered[b] <=> \E q \in marked : b \in q[1] .. q[2]
    BY DEF CoverInv
  <2> QED
    BY <1>1, <1>4, <2>1
<1>8. at = span[1]
  BY <1>1 DEF CoverInv
<1> QED
  BY <1>2, <1>6, <1>7, <1>8 DEF CoverInv

\* With every range marked, the block the loop is at is missing iff it is not covered.
LEMMA AtBlock ==
    ASSUME CoverInv, marked = cached, at <= span[2]
    PROVE  /\ at \in span[1] .. span[2] /\ at \in Nat
           /\ covered[at] \in BOOLEAN
           /\ at \in Missing <=> ~covered[at]
<1>1. at \in span[1] .. span[2] /\ at \in Nat /\ covered[at] \in BOOLEAN
  BY DEF CoverInv, CoverTypes
<1>2. covered[at] <=> \E r \in cached : at \in r[1] .. r[2]
  BY <1>1 DEF CoverInv
<1> QED
  BY <1>1, <1>2 DEF Missing

LEMMA MissingIs ==
    ASSUME CoverInv
    PROVE  /\ span[1] \in Nat /\ span[2] \in Nat /\ span[1] <= span[2]
           /\ at \in Nat /\ span[1] <= at
           /\ Missing \in SUBSET (span[1] .. span[2]) /\ Missing \in SUBSET Nat
BY DEF CoverInv, CoverTypes, Missing

\* An open gap that ends before the block the loop is at is a whole gap.
LEMMA GapCloses ==
    ASSUME CoverInv, gapStart # NoGap, at \notin Missing
    PROVE  IsGap(Missing, <<gapStart, at - 1>>)
<1>1. /\ gapStart \in Nat /\ at \in Nat /\ gapStart <= at - 1 /\ at - 1 \in Nat
      /\ at - 1 + 1 = at
  BY DEF CoverInv, CoverTypes
<1>2. (gapStart .. at - 1) \subseteq Missing /\ gapStart - 1 \notin Missing
  BY DEF CoverInv
<1> QED
  BY <1>1, <1>2 DEF IsGap

\* Right behind a block that begins a gap nothing is missing.
LEMMA GapOpens ==
    ASSUME CoverInv, gapStart = NoGap, at \in Missing
    PROVE  at - 1 \notin Missing
<1> SUFFICES ASSUME at - 1 \in Missing PROVE FALSE
  OBVIOUS
<1>1. at \in Nat
  BY MissingIs
<1>2. PICK g \in gaps : at - 1 \in g[1] .. g[2]
  <2>1. at - 1 < at
    BY <1>1
  <2> QED
    BY <2>1 DEF CoverInv
<1>3. g[2] \in Nat /\ g[2] < at /\ at - 1 <= g[2] /\ g[2] + 1 \notin Missing
  BY <1>2 DEF CoverInv, IsGap
<1>4. g[2] + 1 = at
  BY <1>1, <1>3
<1> QED
  BY <1>3, <1>4

LEMMA WalkStep == ASSUME CoverInv, Walk PROVE CoverInv'
<1>1. /\ marked = cached /\ at <= span[2] /\ at' = at + 1
      /\ span' = span /\ cached' = cached /\ marked' = marked /\ covered' = covered
      /\ Missing' = Missing
  BY DEF Walk, Missing
<1>2. /\ at \in span[1] .. span[2] /\ at \in Nat
      /\ at \in Missing <=> ~covered[at]
  BY <1>1, AtBlock
<1>3. /\ span[1] \in Nat /\ span[2] \in Nat /\ span[1] <= span[2]
      /\ Missing \in SUBSET Nat
  BY MissingIs
<1>4. ASSUME NEW g \in gaps
      PROVE  IsGap(Missing, g) /\ g[2] \in Nat /\ g[2] < at + 1
  BY <1>2 DEF CoverInv, IsGap
<1>5. ASSUME NEW b \in Missing, b < at + 1, b # at
      PROVE  \/ \E g \in gaps : b \in g[1] .. g[2]
             \/ gapStart # NoGap /\ gapStart <= b
  BY <1>2, <1>3, <1>5 DEF CoverInv
<1>6. CASE at \in Missing /\ gapStart = NoGap
  <2>1. gapStart' = at /\ gaps' = gaps
    BY <1>2, <1>6 DEF Walk
  <2>2. at # NoGap /\ at - 1 \notin Missing /\ (at .. at + 1 - 1) = {at}
    BY <1>2, <1>6, GapOpens DEF NoGap
  <2>3. CoverTypes'
    BY <1>1, <1>2, <1>3, <2>1 DEF CoverInv, CoverTypes
  <2>4. \A b \in Missing : b < at + 1 =>
            \/ \E g \in gaps : b \in g[1] .. g[2]
            \/ at <= b
    BY <1>2, <1>5, <1>6
  <2> QED
    BY <1>1, <1>4, <1>6, <2>1, <2>2, <2>3, <2>4 DEF CoverInv
<1>7. CASE at \in Missing /\ gapStart # NoGap
  <2>1. gapStart' = gapStart /\ gaps' = gaps
    BY <1>2, <1>7 DEF Walk
  <2>2. /\ gapStart \in span[1] .. at - 1 /\ gapStart - 1 \notin Missing
        /\ (gapStart .. at - 1) \subseteq Missing
    BY <1>7 DEF CoverInv, CoverTypes
  <2>3. (gapStart .. at + 1 - 1) \subseteq Missing
    <3>1. \A b \in gapStart .. at + 1 - 1 : b = at \/ b \in gapStart .. at - 1
      BY <1>2, <1>3, <2>2
    <3> QED
      BY <1>7, <2>2, <3>1
  <2>4. CoverTypes'
    BY <1>1, <1>2, <1>3, <2>1, <2>2 DEF CoverInv, CoverTypes
  <2>5. \A b \in Missing : b < at + 1 =>
            \/ \E g \in gaps : b \in g[1] .. g[2]
            \/ gapStart <= b
    BY <1>2, <1>3, <1>5, <2>2
  <2>6. \A g \in gaps' : IsGap(Missing', g) /\ g[2] < at'
    BY <1>1, <1>4, <2>1
  <2>7. \A b \in Missing' : b < at' =>
            \/ \E g \in gaps' : b \in g[1] .. g[2]
            \/ gapStart' # NoGap /\ gapStart' <= b
    <3>1. gapStart' # NoGap
      BY <1>7, <2>1
    <3>2. \A b \in Missing : b < at' =>
            \/ \E g \in gaps' : b \in g[1] .. g[2]
            \/ gapStart' <= b
      BY <1>1, <2>1, <2>5
    <3> QED
      BY <1>1, <3>1, <3>2
  <2>8. (gapStart' .. at' - 1) \subseteq Missing' /\ gapStart' - 1 \notin Missing'
    <3>1. Missing' = Missing /\ gapStart' = gapStart /\ at' = at + 1
      BY <1>1, <2>1
    <3>2. at' - 1 = at /\ at + 1 - 1 = at
      BY <1>2, <3>1
    <3>3. (gapStart .. at) \subseteq Missing
      BY <2>3, <3>2
    <3>4. (gapStart' .. at' - 1) \subseteq Missing
      BY <3>1, <3>2, <3>3
    <3>5. gapStart' - 1 \notin Missing
      BY <2>2, <3>1
    <3> QED
      BY <3>1, <3>4, <3>5
  <2>9. \A b \in span'[1] .. span'[2] :
            covered'[b] <=> \E r \in marked' : b \in r[1] .. r[2]
    BY <1>1 DEF CoverInv
  <2> QED
    BY <1>1, <2>4, <2>6, <2>7, <2>8, <2>9 DEF CoverInv
<1>8. CASE at \notin Missing
  <2>1. /\ gapStart' = NoGap
        /\ gaps' = IF gapStart = NoGap THEN gaps ELSE gaps \cup {<<gapStart, at - 1>>}
    BY <1>2, <1>8 DEF Walk
  <2>2. CoverTypes'
    BY <1>1, <1>2, <1>3, <2>1 DEF CoverInv, CoverTypes
  <2>3. ASSUME NEW g \in gaps' PROVE IsGap(Missing, g) /\ g[2] < at + 1
    <3>1. CASE g \in gaps
      BY <1>4, <3>1
    <3>2. CASE g \notin gaps
      <4>1. gapStart # NoGap /\ g = <<gapStart, at - 1>>
        BY <2>1, <3>2
      <4> QED
        BY <1>2, <1>8, <4>1, GapCloses
    <3> QED
      BY <3>1, <3>2
  <2>4. ASSUME NEW b \in Missing, b < at + 1
        PROVE  \E g \in gaps' : b \in g[1] .. g[2]
    <3>1. CASE \E g \in gaps : b \in g[1] .. g[2]
      BY <2>1, <3>1
    <3>2. CASE gapStart # NoGap /\ gapStart <= b
      <4>1. <<gapStart, at - 1>> \in gaps' /\ gapStart \in Nat
        BY <1>3, <2>1, <3>2 DEF CoverInv, CoverTypes
      <4>2. b \in gapStart .. at - 1
        BY <1>2, <1>3, <1>8, <2>4, <3>2, <4>1
      <4> QED
        BY <4>1, <4>2
    <3> QED
      BY <1>5, <1>8, <2>4, <3>1, <3>2
  <2> QED
    BY <1>1, <2>1, <2>2, <2>3, <2>4 DEF CoverInv
<1> QED
  BY <1>6, <1>7, <1>8

LEMMA CloseStep == ASSUME CoverInv, Close PROVE CoverInv'
<1>1. /\ marked = cached /\ at = span[2] + 1 /\ at' = at + 1
      /\ gaps' = IF gapStart = NoGap THEN gaps ELSE gaps \cup {<<gapStart, span[2]>>}
      /\ gapStart' = NoGap
      /\ span' = span /\ cached' = cached /\ marked' = marked /\ covered' = covered
      /\ Missing' = Missing
  BY DEF Close, Missing
<1>2. /\ span[1] \in Nat /\ span[2] \in Nat /\ span[1] <= span[2] /\ at \in Nat
      /\ Missing \in SUBSET (span[1] .. span[2]) /\ Missing \in SUBSET Nat
  BY MissingIs
<1>3. at \notin Missing /\ at - 1 = span[2]
  BY <1>1, <1>2
<1>4. CoverTypes'
  BY <1>1, <1>2 DEF CoverInv, CoverTypes
<1>5. ASSUME NEW g \in gaps' PROVE IsGap(Missing, g) /\ g[2] < at + 1
  <2>1. CASE g \in gaps
    BY <1>2, <2>1 DEF CoverInv, IsGap
  <2>2. CASE g \notin gaps
    <3>1. gapStart # NoGap /\ g = <<gapStart, at - 1>>
      BY <1>1, <1>3, <2>2
    <3> QED
      BY <1>2, <1>3, <3>1, GapCloses
  <2> QED
    BY <2>1, <2>2
<1>6. ASSUME NEW b \in Missing PROVE \E g \in gaps' : b \in g[1] .. g[2]
  <2>1. b \in Nat /\ b <= span[2] /\ b < at
    BY <1>1, <1>2
  <2>2. CASE \E g \in gaps : b \in g[1] .. g[2]
    BY <1>1, <2>2
  <2>3. CASE gapStart # NoGap /\ gapStart <= b
    <3>1. <<gapStart, span[2]>> \in gaps' /\ gapStart \in Nat
      BY <1>1, <1>2, <2>3 DEF CoverInv, CoverTypes
    <3>2. b \in gapStart .. span[2]
      BY <1>2, <2>1, <2>3, <3>1
    <3> QED
      BY <3>1, <3>2
  <2> QED
    BY <2>1, <2>2, <2>3 DEF CoverInv
<1>7. at' # span'[1] => marked' = cached'
  BY <1>1
<1> QED
  BY <1>1, <1>4, <1>5, <1>6, <1>7 DEF CoverInv

LEMMA CoverKeeps == CoverInv /\ [Step]_coverageVars => CoverInv'
<1> SUFFICES ASSUME CoverInv, [Step]_coverageVars PROVE CoverInv'
  OBVIOUS
<1>1. CASE UNCHANGED coverageVars
  <2>1. /\ span' = span /\ cached' = cached /\ marked' = marked /\ covered' = covered
        /\ at' = at /\ gapStart' = gapStart /\ gaps' = gaps /\ Missing' = Missing
    BY <1>1 DEF coverageVars, Missing
  <2> QED
    BY <2>1 DEF CoverInv, CoverTypes
<1> QED
  BY <1>1, MarkStep, WalkStep, CloseStep DEF Step

LEMMA CoverAgrees == CoverInv => GapsAgree
<1> SUFFICES ASSUME CoverInv PROVE GapsAgree
  OBVIOUS
<1>1. ASSUME Through PROVE UNION {g[1] .. g[2] : g \in gaps} = Missing
  <2>1. at = span[2] + 2 /\ gapStart = NoGap
    <3>1. at = span[2] + 2 /\ ~(at <= span[2] + 1)
      BY <1>1, MissingIs DEF Through
    <3> QED
      BY <3>1 DEF CoverInv, CoverTypes
  <2>2. \A b \in Missing : b < at
    BY <2>1, MissingIs
  <2>3. \A b \in Missing : \E g \in gaps : b \in g[1] .. g[2]
    BY <2>1, <2>2 DEF CoverInv
  <2>4. \A g \in gaps : (g[1] .. g[2]) \subseteq Missing
    BY DEF CoverInv, IsGap
  <2> QED
    BY <2>3, <2>4
<1> QED
  BY <1>1 DEF GapsAgree, CoverInv, IsGap

-----------------------------------------------------------------------------
(***************************************************************************)
(* The paths, which no step of another disturbs.                           *)
(***************************************************************************)

LEMMA PathParts ==
    ASSUME [PathNext]_<<vars, columnVars, seedVars, answerVars, decodeVars>>
    PROVE  /\ [Next]_vars /\ [TableStep]_columnVars /\ [SeedStep]_seedVars
           /\ [AnswerStep]_answerVars /\ [DecodeStep]_decodeVars
BY DEF PathNext

\* Whatever table the config declares and whatever its events look like, a column
\* of it holds of a log the bytes its type promises: an address without its pad, a
\* number as a whole word, and null exactly of a log that has not got the value.
THEOREM ColumnsAlwaysFit == PathSpec => []ColumnFits
<1>1. PathInit => TableInv
  BY DEF PathInit, TableInit, TableInv
<1>2. TableInv /\ [PathNext]_<<vars, columnVars, seedVars, answerVars, decodeVars>> => TableInv'
  BY PathParts, TableStepInv
<1>3. TableInv => ColumnFits
  BY RowsFit
<1> QED
  BY <1>1, <1>2, <1>3, PTL DEF PathSpec

FetchInv == CutInv /\ CoverInv

LEMMA FetchKeeps == FetchInv /\ [Next]_vars => FetchInv'
<1> SUFFICES ASSUME FetchInv, [Next]_vars PROVE FetchInv'
  OBVIOUS
<1>1. CASE Fetch
  <2>1. PICK i \in DOMAIN chunks : \E lo, hi \in chunks[i] :
          /\ \A b \in chunks[i] : lo <= b /\ b <= hi
          /\ Begin(<<lo, hi>>)
    BY <1>1 DEF Fetch
  <2>2. PICK lo \in chunks[i], hi \in chunks[i] :
          lo <= hi /\ Begin(<<lo, hi>>)
    BY <2>1
  <2>3. lo \in Nat /\ hi \in Nat
    BY <2>2 DEF FetchInv, CutInv, CutTypes
  <2>4. CoverInv'
    BY <2>2, <2>3, CoverBegins
  <2>5. UNCHANGED chunkVars
    BY <1>1 DEF Fetch
  <2> QED
    BY <2>4, <2>5, CutKeeps DEF FetchInv
<1>2. CASE Cut /\ UNCHANGED <<coverageVars, taken>>
  <2>1. [Cut]_chunkVars /\ [Step]_coverageVars
    BY <1>2
  <2> QED
    BY <2>1, CutKeeps, CoverKeeps DEF FetchInv
<1>3. CASE Step /\ UNCHANGED <<chunkVars, taken>>
  <2>1. [Cut]_chunkVars /\ [Step]_coverageVars
    BY <1>3
  <2> QED
    BY <2>1, CutKeeps, CoverKeeps DEF FetchInv
<1>4. CASE UNCHANGED vars
  <2>1. [Cut]_chunkVars /\ [Step]_coverageVars
    BY <1>4 DEF vars
  <2> QED
    BY <2>1, CutKeeps, CoverKeeps DEF FetchInv
<1> QED
  BY <1>1, <1>2, <1>3, <1>4 DEF Next

\* Whatever blocks are missing and whatever the batch size, the loops list exactly the
\* chunks that the models of index runs take them to list, the newest first.
THEOREM ChunksAlwaysAgree == PathSpec => []ChunksAgree
<1>1. PathInit => CutInv
  BY CutStarts DEF PathInit, Init
<1>2. CutInv /\ [PathNext]_<<vars, columnVars, seedVars, answerVars, decodeVars>> => CutInv'
  <2>1. ASSUME [Next]_vars PROVE [Cut]_chunkVars
    BY <2>1 DEF Next, vars, Fetch
  <2> QED
    BY <2>1, PathParts, CutKeeps
<1> QED
  BY <1>1, <1>2, CutAgrees, PTL DEF PathSpec

\* However the ranges of the cached files overlap each other and the batch, the gaps
\* found are exactly the blocks no file has, and no two of them touch.
THEOREM GapsAlwaysAgree == PathSpec => []GapsAgree
<1>1. PathInit => FetchInv
  BY CutStarts, CoverStarts DEF PathInit, Init, FetchInv
<1>2. FetchInv /\ [PathNext]_<<vars, columnVars, seedVars, answerVars, decodeVars>> => FetchInv'
  BY PathParts, FetchKeeps
<1>3. FetchInv => GapsAgree
  BY CoverAgrees DEF FetchInv
<1> QED
  BY <1>1, <1>2, <1>3, PTL DEF PathSpec

-----------------------------------------------------------------------------
(***************************************************************************)
(* The rows of a run: what the database has of a block.                    *)
(***************************************************************************)

\* The rows of a chunk's files that are of its blocks, and what may come of them.
FileRows(c) == {r \in {Parquet[c][j] : j \in DOMAIN Parquet[c]} : InBatch(c, r.block)}
SigsUpTo(n, h) ==
    UNION {IF Editions[e][h] = {} THEN {Unresolved} ELSE Editions[e][h] : e \in 1 .. n}
SigsOf(n, r) == IF Asks(r) THEN SigsUpTo(n, r.calls) ELSE {Unresolved}
Decoded(n, c) == UNION {{from_parquet_row(r, s) : s \in SigsOf(n, r)} : r \in FileRows(c)}
Holds(S, r) == \E e \in S : e.row = r

\* Signatures met on the way are those of some edition.
LookInv ==
    /\ edition \in Nat \ {0} /\ opened \in 1 .. edition
    /\ DOMAIN memo = Hashes
    /\ \A h \in Hashes : memo[h] # NotAsked => memo[h] \in SigsUpTo(edition, h)
    /\ behind \in [Parts -> Nat]
    /\ \A c \in Parts : behind[c] <= Len(Parquet[c]) + 3
    /\ DOMAIN looked = Parts
    /\ \A c \in Parts : looked[c] # NoLook =>
        /\ behind[c] < Len(Parquet[c])
        /\ Asks(RowAt(c))
        /\ looked[c] \in SigsUpTo(edition, RowAt(c).calls)

\* Until a chunk is saved it has parsed every row of its own that is behind it.
ParsedInv ==
    /\ DOMAIN parsed = Parts
    /\ \A c \in Parts : parsed[c] \in Seq(Decoded(edition, c))
    /\ \A c \in Parts : behind[c] <= Len(Parquet[c]) + 2 =>
        \A j \in DOMAIN Parquet[c] :
            j <= behind[c] /\ InBatch(c, Parquet[c][j].block) =>
                \E i \in DOMAIN parsed[c] : parsed[c][i].row = Parquet[c][j]

\* Logs are saved before transactions, and both before the blocks.
StoredInv ==
    /\ stored \subseteq UNION {Decoded(edition, c) : c \in Parts}
    /\ \A d, e \in stored : SameRow(d, e) => d = e
    /\ \A c \in Parts : \A r \in FileRows(c) : Storable(r) =>
        /\ behind[c] > Len(Parquet[c]) /\ r.kind = "log" => Holds(stored, r)
        /\ behind[c] > Len(Parquet[c]) + 1 /\ r.kind = "tx" => Holds(stored, r)
    /\ \A d \in stored : d.row.kind = "block" =>
        \A c \in Parts : \A r \in FileRows(c) :
            r.block = d.row.block /\ Storable(r) => Holds(stored, r)
DecodeInv == LookInv /\ ParsedInv /\ StoredInv

LEMMA Rows ==
    ASSUME NEW c \in Parts
    PROVE  /\ Len(Parquet[c]) \in Nat
           /\ DOMAIN Parquet[c] = 1 .. Len(Parquet[c])
           /\ \A r \in FileRows(c) : /\ r.kind \in {"tx", "log", "block"}
                                     /\ r.block \in ChunkRange[c]
<1>1. Parquet[c] \in Seq({Parquet[c][i] : i \in DOMAIN Parquet[c]})
  BY ParquetAssumption
<1>2. ASSUME NEW r \in FileRows(c)
      PROVE  r.kind \in {"tx", "log", "block"} /\ r.block \in ChunkRange[c]
  BY ParquetAssumption DEF FileRows, InBatch
<1> QED
  BY <1>1, <1>2

LEMMA OneKey ==
    ASSUME NEW c \in Parts, NEW d \in Parts, NEW r \in FileRows(c), NEW q \in FileRows(d),
           r.kind = q.kind, r.key = q.key
    PROVE  r = q
BY ParquetAssumption DEF FileRows

LEMMA OneOwner ==
    ASSUME NEW c \in Parts, NEW d \in Parts, NEW r \in FileRows(c), NEW q \in FileRows(d),
           r.block = q.block
    PROVE  c = d
BY ChunkRangeAssumption DEF FileRows, InBatch

\* What is decoded keeps the row and has one of its signatures.
LEMMA DecodedIs ==
    ASSUME NEW c \in Parts, NEW n, NEW d \in Decoded(n, c)
    PROVE  /\ d.row \in FileRows(c)
           /\ \E s \in SigsOf(n, d.row) : d = from_parquet_row(d.row, s)
<1>1. PICK r \in FileRows(c) : \E s \in SigsOf(n, r) : d = from_parquet_row(r, s)
  BY DEF Decoded
<1>2. d.row = r
  BY <1>1 DEF from_parquet_row
<1> QED
  BY <1>1, <1>2

LEMMA DecodedFits ==
    ASSUME NEW c \in Parts, NEW n, NEW d \in Decoded(n, c)
    PROVE  /\ d.row.block \in ChunkRange[c]
           /\ Asks(d.row) => \E s \in SigsUpTo(n, d.row.calls) :
                d.signature = IF d.row.kind = "tx" /\ s = Unresolved THEN "?" ELSE s
           /\ d.erc20_amount <=> /\ d.row.kind = "log" /\ d.signature = TransferEvent
                                 /\ d.row.words >= 1
<1>1. PICK s \in SigsOf(n, d.row) : d = from_parquet_row(d.row, s)
  BY DecodedIs
<1>2. d.row \in FileRows(c) /\ d.row.block \in ChunkRange[c]
  BY DecodedIs, Rows
<1>3. /\ d.signature = (IF d.row.kind = "tx" THEN TxSignature(d.row, s) ELSE s)
      /\ d.erc20_amount = (d.row.kind = "log" /\ s = TransferEvent /\ d.row.words >= 1)
  BY <1>1 DEF from_parquet_row
<1>4. ASSUME Asks(d.row)
      PROVE  /\ s \in SigsUpTo(n, d.row.calls)
             /\ d.signature = IF d.row.kind = "tx" /\ s = Unresolved THEN "?" ELSE s
  <2>1. /\ d.row.calls # "create" /\ d.row.calls # "transfer" /\ ~Overwritten(d.row)
        /\ s \in SigsUpTo(n, d.row.calls)
    BY <1>4, HashesAssumption DEF Asks, SigsOf
  <2> QED
    BY <1>3, <2>1 DEF TxSignature
<1>5. d.row.kind = "log" => d.row.kind # "tx"
  OBVIOUS
<1> QED
  BY <1>2, <1>3, <1>4, <1>5

LEMMA DecodeAgrees == LookInv /\ StoredInv => RowsDecoded
<1> SUFFICES ASSUME LookInv, StoredInv PROVE RowsDecoded
  OBVIOUS
<1>1. ASSUME NEW d \in stored
      PROVE  /\ \E c \in Parts : d.row.block \in ChunkRange[c]
             /\ Asks(d.row) => \E s \in SigsUpTo(edition, d.row.calls) :
                    d.signature = IF d.row.kind = "tx" /\ s = Unresolved THEN "?" ELSE s
             /\ d.erc20_amount <=> /\ d.row.kind = "log" /\ d.signature = TransferEvent
                                   /\ d.row.words >= 1
  <2>1. PICK c \in Parts : d \in Decoded(edition, c)
    BY DEF StoredInv
  <2> QED
    BY <2>1, DecodedFits
<1>2. ASSUME NEW d \in stored, d.row.kind = "block", NEW c \in Parts,
             NEW i \in DOMAIN Parquet[c], Parquet[c][i].block = d.row.block,
             Parquet[c][i].block \in ChunkRange[c], Storable(Parquet[c][i])
      PROVE  \E e \in stored : e.row = Parquet[c][i]
  <2>1. Parquet[c][i] \in FileRows(c)
    BY <1>2 DEF FileRows, InBatch
  <2> QED
    BY <1>2, <2>1 DEF StoredInv, Holds
<1>3. \A h : SignaturesOf(h) = SigsUpTo(edition, h)
  BY DEF SignaturesOf, SigsUpTo
<1>4. \A d, e \in stored : SameRow(d, e) => d = e
  BY DEF StoredInv
<1> QED
  BY <1>1, <1>2, <1>3, <1>4 DEF RowsDecoded

\* One more row behind a chunk that has not parsed all of its own.
LEMMA BehindStep ==
    ASSUME LookInv, ParsedInv, StoredInv, NEW c \in Parts, behind[c] < Len(Parquet[c]),
           NEW s \in SigsOf(edition, RowAt(c)), Behind(c, s)
    PROVE  ParsedInv' /\ StoredInv'
<1> DEFINE r == RowAt(c)
           n == Len(Parquet[c])
           d == from_parquet_row(r, s)
<1>1. /\ edition' = edition /\ stored' = stored
      /\ behind' = [behind EXCEPT ![c] = behind[c] + 1]
      /\ parsed' = IF InBatch(c, r.block) THEN [parsed EXCEPT ![c] = Append(parsed[c], d)]
                   ELSE parsed
  BY DEF Behind, RowAt
<1>2. /\ behind \in [Parts -> Nat] /\ n \in Nat /\ behind[c] \in Nat
      /\ behind[c] + 1 \in DOMAIN Parquet[c] /\ r = Parquet[c][behind[c] + 1]
      /\ DOMAIN Parquet[c] = 1 .. n
  BY Rows DEF LookInv, RowAt
<1>3. /\ behind'[c] = behind[c] + 1 /\ behind'[c] <= n
      /\ \A b \in Parts \ {c} : behind'[b] = behind[b]
  BY <1>1, <1>2
<1>4. DOMAIN parsed = Parts /\ \A b \in Parts : parsed[b] \in Seq(Decoded(edition, b))
  BY DEF ParsedInv
<1>5. InBatch(c, r.block) => d \in Decoded(edition, c) /\ d.row = r
  <2>1. ASSUME InBatch(c, r.block) PROVE r \in FileRows(c)
    BY <1>2, <2>1 DEF FileRows
  <2>2. d.row = r
    BY DEF from_parquet_row
  <2> QED
    BY <2>1, <2>2 DEF Decoded
<1>6. \A j \in DOMAIN Parquet[c] : j <= behind[c] /\ InBatch(c, Parquet[c][j].block) =>
        \E i \in DOMAIN parsed[c] : parsed[c][i].row = Parquet[c][j]
  <2>1. behind[c] <= Len(Parquet[c]) + 2
    BY <1>2
  <2> QED
    BY <2>1 DEF ParsedInv
<1> HIDE DEF d, r, n
<1>7. /\ DOMAIN parsed' = Parts
      /\ \A b \in Parts \ {c} : parsed'[b] = parsed[b]
      /\ parsed'[c] = IF InBatch(c, r.block) THEN Append(parsed[c], d) ELSE parsed[c]
  BY <1>1, <1>4
<1>8. /\ parsed'[c] \in Seq(Decoded(edition, c))
      /\ \A j \in DOMAIN Parquet[c] : j <= behind[c] + 1 /\ InBatch(c, Parquet[c][j].block) =>
            \E i \in DOMAIN parsed'[c] : parsed'[c][i].row = Parquet[c][j]
  <2>1. CASE ~InBatch(c, r.block)
    <3>1. \A j \in DOMAIN Parquet[c] : j <= behind[c] + 1 => j <= behind[c] \/ Parquet[c][j] = r
      BY <1>2
    <3> QED
      BY <1>4, <1>6, <1>7, <2>1, <3>1
  <2>2. CASE InBatch(c, r.block)
    <3> DEFINE q == Append(parsed[c], d)
               m == Len(parsed[c])
    <3>1. /\ q \in Seq(Decoded(edition, c)) /\ Len(q) = m + 1 /\ m \in Nat
          /\ \A i \in 1 .. m : q[i] = parsed[c][i]
          /\ q[m + 1] = d
      BY <1>4, <1>5, <2>2, AppendProperties
    <3>2. DOMAIN q = 1 .. m + 1 /\ DOMAIN parsed[c] = 1 .. m
      BY <1>4, <3>1
    <3> HIDE DEF q, m
    <3>3. ASSUME NEW j \in DOMAIN Parquet[c], j <= behind[c] + 1, InBatch(c, Parquet[c][j].block)
          PROVE  \E i \in DOMAIN q : q[i].row = Parquet[c][j]
      <4>1. CASE j = behind[c] + 1
        <5>1. m + 1 \in DOMAIN q /\ q[m + 1].row = Parquet[c][j]
          BY <1>2, <1>5, <2>2, <3>1, <3>2, <4>1
        <5> QED
          BY <5>1
      <4>2. CASE j # behind[c] + 1
        <5>1. PICK i \in DOMAIN parsed[c] : parsed[c][i].row = Parquet[c][j]
          BY <1>2, <1>6, <3>3, <4>2
        <5>2. i \in DOMAIN q /\ q[i] = parsed[c][i]
          BY <3>1, <3>2
        <5> QED
          BY <5>1, <5>2
      <4> QED
        BY <4>1, <4>2
    <3>4. parsed'[c] = q
      BY <1>7, <2>2 DEF q
    <3> QED
      BY <3>1, <3>3, <3>4
  <2> QED
    BY <2>1, <2>2
<1>9. ParsedInv'
  <2>1. \A b \in Parts : parsed'[b] \in Seq(Decoded(edition', b))
    BY <1>1, <1>4, <1>7, <1>8
  <2>2. ASSUME NEW b \in Parts, behind'[b] <= Len(Parquet[b]) + 2, NEW j \in DOMAIN Parquet[b],
               j <= behind'[b], InBatch(b, Parquet[b][j].block)
        PROVE  \E i \in DOMAIN parsed'[b] : parsed'[b][i].row = Parquet[b][j]
    <3>1. CASE b = c
      BY <1>3, <1>8, <2>2, <3>1
    <3>2. CASE b # c
      BY <1>3, <1>7, <2>2, <3>2 DEF ParsedInv
    <3> QED
      BY <3>1, <3>2
  <2> QED
    BY <1>7, <2>1, <2>2 DEF ParsedInv
<1>10. StoredInv'
  <2>1. ASSUME NEW b \in Parts
        PROVE  /\ behind'[b] > Len(Parquet[b]) => behind'[b] = behind[b]
               /\ behind'[b] > Len(Parquet[b]) + 1 => behind'[b] = behind[b]
    BY <1>2, <1>3 DEF n
  <2>2. \A b \in Parts : \A q \in FileRows(b) : Storable(q) =>
            /\ behind'[b] > Len(Parquet[b]) /\ q.kind = "log" => Holds(stored, q)
            /\ behind'[b] > Len(Parquet[b]) + 1 /\ q.kind = "tx" => Holds(stored, q)
    BY <2>1 DEF StoredInv
  <2> QED
    BY <1>1, <2>2 DEF StoredInv
<1> QED
  BY <1>9, <1>10

\* What a look has found, and what is kept of it.
LEMMA ParseSteps ==
    ASSUME DecodeInv, NEW c \in Parts, ParsePlain(c) \/ ParseKnown(c) \/ ParseLooked(c)
    PROVE  DecodeInv'
<1>1. /\ behind \in [Parts -> Nat] /\ DOMAIN looked = Parts /\ DOMAIN memo = Hashes
      /\ edition \in Nat \ {0}
      /\ behind[c] \in Nat /\ Len(Parquet[c]) \in Nat
  BY Rows DEF DecodeInv, LookInv
<1>2. PICK s : /\ s \in SigsOf(edition, RowAt(c)) /\ Behind(c, s)
               /\ behind[c] < Len(Parquet[c])
               /\ \A b \in Parts : looked'[b] \in {NoLook, looked[b]}
               /\ looked'[c] = NoLook /\ DOMAIN looked' = Parts
               /\ DOMAIN memo' = Hashes
               /\ \A h \in Hashes : memo'[h] \in {memo[h]} \cup SigsUpTo(edition, h)
  <2>1. CASE ParsePlain(c)
    <3>1. Unresolved \in SigsOf(edition, RowAt(c))
      BY <2>1 DEF ParsePlain, SigsOf
    <3> QED
      BY <1>1, <2>1, <3>1 DEF ParsePlain, AtRow
  <2>2. CASE ParseKnown(c)
    <3>1. RowAt(c).calls \in Hashes
      BY <2>2 DEF ParseKnown, Asks
    <3>2. memo[RowAt(c).calls] \in SigsOf(edition, RowAt(c))
      BY <2>2, <3>1 DEF ParseKnown, SigsOf, DecodeInv, LookInv
    <3> QED
      BY <1>1, <2>2, <3>2 DEF ParseKnown, AtRow
  <2>3. CASE ParseLooked(c)
    <3>1. /\ looked[c] \in SigsUpTo(edition, RowAt(c).calls) /\ Asks(RowAt(c))
          /\ behind[c] < Len(Parquet[c])
      BY <2>3 DEF ParseLooked, DecodeInv, LookInv
    <3>2. looked[c] \in SigsOf(edition, RowAt(c)) /\ Behind(c, looked[c])
      BY <2>3, <3>1 DEF ParseLooked, SigsOf
    <3>3. memo' = [memo EXCEPT ![RowAt(c).calls] = looked[c]]
          /\ looked' = [looked EXCEPT ![c] = NoLook]
      BY <2>3 DEF ParseLooked
    <3>4. /\ \A b \in Parts : looked'[b] \in {NoLook, looked[b]}
          /\ looked'[c] = NoLook /\ DOMAIN looked' = Parts
      BY <1>1, <3>3
    <3>5. /\ DOMAIN memo' = Hashes
          /\ \A h \in Hashes : memo'[h] \in {memo[h]} \cup SigsUpTo(edition, h)
      BY <1>1, <3>1, <3>3
    <3> QED
      BY <3>1, <3>2, <3>4, <3>5
  <2> QED
    BY <2>1, <2>2, <2>3
<1>3. ParsedInv' /\ StoredInv'
  BY <1>2, BehindStep DEF DecodeInv
<1>4. /\ edition' = edition /\ opened' = opened
      /\ behind' = [behind EXCEPT ![c] = behind[c] + 1]
  BY <1>2 DEF Behind
<1>5. /\ behind' \in [Parts -> Nat]
      /\ \A b \in Parts : behind'[b] <= Len(Parquet[b]) + 3
      /\ \A b \in Parts \ {c} : behind'[b] = behind[b] /\ RowAt(b)' = RowAt(b)
  BY <1>1, <1>2, <1>4 DEF DecodeInv, LookInv, RowAt
<1>6. ASSUME NEW b \in Parts, looked'[b] # NoLook
      PROVE  /\ behind'[b] < Len(Parquet[b])
             /\ Asks(RowAt(b)')
             /\ looked'[b] \in SigsUpTo(edition, RowAt(b)'.calls)
  <2>1. b # c /\ looked'[b] = looked[b]
    BY <1>2, <1>6
  <2> QED
    BY <1>5, <1>6, <2>1 DEF DecodeInv, LookInv
<1>7. \A h \in Hashes : memo'[h] # NotAsked => memo'[h] \in SigsUpTo(edition, h)
  BY <1>2 DEF DecodeInv, LookInv
<1>8. LookInv'
  BY <1>1, <1>2, <1>4, <1>5, <1>6, <1>7 DEF DecodeInv, LookInv
<1> QED
  BY <1>3, <1>8 DEF DecodeInv

\* Of the rows with one key a chunk has parsed the first is saved, if none is there.
LEMMA SaveHolds ==
    ASSUME ParsedInv, StoredInv, NEW c \in Parts, NEW kind,
           NEW i \in DOMAIN parsed[c], parsed[c][i].row.kind = kind, Storable(parsed[c][i].row)
    PROVE  Holds(stored \cup save_batch(c, kind), parsed[c][i].row)
<1> DEFINE p == parsed[c]
           r == p[i].row
           S == {j \in DOMAIN p : SameRow(p[j], p[i])}
<1>1. /\ p \in Seq(Decoded(edition, c)) /\ Len(p) \in Nat /\ DOMAIN p = 1 .. Len(p)
      /\ \A j \in DOMAIN p : p[j] \in Decoded(edition, c) /\ p[j].row \in FileRows(c)
  <2>1. p \in Seq(Decoded(edition, c))
    BY DEF ParsedInv
  <2>2. Len(p) \in Nat /\ DOMAIN p = 1 .. Len(p)
        /\ \A j \in DOMAIN p : p[j] \in Decoded(edition, c)
    BY <2>1
  <2> QED
    BY <2>1, <2>2, DecodedIs
<1>2. ASSUME NEW j \in S PROVE p[j].row = r
  BY <1>1, OneKey DEF SameRow
<1>3. ASSUME NEW e \in stored, SameRow(p[i], e) PROVE e.row = r
  <2>1. PICK d \in Parts : e.row \in FileRows(d)
    BY DecodedIs DEF StoredInv
  <2> QED
    BY <1>1, <1>3, <2>1, OneKey DEF SameRow
<1>4. S \in SUBSET Nat /\ i \in S
  BY <1>1 DEF SameRow
<1>5. PICK m \in S : \A j \in S : ~(<<j, m>> \in OpToRel(<, Nat))
  BY <1>4, NatLessThanWellFounded, WFMin
<1>6. m \in DOMAIN p /\ p[m].row = r
  BY <1>2
<1>7. ASSUME NEW k \in 1 .. m - 1 PROVE ~SameRow(p[m], p[k])
  <2>1. k \in DOMAIN p /\ k \in Nat /\ m \in Nat /\ k < m
    BY <1>1, <1>4
  <2>2. k \notin S
    BY <1>5, <2>1 DEF OpToRel
  <2>3. ~SameRow(p[k], p[i])
    BY <2>1, <2>2
  <2> QED
    BY <1>6, <2>3 DEF SameRow
<1>8. CASE \E e \in stored : SameRow(p[m], e)
  <2>1. PICK e \in stored : SameRow(p[m], e)
    BY <1>8
  <2>2. SameRow(p[i], e)
    BY <1>6, <2>1 DEF SameRow
  <2>3. e.row = r
    BY <1>3, <2>2
  <2> QED
    BY <2>3 DEF Holds
<1>9. CASE \A e \in stored : ~SameRow(p[m], e)
  <2>1. p[m] \in save_batch(c, kind)
    BY <1>6, <1>7, <1>9 DEF save_batch
  <2> QED
    BY <1>6, <2>1 DEF Holds
<1> QED
  BY <1>8, <1>9

LEMMA SaveAdds ==
    ASSUME ParsedInv, NEW c \in Parts, NEW kind, NEW d \in save_batch(c, kind)
    PROVE  /\ d \in Decoded(edition, c) /\ d.row \in FileRows(c)
           /\ d.row.kind = kind
           /\ \A e \in stored : ~SameRow(d, e)
           /\ \A e \in save_batch(c, kind) : SameRow(d, e) => d = e
<1> DEFINE p == parsed[c]
           First(i) == /\ p[i].row.kind = kind
                       /\ \A e \in stored : ~SameRow(p[i], e)
                       /\ \A k \in 1 .. i - 1 : ~SameRow(p[i], p[k])
<1>1. /\ Len(p) \in Nat /\ DOMAIN p = 1 .. Len(p)
      /\ \A j \in DOMAIN p : p[j] \in Decoded(edition, c)
  <2>1. p \in Seq(Decoded(edition, c))
    BY DEF ParsedInv
  <2> QED
    BY <2>1
<1>2. \A e \in save_batch(c, kind) : \E i \in DOMAIN p : e = p[i] /\ First(i)
  BY DEF save_batch
<1>3. PICK i \in DOMAIN p : d = p[i] /\ First(i)
  BY <1>2
<1>4. d \in Decoded(edition, c) /\ d.row \in FileRows(c)
  BY <1>1, <1>3, DecodedIs
<1>5. ASSUME NEW e \in save_batch(c, kind), SameRow(d, e) PROVE d = e
  <2>1. PICK j \in DOMAIN p : e = p[j] /\ First(j)
    BY <1>2
  <2>2. SameRow(p[i], p[j]) /\ SameRow(p[j], p[i])
    BY <1>3, <1>5, <2>1 DEF SameRow
  <2>3. i \in Nat /\ j \in Nat /\ 1 <= i /\ 1 <= j
    BY <1>1
  <2>4. ~(i < j)
    <3>1. i < j => i \in 1 .. j - 1
      BY <2>3
    <3> QED
      BY <2>1, <2>2, <3>1
  <2>5. ~(j < i)
    <3>1. j < i => j \in 1 .. i - 1
      BY <2>3
    <3> QED
      BY <1>3, <2>2, <3>1
  <2>6. i = j
    BY <2>3, <2>4, <2>5
  <2> QED
    BY <1>3, <2>1, <2>6
<1> QED
  BY <1>3, <1>4, <1>5

LEMMA SaveStep ==
    ASSUME DecodeInv, NEW c \in Parts, SaveBatch(c) PROVE DecodeInv'
<1> DEFINE n == Len(Parquet[c])
<1>1. PICK i \in 1 .. 3 :
        /\ behind[c] = n + i - 1
        /\ stored' = stored \cup save_batch(c, <<"log", "tx", "block">>[i])
  BY DEF SaveBatch
<1>2. /\ looked[c] = NoLook
      /\ behind' = [behind EXCEPT ![c] = behind[c] + 1]
      /\ edition' = edition /\ opened' = opened /\ memo' = memo /\ looked' = looked
      /\ parsed' = parsed
  BY DEF SaveBatch
<1>3. n \in Nat /\ behind \in [Parts -> Nat] /\ DOMAIN Parquet[c] = 1 .. n
      /\ \A b \in Parts : behind[b] <= Len(Parquet[b]) + 3 /\ Len(Parquet[b]) \in Nat
  BY Rows DEF DecodeInv, LookInv
<1> DEFINE kind == <<"log", "tx", "block">>[i]
           new == save_batch(c, kind)
<1>4. /\ behind' \in [Parts -> Nat]
      /\ behind'[c] = n + i /\ behind'[c] <= n + 3
      /\ \A b \in Parts \ {c} : behind'[b] = behind[b]
  BY <1>1, <1>2, <1>3
<1>5. /\ i = 1 => kind = "log"
      /\ i = 2 => kind = "tx"
      /\ i = 3 => kind = "block"
  OBVIOUS
<1>6. stored' = stored \cup new
  BY <1>1
<1>7. ASSUME NEW r \in FileRows(c), r.kind = kind, Storable(r) PROVE Holds(stored', r)
  <2>1. PICK j \in DOMAIN Parquet[c] : r = Parquet[c][j] /\ InBatch(c, r.block)
    BY DEF FileRows
  <2>2. behind[c] <= n + 2 /\ j <= behind[c]
    BY <1>1, <1>3
  <2>3. PICK k \in DOMAIN parsed[c] : parsed[c][k].row = r
    BY <2>1, <2>2 DEF DecodeInv, ParsedInv
  <2> QED
    BY <1>6, <1>7, <2>3, SaveHolds DEF DecodeInv
<1>8. \A r : Holds(stored, r) => Holds(stored', r)
  BY <1>6 DEF Holds
<1> HIDE DEF new, n
<1>9. ASSUME NEW d \in new
      PROVE  /\ d \in Decoded(edition, c) /\ d.row \in FileRows(c)
             /\ d.row.kind = kind
             /\ \A e \in stored : ~SameRow(d, e)
             /\ \A e \in new : SameRow(d, e) => d = e
  BY SaveAdds DEF DecodeInv, new
<1>10. LookInv'
  <2>1. \A b \in Parts : behind'[b] <= Len(Parquet[b]) + 3
    BY <1>3, <1>4 DEF n
  <2>2. ASSUME NEW b \in Parts, looked'[b] # NoLook
        PROVE  /\ behind'[b] < Len(Parquet[b])
               /\ Asks(RowAt(b)')
               /\ looked'[b] \in SigsUpTo(edition, RowAt(b)'.calls)
    <3>1. b # c /\ behind'[b] = behind[b] /\ RowAt(b)' = RowAt(b)
      BY <1>2, <1>4, <2>2 DEF RowAt
    <3> QED
      BY <1>2, <2>2, <3>1 DEF DecodeInv, LookInv
  <2> QED
    BY <1>2, <1>4, <2>1, <2>2 DEF DecodeInv, LookInv
<1>11. ParsedInv'
  <2>1. ASSUME NEW b \in Parts, behind'[b] <= Len(Parquet[b]) + 2, NEW j \in DOMAIN Parquet[b],
               j <= behind'[b], InBatch(b, Parquet[b][j].block)
        PROVE  \E k \in DOMAIN parsed[b] : parsed[b][k].row = Parquet[b][j]
    <3>1. behind[b] <= Len(Parquet[b]) + 2 /\ j <= behind[b]
      <4>1. CASE b = c
        BY <1>1, <1>3, <4>1 DEF n
      <4>2. CASE b # c
        BY <1>4, <2>1, <4>2
      <4> QED
        BY <4>1, <4>2
    <3> QED
      BY <2>1, <3>1 DEF DecodeInv, ParsedInv
  <2> QED
    BY <1>2, <2>1 DEF DecodeInv, ParsedInv
<1>12. StoredInv'
  <2>1. stored' \subseteq UNION {Decoded(edition, b) : b \in Parts}
    BY <1>6, <1>9 DEF DecodeInv, StoredInv
  <2>2. \A d, e \in stored' : SameRow(d, e) => d = e
    <3>1. \A d, e \in stored : SameRow(d, e) => d = e
      BY DEF DecodeInv, StoredInv
    <3>2. \A d, e : SameRow(d, e) <=> SameRow(e, d)
      BY DEF SameRow
    <3> QED
      BY <1>6, <1>9, <3>1, <3>2
  <2>3. ASSUME NEW b \in Parts, NEW r \in FileRows(b), Storable(r)
        PROVE  /\ behind'[b] > Len(Parquet[b]) /\ r.kind = "log" => Holds(stored', r)
               /\ behind'[b] > Len(Parquet[b]) + 1 /\ r.kind = "tx" => Holds(stored', r)
    <3>1. /\ behind[b] > Len(Parquet[b]) /\ r.kind = "log" => Holds(stored, r)
          /\ behind[b] > Len(Parquet[b]) + 1 /\ r.kind = "tx" => Holds(stored, r)
      BY <2>3 DEF DecodeInv, StoredInv
    <3>2. CASE b # c
      BY <1>4, <1>8, <3>1, <3>2
    <3>3. CASE b = c
      <4>1. r.kind = "log" => Holds(stored', r)
        <5>1. CASE i = 1
          BY <1>5, <1>7, <2>3, <3>3, <5>1
        <5>2. CASE i # 1
          <6>1. behind[c] > n
            BY <1>1, <1>3, <5>2
          <6>2. r.kind = "log" => Holds(stored, r)
            BY <3>1, <3>3, <6>1 DEF n
          <6> QED
            BY <1>8, <6>2
        <5> QED
          BY <5>1, <5>2
      <4>2. behind'[b] > Len(Parquet[b]) + 1 /\ r.kind = "tx" => Holds(stored', r)
        <5>1. CASE i = 1
          <6>1. ~(behind'[c] > n + 1)
            BY <1>3, <1>4, <5>1
          <6> QED
            BY <3>3, <6>1 DEF n
        <5>2. CASE i = 2
          BY <1>5, <1>7, <2>3, <3>3, <5>2
        <5>3. CASE i = 3
          <6>1. behind[c] > n + 1
            BY <1>1, <1>3, <5>3
          <6>2. r.kind = "tx" => Holds(stored, r)
            BY <3>1, <3>3, <6>1 DEF n
          <6> QED
            BY <1>8, <6>2
        <5> QED
          BY <5>1, <5>2, <5>3
      <4> QED
        BY <4>1, <4>2
    <3> QED
      BY <3>2, <3>3
  <2>4. ASSUME NEW d \in stored', d.row.kind = "block", NEW b \in Parts, NEW r \in FileRows(b),
               r.block = d.row.block, Storable(r)
        PROVE  Holds(stored', r)
    <3>1. CASE d \in stored
      BY <1>8, <2>4, <3>1 DEF DecodeInv, StoredInv
    <3>2. CASE d \in new
      <4>1. d.row \in FileRows(c) /\ kind = "block"
        BY <1>9, <2>4, <3>2
      <4>2. b = c
        BY <2>4, <4>1, OneOwner
      <4>3. i = 3
        BY <1>5, <4>1
      <4>4. CASE r.kind = "block"
        BY <1>7, <2>4, <4>1, <4>2, <4>4
      <4>5. CASE r.kind # "block"
        <5>1. r.kind \in {"tx", "log"}
          BY <4>5, Rows
        <5>2. behind[c] > n + 1 /\ behind[c] > n
          BY <1>1, <1>3, <4>3
        <5>3. Holds(stored, r)
          BY <2>4, <4>2, <5>1, <5>2 DEF DecodeInv, StoredInv, n
        <5> QED
          BY <1>8, <5>3
      <4> QED
        BY <4>4, <4>5
    <3> QED
      BY <1>6, <2>4, <3>1, <3>2
  <2> QED
    BY <1>2, <2>1, <2>2, <2>3, <2>4 DEF StoredInv
<1> QED
  BY <1>10, <1>11, <1>12 DEF DecodeInv

LEMMA LookStep ==
    ASSUME DecodeInv, NEW c \in Parts, Look(c) PROVE DecodeInv'
<1>1. /\ AtRow(c) /\ Asks(RowAt(c))
      /\ \E e \in opened .. edition :
            LET sigs == Editions[e][RowAt(c).calls] IN
            \E s \in IF sigs = {} THEN {Unresolved} ELSE sigs : looked' = [looked EXCEPT ![c] = s]
      /\ edition' = edition /\ opened' = opened /\ memo' = memo /\ behind' = behind
      /\ parsed' = parsed /\ stored' = stored
  BY DEF Look
<1>2. PICK s \in SigsUpTo(edition, RowAt(c).calls) : looked' = [looked EXCEPT ![c] = s]
  <2>1. \A e \in opened .. edition : e \in 1 .. edition
    BY DEF DecodeInv, LookInv
  <2> QED
    BY <1>1, <2>1 DEF SigsUpTo
<1>3. \A b \in Parts : RowAt(b)' = RowAt(b)
  BY <1>1 DEF RowAt
<1>4. ASSUME NEW b \in Parts, looked'[b] # NoLook
      PROVE  /\ behind'[b] < Len(Parquet[b])
             /\ Asks(RowAt(b)')
             /\ looked'[b] \in SigsUpTo(edition, RowAt(b)'.calls)
  <2>1. CASE b = c
    BY <1>1, <1>2, <1>3, <2>1 DEF AtRow, DecodeInv, LookInv
  <2>2. CASE b # c
    <3>1. looked'[b] = looked[b]
      BY <1>2, <2>2 DEF DecodeInv, LookInv
    <3> QED
      BY <1>1, <1>3, <1>4, <3>1 DEF DecodeInv, LookInv
  <2> QED
    BY <2>1, <2>2
<1>5. DOMAIN looked' = Parts
  BY <1>2 DEF DecodeInv, LookInv
<1>6. LookInv'
  BY <1>1, <1>4, <1>5 DEF DecodeInv, LookInv
<1>7. ParsedInv' /\ StoredInv'
  BY <1>1 DEF DecodeInv, ParsedInv, StoredInv
<1> QED
  BY <1>6, <1>7 DEF DecodeInv

LEMMA EndStep == ASSUME DecodeInv, EndRun PROVE DecodeInv'
<1>1. /\ behind' = [c \in Parts |-> IF Saved(c) THEN behind[c] ELSE 0]
      /\ looked' = [c \in Parts |-> NoLook]
      /\ parsed' = [c \in Parts |-> <<>>]
      /\ \/ memo' = memo /\ opened' = opened
         \/ memo' = [h \in Hashes |-> NotAsked] /\ opened' = edition
      /\ edition' = edition /\ stored' = stored
  BY DEF EndRun, Unparsed, EmptyMemo
<1>2. ASSUME NEW c \in Parts
      PROVE  /\ behind'[c] \in Nat /\ behind'[c] <= Len(Parquet[c]) + 3
             /\ \/ behind'[c] = 0
                \/ behind'[c] = behind[c] /\ behind[c] = Len(Parquet[c]) + 3
             /\ behind[c] \in Nat /\ Len(Parquet[c]) \in Nat
  <2>1. behind[c] \in Nat /\ Len(Parquet[c]) \in Nat
    BY Rows DEF DecodeInv, LookInv
  <2>2. behind'[c] = IF behind[c] = Len(Parquet[c]) + 3 THEN behind[c] ELSE 0
    BY <1>1 DEF Saved
  <2> QED
    BY <2>1, <2>2
<1>3. LookInv'
  <2>1. behind' \in [Parts -> Nat]
    BY <1>1, <1>2
  <2>2. /\ edition' \in Nat \ {0} /\ opened' \in 1 .. edition'
        /\ DOMAIN memo' = Hashes
        /\ \A h \in Hashes : memo'[h] # NotAsked => memo'[h] \in SigsUpTo(edition, h)
    BY <1>1 DEF DecodeInv, LookInv
  <2>3. DOMAIN looked' = Parts /\ \A c \in Parts : looked'[c] = NoLook
    BY <1>1
  <2> QED
    BY <1>1, <1>2, <2>1, <2>2, <2>3 DEF LookInv
<1>4. ParsedInv'
  <2>1. /\ DOMAIN parsed' = Parts
        /\ \A c \in Parts : parsed'[c] = <<>> /\ parsed'[c] \in Seq(Decoded(edition, c))
    BY <1>1
  <2>2. ASSUME NEW c \in Parts, behind'[c] <= Len(Parquet[c]) + 2, NEW j \in DOMAIN Parquet[c]
        PROVE  ~(j <= behind'[c])
    <3>1. behind'[c] = 0 /\ j \in Nat /\ j # 0
      BY <1>2, <2>2, Rows
    <3> QED
      BY <3>1
  <2> QED
    BY <1>1, <2>1, <2>2 DEF ParsedInv
<1>5. StoredInv'
  <2>1. ASSUME NEW c \in Parts, behind'[c] > Len(Parquet[c]) PROVE behind'[c] = behind[c]
    BY <1>2, <2>1
  <2>2. ASSUME NEW c \in Parts, behind'[c] > Len(Parquet[c]) + 1 PROVE behind'[c] = behind[c]
    BY <1>2, <2>2
  <2>3. \A c \in Parts : \A r \in FileRows(c) : Storable(r) =>
            /\ behind'[c] > Len(Parquet[c]) /\ r.kind = "log" => Holds(stored, r)
            /\ behind'[c] > Len(Parquet[c]) + 1 /\ r.kind = "tx" => Holds(stored, r)
    BY <2>1, <2>2 DEF DecodeInv, StoredInv
  <2> QED
    BY <1>1, <2>3 DEF DecodeInv, StoredInv
<1> QED
  BY <1>3, <1>4, <1>5 DEF DecodeInv

LEMMA MoreSigs ==
    ASSUME NEW n \in Nat
    PROVE  /\ \A h : SigsUpTo(n, h) \subseteq SigsUpTo(n + 1, h)
           /\ \A c : Decoded(n, c) \subseteq Decoded(n + 1, c)
<1>1. \A e \in 1 .. n : e \in 1 .. n + 1
  OBVIOUS
<1>2. ASSUME NEW h PROVE SigsUpTo(n, h) \subseteq SigsUpTo(n + 1, h)
  BY <1>1 DEF SigsUpTo
<1>3. \A r : SigsOf(n, r) \subseteq SigsOf(n + 1, r)
  BY <1>2 DEF SigsOf
<1>4. ASSUME NEW c PROVE Decoded(n, c) \subseteq Decoded(n + 1, c)
  BY <1>3 DEF Decoded
<1> QED
  BY <1>2, <1>4

LEMMA EditionStep == ASSUME DecodeInv, NewEdition PROVE DecodeInv'
<1>1. /\ edition' = edition + 1 /\ edition \in Nat
      /\ opened' = opened /\ memo' = memo /\ behind' = behind /\ looked' = looked
      /\ parsed' = parsed /\ stored' = stored
  BY DEF NewEdition, DecodeInv, LookInv
<1>2. /\ \A h : SigsUpTo(edition, h) \subseteq SigsUpTo(edition + 1, h)
      /\ \A c : Decoded(edition, c) \subseteq Decoded(edition + 1, c)
  BY <1>1, MoreSigs
<1>3. LookInv'
  <2>1. \A c \in Parts : RowAt(c)' = RowAt(c)
    BY <1>1 DEF RowAt
  <2>2. edition + 1 \in Nat \ {0} /\ opened \in 1 .. edition + 1
    BY <1>1 DEF DecodeInv, LookInv
  <2>3. \A h \in Hashes : memo[h] # NotAsked => memo[h] \in SigsUpTo(edition + 1, h)
    BY <1>2 DEF DecodeInv, LookInv
  <2>4. \A c \in Parts : looked[c] # NoLook =>
          /\ behind[c] < Len(Parquet[c]) /\ Asks(RowAt(c))
          /\ looked[c] \in SigsUpTo(edition + 1, RowAt(c).calls)
    BY <1>2 DEF DecodeInv, LookInv
  <2> QED
    BY <1>1, <2>1, <2>2, <2>3, <2>4 DEF DecodeInv, LookInv
<1>4. ParsedInv'
  <2>1. \A c \in Parts : parsed[c] \in Seq(Decoded(edition + 1, c))
    BY <1>2 DEF DecodeInv, ParsedInv
  <2> QED
    BY <1>1, <2>1 DEF DecodeInv, ParsedInv
<1>5. StoredInv'
  <2>1. stored \subseteq UNION {Decoded(edition + 1, c) : c \in Parts}
    BY <1>2 DEF DecodeInv, StoredInv
  <2> QED
    BY <1>1, <2>1 DEF DecodeInv, StoredInv
<1> QED
  BY <1>3, <1>4, <1>5 DEF DecodeInv

LEMMA DecodeKeeps == DecodeInv /\ [DecodeStep]_decodeVars => DecodeInv'
<1> SUFFICES ASSUME DecodeInv, [DecodeStep]_decodeVars PROVE DecodeInv'
  OBVIOUS
<1>1. CASE UNCHANGED decodeVars
  BY <1>1 DEF decodeVars, DecodeInv, LookInv, ParsedInv, StoredInv, RowAt
<1>2. ASSUME NEW c \in Parts,
             ParsePlain(c) \/ ParseKnown(c) \/ Look(c) \/ ParseLooked(c) \/ SaveBatch(c)
      PROVE  DecodeInv'
  BY <1>2, ParseSteps, LookStep, SaveStep
<1> QED
  BY <1>1, <1>2, EndStep, EditionStep DEF DecodeStep

LEMMA DecodeStarts == DecodeInit => DecodeInv
<1> SUFFICES ASSUME DecodeInit PROVE DecodeInv
  OBVIOUS
<1>1. /\ edition = 1 /\ opened = 1 /\ stored = {}
      /\ memo = [h \in Hashes |-> NotAsked]
      /\ behind = [c \in Parts |-> 0]
      /\ looked = [c \in Parts |-> NoLook]
      /\ parsed = [c \in Parts |-> <<>>]
  BY DEF DecodeInit, EmptyMemo, Unparsed
<1>2. LookInv
  BY <1>1, Rows DEF LookInv
<1>3. ParsedInv
  <2>1. \A c \in Parts : \A j \in DOMAIN Parquet[c] : ~(j <= behind[c])
    BY <1>1, Rows
  <2> QED
    BY <1>1, <2>1 DEF ParsedInv
<1>4. StoredInv
  <2>1. \A c \in Parts : ~(behind[c] > Len(Parquet[c])) /\ ~(behind[c] > Len(Parquet[c]) + 1)
    BY <1>1, Rows
  <2> QED
    BY <1>1, <2>1 DEF StoredInv
<1> QED
  BY <1>2, <1>3, <1>4 DEF DecodeInv

\* Whatever the files of a run hold, in whatever order its chunks parse them and look
\* for signatures, and however often they begin anew: a row is in the database once,
\* with a signature of its own hash, and a block's flag means that its rows are there.
THEOREM RowsAlwaysDecoded == PathSpec => []RowsDecoded
<1>1. PathInit => DecodeInv
  BY DecodeStarts DEF PathInit
<1>2. DecodeInv /\ [PathNext]_<<vars, columnVars, seedVars, answerVars, decodeVars>> => DecodeInv'
  BY PathParts, DecodeKeeps
<1>3. DecodeInv => RowsDecoded
  BY DecodeAgrees DEF DecodeInv
<1> QED
  BY <1>1, <1>2, <1>3, PTL DEF PathSpec

-----------------------------------------------------------------------------
(***************************************************************************)
(* What a query answers, whatever the world around it does meanwhile.      *)
(***************************************************************************)

\* What is known of a request from its start to its end.
IsRequest(c) ==
    /\ {"by", "sql", "price", "max_rows", "what", "block"} \subseteq DOMAIN c
    /\ c.max_rows \in Nat \cup {None}
    /\ c.block \in Nat \cup {None}
    /\ c.sql.names \in Seq(Names)
    /\ c.what \in {"block", "tx"} => c.by = "display"

\* Prices and addresses come from outside; none of them was ever wrong there.
Priced(p, n) == p \in {None} \cup 1 .. n
Stand == Addresses \cup {ZeroAddress, None}
OutsideInv ==
    /\ height \in Nat
    /\ held \in SUBSET Nat /\ IsFiniteSet(held)
    /\ tables \subseteq BUILTIN_TABLES \cup {"custom"}
    /\ market \in Nat \ {0} /\ Priced(prices, market) /\ Priced(fetched, market)
    /\ DOMAIN stood = Names
    /\ owner \in [Names -> Stand] /\ memory \in [Names -> Stand] /\ disk \in [Names -> Stand]
    /\ \A n \in Names :
        /\ owner[n] # ZeroAddress => owner[n] \in stood[n]
        /\ memory[n] # None => memory[n] \in HasStood(n)
        /\ disk[n] # None => disk[n] \in HasStood(n)

\* The stages from where something is settled on.
FromRows == {"rows", "done"}
FromPrepare == {"prepare"} \cup FromRows
FromEns == {"ens"} \cup FromPrepare
FromLatest == {"latest", "price"} \cup FromEns
FromIndex == {"index"} \cup FromLatest
FromKeep == {"keep quote", "deps"} \cup FromIndex
CallInv ==
    /\ stage # "idle" => IsRequest(call)
    /\ stage \in {"quote", "keep quote"} => call.by = "web"
    /\ stage \in FromKeep /\ call.by = "web" => Priced(call.price, market)

\* Names are resolved in their order, each to an address that it, or one of the same
\* key, has stood for.
ValuesInv ==
    /\ stage \in FromIndex =>
        /\ {"latest", "price", "block", "ens"} \subseteq DOMAIN values
        /\ allowed \subseteq {"custom"}
        /\ call.by = "web" /\ call.price # None => values.price = call.price
        /\ values.ens \in Seq(Stand)
        /\ Len(values.ens) <= Len(call.sql.names)
        /\ \A i \in 1 .. Len(values.ens) :
            values.ens[i] \in HasStood(to_lowercase[call.sql.names[i]])
    /\ stage \in FromLatest /\ call.by = "display" => values.block \in Nat
    /\ stage \in FromEns /\ "price" \in call.sql.macros =>
        values.price # None \/ call.by = "display"
    /\ stage \in FromPrepare => Len(values.ens) = Len(call.sql.names)

\* What is collected is how the rows of the statement begin.
RowsInv ==
    /\ stage \in FromRows =>
        /\ call.sql.acts \subseteq Harmless
        /\ call.sql.reads \subseteq BUILTIN_TABLES \cup {"custom"}
        /\ snapshot \in Seq(Nat) /\ out \in Seq(Nat)
        /\ \A i, j \in 1 .. Len(snapshot) : snapshot[i] = snapshot[j] => i = j
        /\ \A i \in 1 .. Len(snapshot) :
            /\ "latest" \in call.sql.macros => snapshot[i] + Window > values.latest
            /\ values.block # None => snapshot[i] = values.block
        /\ Len(out) <= Len(snapshot)
        /\ \A i \in 1 .. Len(out) : out[i] = snapshot[i]
        /\ call.max_rows # None => Len(out) <= call.max_rows
    /\ stage \notin FromRows => out = <<>>
    /\ stage = "done" => Len(out) = Len(snapshot)

\* What was answered was a request.
ReplyInv == AnswerIsWhole /\ (reply.kind \in {"answer", "receipt"} => IsRequest(reply.of))

AnswerInv == OutsideInv /\ CallInv /\ ValuesInv /\ RowsInv /\ ReplyInv

\* Prices only rise in number, and what a name has stood for it has stood for.
Grows == market <= market' /\ \A n \in Names : stood[n] \subseteq stood'[n]

LEMMA OutsideStarts == AnswerInit => OutsideInv
<1>1. IsFiniteSet({})
  BY FS_EmptySet
<1> QED
  BY <1>1 DEF AnswerInit, OutsideInv, Unknown, Priced, Stand

\* What has stood for a key stands for it still.
LEMMA StoodStays ==
    ASSUME UNCHANGED stood PROVE \A key : HasStood(key)' = HasStood(key)
BY DEF HasStood

\* What has stood for a key stands for it still.
LEMMA StoodGrows ==
    ASSUME Grows, NEW key
    PROVE  HasStood(key) \subseteq HasStood(key)'
BY DEF Grows, HasStood

LEMMA WorldGrows == OutsideInv /\ World => OutsideInv' /\ Grows
<1> SUFFICES ASSUME OutsideInv, World PROVE OutsideInv' /\ Grows
  OBVIOUS
<1> USE DEF OutsideInv, Grows, Priced
<1>1. UNCHANGED <<priceVars, disk, memory>>
  BY DEF World
<1>2. CASE height' = height + 1 /\ UNCHANGED <<held, tables, owner, stood>>
  BY <1>1, <1>2, StoodStays DEF priceVars
<1>3. ASSUME NEW b \in 0 .. height, held' = held \cup {b},
             UNCHANGED <<height, tables, owner, stood>>
      PROVE  OutsideInv' /\ Grows
  <2>1. IsFiniteSet(held') /\ held' \in SUBSET Nat
    BY <1>3, FS_AddElement
  <2> QED
    BY <1>1, <1>3, <2>1, StoodStays DEF priceVars
<1>4. ASSUME NEW b \in held, held' = {c \in held : c > b},
             UNCHANGED <<height, tables, owner, stood>>
      PROVE  OutsideInv' /\ Grows
  <2>1. held' \in SUBSET held
    BY <1>4
  <2>2. IsFiniteSet(held') /\ held' \in SUBSET Nat
    BY <2>1, FS_Subset
  <2> QED
    BY <1>1, <1>4, <2>2, StoodStays DEF priceVars
<1>5. CASE /\ tables' \in {BUILTIN_TABLES, BUILTIN_TABLES \cup {"custom"}}
           /\ UNCHANGED <<height, held, owner, stood>>
  BY <1>1, <1>5, StoodStays DEF priceVars
<1>6. ASSUME NEW n \in Names, NEW a \in Addresses,
             owner' = [owner EXCEPT ![n] = a],
             stood' = [stood EXCEPT ![n] = @ \cup {a}],
             UNCHANGED <<height, held, tables>>
      PROVE  OutsideInv' /\ Grows
  <2>1. /\ DOMAIN stood' = Names
        /\ stood'[n] = stood[n] \cup {a} /\ owner'[n] = a
        /\ \A m \in Names \ {n} : stood'[m] = stood[m] /\ owner'[m] = owner[m]
    BY <1>6
  <2>2. owner' \in [Names -> Stand]
    BY <1>6 DEF Stand
  <2>3. \A m \in Names : stood[m] \subseteq stood'[m]
    BY <2>1
  <2>4. \A m \in Names :
          /\ owner'[m] # ZeroAddress => owner'[m] \in stood'[m]
          /\ memory'[m] # None => memory'[m] \in HasStood(m)'
          /\ disk'[m] # None => disk'[m] \in HasStood(m)'
    BY <1>1, <2>1, <2>3 DEF HasStood
  <2> QED
    BY <1>1, <1>6, <2>1, <2>2, <2>3, <2>4 DEF priceVars
<1> QED
  BY <1>2, <1>3, <1>4, <1>5, <1>6 DEF World

LEMMA PricesGrow == OutsideInv /\ UpdatePricesCache => OutsideInv' /\ Grows
<1> SUFFICES ASSUME OutsideInv, UpdatePricesCache PROVE OutsideInv' /\ Grows
  OBVIOUS
<1>1. UNCHANGED <<height, held, tables, owner, stood, disk, memory>>
  BY DEF UpdatePricesCache
<1>2. /\ market' \in Nat \ {0} /\ market <= market'
      /\ Priced(prices', market') /\ Priced(fetched', market')
  BY DEF UpdatePricesCache, OutsideInv, Priced
<1> QED
  BY <1>1, <1>2, StoodStays DEF OutsideInv, Grows

\* What the request itself does outside.
LEMMA QuoteKept == OutsideInv /\ CallInv /\ KeepQuote => OutsideInv' /\ Grows
<1> SUFFICES ASSUME OutsideInv, CallInv, KeepQuote PROVE OutsideInv' /\ Grows
  OBVIOUS
<1>1. UNCHANGED <<height, held, tables, owner, stood, market, fetched, disk, memory>>
  BY DEF KeepQuote, worldVars
<1>2. prices' = call.price /\ Priced(call.price, market)
  BY DEF KeepQuote, CallInv, FromKeep
<1> QED
  BY <1>1, <1>2, StoodStays DEF OutsideInv, Grows

LEMMA RangeHeld == OutsideInv /\ IndexRange => OutsideInv' /\ Grows
<1> SUFFICES ASSUME OutsideInv, IndexRange PROVE OutsideInv' /\ Grows
  OBVIOUS
<1>1. UNCHANGED <<height, tables, owner, stood, priceVars, disk, memory>>
  BY DEF IndexRange
<1>2. PICK S \in SUBSET (0 .. height) : held' = held \cup S
  <2>1. {b \in 0 .. height : b + call.last > height} \in SUBSET (0 .. height)
    OBVIOUS
  <2> QED
    BY <2>1 DEF IndexRange
<1>3. IsFiniteSet(S) /\ S \in SUBSET Nat
  <2>1. IsFiniteSet(0 .. height)
    BY FS_Interval DEF OutsideInv
  <2>2. IsFiniteSet(S)
    BY <2>1, FS_Subset
  <2>3. S \in SUBSET Nat
    BY DEF OutsideInv
  <2> QED
    BY <2>2, <2>3
<1>4. IsFiniteSet(held') /\ held' \in SUBSET Nat
  BY <1>2, <1>3, FS_Union DEF OutsideInv
<1> QED
  BY <1>1, <1>4, StoodStays DEF OutsideInv, Grows, priceVars

LEMMA BlockHeld == OutsideInv /\ CallInv /\ IndexBlock => OutsideInv' /\ Grows
<1> SUFFICES ASSUME OutsideInv, CallInv, IndexBlock PROVE OutsideInv' /\ Grows
  OBVIOUS
<1>1. UNCHANGED <<height, tables, owner, stood, priceVars, disk, memory>>
  BY DEF IndexBlock
<1>2. PICK b \in Nat : held' = held \cup {b}
  <2>1. call.block \in Nat \cup {None} /\ height \in Nat
    BY DEF IndexBlock, CallInv, IsRequest, OutsideInv
  <2> QED
    BY <2>1 DEF IndexBlock
<1>3. IsFiniteSet(held') /\ held' \in SUBSET Nat
  BY <1>2, FS_AddElement DEF OutsideInv
<1> QED
  BY <1>1, <1>3, StoodStays DEF OutsideInv, Grows, priceVars

\* The name whose turn it is.
LEMMA NextNamed ==
    ASSUME CallInv, ValuesInv, stage = "ens", ~Resolved
    PROVE  /\ NextName \in Names
           /\ Len(values.ens) + 1 \in 1 .. Len(call.sql.names)
<1>1. call.sql.names \in Seq(Names) /\ values.ens \in Seq(Stand)
      /\ Len(values.ens) <= Len(call.sql.names)
  BY DEF CallInv, IsRequest, ValuesInv, FromIndex, FromLatest, FromEns
<1>2. Len(values.ens) \in Nat /\ Len(call.sql.names) \in Nat
  BY <1>1, LenProperties
<1>3. Len(values.ens) + 1 \in 1 .. Len(call.sql.names)
  BY <1>1, <1>2 DEF Resolved
<1> QED
  BY <1>1, <1>3, ElementOfSeq DEF NextName

\* Whether it is remembered or asked for: it has stood for that.
Remembers(a) ==
    /\ a \in Stand /\ a \in HasStood(Key)
    /\ values' = [values EXCEPT !.ens = Append(@, a)]

LEMMA NamesHeld ==
    ASSUME OutsideInv, CallInv, ValuesInv, EnsCached \/ EnsLookup
    PROVE  OutsideInv' /\ Grows /\ \E a : Remembers(a)
<1>1. NextName \in Names /\ Key \in Names
  BY NextNamed, LowercaseAssumption DEF EnsCached, EnsLookup, Key
<1>2. UNCHANGED <<worldVars, priceVars>>
  BY DEF EnsCached, EnsLookup
<1>3. \E a : /\ a \in Stand /\ a \in HasStood(Key)
             /\ TakeAddress(a)
             /\ memory' = [memory EXCEPT ![Key] = a]
             /\ disk' \in {disk, [disk EXCEPT ![Key] = a]}
  <2>1. CASE EnsCached
    <3> DEFINE a == IF memory[Key] # None THEN memory[Key] ELSE disk[Key]
    <3>1. /\ a # None /\ TakeAddress(a)
          /\ memory' = [memory EXCEPT ![Key] = a]
          /\ disk' = disk
      BY <2>1 DEF EnsCached
    <3>2. a \in Stand /\ a \in HasStood(Key)
      BY <1>1, <3>1 DEF OutsideInv
    <3> QED
      BY <3>1, <3>2
  <2>2. CASE EnsLookup
    <3>1. owner[NextName] \in Stand /\ owner[NextName] \in stood[NextName]
      BY <1>1, <2>2 DEF OutsideInv, EnsLookup
    <3>2. owner[NextName] \in HasStood(Key)
      BY <1>1, <3>1 DEF HasStood, Key
    <3> QED
      BY <2>2, <3>1, <3>2 DEF EnsLookup
  <2> QED
    BY <2>1, <2>2
<1>4. PICK a : /\ a \in Stand /\ a \in HasStood(Key)
               /\ TakeAddress(a)
               /\ memory' = [memory EXCEPT ![Key] = a]
               /\ disk' \in {disk, [disk EXCEPT ![Key] = a]}
  BY <1>3
<1>5. memory' \in [Names -> Stand] /\ disk' \in [Names -> Stand]
  BY <1>1, <1>4 DEF OutsideInv
<1>6. \A m \in Names : /\ memory'[m] # None => memory'[m] \in HasStood(m)
                       /\ disk'[m] # None => disk'[m] \in HasStood(m)
  BY <1>1, <1>4 DEF OutsideInv
<1>7. \A m \in Names : HasStood(m)' = HasStood(m)
  BY <1>2 DEF HasStood, worldVars
<1>8. OutsideInv' /\ Grows
  BY <1>2, <1>5, <1>6, <1>7 DEF OutsideInv, Grows, worldVars, priceVars
<1> QED
  BY <1>4, <1>8 DEF Remembers, TakeAddress

LEMMA AskForgets == OutsideInv /\ Ask => OutsideInv' /\ Grows
<1> SUFFICES ASSUME OutsideInv, Ask PROVE OutsideInv' /\ Grows
  OBVIOUS
<1>1. UNCHANGED <<worldVars, priceVars, disk>> /\ memory' \in {memory, Unknown}
  BY DEF Ask
<1>2. /\ memory' \in [Names -> Stand]
      /\ \A m \in Names : memory'[m] # None => memory'[m] \in HasStood(m)
  BY <1>1 DEF Unknown, Stand, OutsideInv
<1>3. \A m \in Names : HasStood(m)' = HasStood(m)
  BY <1>1 DEF HasStood, worldVars
<1> QED
  BY <1>1, <1>2, <1>3 DEF OutsideInv, Grows, worldVars, priceVars

\* Nothing else touches it.
LEMMA OutsideStays ==
    ASSUME OutsideInv, UNCHANGED <<worldVars, priceVars, disk, memory>>
    PROVE  OutsideInv' /\ Grows
<1>1. \A m \in Names : HasStood(m)' = HasStood(m)
  BY DEF HasStood, worldVars
<1> QED
  BY <1>1 DEF OutsideInv, Grows, worldVars, priceVars

\* While the request waits its values stay true.
LEMMA ValuesStay ==
    ASSUME OutsideInv, OutsideInv', Grows, CallInv, ValuesInv, RowsInv,
           UNCHANGED <<call, stage, allowed, values, snapshot, out>>
    PROVE  CallInv' /\ ValuesInv' /\ RowsInv'
<1>1. stage \in FromKeep /\ call.by = "web" => Priced(call.price, market')
  BY DEF CallInv, Priced, Grows, OutsideInv
<1>2. CallInv'
  BY <1>1 DEF CallInv, FromKeep, FromIndex, FromLatest, FromEns, FromPrepare, FromRows
<1>3. ASSUME stage \in FromIndex
      PROVE  \A i \in 1 .. Len(values.ens) :
                 values.ens[i] \in HasStood(to_lowercase[call.sql.names[i]])'
  BY <1>3, StoodGrows DEF ValuesInv
<1>4. ValuesInv'
  BY <1>3 DEF ValuesInv
<1>5. RowsInv'
  BY DEF RowsInv
<1> QED
  BY <1>2, <1>4, <1>5

\* So does what was answered.
LEMMA ReplyStays ==
    ASSUME OutsideInv, OutsideInv', Grows, ReplyInv, reply' = reply
    PROVE  ReplyInv'
<1> DEFINE r == reply
           s == r.of.sql
<1>1. ASSUME r.kind \in {"answer", "receipt"}, r.of.by = "web", r.of.price # None
      PROVE  r.values.price \in 1 .. market'
  BY <1>1 DEF ReplyInv, AnswerIsWhole, Grows, OutsideInv
<1>2. ASSUME r.kind \in {"answer", "receipt"}, NEW i \in DOMAIN s.names
      PROVE  r.values.ens[i] \in HasStood(to_lowercase[s.names[i]])'
  BY <1>2, StoodGrows DEF ReplyInv, AnswerIsWhole
<1>3. AnswerIsWhole'
  BY <1>1, <1>2 DEF ReplyInv, AnswerIsWhole
<1> QED
  BY <1>3 DEF ReplyInv

LEMMA NothingSaid == reply' = NoReply => ReplyInv'
BY DEF NoReply, ReplyInv, AnswerIsWhole

\* A request comes, and is worked on.
LEMMA CallStarts ==
    ASSUME RowsInv, Ask
    PROVE  CallInv' /\ ValuesInv' /\ RowsInv'
<1>1. PICK c \in Requests :
        /\ call' = c
        /\ stage' = IF c.longDesc THEN "refuse" ELSE IF c.by = "web" THEN "quote" ELSE "deps"
  BY DEF Ask
<1>2. IsRequest(c)
  BY RequestsAssumption DEF IsRequest
<1>3. stage = "idle" /\ UNCHANGED out
  BY DEF Ask
<1>4. stage' \notin FromIndex
  BY <1>1 DEF FromIndex, FromLatest, FromEns, FromPrepare, FromRows
<1>5. out' = <<>>
  BY <1>3 DEF RowsInv, FromRows
<1>6. CallInv'
  BY <1>1, <1>2, <1>4 DEF CallInv, FromKeep
<1>7. ValuesInv' /\ RowsInv'
  BY <1>4, <1>5 DEF ValuesInv, RowsInv, FromIndex, FromLatest, FromEns, FromPrepare, FromRows
<1> QED
  BY <1>6, <1>7

LEMMA QuoteTaken ==
    ASSUME OutsideInv, CallInv, RowsInv, GetCryptoPrices
    PROVE  CallInv' /\ ValuesInv' /\ RowsInv'
<1>1. /\ stage = "quote" /\ stage' \in {"keep quote", "deps"}
      /\ UNCHANGED <<market, out>>
  BY DEF GetCryptoPrices, priceVars
<1>2. PICK q : Quoted(q) /\ Priced(q, market)
  <2>1. Priced(prices, market) /\ Priced(None, market) /\ Priced(market, market)
    BY DEF OutsideInv, Priced
  <2>2. Quoted(prices) \/ Quoted(None) \/ Quoted(market)
    BY DEF GetCryptoPrices
  <2> QED
    BY <2>1, <2>2
<1>3. IsRequest(call) /\ call.by = "web"
  BY <1>1 DEF CallInv
<1>4. IsRequest(call') /\ call'.by = "web" /\ call'.price = q
  BY <1>2, <1>3 DEF Quoted, IsRequest
<1>5. CallInv'
  BY <1>1, <1>2, <1>4 DEF CallInv
<1>6. out' = <<>>
  BY <1>1 DEF RowsInv, FromRows
<1>7. ValuesInv' /\ RowsInv'
  BY <1>1, <1>6 DEF ValuesInv, RowsInv, FromIndex, FromLatest, FromEns, FromPrepare, FromRows
<1> QED
  BY <1>5, <1>7

LEMMA QuoteStays ==
    ASSUME CallInv, RowsInv, KeepQuote
    PROVE  CallInv' /\ ValuesInv' /\ RowsInv'
<1>1. stage = "keep quote" /\ stage' = "deps" /\ UNCHANGED <<market, call, out>>
  BY DEF KeepQuote
<1>2. CallInv'
  BY <1>1 DEF CallInv, FromKeep
<1>3. ValuesInv' /\ RowsInv'
  BY <1>1 DEF ValuesInv, RowsInv, FromIndex, FromLatest, FromEns, FromPrepare, FromRows
<1> QED
  BY <1>2, <1>3

\* From stage to stage of one request, as long as nothing is collected.
LEMMA CallGoesOn ==
    ASSUME CallInv, RowsInv, stage \in FromKeep \ FromRows,
           stage' \in FromKeep \ ({"keep quote"} \cup FromRows),
           UNCHANGED <<call, market, out>>
    PROVE  CallInv' /\ RowsInv'
<1>1. CallInv'
  BY DEF CallInv, FromKeep, FromIndex, FromLatest, FromEns, FromPrepare, FromRows
<1>2. RowsInv'
  BY DEF RowsInv, FromRows
<1> QED
  BY <1>1, <1>2

LEMMA DepsTaken ==
    ASSUME OutsideInv, CallInv, RowsInv, GetDeps
    PROVE  CallInv' /\ ValuesInv' /\ RowsInv'
<1>1. /\ stage = "deps"
      /\ stage' = IF call.by \in {"cli", "display"} THEN "index" ELSE "latest"
      /\ UNCHANGED <<call, market, out>>
  BY DEF GetDeps, priceVars
<1>2. CallInv' /\ RowsInv'
  BY <1>1, CallGoesOn DEF FromKeep, FromIndex, FromLatest, FromEns, FromPrepare, FromRows
<1>3. allowed' \subseteq {"custom"}
  BY DEF GetDeps, OutsideInv
<1>4. PICK p, l : /\ values' = [NoValues EXCEPT !.price = p, !.latest = l]
                  /\ p \in get_native_token_price(call.price)
  BY DEF GetDeps
<1>5. /\ DOMAIN values' = {"latest", "price", "block", "ens"}
      /\ values'.price = p /\ values'.ens = <<>>
  BY <1>4 DEF NoValues
<1>6. values'.ens \in Seq(Stand) /\ Len(values'.ens) = 0
  BY <1>5, EmptySeq
<1>7. Len(call.sql.names) \in Nat
  BY <1>1, LenProperties DEF CallInv, IsRequest
<1>8. call.price # None => p = call.price
  BY <1>4 DEF get_native_token_price
<1> QED
  BY <1>1, <1>2, <1>3, <1>5, <1>6, <1>7, <1>8
     DEF ValuesInv, FromIndex, FromLatest, FromEns, FromPrepare, FromRows

LEMMA IndexGoesOn ==
    ASSUME CallInv, ValuesInv, RowsInv, IndexRange \/ IndexBlock, OutsideInv
    PROVE  CallInv' /\ ValuesInv' /\ RowsInv'
<1>1. /\ stage = "index" /\ stage' = "latest"
      /\ UNCHANGED <<call, market, allowed, stood, out>>
  BY DEF IndexRange, IndexBlock, priceVars
<1>2. CallInv' /\ RowsInv'
  BY <1>1, CallGoesOn DEF FromKeep, FromIndex, FromLatest, FromEns, FromPrepare, FromRows
<1>3. CASE IndexRange
  BY <1>1, <1>2, <1>3, StoodStays
     DEF IndexRange, ValuesInv, FromIndex, FromLatest, FromEns, FromPrepare, FromRows
<1>4. CASE IndexBlock
  <2>1. PICK b \in Nat : values' = [values EXCEPT !.block = b]
    <3>1. call.block \in Nat \cup {None} /\ height \in Nat
      BY <1>1 DEF CallInv, IsRequest, OutsideInv
    <3> QED
      BY <1>4, <3>1 DEF IndexBlock
  <2>2. /\ {"latest", "price", "block", "ens"} \subseteq DOMAIN values'
        /\ values'.price = values.price /\ values'.ens = values.ens
        /\ values'.block = b
    BY <1>1, <2>1 DEF ValuesInv, FromIndex
  <2> QED
    BY <1>1, <1>2, <2>2, StoodStays
       DEF ValuesInv, FromIndex, FromLatest, FromEns, FromPrepare, FromRows
<1> QED
  BY <1>3, <1>4

LEMMA LatestGoesOn ==
    ASSUME CallInv, ValuesInv, RowsInv, ExpandLatest
    PROVE  CallInv' /\ ValuesInv' /\ RowsInv'
<1>1. /\ stage = "latest" /\ stage' = "price"
      /\ UNCHANGED <<call, market, allowed, stood, out>>
  BY DEF ExpandLatest, worldVars, priceVars
<1>2. CallInv' /\ RowsInv'
  BY <1>1, CallGoesOn DEF FromKeep, FromIndex, FromLatest, FromEns, FromPrepare, FromRows
<1>3. values' = values \/ values' = [values EXCEPT !.latest = height]
  BY DEF ExpandLatest
<1>4. /\ DOMAIN values' = DOMAIN values
      /\ {"latest", "price", "block", "ens"} \subseteq DOMAIN values
      /\ values'.price = values.price /\ values'.ens = values.ens
      /\ values'.block = values.block
  BY <1>1, <1>3 DEF ValuesInv, FromIndex, FromLatest
<1> QED
  BY <1>1, <1>2, <1>4, StoodStays
     DEF ValuesInv, FromIndex, FromLatest, FromEns, FromPrepare, FromRows

LEMMA PriceGoesOn ==
    ASSUME CallInv, ValuesInv, RowsInv, ExpandPrice
    PROVE  CallInv' /\ ValuesInv' /\ RowsInv'
<1>1. /\ stage = "price" /\ stage' = "ens"
      /\ UNCHANGED <<call, market, allowed, stood, out, values>>
      /\ "price" \in call.sql.macros => values.price # None \/ call.by = "display"
  BY DEF ExpandPrice, worldVars, priceVars
<1>2. CallInv' /\ RowsInv'
  BY <1>1, CallGoesOn DEF FromKeep, FromIndex, FromLatest, FromEns, FromPrepare, FromRows
<1> QED
  BY <1>1, <1>2, StoodStays
     DEF ValuesInv, FromIndex, FromLatest, FromEns, FromPrepare, FromRows

LEMMA NameGoesOn ==
    ASSUME OutsideInv, CallInv, ValuesInv, RowsInv, EnsCached \/ EnsLookup
    PROVE  CallInv' /\ ValuesInv' /\ RowsInv'
<1>1. /\ stage = "ens" /\ stage' = "ens" /\ ~Resolved
      /\ UNCHANGED <<call, market, allowed, stood, out>>
  BY DEF EnsCached, EnsLookup, worldVars, priceVars
<1>2. CallInv' /\ RowsInv'
  BY <1>1, CallGoesOn DEF FromKeep, FromIndex, FromLatest, FromEns, FromPrepare, FromRows
<1>3. PICK a : Remembers(a)
  BY NamesHeld
<1>4. /\ {"latest", "price", "block", "ens"} \subseteq DOMAIN values
      /\ values.ens \in Seq(Stand)
      /\ \A i \in 1 .. Len(values.ens) :
            values.ens[i] \in HasStood(to_lowercase[call.sql.names[i]])
  BY <1>1 DEF ValuesInv, FromIndex, FromLatest, FromEns
<1>5. /\ DOMAIN values' = DOMAIN values
      /\ values'.price = values.price /\ values'.block = values.block
      /\ values'.ens = Append(values.ens, a)
  BY <1>3, <1>4 DEF Remembers
<1>6. a \in Stand /\ a \in HasStood(to_lowercase[call.sql.names[Len(values.ens) + 1]])
  BY <1>3 DEF Remembers, Key, NextName
<1>7. Len(values.ens) + 1 \in 1 .. Len(call.sql.names)
  BY <1>1, NextNamed
<1>8. /\ values'.ens \in Seq(Stand)
      /\ Len(values'.ens) = Len(values.ens) + 1
      /\ \A i \in 1 .. Len(values.ens) : values'.ens[i] = values.ens[i]
      /\ values'.ens[Len(values.ens) + 1] = a
      /\ Len(values.ens) \in Nat
  BY <1>4, <1>5, <1>6, AppendProperties, LenProperties
<1>9. \A i \in 1 .. Len(values'.ens) :
            values'.ens[i] \in HasStood(to_lowercase[call.sql.names[i]])
  BY <1>4, <1>6, <1>8
<1>10. Len(values'.ens) <= Len(call.sql.names)
  BY <1>7, <1>8
<1>11. /\ call.by = "web" /\ call.price # None => values.price = call.price
       /\ call.by = "display" => values.block \in Nat
       /\ "price" \in call.sql.macros => values.price # None \/ call.by = "display"
       /\ allowed \subseteq {"custom"}
  BY <1>1 DEF ValuesInv, FromIndex, FromLatest, FromEns
<1>12. ValuesInv'
  BY <1>1, <1>4, <1>5, <1>8, <1>9, <1>10, <1>11, StoodStays
     DEF ValuesInv, FromIndex, FromLatest, FromEns, FromPrepare, FromRows
<1> QED
  BY <1>2, <1>12

LEMMA NamesDone ==
    ASSUME CallInv, ValuesInv, RowsInv, Expanded
    PROVE  CallInv' /\ ValuesInv' /\ RowsInv'
<1>1. /\ stage = "ens" /\ stage' = "prepare" /\ Len(values.ens) = Len(call.sql.names)
      /\ UNCHANGED <<call, market, allowed, stood, out, values>>
  BY DEF Expanded, Resolved, worldVars, priceVars
<1>2. CallInv' /\ RowsInv'
  BY <1>1, CallGoesOn DEF FromKeep, FromIndex, FromLatest, FromEns, FromPrepare, FromRows
<1> QED
  BY <1>1, <1>2, StoodStays
     DEF ValuesInv, FromIndex, FromLatest, FromEns, FromPrepare, FromRows

\* The statement and its rows.
LEMMA RowsSelected ==
    ASSUME OutsideInv, CallInv, ValuesInv, RowsInv, Prepare
    PROVE  CallInv' /\ ValuesInv' /\ RowsInv'
<1>1. /\ stage = "prepare" /\ stage' = "rows"
      /\ UNCHANGED <<call, market, allowed, stood, out, values>>
      /\ authorize(call.sql)
      /\ snapshot' \in SetToSeqs(Selected(call.sql, held))
  BY DEF Prepare, worldVars, priceVars
<1>2. CallInv' /\ ValuesInv'
  BY <1>1, StoodStays DEF CallInv, ValuesInv, FromKeep, FromIndex, FromLatest, FromEns, FromPrepare, FromRows
<1>3. /\ call.sql.acts \subseteq Harmless
      /\ call.sql.reads \subseteq BUILTIN_TABLES \cup {"custom"}
  BY <1>1 DEF authorize, ValuesInv, FromIndex, FromLatest, FromEns, FromPrepare
<1> DEFINE S == Selected(call.sql, held)
<1>4. S \in SUBSET held
  BY DEF Selected
<1>5. IsFiniteSet(S) /\ S \subseteq Nat
  BY <1>4, FS_Subset DEF OutsideInv
<1>6. Cardinality(S) \in Nat
  BY <1>5, FS_CardinalityType
<1>7. /\ snapshot' \in [1 .. Cardinality(S) -> S]
      /\ \A i, j \in 1 .. Cardinality(S) : i # j => snapshot'[i] # snapshot'[j]
  BY <1>1 DEF SetToSeqs
<1> HIDE DEF S
<1>8. /\ snapshot' \in Seq(S) /\ Len(snapshot') = Cardinality(S)
      /\ snapshot' \in Seq(Nat)
  <2> DEFINE t == snapshot'
             n == Cardinality(S)
  <2>1. t \in [1 .. n -> S] /\ t \in [1 .. n -> Nat] /\ n \in Nat
    BY <1>5, <1>6, <1>7
  <2> HIDE DEF t, n
  <2>2. t \in Seq(S) /\ t \in Seq(Nat) /\ Len(t) = n
    BY <2>1
  <2> QED
    BY <2>2 DEF t, n
<1>9. \A i, j \in 1 .. Len(snapshot') : snapshot'[i] = snapshot'[j] => i = j
  BY <1>7, <1>8
<1>10. \A i \in 1 .. Len(snapshot') :
         /\ "latest" \in call.sql.macros => snapshot'[i] + Window > values.latest
         /\ values.block # None => snapshot'[i] = values.block
  BY <1>7, <1>8 DEF S, Selected
<1>11. out' = <<>>
  BY <1>1 DEF RowsInv, FromRows
<1>12. out' \in Seq(Nat) /\ Len(out') = 0
  BY <1>11, EmptySeq
<1>13. call.max_rows # None => 0 <= call.max_rows
  BY <1>1 DEF CallInv, IsRequest
<1>14. RowsInv'
  BY <1>1, <1>3, <1>6, <1>8, <1>9, <1>10, <1>11, <1>12, <1>13 DEF RowsInv, FromRows
<1> QED
  BY <1>2, <1>14

LEMMA RowTaken ==
    ASSUME CallInv, ValuesInv, RowsInv, Row
    PROVE  CallInv' /\ ValuesInv' /\ RowsInv'
<1>1. /\ stage = "rows" /\ stage' \in FromRows
      /\ UNCHANGED <<call, market, allowed, stood, values, snapshot>>
  BY DEF Row, worldVars, priceVars, FromRows
<1>2. CallInv' /\ ValuesInv'
  BY <1>1, StoodStays DEF CallInv, ValuesInv, FromKeep, FromIndex, FromLatest, FromEns, FromPrepare, FromRows
<1>3. CASE Len(out) = Len(snapshot) /\ stage' = "done" /\ UNCHANGED out
  BY <1>1, <1>2, <1>3 DEF RowsInv, FromRows
<1>4. CASE /\ Len(out) # Len(snapshot) /\ Len(out) # call.max_rows
           /\ out' = Append(out, snapshot[Len(out) + 1])
           /\ UNCHANGED stage
  <2>1. /\ snapshot \in Seq(Nat) /\ out \in Seq(Nat) /\ Len(out) <= Len(snapshot)
        /\ \A i \in 1 .. Len(out) : out[i] = snapshot[i]
        /\ call.max_rows # None => Len(out) <= call.max_rows
    BY <1>1 DEF RowsInv, FromRows
  <2>2. Len(out) \in Nat /\ Len(snapshot) \in Nat
    BY <2>1, LenProperties
  <2>3. Len(out) + 1 \in 1 .. Len(snapshot)
    BY <1>4, <2>1, <2>2
  <2>4. snapshot[Len(out) + 1] \in Nat
    BY <2>1, <2>3, ElementOfSeq
  <2>5. /\ out' \in Seq(Nat) /\ Len(out') = Len(out) + 1
        /\ \A i \in 1 .. Len(out) : out'[i] = out[i]
        /\ out'[Len(out) + 1] = snapshot[Len(out) + 1]
    BY <1>4, <2>1, <2>4, AppendProperties
  <2>6. \A i \in 1 .. Len(out') : out'[i] = snapshot[i]
    <3> SUFFICES ASSUME NEW i \in 1 .. Len(out')
                 PROVE  out'[i] = snapshot[i]
      OBVIOUS
    <3>1. i \in 1 .. Len(out) \/ i = Len(out) + 1
      BY <2>2, <2>5
    <3> QED
      BY <2>1, <2>5, <3>1
  <2>7. call.max_rows \in Nat \cup {None}
    BY <1>1 DEF CallInv, IsRequest
  <2>8. call.max_rows # None => Len(out') <= call.max_rows
    BY <1>4, <2>1, <2>2, <2>5, <2>7
  <2>9. Len(out') <= Len(snapshot)
    BY <2>3, <2>5
  <2>10. RowsInv'
    BY <1>1, <1>4, <2>5, <2>6, <2>8, <2>9 DEF RowsInv, FromRows
  <2> QED
    BY <1>2, <2>10
<1> QED
  BY <1>3, <1>4 DEF Row

\* The end of a request.
LEMMA CallEnds ==
    ASSUME NEW r, Reply(r)
    PROVE  CallInv' /\ ValuesInv' /\ RowsInv'
<1>1. stage' = "idle" /\ out' = <<>>
  BY DEF Reply
<1> QED
  BY <1>1 DEF CallInv, ValuesInv, RowsInv, FromKeep, FromIndex, FromLatest, FromEns,
              FromPrepare, FromRows

LEMMA ErrorSaid ==
    ASSUME NEW json \in BOOLEAN, Error(json), json \/ call.by = "web"
    PROVE  ReplyInv'
<1> DEFINE r == [kind |-> "error", by |-> call.by, json |-> json]
<1>1. reply' = IF call.by = "web" THEN api_json_errors(r) ELSE r
  BY DEF Error, Reply
<1>2. reply'.kind = "error" /\ (reply'.by = "web" => reply'.json)
  <2>1. CASE call.by = "web" /\ ~json
    <3>1. reply' = [r EXCEPT !.json = TRUE]
      BY <1>1, <2>1 DEF api_json_errors
    <3> QED
      BY <3>1
  <2>2. CASE call.by # "web" \/ json
    <3>1. reply' = r
      BY <1>1, <2>2 DEF api_json_errors
    <3> QED
      BY <2>2, <3>1
  <2> QED
    BY <2>1, <2>2
<1> HIDE DEF r
<1>3. AnswerIsWhole'
  BY <1>2 DEF AnswerIsWhole
<1> QED
  BY <1>2, <1>3 DEF ReplyInv

\* When every row is collected the answer is whole.
LEMMA AnswerSaid ==
    ASSUME OutsideInv, CallInv, ValuesInv, RowsInv, stage = "done",
           NEW kind \in {"answer", "receipt"}, NEW pinata,
           kind = "receipt" => call.by = "upload",
           MustShow(call) => out # <<>>,
           Reply(Answer(kind, pinata)),
           UNCHANGED <<worldVars, priceVars>>
    PROVE  ReplyInv'
<1> DEFINE r == Answer(kind, pinata)
           s == call.sql
<1>1. reply' = r
  BY DEF Reply, api_json_errors, Answer
<1>2. /\ r.kind = kind /\ r.of = call /\ r.rows = out /\ r.values = values
      /\ r.whole = snapshot
  BY DEF Answer
<1>3. IsRequest(call)
  BY DEF CallInv
<1>4. /\ snapshot \in Seq(Nat) /\ out \in Seq(Nat) /\ Len(out) = Len(snapshot)
      /\ \A i \in 1 .. Len(out) : out[i] = snapshot[i]
  BY DEF RowsInv, FromRows
<1>5. out = snapshot
  BY <1>4, SeqEqual
<1>6. DOMAIN out = 1 .. Len(out)
  BY <1>4, LenProperties
<1>7. "latest" \in s.macros => \A b \in ToSet(out) : b + Window > values.latest
  BY <1>5, <1>6 DEF RowsInv, FromRows, ToSet
<1>8. "price" \in s.macros => values.price # None \/ call.by = "display"
  BY DEF ValuesInv, FromEns, FromPrepare, FromRows
<1>9. call.by = "web" /\ call.price # None => values.price \in 1 .. market
  BY DEF ValuesInv, CallInv, Priced, FromKeep, FromIndex, FromLatest, FromEns, FromPrepare,
         FromRows
<1>10. call.by = "display" => \A i \in 1 .. Len(out) : out[i] = values.block
  <2> SUFFICES ASSUME call.by = "display"
               PROVE  \A i \in 1 .. Len(out) : out[i] = values.block
    OBVIOUS
  <2>1. values.block \in Nat
    BY DEF ValuesInv, FromLatest, FromEns, FromPrepare, FromRows
  <2>2. values.block # None
    BY <2>1, NoneAssumption
  <2> QED
    BY <1>5, <2>2 DEF RowsInv, FromRows
<1>11. call.by = "display" => ToSet(out) \subseteq {values.block}
  BY <1>6, <1>10 DEF ToSet
<1>12. MustShow(call) => out = <<values.block>>
  <2> SUFFICES ASSUME MustShow(call) PROVE out = <<values.block>>
    OBVIOUS
  <2>1. call.by = "display" /\ out # <<>>
    BY <1>3 DEF MustShow, IsRequest
  <2>2. Len(out) \in Nat \ {0}
    BY <1>4, <2>1, EmptySeq
  <2>3. \A i \in 1 .. Len(out) : i = 1
    <3> SUFFICES ASSUME NEW i \in 1 .. Len(out) PROVE i = 1
      OBVIOUS
    <3>1. 1 \in 1 .. Len(out)
      BY <2>2
    <3>2. out[i] = out[1]
      BY <1>10, <2>1, <3>1
    <3> QED
      BY <1>5, <3>1, <3>2 DEF RowsInv, FromRows
  <2>4. Len(out) = 1
    BY <2>2, <2>3
  <2>5. values.block \in Nat
    BY <1>4, <1>10, <2>1, <2>4, ElementOfSeq
  <2>6. out[1] = values.block
    BY <1>10, <2>1, <2>4
  <2>7. /\ <<values.block>> \in Seq(Nat) /\ Len(<<values.block>>) = 1
        /\ <<values.block>>[1] = values.block
    BY <2>5
  <2> QED
    BY <1>4, <2>4, <2>6, <2>7, SeqEqual
<1>13. /\ Len(values.ens) = Len(s.names)
       /\ \A i \in 1 .. Len(values.ens) :
            values.ens[i] \in HasStood(to_lowercase[s.names[i]])
       /\ DOMAIN s.names = 1 .. Len(s.names)
  <2>1. s.names \in Seq(Names)
    BY <1>3 DEF IsRequest
  <2>2. DOMAIN s.names = 1 .. Len(s.names)
    BY <2>1, LenProperties
  <2> QED
    BY <2>2 DEF ValuesInv, FromIndex, FromLatest, FromEns, FromPrepare, FromRows
<1>14. /\ s.acts \subseteq Harmless
       /\ s.reads \subseteq BUILTIN_TABLES \cup {"custom"}
       /\ call.max_rows # None => Len(out) <= call.max_rows
  BY DEF RowsInv, FromRows
<1>15. market' = market /\ stood' = stood
  BY DEF worldVars, priceVars
<1> HIDE DEF r
<1>16. AnswerIsWhole'
  BY <1>1, <1>2, <1>5, <1>7, <1>8, <1>9, <1>11, <1>12, <1>13, <1>14, <1>15, StoodStays
     DEF AnswerIsWhole
<1> QED
  BY <1>1, <1>2, <1>3, <1>16 DEF ReplyInv

-----------------------------------------------------------------------------
\* One step of a request, or of the world around it.
LEMMA AnswerKeeps == AnswerInv /\ [AnswerStep]_answerVars => AnswerInv'
<1> SUFFICES ASSUME OutsideInv, CallInv, ValuesInv, RowsInv, ReplyInv,
                    [AnswerStep]_answerVars
             PROVE  AnswerInv'
  BY DEF AnswerInv
<1>1. CASE World \/ UpdatePricesCache \/ UNCHANGED answerVars
  <2>1. OutsideInv' /\ Grows
    BY <1>1, WorldGrows, PricesGrow, OutsideStays DEF answerVars
  <2>2. UNCHANGED <<call, stage, allowed, values, snapshot, out, reply>>
    BY <1>1 DEF World, UpdatePricesCache, answerVars
  <2>3. CallInv' /\ ValuesInv' /\ RowsInv'
    BY <2>1, <2>2, ValuesStay
  <2>4. ReplyInv'
    BY <2>1, <2>2, ReplyStays
  <2> QED
    BY <2>1, <2>3, <2>4 DEF AnswerInv
<1>2. CASE Fails \/ Refuse
  <2>1. UNCHANGED <<worldVars, priceVars, disk, memory>>
    BY <1>2 DEF Fails, Refuse
  <2>2. OutsideInv'
    BY <2>1, OutsideStays
  <2>3. PICK json \in BOOLEAN : Error(json) /\ (json \/ call.by = "web")
    BY <1>2 DEF Fails, Refuse
  <2>4. CallInv' /\ ValuesInv' /\ RowsInv'
    BY <2>3, CallEnds DEF Error
  <2>5. ReplyInv'
    BY <2>3, ErrorSaid
  <2> QED
    BY <2>2, <2>4, <2>5 DEF AnswerInv
<1>3. CASE Ask
  <2>1. reply' = NoReply
    BY <1>3 DEF Ask
  <2> QED
    BY <1>3, <2>1, AskForgets, CallStarts, NothingSaid DEF AnswerInv
<1>4. CASE KeepQuote \/ IndexRange \/ IndexBlock \/ EnsCached \/ EnsLookup
  <2>1. OutsideInv' /\ Grows
    BY <1>4, QuoteKept, RangeHeld, BlockHeld, NamesHeld
  <2>2. CallInv' /\ ValuesInv' /\ RowsInv'
    BY <1>4, QuoteStays, IndexGoesOn, NameGoesOn
  <2>3. reply' = reply
    BY <1>4 DEF KeepQuote, IndexRange, IndexBlock, EnsCached, EnsLookup
  <2> QED
    BY <2>1, <2>2, <2>3, ReplyStays DEF AnswerInv
<1>5. CASE \/ GetCryptoPrices \/ GetDeps \/ ExpandLatest \/ ExpandPrice
           \/ Expanded \/ Prepare \/ Row
  <2>1. UNCHANGED <<worldVars, priceVars, disk, memory, reply>>
    BY <1>5 DEF GetCryptoPrices, GetDeps, ExpandLatest, ExpandPrice, Expanded, Prepare, Row
  <2>2. OutsideInv' /\ Grows
    BY <2>1, OutsideStays
  <2>3. CallInv' /\ ValuesInv' /\ RowsInv'
    BY <1>5, QuoteTaken, DepsTaken, LatestGoesOn, PriceGoesOn, NamesDone, RowsSelected,
       RowTaken
  <2> QED
    BY <2>1, <2>2, <2>3, ReplyStays DEF AnswerInv
<1>6. CASE Respond \/ Upload
  <2>1. stage = "done" /\ UNCHANGED <<worldVars, priceVars, disk, memory>>
    BY <1>6 DEF Respond, Upload
  <2>2. OutsideInv'
    BY <2>1, OutsideStays
  <2>3. PICK kind \in {"answer", "receipt"} :
          /\ kind = "receipt" => call.by = "upload"
          /\ MustShow(call) => out # <<>>
          /\ \E pinata : Reply(Answer(kind, pinata))
    <3>1. CASE Respond
      BY <3>1 DEF Respond
    <3>2. CASE Upload
      <4>1. ~MustShow(call)
        BY <2>1, <3>2 DEF Upload, MustShow, CallInv, IsRequest
      <4> QED
        BY <3>2, <4>1 DEF Upload
    <3> QED
      BY <1>6, <3>1, <3>2
  <2>4. PICK pinata : Reply(Answer(kind, pinata))
    BY <2>3
  <2>5. CallInv' /\ ValuesInv' /\ RowsInv'
    BY <2>4, CallEnds
  <2>6. ReplyInv'
    BY <2>1, <2>3, <2>4, AnswerSaid
  <2> QED
    BY <2>2, <2>5, <2>6 DEF AnswerInv
<1> QED
  BY <1>1, <1>2, <1>3, <1>4, <1>5, <1>6 DEF AnswerStep

LEMMA AnswerStarts == AnswerInit => AnswerInv
<1> SUFFICES ASSUME AnswerInit PROVE AnswerInv
  OBVIOUS
<1>1. CallInv /\ ValuesInv /\ RowsInv
  BY DEF AnswerInit, CallInv, ValuesInv, RowsInv, FromKeep, FromIndex, FromLatest, FromEns,
         FromPrepare, FromRows
<1>2. ReplyInv
  BY DEF AnswerInit, NoReply, ReplyInv, AnswerIsWhole
<1> QED
  BY <1>1, <1>2, OutsideStarts DEF AnswerInv

\* Whatever the chain, the prices, the names and the database do while a request is
\* worked on: an answer has every row its statement selects in one state of the
\* database, what stands for its macros is what they mean, and a display shows its block.
THEOREM AnswersAlwaysWhole == PathSpec => []AnswerIsWhole
<1>1. PathInit => AnswerInv
  BY AnswerStarts DEF PathInit
<1>2. AnswerInv /\ [PathNext]_<<vars, columnVars, seedVars, answerVars, decodeVars>> => AnswerInv'
  BY PathParts, AnswerKeeps
<1>3. AnswerInv => AnswerIsWhole
  BY DEF AnswerInv, ReplyInv
<1> QED
  BY <1>1, <1>2, <1>3, PTL DEF PathSpec


-----------------------------------------------------------------------------
(***************************************************************************)
(* The signatures database: however often a seeding is killed and the      *)
(* export published anew, one that ends well has joined its files.         *)
(***************************************************************************)

SeedRows ==
    UNION {UNION {UNION {ToSet(Exports[n][k][f]) : f \in DOMAIN Exports[n][k]} : k \in Kinds} :
            n \in DOMAIN Exports}
IsPublished(k, f, c) == \E n \in DOMAIN Exports : f \in DOMAIN Exports[n][k] /\ Exports[n][k][f] = c

\* The rows of some files of a kind.
RowsIn(copies, files) == UNION {ToSet(copies[f]) : f \in files}

\* What is on disk is whole.
DiskInv ==
    /\ export \in DOMAIN Exports
    /\ DOMAIN kept = Kinds /\ DOMAIN listed = Kinds
    /\ \A k \in Kinds :
        /\ DOMAIN kept[k] = Files
        /\ listed[k] \subseteq Files /\ IsFiniteSet(listed[k])
        /\ \A f \in Files : kept[k][f] # NoFile => IsPublished(k, f, kept[k][f])

\* A listed file is on disk from the time its kind is downloaded.
Ended == step = "done" /\ signatures
HasDictionary == step = "insert" \/ Ended
HasCompiled == step \in {"learn", "dictionary"} \/ HasDictionary
TodoInv ==
    /\ step = "chains" => todo \in Seq(ToSet(ChainList))
    /\ step \in Kinds \cup {"learn", "insert"} => todo \in Seq(Files) /\ signatures
    /\ step \in Kinds =>
        /\ ToSet(todo) \subseteq listed[step]
        /\ \A f \in listed[step] : f \in ToSet(todo) \/ kept[step][f] # NoFile
    /\ HasCompiled => \A f \in listed["compiled"] : kept["compiled"][f] # NoFile
    /\ HasDictionary => \A f \in listed["dictionary"] : kept["dictionary"][f] # NoFile
    /\ step = "learn" => ToSet(todo) \subseteq listed["compiled"]
    /\ step = "insert" => ToSet(todo) \subseteq listed["dictionary"]
    /\ unread \in Seq(SeedRows)
    /\ step \notin {"learn", "insert"} => unread = <<>>
    /\ step = "learn" => ToSet(unread) \subseteq RowsIn(kept["compiled"], listed["compiled"])
    /\ step = "insert" => ToSet(unread) \subseteq RowsIn(kept["dictionary"], listed["dictionary"])

\* The type map has no type without a row that gives it, and misses none that has
\* been read.
SigTypes == {"function", "event"}
Sound(known, C) ==
    \A h \in DOMAIN known :
        /\ known[h] \in SigTypes \cup {"both"}
        /\ \A t \in SigTypes : known[h] \in {t, "both"} => \E c \in C : c.hash = h /\ c.type = t
Knows(known, c) ==
    c.type \in SigTypes => c.hash \in DOMAIN known /\ known[c.hash] \in {c.type, "both"}
LearnInv ==
    LET C == RowsIn(kept["compiled"], listed["compiled"]) IN
    /\ step \in {"chains", "compiled"} => types = <<>>
    /\ HasCompiled => Sound(types, C)
    /\ step = "learn" =>
        \A f \in listed["compiled"] :
            \/ f \in ToSet(todo)
            \/ \A c \in ToSet(kept["compiled"][f]) : c \in ToSet(unread) \/ Knows(types, c)
    /\ step = "dictionary" \/ HasDictionary => \A c \in C : Knows(types, c)

\* A row of the dictionary is in the table of its type, in the transaction, or lost.
Typed(known, r, t) == r.hash \in DOMAIN known /\ known[r.hash] \in {t, "both"}
InTable(known, D, t) == {r \in D : Typed(known, r, t)}
Methods == methods \cup pending.methods \cup lost.methods
Events == events \cup pending.events \cup lost.events
InsertInv ==
    LET D == RowsIn(kept["dictionary"], listed["dictionary"]) IN
    /\ step # "insert" => pending = NoRows
    /\ step \in {"chains", "learn"} \cup Kinds /\ signatures => Methods = {} /\ Events = {}
    /\ step = "insert" =>
        /\ Methods \subseteq InTable(types, D, "function")
        /\ Events \subseteq InTable(types, D, "event")
        /\ \A f \in listed["dictionary"] :
            \/ f \in ToSet(todo)
            \/ \A r \in ToSet(kept["dictionary"][f]) :
                \/ r \in ToSet(unread)
                \/ /\ Typed(types, r, "function") => r \in Methods
                   /\ Typed(types, r, "event") => r \in Events
    /\ Ended =>
        /\ methods \cup lost.methods = InTable(types, D, "function")
        /\ events \cup lost.events = InTable(types, D, "event")

SeedInv == DiskInv /\ TodoInv /\ LearnInv /\ InsertInv

LEMMA HeadAndTail ==
    ASSUME NEW S, NEW s \in Seq(S), s # <<>>
    PROVE  /\ Head(s) \in S /\ Tail(s) \in Seq(S)
           /\ ToSet(s) = {Head(s)} \cup ToSet(Tail(s))
<1>1. Len(s) \in Nat \ {0}
  BY EmptySeq
<1>2. /\ Head(s) \in S /\ Tail(s) \in Seq(S)
      /\ Len(Tail(s)) = Len(s) - 1
      /\ \A i \in 1 .. Len(Tail(s)) : Tail(s)[i] = s[i + 1]
  BY HeadTailProperties
<1>3. DOMAIN s = 1 .. Len(s) /\ DOMAIN Tail(s) = 1 .. Len(s) - 1
  BY <1>2, LenProperties
<1>4. Head(s) = s[1]
  OBVIOUS
<1>5. ASSUME NEW i \in DOMAIN s PROVE s[i] \in {Head(s)} \cup ToSet(Tail(s))
  <2>1. CASE i = 1
    BY <1>4, <2>1
  <2>2. CASE i # 1
    <3> DEFINE j == i - 1
    <3>1. j \in DOMAIN Tail(s) /\ i = j + 1
      BY <1>1, <1>3, <2>2
    <3>2. s[i] = Tail(s)[j]
      BY <1>1, <1>2, <1>3, <3>1
    <3> QED
      BY <3>1, <3>2 DEF ToSet
  <2> QED
    BY <2>1, <2>2
<1>6. ASSUME NEW j \in DOMAIN Tail(s) PROVE Tail(s)[j] \in ToSet(s)
  <2>1. j + 1 \in DOMAIN s /\ Tail(s)[j] = s[j + 1]
    BY <1>1, <1>2, <1>3
  <2> QED
    BY <2>1 DEF ToSet
<1>7. Head(s) \in ToSet(s)
  BY <1>1, <1>3, <1>4 DEF ToSet
<1> QED
  BY <1>2, <1>5, <1>6, <1>7 DEF ToSet

LEMMA NothingIn == ToSet(<<>>) = {}
BY DEF ToSet

\* A sequence of a set's elements has them all.
LEMMA ListsAll ==
    ASSUME NEW S, IsFiniteSet(S), NEW t \in SetToSeqs(S)
    PROVE  t \in Seq(S) /\ ToSet(t) = S
<1> DEFINE n == Cardinality(S)
<1>1. n \in Nat
  BY FS_CardinalityType
<1>2. t \in [1 .. n -> S] /\ \A i, j \in 1 .. n : i # j => t[i] # t[j]
  BY DEF SetToSeqs
<1>3. t \in Injection(1 .. n, S)
  BY <1>2 DEF Injection, IsInjective
<1>4. IsFiniteSet(1 .. n) /\ Cardinality(1 .. n) = n
  BY <1>1, FS_Interval
<1>5. t \in Surjection(1 .. n, S)
  BY <1>3, <1>4, FS_Injection
<1> HIDE DEF n
<1>6. t \in Seq(S)
  BY <1>1, <1>2
<1>7. ToSet(t) = S
  BY <1>2, <1>5 DEF ToSet, Surjection
<1> QED
  BY <1>6, <1>7

LEMMA PublishedFits ==
    ASSUME NEW k \in Kinds, NEW f, NEW c, IsPublished(k, f, c)
    PROVE  c \in Seq(SeedRows) /\ c # NoFile /\ f \in Files
<1>1. PICK n \in DOMAIN Exports : f \in DOMAIN Exports[n][k] /\ Exports[n][k][f] = c
  BY DEF IsPublished
<1>2. c # NoFile /\ c \in Seq(ToSet(c))
  BY <1>1, ExportsAssumption
<1>3. ToSet(c) \subseteq SeedRows
  BY <1>1 DEF SeedRows
<1>4. c \in Seq(SeedRows)
  <2>1. Len(c) \in Nat /\ c \in [1 .. Len(c) -> ToSet(c)]
    BY <1>2, LenProperties
  <2>2. c \in [1 .. Len(c) -> SeedRows]
    BY <1>3, <2>1
  <2> QED
    BY <2>1, <2>2
<1> QED
  BY <1>1, <1>2, <1>4 DEF Files

\* One row more is learnt.
LEMMA LearnAdds ==
    ASSUME NEW known, NEW C, Sound(known, C), NEW c \in C
    PROVE  /\ Sound(Learn(known, c), C)
           /\ Knows(Learn(known, c), c)
           /\ \A d : Knows(known, d) => Knows(Learn(known, c), d)
<1>1. CASE c.type \notin SigTypes
  BY <1>1 DEF Learn, SigTypes, Knows
<1>2. CASE c.type \in SigTypes
  <2> DEFINE more == Learn(known, c)
  <2>1. /\ DOMAIN more = DOMAIN known \cup {c.hash}
        /\ \A h \in DOMAIN known : h # c.hash => more[h] = known[h]
        /\ c.hash \notin DOMAIN known => more[c.hash] = c.type
        /\ c.hash \in DOMAIN known =>
            more[c.hash] = IF known[c.hash] = c.type THEN c.type ELSE "both"
    BY <1>2 DEF Learn, SigTypes
  <2> HIDE DEF more
  <2>2. Knows(more, c)
    BY <2>1 DEF Knows
  <2>3. ASSUME NEW d, Knows(known, d) PROVE Knows(more, d)
    BY <1>2, <2>1, <2>3 DEF Knows, SigTypes
  <2>4. ASSUME NEW h \in DOMAIN more
        PROVE  /\ more[h] \in SigTypes \cup {"both"}
               /\ \A t \in SigTypes : more[h] \in {t, "both"} =>
                    \E r \in C : r.hash = h /\ r.type = t
    <3>1. CASE h # c.hash
      BY <2>1, <3>1 DEF Sound
    <3>2. CASE h = c.hash /\ h \notin DOMAIN known
      BY <1>2, <2>1, <3>2 DEF SigTypes
    <3>3. CASE h = c.hash /\ h \in DOMAIN known /\ known[h] = c.type
      BY <1>2, <2>1, <3>3 DEF SigTypes
    <3>4. CASE h = c.hash /\ h \in DOMAIN known /\ known[h] # c.type
      <4>1. more[h] = "both"
        BY <2>1, <3>4
      <4>2. ASSUME NEW t \in SigTypes PROVE \E r \in C : r.hash = h /\ r.type = t
        <5>1. CASE t = c.type
          BY <3>4, <5>1
        <5>2. CASE t # c.type
          <6>1. known[h] \in {t, "both"}
            BY <1>2, <3>4, <5>2 DEF Sound, SigTypes
          <6> QED
            BY <3>4, <6>1 DEF Sound
        <5> QED
          BY <5>1, <5>2
      <4> QED
        BY <4>1, <4>2
    <3> QED
      BY <3>1, <3>2, <3>3, <3>4
  <2>5. Sound(more, C)
    BY <2>4 DEF Sound
  <2> QED
    BY <2>2, <2>3, <2>5 DEF more
<1> QED
  BY <1>1, <1>2

LEMMA SeedStarts == SeedInit => SeedInv
<1> SUFFICES ASSUME SeedInit PROVE SeedInv
  OBVIOUS
<1>1. 1 \in DOMAIN Exports
  <2>1. Len(Exports) \in Nat \ {0} /\ DOMAIN Exports = 1 .. Len(Exports)
    BY ExportsAssumption, EmptySeq, LenProperties
  <2> QED
    BY <2>1
<1>2. DiskInv
  BY <1>1, FS_EmptySet DEF SeedInit, DiskInv, NoListing
<1>3. TodoInv
  BY EmptySeq DEF SeedInit, TodoInv, HasCompiled, HasDictionary, Ended, Kinds
<1>4. LearnInv /\ InsertInv
  BY DEF SeedInit, LearnInv, InsertInv, HasCompiled, HasDictionary, Ended, Kinds
<1> QED
  BY <1>2, <1>3, <1>4 DEF SeedInv

\* The invariant does not speak of chains, of the part file and of the counters.
workVars == <<kept, listed, step, signatures, todo, unread, types, methods, events, pending, lost>>
LEMMA NothingDone ==
    ASSUME SeedInv, UNCHANGED workVars, export' \in DOMAIN Exports
    PROVE  SeedInv'
<1>1. DiskInv'
  BY DEF SeedInv, DiskInv, workVars
<1>2. TodoInv'
  BY DEF SeedInv, TodoInv, workVars, HasCompiled, HasDictionary, Ended
<1>3. LearnInv'
  BY DEF SeedInv, LearnInv, workVars, HasCompiled, HasDictionary, Ended
<1>4. InsertInv'
  BY DEF SeedInv, InsertInv, workVars, Ended, Methods, Events
<1> QED
  BY <1>1, <1>2, <1>3, <1>4 DEF SeedInv

LEMMA ExportGoesOn == SeedInv /\ NewExport => SeedInv'
<1> SUFFICES ASSUME SeedInv, NewExport PROVE SeedInv'
  OBVIOUS
<1>1. export' \in DOMAIN Exports
  <2>1. DOMAIN Exports = 1 .. Len(Exports) /\ Len(Exports) \in Nat
    BY ExportsAssumption, LenProperties
  <2> QED
    BY <2>1 DEF NewExport, SeedInv, DiskInv
<1>2. UNCHANGED workVars
  BY DEF NewExport, workVars, tableVars
<1> QED
  BY <1>1, <1>2, NothingDone

LEMMA SeedingBegins == SeedInv /\ BeginSeeding => SeedInv'
<1> SUFFICES ASSUME SeedInv, BeginSeeding PROVE SeedInv'
  OBVIOUS
<1>1. /\ step' = "chains" /\ step \notin {"learn", "insert"}
      /\ todo' = ChainList /\ listed' = NoListing /\ types' = <<>> /\ lost' = NoRows
      /\ UNCHANGED <<export, kept, unread, pending>>
      /\ signatures' => methods' = {} /\ events' = {}
  BY DEF BeginSeeding
<1>2. DiskInv'
  BY <1>1, FS_EmptySet DEF SeedInv, DiskInv, NoListing
<1>3. TodoInv'
  BY <1>1, ChainListAssumption
     DEF SeedInv, TodoInv, HasCompiled, HasDictionary, Ended, Kinds
<1>4. LearnInv'
  BY <1>1 DEF LearnInv, HasCompiled, HasDictionary, Ended
<1>5. InsertInv'
  <2>1. pending' = NoRows
    BY <1>1 DEF SeedInv, InsertInv
  <2>2. signatures' => (Methods = {} /\ Events = {})'
    BY <1>1, <2>1 DEF Methods, Events, NoRows
  <2> QED
    BY <1>1, <2>1, <2>2 DEF InsertInv, Ended
<1> QED
  BY <1>2, <1>3, <1>4, <1>5 DEF SeedInv

LEMMA SeedingEnds == SeedInv /\ Kill => SeedInv'
<1> SUFFICES ASSUME SeedInv, Kill PROVE SeedInv'
  OBVIOUS
<1>1. /\ step' = "off" /\ unread' = <<>> /\ listed' = NoListing /\ pending' = NoRows
      /\ UNCHANGED <<export, kept>>
  BY DEF Kill
<1>2. DiskInv'
  BY <1>1, FS_EmptySet DEF SeedInv, DiskInv, NoListing
<1>3. TodoInv'
  BY <1>1, EmptySeq DEF TodoInv, HasCompiled, HasDictionary, Ended, Kinds
<1>4. LearnInv' /\ InsertInv'
  BY <1>1 DEF LearnInv, InsertInv, HasCompiled, HasDictionary, Ended, Kinds
<1> QED
  BY <1>2, <1>3, <1>4 DEF SeedInv

LEMMA ChainTaken == SeedInv /\ SeedChain => SeedInv'
<1> SUFFICES ASSUME SeedInv, SeedChain PROVE SeedInv'
  OBVIOUS
<1>1. /\ step = "chains" /\ todo' = Tail(todo) /\ todo # <<>>
      /\ UNCHANGED <<export, kept, listed, step, signatures, unread, types, methods, events,
                     pending, lost>>
  BY DEF SeedChain
<1>2. todo' \in Seq(ToSet(ChainList))
  BY <1>1, HeadAndTail DEF SeedInv, TodoInv
<1>3. DiskInv'
  BY <1>1 DEF SeedInv, DiskInv
<1>4. TodoInv'
  BY <1>1, <1>2 DEF SeedInv, TodoInv, HasCompiled, HasDictionary, Ended, Kinds
<1>5. LearnInv' /\ InsertInv'
  BY <1>1 DEF SeedInv, LearnInv, InsertInv, HasCompiled, HasDictionary, Ended, Methods, Events,
              Kinds
<1> QED
  BY <1>3, <1>4, <1>5 DEF SeedInv

\* A listing: every file is still to come.
LEMMA FilesListed ==
    ASSUME DiskInv, NEW kind \in Kinds, List(kind), UNCHANGED <<export, kept>>
    PROVE  /\ DiskInv'
           /\ step' = kind /\ todo' \in Seq(Files) /\ ToSet(todo') = listed'[kind]
           /\ \A k \in Kinds \ {kind} : listed'[k] = listed[k]
<1> DEFINE files == DOMAIN Exports[export][kind]
<1>1. step' = kind /\ listed' = [listed EXCEPT ![kind] = files] /\ todo' \in SetToSeqs(files)
  BY DEF List
<1>2. IsFiniteSet(files) /\ files \subseteq Files
  BY ExportsAssumption DEF DiskInv, Files
<1>3. todo' \in Seq(files) /\ ToSet(todo') = files
  BY <1>1, <1>2, ListsAll
<1>4. todo' \in Seq(Files)
  <2>1. Len(todo') \in Nat /\ todo' \in [1 .. Len(todo') -> files]
    BY <1>3, LenProperties
  <2>2. todo' \in [1 .. Len(todo') -> Files]
    BY <1>2, <2>1
  <2> QED
    BY <2>1, <2>2
<1> HIDE DEF files
<1>5. /\ DOMAIN listed' = Kinds /\ listed'[kind] = files
      /\ \A k \in Kinds \ {kind} : listed'[k] = listed[k]
  BY <1>1 DEF DiskInv
<1>6. DiskInv'
  BY <1>2, <1>5 DEF DiskInv
<1> QED
  BY <1>1, <1>3, <1>4, <1>5, <1>6

LEMMA ChainsDone == SeedInv /\ ChainsSeeded => SeedInv'
<1> SUFFICES ASSUME SeedInv, ChainsSeeded PROVE SeedInv'
  OBVIOUS
<1>1. /\ step = "chains"
      /\ UNCHANGED <<export, kept, signatures, unread, types, methods, events, pending, lost>>
  BY DEF ChainsSeeded, tableVars
<1>2. unread' = <<>> /\ unread' \in Seq(SeedRows) /\ types' = <<>> /\ pending' = NoRows
  BY <1>1, EmptySeq DEF SeedInv, TodoInv, LearnInv, InsertInv
<1>3. CASE signatures
  <2>1. List("compiled") /\ "compiled" \in Kinds
    BY <1>3 DEF ChainsSeeded, Kinds
  <2>2. /\ DiskInv'
        /\ step' = "compiled" /\ todo' \in Seq(Files) /\ ToSet(todo') = listed'["compiled"]
    BY <1>1, <2>1, FilesListed DEF SeedInv
  <2>3. TodoInv'
    BY <1>1, <1>2, <1>3, <2>2 DEF TodoInv, HasCompiled, HasDictionary, Ended, Kinds
  <2>4. LearnInv'
    BY <1>2, <2>2 DEF LearnInv, HasCompiled, HasDictionary, Ended
  <2>5. InsertInv'
    BY <1>1, <1>3, <2>2 DEF SeedInv, InsertInv, Ended, Methods, Events
  <2> QED
    BY <2>2, <2>3, <2>4, <2>5 DEF SeedInv
<1>4. CASE ~signatures
  <2>1. step' = "done" /\ UNCHANGED <<todo, listed>>
    BY <1>4 DEF ChainsSeeded
  <2>2. DiskInv'
    BY <1>1, <2>1 DEF SeedInv, DiskInv
  <2>3. TodoInv'
    BY <1>1, <1>2, <1>4, <2>1 DEF TodoInv, HasCompiled, HasDictionary, Ended, Kinds
  <2>4. LearnInv' /\ InsertInv'
    BY <1>1, <1>2, <1>4, <2>1 DEF LearnInv, InsertInv, HasCompiled, HasDictionary, Ended, Kinds
  <2> QED
    BY <2>2, <2>3, <2>4 DEF SeedInv
<1> QED
  BY <1>3, <1>4

\* A file less to fetch: it is on disk by now.
LEMMA FileTaken == SeedInv /\ (TakeKept \/ RenamePart) => SeedInv'
<1> SUFFICES ASSUME SeedInv, TakeKept \/ RenamePart PROVE SeedInv'
  OBVIOUS
<1> DEFINE f == Head(todo)
<1>1. /\ step \in Kinds /\ todo # <<>> /\ todo' = Tail(todo)
      /\ UNCHANGED <<export, listed, step, signatures, unread, types, methods, events, pending,
                     lost>>
  BY DEF TakeKept, RenamePart, Fetching, tableVars
<1>2. /\ todo \in Seq(Files) /\ signatures
      /\ ToSet(todo) \subseteq listed[step]
      /\ \A g \in listed[step] : g \in ToSet(todo) \/ kept[step][g] # NoFile
  BY <1>1 DEF SeedInv, TodoInv
<1>3. f \in Files /\ todo' \in Seq(Files) /\ ToSet(todo) = {f} \cup ToSet(todo')
  BY <1>1, <1>2, HeadAndTail
<1>4. /\ DOMAIN kept' = Kinds
      /\ \A k \in Kinds : DOMAIN kept'[k] = Files
      /\ \A k \in Kinds \ {step} : kept'[k] = kept[k]
      /\ \A g \in Files \ {f} : kept'[step][g] = kept[step][g]
      /\ kept'[step][f] # NoFile /\ IsPublished(step, f, kept'[step][f])
  <2>1. CASE TakeKept
    <3>1. kept' = kept /\ kept[step][f] # NoFile
      BY <2>1 DEF TakeKept, OnDisk
    <3> QED
      BY <1>1, <1>3, <3>1 DEF SeedInv, DiskInv
  <2>2. CASE RenamePart
    <3> DEFINE c == Exports[export][step][f]
    <3>1. kept' = [kept EXCEPT ![step][f] = c] /\ f \in DOMAIN Exports[export][step]
      BY <2>2 DEF RenamePart, Served
    <3>2. IsPublished(step, f, c)
      BY <3>1 DEF IsPublished, SeedInv, DiskInv
    <3>3. c # NoFile
      BY <1>1, <3>2, PublishedFits
    <3> HIDE DEF c
    <3>4. DOMAIN kept = Kinds /\ \A k \in Kinds : DOMAIN kept[k] = Files
      BY DEF SeedInv, DiskInv
    <3>5. kept'[step][f] = c
      BY <1>1, <1>3, <3>1, <3>4
    <3>6. /\ DOMAIN kept' = Kinds
          /\ \A k \in Kinds : DOMAIN kept'[k] = Files
          /\ \A k \in Kinds \ {step} : kept'[k] = kept[k]
          /\ \A g \in Files \ {f} : kept'[step][g] = kept[step][g]
      BY <1>1, <1>3, <3>1, <3>4
    <3> QED
      BY <3>2, <3>3, <3>5, <3>6
  <2> QED
    BY <2>1, <2>2
<1> HIDE DEF f
<1>5. DiskInv'
  <2> SUFFICES ASSUME NEW k \in Kinds, NEW g \in Files, kept'[k][g] # NoFile
               PROVE  IsPublished(k, g, kept'[k][g])
    BY <1>1, <1>4 DEF SeedInv, DiskInv
  <2>1. CASE k = step /\ g = f
    BY <1>4, <2>1
  <2>2. CASE ~(k = step /\ g = f)
    <3>1. kept'[k][g] = kept[k][g]
      BY <1>4, <2>2
    <3> QED
      BY <3>1 DEF SeedInv, DiskInv
  <2> QED
    BY <2>1, <2>2
<1>6. step = "dictionary" => kept'["compiled"] = kept["compiled"]
  BY <1>4 DEF Kinds
<1>7. TodoInv'
  <2>1. /\ ToSet(todo') \subseteq listed[step]
        /\ \A g \in listed[step] : g \in ToSet(todo') \/ kept'[step][g] # NoFile
    <3>1. listed[step] \subseteq Files
      BY <1>1 DEF SeedInv, DiskInv
    <3> QED
      BY <1>2, <1>3, <1>4, <3>1
  <2>2. HasCompiled' => \A g \in listed["compiled"] : kept'["compiled"][g] # NoFile
    BY <1>1, <1>6 DEF SeedInv, TodoInv, HasCompiled, HasDictionary, Ended, Kinds
  <2>3. unread' \in Seq(SeedRows) /\ unread' = <<>>
    BY <1>1 DEF SeedInv, TodoInv, Kinds
  <2> QED
    BY <1>1, <1>2, <1>3, <2>1, <2>2, <2>3 DEF TodoInv, HasDictionary, Ended, Kinds
<1>8. LearnInv'
  BY <1>1, <1>6 DEF SeedInv, LearnInv, HasCompiled, HasDictionary, Ended, Kinds
<1>9. InsertInv'
  BY <1>1 DEF SeedInv, InsertInv, Ended, Methods, Events, Kinds
<1> QED
  BY <1>5, <1>7, <1>8, <1>9 DEF SeedInv

\* The files are read.
LEMMA FilesRead == SeedInv /\ ReadFiles => SeedInv'
<1> SUFFICES ASSUME SeedInv, ReadFiles PROVE SeedInv'
  OBVIOUS
<1>1. /\ step \in Kinds /\ todo = <<>>
      /\ step' = IF step = "compiled" THEN "learn" ELSE "insert"
      /\ todo' \in SetToSeqs(listed[step])
      /\ UNCHANGED <<export, kept, listed, signatures, unread, types, methods, events, pending,
                     lost>>
  BY DEF ReadFiles, tableVars
<1>2. IsFiniteSet(listed[step]) /\ listed[step] \subseteq Files
  BY <1>1 DEF SeedInv, DiskInv
<1>3. todo' \in Seq(listed[step]) /\ ToSet(todo') = listed[step]
  BY <1>1, <1>2, ListsAll
<1>4. todo' \in Seq(Files)
  <2>1. Len(todo') \in Nat /\ todo' \in [1 .. Len(todo') -> listed[step]]
    BY <1>3, LenProperties
  <2>2. todo' \in [1 .. Len(todo') -> Files]
    BY <1>2, <2>1
  <2> QED
    BY <2>1, <2>2
<1>5. /\ signatures /\ unread = <<>> /\ unread \in Seq(SeedRows)
      /\ \A f \in listed[step] : kept[step][f] # NoFile
      /\ step = "dictionary" => \A f \in listed["compiled"] : kept["compiled"][f] # NoFile
  <2>1. \A f \in listed[step] : f \in ToSet(todo) \/ kept[step][f] # NoFile
    BY <1>1 DEF SeedInv, TodoInv
  <2>2. ToSet(todo) = {}
    BY <1>1, NothingIn
  <2>3. \A f \in listed[step] : kept[step][f] # NoFile
    BY <2>1, <2>2
  <2> QED
    BY <1>1, <2>3 DEF SeedInv, TodoInv, HasCompiled, Kinds
<1>6. DiskInv'
  BY <1>1 DEF SeedInv, DiskInv
<1>7. ToSet(unread') = {}
  BY <1>1, <1>5, NothingIn
<1>8. pending = NoRows /\ Methods = {} /\ Events = {}
  BY <1>1, <1>5 DEF SeedInv, InsertInv, Kinds
<1>9. CASE step = "compiled"
  <2>1. step' = "learn"
    BY <1>1, <1>9
  <2>2. TodoInv'
    BY <1>1, <1>3, <1>4, <1>5, <1>7, <1>9, <2>1
       DEF TodoInv, HasCompiled, HasDictionary, Ended, Kinds
  <2>3. types' = <<>>
    BY <1>1, <1>9 DEF SeedInv, LearnInv
  <2>4. Sound(types', RowsIn(kept["compiled"], listed["compiled"]))
    BY <2>3 DEF Sound
  <2>5. LearnInv'
    BY <1>1, <1>3, <1>9, <2>1, <2>4 DEF LearnInv, HasDictionary, Ended, Kinds
  <2>6. InsertInv'
    BY <1>1, <1>8, <2>1 DEF InsertInv, Ended, Methods, Events, Kinds
  <2> QED
    BY <1>6, <2>2, <2>5, <2>6 DEF SeedInv
<1>10. CASE step = "dictionary"
  <2>1. step' = "insert"
    BY <1>1, <1>10
  <2>2. TodoInv'
    BY <1>1, <1>3, <1>4, <1>5, <1>7, <1>10, <2>1
       DEF TodoInv, HasCompiled, HasDictionary, Ended, Kinds
  <2>3. LearnInv'
    BY <1>1, <1>10, <2>1 DEF SeedInv, LearnInv, HasCompiled, HasDictionary, Ended, Kinds
  <2>4. Methods' = {} /\ Events' = {}
    BY <1>1, <1>8 DEF Methods, Events
  <2>5. InsertInv'
    BY <1>1, <1>3, <1>10, <2>1, <2>4 DEF InsertInv, Ended, Kinds
  <2> QED
    BY <1>6, <2>2, <2>3, <2>5 DEF SeedInv
<1> QED
  BY <1>1, <1>9, <1>10 DEF Kinds

\* The rows of an open file are all there.
LEMMA FileOpens ==
    ASSUME SeedInv, NEW kind \in Kinds, Open(kind),
           listed[kind] \subseteq Files,
           \A f \in listed[kind] : kept[kind][f] # NoFile,
           todo \in Seq(Files), ToSet(todo) \subseteq listed[kind]
    PROVE  /\ Head(todo) \in listed[kind]
           /\ todo' \in Seq(Files)
           /\ ToSet(todo) = {Head(todo)} \cup ToSet(todo')
           /\ unread' = kept[kind][Head(todo)]
           /\ unread' \in Seq(SeedRows)
           /\ ToSet(unread') \subseteq RowsIn(kept[kind], listed[kind])
<1>1. /\ Head(todo) \in Files /\ todo' \in Seq(Files)
      /\ ToSet(todo) = {Head(todo)} \cup ToSet(todo')
  BY HeadAndTail DEF Open
<1>2. Head(todo) \in listed[kind] /\ unread' = kept[kind][Head(todo)]
  BY <1>1 DEF Open
<1>3. IsPublished(kind, Head(todo), unread')
  BY <1>1, <1>2 DEF SeedInv, DiskInv
<1>4. unread' \in Seq(SeedRows)
  BY <1>3, PublishedFits
<1> QED
  BY <1>1, <1>2, <1>4 DEF RowsIn

LEMMA FileOpened == SeedInv /\ OpenFile => SeedInv'
<1> SUFFICES ASSUME SeedInv, OpenFile PROVE SeedInv'
  OBVIOUS
<1>1. UNCHANGED <<export, kept, listed, step, signatures, types, methods, events, pending, lost>>
  BY DEF OpenFile, tableVars
<1>2. DiskInv'
  BY <1>1 DEF SeedInv, DiskInv
<1>3. unread = <<>> /\ ToSet(unread) = {}
  BY NothingIn DEF OpenFile, Open
<1>4. CASE step = "learn" /\ Open("compiled")
  <2>1. /\ "compiled" \in Kinds /\ listed["compiled"] \subseteq Files
        /\ \A f \in listed["compiled"] : kept["compiled"][f] # NoFile
        /\ todo \in Seq(Files) /\ ToSet(todo) \subseteq listed["compiled"] /\ signatures
    BY <1>4 DEF SeedInv, DiskInv, TodoInv, HasCompiled, Kinds
  <2>2. /\ Head(todo) \in listed["compiled"]
        /\ todo' \in Seq(Files)
        /\ ToSet(todo) = {Head(todo)} \cup ToSet(todo')
        /\ unread' = kept["compiled"][Head(todo)]
        /\ unread' \in Seq(SeedRows)
        /\ ToSet(unread') \subseteq RowsIn(kept["compiled"], listed["compiled"])
    BY <1>4, <2>1, FileOpens
  <2>3. TodoInv'
    BY <1>1, <1>4, <2>1, <2>2 DEF SeedInv, TodoInv, HasCompiled, HasDictionary, Ended, Kinds
  <2>4. ASSUME NEW f \in listed["compiled"]
        PROVE  \/ f \in ToSet(todo')
               \/ \A c \in ToSet(kept["compiled"][f]) : c \in ToSet(unread') \/ Knows(types, c)
    <3>1. CASE f = Head(todo)
      BY <2>2, <3>1
    <3>2. CASE f # Head(todo)
      BY <1>3, <1>4, <2>2, <3>2 DEF SeedInv, LearnInv
    <3> QED
      BY <3>1, <3>2
  <2>5. Sound(types, RowsIn(kept["compiled"], listed["compiled"]))
    BY <1>4 DEF SeedInv, LearnInv, HasCompiled
  <2>6. LearnInv'
    BY <1>1, <1>4, <2>4, <2>5 DEF LearnInv, HasDictionary, Ended
  <2>7. InsertInv'
    BY <1>1, <1>4 DEF SeedInv, InsertInv, Ended, Methods, Events
  <2> QED
    BY <1>2, <2>3, <2>6, <2>7 DEF SeedInv
<1>5. CASE step = "insert" /\ Open("dictionary")
  <2>1. /\ "dictionary" \in Kinds /\ listed["dictionary"] \subseteq Files
        /\ \A f \in listed["dictionary"] : kept["dictionary"][f] # NoFile
        /\ todo \in Seq(Files) /\ ToSet(todo) \subseteq listed["dictionary"] /\ signatures
    BY <1>5 DEF SeedInv, DiskInv, TodoInv, HasDictionary, Kinds
  <2>2. /\ Head(todo) \in listed["dictionary"]
        /\ todo' \in Seq(Files)
        /\ ToSet(todo) = {Head(todo)} \cup ToSet(todo')
        /\ unread' = kept["dictionary"][Head(todo)]
        /\ unread' \in Seq(SeedRows)
        /\ ToSet(unread') \subseteq RowsIn(kept["dictionary"], listed["dictionary"])
    BY <1>5, <2>1, FileOpens
  <2>3. TodoInv'
    BY <1>1, <1>5, <2>1, <2>2 DEF SeedInv, TodoInv, HasCompiled, HasDictionary, Ended, Kinds
  <2>4. LearnInv'
    BY <1>1, <1>5 DEF SeedInv, LearnInv, HasCompiled, HasDictionary, Ended
  <2>5. ASSUME NEW f \in listed["dictionary"]
        PROVE  \/ f \in ToSet(todo')
               \/ \A r \in ToSet(kept["dictionary"][f]) :
                    \/ r \in ToSet(unread')
                    \/ /\ Typed(types, r, "function") => r \in Methods
                       /\ Typed(types, r, "event") => r \in Events
    <3>1. CASE f = Head(todo)
      BY <2>2, <3>1
    <3>2. CASE f # Head(todo)
      BY <1>3, <1>5, <2>2, <3>2 DEF SeedInv, InsertInv
    <3> QED
      BY <3>1, <3>2
  <2>6. Methods' = Methods /\ Events' = Events
    BY <1>1 DEF Methods, Events
  <2> DEFINE dictionary == RowsIn(kept["dictionary"], listed["dictionary"])
  <2>7. /\ Methods \subseteq InTable(types, dictionary, "function")
        /\ Events \subseteq InTable(types, dictionary, "event")
    BY <1>5 DEF SeedInv, InsertInv
  <2>8. InsertInv'
    BY <1>1, <1>5, <2>5, <2>6, <2>7 DEF InsertInv, Ended, Kinds
  <2> QED
    BY <1>2, <2>3, <2>4, <2>8 DEF SeedInv
<1> QED
  BY <1>4, <1>5 DEF OpenFile

LEMMA RowLearnt == SeedInv /\ LearnRow => SeedInv'
<1> SUFFICES ASSUME SeedInv, LearnRow PROVE SeedInv'
  OBVIOUS
<1> DEFINE c == Head(unread)
           C == RowsIn(kept["compiled"], listed["compiled"])
<1>1. /\ step = "learn" /\ unread # <<>> /\ unread' = Tail(unread)
      /\ types' = Learn(types, c)
      /\ UNCHANGED <<export, kept, listed, step, signatures, todo, methods, events, pending, lost>>
  BY DEF LearnRow, tableVars
<1>2. unread \in Seq(SeedRows) /\ ToSet(unread) \subseteq C
  BY <1>1 DEF SeedInv, TodoInv
<1>3. unread' \in Seq(SeedRows) /\ ToSet(unread) = {c} \cup ToSet(unread')
  BY <1>1, <1>2, HeadAndTail
<1>4. c \in C
  BY <1>2, <1>3
<1>5. Sound(types, C)
  BY <1>1 DEF SeedInv, LearnInv, HasCompiled
<1>6. /\ Sound(types', C) /\ Knows(types', c)
      /\ \A d : Knows(types, d) => Knows(types', d)
  BY <1>1, <1>4, <1>5, LearnAdds
<1>7. \A f \in listed["compiled"] :
        \/ f \in ToSet(todo)
        \/ \A d \in ToSet(kept["compiled"][f]) : d \in ToSet(unread) \/ Knows(types, d)
  BY <1>1 DEF SeedInv, LearnInv
<1> HIDE DEF c
<1>8. \A f \in listed["compiled"] :
        \/ f \in ToSet(todo)
        \/ \A d \in ToSet(kept["compiled"][f]) : d \in ToSet(unread') \/ Knows(types', d)
  BY <1>3, <1>6, <1>7
<1>9. DiskInv'
  BY <1>1 DEF SeedInv, DiskInv
<1>10. TodoInv'
  BY <1>1, <1>2, <1>3 DEF SeedInv, TodoInv, HasCompiled, HasDictionary, Ended, Kinds
<1>11. LearnInv'
  BY <1>1, <1>6, <1>8 DEF LearnInv, HasDictionary, Ended
<1>12. InsertInv'
  BY <1>1 DEF SeedInv, InsertInv, Ended, Methods, Events
<1> QED
  BY <1>9, <1>10, <1>11, <1>12 DEF SeedInv

LEMMA AllLearnt == SeedInv /\ TypesLearnt => SeedInv'
<1> SUFFICES ASSUME SeedInv, TypesLearnt PROVE SeedInv'
  OBVIOUS
<1> DEFINE C == RowsIn(kept["compiled"], listed["compiled"])
<1>1. /\ step = "learn" /\ unread = <<>> /\ todo = <<>> /\ List("dictionary")
      /\ UNCHANGED <<export, kept, signatures, unread, types, methods, events, pending, lost>>
  BY DEF TypesLearnt, tableVars
<1>2. "dictionary" \in Kinds /\ DiskInv
  BY DEF Kinds, SeedInv
<1>3. /\ DiskInv'
      /\ step' = "dictionary" /\ todo' \in Seq(Files) /\ ToSet(todo') = listed'["dictionary"]
      /\ \A k \in Kinds \ {"dictionary"} : listed'[k] = listed[k]
  BY <1>1, <1>2, FilesListed
<1>4. listed'["compiled"] = listed["compiled"]
  BY <1>3 DEF Kinds
<1>5. /\ signatures /\ \A f \in listed["compiled"] : kept["compiled"][f] # NoFile
      /\ Sound(types, C)
  BY <1>1 DEF SeedInv, TodoInv, LearnInv, HasCompiled
<1>6. \A c \in C : Knows(types, c)
  <2>1. ToSet(todo) = {} /\ ToSet(unread) = {}
    BY <1>1, NothingIn
  <2>2. \A f \in listed["compiled"] :
          \A c \in ToSet(kept["compiled"][f]) : Knows(types, c)
    BY <1>1, <2>1 DEF SeedInv, LearnInv
  <2> QED
    BY <2>2 DEF RowsIn
<1>7. TodoInv'
  BY <1>1, <1>3, <1>4, <1>5, EmptySeq DEF TodoInv, HasDictionary, Ended, Kinds
<1>8. LearnInv'
  BY <1>1, <1>3, <1>4, <1>5, <1>6 DEF LearnInv, HasDictionary, Ended
<1>9. InsertInv'
  BY <1>1, <1>3, <1>5 DEF SeedInv, InsertInv, Ended, Methods, Events
<1> QED
  BY <1>3, <1>7, <1>8, <1>9 DEF SeedInv

\* A row of the dictionary, all of whose inserts succeed, fail, or part.
LEMMA RowInserted == SeedInv /\ SeedRow => SeedInv'
<1> SUFFICES ASSUME SeedInv, SeedRow PROVE SeedInv'
  OBVIOUS
<1> DEFINE r == Head(unread)
           dictionary == RowsIn(kept["dictionary"], listed["dictionary"])
           fs == {x \in {r} : Typed(types, x, "function")}
           es == {x \in {r} : Typed(types, x, "event")}
<1>1. /\ step = "insert" /\ unread # <<>> /\ unread' = Tail(unread)
      /\ UNCHANGED <<export, kept, listed, step, signatures, todo, types>>
  BY DEF SeedRow
<1>2. unread \in Seq(SeedRows) /\ ToSet(unread) \subseteq dictionary
  BY <1>1 DEF SeedInv, TodoInv
<1>3. unread' \in Seq(SeedRows) /\ ToSet(unread) = {r} \cup ToSet(unread')
  BY <1>1, <1>2, HeadAndTail
<1>4. /\ InsertsOf(r).methods = fs /\ InsertsOf(r).events = es
  BY DEF InsertsOf, Typed
<1>5. PICK m \in SUBSET fs, e \in SUBSET es :
        /\ lost' = Plus(lost, [methods |-> m, events |-> e])
        /\ LET made == Plus(pending, [methods |-> fs \ m, events |-> es \ e]) IN
            \/ Commit(made)
            \/ pending' = made /\ UNCHANGED <<methods, events>>
  BY <1>4 DEF SeedRow
<1> HIDE DEF r, fs, es, dictionary
<1>6. /\ lost'.methods = lost.methods \cup m /\ lost'.events = lost.events \cup e
      /\ methods' \cup pending'.methods = methods \cup pending.methods \cup (fs \ m)
      /\ events' \cup pending'.events = events \cup pending.events \cup (es \ e)
  <2>1. lost'.methods = lost.methods \cup m /\ lost'.events = lost.events \cup e
    BY <1>5 DEF Plus
  <2> DEFINE made == Plus(pending, [methods |-> fs \ m, events |-> es \ e])
  <2>2. /\ made.methods = pending.methods \cup (fs \ m)
        /\ made.events = pending.events \cup (es \ e)
    BY DEF Plus
  <2>3. CASE Commit(made)
    <3> HIDE DEF made
    <3> QED
      BY <2>1, <2>2, <2>3 DEF Commit, NoRows
  <2>4. CASE pending' = made /\ UNCHANGED <<methods, events>>
    <3> HIDE DEF made
    <3> QED
      BY <2>1, <2>2, <2>4
  <2> QED
    BY <1>5, <2>3, <2>4
<1>7. Methods' = Methods \cup fs /\ Events' = Events \cup es
  BY <1>5, <1>6 DEF Methods, Events
<1>8. r \in dictionary
  BY <1>2, <1>3
<1>9. /\ fs \subseteq InTable(types, dictionary, "function")
      /\ es \subseteq InTable(types, dictionary, "event")
  BY <1>8 DEF fs, es, InTable
<1>10. /\ Methods \subseteq InTable(types, dictionary, "function")
       /\ Events \subseteq InTable(types, dictionary, "event")
       /\ \A f \in listed["dictionary"] :
            \/ f \in ToSet(todo)
            \/ \A x \in ToSet(kept["dictionary"][f]) :
                \/ x \in ToSet(unread)
                \/ /\ Typed(types, x, "function") => x \in Methods
                   /\ Typed(types, x, "event") => x \in Events
  BY <1>1 DEF SeedInv, InsertInv, dictionary
<1>11. ASSUME NEW f \in listed["dictionary"], f \notin ToSet(todo),
              NEW x \in ToSet(kept["dictionary"][f]), x \notin ToSet(unread')
       PROVE  /\ Typed(types, x, "function") => x \in Methods'
              /\ Typed(types, x, "event") => x \in Events'
  <2>1. CASE x = r
    BY <1>7, <2>1 DEF fs, es
  <2>2. CASE x # r
    BY <1>3, <1>7, <1>10, <1>11, <2>2
  <2> QED
    BY <2>1, <2>2
<1>12. DiskInv'
  BY <1>1 DEF SeedInv, DiskInv
<1>13. TodoInv'
  BY <1>1, <1>2, <1>3 DEF SeedInv, TodoInv, HasCompiled, HasDictionary, Ended, Kinds, dictionary
<1>14. LearnInv'
  BY <1>1 DEF SeedInv, LearnInv, HasCompiled, HasDictionary, Ended
<1>15. InsertInv'
  BY <1>1, <1>7, <1>9, <1>10, <1>11 DEF InsertInv, Ended, Kinds, dictionary
<1> QED
  BY <1>12, <1>13, <1>14, <1>15 DEF SeedInv

LEMMA SeedingDone == SeedInv /\ Seeded => SeedInv'
<1> SUFFICES ASSUME SeedInv, Seeded PROVE SeedInv'
  OBVIOUS
<1> DEFINE dictionary == RowsIn(kept["dictionary"], listed["dictionary"])
<1>1. /\ step = "insert" /\ unread = <<>> /\ todo = <<>> /\ step' = "done"
      /\ methods' = methods \cup pending.methods /\ events' = events \cup pending.events
      /\ pending' = NoRows
      /\ UNCHANGED <<export, kept, listed, signatures, todo, unread, types, lost>>
  BY DEF Seeded, Commit
<1>2. ToSet(todo) = {} /\ ToSet(unread) = {}
  BY <1>1, NothingIn
<1>3. /\ Methods \subseteq InTable(types, dictionary, "function")
      /\ Events \subseteq InTable(types, dictionary, "event")
      /\ \A f \in listed["dictionary"] : \A x \in ToSet(kept["dictionary"][f]) :
            /\ Typed(types, x, "function") => x \in Methods
            /\ Typed(types, x, "event") => x \in Events
  BY <1>1, <1>2 DEF SeedInv, InsertInv
<1>4. \A x \in dictionary : /\ Typed(types, x, "function") => x \in Methods
                            /\ Typed(types, x, "event") => x \in Events
  BY <1>3 DEF RowsIn
<1> HIDE DEF dictionary
<1>5. /\ Methods = InTable(types, dictionary, "function")
      /\ Events = InTable(types, dictionary, "event")
  BY <1>3, <1>4 DEF InTable
<1>6. methods' \cup lost'.methods = Methods /\ events' \cup lost'.events = Events
  BY <1>1 DEF Methods, Events
<1>7. DiskInv'
  BY <1>1 DEF SeedInv, DiskInv
<1>8. TodoInv'
  BY <1>1 DEF SeedInv, TodoInv, HasCompiled, HasDictionary, Ended, Kinds
<1>9. LearnInv'
  BY <1>1 DEF SeedInv, LearnInv, HasCompiled, HasDictionary, Ended
<1>10. InsertInv'
  BY <1>1, <1>5, <1>6 DEF InsertInv, Ended, Kinds, dictionary
<1> QED
  BY <1>7, <1>8, <1>9, <1>10 DEF SeedInv

LEMMA SeedKeeps == SeedInv /\ [SeedStep]_seedVars => SeedInv'
<1> SUFFICES ASSUME SeedInv, [SeedStep]_seedVars PROVE SeedInv'
  OBVIOUS
<1>1. CASE FetchPart \/ UNCHANGED seedVars
  <2>1. UNCHANGED workVars /\ export' \in DOMAIN Exports
    BY <1>1 DEF FetchPart, seedVars, workVars, tableVars, SeedInv, DiskInv
  <2> QED
    BY <2>1, NothingDone
<1> QED
  BY <1>1, ExportGoesOn, SeedingBegins, SeedingEnds, ChainTaken, ChainsDone, FileTaken,
     FilesRead, FileOpened, RowLearnt, AllLearnt, RowInserted, SeedingDone DEF SeedStep

\* The types learnt are those the compiled contracts give, and so are the tables.
LEMMA SeedAgrees == SeedInv => SeededIsJoin
<1> SUFFICES ASSUME SeedInv PROVE SeededIsJoin
  OBVIOUS
<1> DEFINE C == RowsIn(kept["compiled"], listed["compiled"])
           dictionary == RowsIn(kept["dictionary"], listed["dictionary"])
<1>1. KeptRows("compiled") = C /\ KeptRows("dictionary") = dictionary
  BY DEF KeptRows, RowsIn
<1>2. ASSUME Ended, NEW t \in SigTypes
      PROVE  InTable(types, dictionary, t) = Of(t)
  <2>1. Sound(types, C) /\ \A c \in C : Knows(types, c)
    BY <1>2 DEF SeedInv, LearnInv, HasCompiled, HasDictionary
  <2>2. ASSUME NEW x PROVE Typed(types, x, t) <=> \E c \in C : c.hash = x.hash /\ c.type = t
    BY <1>2, <2>1 DEF Sound, Knows, Typed
  <2> QED
    BY <1>1, <2>2 DEF InTable, Of
<1>3. step = "done" /\ signatures =>
        /\ methods \cup lost.methods = Of("function")
        /\ events \cup lost.events = Of("event")
  BY <1>2 DEF SeedInv, InsertInv, Ended, SigTypes
<1>4. \A k \in Kinds, f \in Files : kept[k][f] # NoFile =>
        \E n \in DOMAIN Exports : f \in DOMAIN Exports[n][k] /\ Exports[n][k][f] = kept[k][f]
  BY DEF SeedInv, DiskInv, IsPublished
<1> QED
  BY <1>3, <1>4 DEF SeededIsJoin

\* However often seedings are killed and the export is published anew: one that ends
\* well has left the join of the files it listed, but for the inserts that failed.
THEOREM SeededAlwaysJoin == PathSpec => []SeededIsJoin
<1>1. PathInit => SeedInv
  BY SeedStarts DEF PathInit
<1>2. SeedInv /\ [PathNext]_<<vars, columnVars, seedVars, answerVars, decodeVars>> => SeedInv'
  BY PathParts, SeedKeeps
<1> QED
  BY <1>1, <1>2, SeedAgrees, PTL DEF PathSpec

=============================================================================
