---------------------------- MODULE QueriesProofs ----------------------------
(***************************************************************************)
(* Theorems about queries, their traces and their budgets, for every       *)
(* number of processes, blocks and transactions, every budget and grace,   *)
(* and whatever steps fail.                                                *)
(*                                                                         *)
(* The inductive invariants: StageInv and ReplayInv say where a process    *)
(* is, StoredInv that what a replay has got is true, FillInv what a        *)
(* backfill still has to fill, and ClockInv how its clocks are related.    *)
(***************************************************************************)
EXTENDS Queries, WellFoundedInduction, TLAPS

-----------------------------------------------------------------------------
(* The block and the transaction that a replay takes.                      *)

LEMMA Smallest ==
    ASSUME NEW S \in SUBSET Nat, S # {}
    PROVE  \E m \in S : \A n \in S : m <= n
<1>1. PICK m \in S : \A n \in S : <<n, m>> \notin OpToRel(<, Nat)
  BY NatLessThanWellFounded, WFMin
<1>2. \A n \in S : ~(n < m)
  BY <1>1 DEF OpToRel
<1> QED
  BY <1>2

LEMMA Largest ==
    ASSUME NEW N \in Nat, NEW S \in SUBSET (1 .. N), S # {}
    PROVE  \E m \in S : \A n \in S : n <= m
<1> DEFINE T == {N - n : n \in S}
<1>1. T \in SUBSET Nat /\ T # {}
  <2>1. \A n \in S : N - n \in Nat
    OBVIOUS
  <2> QED
    BY <2>1
<1>2. PICK d \in T : \A e \in T : d <= e
  BY <1>1, Smallest
<1>3. PICK m \in S : d = N - m
  BY <1>2
<1>4. \A n \in S : N - n \in T
  OBVIOUS
<1>5. ASSUME NEW n \in S PROVE n <= m
  <2>1. d <= N - n
    BY <1>2, <1>4
  <2>2. n \in Nat /\ m \in Nat
    OBVIOUS
  <2> QED
    BY <1>3, <2>1, <2>2
<1> QED
  BY <1>5

LEMMA TxFacts ==
    /\ \A t \in Txs : /\ t = <<t[1], t[2]>>
                      /\ t[1] \in Blocks /\ t[1] \in Nat
                      /\ t[2] \in 1 .. TxCount[t[1]] /\ t[2] \in Nat
    /\ \A b \in Blocks : TxCount[b] \in Nat
    /\ Payment \in [Txs -> Traced]
<1>1. \A b \in Blocks : TxCount[b] \in 1 .. 10 /\ b \in Nat
  BY BlocksAssumption, TxCountAssumption
<1>2. ASSUME NEW t \in Txs
      PROVE  /\ t = <<t[1], t[2]>>
             /\ t[1] \in Blocks /\ t[2] \in 1 .. TxCount[t[1]]
  <2>1. PICK b \in Blocks : t \in {b} \X (1 .. TxCount[b])
    BY DEF Txs
  <2> QED
    BY <2>1
<1> QED
  BY <1>1, <1>2, PaymentAssumption

LEMMA BlockAtIs ==
    ASSUME NEW p, todo[p] \subseteq Txs, todo[p] # {}
    PROVE  /\ BlockAt(p) \in Blocks
           /\ \E t \in todo[p] : t[1] = BlockAt(p)
           /\ \A t \in todo[p] : t[1] >= BlockAt(p)
<1> DEFINE S == {t[1] : t \in todo[p]}
<1>1. S \in SUBSET Nat /\ S # {}
  BY TxFacts
<1>2. PICK m \in S : \A n \in S : m <= n
  BY <1>1, Smallest
<1>3. m \in Blocks /\ (\E t \in todo[p] : t[1] = m)
  BY TxFacts
<1>4. ASSUME NEW t \in todo[p] PROVE t[1] >= m
  <2>1. t[1] \in S /\ t[1] \in Nat /\ m \in Nat
    BY <1>1, TxFacts
  <2> QED
    BY <1>2, <2>1
<1>5. \E b \in Blocks : (\E t \in todo[p] : t[1] = b) /\ (\A t \in todo[p] : t[1] >= b)
  BY <1>3, <1>4
<1> QED
  BY <1>5 DEF BlockAt

LEMMA LastIndexIs ==
    ASSUME NEW p, todo[p] \subseteq Txs, NEW b \in Blocks, \E t \in todo[p] : t[1] = b
    PROVE  /\ LastIndex(p, b) \in 1 .. TxCount[b]
           /\ <<b, LastIndex(p, b)>> \in todo[p]
           /\ \A t \in todo[p] : t[1] = b => t[2] <= LastIndex(p, b)
<1> DEFINE S == {t[2] : t \in todo[p] \cap TxsOf(b)}
<1>1. S \in SUBSET (1 .. TxCount[b]) /\ S # {} /\ TxCount[b] \in Nat
  BY TxFacts DEF TxsOf
<1>2. PICK m \in S : \A n \in S : n <= m
  BY <1>1, Largest
<1>3. m \in 1 .. TxCount[b] /\ <<b, m>> \in todo[p]
  BY <1>1, TxFacts DEF TxsOf
<1>4. \A t \in todo[p] \cap TxsOf(b) : t[2] <= m
  BY <1>2
<1>5. \E i \in 1 .. TxCount[b] :
          <<b, i>> \in todo[p] /\ \A t \in todo[p] \cap TxsOf(b) : t[2] <= i
  BY <1>3, <1>4
<1>6. /\ LastIndex(p, b) \in 1 .. TxCount[b]
      /\ <<b, LastIndex(p, b)>> \in todo[p]
      /\ \A t \in todo[p] \cap TxsOf(b) : t[2] <= LastIndex(p, b)
  BY <1>5 DEF LastIndex
<1> QED
  BY <1>6 DEF TxsOf

-----------------------------------------------------------------------------
(* The rows.                                                               *)

Values == {"absent", "null"} \cup Traced
Reliable == flaky \cap {"inspect", "commit"} = {}

\* What any step but a purge does to the rows: some appear, and what is written
\* into one is the outcome of a trace, the true one if no step lies.
RowsKept ==
    \A t \in Txs :
        \/ value'[t] = value[t]
        \/ value[t] = "absent" /\ value'[t] = "null"
        \/ value[t] # "absent" /\ value'[t] \in Traced /\ (Reliable => value'[t] = Payment[t])

LEMMA UpdateRows ==
    ASSUME value \in [Txs -> Values], NEW t \in Txs, NEW v \in Traced,
           UpdateCoinbaseTransfer(t, v)
    PROVE  /\ value' \in [Txs -> Values]
           /\ value'[t] # "null"
           /\ (Reliable => v = Payment[t]) => RowsKept
<1>1. /\ value' \in [Txs -> Values]
      /\ \A s \in Txs : s # t => value'[s] = value[s]
      /\ value'[t] = IF value[t] = "absent" THEN "absent" ELSE v
  BY DEF UpdateCoinbaseTransfer, Values, Traced
<1>2. value'[t] # "null"
  BY <1>1 DEF Traced
<1> QED
  BY <1>1, <1>2 DEF RowsKept

LEMMA SaveRows ==
    ASSUME value \in [Txs -> Values], NEW bs, SaveTxs(bs)
    PROVE  value' \in [Txs -> Values] /\ RowsKept
BY DEF SaveTxs, Values, RowsKept

LEMMA SameRows == ASSUME value' = value PROVE RowsKept
BY DEF RowsKept

-----------------------------------------------------------------------------
(* Where a process is.                                                     *)

Replaying == {"fetch", "replay", "save", "commit"}

ResetNow(p) ==
    /\ at[p] = "off" /\ mode[p] = "none" /\ persist[p] = FALSE /\ todo[p] = {}
    /\ cur[p] = <<0, 0>> /\ last[p] = 0 /\ clean[p] = FALSE
    /\ got[p] = "zero" /\ excused[p] = {}

\* What is known of a trace is gone outside stage "trace".
StageInv(p) ==
    /\ stage[p] # "trace" => ResetNow(p)
    /\ stage[p] = "trace" => /\ at[p] # "off"
                             /\ plan[p] \in {"query", "tx"}
                             /\ persist[p] = (plan[p] = "query")
    /\ stage[p] = "index" => plan[p] \notin Served
    /\ stage[p] = "startup" => plan[p] \in Served
    /\ stage[p] = "upload" => plan[p] = "upload"
    /\ stage[p] # "idle" /\ plan[p] = "tx" => target[p] \in Targets

\* A replay is at a transaction up to the last one wanted of the oldest block left;
\* the trace of a single transaction is at that one all the time.
ReplayInv(p) ==
    /\ at[p] \in {"rpc", "block"} => todo[p] # {}
    /\ at[p] = "over" => todo[p] = {}
    /\ at[p] \notin Replaying \cup {"failed"} => cur[p] = <<0, 0>>
    /\ at[p] \in Replaying =>
        /\ <<cur[p][1], last[p]>> \in todo[p]
        /\ cur[p][2] \in 1 .. last[p]
        /\ \A t \in todo[p] : t[1] >= cur[p][1] /\ (t[1] = cur[p][1] => t[2] <= last[p])
    /\ at[p] = "save" => persist[p] /\ cur[p] \in todo[p]
    /\ ~persist[p] => /\ at[p] \notin {"select", "coinbases"}
                      /\ at[p] \notin {"off", "over", "failed"} => todo[p] = {target[p]}

\* While no step lies: the fork is the state of the chain, and what is about to be
\* stored is true.
TrueSoFar(p) ==
    /\ at[p] \in Replaying => clean[p]
    /\ at[p] = "save" => got[p] = Payment[cur[p]]
    /\ ~persist[p] /\ (at[p] = "over" \/ (at[p] = "commit" /\ cur[p] = target[p])) =>
        got[p] = Payment[target[p]]

RowsTrue == \A t \in Txs : value[t] \in Traced => value[t] = Payment[t]
StoredInv == Reliable => RowsTrue /\ \A p \in Procs : TrueSoFar(p)

\* A replay has dealt with t, in the block it is at.
Passed(p, t) ==
    /\ t[1] = cur[p][1]
    /\ \/ at[p] \in Replaying /\ t[2] < cur[p][2]
       \/ at[p] = "commit" /\ t[2] <= cur[p][2]

\* The NULL rows that a backfill has not excused are those it still gets to; all
\* blocks were there when it began.
FillInv(p) ==
    persist[p] =>
        /\ \A t \in Txs : t[1] \notin flagged => t \in excused[p]
        /\ at[p] \notin {"select", "failed"} =>
               \A t \in Txs : value[t] = "null" =>
                   t \in excused[p] \/ (t \in todo[p] /\ ~Passed(p, t))

RowsInv == \A t \in Txs : t[1] \in flagged => value[t] # "absent"

TraceInv(p) == StageInv(p) /\ ReplayInv(p) /\ FillInv(p)

\* A process that does nothing.
SameTrace(q) ==
    /\ at'[q] = at[q] /\ mode'[q] = mode[q] /\ persist'[q] = persist[q] /\ todo'[q] = todo[q]
    /\ cur'[q] = cur[q] /\ last'[q] = last[q] /\ clean'[q] = clean[q] /\ got'[q] = got[q]
    /\ excused'[q] = excused[q]

-----------------------------------------------------------------------------
(* The types of a trace.                                                   *)

\* What each step of the trace of p keeps, whatever it is about.
TraceFrame(p) ==
    /\ TraceTypeOK'
    /\ \A q \in Procs \ {p} : SameTrace(q)
    /\ mode' = mode /\ persist' = persist /\ flagged' = flagged
    /\ at'[p] # "off"

LEMMA GoesFrame ==
    ASSUME TraceTypeOK, flaky' = flaky, NEW p \in Procs, NEW rest \in SUBSET Txs,
           NEW next \in Busy, Goes(p, rest, next)
    PROVE  /\ at' \in [Procs -> {"off", "over", "failed"} \cup Busy]
           /\ todo' \in [Procs -> SUBSET Txs]
           /\ mode' = mode /\ persist' = persist
           /\ \A q \in Procs \ {p} : at'[q] = at[q] /\ todo'[q] = todo[q]
           /\ at'[p] = (IF rest = {} THEN "over" ELSE next)
           /\ todo'[p] = rest
BY DEF Goes, TraceTypeOK

LEMMA LeaveFrame ==
    ASSUME TraceTypeOK, flaky' = flaky, NEW p \in Procs, LeaveBlock(p)
    PROVE  /\ at' \in [Procs -> {"off", "over", "failed"} \cup Busy]
           /\ todo' \in [Procs -> SUBSET Txs]
           /\ cur' \in [Procs -> Nat \X Nat] /\ last' \in [Procs -> Nat]
           /\ clean' \in [Procs -> BOOLEAN]
           /\ mode' = mode /\ persist' = persist
           /\ \A q \in Procs \ {p} : /\ at'[q] = at[q] /\ todo'[q] = todo[q]
                                     /\ cur'[q] = cur[q] /\ last'[q] = last[q]
                                     /\ clean'[q] = clean[q]
           /\ todo'[p] = {t \in todo[p] : t[1] > BlockAt(p)}
           /\ at'[p] = (IF todo'[p] = {} THEN "over" ELSE "block")
           /\ cur'[p] = <<0, 0>>
<1>1. {t \in todo[p] : t[1] > BlockAt(p)} \in SUBSET Txs /\ "block" \in Busy
  BY DEF TraceTypeOK, Busy
<1>2. Goes(p, {t \in todo[p] : t[1] > BlockAt(p)}, "block")
  BY DEF LeaveBlock
<1>3. /\ cur' = [cur EXCEPT ![p] = <<0, 0>>]
      /\ last' = [last EXCEPT ![p] = 0]
      /\ clean' = [clean EXCEPT ![p] = FALSE]
  BY DEF LeaveBlock
<1>4. /\ cur' \in [Procs -> Nat \X Nat] /\ last' \in [Procs -> Nat]
      /\ clean' \in [Procs -> BOOLEAN]
      /\ \A q \in Procs \ {p} : cur'[q] = cur[q] /\ last'[q] = last[q] /\ clean'[q] = clean[q]
      /\ cur'[p] = <<0, 0>>
  BY <1>3 DEF TraceTypeOK
<1>5. /\ at' \in [Procs -> {"off", "over", "failed"} \cup Busy]
      /\ todo' \in [Procs -> SUBSET Txs]
      /\ mode' = mode /\ persist' = persist
      /\ \A q \in Procs \ {p} : at'[q] = at[q] /\ todo'[q] = todo[q]
      /\ todo'[p] = {t \in todo[p] : t[1] > BlockAt(p)}
      /\ at'[p] = (IF {t \in todo[p] : t[1] > BlockAt(p)} = {} THEN "over" ELSE "block")
  BY <1>1, <1>2, GoesFrame
<1> QED
  BY <1>4, <1>5

-----------------------------------------------------------------------------
(* The steps of a trace.                                                   *)

TraceNow(p) ==
    /\ TraceTypeOK /\ RowsInv /\ ReplayInv(p) /\ FillInv(p)
    /\ at[p] # "off"
    /\ Reliable => TrueSoFar(p)
    /\ flaky' = flaky /\ target' = target

TraceDone(p) ==
    /\ TraceFrame(p) /\ RowsKept
    /\ ReplayInv(p)' /\ FillInv(p)'
    /\ Reliable => TrueSoFar(p)'

LEMMA SelectDone ==
    ASSUME NEW p \in Procs, TraceNow(p), Select(p)
    PROVE  TraceDone(p)
<1> DEFINE next == IF mode[p] = "rpc" THEN "coinbases" ELSE "block"
<1>1. Untraced \in SUBSET Txs /\ next \in Busy /\ persist[p]
  BY DEF Untraced, Busy, TraceNow, ReplayInv, Select, TraceTypeOK
<1>2. /\ at' \in [Procs -> {"off", "over", "failed"} \cup Busy]
      /\ todo' \in [Procs -> SUBSET Txs]
      /\ mode' = mode /\ persist' = persist
      /\ \A q \in Procs \ {p} : at'[q] = at[q] /\ todo'[q] = todo[q]
      /\ at'[p] = (IF Untraced = {} THEN "over" ELSE next)
      /\ todo'[p] = Untraced
  BY <1>1, GoesFrame DEF TraceNow, Select
<1>3. UNCHANGED <<value, flagged, cur, last, clean, got, excused>>
  BY DEF Select, dbVars, replayVars
<1> HIDE DEF next
<1>4. /\ at'[p] \in {"over", "coinbases", "block"}
      /\ at'[p] = "over" <=> todo'[p] = {}
  BY <1>2 DEF next
<1>5. TraceFrame(p)
  BY <1>1, <1>2, <1>3, <1>4 DEF TraceFrame, SameTrace, TraceTypeOK, TraceNow
<1>6. ReplayInv(p)'
  <2>1. cur'[p] = <<0, 0>>
    BY <1>3 DEF ReplayInv, Replaying, TraceNow, Select
  <2> QED
    BY <1>1, <1>2, <1>4, <2>1 DEF ReplayInv, Replaying
<1>7. FillInv(p)'
  BY <1>1, <1>2, <1>3, <1>4 DEF FillInv, Passed, Replaying, Untraced, TraceNow
<1>8. TrueSoFar(p)'
  BY <1>1, <1>2, <1>4 DEF TrueSoFar, Replaying
<1> QED
  BY <1>3, <1>5, <1>6, <1>7, <1>8, SameRows DEF TraceDone

LEMMA CoinbasesDone ==
    ASSUME NEW p \in Procs, TraceNow(p), Coinbases(p)
    PROVE  TraceDone(p)
<1> DEFINE rest == {t \in todo[p] : t[1] \in flagged}
<1>1. rest \in SUBSET Txs /\ "rpc" \in Busy /\ persist[p]
  BY DEF Busy, TraceNow, ReplayInv, Coinbases, TraceTypeOK
<1>2. /\ at' \in [Procs -> {"off", "over", "failed"} \cup Busy]
      /\ todo' \in [Procs -> SUBSET Txs]
      /\ mode' = mode /\ persist' = persist
      /\ \A q \in Procs \ {p} : at'[q] = at[q] /\ todo'[q] = todo[q]
      /\ at'[p] = (IF rest = {} THEN "over" ELSE "rpc")
      /\ todo'[p] = rest
  BY <1>1, GoesFrame DEF TraceNow, Coinbases
<1>3. UNCHANGED <<value, flagged, cur, last, clean, got, excused>> /\ at[p] = "coinbases"
  BY DEF Coinbases, dbVars, replayVars
<1>4. TraceFrame(p)
  BY <1>1, <1>2, <1>3 DEF TraceFrame, SameTrace, TraceTypeOK, TraceNow
<1>5. ReplayInv(p)'
  BY <1>1, <1>2, <1>3 DEF ReplayInv, Replaying, TraceNow
<1>6. FillInv(p)'
  BY <1>1, <1>2, <1>3 DEF FillInv, Passed, Replaying, TraceNow
<1>7. TrueSoFar(p)'
  BY <1>1, <1>2 DEF TrueSoFar, Replaying
<1> QED
  BY <1>3, <1>4, <1>5, <1>6, <1>7, SameRows DEF TraceDone

LEMMA FailDone ==
    ASSUME NEW p \in Procs, TraceNow(p), Fail(p)
    PROVE  TraceDone(p)
<1>1. /\ UNCHANGED <<value, flagged, mode, persist, todo, cur, last, clean, got, excused>>
      /\ at' \in [Procs -> {"off", "over", "failed"} \cup Busy] /\ at'[p] = "failed"
      /\ \A q \in Procs \ {p} : at'[q] = at[q]
  BY DEF Fail, dbVars, replayVars, TraceNow, TraceTypeOK
<1>2. TraceFrame(p)
  BY <1>1 DEF TraceFrame, SameTrace, TraceTypeOK, TraceNow
<1>3. ReplayInv(p)' /\ TrueSoFar(p)'
  BY <1>1 DEF ReplayInv, Replaying, TrueSoFar
<1>4. FillInv(p)'
  BY <1>1 DEF FillInv, TraceNow
<1> QED
  BY <1>1, <1>2, <1>3, <1>4, SameRows DEF TraceDone

LEMMA RpcTraceDone ==
    ASSUME NEW p \in Procs, TraceNow(p), RpcTrace(p)
    PROVE  TraceDone(p)
<1>1. PICK t \in todo[p] :
          /\ Goes(p, todo[p] \ {t}, "rpc")
          /\ IF persist[p]
             THEN UpdateCoinbaseTransfer(t, Payment[t]) /\ UNCHANGED got
             ELSE got' = [got EXCEPT ![p] = Payment[t]] /\ UNCHANGED value
  BY DEF RpcTrace
<1> DEFINE rest == todo[p] \ {t}
<1>2. t \in Txs /\ Payment[t] \in Traced /\ rest \in SUBSET Txs /\ "rpc" \in Busy
  BY TxFacts DEF TraceNow, TraceTypeOK, Busy
<1>3. /\ at' \in [Procs -> {"off", "over", "failed"} \cup Busy]
      /\ todo' \in [Procs -> SUBSET Txs]
      /\ mode' = mode /\ persist' = persist
      /\ \A q \in Procs \ {p} : at'[q] = at[q] /\ todo'[q] = todo[q]
      /\ at'[p] = (IF rest = {} THEN "over" ELSE "rpc")
      /\ todo'[p] = rest
  BY <1>1, <1>2, GoesFrame DEF TraceNow
<1>4. UNCHANGED <<flagged, cur, last, clean, excused>> /\ at[p] = "rpc"
  BY DEF RpcTrace
<1>5. value \in [Txs -> Values] /\ got \in [Procs -> Traced]
  BY DEF TraceNow, TraceTypeOK, Values
<1>6. /\ value' \in [Txs -> Values] /\ RowsKept
      /\ got' \in [Procs -> Traced] /\ \A q \in Procs \ {p} : got'[q] = got[q]
      /\ persist[p] => value'[t] # "null"
      /\ ~persist[p] => value' = value /\ got'[p] = Payment[t]
  <2>1. CASE persist[p]
    BY <1>1, <1>2, <1>5, <2>1, UpdateRows
  <2>2. CASE ~persist[p]
    BY <1>1, <1>2, <1>5, <2>2, SameRows
  <2> QED
    BY <2>1, <2>2
<1>7. TraceFrame(p)
  BY <1>3, <1>4, <1>6 DEF TraceFrame, SameTrace, TraceTypeOK, TraceNow, Values
<1>8. ~persist[p] => todo[p] = {target[p]} /\ t = target[p] /\ rest = {}
  BY <1>4 DEF TraceNow, ReplayInv
<1>9. ReplayInv(p)'
  BY <1>3, <1>4, <1>8 DEF ReplayInv, Replaying, TraceNow
<1>10. FillInv(p)'
  <2> SUFFICES ASSUME persist[p]
               PROVE  /\ \A s \in Txs : s[1] \notin flagged' => s \in excused'[p]
                      /\ \A s \in Txs : value'[s] = "null" =>
                             s \in excused'[p] \/ (s \in todo'[p] /\ ~Passed(p, s)')
    BY <1>3 DEF FillInv
  <2>1. \A s \in Txs : s[1] \notin flagged => s \in excused[p]
    BY DEF TraceNow, FillInv
  <2>2. \A s \in Txs : ~Passed(p, s)'
    BY <1>3 DEF Passed, Replaying
  <2>3. ASSUME NEW s \in Txs, value'[s] = "null"
        PROVE  s \in excused[p] \/ s \in rest
    <3>1. s # t
      BY <1>6, <2>3
    <3>2. value[s] \in {"null", "absent"}
      BY <1>6, <2>3 DEF RowsKept, Traced
    <3>3. CASE value[s] = "absent"
      BY <2>1, <3>3 DEF TraceNow, RowsInv
    <3>4. CASE value[s] = "null"
      BY <1>4, <3>1, <3>4 DEF TraceNow, FillInv
    <3> QED
      BY <3>2, <3>3, <3>4
  <2> QED
    BY <1>3, <1>4, <2>1, <2>2, <2>3
<1>11. TrueSoFar(p)'
  BY <1>3, <1>6, <1>8 DEF TrueSoFar, Replaying, TraceNow
<1> QED
  BY <1>6, <1>7, <1>9, <1>10, <1>11 DEF TraceDone

LEMMA RpcTraceFailsDone ==
    ASSUME NEW p \in Procs, TraceNow(p), RpcTraceFails(p)
    PROVE  TraceDone(p)
<1>1. CASE persist[p]
  <2>1. PICK t \in todo[p] :
            /\ Goes(p, todo[p] \ {t}, "rpc")
            /\ excused' = [excused EXCEPT ![p] = @ \cup {t}]
            /\ UNCHANGED <<dbVars, replayVars>>
    BY <1>1 DEF RpcTraceFails
  <2> DEFINE rest == todo[p] \ {t}
  <2>2. t \in Txs /\ rest \in SUBSET Txs /\ "rpc" \in Busy
    BY DEF TraceNow, TraceTypeOK, Busy
  <2>3. /\ at' \in [Procs -> {"off", "over", "failed"} \cup Busy]
        /\ todo' \in [Procs -> SUBSET Txs]
        /\ mode' = mode /\ persist' = persist
        /\ \A q \in Procs \ {p} : at'[q] = at[q] /\ todo'[q] = todo[q]
        /\ at'[p] = (IF rest = {} THEN "over" ELSE "rpc")
        /\ todo'[p] = rest
    BY <2>1, <2>2, GoesFrame DEF TraceNow
  <2>4. UNCHANGED <<value, flagged, cur, last, clean, got>> /\ at[p] = "rpc"
    BY <2>1 DEF RpcTraceFails, dbVars, replayVars
  <2>5. /\ excused' \in [Procs -> SUBSET Txs] /\ excused'[p] = excused[p] \cup {t}
        /\ \A q \in Procs \ {p} : excused'[q] = excused[q]
    BY <2>1, <2>2 DEF TraceNow, TraceTypeOK
  <2>6. TraceFrame(p)
    BY <2>3, <2>4, <2>5 DEF TraceFrame, SameTrace, TraceTypeOK, TraceNow
  <2>7. ReplayInv(p)' /\ TrueSoFar(p)'
    BY <1>1, <2>3, <2>4 DEF ReplayInv, Replaying, TrueSoFar, TraceNow
  <2>8. FillInv(p)'
    BY <1>1, <2>3, <2>4, <2>5 DEF FillInv, Passed, Replaying, TraceNow
  <2> QED
    BY <2>4, <2>6, <2>7, <2>8, SameRows DEF TraceDone
<1>2. CASE ~persist[p]
  BY <1>2, FailDone DEF RpcTraceFails
<1> QED
  BY <1>1, <1>2

\* Where a replay is, from what is left in its block.
LEMMA ReplayAt ==
    ASSUME NEW p \in Procs, TraceTypeOK, ReplayInv(p), at[p] \in Replaying
    PROVE  /\ cur[p] = <<cur[p][1], cur[p][2]>>
           /\ cur[p][1] \in Nat /\ cur[p][2] \in Nat /\ last[p] \in Nat
           /\ cur[p][1] = BlockAt(p)
           /\ todo[p] \subseteq Txs /\ todo[p] # {}
<1>1. /\ cur[p] = <<cur[p][1], cur[p][2]>>
      /\ cur[p][1] \in Nat /\ cur[p][2] \in Nat /\ last[p] \in Nat
      /\ todo[p] \subseteq Txs
  BY DEF TraceTypeOK
<1>2. <<cur[p][1], last[p]>> \in todo[p] /\ \A t \in todo[p] : t[1] >= cur[p][1]
  BY DEF ReplayInv
<1>3. PICK t \in todo[p] : t[1] = BlockAt(p)
  BY <1>1, <1>2, BlockAtIs
<1>4. t[1] >= cur[p][1] /\ cur[p][1] >= BlockAt(p) /\ BlockAt(p) \in Nat
  <2>1. \A s \in todo[p] : s[1] >= BlockAt(p)
    BY <1>1, <1>2, BlockAtIs
  <2> QED
    BY <1>1, <1>2, <1>3, <2>1, TxFacts
<1> QED
  BY <1>1, <1>2, <1>3, <1>4

LEMMA OpenBlockDone ==
    ASSUME NEW p \in Procs, TraceNow(p), OpenBlock(p)
    PROVE  TraceDone(p)
<1> DEFINE b == BlockAt(p)
           l == LastIndex(p, BlockAt(p))
<1>1. todo[p] \subseteq Txs /\ todo[p] # {}
  BY DEF TraceNow, TraceTypeOK, ReplayInv, OpenBlock
<1>2. b \in Blocks /\ b \in Nat /\ (\E t \in todo[p] : t[1] = b) /\ \A t \in todo[p] : t[1] >= b
  BY <1>1, BlockAtIs, BlocksAssumption
<1>3. /\ l \in 1 .. TxCount[b] /\ l \in Nat /\ TxCount[b] \in Nat
      /\ <<b, l>> \in todo[p]
      /\ \A t \in todo[p] : t[1] = b => t[2] <= l
  BY <1>1, <1>2, LastIndexIs, TxFacts
<1> HIDE DEF b, l
<1>4. /\ UNCHANGED <<value, flagged, mode, persist, todo, got, excused>>
      /\ cur' = [cur EXCEPT ![p] = <<b, 1>>]
      /\ last' = [last EXCEPT ![p] = l]
      /\ clean' = [clean EXCEPT ![p] = TRUE]
      /\ at' = [at EXCEPT ![p] = "fetch"]
  BY DEF OpenBlock, dbVars, b, l
<1>5. TraceFrame(p) /\ cur'[p] = <<b, 1>> /\ last'[p] = l /\ clean'[p] /\ at'[p] = "fetch"
  BY <1>2, <1>3, <1>4 DEF TraceFrame, SameTrace, TraceTypeOK, TraceNow, Busy
<1>6. ReplayInv(p)'
  BY <1>2, <1>3, <1>4, <1>5 DEF ReplayInv, Replaying, TraceNow, OpenBlock
<1>7. TrueSoFar(p)'
  BY <1>5 DEF TrueSoFar
<1>8. \A t \in Txs : ~Passed(p, t)'
  BY <1>5, TxFacts DEF Passed
<1>9. FillInv(p)'
  BY <1>4, <1>5, <1>8 DEF FillInv, TraceNow, OpenBlock
<1> QED
  BY <1>4, <1>5, <1>6, <1>7, <1>9, SameRows DEF TraceDone

LEMMA FetchDone ==
    ASSUME NEW p \in Procs, TraceNow(p), FetchTxRequest(p)
    PROVE  TraceDone(p)
<1>1. /\ UNCHANGED <<value, flagged, mode, persist, todo, cur, last, clean, got, excused>>
      /\ at[p] = "fetch" /\ at' = [at EXCEPT ![p] = "replay"]
  BY DEF FetchTxRequest, dbVars, replayVars
<1>2. TraceFrame(p) /\ at'[p] = "replay"
  BY <1>1 DEF TraceFrame, SameTrace, TraceTypeOK, TraceNow, Busy
<1>3. ReplayInv(p)'
  BY <1>1, <1>2 DEF ReplayInv, Replaying, TraceNow
<1>4. Reliable => TrueSoFar(p)'
  BY <1>1, <1>2 DEF TrueSoFar, Replaying, TraceNow
<1>5. FillInv(p)'
  BY <1>1, <1>2 DEF FillInv, Passed, Replaying, TraceNow
<1> QED
  BY <1>1, <1>2, <1>3, <1>4, <1>5, SameRows DEF TraceDone

LEMMA InspectDone ==
    ASSUME NEW p \in Procs, TraceNow(p), Inspect(p)
    PROVE  TraceDone(p)
<1>1. /\ UNCHANGED <<value, flagged, mode, persist, todo, cur, last, clean, excused>>
      /\ at[p] = "replay" /\ cur[p] \in todo[p]
      /\ at' = [at EXCEPT ![p] = IF persist[p] THEN "save" ELSE "commit"]
  BY DEF Inspect, dbVars
<1>2. PICK v \in Traced :
          /\ \/ v = Payment[cur[p]]
             \/ ~clean[p]
             \/ "inspect" \in flaky /\ v = "zero"
          /\ got' = [got EXCEPT ![p] = v]
  BY DEF Inspect
<1>3. TraceFrame(p) /\ at'[p] = (IF persist[p] THEN "save" ELSE "commit") /\ got'[p] = v
  BY <1>1, <1>2 DEF TraceFrame, SameTrace, TraceTypeOK, TraceNow, Busy
<1>4. Reliable => v = Payment[cur[p]]
  BY <1>1, <1>2 DEF TraceNow, TrueSoFar, Replaying, Reliable
<1>5. ReplayInv(p)'
  BY <1>1, <1>3 DEF ReplayInv, Replaying, TraceNow
<1>6. Reliable => TrueSoFar(p)'
  BY <1>1, <1>3, <1>4 DEF TrueSoFar, Replaying, TraceNow
<1>7. FillInv(p)'
  BY <1>1, <1>3 DEF FillInv, Passed, Replaying, TraceNow
<1> QED
  BY <1>1, <1>3, <1>5, <1>6, <1>7, SameRows DEF TraceDone

LEMMA PassOverDone ==
    ASSUME NEW p \in Procs, TraceNow(p), PassOver(p)
    PROVE  TraceDone(p)
<1>1. /\ UNCHANGED <<value, flagged, mode, persist, todo, cur, last, clean, got, excused>>
      /\ at[p] = "replay" /\ cur[p] \notin todo[p]
      /\ at' = [at EXCEPT ![p] = "commit"]
  BY DEF PassOver, dbVars, replayVars
<1>2. TraceFrame(p) /\ at'[p] = "commit"
  BY <1>1 DEF TraceFrame, SameTrace, TraceTypeOK, TraceNow, Busy
<1>3. ReplayInv(p)'
  BY <1>1, <1>2 DEF ReplayInv, Replaying, TraceNow
<1>4. Reliable => TrueSoFar(p)'
  BY <1>1, <1>2 DEF TrueSoFar, Replaying, TraceNow, ReplayInv
<1>5. \A t \in todo[p] : Passed(p, t)' => Passed(p, t)
  <2>1. cur[p] = <<cur[p][1], cur[p][2]>> /\ cur[p][2] \in Nat /\ todo[p] \subseteq Txs
    BY <1>1, ReplayAt DEF TraceNow, Replaying
  <2>2. ASSUME NEW t \in todo[p], Passed(p, t)'
        PROVE  Passed(p, t)
    <3>1. t[1] = cur[p][1] /\ t[2] <= cur[p][2]
      BY <1>1, <1>2, <2>1, <2>2, TxFacts DEF Passed
    <3>2. t[2] # cur[p][2]
      BY <1>1, <2>1, <3>1, TxFacts
    <3> QED
      BY <1>1, <2>1, <3>1, <3>2, TxFacts DEF Passed, Replaying
  <2> QED
    BY <2>2
<1>6. FillInv(p)'
  BY <1>1, <1>2, <1>5 DEF FillInv, TraceNow
<1> QED
  BY <1>1, <1>2, <1>3, <1>4, <1>6, SameRows DEF TraceDone

LEMMA SaveDone ==
    ASSUME NEW p \in Procs, TraceNow(p), Save(p)
    PROVE  TraceDone(p)
<1>1. /\ UNCHANGED <<flagged, mode, persist, todo, cur, last, clean, excused>>
      /\ at[p] = "save" /\ UpdateCoinbaseTransfer(cur[p], got[p])
      /\ got' = [got EXCEPT ![p] = "zero"]
      /\ at' = [at EXCEPT ![p] = "commit"]
  BY DEF Save
<1>2. /\ cur[p] \in todo[p] /\ cur[p] \in Txs /\ persist[p] /\ got[p] \in Traced
      /\ value \in [Txs -> Values]
  BY <1>1 DEF TraceNow, ReplayInv, TraceTypeOK, Values
<1>3. Reliable => got[p] = Payment[cur[p]]
  BY <1>1 DEF TraceNow, TrueSoFar
<1>4. value' \in [Txs -> Values] /\ RowsKept /\ value'[cur[p]] # "null"
  BY <1>1, <1>2, <1>3, UpdateRows
<1>5. TraceFrame(p) /\ at'[p] = "commit"
  BY <1>1, <1>4 DEF TraceFrame, SameTrace, TraceTypeOK, TraceNow, Busy, Values, Traced
<1>6. ReplayInv(p)'
  BY <1>1, <1>2, <1>5 DEF ReplayInv, Replaying, TraceNow
<1>7. Reliable => TrueSoFar(p)'
  BY <1>1, <1>2, <1>5 DEF TrueSoFar, Replaying, TraceNow
<1>8. FillInv(p)'
  <2>1. cur[p] = <<cur[p][1], cur[p][2]>> /\ cur[p][2] \in Nat /\ todo[p] \subseteq Txs
    BY <1>1, ReplayAt DEF TraceNow, Replaying
  <2>2. \A s \in Txs : s[1] \notin flagged => s \in excused[p]
    BY <1>2 DEF TraceNow, FillInv
  <2>3. ASSUME NEW s \in Txs, value'[s] = "null"
        PROVE  s \in excused[p] \/ (s \in todo[p] /\ ~Passed(p, s)')
    <3>1. s # cur[p]
      BY <1>4, <2>3
    <3>2. value[s] \in {"null", "absent"}
      BY <1>4, <2>3 DEF RowsKept, Traced
    <3>3. CASE value[s] = "absent"
      BY <2>2, <3>3 DEF TraceNow, RowsInv
    <3>4. CASE value[s] = "null"
      <4>1. s \in excused[p] \/ (s \in todo[p] /\ ~Passed(p, s))
        BY <1>1, <1>2, <3>4 DEF TraceNow, FillInv
      <4>2. Passed(p, s)' => Passed(p, s)
        <5>1. ASSUME Passed(p, s)' PROVE s[1] = cur[p][1] /\ s[2] <= cur[p][2]
          <6>1. s[2] \in Nat /\ cur' = cur
            BY <1>1, TxFacts
          <6> QED
            BY <2>1, <5>1, <6>1 DEF Passed
        <5>2. s[1] = cur[p][1] => s[2] # cur[p][2]
          BY <2>1, <3>1, TxFacts
        <5>3. s[2] \in Nat /\ at[p] \in Replaying
          BY <1>1, TxFacts DEF Replaying
        <5>4. s[1] = cur[p][1] /\ s[2] <= cur[p][2] => s[2] < cur[p][2]
          BY <2>1, <5>2, <5>3
        <5> QED
          BY <5>1, <5>3, <5>4 DEF Passed
      <4> QED
        BY <4>1, <4>2
    <3> QED
      BY <3>2, <3>3, <3>4
  <2> QED
    BY <1>1, <2>2, <2>3 DEF FillInv
<1> QED
  BY <1>4, <1>5, <1>6, <1>7, <1>8 DEF TraceDone

\* The next transaction of the block.
LEMMA NextTxDone ==
    ASSUME NEW p \in Procs, TraceNow(p), CommitTx(p), ~(cur[p][2] >= last[p])
    PROVE  TraceDone(p)
<1>1. PICK done \in {TRUE, "commit" \notin flaky} : Advance(p, done)
  BY DEF CommitTx
<1>2. /\ UNCHANGED <<value, flagged, mode, persist, todo, last, got, excused>>
      /\ at[p] = "commit" /\ at' = [at EXCEPT ![p] = "fetch"]
      /\ cur' = [cur EXCEPT ![p][2] = @ + 1]
      /\ clean' = [clean EXCEPT ![p] = @ /\ done]
  BY <1>1 DEF CommitTx, Advance, dbVars
<1>3. /\ cur[p] = <<cur[p][1], cur[p][2]>>
      /\ cur[p][1] \in Nat /\ cur[p][2] \in Nat /\ last[p] \in Nat /\ todo[p] \subseteq Txs
  BY <1>2, ReplayAt DEF TraceNow, Replaying
<1>4. cur[p] \in Nat \X Nat /\ cur \in [Procs -> Nat \X Nat]
  BY DEF TraceNow, TraceTypeOK
<1>5. /\ cur'[p] = <<cur[p][1], cur[p][2] + 1>>
      /\ cur' \in [Procs -> Nat \X Nat]
      /\ \A q \in Procs \ {p} : cur'[q] = cur[q]
  <2>1. cur' = [cur EXCEPT ![p] = [cur[p] EXCEPT ![2] = cur[p][2] + 1]]
    BY <1>2
  <2>2. [cur[p] EXCEPT ![2] = cur[p][2] + 1] = <<cur[p][1], cur[p][2] + 1>>
    BY <1>4
  <2> QED
    BY <1>3, <1>4, <2>1, <2>2
<1>6. /\ clean' \in [Procs -> BOOLEAN]
      /\ \A q \in Procs \ {p} : clean'[q] = clean[q]
      /\ clean[p] /\ done => clean'[p]
  BY <1>1, <1>2 DEF TraceNow, TraceTypeOK
<1>7. TraceFrame(p) /\ at'[p] = "fetch"
  BY <1>2, <1>5, <1>6 DEF TraceFrame, SameTrace, TraceTypeOK, TraceNow, Busy
<1>8. ReplayInv(p)'
  BY <1>2, <1>3, <1>5, <1>7 DEF ReplayInv, Replaying, TraceNow
<1>9. Reliable => TrueSoFar(p)'
  <2>1. Reliable => done
    BY <1>1 DEF Reliable
  <2> QED
    BY <1>2, <1>6, <1>7, <2>1 DEF TrueSoFar, Replaying, TraceNow
<1>10. \A s \in Txs : Passed(p, s)' => Passed(p, s)
  <2>1. ASSUME NEW s \in Txs, Passed(p, s)'
        PROVE  Passed(p, s)
    <3>1. s[1] = cur[p][1] /\ s[2] < cur[p][2] + 1 /\ s[2] \in Nat
      BY <1>5, <1>7, <2>1, TxFacts DEF Passed
    <3> QED
      BY <1>2, <1>3, <3>1 DEF Passed
  <2> QED
    BY <2>1
<1>11. FillInv(p)'
  BY <1>2, <1>7, <1>10 DEF FillInv, TraceNow
<1> QED
  BY <1>2, <1>7, <1>8, <1>9, <1>11, SameRows DEF TraceDone

\* The last one wanted of the block, after which it is left.
LEMMA LastTxDone ==
    ASSUME NEW p \in Procs, TraceNow(p), CommitTx(p), cur[p][2] >= last[p]
    PROVE  TraceDone(p)
<1>1. LeaveBlock(p) /\ at[p] = "commit" /\ UNCHANGED <<value, flagged, got, excused>>
  BY DEF CommitTx, Advance, dbVars
<1>2. /\ cur[p] = <<cur[p][1], cur[p][2]>>
      /\ cur[p][1] \in Nat /\ cur[p][2] \in Nat /\ last[p] \in Nat
      /\ cur[p][1] = BlockAt(p) /\ todo[p] \subseteq Txs
  BY <1>1, ReplayAt DEF TraceNow, Replaying
<1>3. /\ <<cur[p][1], last[p]>> \in todo[p] /\ cur[p][2] \in 1 .. last[p]
      /\ \A t \in todo[p] : t[1] >= cur[p][1] /\ (t[1] = cur[p][1] => t[2] <= last[p])
  BY <1>1 DEF TraceNow, ReplayInv, Replaying
<1>4. cur[p][2] = last[p]
  BY <1>2, <1>3
<1>5. /\ at' \in [Procs -> {"off", "over", "failed"} \cup Busy]
      /\ todo' \in [Procs -> SUBSET Txs]
      /\ cur' \in [Procs -> Nat \X Nat] /\ last' \in [Procs -> Nat]
      /\ clean' \in [Procs -> BOOLEAN]
      /\ mode' = mode /\ persist' = persist
      /\ \A q \in Procs \ {p} : /\ at'[q] = at[q] /\ todo'[q] = todo[q]
                                /\ cur'[q] = cur[q] /\ last'[q] = last[q]
                                /\ clean'[q] = clean[q]
      /\ cur'[p] = <<0, 0>> /\ todo'[p] = {t \in todo[p] : t[1] > cur[p][1]}
      /\ at'[p] = (IF todo'[p] = {} THEN "over" ELSE "block")
  BY <1>1, <1>2, LeaveFrame DEF TraceNow
<1>6. TraceFrame(p)
  BY <1>1, <1>5 DEF TraceFrame, SameTrace, TraceTypeOK, TraceNow
<1>7. ~persist[p] => todo[p] = {target[p]} /\ cur[p] = target[p] /\ todo'[p] = {}
  <2>1. ~persist[p] => todo[p] = {target[p]}
    BY <1>1 DEF TraceNow, ReplayInv
  <2>2. cur[p] = <<cur[p][1], last[p]>>
    BY <1>2, <1>4
  <2>3. cur[p] \in todo[p]
    BY <1>3, <2>2
  <2>4. \A t \in todo'[p] : t \in todo[p] /\ t[1] > cur[p][1]
    BY <1>5
  <2> QED
    BY <1>2, <2>1, <2>3, <2>4
<1>8. ReplayInv(p)'
  BY <1>5, <1>7 DEF ReplayInv, Replaying
<1>9. Reliable => TrueSoFar(p)'
  BY <1>1, <1>5, <1>7 DEF TrueSoFar, Replaying, TraceNow
<1>10. \A s \in Txs : s \in todo[p] /\ ~Passed(p, s) => s \in todo'[p]
  <2>1. ASSUME NEW s \in Txs, s \in todo[p], ~Passed(p, s)
        PROVE  s \in todo'[p]
    <3>1. s[1] \in Nat /\ s[2] \in Nat
      BY TxFacts
    <3>2. s[1] >= cur[p][1] /\ (s[1] = cur[p][1] => s[2] <= cur[p][2])
      BY <1>3, <1>4, <2>1
    <3>3. s[1] # cur[p][1]
      BY <1>1, <2>1, <3>2 DEF Passed
    <3>4. s[1] > cur[p][1]
      BY <1>2, <3>1, <3>2, <3>3
    <3> QED
      BY <1>5, <2>1, <3>4
  <2> QED
    BY <2>1
<1>11. \A s \in Txs : ~Passed(p, s)'
  BY <1>5 DEF Passed, Replaying
<1>12. FillInv(p)'
  BY <1>1, <1>5, <1>10, <1>11 DEF FillInv, TraceNow
<1> QED
  BY <1>1, <1>6, <1>8, <1>9, <1>12, SameRows DEF TraceDone

LEMMA BlockFailsDone ==
    ASSUME NEW p \in Procs, TraceNow(p), BlockFails(p)
    PROVE  TraceDone(p)
<1>1. CASE ~persist[p]
  BY <1>1, FailDone DEF BlockFails
<1>2. CASE persist[p]
  <2> DEFINE more == {t \in todo[p] : t[1] = BlockAt(p) /\ t[2] >= cur[p][2]}
  <2>1. /\ LeaveBlock(p) /\ at[p] \in {"block", "fetch", "save"}
        /\ excused' = [excused EXCEPT ![p] = @ \cup more]
        /\ UNCHANGED <<value, flagged, got>>
    BY <1>2 DEF BlockFails, dbVars
  <2>2. /\ todo[p] \subseteq Txs /\ todo[p] # {} /\ cur[p] \in Nat \X Nat
        /\ excused \in [Procs -> SUBSET Txs]
    BY <2>1 DEF TraceNow, TraceTypeOK, ReplayInv, Replaying
  <2>3. /\ BlockAt(p) \in Nat /\ \A t \in todo[p] : t[1] >= BlockAt(p)
    BY <2>2, BlockAtIs, BlocksAssumption
  <2>4. at[p] # "block" => cur[p][1] = BlockAt(p)
    BY <2>1, ReplayAt DEF TraceNow, Replaying
  <2>5. /\ at' \in [Procs -> {"off", "over", "failed"} \cup Busy]
        /\ todo' \in [Procs -> SUBSET Txs]
        /\ cur' \in [Procs -> Nat \X Nat] /\ last' \in [Procs -> Nat]
        /\ clean' \in [Procs -> BOOLEAN]
        /\ mode' = mode /\ persist' = persist
        /\ \A q \in Procs \ {p} : /\ at'[q] = at[q] /\ todo'[q] = todo[q]
                                  /\ cur'[q] = cur[q] /\ last'[q] = last[q]
                                  /\ clean'[q] = clean[q]
        /\ cur'[p] = <<0, 0>> /\ todo'[p] = {t \in todo[p] : t[1] > BlockAt(p)}
        /\ at'[p] = (IF todo'[p] = {} THEN "over" ELSE "block")
    BY <2>1, LeaveFrame DEF TraceNow
  <2>6. /\ excused' \in [Procs -> SUBSET Txs] /\ excused'[p] = excused[p] \cup more
        /\ \A q \in Procs \ {p} : excused'[q] = excused[q]
    BY <2>1, <2>2
  <2>7. TraceFrame(p)
    BY <2>1, <2>5, <2>6 DEF TraceFrame, SameTrace, TraceTypeOK, TraceNow
  <2>8. ReplayInv(p)' /\ TrueSoFar(p)'
    BY <1>2, <2>5 DEF ReplayInv, Replaying, TrueSoFar
  <2>9. ASSUME NEW s \in Txs, s \in todo[p], s \notin more, s \notin todo'[p]
        PROVE  Passed(p, s)
    <3>1. s[1] = BlockAt(p) /\ s[1] \in Nat /\ s[2] \in Nat /\ cur[p][2] \in Nat
      <4>1. s[1] \in Nat /\ s[2] \in Nat /\ cur[p][2] \in Nat
        BY <2>2, TxFacts
      <4>2. s[1] >= BlockAt(p) /\ ~(s[1] > BlockAt(p))
        BY <2>3, <2>5, <2>9
      <4> QED
        BY <2>3, <4>1, <4>2
    <3>2. s[2] < cur[p][2]
      BY <2>9, <3>1
    <3>3. at[p] # "block"
      <4>1. at[p] = "block" => cur[p][2] = 0
        BY DEF TraceNow, ReplayInv, Replaying
      <4> QED
        BY <3>1, <3>2, <4>1
    <3> QED
      BY <2>1, <2>4, <3>1, <3>2, <3>3 DEF Passed, Replaying
  <2>10. \A s \in Txs : ~Passed(p, s)'
    BY <2>5 DEF Passed, Replaying
  <2>11. FillInv(p)'
    BY <1>2, <2>1, <2>5, <2>6, <2>9, <2>10 DEF FillInv, TraceNow
  <2> QED
    BY <2>1, <2>7, <2>8, <2>11, SameRows DEF TraceDone
<1> QED
  BY <1>1, <1>2

LEMMA TraceStep ==
    ASSUME NEW p \in Procs, TraceNow(p), TraceAwaits(p) \/ TraceComputes(p)
    PROVE  TraceDone(p)
<1>1. CASE RpcUpdateFails(p)
  BY <1>1, FailDone DEF RpcUpdateFails
<1>2. CASE CommitTx(p)
  BY <1>2, NextTxDone, LastTxDone
<1> QED
  BY <1>1, <1>2, SelectDone, CoinbasesDone, RpcTraceDone, RpcTraceFailsDone, OpenBlockDone,
     FetchDone, InspectDone, PassOverDone, SaveDone, BlockFailsDone
     DEF TraceAwaits, TraceComputes

-----------------------------------------------------------------------------
(* The clocks of a call.                                                   *)

\* A query is late by no more than the replay that is under way, its SQL has what is
\* left, and the clock of a caller is that of its query, which began later.
ClockInv(p) ==
    /\ ran[p] <= MaxReplay
    /\ plan[p] \in Served => ran[p] = 0
    /\ stage[p] \in {"idle", "startup"} => age[p] = 0
    /\ stage[p] = "idle" => waited[p] = 0 /\ limit[p] = 0
    /\ plan[p] \in Served /\ stage[p] # "idle" => limit[p] = Budget
    /\ limit[p] > 0 /\ stage[p] \in Prep => age[p] <= limit[p] + ran[p]
    /\ limit[p] > 0 /\ stage[p] \in {"sql", "orphan"} =>
           /\ age[p] + left[p] <= limit[p] + MaxReplay
           /\ plan[p] \in Served => age[p] + left[p] <= Budget
    /\ plan[p] \in Served /\ stage[p] \in {"deps", "macros", "sql"} =>
           waited[p] = began[p] + age[p]
    /\ stage[p] = "upload" => waited[p] <= began[p] + Budget + age[p]

QueryInv ==
    /\ TypeOK /\ RowsInv /\ StoredInv
    /\ \A p \in Procs : TraceInv(p) /\ ClockInv(p)

LEMMA Times ==
    /\ Budget \in Nat /\ Grace \in Nat /\ UploadBudget \in Nat /\ Outer \in Nat
    /\ MaxReplay \in Nat /\ MaxPurges \in Nat
    /\ 0 < Budget /\ 0 <= MaxReplay
BY TimesAssumption

LEMMA ClockTypes ==
    ASSUME TypeOK
    PROVE  /\ age \in [Procs -> Nat] /\ left \in [Procs -> Nat] /\ waited \in [Procs -> Nat]
           /\ began \in [Procs -> Nat] /\ ran \in [Procs -> Nat]
           /\ limit \in [Procs -> Nat] /\ limit \in [Procs -> {0, Budget}]
           /\ plan \in [Procs -> Kinds]
<1>1. \A c \in {age, left, waited, began, ran} : c \in [Procs -> Nat]
  BY DEF TypeOK
<1>2. limit \in [Procs -> {0, Budget}]
  BY Zenon DEF TypeOK
<1>3. limit \in [Procs -> Nat]
  <2>1. {0, Budget} \subseteq Nat
    BY Times
  <2> QED
    BY <1>2, <2>1
<1>4. plan \in [Procs -> Kinds]
  BY PlansAssumption DEF TypeOK
<1> QED
  BY <1>1, <1>2, <1>3, <1>4

SameQuery(q) ==
    /\ stage'[q] = stage[q] /\ target'[q] = target[q]
    /\ limit'[q] = limit[q] /\ age'[q] = age[q] /\ left'[q] = left[q]
    /\ waited'[q] = waited[q] /\ began'[q] = began[q] /\ ran'[q] = ran[q]

\* What a step of p does.
StepDone(p) ==
    /\ TypeOK' /\ RowsKept /\ RowsInv'
    /\ flagged \subseteq flagged' /\ flaky' = flaky /\ plan' = plan
    /\ \A q \in Procs \ {p} : SameTrace(q) /\ SameQuery(q)
    /\ TraceInv(p)' /\ ClockInv(p)'
    /\ Reliable => TrueSoFar(p)'

LEMMA ResetIsQuiet ==
    ASSUME NEW p, ResetNow(p)
    PROVE  ReplayInv(p) /\ FillInv(p) /\ TrueSoFar(p)
BY DEF ResetNow, ReplayInv, FillInv, TrueSoFar, Replaying

LEMMA ResetFrame ==
    ASSUME TraceTypeOK, NEW p \in Procs, Reset(p), flaky' = flaky,
           value' \in [Txs -> Values], flagged' \subseteq Blocks
    PROVE  /\ TraceTypeOK' /\ ResetNow(p)'
           /\ \A q \in Procs \ {p} : SameTrace(q)
<1>1. TraceTypeOK'
  BY DEF Reset, TraceTypeOK, Values, Traced
<1>2. ResetNow(p)'
  BY DEF Reset, TraceTypeOK, ResetNow
<1>3. ASSUME NEW q \in Procs \ {p} PROVE SameTrace(q)
  BY DEF Reset, TraceTypeOK, SameTrace
<1> QED
  BY <1>1, <1>2, <1>3

\* The rest of StageInv outside a trace.
StageRest(p) ==
    /\ stage[p] = "index" => plan[p] \notin Served
    /\ stage[p] = "startup" => plan[p] \in Served
    /\ stage[p] = "upload" => plan[p] = "upload"
    /\ stage[p] # "idle" /\ plan[p] = "tx" => target[p] \in Targets

QueryTypes ==
    /\ plan \in Plans
    /\ stage \in [Procs -> Stages]
    /\ target \in [Procs -> Targets \cup {NoTx}]
    /\ limit \in [Procs -> {0, Budget}]
    /\ \A c \in {age, left, waited, began, ran} : c \in [Procs -> Nat]
    /\ reply \in [Procs -> {"none", "rows", "error", "timed out", "cut"}]
    /\ purges \in 0 .. MaxPurges

\* A step that has nothing to do with a trace, or ends it.
LEMMA QuietDone ==
    ASSUME QueryInv, NEW p \in Procs,
           (stage[p] # "trace" /\ UNCHANGED traceVars) \/ Reset(p),
           stage'[p] # "trace", StageRest(p)', ClockInv(p)', QueryTypes',
           value' \in [Txs -> Values], flagged' \subseteq Blocks, flagged \subseteq flagged',
           RowsKept, RowsInv', flaky' = flaky, plan' = plan,
           \A q \in Procs \ {p} : SameQuery(q)
    PROVE  StepDone(p)
<1>1. TraceTypeOK' /\ ResetNow(p)' /\ \A q \in Procs \ {p} : SameTrace(q)
  <2>1. CASE stage[p] # "trace" /\ UNCHANGED traceVars
    BY <2>1 DEF QueryInv, TraceInv, StageInv, TypeOK, TraceTypeOK, ResetNow, SameTrace,
                traceVars, replayVars, Values, Traced
  <2>2. CASE Reset(p)
    BY <2>2, ResetFrame DEF QueryInv, TypeOK
  <2> QED
    BY <2>1, <2>2
<1>2. ReplayInv(p)' /\ FillInv(p)' /\ TrueSoFar(p)'
  BY <1>1 DEF ResetNow, ReplayInv, FillInv, TrueSoFar, Replaying
<1>3. StageInv(p)'
  BY <1>1 DEF StageInv, StageRest
<1>4. TypeOK'
  BY <1>1 DEF TypeOK, QueryTypes
<1> QED
  BY <1>1, <1>2, <1>3, <1>4 DEF StepDone, TraceInv

\* The end of a call, which leaves nothing behind but what was being written.
LEMMA EndedDone ==
    ASSUME QueryInv, NEW p \in Procs, Ended(p), RowsKept,
           value' \in [Txs -> Values],
           reply' \in [Procs -> {"none", "rows", "error", "timed out", "cut"}]
    PROVE  StepDone(p)
<1>1. /\ stage' = [stage EXCEPT ![p] = "idle"]
      /\ target' = [target EXCEPT ![p] = NoTx]
      /\ limit' = [limit EXCEPT ![p] = 0]
      /\ age' = [age EXCEPT ![p] = 0]
      /\ left' = [left EXCEPT ![p] = 0]
      /\ waited' = [waited EXCEPT ![p] = 0]
      /\ began' = [began EXCEPT ![p] = 0]
      /\ ran' = [ran EXCEPT ![p] = 0]
      /\ Reset(p) /\ UNCHANGED <<flagged, flaky, plan, purges>>
  BY DEF Ended, GoTo
<1>2. TypeOK /\ TraceTypeOK /\ QueryTypes
  BY DEF QueryInv, TypeOK, QueryTypes
<1>3. /\ age \in [Procs -> Nat] /\ left \in [Procs -> Nat] /\ waited \in [Procs -> Nat]
      /\ began \in [Procs -> Nat] /\ ran \in [Procs -> Nat]
      /\ limit \in [Procs -> {0, Budget}]
      /\ stage \in [Procs -> Stages] /\ target \in [Procs -> Targets \cup {NoTx}]
      /\ plan \in Plans /\ purges \in 0 .. MaxPurges
  <2>1. limit \in [Procs -> {0, Budget}]
    BY <1>2, ClockTypes
  <2> QED
    BY <1>2, <2>1, ClockTypes DEF QueryTypes
<1>4. /\ stage'[p] = "idle" /\ limit'[p] = 0 /\ age'[p] = 0 /\ left'[p] = 0
      /\ waited'[p] = 0 /\ began'[p] = 0 /\ ran'[p] = 0
      /\ \A q \in Procs \ {p} : SameQuery(q)
  BY <1>1, <1>3 DEF SameQuery
<1>5. QueryTypes'
  <2>1. /\ age' \in [Procs -> Nat] /\ left' \in [Procs -> Nat] /\ waited' \in [Procs -> Nat]
        /\ began' \in [Procs -> Nat] /\ ran' \in [Procs -> Nat]
        /\ limit' \in [Procs -> {0, Budget}]
    BY <1>1, <1>3
  <2>2. stage' \in [Procs -> Stages] /\ target' \in [Procs -> Targets \cup {NoTx}]
    BY <1>1, <1>3 DEF Stages
  <2> QED
    BY <1>1, <1>3, <2>1, <2>2 DEF QueryTypes
<1>6. ClockInv(p)'
  <2>1. "idle" \notin Prep \cup {"sql", "orphan", "upload"}
    BY DEF Prep
  <2>2. 0 <= MaxReplay
    BY Times
  <2> QED
    BY <1>4, <2>1, <2>2 DEF ClockInv
<1>7. StageRest(p)'
  BY <1>4 DEF StageRest
<1>8. RowsInv'
  BY <1>1 DEF QueryInv, RowsInv, RowsKept, Traced
<1>9. flagged' \subseteq Blocks /\ flagged \subseteq flagged' /\ flaky' = flaky /\ plan' = plan
  BY <1>1, <1>2 DEF TraceTypeOK
<1> QED
  BY <1>1, <1>4, <1>5, <1>6, <1>7, <1>8, <1>9, QuietDone

\* Any reply.
LEMMA ReplyType ==
    ASSUME TypeOK, NEW p \in Procs, NEW r \in {"none", "rows", "error", "timed out", "cut"},
           Reply(p, r)
    PROVE  reply' \in [Procs -> {"none", "rows", "error", "timed out", "cut"}]
BY DEF TypeOK, Reply

LEMMA RowsType ==
    ASSUME QueryInv
    PROVE  value \in [Txs -> Values] /\ flagged \subseteq Blocks
BY DEF QueryInv, TypeOK, TraceTypeOK, Values

-----------------------------------------------------------------------------
(* The steps of a call.                                                    *)

LEMMA StartDone ==
    ASSUME QueryInv, NEW p \in Procs, Start(p)
    PROVE  StepDone(p)
<1>1. PICK n \in {0, Budget} :
          /\ plan[p] \in Served => n = Budget
          /\ plan[p] = "tx" => n = 0
          /\ limit' = [limit EXCEPT ![p] = n]
  BY DEF Start
<1>2. PICK t \in Targets \cup {NoTx} :
          /\ plan[p] = "tx" <=> t # NoTx
          /\ target' = [target EXCEPT ![p] = t]
  BY DEF Start
<1>3. /\ stage[p] = "idle"
      /\ stage' = [stage EXCEPT ![p] = IF plan[p] \in Served THEN "startup" ELSE "deps"]
      /\ reply' = [reply EXCEPT ![p] = "none"]
      /\ UNCHANGED <<value, flagged, flaky, traceVars, plan, age, left, waited, began, ran,
                     purges>>
  BY DEF Start, GoTo, dbVars
<1>4. TypeOK /\ QueryTypes /\ ClockInv(p)
  BY DEF QueryInv, TypeOK, QueryTypes
<1>5. /\ stage'[p] = (IF plan[p] \in Served THEN "startup" ELSE "deps")
      /\ limit'[p] = n /\ target'[p] = t /\ age'[p] = age[p] /\ left'[p] = left[p]
      /\ waited'[p] = waited[p] /\ began'[p] = began[p] /\ ran'[p] = ran[p]
      /\ \A q \in Procs \ {p} : SameQuery(q)
  BY <1>1, <1>2, <1>3, <1>4 DEF SameQuery, QueryTypes
<1>6. QueryTypes'
  BY <1>1, <1>2, <1>3, <1>4 DEF QueryTypes, Stages, Prep
<1>7. ClockInv(p)'
  <2>1. n \in Nat /\ ran[p] \in Nat /\ age[p] = 0 /\ waited[p] = 0
    BY <1>3, <1>4, Times, ClockTypes DEF ClockInv
  <2> QED
    BY <1>1, <1>3, <1>4, <1>5, <2>1 DEF ClockInv, Prep
<1>8. StageRest(p)'
  BY <1>2, <1>3, <1>5 DEF StageRest, Served
<1> QED
  BY <1>3, <1>5, <1>6, <1>7, <1>8, RowsType, SameRows, QuietDone DEF QueryInv, RowsInv

\* What is known of the clocks and types before a step.
LEMMA Known ==
    ASSUME QueryInv, NEW p \in Procs
    PROVE  /\ QueryTypes /\ TypeOK /\ StageInv(p) /\ ClockInv(p) /\ StageRest(p)
           /\ age[p] \in Nat /\ left[p] \in Nat /\ waited[p] \in Nat /\ began[p] \in Nat
           /\ ran[p] \in Nat /\ limit[p] \in Nat /\ limit[p] \in {0, Budget}
           /\ plan[p] \in Kinds /\ stage[p] \in Stages
<1>1. QueryTypes /\ TypeOK /\ StageInv(p) /\ ClockInv(p) /\ StageRest(p)
  BY DEF QueryInv, TypeOK, QueryTypes, TraceInv, StageInv, StageRest
<1>2. stage[p] \in Stages
  BY <1>1 DEF QueryTypes
<1> QED
  BY <1>1, <1>2, ClockTypes

LEMMA EnterQueryDone ==
    ASSUME QueryInv, NEW p \in Procs, EnterQuery(p)
    PROVE  StepDone(p)
<1>1. /\ stage[p] = "startup"
      /\ stage' = [stage EXCEPT ![p] = "deps"]
      /\ began' = [began EXCEPT ![p] = waited[p]]
      /\ UNCHANGED <<value, flagged, flaky, traceVars, plan, target, limit, age, left, waited,
                     ran, reply, purges>>
  BY DEF EnterQuery, GoTo, dbVars
<1>2. /\ QueryTypes /\ TypeOK /\ ClockInv(p) /\ StageRest(p)
      /\ age[p] \in Nat /\ left[p] \in Nat /\ waited[p] \in Nat /\ ran[p] \in Nat
      /\ limit[p] \in Nat
  BY Known
<1>3. began \in [Procs -> Nat] /\ stage \in [Procs -> Stages]
  BY <1>2, ClockTypes DEF QueryTypes
<1>4. /\ stage'[p] = "deps" /\ began'[p] = waited[p]
      /\ limit' = limit /\ target' = target /\ age' = age /\ left' = left
      /\ waited' = waited /\ ran' = ran
      /\ \A q \in Procs \ {p} : SameQuery(q)
  BY <1>1, <1>3 DEF SameQuery
<1>5. /\ began' \in [Procs -> Nat] /\ stage' \in [Procs -> Stages]
      /\ \A c \in {age, left, waited, ran} : c \in [Procs -> Nat]
  BY <1>1, <1>2, <1>3 DEF Stages, Prep, QueryTypes
<1>6. QueryTypes'
  BY <1>1, <1>2, <1>5 DEF QueryTypes
<1>7. ClockInv(p)'
  <2>1. age[p] = 0 /\ waited[p] = waited[p] + age[p]
    BY <1>1, <1>2 DEF ClockInv
  <2> QED
    BY <1>1, <1>2, <1>4, <2>1 DEF ClockInv, Prep
<1>8. StageRest(p)'
  BY <1>1, <1>2, <1>4 DEF StageRest
<1> QED
  BY <1>1, <1>4, <1>6, <1>7, <1>8, RowsType, SameRows, QuietDone DEF QueryInv, RowsInv

\* A step that changes neither the clocks nor the rows.
LEMMA MoveDone ==
    ASSUME QueryInv, NEW p \in Procs, NEW s \in Prep \ {"trace"}, stage[p] \in Prep,
           plan[p] \in Served => s # "index" /\ stage[p] # "index",
           (stage[p] # "trace" /\ UNCHANGED traceVars) \/ Reset(p),
           stage' = [stage EXCEPT ![p] = s],
           value' \in [Txs -> Values], RowsKept,
           UNCHANGED <<flagged, flaky, plan, target, clocks, reply, purges>>
    PROVE  StepDone(p)
<1>1. UNCHANGED <<limit, age, left, waited, began, ran>>
  BY DEF clocks
<1>2. QueryTypes /\ TypeOK /\ ClockInv(p) /\ StageInv(p) /\ StageRest(p) /\ limit[p] \in Nat
  BY Known
<1>3. /\ stage'[p] = s /\ stage' \in [Procs -> Stages]
      /\ s \in {"deps", "index", "macros"} /\ s \in Prep
      /\ \A q \in Procs \ {p} : SameQuery(q)
  BY <1>1, <1>2 DEF SameQuery, QueryTypes, Stages, Prep
<1>4. QueryTypes'
  BY <1>1, <1>2, <1>3 DEF QueryTypes
<1>5. stage[p] \in {"deps", "index", "trace", "macros"} /\ stage[p] # "idle"
  BY DEF Prep
<1>6. plan[p] \in Served => stage[p] \in {"deps", "macros"} /\ s \in {"deps", "macros"}
  BY <1>2, <1>3, <1>5 DEF StageInv, Served
<1>7. ClockInv(p)'
  BY <1>1, <1>2, <1>3, <1>5, <1>6 DEF ClockInv
<1>8. StageRest(p)'
  BY <1>2, <1>3, <1>5 DEF StageRest
<1>9. RowsInv'
  BY DEF QueryInv, RowsInv, RowsKept, Traced
<1> QED
  BY <1>3, <1>4, <1>7, <1>8, <1>9, RowsType, QuietDone

LEMMA InitDepsDone ==
    ASSUME QueryInv, NEW p \in Procs, InitDeps(p)
    PROVE  StepDone(p)
<1> DEFINE s == IF plan[p] \in Served THEN "macros" ELSE "index"
<1>1. stage[p] = "deps" /\ UNCHANGED traceVars /\ value' = value
  BY DEF InitDeps, dbVars
<1>2. /\ stage' = [stage EXCEPT ![p] = s]
      /\ UNCHANGED <<flagged, flaky, plan, target, clocks, reply, purges>>
  BY DEF InitDeps, GoTo, dbVars
<1>3. /\ s \in Prep \ {"trace"} /\ stage[p] \in Prep
      /\ plan[p] \in Served => s # "index" /\ stage[p] # "index"
  BY <1>1 DEF Prep
<1> HIDE DEF s
<1> QED
  BY <1>1, <1>2, <1>3, RowsType, SameRows, MoveDone

\* While the range is indexed, only rows appear.
LEMMA IndexingDone ==
    ASSUME QueryInv, NEW p \in Procs, stage[p] = "index",
           UNCHANGED <<flaky, traceVars, queryVars>>,
           value' \in [Txs -> Values], RowsKept, RowsInv',
           flagged' \subseteq Blocks, flagged \subseteq flagged'
    PROVE  StepDone(p)
<1>1. UNCHANGED <<plan, stage, target, limit, age, left, waited, began, ran, reply, purges>>
  BY DEF queryVars, clocks
<1>2. QueryTypes /\ ClockInv(p) /\ StageRest(p)
  BY Known
<1>3. QueryTypes' /\ ClockInv(p)' /\ StageRest(p)' /\ \A q \in Procs \ {p} : SameQuery(q)
  BY <1>1, <1>2 DEF QueryTypes, ClockInv, StageRest, SameQuery
<1> QED
  BY <1>1, <1>3, QuietDone

LEMMA IndexTxsDone ==
    ASSUME QueryInv, NEW p \in Procs, IndexTxs(p)
    PROVE  StepDone(p)
<1>1. PICK b \in Missing(p) : SaveTxs({b})
  BY DEF IndexTxs
<1>2. value' \in [Txs -> Values] /\ RowsKept
  BY <1>1, SaveRows, RowsType
<1>3. stage[p] = "index" /\ UNCHANGED <<flagged, flaky, traceVars, queryVars>>
  BY DEF IndexTxs
<1>4. RowsInv'
  BY <1>2, <1>3 DEF QueryInv, RowsInv, RowsKept, Traced
<1> QED
  BY <1>2, <1>3, <1>4, RowsType, IndexingDone

LEMMA IndexBlockDone ==
    ASSUME QueryInv, NEW p \in Procs, IndexBlock(p)
    PROVE  StepDone(p)
<1>1. PICK b \in Missing(p) : /\ \A t \in TxsOf(b) : value[t] # "absent"
                              /\ flagged' = flagged \cup {b}
  BY DEF IndexBlock
<1>2. stage[p] = "index" /\ UNCHANGED <<value, flaky, traceVars, queryVars>>
  BY DEF IndexBlock
<1>3. b \in Blocks
  <2>1. b \in Wanted(p)
    BY DEF Missing
  <2>2. plan[p] = "tx" => target[p][1] \in Blocks
    BY <1>2, Known, TargetsAssumption, TxFacts DEF StageRest
  <2> QED
    BY <2>1, <2>2 DEF Wanted
<1>4. RowsInv'
  BY <1>1, <1>2 DEF QueryInv, RowsInv, TxsOf
<1>5. flagged' \subseteq Blocks /\ flagged \subseteq flagged'
  BY <1>1, <1>3, RowsType
<1> QED
  BY <1>2, <1>4, <1>5, RowsType, SameRows, IndexingDone

\* A trace begins, all rows of its range being there.
LEMMA TraceBegins ==
    ASSUME QueryInv, NEW p \in Procs, stage[p] = "index", Wanted(p) \subseteq flagged,
           NEW m \in {"rpc", "revm"},
           stage' = [stage EXCEPT ![p] = "trace"],
           IF plan[p] = "tx" THEN StartSingle(p, m, target[p]) ELSE StartBackfill(p, m),
           UNCHANGED <<dbVars, flaky, plan, target, clocks, reply, purges>>
    PROVE  StepDone(p)
<1>1. UNCHANGED <<value, flagged, limit, age, left, waited, began, ran>>
  BY DEF clocks, dbVars
<1>2. /\ QueryTypes /\ TypeOK /\ ClockInv(p) /\ StageInv(p) /\ StageRest(p) /\ limit[p] \in Nat
      /\ plan[p] \in Kinds /\ TraceTypeOK
  BY Known DEF TypeOK
<1>3. /\ plan[p] \in {"query", "tx"} /\ plan[p] \notin Served
      /\ plan[p] = "tx" => target[p] \in Targets /\ target[p] \in Txs
  BY <1>2, TargetsAssumption DEF StageRest, Kinds, Served
<1>4. stage'[p] = "trace" /\ stage' \in [Procs -> Stages] /\ \A q \in Procs \ {p} : SameQuery(q)
  BY <1>1, <1>2 DEF SameQuery, QueryTypes, Stages, Prep
<1>5. QueryTypes'
  BY <1>1, <1>2, <1>4 DEF QueryTypes
<1>6. ClockInv(p)'
  BY <1>1, <1>2, <1>3, <1>4 DEF ClockInv, Prep
<1>7. ResetNow(p)
  BY <1>2 DEF StageInv
<1>8. CASE plan[p] = "tx"
  <2>1. /\ at' = [at EXCEPT ![p] = IF m = "rpc" THEN "rpc" ELSE "block"]
        /\ mode' = [mode EXCEPT ![p] = m]
        /\ persist' = [persist EXCEPT ![p] = FALSE]
        /\ todo' = [todo EXCEPT ![p] = {target[p]}]
        /\ UNCHANGED <<cur, last, clean, got, excused>>
    BY <1>8 DEF StartSingle, replayVars
  <2>2. TraceTypeOK'
    BY <1>1, <1>2, <1>3, <1>8, <2>1 DEF TraceTypeOK, Busy
  <2>3. /\ at'[p] \in {"rpc", "block"} /\ persist'[p] = FALSE /\ todo'[p] = {target[p]}
        /\ cur'[p] = <<0, 0>> /\ \A q \in Procs \ {p} : SameTrace(q)
    BY <1>2, <1>7, <2>1 DEF TraceTypeOK, SameTrace, ResetNow
  <2>4. StageInv(p)'
    BY <1>3, <1>4, <1>8, <2>3 DEF StageInv, Served
  <2>5. ReplayInv(p)' /\ FillInv(p)' /\ TrueSoFar(p)'
    BY <2>3 DEF ReplayInv, FillInv, TrueSoFar, Replaying
  <2>6. TypeOK'
    BY <1>5, <2>2 DEF TypeOK, QueryTypes
  <2> QED
    BY <1>1, <1>4, <1>6, <2>3, <2>4, <2>5, <2>6, SameRows
       DEF StepDone, TraceInv, QueryInv, RowsInv
<1>9. CASE plan[p] = "query"
  <2>1. /\ at' = [at EXCEPT ![p] = "select"]
        /\ mode' = [mode EXCEPT ![p] = m]
        /\ persist' = [persist EXCEPT ![p] = TRUE]
        /\ UNCHANGED <<todo, cur, last, clean, got, excused>>
    BY <1>9 DEF StartBackfill, replayVars
  <2>2. TraceTypeOK'
    BY <1>1, <1>2, <2>1 DEF TraceTypeOK, Busy
  <2>3. /\ at'[p] = "select" /\ persist'[p] = TRUE
        /\ cur'[p] = <<0, 0>> /\ \A q \in Procs \ {p} : SameTrace(q)
    BY <1>2, <1>7, <2>1 DEF TraceTypeOK, SameTrace, ResetNow
  <2>4. StageInv(p)'
    BY <1>3, <1>4, <1>9, <2>3 DEF StageInv, Served
  <2>5. \A t \in Txs : t[1] \in flagged'
    BY <1>1, <1>9, TxFacts DEF Wanted
  <2>6. ReplayInv(p)' /\ TrueSoFar(p)'
    BY <2>3 DEF ReplayInv, TrueSoFar, Replaying
  <2>7. FillInv(p)'
    BY <2>3, <2>5 DEF FillInv
  <2>8. TypeOK'
    BY <1>5, <2>2 DEF TypeOK, QueryTypes
  <2> QED
    BY <1>1, <1>4, <1>6, <2>3, <2>4, <2>6, <2>7, <2>8, SameRows
       DEF StepDone, TraceInv, QueryInv, RowsInv
<1> QED
  BY <1>3, <1>8, <1>9

LEMMA IndexedDone ==
    ASSUME QueryInv, NEW p \in Procs, Indexed(p)
    PROVE  StepDone(p)
<1>1. /\ stage[p] = "index" /\ Wanted(p) \subseteq flagged
      /\ UNCHANGED <<dbVars, flaky, plan, target, clocks, reply, purges>>
  BY DEF Indexed
<1>2. CASE GoTo(p, "macros") /\ UNCHANGED traceVars
  <2>1. stage' = [stage EXCEPT ![p] = "macros"]
    BY <1>2 DEF GoTo
  <2>2. plan[p] \notin Served
    BY <1>1, Known DEF StageRest
  <2>3. UNCHANGED <<value, flagged>> /\ "macros" \in Prep \ {"trace"} /\ stage[p] \in Prep
    BY <1>1 DEF dbVars, Prep
  <2> QED
    BY <1>1, <1>2, <2>1, <2>2, <2>3, RowsType, SameRows, MoveDone
<1>3. CASE /\ GoTo(p, "trace")
           /\ \E m \in {"rpc", "revm"} :
                 IF plan[p] = "tx" THEN StartSingle(p, m, target[p])
                                   ELSE StartBackfill(p, m)
  BY <1>1, <1>3, TraceBegins DEF GoTo
<1> QED
  BY <1>2, <1>3 DEF Indexed

LEMMA TraceStageDone ==
    ASSUME QueryInv, NEW p \in Procs, Trace(p)
    PROVE  StepDone(p)
<1>1. /\ stage[p] = "trace"
      /\ UNCHANGED <<flaky, plan, stage, target, limit, age, left, waited, began, reply, purges>>
  BY DEF Trace
<1>2. /\ QueryTypes /\ TypeOK /\ ClockInv(p) /\ StageInv(p) /\ StageRest(p)
      /\ limit[p] \in Nat /\ age[p] \in Nat /\ ran[p] \in Nat
  BY Known
<1>3. TraceNow(p)
  BY <1>1, <1>2 DEF TraceNow, QueryInv, TraceInv, StageInv, StoredInv, TypeOK
<1>4. TraceDone(p)
  BY <1>3, TraceStep DEF Trace
<1>5. TraceTypeOK' /\ persist' = persist /\ at'[p] # "off" /\ flagged' = flagged
  BY <1>4 DEF TraceDone, TraceFrame
<1>6. /\ ran' \in [Procs -> Nat] /\ \A q \in Procs \ {p} : ran'[q] = ran[q]
      /\ \/ ran'[p] = 0 /\ ~Due(p)
         \/ ran'[p] = ran[p]
  <2>1. ran \in [Procs -> Nat]
    BY <1>2, ClockTypes
  <2> QED
    BY <2>1 DEF Trace
<1>7. QueryTypes'
  <2>1. \A c \in {age, left, waited, began} : c \in [Procs -> Nat]
    BY <1>2 DEF QueryTypes
  <2> QED
    BY <1>1, <1>2, <1>6, <2>1 DEF QueryTypes
<1>8. ClockInv(p)'
  <2>1. plan[p] \notin Served /\ "trace" \in Prep
    BY <1>1, <1>2 DEF StageInv, Served, Prep
  <2>2. ~Due(p) /\ limit[p] > 0 => age[p] <= limit[p]
    BY <1>1, <1>2, <2>1 DEF Due, PrepDue
  <2>3. ran'[p] <= MaxReplay
    BY <1>2, <1>6, Times DEF ClockInv
  <2>4. limit[p] > 0 => age[p] <= limit[p] + ran'[p]
    BY <1>1, <1>2, <1>6, <2>1, <2>2 DEF ClockInv
  <2> QED
    BY <1>1, <2>1, <2>3, <2>4 DEF ClockInv
<1>9. StageInv(p)'
  BY <1>1, <1>2, <1>5 DEF StageInv
<1>10. TypeOK' /\ \A q \in Procs \ {p} : SameQuery(q)
  BY <1>1, <1>5, <1>6, <1>7 DEF TypeOK, QueryTypes, SameQuery
<1>11. RowsInv'
  BY <1>4, <1>5 DEF TraceDone, QueryInv, RowsInv, RowsKept, Traced
<1> QED
  BY <1>1, <1>4, <1>5, <1>8, <1>9, <1>10, <1>11 DEF StepDone, TraceDone, TraceFrame, TraceInv

LEMMA TraceOverDone ==
    ASSUME QueryInv, NEW p \in Procs, TraceOver(p)
    PROVE  StepDone(p)
<1>1. /\ stage[p] = "trace" /\ at[p] = "over" /\ Reset(p)
      /\ stage' = [stage EXCEPT ![p] = "macros"]
      /\ UNCHANGED <<flagged, flaky, plan, target, clocks, reply, purges>>
  BY DEF TraceOver, GoTo
<1>2. StageInv(p) /\ StageRest(p) /\ TypeOK
  BY Known
<1>3. plan[p] \notin Served /\ persist[p] = (plan[p] = "query")
  BY <1>1, <1>2 DEF StageInv, Served
<1>4. value' \in [Txs -> Values] /\ RowsKept
  <2>1. CASE plan[p] = "tx"
    <3>1. target[p] \in Txs /\ got[p] \in Traced
      BY <1>1, <1>2, <2>1, TargetsAssumption DEF StageRest, TypeOK, TraceTypeOK
    <3>2. Reliable => got[p] = Payment[target[p]]
      BY <1>1, <1>3, <2>1 DEF QueryInv, StoredInv, TrueSoFar
    <3>3. UpdateCoinbaseTransfer(target[p], got[p])
      BY <2>1 DEF TraceOver
    <3> QED
      BY <3>1, <3>2, <3>3, RowsType, UpdateRows
  <2>2. CASE plan[p] # "tx"
    BY <2>2, RowsType, SameRows DEF TraceOver
  <2> QED
    BY <2>1, <2>2
<1>5. "macros" \in Prep \ {"trace"} /\ stage[p] \in Prep
  BY <1>1 DEF Prep
<1> QED
  BY <1>1, <1>3, <1>4, <1>5, MoveDone

LEMMA StartSqlDone ==
    ASSUME QueryInv, NEW p \in Procs, StartSql(p)
    PROVE  StepDone(p)
<1>1. /\ stage[p] = "macros"
      /\ stage' = [stage EXCEPT ![p] = "sql"]
      /\ left' = [left EXCEPT ![p] = Remaining(p)]
      /\ UNCHANGED <<value, flagged, flaky, traceVars, plan, target, limit, age, waited, began,
                     ran, reply, purges>>
  BY DEF StartSql, GoTo, dbVars
<1>2. /\ QueryTypes /\ TypeOK /\ ClockInv(p) /\ StageRest(p)
      /\ age[p] \in Nat /\ ran[p] \in Nat /\ limit[p] \in Nat
  BY Known
<1>3. Remaining(p) \in Nat
  BY <1>2 DEF Remaining
<1>4. left \in [Procs -> Nat] /\ stage \in [Procs -> Stages]
  BY <1>2, ClockTypes DEF QueryTypes
<1>5. /\ stage'[p] = "sql" /\ left'[p] = Remaining(p)
      /\ left' \in [Procs -> Nat] /\ stage' \in [Procs -> Stages]
      /\ \A q \in Procs \ {p} : SameQuery(q)
  BY <1>1, <1>3, <1>4 DEF SameQuery, Stages
<1>6. QueryTypes'
  <2>1. \A c \in {age, waited, began, ran} : c \in [Procs -> Nat]
    BY <1>2 DEF QueryTypes
  <2> QED
    BY <1>1, <1>2, <1>5, <2>1 DEF QueryTypes
<1>7. ClockInv(p)'
  <2>1. /\ ran[p] <= MaxReplay /\ (plan[p] \in Served => ran[p] = 0 /\ limit[p] = Budget)
        /\ limit[p] > 0 => age[p] <= limit[p] + ran[p]
        /\ plan[p] \in Served => waited[p] = began[p] + age[p]
    BY <1>1, <1>2 DEF ClockInv, Prep
  <2>2. limit[p] > 0 => age[p] + Remaining(p) <= limit[p] + ran[p]
    BY <1>2, <2>1 DEF Remaining
  <2>3. limit[p] > 0 => age[p] + Remaining(p) <= limit[p] + MaxReplay
    BY <1>2, <1>3, <2>1, <2>2, Times
  <2>4. plan[p] \in Served /\ limit[p] > 0 => age[p] + Remaining(p) <= Budget
    BY <1>2, <1>3, <2>1, <2>2, Times
  <2>5. "sql" \notin Prep
    BY DEF Prep
  <2> QED
    BY <1>1, <1>5, <2>1, <2>3, <2>4, <2>5 DEF ClockInv
<1>8. StageRest(p)'
  BY <1>1, <1>2, <1>5 DEF StageRest
<1> QED
  BY <1>1, <1>5, <1>6, <1>7, <1>8, RowsType, SameRows, QuietDone DEF QueryInv, RowsInv

\* What the database still does of a statement whose caller is gone.
LEMMA InFlightRows ==
    ASSUME QueryInv, NEW p \in Procs, InFlight(p)
    PROVE  value' \in [Txs -> Values] /\ RowsKept
<1>1. CASE UNCHANGED value
  BY <1>1, RowsType, SameRows
<1>2. CASE \E b \in Missing(p) : SaveTxs({b})
  BY <1>2, RowsType, SaveRows
<1>3. CASE at[p] = "save" /\ UpdateCoinbaseTransfer(cur[p], got[p])
  <2>1. cur[p] \in Txs /\ got[p] \in Traced
    BY <1>3 DEF QueryInv, TypeOK, TraceTypeOK, TraceInv, ReplayInv
  <2>2. Reliable => got[p] = Payment[cur[p]]
    BY <1>3 DEF QueryInv, StoredInv, TrueSoFar
  <2> QED
    BY <1>3, <2>1, <2>2, RowsType, UpdateRows
<1>4. CASE \E t \in todo[p] : UpdateCoinbaseTransfer(t, Payment[t])
  <2>1. PICK t \in todo[p] : UpdateCoinbaseTransfer(t, Payment[t])
    BY <1>4
  <2>2. t \in Txs /\ Payment[t] \in Traced
    BY TxFacts DEF QueryInv, TypeOK, TraceTypeOK
  <2> QED
    BY <2>1, <2>2, RowsType, UpdateRows
<1> QED
  BY <1>1, <1>2, <1>3, <1>4 DEF InFlight

\* The call of p ends, or its SQL goes on without it.
LEMMA OverDone ==
    ASSUME QueryInv, NEW p \in Procs,
           \/ PrepTimesOut(p) \/ Stops(p) \/ SqlTimesOut(p) \/ UploadEnds(p) \/ OrphanEnds(p)
           \/ SqlEnds(p) /\ plan[p] # "upload"
           \/ Cut(p) /\ ~(plan[p] = "search" /\ stage[p] = "sql")
    PROVE  StepDone(p)
<1>1. Ended(p)
  BY DEF PrepTimesOut, Stops, SqlTimesOut, UploadEnds, OrphanEnds, SqlEnds, Cut
<1>2. InFlight(p)
  BY DEF PrepTimesOut, Stops, SqlTimesOut, UploadEnds, OrphanEnds, SqlEnds, Cut, InFlight
<1>3. TypeOK
  BY DEF QueryInv
<1>4. reply' \in [Procs -> {"none", "rows", "error", "timed out", "cut"}]
  <2>1. CASE UNCHANGED reply
    BY <1>3, <2>1 DEF TypeOK
  <2>2. CASE \E r \in {"rows", "error", "timed out", "cut"} : Reply(p, r)
    BY <1>3, <2>2, ReplyType
  <2> QED
    BY <2>1, <2>2 DEF PrepTimesOut, Stops, SqlTimesOut, UploadEnds, OrphanEnds, SqlEnds, Cut
<1> QED
  BY <1>1, <1>2, <1>4, InFlightRows, EndedDone

\* The search that is cut leaves its SQL behind; the upload begins after it.
LEMMA AfterSqlDone ==
    ASSUME QueryInv, NEW p \in Procs,
           \/ SqlEnds(p) /\ plan[p] = "upload"
           \/ Cut(p) /\ plan[p] = "search" /\ stage[p] = "sql"
    PROVE  StepDone(p)
<1>1. /\ QueryTypes /\ TypeOK /\ ClockInv(p) /\ StageRest(p)
      /\ age[p] \in Nat /\ ran[p] \in Nat /\ limit[p] \in Nat /\ left[p] \in Nat
      /\ waited[p] \in Nat /\ began[p] \in Nat
  BY Known
<1>2. age \in [Procs -> Nat] /\ left \in [Procs -> Nat]
  BY <1>1, ClockTypes
<1>3. CASE SqlEnds(p) /\ plan[p] = "upload"
  <2>1. /\ stage[p] = "sql" /\ stage' = [stage EXCEPT ![p] = "upload"]
        /\ age' = [age EXCEPT ![p] = 0] /\ left' = [left EXCEPT ![p] = 0]
        /\ UNCHANGED <<value, flagged, flaky, traceVars, plan, target, limit, waited,
                       began, ran, reply, purges>>
    BY <1>3 DEF SqlEnds, GoTo, dbVars
  <2>2. /\ stage'[p] = "upload" /\ age'[p] = 0 /\ left'[p] = 0
        /\ age' \in [Procs -> Nat] /\ left' \in [Procs -> Nat] /\ stage' \in [Procs -> Stages]
        /\ \A q \in Procs \ {p} : SameQuery(q)
    BY <1>1, <1>2, <2>1 DEF QueryTypes, SameQuery, Stages
  <2>3. QueryTypes'
    <3>1. \A c \in {waited, began, ran} : c \in [Procs -> Nat]
      BY <1>1 DEF QueryTypes
    <3> QED
      BY <1>1, <2>1, <2>2, <3>1 DEF QueryTypes
  <2>4. ClockInv(p)'
    <3>1. plan[p] \in Served /\ "upload" \notin Prep
      BY <1>3 DEF Served, Prep
    <3>2. /\ limit[p] = Budget /\ waited[p] = began[p] + age[p]
          /\ age[p] + left[p] <= Budget
      BY <1>1, <2>1, <3>1, Times DEF ClockInv
    <3>3. waited[p] <= began[p] + Budget + 0
      BY <1>1, <3>2, Times
    <3> QED
      BY <1>1, <2>1, <2>2, <3>1, <3>3 DEF ClockInv
  <2>5. StageRest(p)'
    BY <1>3, <2>1, <2>2 DEF StageRest
  <2> QED
    BY <2>1, <2>2, <2>3, <2>4, <2>5, RowsType, SameRows, QuietDone DEF QueryInv, RowsInv
<1>4. CASE Cut(p) /\ plan[p] = "search" /\ stage[p] = "sql"
  <2>1. /\ stage' = [stage EXCEPT ![p] = "orphan"] /\ Reply(p, "cut")
        /\ UNCHANGED <<value, flagged, flaky, traceVars, plan, target, limit, age, left,
                       waited, began, ran, purges>>
    BY <1>4 DEF Cut, GoTo, dbVars, clocks
  <2>2. /\ stage'[p] = "orphan" /\ stage' \in [Procs -> Stages]
        /\ \A q \in Procs \ {p} : SameQuery(q)
    BY <1>1, <2>1 DEF QueryTypes, SameQuery, Stages
  <2>3. QueryTypes'
    <3>1. reply' \in [Procs -> {"none", "rows", "error", "timed out", "cut"}]
      BY <1>1, <2>1, ReplyType
    <3> QED
      BY <1>1, <2>1, <2>2, <3>1 DEF QueryTypes
  <2>4. ClockInv(p)'
    <3>1. "orphan" \notin Prep
      BY DEF Prep
    <3> QED
      BY <1>1, <1>4, <2>1, <2>2, <3>1 DEF ClockInv
  <2>5. StageRest(p)'
    BY <1>4, <2>1, <2>2 DEF StageRest
  <2> QED
    BY <1>4, <2>1, <2>2, <2>3, <2>4, <2>5, RowsType, SameRows, QuietDone DEF QueryInv, RowsInv
<1> QED
  BY <1>3, <1>4

LEMMA EveryStepDone ==
    ASSUME QueryInv, NEW p \in Procs, Step(p)
    PROVE  StepDone(p)
<1>1. CASE SqlEnds(p) \/ Cut(p)
  BY <1>1, OverDone, AfterSqlDone
<1>2. CASE \/ PrepTimesOut(p) \/ Stops(p) \/ SqlTimesOut(p) \/ UploadEnds(p) \/ OrphanEnds(p)
  BY <1>2, OverDone
<1> QED
  BY <1>1, <1>2, StartDone, EnterQueryDone, InitDepsDone, IndexTxsDone, IndexBlockDone,
     IndexedDone, TraceStageDone, TraceOverDone, StartSqlDone DEF Step

-----------------------------------------------------------------------------
(* The invariant.                                                          *)

LEMMA StepKeeps ==
    ASSUME QueryInv, NEW p \in Procs, StepDone(p)
    PROVE  QueryInv'
<1>1. /\ TypeOK' /\ RowsKept /\ RowsInv' /\ flagged \subseteq flagged'
      /\ flaky' = flaky /\ plan' = plan
      /\ \A q \in Procs \ {p} : SameTrace(q) /\ SameQuery(q)
      /\ TraceInv(p)' /\ ClockInv(p)'
      /\ Reliable => TrueSoFar(p)'
  BY DEF StepDone
<1>2. ASSUME NEW q \in Procs \ {p}
      PROVE  TraceInv(q)' /\ ClockInv(q)' /\ (Reliable => TrueSoFar(q)')
  <2>1. SameTrace(q) /\ SameQuery(q) /\ plan'[q] = plan[q]
    BY <1>1
  <2>2. StageInv(q) /\ ReplayInv(q) /\ FillInv(q) /\ ClockInv(q)
    BY DEF QueryInv, TraceInv
  <2>3. StageInv(q)'
    BY <2>1, <2>2 DEF StageInv, SameTrace, SameQuery, ResetNow
  <2>4. ReplayInv(q)'
    BY <2>1, <2>2 DEF ReplayInv, SameTrace, SameQuery
  <2>5. ClockInv(q)'
    BY <2>1, <2>2 DEF ClockInv, SameQuery
  <2>6. Reliable => TrueSoFar(q)'
    <3>1. Reliable => TrueSoFar(q)
      BY DEF QueryInv, StoredInv
    <3> QED
      BY <2>1, <3>1 DEF TrueSoFar, SameTrace, SameQuery
  <2>7. FillInv(q)'
    <3> SUFFICES ASSUME persist[q]
                 PROVE  /\ \A t \in Txs : t[1] \notin flagged' => t \in excused[q]
                        /\ at[q] \notin {"select", "failed"} =>
                              \A t \in Txs : value'[t] = "null" =>
                                  t \in excused[q] \/ (t \in todo[q] /\ ~Passed(q, t))
      BY <2>1 DEF FillInv, SameTrace, Passed
    <3>1. \A t \in Txs : t[1] \notin flagged => t \in excused[q]
      BY <2>2 DEF FillInv
    <3>2. \A t \in Txs : value'[t] = "null" => value[t] = "null" \/ value[t] = "absent"
      BY <1>1 DEF RowsKept, Traced
    <3>3. \A t \in Txs : value[t] = "absent" => t[1] \notin flagged
      BY DEF QueryInv, RowsInv
    <3> QED
      BY <1>1, <2>2, <3>1, <3>2, <3>3 DEF FillInv
  <2> QED
    BY <2>3, <2>4, <2>5, <2>6, <2>7 DEF TraceInv
<1>3. \A q \in Procs : TraceInv(q)' /\ ClockInv(q)' /\ (Reliable => TrueSoFar(q)')
  BY <1>1, <1>2
<1>4. Reliable => RowsTrue'
  BY <1>1 DEF QueryInv, StoredInv, RowsTrue, RowsKept, Traced
<1>5. Reliable' = Reliable
  BY <1>1 DEF Reliable
<1> QED
  BY <1>1, <1>3, <1>4, <1>5 DEF QueryInv, StoredInv

LEMMA PurgeKeeps ==
    ASSUME QueryInv, NEW b \in Blocks, Purge(b)
    PROVE  QueryInv'
<1>1. /\ purges < MaxPurges /\ purges' = purges + 1
      /\ value' = [t \in Txs |-> IF t[1] = b THEN "absent" ELSE value[t]]
      /\ flagged' = flagged \ {b}
      /\ excused' = [p \in Procs |-> IF persist[p] THEN excused[p] \cup TxsOf(b)
                                                   ELSE excused[p]]
      /\ UNCHANGED <<flaky, at, mode, persist, todo, cur, last, clean, got>>
      /\ UNCHANGED <<plan, stage, target, limit, age, left, waited, began, ran, reply>>
  BY DEF Purge, PurgeBlock, clocks, replayVars
<1>2. TypeOK /\ TraceTypeOK /\ QueryTypes
  BY DEF QueryInv, TypeOK, QueryTypes
<1>3. TypeOK'
  <2>1. TraceTypeOK'
    BY <1>1, <1>2 DEF TraceTypeOK, TxsOf
  <2>2. purges' \in 0 .. MaxPurges
    <3>1. purges \in 0 .. MaxPurges
      BY <1>2 DEF QueryTypes
    <3>2. MaxPurges \in Nat
      BY Times
    <3> QED
      BY <1>1, <3>1, <3>2
  <2>3. QueryTypes'
    BY <1>1, <1>2, <2>2 DEF QueryTypes
  <2> QED
    BY <2>1, <2>3 DEF TypeOK, QueryTypes
<1>4. RowsInv'
  BY <1>1 DEF QueryInv, RowsInv
<1>5. StoredInv'
  <2>1. Reliable' = Reliable
    BY <1>1 DEF Reliable
  <2>2. RowsTrue => RowsTrue'
    BY <1>1 DEF RowsTrue, Traced
  <2>3. \A p \in Procs : TrueSoFar(p) => TrueSoFar(p)'
    BY <1>1 DEF TrueSoFar
  <2> QED
    BY <2>1, <2>2, <2>3 DEF QueryInv, StoredInv
<1>6. ASSUME NEW p \in Procs
      PROVE  TraceInv(p)' /\ ClockInv(p)'
  <2>1. StageInv(p) /\ ReplayInv(p) /\ FillInv(p) /\ ClockInv(p)
    BY DEF QueryInv, TraceInv
  <2>2. excused'[p] = IF persist[p] THEN excused[p] \cup TxsOf(b) ELSE excused[p]
    BY <1>1
  <2>3. StageInv(p)'
    BY <1>1, <2>1, <2>2 DEF StageInv, ResetNow
  <2>4. ReplayInv(p)' /\ ClockInv(p)'
    BY <1>1, <2>1 DEF ReplayInv, ClockInv
  <2>5. FillInv(p)'
    <3> SUFFICES ASSUME persist[p]
                 PROVE  /\ \A t \in Txs : t[1] \notin flagged' => t \in excused'[p]
                        /\ at[p] \notin {"select", "failed"} =>
                              \A t \in Txs : value'[t] = "null" =>
                                  t \in excused'[p] \/ (t \in todo[p] /\ ~Passed(p, t))
      BY <1>1 DEF FillInv, Passed
    <3>1. excused'[p] = excused[p] \cup TxsOf(b)
      BY <2>2
    <3>2. \A t \in Txs : t[1] \notin flagged' => t \in excused'[p]
      BY <1>1, <2>1, <3>1 DEF FillInv, TxsOf
    <3>3. \A t \in Txs : value'[t] = "null" => value[t] = "null"
      BY <1>1
    <3> QED
      BY <2>1, <3>1, <3>2, <3>3 DEF FillInv
  <2> QED
    BY <2>3, <2>4, <2>5 DEF TraceInv
<1> QED
  BY <1>3, <1>4, <1>5, <1>6 DEF QueryInv

LEMMA TickKeeps ==
    ASSUME QueryInv, Tick
    PROVE  QueryInv'
<1>1. /\ \A p \in Procs : Timed(p) => MayWait(p)
      /\ age' = Ticks(age, {p \in Procs : stage[p] # "startup" /\ limit[p] > 0})
      /\ waited' = Ticks(waited, {p \in Procs : AwaitedBy(p)})
      /\ ran' = Ticks(ran, {p \in Procs : Sync(p) /\ limit[p] > 0})
      /\ left' = [p \in Procs |->
                    IF stage[p] \in {"sql", "orphan"} /\ limit[p] > 0
                    THEN left[p] - 1 ELSE left[p]]
      /\ UNCHANGED <<value, flagged, flaky, at, mode, persist, todo, cur, last, clean, got,
                     excused, plan, stage, target, limit, began, reply, purges>>
  BY DEF Tick, dbVars, traceVars, replayVars
<1>2. TypeOK /\ TraceTypeOK /\ QueryTypes
  BY DEF QueryInv, TypeOK, QueryTypes
<1>3. ASSUME NEW p \in Procs
      PROVE  /\ age'[p] = IF stage[p] # "startup" /\ limit[p] > 0 THEN age[p] + 1 ELSE age[p]
             /\ waited'[p] = IF AwaitedBy(p) THEN waited[p] + 1 ELSE waited[p]
             /\ ran'[p] = IF Sync(p) /\ limit[p] > 0 THEN ran[p] + 1 ELSE ran[p]
             /\ left'[p] = IF stage[p] \in {"sql", "orphan"} /\ limit[p] > 0
                           THEN left[p] - 1 ELSE left[p]
  BY <1>1 DEF Ticks
<1>4. ASSUME NEW p \in Procs
      PROVE  age'[p] \in Nat /\ waited'[p] \in Nat /\ ran'[p] \in Nat /\ left'[p] \in Nat
  <2>1. age[p] \in Nat /\ waited[p] \in Nat /\ ran[p] \in Nat /\ left[p] \in Nat
    BY Known
  <2>2. stage[p] \in {"sql", "orphan"} /\ limit[p] > 0 => left[p] # 0
    <3>1. ~Sync(p) \/ stage[p] = "trace"
      BY Known DEF StageInv, ResetNow, Sync
    <3> QED
      BY <1>1, <3>1 DEF Timed, MayWait, Due, SqlDue
  <2> QED
    BY <1>3, <2>1, <2>2
<1>5. TypeOK'
  <2>1. /\ age' \in [Procs -> Nat] /\ waited' \in [Procs -> Nat]
        /\ ran' \in [Procs -> Nat] /\ left' \in [Procs -> Nat]
    BY <1>1, <1>4 DEF Ticks
  <2>2. began \in [Procs -> Nat]
    BY <1>2, ClockTypes
  <2>3. TraceTypeOK'
    BY <1>1, <1>2 DEF TraceTypeOK
  <2>4. QueryTypes'
    BY <1>1, <1>2, <2>1, <2>2 DEF QueryTypes
  <2> QED
    BY <2>3, <2>4 DEF TypeOK, QueryTypes
<1>6. RowsInv' /\ StoredInv' /\ \A p \in Procs : TraceInv(p)'
  BY <1>1 DEF QueryInv, RowsInv, StoredInv, Reliable, RowsTrue, TrueSoFar, TraceInv, StageInv,
              ResetNow, ReplayInv, FillInv, Passed
<1>7. ASSUME NEW p \in Procs
      PROVE  ClockInv(p)'
  <2>1. /\ age[p] \in Nat /\ waited[p] \in Nat /\ ran[p] \in Nat /\ left[p] \in Nat
        /\ limit[p] \in Nat /\ began[p] \in Nat /\ ClockInv(p) /\ StageInv(p)
    BY Known
  <2>2. stage'[p] = stage[p] /\ limit'[p] = limit[p] /\ plan'[p] = plan[p] /\ began'[p] = began[p]
    BY <1>1
  <2>3. Sync(p) => stage[p] = "trace" /\ plan[p] \notin Served
    BY <2>1 DEF StageInv, ResetNow, Sync, Served
  <2>4. limit[p] > 0 => MayWait(p)
    BY <1>1 DEF Timed
  <2>5. ran'[p] <= MaxReplay /\ (plan[p] \in Served => ran'[p] = 0)
    BY <1>3, <2>1, <2>3, <2>4, Times DEF MayWait, ClockInv
  <2>6. limit[p] > 0 /\ stage[p] \in Prep => age'[p] <= limit[p] + ran'[p]
    <3>1. CASE Sync(p)
      BY <1>3, <2>1, <3>1 DEF ClockInv
    <3>2. CASE ~Sync(p) /\ limit[p] > 0 /\ stage[p] \in Prep
      <4>1. age[p] < limit[p]
        BY <2>1, <2>4, <3>2 DEF MayWait, Due, PrepDue
      <4> QED
        BY <1>3, <2>1, <3>2, <4>1
    <3> QED
      BY <3>1, <3>2
  <2>7. limit[p] > 0 /\ stage[p] \in {"sql", "orphan"} => age'[p] + left'[p] = age[p] + left[p]
    BY <1>3, <2>1
  <2>8. plan[p] \in Served /\ stage[p] \in {"deps", "macros", "sql", "upload"} =>
            age'[p] = age[p] + 1 /\ waited'[p] = waited[p] + 1
    <3>1. plan[p] \in Served /\ stage[p] \in {"deps", "macros", "sql", "upload"} =>
              limit[p] > 0 /\ AwaitedBy(p)
      BY <2>1, Times DEF ClockInv, AwaitedBy
    <3> QED
      BY <1>3, <3>1
  <2>9. stage[p] = "upload" => plan[p] \in Served
    BY <2>1 DEF StageInv, Served
  <2>10. stage[p] \in {"idle", "startup"} => age'[p] = 0
    BY <1>3, <2>1 DEF ClockInv
  <2>11. stage[p] = "idle" => waited'[p] = 0 /\ limit[p] = 0
    BY <1>3, <2>1 DEF ClockInv, AwaitedBy
  <2>12. plan[p] \in Served /\ stage[p] \in {"deps", "macros", "sql"} =>
             waited'[p] = began[p] + age'[p]
    BY <2>1, <2>8 DEF ClockInv
  <2>13. stage[p] = "upload" => waited'[p] <= began[p] + Budget + age'[p]
    BY <2>1, <2>8, <2>9, Times DEF ClockInv
  <2> QED
    BY <2>1, <2>2, <2>5, <2>6, <2>7, <2>10, <2>11, <2>12, <2>13 DEF ClockInv
<1> QED
  BY <1>5, <1>6, <1>7 DEF QueryInv

LEMMA QueryInit == ASSUME Init PROVE QueryInv
<1>1. TypeOK
  <2>1. TraceTypeOK
    BY DEF Init, TraceInit, TraceTypeOK, Busy, Traced
  <2>2. QueryTypes
    <3>1. Zero \in [Procs -> Nat] /\ Zero \in [Procs -> {0, Budget}] /\ 0 \in 0 .. MaxPurges
      BY Times DEF Zero
    <3> QED
      BY <3>1 DEF Init, QueryTypes, Stages
  <2> QED
    BY <2>1, <2>2 DEF TypeOK, QueryTypes
<1>2. ASSUME NEW p \in Procs PROVE ResetNow(p) /\ stage[p] = "idle"
  BY DEF Init, TraceInit, ResetNow
<1>3. ASSUME NEW p \in Procs PROVE TraceInv(p) /\ TrueSoFar(p)
  <2>1. StageInv(p)
    BY <1>2 DEF StageInv
  <2> QED
    BY <1>2, <2>1, ResetIsQuiet DEF TraceInv
<1>4. ASSUME NEW p \in Procs PROVE ClockInv(p)
  <2>1. /\ stage[p] = "idle" /\ limit[p] = 0 /\ age[p] = 0 /\ waited[p] = 0 /\ ran[p] = 0
    BY DEF Init, Zero
  <2>2. "idle" \notin Prep
    BY DEF Prep
  <2> QED
    BY <2>1, <2>2, Times DEF ClockInv
<1>5. RowsInv /\ RowsTrue
  BY DEF Init, TraceInit, RowsInv, RowsTrue, Traced
<1> QED
  BY <1>1, <1>3, <1>4, <1>5 DEF QueryInv, StoredInv

LEMMA QueryNext == ASSUME QueryInv, [Next]_vars PROVE QueryInv'
<1>1. CASE \E p \in Procs : Step(p)
  BY <1>1, EveryStepDone, StepKeeps
<1>2. CASE (\E b \in Blocks : Purge(b)) \/ Tick
  BY <1>2, PurgeKeeps, TickKeeps
<1>3. CASE UNCHANGED vars
  <2>1. /\ UNCHANGED <<value, flagged, flaky, at, mode, persist, todo, cur, last, clean, got,
                       excused, plan, stage, target>>
        /\ UNCHANGED <<limit, age, left, waited, began, ran, reply, purges>>
    BY <1>3 DEF vars, dbVars, traceVars, replayVars, queryVars, clocks
  <2>2. TypeOK' /\ RowsInv'
    <3>1. TraceTypeOK' /\ RowsInv'
      BY <2>1 DEF QueryInv, TypeOK, TraceTypeOK, RowsInv
    <3>2. QueryTypes'
      BY <2>1 DEF QueryInv, TypeOK, QueryTypes
    <3> QED
      BY <3>1, <3>2 DEF TypeOK, QueryTypes
  <2>3. StoredInv'
    BY <2>1 DEF QueryInv, StoredInv, Reliable, RowsTrue, TrueSoFar
  <2>4. \A p \in Procs : TraceInv(p)'
    BY <2>1 DEF QueryInv, TraceInv, StageInv, ResetNow, ReplayInv, FillInv, Passed
  <2>5. \A p \in Procs : ClockInv(p)'
    BY <2>1 DEF QueryInv, ClockInv
  <2> QED
    BY <2>2, <2>3, <2>4, <2>5 DEF QueryInv
<1> QED
  BY <1>1, <1>2, <1>3 DEF Next

LEMMA QueryAlways == Spec => []QueryInv
BY QueryInit, QueryNext, PTL DEF Spec

-----------------------------------------------------------------------------
(* The theorems.                                                           *)

\* All variables keep their types: the rows and the traces (Txs::update_coinbase_transfer,
\* revm_tx_calls), and every clock of query() and of its callers.
THEOREM QueryTypesAlways == Spec => []TypeOK
<1>1. QueryInv => TypeOK
  BY DEF QueryInv
<1> QED
  BY <1>1, QueryAlways, PTL

\* A stored coinbase_transfer is what the trace of its transaction shows, unless an
\* inspection or a commit of the replay has failed (revm_tracing.rs: both are ignored).
THEOREM StoredAlwaysTrue == Spec => []StoredIsTrue
<1>1. QueryInv => StoredIsTrue
  BY DEF QueryInv, StoredInv, Reliable, RowsTrue, StoredIsTrue
<1> QED
  BY <1>1, QueryAlways, PTL

\* A backfill that is over has left NULL only what it met an error at, or what was
\* purged and indexed again while it ran (populate_tx_tracing and the chunks of Revm).
THEOREM BackfillAlwaysComplete == Spec => []BackfillIsComplete
<1>1. QueryInv => BackfillIsComplete
  <2> SUFFICES ASSUME QueryInv, NEW p \in Procs, at[p] = "over", persist[p],
                      NEW t \in Txs, value[t] = "null"
               PROVE  t \in excused[p]
    BY DEF BackfillIsComplete
  <2>1. FillInv(p) /\ ReplayInv(p)
    BY DEF QueryInv, TraceInv
  <2>2. t \in excused[p] \/ t \in todo[p]
    BY <2>1 DEF FillInv
  <2>3. todo[p] = {}
    BY <2>1 DEF ReplayInv
  <2> QED
    BY <2>2, <2>3
<1> QED
  BY <1>1, QueryAlways, PTL

\* No step takes a traced value away but a purge of its block: neither an insert of
\* rows that exist (INSERT OR IGNORE of index_block_range), nor a trace that fails,
\* is dropped at its deadline, or finds the value stored by another process.
THEOREM TracedAlwaysKept == Spec => TracedIsKept
<1> DEFINE Kept == \A t \in Txs :
                       value[t] \in Traced /\ flaky \cap {"inspect", "commit"} = {} =>
                           value'[t] \in {value[t], "absent"}
<1>1. ASSUME QueryInv, RowsKept PROVE Kept
  <2>1. Reliable => \A t \in Txs : value[t] \in Traced => value[t] = Payment[t]
    BY <1>1 DEF QueryInv, StoredInv, RowsTrue
  <2> QED
    BY <1>1, <2>1 DEF RowsKept, Reliable, Traced
<1>2. ASSUME QueryInv, [Next]_vars PROVE [Kept]_<<value, flaky>>
  <2>1. CASE \E p \in Procs : Step(p)
    <3>1. PICK p \in Procs : Step(p)
      BY <2>1
    <3>2. RowsKept
      BY <1>2, <3>1, EveryStepDone DEF StepDone
    <3> QED
      BY <1>1, <1>2, <3>2
  <2>2. CASE \E b \in Blocks : Purge(b)
    <3>1. PICK b \in Blocks : Purge(b)
      BY <2>2
    <3> QED
      BY <3>1 DEF Purge, PurgeBlock
  <2>3. CASE Tick \/ UNCHANGED vars
    BY <2>3 DEF Tick, vars, dbVars
  <2> QED
    BY <1>2, <2>1, <2>2, <2>3 DEF Next
<1>3. QueryInv /\ [Next]_vars => [Kept]_<<value, flaky>>
  BY <1>2
<1>4. Spec => [][Kept]_<<value, flaky>>
  BY <1>3, QueryAlways, PTL DEF Spec
<1> QED
  BY <1>4 DEF TracedIsKept

LEMMA LateCut ==
    ASSUME QueryInv, NEW p \in Procs, Cut(p)
    PROVE  \/ stage[p] = "startup"
           \/ began[p] >= Slack(p)
           \/ stage[p] = "upload" /\ (began[p] > Grace \/ age[p] >= UploadBudget)
<1>1. /\ age[p] \in Nat /\ left[p] \in Nat /\ waited[p] \in Nat /\ began[p] \in Nat
      /\ limit[p] \in Nat /\ stage[p] \in Stages /\ ClockInv(p) /\ StageInv(p)
  BY Known
<1>2. /\ plan[p] \in Served /\ stage[p] \notin {"idle", "orphan"} /\ waited[p] >= Patience(p)
  BY DEF Cut, CallDue, AwaitedBy
<1>3. stage[p] \in {"startup", "deps", "macros", "sql", "upload"}
  BY <1>1, <1>2 DEF Stages, Prep, StageInv, Served
<1>4. limit[p] = Budget /\ ran[p] = 0
  BY <1>1, <1>2 DEF ClockInv
<1>5. Patience(p) \in Nat
  BY <1>2, Times DEF Patience, Served
<1>6. CASE stage[p] \in {"deps", "macros", "sql"}
  <2>1. waited[p] = began[p] + age[p]
    BY <1>1, <1>2, <1>6 DEF ClockInv
  <2>2. age[p] <= Budget
    BY <1>1, <1>2, <1>4, <1>6, Times DEF ClockInv, Prep
  <2> QED
    BY <1>1, <1>2, <1>5, <2>1, <2>2, Times DEF Slack
<1>7. CASE stage[p] = "upload"
  <2>1. waited[p] <= began[p] + Budget + age[p] /\ plan[p] = "upload"
    BY <1>1, <1>7 DEF ClockInv, StageInv
  <2>2. Patience(p) = Budget + UploadBudget + Grace
    BY <2>1 DEF Patience
  <2> QED
    BY <1>1, <1>2, <1>7, <2>1, <2>2, Times
<1> QED
  BY <1>3, <1>6, <1>7

\* query() stops in time, its preparation dropped at the deadline and its SQL given what
\* remains, and a caller cuts it off only if query() began late on the caller's clock, or
\* an upload has had IPFS_UPLOAD_BUDGET: the order of the timers of cmd/query, of
\* mcp_server.rs and of the TimeoutLayer.
THEOREM BudgetAlwaysKept == Spec => BudgetKept
<1> DEFINE Kept == \A p \in Procs : WithinBudget(p)' /\ CutOnlyWhenLate(p)
<1>1. ASSUME QueryInv', NEW p \in Procs PROVE WithinBudget(p)'
  <2>1. ClockInv(p)' /\ TypeOK'
    BY <1>1 DEF QueryInv
  <2>2. /\ age'[p] \in Nat /\ limit'[p] \in Nat /\ ran'[p] \in Nat /\ left'[p] \in Nat
    <3>1. /\ age' \in [Procs -> Nat] /\ limit' \in [Procs -> Nat]
          /\ ran' \in [Procs -> Nat] /\ left' \in [Procs -> Nat]
      <4>1. /\ \A c \in {age', left', ran'} : c \in [Procs -> Nat]
            /\ limit' \in [Procs -> {0, Budget}]
        BY <2>1, Zenon DEF TypeOK
      <4>2. {0, Budget} \subseteq Nat
        BY Times
      <4> QED
        BY <4>1, <4>2
    <3> QED
      BY <3>1
  <2> QED
    BY <2>1, <2>2, Times DEF ClockInv, WithinBudget
<1>2. ASSUME QueryInv, Next, NEW p \in Procs PROVE CutOnlyWhenLate(p)
  <2> SUFFICES ASSUME reply[p] = "none", reply'[p] = "cut"
               PROVE  Cut(p)
    BY <1>2, LateCut DEF CutOnlyWhenLate
  <2>1. reply \in [Procs -> {"none", "rows", "error", "timed out", "cut"}]
    BY <1>2 DEF QueryInv, TypeOK
  <2>2. PICK q \in Procs : Step(q)
    BY <1>2 DEF Next, Purge, Tick
  <2>3. UNCHANGED reply \/ Cut(q)
            \/ (\E r \in {"none", "rows", "error", "timed out"} : reply' = [reply EXCEPT ![q] = r])
    BY <2>2 DEF Step, Start, EnterQuery, InitDeps, IndexTxs, IndexBlock, Indexed, Trace,
                TraceOver, StartSql, PrepTimesOut, Stops, SqlEnds, SqlTimesOut, UploadEnds,
                OrphanEnds, Reply, queryVars
  <2>4. Cut(q)
    BY <2>1, <2>3
  <2>5. q = p
    BY <2>1, <2>4 DEF Cut, Reply
  <2> QED
    BY <2>4, <2>5
<1>3. ASSUME QueryInv, [Next]_vars, QueryInv' PROVE [Kept]_vars
  BY <1>1, <1>2, <1>3
<1>4. QueryInv /\ QueryInv' /\ [Next]_vars => [Kept]_vars
  BY <1>3
<1>5. Spec => [][Kept]_vars
  BY <1>4, QueryAlways, PTL DEF Spec
<1> QED
  BY <1>5 DEF BudgetKept

=============================================================================
