--------------------------- MODULE SchedulerProofs ---------------------------
(***************************************************************************)
(* Theorems about the scheduler, for every window, chunk size, choice of   *)
(* web requests and failing commands, and any number of ticks and restarts.*)
(*                                                                         *)
(* SchedInv is inductive.  The types come first; they rest on LockInv,     *)
(* because a command that ends takes the head off the queue.               *)
(***************************************************************************)
EXTENDS Scheduler, TLAPS

LEMMA MineIsCommand ==
    ASSUME gen \in Gens
    PROVE  /\ \A k \in Kinds : Mine(k) \in Commands
           /\ Mine("live") \in Indexers /\ Mine("live") \notin Purgers
           /\ Mine("reindex") \in Indexers /\ Mine("reindex") \notin Purgers
           /\ Mine("purge") \in Purgers
           /\ Web \in Commands /\ Web \notin Purgers
BY DEF Mine, Commands, Indexers, Purgers, Kinds, Jobs, Web

LEMMA GensAreNumbers == Gens \subseteq Nat
BY TicksAssumption DEF Gens

LEMMA CommandOfGen ==
    ASSUME NEW c \in Commands
    PROVE  c = <<c[1], c[2]>> /\ c[2] \in Nat /\ (c # Web => c[1] \in Kinds)
<1>1. CASE c = Web
  BY <1>1 DEF Web
<1>2. CASE c \in Kinds \X Gens
  <2>1. PICK k \in Kinds, g \in Gens : c = <<k, g>>
    BY <1>2
  <2> QED
    BY <2>1, GensAreNumbers
<1> QED
  BY <1>1, <1>2 DEF Commands, Indexers, Purgers, Kinds, Jobs

LEMMA CutoffNat ==
    ASSUME NEW m \in Nat
    PROVE  CutoffOf(m, Keep) \in Nat
BY KeepAssumption DEF CutoffOf, SaturatingSub

-----------------------------------------------------------------------------
LEMMA RunTypes ==
    ASSUME TypeOK, NEW c \in Commands, NEW S \in SUBSET Nat, NEW cut \in Nat,
           Run(c, S, cut)
    PROVE  /\ step' \in [Commands -> {"off", "next", "txs", "blocks", "purge"}]
           /\ todo' \in [Commands -> SUBSET Nat]
           /\ cutoff' \in [Commands -> Nat]
BY DEF Run, TypeOK

LEMMA EndTypes ==
    ASSUME TypeOK, LockInv, NEW c \in Commands, step[c] # "off", End(c)
    PROVE  /\ step' \in [Commands -> {"off", "next", "txs", "blocks", "purge"}]
           /\ todo' \in [Commands -> SUBSET Nat]
           /\ cutoff' \in [Commands -> Nat]
           /\ queue' \in Seq(Kinds)
           /\ wanted' \subseteq Nat
<1>1. step' \in [Commands -> {"off", "next", "txs", "blocks", "purge"}]
      /\ todo' \in [Commands -> SUBSET Nat] /\ cutoff' \in [Commands -> Nat]
      /\ wanted' \subseteq Nat
  BY DEF End, TypeOK
<1>2. CASE c[2] = gen
  <2>1. queue # <<>> /\ queue \in Seq(Kinds)
    BY <1>2 DEF LockInv, TypeOK
  <2>2. Tail(queue) \in Seq(Kinds)
    BY <2>1
  <2> QED
    BY <1>1, <1>2, <2>2 DEF End, Release
<1>3. CASE c[2] # gen
  BY <1>1, <1>3 DEF End, Release, TypeOK
<1> QED
  BY <1>2, <1>3

LEMMA WorkTypes ==
    ASSUME TypeOK, LockInv, NEW c \in Commands, Work(c) \/ Fails(c)
    PROVE  TypeOK'
<1>1. CASE SaveLogsOf(c)
  BY <1>1 DEF SaveLogsOf, SaveLogs, TypeOK, DbTypeOK, liveVars
<1>2. CASE SaveTxsOf(c)
  BY <1>2 DEF SaveTxsOf, SaveTxs, TypeOK, DbTypeOK, liveVars
<1>3. CASE SaveBlocksOf(c)
  BY <1>3 DEF SaveBlocksOf, SaveBlocks, TypeOK, DbTypeOK, liveVars
<1>4. CASE PurgeChunkOf(c)
  BY <1>4 DEF PurgeChunkOf, DeleteThrough, TypeOK, DbTypeOK, liveVars, cmdVars
<1>5. CASE Exit(c)
  <2>1. step[c] # "off" /\ End(c)
    BY <1>5 DEF Exit
  <2> QED
    BY <1>5, <2>1, EndTypes DEF Exit, TypeOK, DbTypeOK, dbVars
<1>6. CASE Fails(c)
  <2>1. step[c] # "off" /\ End(c)
    BY <1>6 DEF Fails
  <2> QED
    BY <1>6, <2>1, EndTypes DEF Fails, TypeOK, DbTypeOK, dbVars
<1> QED
  BY <1>1, <1>2, <1>3, <1>4, <1>5, <1>6 DEF Work

LEMMA StartTypes ==
    ASSUME TypeOK, StartPurge \/ StartReindex \/ LivePolls \/ WebRequest
    PROVE  TypeOK'
<1> USE MineIsCommand DEF TypeOK
<1>1. CASE StartPurge
  <2>1. PICK m \in blocks : Run(Mine("purge"), {}, CutoffOf(m, Keep))
    BY <1>1 DEF StartPurge
  <2>2. CutoffOf(m, Keep) \in Nat /\ Mine("purge") \in Commands
    BY CutoffNat DEF DbTypeOK, Kinds, Jobs
  <2> QED
    BY <1>1, <2>1, <2>2, RunTypes DEF StartPurge, DbTypeOK, dbVars, liveVars
<1>2. CASE StartReindex
  <2>1. PICK l \in blocks, m \in blocks :
            /\ Run(Mine("reindex"), MissingBlocks(ReindexFrom(l, m), m), 0)
            /\ wanted' = l .. m
    BY <1>2 DEF StartReindex
  <2>2. ReindexFrom(l, m) \in Nat /\ Mine("reindex") \in Commands
    BY CutoffNat DEF DbTypeOK, Kinds, Jobs, ReindexFrom
  <2>3. MissingBlocks(ReindexFrom(l, m), m) \in SUBSET Nat /\ wanted' \subseteq Nat
    BY <2>1, <2>2 DEF MissingBlocks, DbTypeOK
  <2> QED
    BY <1>2, <2>1, <2>2, <2>3, RunTypes DEF StartReindex, DbTypeOK, dbVars, liveVars
<1>3. CASE LivePolls
  <2>1. Mine("live") \in Commands /\ MissingBlocks(last + 1, head) \in SUBSET Nat
    BY DEF Kinds, MissingBlocks
  <2>2. queue' \in Seq(Kinds)
    BY <1>3 DEF LivePolls, LockFree, Kinds
  <2> QED
    BY <1>3, <2>1, <2>2, RunTypes DEF LivePolls, DbTypeOK, dbVars
<1>4. CASE WebRequest
  <2>1. PICK b \in WebBlocks : Run(Web, MissingBlocks(b, b), 0)
    BY <1>4 DEF WebRequest
  <2>2. MissingBlocks(b, b) \in SUBSET Nat
    BY WebBlocksAssumption DEF MissingBlocks
  <2>3. ticks' \in Nat
    BY <1>4 DEF WebRequest
  <2> QED
    BY <1>4, <2>1, <2>2, <2>3, RunTypes DEF WebRequest, DbTypeOK, dbVars, liveVars
<1> QED
  BY <1>1, <1>2, <1>3, <1>4

LEMMA OtherTypes ==
    ASSUME TypeOK,
           \/ Grow \/ LiveStarts \/ LiveDies \/ Restart
           \/ \E k \in Jobs : Tick(k) \/ NothingToDo(k)
    PROVE  TypeOK'
<1> USE DEF TypeOK, DbTypeOK, dbVars, cmdVars, liveVars
<1>1. CASE Grow
  BY <1>1 DEF Grow
<1>5. CASE LiveStarts \/ LiveDies
  BY <1>5 DEF LiveStarts, LiveDies
<1>2. CASE Restart
  <2>1. gen' \in Gens
    BY <1>2, TicksAssumption DEF Restart, Gens
  <2>2. /\ step' \in [Commands -> {"off", "next", "txs", "blocks", "purge"}]
        /\ todo' \in [Commands -> SUBSET Nat]
        /\ cutoff' \in [Commands -> Nat]
    <3>1. CASE UNCHANGED cmdVars
      BY <3>1
    <3>2. CASE /\ step' = [c \in Commands |-> IF c[2] = gen THEN "off" ELSE step[c]]
               /\ todo' = [c \in Commands |-> IF c[2] = gen THEN {} ELSE todo[c]]
               /\ cutoff' = [c \in Commands |-> IF c[2] = gen THEN 0 ELSE cutoff[c]]
      BY <3>2
    <3> QED
      BY <1>2, <3>1, <3>2 DEF Restart
  <2>3. /\ UNCHANGED <<blocks, logs, txs, head, ticks>>
        /\ live' = "starting" /\ since' = 0 /\ last' = 0 /\ goal' = 0 /\ wanted' = {}
    BY <1>2 DEF Restart
  <2>4. queue' \in Seq(Kinds)
    BY <1>2 DEF Restart
  <2> QED
    BY <2>1, <2>2, <2>3, <2>4
<1>3. ASSUME NEW k \in Jobs, Tick(k) PROVE TypeOK'
  BY <1>3 DEF Tick, Kinds
<1>4. ASSUME NEW k \in Jobs, NothingToDo(k) PROVE TypeOK'
  <2>1. Tail(queue) \in Seq(Kinds)
    BY <1>4 DEF NothingToDo, HasTurn
  <2> QED
    BY <1>4, <2>1 DEF NothingToDo
<1> QED
  BY <1>1, <1>2, <1>3, <1>4, <1>5

LEMMA TypeStep ==
    ASSUME TypeOK, LockInv, [Next]_vars
    PROVE  TypeOK'
<1>1. CASE UNCHANGED vars
  BY <1>1 DEF vars, TypeOK, DbTypeOK
<1>2. CASE Next
  BY <1>2, WorkTypes, StartTypes, OtherTypes DEF Next, StartJob
<1> QED
  BY <1>1, <1>2

-----------------------------------------------------------------------------
(* The lock.                                                               *)

LEMMA OthersOff ==
    ASSUME TypeOK, LockInv, NEW k, queue # <<>>, Head(queue) = k,
           NEW d \in Commands, d[2] = gen, step[d] # "off"
    PROVE  d = Mine(k)
BY CommandOfGen DEF LockInv, Mine

LEMMA LockKept ==
    ASSUME TypeOK, LockInv, gen' = gen,
           queue # <<>> => queue' # <<>> /\ Head(queue') = Head(queue),
           \A d \in Commands : step'[d] # "off" => step[d] # "off"
    PROVE  LockInv'
BY DEF LockInv

LEMMA LockEnd ==
    ASSUME TypeOK, LockInv, NEW c \in Commands, step[c] # "off", End(c), gen' = gen
    PROVE  LockInv'
<1>1. /\ step'[c] = "off"
      /\ \A d \in Commands : step'[d] # "off" => step[d] # "off" /\ d # c
  BY DEF End, TypeOK
<1>2. CASE c[2] = gen
  <2>1. queue # <<>> /\ Head(queue) = c[1] /\ c = Mine(c[1])
    BY <1>2, CommandOfGen DEF LockInv, Mine
  <2>2. \A d \in Commands : d[2] = gen => step'[d] = "off"
    BY <1>1, <2>1, OthersOff
  <2> QED
    BY <1>1, <2>2 DEF LockInv
<1>3. CASE c[2] # gen
  BY <1>1, <1>3, LockKept DEF End, Release
<1> QED
  BY <1>2, <1>3

LEMMA LockRun ==
    ASSUME TypeOK, LockInv, NEW k \in Kinds, NEW S, NEW cut,
           Run(Mine(k), S, cut), gen' = gen,
           queue' # <<>>, Head(queue') = k,
           queue # <<>> => Head(queue) = k
    PROVE  LockInv'
<1>1. /\ Mine(k) \in Commands /\ Mine(k)[1] = k /\ Mine(k)[2] = gen
      /\ gen \in Nat
  BY MineIsCommand, GensAreNumbers DEF TypeOK, Mine
<1>2. \A d \in Commands : d # Mine(k) => step'[d] = step[d]
  BY <1>1 DEF Run, TypeOK
<1>3. \A d \in Commands : d[2] = gen /\ step[d] # "off" => d = Mine(k)
  BY OthersOff DEF LockInv
<1> QED
  BY <1>1, <1>2, <1>3 DEF LockInv

LEMMA LockStep ==
    ASSUME TypeOK, LockInv, [Next]_vars
    PROVE  LockInv'
<1>1. CASE UNCHANGED vars
  BY <1>1, LockKept DEF vars
<1>2. CASE Grow \/ LiveStarts \/ LiveDies
  BY <1>2, LockKept DEF Grow, LiveStarts, LiveDies, cmdVars
<1>3. ASSUME NEW c \in Commands, Work(c) \/ Fails(c) PROVE LockInv'
  <2>1. CASE SaveLogsOf(c)
    BY <2>1, LockKept DEF SaveLogsOf, TypeOK
  <2>2. CASE SaveTxsOf(c)
    BY <2>2, LockKept DEF SaveTxsOf, TypeOK
  <2>3. CASE SaveBlocksOf(c)
    BY <2>3, LockKept DEF SaveBlocksOf, TypeOK
  <2>4. CASE PurgeChunkOf(c)
    BY <2>4, LockKept DEF PurgeChunkOf, cmdVars
  <2>5. CASE Exit(c)
    BY <2>5, LockEnd DEF Exit
  <2>6. CASE Fails(c)
    BY <2>6, LockEnd DEF Fails
  <2> QED
    BY <1>3, <2>1, <2>2, <2>3, <2>4, <2>5, <2>6 DEF Work
<1>4. CASE LivePolls
  <2>1. queue' = <<"live">> /\ queue = <<>>
    BY <1>4 DEF LivePolls, LockFree
  <2> QED
    BY <1>4, <2>1, LockRun DEF LivePolls, Kinds
<1>5. ASSUME NEW k \in Jobs, Tick(k) PROVE LockInv'
  <2>1. queue \in Seq(Kinds) /\ queue' = Append(queue, k) /\ k \in Kinds
    BY <1>5 DEF Tick, TypeOK, Kinds
  <2>2. queue # <<>> => queue' # <<>> /\ Head(queue') = Head(queue)
    BY <2>1
  <2> QED
    BY <1>5, <2>2, LockKept DEF Tick, cmdVars
<1>6. ASSUME NEW k \in Jobs, NothingToDo(k) PROVE LockInv'
  <2>1. \A d \in Commands : d[2] = gen => step[d] = "off"
    BY <1>6, OthersOff DEF NothingToDo, HasTurn
  <2> QED
    BY <1>6, <2>1 DEF NothingToDo, cmdVars, LockInv
<1>7. CASE StartPurge
  BY <1>7, LockRun DEF StartPurge, HasTurn, Kinds, Jobs
<1>8. CASE StartReindex
  BY <1>8, LockRun DEF StartReindex, HasTurn, Kinds, Jobs
<1>9. CASE WebRequest
  <2>1. gen' = gen /\ queue' = queue /\ Web[2] = 0 /\ gen \in Nat \ {0}
    BY <1>9, TicksAssumption DEF WebRequest, Web, TypeOK, Gens
  <2>2. \A d \in Commands : d # Web => step'[d] = step[d]
    BY <1>9 DEF WebRequest, Run, TypeOK
  <2> QED
    BY <2>1, <2>2 DEF LockInv
<1>10. CASE Restart
  <2>1. gen' = gen + 1 /\ gen \in Nat
    BY <1>10, GensAreNumbers DEF Restart, TypeOK
  <2>2. \A d \in Commands : step'[d] # "off" => step[d] # "off"
    BY <1>10 DEF Restart, cmdVars
  <2>3. \A d \in Commands : d[2] = gen /\ step'[d] # "off" => d[1] \in Survivors
    BY <1>10 DEF Restart, cmdVars
  <2>4. \A d \in Commands : d[2] >= gen + 1 => step'[d] = "off"
    BY <2>1, <2>2, CommandOfGen DEF LockInv
  <2>5. \A d \in Commands : d[2] = gen' => step'[d] = "off"
    BY <2>1, <2>4
  <2>6. \A d \in Commands : d[2] > gen' => step'[d] = "off"
    BY <2>1, <2>4, CommandOfGen
  <2>7. \A d \in Commands \ {Web} : step'[d] # "off" => d[1] \in Survivors
    BY <2>2, <2>3 DEF LockInv
  <2> QED
    BY <2>5, <2>6, <2>7 DEF LockInv
<1> QED
  BY <1>1, <1>2, <1>3, <1>4, <1>5, <1>6, <1>7, <1>8, <1>9, <1>10
  DEF Next, StartJob

LEMMA InitTypes == Init => TypeOK /\ LockInv
BY TicksAssumption, HeadAssumption
DEF Init, DbInit, TypeOK, DbTypeOK, LockInv, Gens

\* The types of the scheduler's state are correct, and LockInv holds.
THEOREM LockCorrect == Spec => [](TypeOK /\ LockInv)
<1>1. TypeOK /\ LockInv /\ [Next]_vars => (TypeOK /\ LockInv)'
  BY TypeStep, LockStep
<1> QED
  BY <1>1, InitTypes, PTL DEF Spec

\* job_lock keeps the commands of the running scheduler, and those of an earlier
\* one but for the kinds that may survive it, off the database while one is at
\* work.
THEOREM OneWriterAtATime == Spec => []OneWriter
<1>1. ASSUME TypeOK, LockInv PROVE OneWriter
  <2>1. SUFFICES ASSUME NEW c \in Commands \ {Web}, NEW d \in Commands \ {Web},
                        step[c] # "off", step[d] # "off",
                        c[2] = gen \/ c[1] \notin Survivors,
                        d[2] = gen \/ d[1] \notin Survivors
                 PROVE  c = d
    BY DEF OneWriter
  <2>2. c[2] = gen /\ d[2] = gen
    BY <1>1, <2>1 DEF LockInv
  <2>3. queue # <<>> /\ c[1] = Head(queue) /\ d[1] = Head(queue)
    BY <1>1, <2>1, <2>2 DEF LockInv
  <2> QED
    BY <2>2, <2>3, CommandOfGen
<1> QED
  BY <1>1, LockCorrect, PTL

-----------------------------------------------------------------------------
(* No gap behind the live task.                                            *)

LEMMA Covered ==
    ASSUME blocks \subseteq blocks', NEW b, b \in blocks \/ Left(b)
    PROVE  b \in blocks' \/ Left(b)'
BY DEF Left

\* A purge keeps the block its cutoff is counted from: by that block, all it
\* deletes has left the window.
LEMMA PurgeKeepsTop ==
    ASSUME TypeOK, PurgeInv, NEW c \in Commands, PurgeChunkOf(c)
    PROVE  \E t \in blocks' : t \in Nat /\ \A b \in blocks \ blocks' : t >= b + Keep
<1>1. PICK u \in blocks : u < cutoff[c] /\ blocks' = blocks \ AtMost(blocks, u)
  BY DEF PurgeChunkOf, Purgeable, DeleteThrough
<1>2. u \in Nat /\ cutoff[c] \in Nat /\ cutoff[c] # 0
  BY <1>1 DEF TypeOK, DbTypeOK
<1>3. PICK t \in blocks : t + 1 >= cutoff[c] + Keep
  BY <1>2 DEF PurgeInv
<1>4. t \in Nat /\ t \in blocks'
  BY <1>1, <1>2, <1>3, KeepAssumption DEF TypeOK, DbTypeOK, AtMost
<1>5. ASSUME NEW b \in blocks \ blocks' PROVE t >= b + Keep
  <2>1. b \in Nat /\ b <= u
    BY <1>1, <1>2 DEF TypeOK, DbTypeOK, AtMost
  <2> QED
    BY <1>1, <1>2, <1>3, <1>4, <2>1, KeepAssumption
<1> QED
  BY <1>4, <1>5

LEMMA CoveredPurge ==
    ASSUME TypeOK, PurgeInv, NEW c \in Commands, PurgeChunkOf(c),
           NEW b \in Nat, b \in blocks \/ Left(b)
    PROVE  b \in blocks' \/ Left(b)'
<1>1. PICK t \in blocks' : t \in Nat /\ \A x \in blocks \ blocks' : t >= x + Keep
  BY PurgeKeepsTop
<1>2. CASE b \in blocks
  BY <1>1, <1>2 DEF Left
<1>3. CASE Left(b)
  <2>1. PICK m \in blocks : m >= b + Keep
    BY <1>3 DEF Left
  <2>2. CASE m \in blocks'
    BY <2>1, <2>2 DEF Left
  <2>3. CASE m \notin blocks'
    <3>1. m \in Nat /\ t >= m + Keep
      BY <1>1, <2>3 DEF TypeOK, DbTypeOK
    <3>2. t >= b + Keep
      BY <1>1, <2>1, <3>1, KeepAssumption
    <3> QED
      BY <1>1, <3>2 DEF Left
  <2> QED
    BY <2>2, <2>3
<1> QED
  BY <1>2, <1>3

LEMMA PurgeInvKept ==
    ASSUME PurgeInv, blocks \subseteq blocks',
           \A c \in Commands : cutoff'[c] = 0 \/ cutoff'[c] = cutoff[c]
    PROVE  PurgeInv'
BY DEF PurgeInv

LEMMA PurgeStep ==
    ASSUME TypeOK, PurgeInv, [Next]_vars
    PROVE  PurgeInv'
<1> USE DEF cmdVars, dbVars
<1>1. CASE UNCHANGED vars
  BY <1>1, PurgeInvKept DEF vars
<1>2. CASE \/ Grow \/ LiveStarts \/ LiveDies
           \/ \E k \in Jobs : Tick(k) \/ NothingToDo(k)
  BY <1>2, PurgeInvKept DEF Grow, LiveStarts, LiveDies, Tick, NothingToDo
<1>3. ASSUME NEW c \in Commands,
             SaveLogsOf(c) \/ SaveTxsOf(c) \/ SaveBlocksOf(c)
      PROVE  PurgeInv'
  BY <1>3, PurgeInvKept DEF SaveLogsOf, SaveTxsOf, SaveBlocksOf, SaveBlocks
<1>4. ASSUME NEW c \in Commands, Exit(c) \/ Fails(c) PROVE PurgeInv'
  BY <1>4, PurgeInvKept DEF Exit, Fails, End, TypeOK
<1>5. ASSUME NEW c \in Commands, PurgeChunkOf(c) PROVE PurgeInv'
  <2>1. PICK t \in blocks' : t \in Nat /\ \A b \in blocks \ blocks' : t >= b + Keep
    BY <1>5, PurgeKeepsTop
  <2>2. SUFFICES ASSUME NEW d \in Commands, cutoff[d] # 0
                 PROVE  \E m \in blocks' : m + 1 >= cutoff[d] + Keep
    BY <1>5 DEF PurgeInv, PurgeChunkOf
  <2>3. PICK m \in blocks : m + 1 >= cutoff[d] + Keep
    BY <2>2 DEF PurgeInv
  <2>4. m \in Nat /\ cutoff[d] \in Nat
    BY DEF TypeOK, DbTypeOK
  <2>5. m \notin blocks' => t + 1 >= cutoff[d] + Keep
    BY <2>1, <2>3, <2>4, KeepAssumption
  <2> QED
    BY <2>1, <2>3, <2>5
<1>6. CASE StartPurge
  <2>1. PICK m \in blocks : Run(Mine("purge"), {}, CutoffOf(m, Keep))
    BY <1>6 DEF StartPurge
  <2>2. m \in Nat /\ (CutoffOf(m, Keep) = 0 \/ m + 1 >= CutoffOf(m, Keep) + Keep)
    BY KeepAssumption DEF TypeOK, DbTypeOK, CutoffOf, SaturatingSub
  <2>3. blocks' = blocks
    BY <1>6 DEF StartPurge
  <2>4. \A c \in Commands :
            cutoff'[c] = cutoff[c] \/ cutoff'[c] = CutoffOf(m, Keep)
    BY <2>1 DEF Run, TypeOK
  <2> QED
    BY <2>2, <2>3, <2>4 DEF PurgeInv
<1>7. CASE StartReindex \/ LivePolls \/ WebRequest
  <2>1. blocks' = blocks /\ \A c \in Commands : cutoff'[c] = 0 \/ cutoff'[c] = cutoff[c]
    BY <1>7 DEF StartReindex, LivePolls, WebRequest, Run, TypeOK
  <2> QED
    BY <2>1, PurgeInvKept
<1>8. CASE Restart
  BY <1>8, PurgeInvKept DEF Restart
<1> QED
  BY <1>1, <1>2, <1>3, <1>4, <1>5, <1>6, <1>7, <1>8 DEF Next, Work, StartJob

\* The parts of RoundInv and NoGapBehindLive that a step may disturb.
LEMMA RoundKept ==
    ASSUME TypeOK, RoundInv, NoGapBehindLive,
           \A b \in Nat : b \in blocks \/ Left(b) => b \in blocks' \/ Left(b)',
           UNCHANGED <<gen, live, since, last>>,
           step'[Mine("live")] # "purge",
           step'[Mine("live")] # "off" =>
               /\ step[Mine("live")] # "off"
               /\ goal' = goal
               /\ \A b \in todo[Mine("live")] :
                      b \in todo'[Mine("live")] \/ b \in blocks'
    PROVE  RoundInv' /\ NoGapBehindLive'
<1>1. Mine("live")' = Mine("live")
  BY DEF Mine
<1>2. since \in Nat /\ last \in Nat /\ goal \in Nat
  BY DEF TypeOK
<1>3. NoGapBehindLive'
  BY <1>2 DEF NoGapBehindLive
<1>4. ASSUME step'[Mine("live")] # "off"
      PROVE  \A b \in last' + 1 .. goal' :
                 b \in blocks' \/ Left(b)' \/ b \in todo'[Mine("live")]
  <2>1. \A b \in last + 1 .. goal :
            b \in blocks \/ Left(b) \/ b \in todo[Mine("live")]
    BY <1>4 DEF RoundInv
  <2>2. ASSUME NEW b \in last + 1 .. goal
        PROVE  b \in blocks' \/ Left(b)' \/ b \in todo'[Mine("live")]
    BY <1>2, <1>4, <2>1, <2>2
  <2> QED
    BY <1>4, <2>2
<1> QED
  BY <1>1, <1>3, <1>4 DEF RoundInv

\* A round that ends well: its range joins what last_indexed has passed.
LEMMA RoundEnds ==
    ASSUME TypeOK, RoundInv, NoGapBehindLive, Exit(Mine("live"))
    PROVE  RoundInv' /\ NoGapBehindLive'
<1>1. /\ Mine("live")' = Mine("live") /\ Mine("live") \in Commands
      /\ UNCHANGED <<blocks, live, since>> /\ last' = goal
      /\ End(Mine("live"))
  BY MineIsCommand DEF Exit, Mine, dbVars, TypeOK, Kinds
<1>2. step'[Mine("live")] = "off"
  BY <1>1 DEF End, TypeOK
<1>3. todo[Mine("live")] = {} /\ step[Mine("live")] # "off"
  BY DEF Exit, RoundInv
<1>4. since \in Nat /\ last \in Nat /\ goal \in Nat
  BY DEF TypeOK
<1>5. ASSUME NEW b \in since + 1 .. goal PROVE b \in blocks \/ Left(b)
  <2>1. CASE b <= last
    BY <1>4, <1>5, <2>1 DEF NoGapBehindLive
  <2>2. CASE b > last
    BY <1>3, <1>4, <1>5, <2>2 DEF RoundInv
  <2> QED
    BY <1>4, <1>5, <2>1, <2>2
<1>6. NoGapBehindLive'
  BY <1>1, <1>5 DEF NoGapBehindLive, Left
<1>7. RoundInv'
  BY <1>1, <1>2 DEF RoundInv
<1> QED
  BY <1>6, <1>7

LEMMA RoundWork ==
    ASSUME TypeOK, PurgeInv, RoundInv, NoGapBehindLive,
           NEW c \in Commands, Work(c) \/ Fails(c)
    PROVE  RoundInv' /\ NoGapBehindLive'
<1> DEFINE L == Mine("live")
<1>0. L \in Commands /\ L \notin Purgers /\ step[L] # "purge"
  BY MineIsCommand DEF Kinds, TypeOK, RoundInv
<1>1. CASE SaveLogsOf(c) \/ SaveTxsOf(c)
  <2>1. /\ UNCHANGED <<blocks, gen, live, since, last, goal, todo>>
        /\ step[c] # "off"
        /\ \A d \in Commands :
               step'[d] = step[d] \/ (d = c /\ step'[d] \in {"txs", "blocks"})
    BY <1>1 DEF SaveLogsOf, SaveTxsOf, liveVars, TypeOK
  <2> QED
    BY <1>0, <2>1, RoundKept DEF Left
<1>2. CASE SaveBlocksOf(c)
  <2>1. /\ UNCHANGED <<gen, live, since, last, goal>> /\ step[c] # "off"
        /\ step' = [step EXCEPT ![c] = "next"]
    BY <1>2 DEF SaveBlocksOf, liveVars
  <2>2. PICK b \in todo[c] : SaveBlocks({b}) /\ todo' = [todo EXCEPT ![c] = @ \ {b}]
    BY <1>2 DEF SaveBlocksOf
  <2>3. blocks \subseteq blocks' /\ b \in blocks'
    BY <2>2 DEF SaveBlocks
  <2>4. \A x \in todo[L] : x \in todo'[L] \/ x \in blocks'
    BY <1>0, <2>2, <2>3 DEF TypeOK
  <2>5. step'[L] # "purge" /\ (step'[L] # "off" => step[L] # "off")
    BY <1>0, <2>1 DEF TypeOK
  <2>6. \A x \in Nat : x \in blocks \/ Left(x) => x \in blocks' \/ Left(x)'
    BY <2>3, Covered
  <2> QED
    BY <2>1, <2>4, <2>5, <2>6, RoundKept
<1>3. CASE PurgeChunkOf(c)
  <2>1. \A x \in Nat : x \in blocks \/ Left(x) => x \in blocks' \/ Left(x)'
    BY <1>3, CoveredPurge
  <2>2. UNCHANGED <<gen, live, since, last, goal, step, todo>>
    BY <1>3 DEF PurgeChunkOf, liveVars, cmdVars
  <2> QED
    BY <1>0, <2>1, <2>2, RoundKept
<1>4. CASE Exit(c) /\ c = L
  BY <1>4, RoundEnds
<1>5. CASE (Exit(c) /\ c # L) \/ Fails(c)
  <2>1. /\ UNCHANGED <<blocks, gen, live, since, last>> /\ step[c] # "off"
        /\ c # L => goal' = goal
        /\ End(c)
    BY <1>5 DEF Exit, Fails, dbVars
  <2>2. /\ c = L => step'[L] = "off"
        /\ c # L => step'[L] = step[L] /\ todo'[L] = todo[L]
    BY <1>0, <2>1 DEF End, TypeOK
  <2> QED
    BY <1>0, <2>1, <2>2, RoundKept DEF Left
<1> QED
  BY <1>1, <1>2, <1>3, <1>4, <1>5 DEF Work

LEMMA RoundStep ==
    ASSUME TypeOK, LockInv, PurgeInv, RoundInv, NoGapBehindLive, [Next]_vars
    PROVE  RoundInv' /\ NoGapBehindLive'
<1> DEFINE L == Mine("live")
<1> USE DEF cmdVars, dbVars, liveVars
<1>0. L \in Commands /\ L \notin Purgers /\ step[L] # "purge"
  BY MineIsCommand DEF Kinds, TypeOK, RoundInv
<1>1. CASE \/ UNCHANGED vars \/ Grow
           \/ \E k \in Jobs : Tick(k) \/ NothingToDo(k)
  <2>1. UNCHANGED <<blocks, gen, live, since, last, goal, step, todo>>
    BY <1>1 DEF vars, Grow, Tick, NothingToDo
  <2> QED
    BY <1>0, <2>1, RoundKept DEF Left
<1>2. CASE StartPurge \/ StartReindex \/ WebRequest
  <2>1. UNCHANGED <<blocks, gen, live, since, last, goal>>
    BY <1>2 DEF StartPurge, StartReindex, WebRequest
  <2>2. PICK c \in {Mine("purge"), Mine("reindex"), Web} :
            \E S, cut : Run(c, S, cut)
    BY <1>2 DEF StartPurge, StartReindex, WebRequest
  <2>3. L # c
    BY <2>2 DEF Mine, Web
  <2>4. step'[L] = step[L] /\ todo'[L] = todo[L]
    BY <1>0, <2>2, <2>3 DEF Run, TypeOK
  <2> QED
    BY <1>0, <2>1, <2>4, RoundKept DEF Left
<1>3. CASE LivePolls
  <2>1. /\ UNCHANGED <<blocks, gen, live, since, last>> /\ L' = L
        /\ live = "polling" /\ goal' = head
        /\ Run(L, MissingBlocks(last + 1, head), 0)
    BY <1>3 DEF LivePolls, Mine
  <2>2. step'[L] = "next" /\ todo'[L] = (last + 1 .. head) \ blocks
    BY <1>0, <2>1 DEF Run, MissingBlocks, TypeOK
  <2>3. \A b \in last + 1 .. goal' : b \in blocks' \/ b \in todo'[L]
    BY <2>1, <2>2
  <2> QED
    BY <2>1, <2>2, <2>3 DEF RoundInv, NoGapBehindLive, Left
<1>4. CASE LiveStarts \/ LiveDies
  <2>1. /\ UNCHANGED <<blocks, gen, step>> /\ L' = L /\ step[L] = "off"
        /\ \/ since' = head /\ last' = head
           \/ UNCHANGED <<since, last>>
    BY <1>4 DEF LiveStarts, LiveDies, Mine, RoundInv
  <2>2. \A b \in since' + 1 .. last' : b \in blocks \/ Left(b)
    BY <2>1 DEF NoGapBehindLive, TypeOK
  <2> QED
    BY <2>1, <2>2 DEF RoundInv, NoGapBehindLive, Left
<1>5. CASE Restart
  <2>1. /\ gen \in Nat /\ gen' = gen + 1 /\ gen' \in Gens
        /\ since' = 0 /\ last' = 0
    BY <1>5, TicksAssumption DEF Restart, TypeOK, Gens
  <2>2. L' \in Commands /\ L'[2] = gen + 1
    BY <2>1 DEF Mine, Commands, Indexers
  <2>3. step[L'] = "off"
    BY <2>1, <2>2 DEF LockInv
  <2>4. step'[L'] = "off"
    BY <1>5, <2>2, <2>3 DEF Restart
  <2> QED
    BY <2>1, <2>4 DEF RoundInv, NoGapBehindLive
<1> QED
  BY <1>1, <1>2, <1>3, <1>4, <1>5, RoundWork DEF Next, StartJob

\* The inductive invariant of the scheduler, with commands that survive it or
\* not, and with web requests at any time.
THEOREM SchedInvAlways == Spec => []SchedInv
<1>1. Init => SchedInv
  <2>1. Init => PurgeInv
    BY DEF Init, PurgeInv
  <2>2. Init => RoundInv /\ NoGapBehindLive
    <3>1. Init => Mine("live") \in Commands
      BY InitTypes, MineIsCommand DEF TypeOK, Kinds
    <3> QED
      BY <3>1 DEF Init, RoundInv, NoGapBehindLive
  <2> QED
    BY <2>1, <2>2, InitTypes DEF SchedInv
<1>2. SchedInv /\ [Next]_vars => SchedInv'
  BY TypeStep, LockStep, PurgeStep, RoundStep DEF SchedInv
<1> QED
  BY <1>1, <1>2, PTL DEF Spec

\* What last_indexed has passed is indexed or has left the window of the purge:
\* the range of a failed round is indexed by a later one, however the rounds of
\* the live task, the jobs, the web server and restarts interleave.
THEOREM NoGapIsLeft == Spec => []NoGapBehindLive
<1>1. SchedInv => NoGapBehindLive
  BY DEF SchedInv
<1> QED
  BY <1>1, SchedInvAlways, PTL

-----------------------------------------------------------------------------
(* What a reindex sets out to fetch.                                       *)

LEMMA CutoffGrows ==
    ASSUME NEW l \in Nat, NEW m \in Nat, l <= m
    PROVE  CutoffOf(l, Keep) <= CutoffOf(m, Keep)
BY KeepAssumption DEF CutoffOf, SaturatingSub

\* A reindex begins with what a purge would keep, whatever is the lowest block.
LEMMA ReindexTodo ==
    ASSUME TypeOK, StartReindex
    PROVE  \E l, m \in blocks :
               /\ IsMin(l, blocks) /\ IsMax(m, blocks)
               /\ step'[Mine("reindex")] = "next"
               /\ wanted' = l .. m
               /\ todo' = [todo EXCEPT ![Mine("reindex")] =
                                MissingBlocks(ReindexFrom(l, m), m)]
               /\ ReindexFrom(l, m) \in Nat
               /\ ReindexFrom(l, m) >= l
               /\ ReindexFrom(l, m) >= CutoffOf(m, Keep)
               /\ ReindexFrom(l, m) \in {l, CutoffOf(m, Keep)}
<1>1. PICK l \in blocks, m \in blocks :
        /\ IsMin(l, blocks) /\ IsMax(m, blocks)
        /\ Run(Mine("reindex"), MissingBlocks(ReindexFrom(l, m), m), 0)
        /\ wanted' = l .. m
  BY DEF StartReindex
<1>2. l \in Nat /\ m \in Nat /\ CutoffOf(m, Keep) \in Nat
  BY CutoffNat DEF TypeOK, DbTypeOK
<1>3. /\ ReindexFrom(l, m) \in {l, CutoffOf(m, Keep)}
      /\ ReindexFrom(l, m) >= l /\ ReindexFrom(l, m) >= CutoffOf(m, Keep)
  BY <1>2 DEF ReindexFrom
<1>4. /\ step'[Mine("reindex")] = "next"
      /\ todo' = [todo EXCEPT ![Mine("reindex")] =
                    MissingBlocks(ReindexFrom(l, m), m)]
  BY <1>1, MineIsCommand DEF Run, TypeOK, Kinds, Jobs
<1> QED
  BY <1>1, <1>2, <1>3, <1>4

\* A stray old block does not make a reindex fetch what a purge would remove again.
THEOREM ReindexKeepsToWindow == Spec => ReindexStaysInWindow
<1> DEFINE InWindow == \A b \in todo'[Mine("reindex")], m \in blocks :
                            b >= CutoffOf(m, Keep)
<1>1. ASSUME TypeOK, StartReindex PROVE InWindow
  <2>1. PICK l \in blocks, m \in blocks :
            /\ IsMax(m, blocks)
            /\ todo' = [todo EXCEPT ![Mine("reindex")] =
                            MissingBlocks(ReindexFrom(l, m), m)]
            /\ ReindexFrom(l, m) \in Nat
            /\ ReindexFrom(l, m) >= CutoffOf(m, Keep)
    BY <1>1, ReindexTodo
  <2>2. todo'[Mine("reindex")] = MissingBlocks(ReindexFrom(l, m), m)
    BY <1>1, <2>1, MineIsCommand DEF TypeOK, Kinds, Jobs
  <2>3. SUFFICES ASSUME NEW b \in todo'[Mine("reindex")], NEW n \in blocks
                 PROVE  b >= CutoffOf(n, Keep)
    OBVIOUS
  <2>4. /\ b \in Nat /\ b >= ReindexFrom(l, m)
        /\ m \in Nat /\ n \in Nat /\ n <= m
    BY <1>1, <2>1, <2>2, <2>3 DEF MissingBlocks, IsMax, TypeOK, DbTypeOK
  <2>5. /\ CutoffOf(n, Keep) \in Nat /\ CutoffOf(m, Keep) \in Nat
        /\ CutoffOf(n, Keep) <= CutoffOf(m, Keep)
    BY <2>4, CutoffNat, CutoffGrows
  <2> QED
    BY <2>1, <2>4, <2>5
<1>2. TypeOK /\ [Next]_vars => [StartReindex => InWindow]_vars
  BY <1>1
<1> QED
  BY <1>2, LockCorrect, PTL DEF Spec, ReindexStaysInWindow

-----------------------------------------------------------------------------
(* What a reindex leaves behind.  Of what it has found between the lowest  *)
(* and the highest indexed block, all is indexed, has left the window, or  *)
(* is still in its hands.                                                  *)

HealInv ==
    /\ step[Mine("reindex")] # "purge"
    /\ step[Mine("reindex")] # "off" =>
        \A b \in wanted : b \in blocks \/ Left(b) \/ b \in todo[Mine("reindex")]

LEMMA ReindexIsIndexer ==
    ASSUME TypeOK
    PROVE  /\ Mine("reindex") \in Commands /\ Mine("reindex") \notin Purgers
           /\ Mine("reindex") # Web
BY MineIsCommand DEF TypeOK, Kinds, Jobs, Mine, Web

\* What a step may do beside a reindex, or as one of its own.
LEMMA HealKept ==
    ASSUME TypeOK, HealInv, gen' = gen,
           \A b \in Nat : b \in blocks \/ Left(b) => b \in blocks' \/ Left(b)',
           step'[Mine("reindex")] # "purge",
           step'[Mine("reindex")] # "off" =>
               /\ step[Mine("reindex")] # "off"
               /\ wanted' = wanted
               /\ \A b \in todo[Mine("reindex")] :
                      b \in todo'[Mine("reindex")] \/ b \in blocks'
    PROVE  HealInv'
<1>1. Mine("reindex")' = Mine("reindex") /\ wanted \subseteq Nat
  BY DEF Mine, TypeOK
<1>2. ASSUME step'[Mine("reindex")] # "off", NEW b \in wanted'
      PROVE  b \in blocks' \/ Left(b)' \/ b \in todo'[Mine("reindex")]
  <2>1. b \in blocks \/ Left(b) \/ b \in todo[Mine("reindex")]
    BY <1>2 DEF HealInv
  <2> QED
    BY <1>1, <1>2, <2>1
<1> QED
  BY <1>1, <1>2 DEF HealInv

LEMMA HealWork ==
    ASSUME TypeOK, PurgeInv, HealInv, NEW c \in Commands, Work(c) \/ Fails(c)
    PROVE  HealInv'
<1> DEFINE R == Mine("reindex")
<1>0. R \in Commands /\ step[R] # "purge"
  BY ReindexIsIndexer DEF HealInv
<1>1. CASE SaveLogsOf(c) \/ SaveTxsOf(c)
  <2>1. /\ UNCHANGED <<blocks, gen, wanted, todo>>
        /\ step[c] # "off"
        /\ \A d \in Commands :
               step'[d] = step[d] \/ (d = c /\ step'[d] \in {"txs", "blocks"})
    BY <1>1 DEF SaveLogsOf, SaveTxsOf, liveVars, TypeOK
  <2> QED
    BY <1>0, <2>1, HealKept DEF Left
<1>2. CASE SaveBlocksOf(c)
  <2>1. /\ UNCHANGED <<gen, wanted>> /\ step[c] # "off"
        /\ step' = [step EXCEPT ![c] = "next"]
    BY <1>2 DEF SaveBlocksOf, liveVars
  <2>2. PICK b \in todo[c] : SaveBlocks({b}) /\ todo' = [todo EXCEPT ![c] = @ \ {b}]
    BY <1>2 DEF SaveBlocksOf
  <2>3. blocks \subseteq blocks' /\ b \in blocks'
    BY <2>2 DEF SaveBlocks
  <2>4. \A x \in todo[R] : x \in todo'[R] \/ x \in blocks'
    BY <1>0, <2>2, <2>3 DEF TypeOK
  <2>5. step'[R] # "purge" /\ (step'[R] # "off" => step[R] # "off")
    BY <1>0, <2>1 DEF TypeOK
  <2>6. \A x \in Nat : x \in blocks \/ Left(x) => x \in blocks' \/ Left(x)'
    BY <2>3, Covered
  <2> QED
    BY <2>1, <2>4, <2>5, <2>6, HealKept
<1>3. CASE PurgeChunkOf(c)
  <2>1. \A x \in Nat : x \in blocks \/ Left(x) => x \in blocks' \/ Left(x)'
    BY <1>3, CoveredPurge
  <2>2. UNCHANGED <<gen, wanted, step, todo>>
    BY <1>3 DEF PurgeChunkOf, liveVars, cmdVars
  <2> QED
    BY <1>0, <2>1, <2>2, HealKept
<1>4. CASE Exit(c) \/ Fails(c)
  <2>1. UNCHANGED <<blocks, gen>> /\ End(c)
    BY <1>4 DEF Exit, Fails, dbVars
  <2>2. /\ c = R => step'[R] = "off"
        /\ c # R => step'[R] = step[R] /\ todo'[R] = todo[R] /\ wanted' = wanted
    BY <1>0, <2>1 DEF End, TypeOK
  <2> QED
    BY <1>0, <2>1, <2>2, HealKept DEF Left
<1> QED
  BY <1>1, <1>2, <1>3, <1>4 DEF Work

\* A reindex begins with all that is missing in the window; what lies below has left it,
\* because the highest indexed block is there.
LEMMA HealStart ==
    ASSUME TypeOK, StartReindex PROVE HealInv'
<1> DEFINE R == Mine("reindex")
<1>0. R \in Commands /\ R' = R /\ blocks' = blocks
  BY ReindexIsIndexer DEF Mine, StartReindex, dbVars
<1>1. PICK l \in blocks, m \in blocks :
        /\ step'[R] = "next" /\ wanted' = l .. m
        /\ todo' = [todo EXCEPT ![R] = MissingBlocks(ReindexFrom(l, m), m)]
        /\ ReindexFrom(l, m) \in Nat
        /\ ReindexFrom(l, m) \in {l, CutoffOf(m, Keep)}
  BY ReindexTodo
<1>2. todo'[R] = (ReindexFrom(l, m) .. m) \ blocks
  BY <1>0, <1>1 DEF TypeOK, MissingBlocks
<1>3. l \in Nat /\ m \in Nat
  BY DEF TypeOK, DbTypeOK
<1>4. ASSUME NEW b \in wanted' PROVE b \in blocks \/ Left(b) \/ b \in todo'[R]
  <2>1. b \in Nat /\ l <= b /\ b <= m
    BY <1>1, <1>3, <1>4
  <2>2. CASE b >= ReindexFrom(l, m)
    BY <1>1, <1>2, <1>3, <2>1, <2>2
  <2>3. CASE b < ReindexFrom(l, m)
    <3>1. b < CutoffOf(m, Keep)
      BY <1>1, <1>3, <2>1, <2>3
    <3>2. m >= b + Keep
      BY <1>3, <2>1, <3>1, KeepAssumption DEF CutoffOf, SaturatingSub
    <3> QED
      BY <3>2 DEF Left
  <2> QED
    BY <1>1, <2>1, <2>2, <2>3
<1> QED
  BY <1>0, <1>1, <1>4 DEF HealInv, Left

LEMMA HealStep ==
    ASSUME TypeOK, LockInv, PurgeInv, HealInv, [Next]_vars
    PROVE  HealInv'
<1> DEFINE R == Mine("reindex")
<1>0. R \in Commands /\ step[R] # "purge"
  BY ReindexIsIndexer DEF HealInv
<1>1. CASE \/ UNCHANGED vars \/ Grow \/ LiveStarts \/ LiveDies
           \/ \E k \in Jobs : Tick(k) \/ NothingToDo(k)
  <2>1. UNCHANGED <<blocks, gen, wanted, step, todo>>
    BY <1>1
    DEF vars, Grow, LiveStarts, LiveDies, Tick, NothingToDo, dbVars, cmdVars, liveVars
  <2> QED
    BY <1>0, <2>1, HealKept DEF Left
<1>2. CASE LivePolls \/ StartPurge \/ WebRequest
  <2>1. PICK c \in {Mine("live"), Mine("purge"), Web} : \E S, cut : Run(c, S, cut)
    BY <1>2 DEF LivePolls, StartPurge, WebRequest
  <2>2. UNCHANGED <<blocks, gen, wanted>> /\ R # c
    BY <1>2, <2>1 DEF LivePolls, StartPurge, WebRequest, dbVars, liveVars, Mine, Web
  <2>3. step'[R] = step[R] /\ todo'[R] = todo[R]
    BY <1>0, <2>1, <2>2 DEF Run, TypeOK
  <2> QED
    BY <1>0, <2>2, <2>3, HealKept DEF Left
<1>3. CASE StartReindex
  BY <1>3, HealStart
<1>4. CASE Restart
  <2>1. gen \in Nat /\ gen' = gen + 1 /\ gen' \in Gens
    BY <1>4, TicksAssumption DEF Restart, TypeOK, Gens
  <2>2. R' \in Commands /\ R'[2] = gen + 1
    BY <2>1 DEF Mine, Commands, Indexers
  <2>3. step[R'] = "off"
    BY <2>1, <2>2 DEF LockInv
  <2>4. step'[R'] = "off"
    BY <1>4, <2>2, <2>3 DEF Restart, cmdVars
  <2> QED
    BY <2>4 DEF HealInv
<1> QED
  BY <1>1, <1>2, <1>3, <1>4, HealWork DEF Next, StartJob

\* A reindex that ends well has left no gap in the window of the purge, from the
\* lowest block it has found indexed to the highest: gaps of earlier rounds and earlier
\* schedulers are closed, whatever fails, whatever the web server is asked for, and
\* whatever commands have survived their scheduler.
THEOREM ReindexClosesGaps == Spec => ReindexHeals
<1> DEFINE Closed == \A b \in wanted : b \in blocks \/ Left(b)
<1>1. Init => HealInv
  <2>1. Init => Mine("reindex") \in Commands
    BY InitTypes, ReindexIsIndexer
  <2> QED
    BY <2>1 DEF Init, HealInv
<1>2. SchedInv /\ HealInv /\ [Next]_vars => HealInv'
  BY HealStep DEF SchedInv
<1>3. HealInv /\ Exit(Mine("reindex")) => Closed
  <2>1. SUFFICES ASSUME HealInv, Exit(Mine("reindex")) PROVE Closed
    OBVIOUS
  <2>2. step[Mine("reindex")] # "off" /\ todo[Mine("reindex")] = {}
    BY <2>1 DEF Exit, HealInv
  <2> QED
    BY <2>1, <2>2 DEF HealInv
<1>4. SchedInv /\ HealInv /\ [Next]_vars => [Exit(Mine("reindex")) => Closed]_vars
  BY <1>3
<1> QED
  BY <1>1, <1>2, <1>4, SchedInvAlways, PTL DEF Spec, ReindexHeals

=============================================================================
