------------------------ MODULE IndexCommandsProofs ------------------------
(***************************************************************************)
(* Theorems about the commands that change which blocks a database holds,  *)
(* for any number of processes, any commands and any length of the chain:  *)
(* what a command indexes is what its argument says, and a live command    *)
(* leaves no hole behind.                                                  *)
(***************************************************************************)
EXTENDS IndexCommands, TLAPS

(* Arguments.                                                               *)

LEMMA Wraps ==
    ASSUME NEW M \in Nat, NEW n \in 0 .. M
    PROVE  n % (M + 1) = n
OBVIOUS

LEMMA WrapsBelow ==
    ASSUME NEW M \in Nat
    PROVE  (0 - 1) % (M + 1) = M
OBVIOUS

\* What the callers may rely on of a range: it is one, it ends at or below the latest
\* block, "latest" gives that block, and "n:latest" the n latest blocks or all there are.
LEMMA RangesSound ==
    ASSUME NEW c \in Commands, c.blocks # NoBlocks, NEW latest \in 0 .. MaxU64,
           NEW r \in Ranges(c.blocks, latest)
    PROVE  /\ r.from \in Nat /\ r.to \in Nat /\ r.from <= r.to /\ r.to <= latest
           /\ c.blocks.form \in {"latest", "last"} => r.to = latest
           /\ c.blocks.form = "latest" => size(r) = 1
           /\ c.blocks.form = "last" =>
                size(r) = IF c.blocks.a \in 1 .. latest THEN c.blocks.a ELSE latest + 1
           /\ r = [from |-> r.from, to |-> r.to]
<1> DEFINE a == c.blocks
<1>1. a.form \in {"latest", "single", "between", "last"} /\ a.a \in 0 .. MaxU64 /\ a.b \in 0 .. MaxU64
      /\ MaxU64 \in Nat
  BY CommandsAssumption, HeadAssumption DEF Forms
<1>2. r.from <= r.to /\ r.to <= latest
  BY DEF Ranges
<1>3. CASE a.form # "last"
  <2>1. \/ r = [from |-> latest, to |-> latest] \/ r = [from |-> a.a, to |-> a.a]
        \/ r = [from |-> a.a, to |-> a.b]
    BY <1>1, <1>3 DEF Ranges
  <2>2. a.form = "latest" => r = [from |-> latest, to |-> latest]
    BY DEF Ranges
  <2> QED
    BY <1>1, <1>2, <1>3, <2>1, <2>2 DEF size
<1>4. CASE a.form = "last"
  <2>1. r = [from |-> LastFrom(latest, a.a), to |-> latest]
    BY <1>1, <1>4 DEF Ranges
  <2>2. CASE a.a = 0
    <3>1. LastFrom(latest, a.a) = 0
      BY <1>1, <2>2, WrapsBelow DEF LastFrom, Sub, Less
    <3> QED
      BY <1>1, <1>2, <1>4, <2>1, <2>2, <3>1 DEF size
  <2>3. CASE a.a > 0
    <3>1. Sub(a.a, 1) = a.a - 1
      <4>1. a.a - 1 \in 0 .. MaxU64
        BY <1>1, <2>3
      <4> QED
        BY <4>1, <1>1, Wraps DEF Sub
    <3>2. LastFrom(latest, a.a) = IF latest >= a.a - 1 THEN latest - (a.a - 1) ELSE 0
      BY <3>1 DEF LastFrom, Less
    <3> QED
      BY <1>1, <1>2, <1>4, <2>1, <2>3, <3>2 DEF size
  <2> QED
    BY <1>1, <2>2, <2>3
<1> QED
  BY <1>3, <1>4

LEMMA LatestIsNumber ==
    ASSUME NEW h \in Nat, NEW o \in Nat
    PROVE  get_latest_block(h, o) \in 0 .. h
BY DEF get_latest_block

-----------------------------------------------------------------------------
(* The invariant.                                                           *)

Live(p) == cmd[p].kind = "live"
Between == {"prune", "purge", "poll"}

\* What a live command need not worry about: a block that is there, that others have
\* purged, or that is outside its own window.
Held(p) == blocks \cup gone[p]
Safe(p, b) ==
    b \in Held(p) \/ (cmd[p].keep # NoLimit /\ \E m \in Held(p) : m >= b + cmd[p].keep)

Shape(p) ==
    /\ at[p] = "off" => cmd[p] = NoCommand
    /\ at[p] # "off" => cmd[p] \in Commands /\ Accepted(cmd[p])
    /\ at[p] \in {"prune", "poll"} => Live(p)
    /\ at[p] = "purge" => Live(p) \/ cmd[p].kind = "purge"
    /\ at[p] \in {"prune", "purge"} => cmd[p].keep # NoLimit
    /\ Live(p) /\ at[p] = "index" => first[p] <= range[p].from /\ range[p].from <= range[p].to
    /\ Live(p) /\ at[p] \in Between => first[p] <= last_indexed[p]
AsAsked(p) ==
    at[p] = "index" /\ cmd[p].blocks # NoBlocks /\ range[p].from = first[p] =>
        seen[p] \in 0 .. MaxU64 /\ range[p] \in Asked(cmd[p], seen[p])
NoHole(p) ==
    /\ Live(p) /\ at[p] = "index" =>
        \A b \in first[p] .. range[p].to : b \in todo[p] \/ Safe(p, b)
    /\ Live(p) /\ at[p] \in Between => \A b \in first[p] .. last_indexed[p] : Safe(p, b)
    /\ Live(p) /\ at[p] = "purge" =>
        \E m \in Held(p) : cutoff[p] <= m /\ \A b \in Nat : b < cutoff[p] => b + cmd[p].keep <= m
ProcInv(p) == Shape(p) /\ AsAsked(p) /\ NoHole(p)

Types ==
    /\ blocks \subseteq Nat
    /\ head \in 0 .. MaxHead
    /\ cmd \in [Procs -> Commands \cup {NoCommand}]
    /\ at \in [Procs -> {"off", "begin", "index", "prune", "purge", "poll"}]
    /\ seen \in [Procs -> Nat]
    /\ range \in [Procs -> [from : Nat, to : Nat]]
    /\ todo \in [Procs -> SUBSET Nat]
    /\ cutoff \in [Procs -> Nat]
    /\ first \in [Procs -> Nat]
    /\ last_indexed \in [Procs -> Nat]
    /\ gone \in [Procs -> SUBSET Nat]
CommandsInv == Types /\ \A p \in Procs : ProcInv(p)

\* Nobody else's state changes, and a block others lose they may miss.
Alone(p) ==
    \A q \in Procs \ {p} :
        /\ cmd'[q] = cmd[q] /\ at'[q] = at[q] /\ seen'[q] = seen[q] /\ range'[q] = range[q]
        /\ todo'[q] = todo[q] /\ cutoff'[q] = cutoff[q] /\ first'[q] = first[q]
        /\ last_indexed'[q] = last_indexed[q]
        /\ at[q] # "off" => Held(q) \subseteq Held(q)'

LEMMA SafeKept ==
    ASSUME NEW q, Held(q) \subseteq Held(q)', cmd'[q] = cmd[q], NEW b, Safe(q, b)
    PROVE  Safe(q, b)'
BY DEF Safe

LEMMA AloneIsEnough ==
    ASSUME CommandsInv, NEW p \in Procs, Alone(p), Types', ProcInv(p)'
    PROVE  CommandsInv'
<1> SUFFICES ASSUME NEW q \in Procs \ {p} PROVE ProcInv(q)'
  BY DEF CommandsInv
<1>1. Shape(q)' /\ AsAsked(q)'
  BY DEF CommandsInv, ProcInv, Shape, AsAsked, Alone, Live
<1>2. CASE at[q] = "off"
  BY <1>1, <1>2 DEF ProcInv, NoHole, Alone, Between
<1>3. CASE at[q] # "off"
  <2>1. Held(q) \subseteq Held(q)' /\ cmd'[q] = cmd[q] /\ NoHole(q)
    BY <1>3 DEF Alone, CommandsInv, ProcInv
  <2>2. \A b : Safe(q, b) => Safe(q, b)'
    BY <2>1, SafeKept
  <2>3. NoHole(q)'
    BY <2>1, <2>2 DEF NoHole, Alone, Live
  <2> QED
    BY <1>1, <2>3 DEF ProcInv
<1> QED
  BY <1>2, <1>3

LEMMA InitInv == Init => CommandsInv
BY HeadAssumption DEF Init, DbInit, CommandsInv, Types, ProcInv, Shape, AsAsked, NoHole, NoRange, Live,
    NoCommand, Command, Between

LEMMA EndInv ==
    ASSUME CommandsInv, NEW p \in Procs, End(p)
    PROVE  CommandsInv'
<1>1. Types' /\ at'[p] = "off" /\ cmd'[p] = NoCommand
  BY DEF End, dbVars, CommandsInv, Types, NoRange
<1>2. Alone(p)
  BY DEF End, dbVars, CommandsInv, Types, Alone, Held
<1>3. ProcInv(p)'
  BY <1>1 DEF ProcInv, Shape, AsAsked, NoHole, Live, Between, NoCommand, Command
<1> QED
  BY <1>1, <1>2, <1>3, AloneIsEnough

LEMMA StartInv ==
    ASSUME CommandsInv, NEW p \in Procs, Start(p)
    PROVE  CommandsInv'
<1>1. PICK c \in Commands : Accepted(c) /\ cmd' = [cmd EXCEPT ![p] = c]
  BY DEF Start
<1>2. Types' /\ at'[p] = "begin" /\ cmd'[p] = c
  BY <1>1 DEF Start, dbVars, CommandsInv, Types
<1>3. Alone(p)
  BY <1>1 DEF Start, dbVars, CommandsInv, Types, Alone, Held
<1>4. ProcInv(p)'
  BY <1>1, <1>2 DEF ProcInv, Shape, AsAsked, NoHole, Between
<1> QED
  BY <1>2, <1>3, <1>4, AloneIsEnough

-----------------------------------------------------------------------------
(* Indexing.                                                                *)

LEMMA HeadsAreNumbers ==
    ASSUME Types, NEW h \in Heads
    PROVE  h \in Nat /\ h \in 0 .. MaxU64
BY HeadAssumption DEF Heads, Types

\* A command begins to index r, and remembers where the first of its ranges begins.
LEMMA BeginsIndex ==
    ASSUME CommandsInv, NEW p \in Procs, at[p] # "off", NEW r \in [from : Nat, to : Nat], Index(p, r),
           r.from <= r.to, NEW h \in Nat, seen' = [seen EXCEPT ![p] = h],
           NEW f \in Nat, first' = [first EXCEPT ![p] = f], f <= r.from,
           cmd[p].blocks # NoBlocks /\ r.from = f => h \in 0 .. MaxU64 /\ r \in Asked(cmd[p], h),
           \A b \in f .. r.to : b < r.from => Safe(p, b),
           UNCHANGED <<dbVars, head, cmd, cutoff, last_indexed, gone>>
    PROVE  CommandsInv'
<1>1. Types' /\ at'[p] = "index" /\ range'[p] = r /\ first'[p] = f /\ seen'[p] = h /\ cmd'[p] = cmd[p]
      /\ todo'[p] = (r.from .. r.to) \ blocks
  BY DEF Index, MissingBlocks, CommandsInv, Types, dbVars
<1>2. Alone(p) /\ Held(p)' = Held(p)
  BY DEF Index, CommandsInv, Types, Alone, Held, dbVars
<1>3. Shape(p)'
  BY <1>1 DEF Shape, CommandsInv, ProcInv, Live, Between
<1>4. AsAsked(p)'
  BY <1>1 DEF AsAsked
<1>5. NoHole(p)'
  <2>1. ASSUME NEW b \in f .. r.to
        PROVE  b \in todo'[p] \/ Safe(p, b)'
    <3>1. CASE b < r.from
      BY <1>1, <1>2, <3>1, SafeKept
    <3>2. CASE b >= r.from
      BY <1>1, <1>2, <3>2 DEF Safe, Held
    <3> QED
      BY <3>1, <3>2
  <2> QED
    BY <1>1, <2>1 DEF NoHole, Between
<1> QED
  BY <1>1, <1>2, <1>3, <1>4, <1>5, AloneIsEnough DEF ProcInv

LEMMA BackfillInv ==
    ASSUME CommandsInv, NEW p \in Procs, Backfill(p)
    PROVE  CommandsInv'
<1>1. PICK h \in Heads : LET latest == get_latest_block(h, cmd[p].offset) IN
        \E r \in Asked(cmd[p], latest) :
            /\ seen' = [seen EXCEPT ![p] = latest]
            /\ Index(p, r)
            /\ first' = [first EXCEPT ![p] = r.from]
  BY DEF Backfill
<1> DEFINE latest == get_latest_block(h, cmd[p].offset)
<1>2. PICK r \in Asked(cmd[p], latest) :
            /\ seen' = [seen EXCEPT ![p] = latest]
            /\ Index(p, r)
            /\ first' = [first EXCEPT ![p] = r.from]
  BY <1>1
<1>3. cmd[p] \in Commands /\ cmd[p].blocks # NoBlocks /\ at[p] # "off"
  BY DEF Backfill, CommandsInv, ProcInv, Shape
<1>4. latest \in 0 .. MaxU64 /\ latest \in Nat
  <2>1. cmd[p].offset \in Nat
    BY <1>3, CommandsAssumption
  <2>2. h \in Nat /\ h \in 0 .. MaxU64
    BY HeadsAreNumbers DEF CommandsInv
  <2>3. latest \in 0 .. h
    BY <2>1, <2>2, LatestIsNumber
  <2> QED
    BY <2>2, <2>3, HeadAssumption
<1> HIDE DEF latest
<1>5. r \in [from : Nat, to : Nat] /\ r.from <= r.to
  BY <1>2, <1>3, <1>4, RangesSound DEF Asked
<1> DEFINE f == r.from
<1>6. f \in Nat /\ f <= r.from /\ first' = [first EXCEPT ![p] = f]
  BY <1>2, <1>5
<1>7. \A b \in f .. r.to : b < r.from => Safe(p, b)
  BY <1>5
<1>8. cmd[p].blocks # NoBlocks /\ r.from = f => latest \in 0 .. MaxU64 /\ r \in Asked(cmd[p], latest)
  BY <1>2, <1>4
<1>9. UNCHANGED <<dbVars, head, cmd, cutoff, last_indexed, gone>>
  BY DEF Backfill
<1> HIDE DEF f
<1> QED
  BY <1>2, <1>3, <1>4, <1>5, <1>6, <1>7, <1>8, <1>9, BeginsIndex

LEMMA BeginLiveInv ==
    ASSUME CommandsInv, NEW p \in Procs, BeginLive(p)
    PROVE  CommandsInv'
<1>1. PICK h \in Heads :
        /\ seen' = [seen EXCEPT ![p] = h]
        /\ Index(p, [from |-> h, to |-> h])
        /\ first' = [first EXCEPT ![p] = h]
  BY DEF BeginLive
<1>2. h \in Nat
  BY HeadsAreNumbers DEF CommandsInv
<1> DEFINE r == [from |-> h, to |-> h]
<1>3. r \in [from : Nat, to : Nat] /\ r.from = h /\ r.to = h /\ r.from <= r.to /\ h <= r.from
  BY <1>2
<1>4. cmd[p].blocks = NoBlocks /\ at[p] # "off" /\ UNCHANGED <<dbVars, head, cmd, cutoff, last_indexed, gone>>
  BY DEF BeginLive
<1>5. Index(p, r) /\ \A b \in h .. r.to : b < r.from => Safe(p, b)
  BY <1>1, <1>2
<1> HIDE DEF r
<1> QED
  BY <1>1, <1>2, <1>3, <1>4, <1>5, BeginsIndex

LEMMA PollInv ==
    ASSUME CommandsInv, NEW p \in Procs, Poll(p)
    PROVE  CommandsInv'
<1>1. PICK h \in Heads :
        /\ h > last_indexed[p]
        /\ seen' = [seen EXCEPT ![p] = h]
        /\ Index(p, [from |-> last_indexed[p] + 1, to |-> h])
  BY DEF Poll
<1> DEFINE r == [from |-> last_indexed[p] + 1, to |-> h]
<1>2. h \in Nat /\ last_indexed[p] \in Nat /\ first[p] \in Nat
  BY HeadsAreNumbers DEF CommandsInv, Types
<1>3. first[p] <= last_indexed[p] /\ \A b \in first[p] .. last_indexed[p] : Safe(p, b)
  BY DEF Poll, CommandsInv, ProcInv, Shape, NoHole, Between
<1>4. first' = [first EXCEPT ![p] = first[p]]
  BY DEF Poll, CommandsInv, Types
<1>5. r \in [from : Nat, to : Nat] /\ r.from <= r.to /\ first[p] <= r.from /\ r.from # first[p]
  BY <1>1, <1>2, <1>3
<1>6. \A b \in first[p] .. r.to : b < r.from => Safe(p, b)
  BY <1>2, <1>3
<1> QED
  BY <1>1, <1>2, <1>4, <1>5, <1>6, BeginsIndex DEF Poll

\* reindex is no live command, and has no argument.
LEMMA ReindexInv ==
    ASSUME CommandsInv, NEW p \in Procs, Reindex(p)
    PROVE  CommandsInv'
<1>0. cmd[p] \in Commands /\ Accepted(cmd[p]) /\ cmd[p].kind = "reindex" /\ blocks \subseteq Nat
  BY DEF Reindex, CommandsInv, ProcInv, Shape, Types
<1>1. PICK l, m \in blocks :
        LET from == IF cmd[p].keep = NoLimit THEN l
                    ELSE IF l > CutoffOf(m, cmd[p].keep) THEN l
                    ELSE CutoffOf(m, cmd[p].keep)
        IN  Index(p, [from |-> from, to |-> m])
  BY DEF Reindex
<1>2. cmd[p].keep # NoLimit => CutoffOf(m, cmd[p].keep) \in Nat
  <2>1. m \in Nat /\ (cmd[p].keep # NoLimit => cmd[p].keep \in Nat)
    BY <1>0, CommandsAssumption
  <2> QED
    BY <2>1 DEF CutoffOf, SaturatingSub
<1>3. PICK from \in Nat : Index(p, [from |-> from, to |-> m])
  BY <1>0, <1>1, <1>2
<1>4. m \in Nat /\ cmd[p].blocks = NoBlocks /\ ~Live(p)
  BY <1>0 DEF Accepted, Live
<1>5. Types' /\ at'[p] = "index" /\ cmd'[p] = cmd[p]
  BY <1>3, <1>4 DEF Reindex, Index, MissingBlocks, CommandsInv, Types, dbVars
<1>6. Alone(p)
  BY <1>3 DEF Reindex, Index, CommandsInv, Types, Alone, Held, dbVars
<1>7. ProcInv(p)'
  BY <1>0, <1>4, <1>5 DEF ProcInv, Shape, AsAsked, NoHole, Live
<1> QED
  BY <1>5, <1>6, <1>7, AloneIsEnough

LEMMA SaveInv ==
    ASSUME CommandsInv, NEW p \in Procs, Save(p)
    PROVE  CommandsInv'
<1>1. PICK b \in todo[p] : blocks' = blocks \cup {b} /\ todo' = [todo EXCEPT ![p] = @ \ {b}]
  BY DEF Save, SaveBlocks
<1>2. b \in Nat
  BY DEF CommandsInv, Types
<1>3. Types'
  BY <1>1, <1>2 DEF Save, CommandsInv, Types
<1>4. Alone(p) /\ Held(p)' = Held(p) \cup {b} /\ todo'[p] = todo[p] \ {b}
  BY <1>1 DEF Save, CommandsInv, Types, Alone, Held
<1>5. at'[p] = "index" /\ cmd'[p] = cmd[p] /\ range'[p] = range[p] /\ first'[p] = first[p] /\ seen'[p] = seen[p]
  BY DEF Save
<1>6. ProcInv(p)
  BY DEF CommandsInv
<1>7. Shape(p)' /\ AsAsked(p)'
  BY <1>5, <1>6 DEF ProcInv, Shape, AsAsked, Live, Save
<1>8. \A c : Safe(p, c) => Safe(p, c)'
  BY <1>4, <1>5, SafeKept
<1>9. Safe(p, b)'
  BY <1>4 DEF Safe
<1>10. NoHole(p)'
  BY <1>4, <1>5, <1>6, <1>8, <1>9 DEF ProcInv, NoHole, Live, Between, Save
<1> QED
  BY <1>3, <1>4, <1>7, <1>10, AloneIsEnough DEF ProcInv

LEMMA IndexedInv ==
    ASSUME CommandsInv, NEW p \in Procs, Indexed(p)
    PROVE  CommandsInv'
<1>1. CASE ~Live(p)
  BY <1>1, EndInv DEF Indexed, Live
<1>2. CASE Live(p)
  <2>0. /\ last_indexed' = [last_indexed EXCEPT ![p] = range[p].to]
        /\ at' = [at EXCEPT ![p] = IF cmd[p].keep = NoLimit THEN "poll" ELSE "prune"]
        /\ UNCHANGED <<dbVars, head, cmd, seen, range, todo, cutoff, first, gone, starts>>
    BY <1>2 DEF Indexed, Live
  <2>1. Types' /\ last_indexed'[p] = range[p].to /\ cmd'[p] = cmd[p] /\ first'[p] = first[p]
        /\ at'[p] = (IF cmd[p].keep = NoLimit THEN "poll" ELSE "prune")
    BY <2>0 DEF CommandsInv, Types, dbVars
  <2>2. Alone(p) /\ Held(p)' = Held(p)
    BY <2>0 DEF CommandsInv, Types, Alone, Held, dbVars
  <2>3. ProcInv(p) /\ at[p] = "index" /\ todo[p] = {}
    BY DEF CommandsInv, Indexed
  <2>4. first[p] \in Nat /\ range[p].from \in Nat /\ range[p].to \in Nat
    BY DEF CommandsInv, Types
  <2>5. Shape(p)' /\ AsAsked(p)'
    BY <1>2, <2>1, <2>3, <2>4 DEF ProcInv, Shape, AsAsked, Live
  <2>6. NoHole(p)'
    BY <1>2, <2>1, <2>2, <2>3, SafeKept DEF ProcInv, NoHole, Live, Between
  <2> QED
    BY <2>1, <2>2, <2>5, <2>6, AloneIsEnough DEF ProcInv
<1> QED
  BY <1>1, <1>2

-----------------------------------------------------------------------------
(* Purging.                                                                 *)

LEMMA KeepOfPurge ==
    ASSUME CommandsInv, NEW p \in Procs, BeginsPurge(p) \/ at[p] = "purge"
    PROVE  /\ cmd[p] \in Commands /\ cmd[p].keep # NoLimit /\ cmd[p].keep \in Nat
           /\ Live(p) => cmd[p].keep > 0 /\ at[p] \in {"prune", "purge"}
<1>1. cmd[p] \in Commands /\ Accepted(cmd[p]) /\ cmd[p].keep # NoLimit
  BY DEF BeginsPurge, CommandsInv, ProcInv, Shape, Accepted
<1>2. cmd[p].keep \in Nat
  BY <1>1, CommandsAssumption
<1> QED
  BY <1>1, <1>2 DEF Accepted, Live, BeginsPurge

\* The window of a purge reaches up to the newest block.
LEMMA CutoffBelow ==
    ASSUME NEW m \in Nat, NEW k \in Nat
    PROVE  /\ CutoffOf(m, k) \in Nat
           /\ \A b \in Nat : b < CutoffOf(m, k) => b + k <= m
           /\ k > 0 => CutoffOf(m, k) <= m
BY DEF CutoffOf, SaturatingSub

LEMMA PurgeInv ==
    ASSUME CommandsInv, NEW p \in Procs, Purge(p)
    PROVE  CommandsInv'
<1>1. PICK m \in blocks : cutoff' = [cutoff EXCEPT ![p] = CutoffOf(m, cmd[p].keep)]
  BY DEF Purge
<1>2. cmd[p].keep \in Nat /\ cmd[p].keep # NoLimit /\ cmd[p] \in Commands
      /\ (Live(p) => cmd[p].keep > 0 /\ at[p] = "prune")
  BY KeepOfPurge DEF Purge, BeginsPurge
<1> DEFINE cut == CutoffOf(m, cmd[p].keep)
<1>3. m \in Nat
  BY DEF CommandsInv, Types
<1>4. cut \in Nat /\ (\A b \in Nat : b < cut => b + cmd[p].keep <= m)
      /\ (Live(p) => cut <= m)
  BY <1>2, <1>3, CutoffBelow
<1> HIDE DEF cut
<1>5. Types' /\ at'[p] = "purge" /\ cutoff'[p] = cut /\ cmd'[p] = cmd[p] /\ first'[p] = first[p]
      /\ last_indexed'[p] = last_indexed[p]
  BY <1>1, <1>4 DEF Purge, CommandsInv, Types, dbVars, cut
<1>6. Alone(p) /\ Held(p)' = Held(p)
  BY <1>1 DEF Purge, CommandsInv, Types, Alone, Held, dbVars
<1>7. ProcInv(p) /\ at[p] # "off" /\ (Live(p) \/ cmd[p].kind = "purge")
  BY DEF CommandsInv, ProcInv, Shape, Purge, BeginsPurge
<1>8. Shape(p)' /\ AsAsked(p)'
  BY <1>2, <1>5, <1>7 DEF ProcInv, Shape, AsAsked, Live, Between
<1>9. NoHole(p)'
  <2>1. m \in Held(p)
    BY DEF Held
  <2> QED
    BY <1>2, <1>4, <1>5, <1>6, <1>7, <2>1, SafeKept DEF ProcInv, NoHole, Live, Between
<1> QED
  BY <1>5, <1>6, <1>8, <1>9, AloneIsEnough DEF ProcInv

LEMMA PurgeChunkInv ==
    ASSUME CommandsInv, NEW p \in Procs, PurgeChunk(p)
    PROVE  CommandsInv'
<1>1. PICK u \in blocks : u < cutoff[p] /\ DeleteThrough(u)
        /\ gone' = [q \in Procs |-> IF q # p /\ at[q] # "off"
                                    THEN gone[q] \cup AtMost(blocks, u) ELSE gone[q]]
  BY DEF PurgeChunk
<1>2. blocks' = blocks \ AtMost(blocks, u) /\ u \in Nat /\ blocks \subseteq Nat
  BY <1>1 DEF DeleteThrough, CommandsInv, Types
<1>3. Types' /\ UNCHANGED procVars
  <2>1. AtMost(blocks, u) \subseteq Nat
    BY <1>2 DEF AtMost
  <2> QED
    BY <1>1, <1>2, <2>1 DEF PurgeChunk, procVars, CommandsInv, Types
<1>4. Alone(p)
  <2>1. ASSUME NEW q \in Procs \ {p}, at[q] # "off"
        PROVE  Held(q) \subseteq Held(q)'
    BY <1>1, <1>2, <2>1 DEF Held
  <2> QED
    BY <1>3, <2>1 DEF Alone, procVars
<1>5. ProcInv(p) /\ at[p] = "purge"
  BY DEF CommandsInv, PurgeChunk
<1>6. Shape(p)' /\ AsAsked(p)'
  BY <1>3, <1>5 DEF ProcInv, Shape, AsAsked, Live, procVars
<1>7. NoHole(p)'
  <2> SUFFICES ASSUME Live(p)
               PROVE  /\ \A b \in first[p] .. last_indexed[p] : Safe(p, b)'
                      /\ \E m \in Held(p)' :
                            cutoff[p] <= m /\ \A b \in Nat : b < cutoff[p] => b + cmd[p].keep <= m
    BY <1>3, <1>5 DEF NoHole, Live, Between, procVars
  <2>1. PICK m \in Held(p) :
          cutoff[p] <= m /\ \A b \in Nat : b < cutoff[p] => b + cmd[p].keep <= m
    BY <1>5 DEF ProcInv, NoHole
  <2>2. cmd[p].keep \in Nat /\ cmd[p].keep # NoLimit /\ cutoff[p] \in Nat /\ Held(p) \subseteq Nat
        /\ first[p] \in Nat
    BY <1>5, KeepOfPurge DEF CommandsInv, Types, Held
  <2>3. \A c \in Held(p) : c \in Held(p)' \/ c < cutoff[p]
    BY <1>1, <1>2, <2>2 DEF Held, AtMost
  <2>4. m \in Held(p)'
    BY <2>1, <2>2, <2>3
  <2>5. ASSUME NEW b \in first[p] .. last_indexed[p]
        PROVE  Safe(p, b)'
    <3>1. Safe(p, b) /\ b \in Nat
      BY <1>5, <2>2 DEF ProcInv, NoHole, Between
    <3>2. CASE b \in Held(p)
      BY <1>3, <2>1, <2>2, <2>3, <2>4, <3>1, <3>2 DEF Safe, procVars
    <3>3. CASE b \notin Held(p)
      <4>1. PICK c \in Held(p) : c >= b + cmd[p].keep
        BY <3>1, <3>3 DEF Safe
      <4>2. CASE c \in Held(p)'
        BY <1>3, <2>2, <4>1, <4>2 DEF Safe, procVars
      <4>3. CASE c < cutoff[p]
        <5>1. b < cutoff[p]
          BY <2>2, <3>1, <4>1, <4>3
        <5> QED
          BY <1>3, <2>1, <2>2, <2>4, <3>1, <5>1 DEF Safe, procVars
      <4> QED
        BY <2>3, <4>2, <4>3
    <3> QED
      BY <3>2, <3>3
  <2> QED
    BY <2>1, <2>4, <2>5
<1> QED
  BY <1>3, <1>4, <1>6, <1>7, AloneIsEnough DEF ProcInv

\* A live command goes on to poll after its purge, or without one if nothing is stored.
LEMMA PollsNext ==
    ASSUME CommandsInv, NEW p \in Procs, Live(p), at[p] \in Between, at' = [at EXCEPT ![p] = "poll"],
           UNCHANGED <<dbVars, head, cmd, seen, range, todo, first, last_indexed, gone>>,
           cutoff' \in [Procs -> Nat], \A q \in Procs \ {p} : cutoff'[q] = cutoff[q]
    PROVE  CommandsInv'
<1>1. Types' /\ at'[p] = "poll"
  BY DEF CommandsInv, Types, dbVars
<1>2. Alone(p) /\ Held(p)' = Held(p)
  BY DEF CommandsInv, Types, Alone, Held, dbVars
<1>3. ProcInv(p)
  BY DEF CommandsInv
<1>4. Shape(p)' /\ AsAsked(p)'
  BY <1>1, <1>3 DEF ProcInv, Shape, AsAsked, Live, Between
<1>5. NoHole(p)'
  BY <1>1, <1>2, <1>3, SafeKept DEF ProcInv, NoHole, Live, Between
<1> QED
  BY <1>1, <1>2, <1>4, <1>5, AloneIsEnough DEF ProcInv

LEMMA PurgeDoneInv ==
    ASSUME CommandsInv, NEW p \in Procs, PurgeDone(p)
    PROVE  CommandsInv'
<1>1. CASE cmd[p].kind = "purge"
  BY <1>1, EndInv DEF PurgeDone
<1>2. CASE cmd[p].kind # "purge"
  <2>1. Live(p)
    BY <1>2 DEF PurgeDone, CommandsInv, ProcInv, Shape
  <2> QED
    BY <1>2, <2>1, PollsNext DEF PurgeDone, Between, CommandsInv, Types
<1> QED
  BY <1>1, <1>2

LEMMA NothingStoredInv ==
    ASSUME CommandsInv, NEW p \in Procs, NothingStored(p)
    PROVE  CommandsInv'
<1>1. CASE ~Live(p)
  BY <1>1, EndInv DEF NothingStored, Live
<1>2. CASE Live(p)
  <2>1. cmd[p].kind = "live"
    BY <1>2 DEF Live
  <2>2. at[p] \in Between
    BY <2>1 DEF NothingStored, BeginsPurge, Between
  <2>3. /\ at' = [at EXCEPT ![p] = "poll"] /\ UNCHANGED cutoff
        /\ UNCHANGED <<dbVars, head, cmd, seen, range, todo, first, last_indexed, gone>>
    BY <2>1 DEF NothingStored
  <2> QED
    BY <1>2, <2>2, <2>3, PollsNext DEF CommandsInv, Types
<1> QED
  BY <1>1, <1>2

LEMMA InvStep == CommandsInv /\ [Next]_vars => CommandsInv'
<1> SUFFICES ASSUME CommandsInv, [Next]_vars PROVE CommandsInv'
  OBVIOUS
<1>1. ASSUME UNCHANGED <<dbVars, procVars, gone>>, head' \in 0 .. MaxHead
      PROVE  CommandsInv'
  BY <1>1 DEF CommandsInv, Types, ProcInv, Shape, AsAsked, NoHole, Safe, Held, Live, dbVars, procVars
<1>2. CASE Grow
  BY <1>1, <1>2, HeadAssumption DEF Grow, CommandsInv, Types
<1>3. CASE UNCHANGED vars
  BY <1>1, <1>3 DEF vars, CommandsInv, Types
<1>4. ASSUME NEW p \in Procs, Start(p) \/ Step(p) \/ Fail(p)
      PROVE  CommandsInv'
  <2>1. CASE Step(p)
    BY <2>1, BackfillInv, BeginLiveInv, SaveInv, IndexedInv, PollInv, ReindexInv, PurgeInv,
        PurgeChunkInv, PurgeDoneInv, NothingStoredInv, EndInv DEF Step, Refused
  <2> QED
    BY <1>4, <2>1, StartInv, EndInv DEF Fail
<1> QED
  BY <1>2, <1>3, <1>4 DEF Next

\* The invariant of the commands holds throughout.
THEOREM CommandsInvAlways == Spec => []CommandsInv
BY InitInv, InvStep, PTL DEF Spec

\* What a command indexes is what its argument says (BlocksRange::from_str), in 64-bit
\* arithmetic and with or without overflow checks.
THEOREM AlwaysAsAsked == Spec => []RangeIsAsAsked
<1>1. CommandsInv => RangeIsAsAsked
  <2> SUFFICES ASSUME CommandsInv, NEW p \in Procs, at[p] = "index", cmd[p].blocks # NoBlocks,
                      range[p].from = first[p]
               PROVE  LET r == range[p]
                          a == cmd[p].blocks
                      IN  /\ r.to <= seen[p]
                          /\ cmd[p].max # NoLimit => size(r) <= cmd[p].max
                          /\ a.form \in {"latest", "last"} => r.to = seen[p]
                          /\ a.form = "latest" => size(r) = 1
                          /\ a.form = "last" =>
                                size(r) = IF a.a \in 1 .. seen[p] THEN a.a ELSE seen[p] + 1
    BY DEF RangeIsAsAsked
  <2>1. cmd[p] \in Commands /\ seen[p] \in 0 .. MaxU64 /\ range[p] \in Asked(cmd[p], seen[p])
    BY DEF CommandsInv, ProcInv, Shape, AsAsked
  <2> QED
    BY <2>1, RangesSound DEF Asked
<1> QED
  BY <1>1, CommandsInvAlways, PTL

\* A live command leaves no hole behind (the loop of index --live), whatever others index
\* and purge beside it and however its endpoint lags.
THEOREM LiveLeavesNoHole == Spec => []NoHoleBehind
<1>1. CommandsInv => NoHoleBehind
  BY DEF CommandsInv, ProcInv, NoHole, Safe, Held, Live, Between, NoHoleBehind
<1> QED
  BY <1>1, CommandsInvAlways, PTL

=============================================================================
