--------------------------- MODULE WebServerProofs ---------------------------
(***************************************************************************)
(* Theorems about the start of commands and the requests of the web server *)
(* for any number of processes, endpoints and chains, and any faults.      *)
(***************************************************************************)
EXTENDS WebServer, TLAPS

LEMMA HandlersAreProcs == Handlers \subseteq Procs /\ Shells \subseteq Procs
BY HandlersAssumption

LEMMA Options0 == NoOptions \in Options /\ <<>> \in Seq(Urls)
BY DEF NoOptions, Options

(* What a step does to a process.  ProcTypes are the types of procVars.      *)

ProcTypes ==
    /\ at \in [Procs -> Steps] /\ kind \in [Procs -> Kinds]
    /\ opts \in [Procs -> Options] /\ urls \in [Procs -> Seq(Urls)]
    /\ chain \in [Procs -> Chains \cup {NoChain}] /\ next \in [Procs -> Nat]

\* What a process is at fits what it runs, and who is past resolve_conn has a chain.
Fits(p) ==
    /\ kind[p] = "serve" /\ at[p] \notin Resolving => chain[p] \in Chains
    /\ kind[p] = "update" => at[p] \in {"remove"} \cup Downloading \cup Over
    /\ kind[p] = "chain-info" => at[p] \in {"resolve", "ready"} \cup Over
    /\ at[p] = "remove" => kind[p] = "update"

\* The endpoints of a process agree, see EndpointsAgree.
Agrees(p) ==
    kind[p] = "serve" /\ at[p] \notin Resolving =>
        \A i \in DOMAIN urls[p] : ReportedBy[urls[p][i]] = chain[p] \/ Trusted(opts[p])

ProcInv == ProcTypes /\ \A p \in Procs : Fits(p) /\ Agrees(p)

\* The other processes stay as they are.
Alone(p) ==
    \A q \in Procs \ {p} :
        /\ at'[q] = at[q] /\ kind'[q] = kind[q] /\ opts'[q] = opts[q]
        /\ urls'[q] = urls[q] /\ chain'[q] = chain[q] /\ next'[q] = next[q]

LEMMA AloneIsEnough ==
    ASSUME ProcInv, NEW p \in Procs, Alone(p), ProcTypes', Fits(p)', Agrees(p)'
    PROVE  ProcInv'
BY DEF ProcInv, Alone, Fits, Agrees

LEMMA Idles ==
    ASSUME ProcInv, UNCHANGED procVars
    PROVE  ProcInv'
BY DEF ProcInv, ProcTypes, Fits, Agrees, procVars

LEMMA EndsProc ==
    ASSUME ProcInv, NEW p \in Procs, NEW s \in Over, EndProc(p, s)
    PROVE  ProcInv' /\ Alone(p) /\ at'[p] = s
<1>1. s \in Steps /\ "serve" \in Kinds
  BY DEF Steps, Kinds
<1>2. ProcTypes' /\ Alone(p) /\ at'[p] = s /\ kind'[p] = "serve"
  BY <1>1, Options0 DEF EndProc, ProcInv, ProcTypes, Alone
<1>3. Fits(p)' /\ Agrees(p)'
  BY <1>2 DEF Fits, Agrees, Resolving, Over
<1> QED
  BY <1>2, <1>3, AloneIsEnough

LEMMA Goes ==
    ASSUME ProcInv, NEW p \in Procs, NEW s \in Steps \ {"remove"}, Goto(p, s),
           kind[p] = "serve" => at[p] \notin Resolving,
           kind[p] = "update" => s \in Downloading,
           kind[p] = "chain-info" => s = "ready"
    PROVE  ProcInv' /\ Alone(p) /\ at'[p] = s
<1>1. ProcTypes' /\ Alone(p) /\ at'[p] = s
  BY DEF Goto, ProcInv, ProcTypes, Alone
<1>2. UNCHANGED <<kind, opts, urls, chain>> /\ Fits(p) /\ Agrees(p)
  BY DEF Goto, ProcInv
<1>3. Fits(p)'
  BY <1>1, <1>2 DEF Fits
<1>4. Agrees(p)'
  BY <1>1, <1>2 DEF Agrees
<1> QED
  BY <1>1, <1>3, <1>4, AloneIsEnough

LEMMA Launches ==
    ASSUME ProcInv, NEW p \in Procs, NEW k \in Kinds, NEW o \in Options, Launch(p, k, o)
    PROVE  ProcInv' /\ Alone(p) /\ at'[p] \in {"remove", "resolve"}
<1>1. ProcTypes' /\ Alone(p) /\ kind'[p] = k
      /\ at'[p] = (IF k = "update" THEN "remove" ELSE "resolve")
  BY DEF Launch, ProcInv, ProcTypes, Alone, Steps
<1>2. Fits(p)' /\ Agrees(p)'
  BY <1>1 DEF Fits, Agrees, Resolving
<1> QED
  BY <1>1, <1>2, AloneIsEnough

LEMMA Relaunches ==
    ASSUME ProcInv, NEW p \in Procs, NEW o \in Options, Relaunch(p, "serve", o)
    PROVE  ProcInv' /\ Alone(p) /\ at'[p] = "resolve"
<1>1. ProcTypes' /\ Alone(p) /\ kind'[p] = "serve" /\ at'[p] = "resolve"
  BY Options0 DEF Relaunch, ProcInv, ProcTypes, Alone, Steps, Kinds
<1>2. Fits(p)' /\ Agrees(p)'
  BY <1>1 DEF Fits, Agrees, Resolving
<1> QED
  BY <1>1, <1>2, AloneIsEnough

LEMMA Moves ==
    ASSUME ProcInv, NEW p \in Procs, NEW s \in Steps \ {"remove"}, UNCHANGED <<kind, opts, urls, chain>>,
           at' = [at EXCEPT ![p] = s], kind[p] = "serve", at[p] \notin Resolving,
           next' \in [Procs -> Nat], \A q \in Procs \ {p} : next'[q] = next[q]
    PROVE  ProcInv' /\ Alone(p) /\ at'[p] = s
<1>1. ProcTypes' /\ Alone(p) /\ at'[p] = s
  BY DEF ProcInv, ProcTypes, Alone
<1>2. Fits(p)' /\ Agrees(p)'
  BY <1>1 DEF Fits, Agrees, ProcInv
<1> QED
  BY <1>1, <1>2, AloneIsEnough

-----------------------------------------------------------------------------
(* Endpoints.                                                               *)

\* The endpoints that the options lead to have been asked, or need not be.
LEMMA ResolvedTypes ==
    ASSUME NEW o \in Options, NEW us \in Resolved(o)
    PROVE  us \in Seq(Urls) /\ us # <<>> /\ ChainOf(o, us) \in Chains
<1>1. us \in Seq(Urls) /\ us # <<>>
  <2>1. CASE o.urls # <<>>
    BY <2>1 DEF Resolved, Options
  <2>2. CASE o.urls = <<>> /\ o.chain # NoChain /\ Configured[o.chain] # NoUrl
    <3>1. Configured[o.chain] \in Urls /\ us = <<Configured[o.chain]>>
      BY <2>2, ConfiguredAssumption DEF Resolved, Options
    <3> QED
      BY <3>1
  <2>3. CASE o.urls = <<>> /\ o.chain # NoChain /\ Configured[o.chain] = NoUrl
    <3>1. PICK u \in UNION Benchmarked(o.chain, 1) : us = <<u>>
      BY <2>3 DEF Resolved
    <3>2. u \in Urls
      BY <2>3, ListedAssumption DEF Benchmarked, Options
    <3> QED
      BY <3>1, <3>2
  <2> QED
    BY <2>1, <2>2, <2>3 DEF Resolved
<1>2. ChainOf(o, us) \in Chains
  <2>1. us[1] \in Urls
    BY <1>1
  <2> QED
    BY <2>1, ReportedByAssumption DEF ChainOf, Options
<1> QED
  BY <1>1, <1>2

LEMMA ResolveKeeps ==
    ASSUME ProcInv, NEW p \in Procs, Resolve(p)
    PROVE  ProcInv' /\ Alone(p) /\ at'[p] = "sigs"
<1>1. PICK us \in Resolved(opts[p]) :
        /\ Verified(opts[p], us)
        /\ urls' = [urls EXCEPT ![p] = us]
        /\ chain' = [chain EXCEPT ![p] = ChainOf(opts[p], us)]
  BY DEF Resolve
<1>2. us \in Seq(Urls) /\ us # <<>> /\ ChainOf(opts[p], us) \in Chains
  BY ResolvedTypes DEF ProcInv, ProcTypes
<1>3. ProcTypes' /\ Alone(p) /\ at'[p] = "sigs" /\ kind'[p] = "serve"
      /\ urls'[p] = us /\ chain'[p] = ChainOf(opts[p], us) /\ opts'[p] = opts[p]
  BY <1>1, <1>2 DEF Resolve, ProcInv, ProcTypes, Alone, Steps
<1>4. Fits(p)'
  BY <1>2, <1>3 DEF Fits
<1>5. ASSUME NEW i \in DOMAIN us, ~Trusted(opts[p])
      PROVE  ReportedBy[us[i]] = ChainOf(opts[p], us)
  <2>1. Asked(opts[p], i)
    BY <1>5 DEF Trusted, Asked, Options, ProcInv, ProcTypes
  <2> QED
    BY <2>1, <1>1 DEF Verified
<1>6. Agrees(p)'
  BY <1>3, <1>5 DEF Agrees, Trusted
<1> QED
  BY <1>3, <1>4, <1>6, AloneIsEnough

-----------------------------------------------------------------------------
(* Every step of a command.                                                 *)

\* Stop is EndProc with what it does to the files.
LEMMA StopsProc ==
    ASSUME ProcInv, NEW p \in Procs, NEW s \in Over, Stop(p, s)
    PROVE  ProcInv' /\ Alone(p) /\ at'[p] = s
BY EndsProc DEF Stop

LEMMA OverStates == "idle" \in Over /\ "failed" \in Over
BY DEF Over

LEMMA IndexDoneKeeps ==
    ASSUME ProcInv, NEW p \in Procs, at[p] \in {"index", "createIndex"}, IndexDone(p)
    PROVE  ProcInv' /\ Alone(p) /\ at'[p] \in {"txs", "index"}
<1> DEFINE s == IF next[p] = 2 THEN "txs" ELSE "index"
<1>1. kind[p] = "serve" /\ at[p] \notin Resolving /\ s \in Steps \ {"remove"}
  BY DEF ProcInv, Fits, ProcTypes, Kinds, Resolving, Over, Downloading, Steps
<1>2. next' \in [Procs -> Nat] /\ \A q \in Procs \ {p} : next'[q] = next[q]
  BY DEF IndexDone, ProcInv, ProcTypes
<1>3. at' = [at EXCEPT ![p] = s] /\ UNCHANGED <<kind, opts, urls, chain>>
  BY DEF IndexDone
<1> HIDE DEF s
<1>4. ProcInv' /\ Alone(p) /\ at'[p] = s
  BY <1>1, <1>2, <1>3, Moves
<1> QED
  BY <1>4 DEF s

\* A step of the start leaves the process at a step that follows.
LEMMA StartStepKeeps ==
    ASSUME ProcInv, NEW p \in Procs, StartStep(p)
    PROVE  ProcInv' /\ Alone(p)
<1> USE OverStates
<1>0. ProcTypes /\ Fits(p) /\ Agrees(p)
  BY DEF ProcInv
<1> DEFINE Known == kind[p] \in Kinds /\ at[p] \in Steps
<1>1. Known
  BY <1>0 DEF ProcTypes
<1>2. CASE Resolve(p)
  BY <1>2, ResolveKeeps
<1>3. CASE Unresolved(p) \/ Mismatch(p) \/ SigsClash(p) \/ MigrateClash(p)
  BY <1>3, StopsProc DEF Unresolved, Mismatch, SigsClash, MigrateClash
<1>4. CASE DownloadClash(p)
  BY <1>4, StopsProc, EndsProc DEF DownloadClash
<1>5. CASE ChainInfo(p)
  <2>1. Goto(p, "ready") /\ at[p] = "resolve" /\ kind[p] = "chain-info" /\ "ready" \in Steps
    BY <1>5 DEF ChainInfo, Steps
  <2> QED
    BY <2>1, Goes
<1>6. CASE RemoveSigs(p)
  <2>1. Goto(p, "get") /\ at[p] = "remove" /\ "get" \in Steps \ {"remove"} /\ "get" \in Downloading
    BY <1>6 DEF RemoveSigs, Steps, Downloading
  <2>2. kind[p] = "update"
    BY <1>0, <2>1 DEF Fits
  <2> QED
    BY <2>1, <2>2, Goes
<1>7. ASSUME NEW s \in {"fetch", "open", "unzip"}, Goto(p, s), at[p] \in Downloading
      PROVE  ProcInv' /\ Alone(p)
  <2>1. s \in Steps \ {"remove"} /\ s \in Downloading
    BY DEF Steps, Downloading
  <2>2. at[p] \notin Resolving /\ kind[p] # "chain-info"
    BY <1>0, <1>7 DEF Fits, Downloading, Resolving, Over
  <2> QED
    BY <1>7, <2>1, <2>2, Goes
<1>8. CASE Get(p) \/ FetchArchive(p) \/ OpenArchive(p)
  BY <1>7, <1>8 DEF Get, FetchArchive, OpenArchive, Downloading
<1>9. ASSUME NEW s \in {"openSigs", "get", "index", "createIndex", "createDb", "ready", "migrate"},
             Goto(p, s), kind[p] = "serve", at[p] \notin Resolving
      PROVE  ProcInv' /\ Alone(p)
  <2>1. s \in Steps \ {"remove"}
    BY DEF Steps, Downloading, Creating
  <2> QED
    BY <1>9, <2>1, Goes
<1>10. ASSUME at[p] \in {"sigs", "openSigs", "index", "createIndex", "txs", "createDb", "migrate"}
       PROVE  kind[p] = "serve" /\ at[p] \notin Resolving
  BY <1>0, <1>1, <1>10 DEF Fits, Kinds, Downloading, Resolving, Over
<1>11. CASE Unzip(p)
  <2>1. CASE kind[p] = "update"
    BY <1>11, <2>1, EndsProc DEF Unzip
  <2>2. CASE kind[p] # "update"
    <3>1. kind[p] = "serve" /\ at[p] \notin Resolving
      BY <1>0, <1>1, <1>11, <2>2 DEF Unzip, Fits, Kinds, Downloading, Resolving, Over
    <3> QED
      BY <1>9, <1>11, <2>2, <3>1 DEF Unzip
  <2> QED
    BY <2>1, <2>2
<1>12. CASE CheckSigs(p) \/ ConnectSigs(p)
  BY <1>9, <1>10, <1>12 DEF CheckSigs, ConnectSigs
<1>13. CASE CheckTxs(p) \/ CreateTxs(p) \/ Migrate(p)
  BY <1>9, <1>10, <1>13 DEF CheckTxs, CreateTxs, Migrate
<1>14. CASE CheckIndex(p) \/ MakeIndex(p)
  BY <1>9, <1>10, <1>14, IndexDoneKeeps DEF CheckIndex, MakeIndex
<1> QED
  BY <1>2, <1>3, <1>4, <1>5, <1>6, <1>8, <1>11, <1>12, <1>13, <1>14 DEF StartStep

LEMMA StepsAtWork ==
    ASSUME NEW p \in Procs, StartStep(p) \/ Crash(p)
    PROVE  at[p] \notin Over
<1>1. CASE StartStep(p)
  BY <1>1 DEF StartStep, Resolve, ChainInfo, Unresolved, Mismatch, CheckSigs, RemoveSigs, Get,
        FetchArchive, OpenArchive, Unzip, DownloadClash, ConnectSigs, CheckIndex, MakeIndex,
        SigsClash, CheckTxs, CreateTxs, Migrate, MigrateClash, Over
<1>2. CASE Crash(p)
  BY <1>2 DEF Crash
<1> QED
  BY <1>1, <1>2

-----------------------------------------------------------------------------
(* Requests.                                                                *)

HandlerTypes ==
    /\ head \in Nat
    /\ step \in [Handlers -> HandlerSteps]
    /\ ask \in [Handlers -> [chain : Chains \cup {NoChain},
                             block : Nat \cup {Latest, Nothing}]]
    /\ url \in [Handlers -> Urls \cup {NoUrl}]
    /\ txsOf \in [Handlers -> Nat \cup {Nothing}]
    /\ urlCache \in [Chains -> SUBSET Urls]

\* Without a command no child; with one a request; and once there are transactions
\* their block, which the chain has.
HandlerInv(h) ==
    /\ step[h] \in {"idle", "url"} => at[h] \in Over
    /\ step[h] # "idle" => ask[h].chain \in Chains /\ ask[h].block \in Nat \cup {Latest}
    /\ step[h] = "logs" => txsOf[h] \in 0 .. head /\ ask[h].block = txsOf[h]

WebInv == ProcInv /\ HandlerTypes /\ \A h \in Handlers : HandlerInv(h)

LEMMA SettledInChain ==
    ASSUME head \in Nat, NEW b \in Nat \cup {Latest}, NEW o \in Nat, NEW n \in Settled(b, o)
    PROVE  n \in 0 .. head
<1>1. LatestBlock(o) \in 0 .. head
  BY DEF LatestBlock
<1>2. CASE b = Latest
  BY <1>1, <1>2 DEF Settled
<1>3. CASE b # Latest
  BY <1>1, <1>3 DEF Settled
<1> QED
  BY <1>2, <1>3

LEMMA ChildOptionsTypes ==
    ASSUME HandlerTypes, NEW h \in Handlers, NEW u \in Urls \cup {NoUrl}
    PROVE  ChildOptions(h, u) \in Options
<1>1. (IF u = NoUrl THEN <<>> ELSE <<u>>) \in Seq(Urls)
  OBVIOUS
<1> QED
  BY <1>1 DEF ChildOptions, Options, HandlerTypes

\* A step of a process that is no handler, or one that works.
LEMMA ProcessKeeps ==
    ASSUME WebInv, NEW p \in Procs, ProcInv', Alone(p), UNCHANGED <<handlerVars, urlCache, head>>,
           p \in Handlers => at[p] \notin Over
    PROVE  WebInv'
<1>1. HandlerTypes'
  BY DEF WebInv, HandlerTypes, handlerVars
<1>2. ASSUME NEW h \in Handlers
      PROVE  HandlerInv(h)'
  <2>1. CASE h = p
    BY <2>1 DEF WebInv, HandlerInv, handlerVars
  <2>2. CASE h # p
    BY <2>2, HandlersAreProcs DEF WebInv, HandlerInv, handlerVars, Alone
  <2> QED
    BY <2>1, <2>2
<1> QED
  BY <1>1, <1>2 DEF WebInv

LEMMA UsersKeep ==
    ASSUME WebInv, NEW p \in Shells, UserRuns(p) \/ UserDone(p)
    PROVE  WebInv'
<1>1. p \in Procs /\ p \notin Handlers
  BY HandlersAssumption
<1>2. ProcInv' /\ Alone(p)
  <2>1. CASE \E o \in Invocations : Launch(p, "serve", o)
    <3>1. "serve" \in Kinds
      BY DEF Kinds
    <3> QED
      BY <1>1, <2>1, <3>1, Launches, InvocationsAssumption DEF WebInv
  <2>2. CASE Launch(p, "update", NoOptions)
    BY <1>1, <2>2, Launches, Options0 DEF WebInv, Kinds
  <2>3. CASE UserDone(p)
    BY <1>1, <2>3, StopsProc, OverStates DEF WebInv, UserDone
  <2> QED
    BY <2>1, <2>2, <2>3 DEF UserRuns
<1> QED
  BY <1>1, <1>2, ProcessKeeps DEF UserRuns, UserDone

LEMMA ProceedKeeps ==
    ASSUME WebInv, NEW p \in Procs, Proceed(p)
    PROVE  WebInv'
<1>1. ProcInv' /\ Alone(p)
  BY StartStepKeeps, StopsProc, OverStates DEF Proceed, Crash, WebInv
<1>2. at[p] \notin Over
  BY StepsAtWork DEF Proceed
<1> QED
  BY <1>1, <1>2, ProcessKeeps DEF Proceed

\* A step of a handler.
HandlerAlone(h) ==
    \A g \in Handlers \ {h} : step'[g] = step[g] /\ ask'[g] = ask[g] /\ txsOf'[g] = txsOf[g]

LEMMA HandlerIsEnough ==
    ASSUME WebInv, NEW h \in Handlers, ProcInv', Alone(h), HandlerTypes', HandlerAlone(h),
           head' = head, HandlerInv(h)'
    PROVE  WebInv'
<1>1. ASSUME NEW g \in Handlers \ {h}
      PROVE  HandlerInv(g)'
  BY HandlersAreProcs DEF WebInv, HandlerInv, HandlerAlone, Alone
<1> QED
  BY <1>1 DEF WebInv

LEMMA OverKeeps ==
    ASSUME WebInv, NEW h \in Handlers, ProcInv', Alone(h), EndHandler(h), at'[h] \in Over
    PROVE  WebInv'
<1>1. HandlerTypes' /\ HandlerAlone(h) /\ head' = head /\ step'[h] = "idle"
  BY DEF EndHandler, WebInv, HandlerTypes, HandlerAlone, HandlerSteps, NoAsk
<1>2. HandlerInv(h)'
  BY <1>1 DEF HandlerInv
<1> QED
  BY <1>1, <1>2, HandlerIsEnough

LEMMA AloneIfSame ==
    ASSUME UNCHANGED startVars, NEW p \in Procs
    PROVE  Alone(p) /\ UNCHANGED procVars
BY DEF startVars, procVars, Alone

LEMMA RequestKeeps == ASSUME WebInv, NEW h \in Handlers, Request(h) PROVE WebInv'
<1>1. PICK c \in Served, b \in Blocks \cup {Latest} :
        ask' = [ask EXCEPT ![h] = [chain |-> c, block |-> b]]
  BY DEF Request
<1>2. c \in Chains /\ b \in Nat \cup {Latest}
  BY ServedAssumption, BlockAssumption DEF Blocks
<1>3. HandlerTypes' /\ HandlerAlone(h) /\ head' = head /\ step'[h] = "url"
      /\ ask'[h].chain = c /\ ask'[h].block = b
  BY <1>1, <1>2 DEF Request, WebInv, HandlerTypes, HandlerAlone, HandlerSteps
<1>4. ProcInv' /\ Alone(h) /\ at' = at
  BY AloneIfSame, Idles, HandlersAreProcs DEF Request, WebInv, startVars, procVars
<1>5. HandlerInv(h)'
  BY <1>2, <1>3, <1>4 DEF HandlerInv, WebInv, Request
<1> QED
  BY <1>3, <1>4, <1>5, HandlerIsEnough

\* block-txs, or chain-info, is started.
LEMMA StartKeeps ==
    ASSUME WebInv, NEW h \in Handlers, NEW k \in Kinds, NEW u \in Urls \cup {NoUrl}, NEW s \in {"info", "txs"},
           NEW v \in Urls \cup {NoUrl}, step[h] # "idle", Launch(h, k, ChildOptions(h, u)),
           url' = [url EXCEPT ![h] = v], step' = [step EXCEPT ![h] = s],
           UNCHANGED <<head, ask, txsOf, urlCache>>
    PROVE  WebInv'
<1>1. ProcInv' /\ Alone(h)
  BY ChildOptionsTypes, Launches, HandlersAreProcs DEF WebInv
<1>2. HandlerTypes' /\ HandlerAlone(h) /\ step'[h] = s
  BY DEF WebInv, HandlerTypes, HandlerAlone, HandlerSteps
<1>3. HandlerInv(h)'
  BY <1>2 DEF HandlerInv, WebInv
<1> QED
  BY <1>1, <1>2, <1>3, HandlerIsEnough

LEMMA PickUrlKeeps == ASSUME WebInv, NEW h \in Handlers, PickUrl(h) PROVE WebInv'
<1>1. ask[h].chain \in Chains /\ step[h] # "idle" /\ "serve" \in Kinds /\ "chain-info" \in Kinds
  BY DEF PickUrl, WebInv, HandlerInv, Kinds
<1>2. CASE urlCache[ask[h].chain] # {}
  <2>1. PICK u \in urlCache[ask[h].chain] : StartTxs(h, u)
    BY <1>2 DEF PickUrl
  <2>2. u \in Urls \cup {NoUrl}
    BY <1>1 DEF WebInv, HandlerTypes
  <2> QED
    BY <1>1, <2>1, <2>2, StartKeeps DEF PickUrl, StartTxs
<1>3. CASE urlCache[ask[h].chain] = {}
  <2>1. url[h] \in Urls \cup {NoUrl} /\ url' = [url EXCEPT ![h] = url[h]]
    BY <1>3 DEF PickUrl, WebInv, HandlerTypes
  <2> QED
    BY <1>1, <1>3, <2>1, StartKeeps DEF PickUrl
<1> QED
  BY <1>2, <1>3

LEMMA NoUrlsKeeps == ASSUME WebInv, NEW h \in Handlers, NoUrls(h) PROVE WebInv'
BY StartKeeps DEF NoUrls, StartTxs, Kinds

LEMMA GotUrlsKeeps == ASSUME WebInv, NEW h \in Handlers, GotUrls(h) PROVE WebInv'
<1>1. ask[h].chain \in Chains
  BY DEF GotUrls, WebInv, HandlerInv
<1>2. PICK S \in Benchmarked(ask[h].chain, UrlsKept) : \E u \in S :
        /\ urlCache' = [urlCache EXCEPT ![ask[h].chain] = S]
        /\ Relaunch(h, "serve", ChildOptions(h, u))
        /\ url' = [url EXCEPT ![h] = u]
  BY DEF GotUrls
<1>3. PICK u \in S :
        /\ Relaunch(h, "serve", ChildOptions(h, u))
        /\ url' = [url EXCEPT ![h] = u]
  BY <1>2
<1>4. S \subseteq Urls /\ u \in Urls
  BY <1>1, <1>2, ListedAssumption DEF Benchmarked
<1>5. ProcInv' /\ Alone(h)
  BY <1>3, <1>4, ChildOptionsTypes, Relaunches, HandlersAreProcs DEF WebInv
<1>6. HandlerTypes' /\ HandlerAlone(h) /\ step'[h] = "txs" /\ head' = head
  BY <1>2, <1>3, <1>4 DEF GotUrls, WebInv, HandlerTypes, HandlerAlone, HandlerSteps
<1>7. HandlerInv(h)'
  BY <1>1, <1>6 DEF HandlerInv, WebInv, GotUrls
<1> QED
  BY <1>5, <1>6, <1>7, HandlerIsEnough

LEMMA TxsDoneKeeps == ASSUME WebInv, NEW h \in Handlers, TxsDone(h) PROVE WebInv'
<1>1. PICK b \in Settled(ask[h].block, LatestOffset) :
        /\ txsOf' = [txsOf EXCEPT ![h] = b]
        /\ ask' = [ask EXCEPT ![h].block = b]
  BY DEF TxsDone
<1>2. ask[h].chain \in Chains /\ ask[h].block \in Nat \cup {Latest}
  BY DEF TxsDone, WebInv, HandlerInv
<1>3. b \in 0 .. head /\ head \in Nat
  BY <1>2, SettledInChain, BlockAssumption DEF WebInv, HandlerTypes
<1>4. ProcInv' /\ Alone(h)
  <2>1. url[h] \in Urls \cup {NoUrl}
    BY DEF WebInv, HandlerTypes
  <2> QED
    BY <2>1, ChildOptionsTypes, Relaunches, HandlersAreProcs DEF WebInv, TxsDone
<1>5. HandlerTypes' /\ HandlerAlone(h) /\ step'[h] = "logs" /\ head' = head
      /\ txsOf'[h] = b /\ ask'[h].block = b /\ ask'[h].chain = ask[h].chain
  BY <1>1, <1>3 DEF TxsDone, WebInv, HandlerTypes, HandlerAlone, HandlerSteps
<1>6. HandlerInv(h)'
  BY <1>2, <1>3, <1>5 DEF HandlerInv
<1> QED
  BY <1>4, <1>5, <1>6, HandlerIsEnough

LEMMA HandleKeeps == ASSUME WebInv, NEW h \in Handlers, Handle(h) PROVE WebInv'
<1> USE OverStates, HandlersAreProcs
<1>1. CASE Request(h) \/ PickUrl(h) \/ GotUrls(h) \/ NoUrls(h) \/ TxsDone(h)
  BY <1>1, RequestKeeps, PickUrlKeeps, GotUrlsKeeps, NoUrlsKeeps, TxsDoneKeeps
<1>2. CASE LogsDone(h)
  BY <1>2, StopsProc, OverKeeps DEF LogsDone, WebInv
<1>3. CASE TooNew(h)
  <2>1. at[h] \notin Over
    BY <1>3 DEF TooNew, Over
  <2> QED
    BY <1>3, <2>1, StopsProc, ProcessKeeps DEF TooNew, WebInv
<1>4. CASE ChildFailed(h) \/ (Timeout(h) /\ at[h] \in Over)
  <2>1. UNCHANGED startVars /\ EndHandler(h) /\ at[h] \in Over
    BY <1>4 DEF ChildFailed, Timeout
  <2>2. ProcInv' /\ Alone(h) /\ at' = at
    BY <2>1, AloneIfSame, Idles DEF WebInv, procVars
  <2> QED
    BY <2>1, <2>2, OverKeeps
<1>5. CASE Timeout(h) /\ at[h] \notin Over
  BY <1>5, StopsProc, OverKeeps DEF Timeout, WebInv
<1> QED
  BY <1>1, <1>2, <1>3, <1>4, <1>5 DEF Handle

LEMMA WebInvInit == WebInit => WebInv
<1> SUFFICES ASSUME WebInit PROVE WebInv
  OBVIOUS
<1>1. ProcInv
  BY Options0 DEF WebInit, StartInit, ProcInv, ProcTypes, Fits, Agrees, Steps, Over, Kinds, Resolving
<1>2. HandlerTypes
  BY DEF WebInit, HandlerTypes, HandlerSteps, NoAsk
<1>3. ASSUME NEW h \in Handlers
      PROVE  HandlerInv(h)
  BY HandlersAreProcs DEF WebInit, StartInit, HandlerInv, Over
<1> QED
  BY <1>1, <1>2, <1>3 DEF WebInv

LEMMA WebInvStep == WebInv /\ [WebNext]_webVars => WebInv'
<1> SUFFICES ASSUME WebInv, [WebNext]_webVars PROVE WebInv'
  OBVIOUS
<1>1. ASSUME UNCHANGED <<startVars, handlerVars>>, HandlerTypes', head' >= head
      PROVE  WebInv'
  <2>1. ProcInv' /\ at' = at
    BY <1>1, Idles DEF WebInv, startVars, procVars
  <2>2. ASSUME NEW h \in Handlers
        PROVE  HandlerInv(h)'
    BY <1>1, <2>1 DEF WebInv, HandlerInv, HandlerTypes, handlerVars
  <2> QED
    BY <1>1, <2>1, <2>2 DEF WebInv
<1>2. CASE Grow
  BY <1>1, <1>2, BlockAssumption DEF Grow, WebInv, HandlerTypes, handlerVars
<1>3. CASE \E c \in Chains : UrlsExpire(c)
  BY <1>1, <1>3 DEF UrlsExpire, WebInv, HandlerTypes, handlerVars
<1>4. CASE UNCHANGED webVars
  BY <1>1, <1>4 DEF webVars, WebInv, HandlerTypes, handlerVars
<1>5. CASE \E p \in Procs : Proceed(p)
  BY <1>5, ProceedKeeps
<1>6. CASE \E p \in Shells : UserRuns(p) \/ UserDone(p)
  BY <1>6, UsersKeep
<1>7. CASE \E h \in Handlers : Handle(h)
  BY <1>7, HandleKeeps
<1> QED
  BY <1>2, <1>3, <1>4, <1>5, <1>6, <1>7 DEF WebNext

\* The invariant of processes and requests holds throughout.
THEOREM WebInvAlways == WebSpec => []WebInv
BY WebInvInit, WebInvStep, PTL DEF WebSpec

\* No command works on for a request that is over (kill_on_drop of every call, and a
\* reply only after the last command).
THEOREM NoOrphans == WebSpec => []NoChildLeft
<1>1. WebInv => NoChildLeft
  BY DEF WebInv, HandlerTypes, HandlerSteps, HandlerInv, NoChildLeft
<1> QED
  BY <1>1, WebInvAlways, PTL

\* Transactions and logs of a reply are of one block, however far the chain goes
\* between block-txs and block-logs.
THEOREM RepliesFit == WebSpec => []LogsFitTxs
<1>1. WebInv => LogsFitTxs
  <2> SUFFICES ASSUME WebInv, NEW h \in Handlers, step[h] = "logs"
               PROVE  Settled(ask[h].block, 0) = {txsOf[h]}
    BY DEF LogsFitTxs
  <2>1. txsOf[h] \in 0 .. head /\ ask[h].block = txsOf[h] /\ head \in Nat
    BY DEF WebInv, HandlerInv, HandlerTypes
  <2>2. ask[h].block # Latest
    BY <2>1, BlockAssumption
  <2>3. txsOf[h] <= LatestBlock(0)
    BY <2>1 DEF LatestBlock
  <2> QED
    BY <2>1, <2>2, <2>3 DEF Settled
<1> QED
  BY <1>1, WebInvAlways, PTL

\* No command is past resolve_conn with an endpoint that reports another chain than the
\* one it works on, unless it has been told not to ask.
THEOREM EndpointsAlwaysAgree == WebSpec => []EndpointsAgree
<1>1. WebInv => EndpointsAgree
  BY DEF WebInv, ProcInv, Agrees, EndpointsAgree
<1> QED
  BY <1>1, WebInvAlways, PTL

-----------------------------------------------------------------------------
(* Half-made files.                                                         *)

Late == Downloading \ {"get"}

\* A download that has overlapped no other is the only one under way,
SoloAlone ==
    \A p \in solo : /\ p \in Procs /\ at[p] \in Late
                     /\ \A q \in Procs \ {p} : at[q] \notin Late
\* and what it unpacks is what it has emptied, unless that has been removed.
SoloOwns == \A p \in solo : at[p] = "unzip" => sigsBy = p \/ sigs = "absent"
\* Who emptied the file last is still at it, or harm has been done.
PartialHasReason == sigs = "partial" => harm \/ (sigsBy \in Procs /\ at[sigsBy] = "unzip")
SigsInv == SoloAlone /\ SoloOwns /\ PartialHasReason

EmptyHasReason ==
    \A c \in Chains :
        txsDb[c] = "empty" => c \in broken \/ \E p \in Procs : at[p] = "migrate" /\ chain[p] = c
FilesInv ==
    SigsInv /\ EmptyHasReason /\ txsDb \in [Chains -> {"absent", "empty", "migrated"}]

LEMMA LateStates == Late = {"fetch", "open", "unzip"}
BY DEF Late, Downloading

\* Steps that neither enter nor leave a download or a migration.
LEMMA SigsKept ==
    ASSUME SigsInv, NEW p \in Procs, Alone(p), at[p] \notin Late, at'[p] \notin Late,
           UNCHANGED <<sigs, sigsBy, solo, harm>>
    PROVE  SigsInv'
<1>1. p \notin solo
  BY DEF SigsInv, SoloAlone
<1>2. SoloAlone'
  BY <1>1 DEF SigsInv, SoloAlone, Alone
<1>3. SoloOwns'
  BY <1>1 DEF SigsInv, SoloOwns, SoloAlone, Alone
<1>4. PartialHasReason'
  BY LateStates DEF SigsInv, PartialHasReason, Alone
<1> QED
  BY <1>2, <1>3, <1>4 DEF SigsInv

LEMMA EmptyKept ==
    ASSUME FilesInv, NEW p \in Procs, Alone(p), at[p] # "migrate", UNCHANGED <<txsDb, broken>>
    PROVE  EmptyHasReason' /\ txsDb' \in [Chains -> {"absent", "empty", "migrated"}]
BY DEF FilesInv, EmptyHasReason, Alone

LEMMA FilesKept ==
    ASSUME FilesInv, NEW p \in Procs, Alone(p), at[p] \notin Late \cup {"migrate"}, at'[p] \notin Late,
           UNCHANGED <<sigs, sigsBy, solo, harm, txsDb, broken>>
    PROVE  FilesInv'
BY SigsKept, EmptyKept DEF FilesInv

LEMMA StopFiles ==
    ASSUME ProcInv, FilesInv, NEW p \in Procs, NEW s \in Over, Stop(p, s)
    PROVE  FilesInv'
<1>1. Alone(p) /\ at'[p] = s /\ s \notin Late /\ s # "unzip"
  BY StopsProc, LateStates DEF Over
<1>2. SoloAlone' /\ SoloOwns'
  <2>1. solo' = solo \ {p} /\ sigs' = sigs /\ (sigsBy' = sigsBy \/ sigsBy = p)
    BY DEF Stop, SigsForget
  <2> QED
    BY <1>1, <2>1 DEF FilesInv, SigsInv, SoloAlone, SoloOwns, Alone
<1>3. PartialHasReason'
  <2>1. CASE at[p] \in Downloading
    BY <2>1 DEF Stop, SigsForget, PartialHasReason
  <2>2. CASE at[p] \notin Downloading
    <3>1. (harm => harm') /\ sigs' = sigs /\ at[p] # "unzip"
      BY <2>2 DEF Stop, SigsForget, FilesInv, SigsInv, Downloading
    <3>2. sigsBy # p => sigsBy' = sigsBy
      BY DEF Stop, SigsForget
    <3> QED
      BY <1>1, <3>1, <3>2 DEF FilesInv, SigsInv, PartialHasReason, Alone
  <2> QED
    BY <2>1, <2>2
<1>4. EmptyHasReason'
  <2> SUFFICES ASSUME NEW c \in Chains, txsDb[c] = "empty", c \notin broken'
               PROVE  \E q \in Procs : at'[q] = "migrate" /\ chain'[q] = c
    BY DEF EmptyHasReason, Stop
  <2>1. PICK q \in Procs : at[q] = "migrate" /\ chain[q] = c
    BY DEF FilesInv, EmptyHasReason, Stop
  <2>2. q # p
    BY <2>1 DEF Stop
  <2> QED
    BY <1>1, <2>1, <2>2 DEF Alone
<1> QED
  BY <1>2, <1>3, <1>4 DEF FilesInv, SigsInv, Stop

LEMMA GetFiles ==
    ASSUME ProcInv, FilesInv, NEW p \in Procs, Get(p)
    PROVE  SigsInv'
<1>1. at[p] = "get" /\ at' = [at EXCEPT ![p] = "fetch"] /\ CreateArchive(p, Downloaders(p))
  BY DEF Get, Goto
<1>2. at'[p] = "fetch" /\ \A q \in Procs \ {p} : at'[q] = at[q]
  BY <1>1 DEF ProcInv, ProcTypes
<1>3. p \notin solo
  BY <1>1, LateStates DEF FilesInv, SigsInv, SoloAlone
<1>4. SoloAlone'
  <2>1. CASE Downloaders(p) = {}
    <3>1. solo = {}
      BY <1>3, <2>1 DEF FilesInv, SigsInv, SoloAlone, Downloaders, Late
    <3>2. solo' = {p}
      BY <1>1, <2>1, <3>1 DEF CreateArchive
    <3> QED
      BY <1>2, <2>1, <3>2, LateStates DEF SoloAlone, Downloaders, Late
  <2>2. CASE Downloaders(p) # {}
    BY <1>1, <2>2 DEF CreateArchive, SoloAlone
  <2> QED
    BY <2>1, <2>2
<1>5. SoloOwns'
  BY <1>1, <1>2 DEF CreateArchive, SoloOwns, FilesInv, SigsInv, SoloAlone
<1>6. PartialHasReason'
  BY <1>1, <1>2 DEF CreateArchive, PartialHasReason, FilesInv, SigsInv
<1> QED
  BY <1>4, <1>5, <1>6 DEF SigsInv

LEMMA DownloadFiles ==
    ASSUME ProcInv, FilesInv, NEW p \in Procs, FetchArchive(p) \/ OpenArchive(p)
    PROVE  SigsInv'
<1>1. CASE FetchArchive(p)
  <2>1. at[p] = "fetch" /\ at'[p] = "open" /\ (\A q \in Procs \ {p} : at'[q] = at[q])
        /\ UNCHANGED <<sigs, sigsBy, solo, harm>>
    BY <1>1 DEF FetchArchive, FillArchive, Goto, ProcInv, ProcTypes
  <2> QED
    BY <2>1, LateStates DEF FilesInv, SigsInv, SoloAlone, SoloOwns, PartialHasReason
<1>2. CASE OpenArchive(p)
  <2>1. at[p] = "open" /\ at'[p] = "unzip" /\ (\A q \in Procs \ {p} : at'[q] = at[q])
        /\ UNCHANGED <<solo, harm>> /\ sigs' = "partial" /\ sigsBy' = p
    BY <1>2 DEF OpenArchive, CreateDb, Goto, ProcInv, ProcTypes
  <2>2. SoloAlone' /\ PartialHasReason'
    BY <2>1, LateStates DEF FilesInv, SigsInv, SoloAlone, PartialHasReason
  <2>3. SoloOwns'
    BY <2>1, LateStates DEF FilesInv, SigsInv, SoloAlone, SoloOwns
  <2> QED
    BY <2>2, <2>3 DEF SigsInv
<1> QED
  BY <1>1, <1>2

\* The end of a download, of whoever has emptied the file.
LEMMA FilledFiles ==
    ASSUME ProcInv, FilesInv, NEW p \in Procs, at[p] = "unzip", Alone(p), at'[p] \notin Late,
           FillDb(p) \/ FillDbNoArchive(p)
    PROVE  SigsInv'
<1>1. solo' = solo \ {p} /\ sigs' = (IF sigsBy = p THEN "whole" ELSE sigs)
      /\ sigsBy' = (IF sigsBy = p THEN Nobody ELSE sigsBy)
      /\ (harm' = TRUE \/ harm' = (harm /\ p \notin solo))
  BY DEF FillDb, FillDbNoArchive
<1>2. SoloAlone'
  BY <1>1 DEF FilesInv, SigsInv, SoloAlone, Alone
<1>3. SoloOwns'
  <2> SUFFICES ASSUME NEW q \in solo \ {p} PROVE FALSE
    BY <1>1 DEF SoloOwns
  <2> QED
    BY LateStates DEF FilesInv, SigsInv, SoloAlone
<1>4. PartialHasReason'
  <2> SUFFICES ASSUME sigs = "partial", sigsBy # p, ~harm'
               PROVE  sigsBy \in Procs /\ at'[sigsBy] = "unzip"
    BY <1>1 DEF PartialHasReason
  <2>1. ~harm
    BY <1>1 DEF FilesInv, SigsInv, SoloOwns
  <2> QED
    BY <2>1 DEF FilesInv, SigsInv, PartialHasReason, Alone
<1> QED
  BY <1>2, <1>3, <1>4 DEF SigsInv

\* A removed file is not half made.
LEMMA RemovedFiles ==
    ASSUME ProcInv, FilesInv, NEW p \in Procs, RemoveSigs(p)
    PROVE  SigsInv'
<1>1. at[p] = "remove" /\ at'[p] = "get" /\ \A q \in Procs \ {p} : at'[q] = at[q]
  BY DEF RemoveSigs, Goto, ProcInv, ProcTypes
<1>2. solo' = solo /\ (sigs' = "absent" \/ UNCHANGED <<sigs, sigsBy, harm>>)
  BY DEF RemoveSigs, remove_files, sigsVars
<1> QED
  BY <1>1, <1>2, LateStates DEF FilesInv, SigsInv, SoloAlone, SoloOwns, PartialHasReason

LEMMA TxsFiles ==
    ASSUME ProcInv, FilesInv, NEW p \in Procs, CreateTxs(p) \/ Migrate(p)
    PROVE  FilesInv'
<1>1. Alone(p)
  BY StartStepKeeps DEF StartStep
<1>2. at[p] \notin Late /\ at'[p] \notin Late /\ chain'[p] = chain[p]
      /\ UNCHANGED <<sigs, sigsBy, solo, harm>>
  BY LateStates DEF CreateTxs, Migrate, Goto, ProcInv, ProcTypes, sigsVars
<1>3. SigsInv'
  BY <1>1, <1>2, SigsKept DEF FilesInv
<1>4. CASE CreateTxs(p)
  <2>1. at[p] = "createDb" /\ at'[p] = "migrate" /\ broken' = broken
        /\ txsDb' = [txsDb EXCEPT ![chain[p]] = IF @ = "absent" THEN "empty" ELSE @]
    BY <1>4 DEF CreateTxs, Goto, ProcInv, ProcTypes
  <2>2. \A c \in Chains \ {chain[p]} : txsDb'[c] = txsDb[c]
    BY <2>1 DEF FilesInv
  <2>3. EmptyHasReason'
    BY <1>1, <1>2, <2>1, <2>2 DEF FilesInv, EmptyHasReason, Alone
  <2> QED
    BY <1>3, <2>1, <2>3 DEF FilesInv
<1>5. CASE Migrate(p)
  <2>1. broken' = broken \ {chain[p]} /\ txsDb' = [txsDb EXCEPT ![chain[p]] = "migrated"]
    BY <1>5 DEF Migrate
  <2>2. EmptyHasReason'
    BY <1>1, <2>1 DEF FilesInv, EmptyHasReason, Alone
  <2> QED
    BY <1>3, <2>1, <2>2 DEF FilesInv
<1> QED
  BY <1>4, <1>5

LEMMA UnzipFiles ==
    ASSUME ProcInv, FilesInv, NEW p \in Procs, Unzip(p) \/ DownloadClash(p)
    PROVE  FilesInv'
<1>1. CASE \E s \in Over : Stop(p, s)
  BY <1>1, StopFiles
<1>2. CASE ~\E s \in Over : Stop(p, s)
  <2>1. Alone(p)
    BY StartStepKeeps DEF StartStep
  <2>2. at[p] = "unzip" /\ (FillDb(p) \/ FillDbNoArchive(p)) /\ UNCHANGED <<txsDb, broken>>
    BY <1>2, OverStates DEF Unzip, DownloadClash
  <2>3. at'[p] \notin Late
    BY <1>2, OverStates, LateStates DEF Unzip, DownloadClash, EndProc, Goto, ProcInv, ProcTypes
  <2>4. SigsInv'
    BY <2>1, <2>2, <2>3, FilledFiles
  <2> QED
    BY <2>1, <2>2, <2>4, EmptyKept DEF FilesInv
<1> QED
  BY <1>1, <1>2

LEMMA StartStepFiles ==
    ASSUME ProcInv, FilesInv, NEW p \in Procs, StartStep(p)
    PROVE  FilesInv'
<1> USE OverStates
<1>0. Alone(p)
  BY StartStepKeeps
<1>1. CASE Unresolved(p) \/ Mismatch(p) \/ SigsClash(p) \/ MigrateClash(p)
  BY <1>1, StopFiles DEF Unresolved, Mismatch, SigsClash, MigrateClash
<1>2. CASE Unzip(p) \/ DownloadClash(p)
  BY <1>2, UnzipFiles
<1>3. CASE CreateTxs(p) \/ Migrate(p)
  BY <1>3, TxsFiles
<1>4. CASE Get(p) \/ FetchArchive(p) \/ OpenArchive(p) \/ RemoveSigs(p)
  <2>1. at[p] # "migrate" /\ UNCHANGED <<txsDb, broken>>
    BY <1>4 DEF Get, FetchArchive, OpenArchive, RemoveSigs
  <2> QED
    BY <1>0, <1>4, <2>1, GetFiles, DownloadFiles, RemovedFiles, EmptyKept DEF FilesInv
<1>5. CASE \/ Resolve(p) \/ ChainInfo(p) \/ CheckSigs(p) \/ ConnectSigs(p)
           \/ CheckIndex(p) \/ MakeIndex(p) \/ CheckTxs(p)
  <2>1. UNCHANGED <<sigs, sigsBy, solo, harm, txsDb, broken>>
    BY <1>5 DEF Resolve, ChainInfo, CheckSigs, ConnectSigs, CheckIndex, MakeIndex, CheckTxs,
          CreateIndex, sigsVars
  <2>2. at[p] \notin Late \cup {"migrate"} /\ at'[p] \notin Late
    BY <1>5, LateStates DEF Resolve, ChainInfo, CheckSigs, ConnectSigs, CheckIndex, MakeIndex,
          CheckTxs, Goto, IndexDone, ProcInv, ProcTypes
  <2> QED
    BY <1>0, <2>1, <2>2, FilesKept
<1> QED
  BY <1>1, <1>2, <1>3, <1>4, <1>5 DEF StartStep

\* Every step of the web server and of its users.
LEMMA LaunchFiles ==
    ASSUME ProcInv, FilesInv, NEW p \in Procs, NEW k \in Kinds, NEW o \in Options,
           Launch(p, k, o) \/ (k = "serve" /\ Relaunch(p, k, o))
    PROVE  FilesInv'
<1>1. Alone(p) /\ at'[p] \in {"remove", "resolve"}
  BY Launches, Relaunches
<1>2. at[p] \notin Late \cup {"migrate"} /\ UNCHANGED <<sigs, sigsBy, solo, harm, txsDb, broken>>
  BY LateStates DEF Launch, Relaunch, sigsVars, Over
<1> QED
  BY <1>1, <1>2, LateStates, FilesKept

LEMMA HandleFiles ==
    ASSUME WebInv, FilesInv, NEW h \in Handlers, Handle(h)
    PROVE  FilesInv'
<1> USE HandlersAreProcs, OverStates
<1>0. ProcInv /\ HandlerTypes
  BY DEF WebInv
<1>1. CASE UNCHANGED startVars
  BY <1>1 DEF startVars, sigsVars, procVars, FilesInv, SigsInv, SoloAlone, SoloOwns,
        PartialHasReason, EmptyHasReason
<1>2. CASE \E s \in Over : Stop(h, s)
  BY <1>0, <1>2, StopFiles
<1>3. ASSUME NEW u \in Urls \cup {NoUrl}, NEW k \in Kinds,
             \/ Launch(h, k, ChildOptions(h, u))
             \/ k = "serve" /\ Relaunch(h, k, ChildOptions(h, u))
      PROVE  FilesInv'
  BY <1>0, <1>3, ChildOptionsTypes, LaunchFiles
<1>4. "serve" \in Kinds /\ "chain-info" \in Kinds
  BY DEF Kinds
<1>5. CASE PickUrl(h)
  <2>1. ask[h].chain \in Chains
    BY <1>5 DEF PickUrl, WebInv, HandlerInv
  <2>2. urlCache[ask[h].chain] \subseteq Urls
    BY <2>1, <1>0 DEF HandlerTypes
  <2> QED
    BY <1>3, <1>4, <1>5, <2>2 DEF PickUrl, StartTxs
<1>6. CASE GotUrls(h)
  <2>1. ask[h].chain \in Chains
    BY <1>6 DEF GotUrls, WebInv, HandlerInv
  <2>2. \A S \in Benchmarked(ask[h].chain, UrlsKept) : S \subseteq Urls
    BY <2>1, ListedAssumption DEF Benchmarked
  <2> QED
    BY <1>3, <1>4, <1>6, <2>2 DEF GotUrls
<1>7. CASE NoUrls(h)
  BY <1>3, <1>4, <1>7 DEF NoUrls, StartTxs
<1>8. CASE TxsDone(h)
  <2>1. url[h] \in Urls \cup {NoUrl}
    BY <1>0 DEF HandlerTypes
  <2> QED
    BY <1>3, <1>4, <1>8, <2>1 DEF TxsDone
<1>9. CASE Request(h) \/ LogsDone(h) \/ TooNew(h) \/ ChildFailed(h) \/ Timeout(h)
  BY <1>1, <1>2, <1>9 DEF Request, LogsDone, TooNew, ChildFailed, Timeout
<1> QED
  BY <1>5, <1>6, <1>7, <1>8, <1>9 DEF Handle

LEMMA FilesStep == WebInv /\ FilesInv /\ [WebNext]_webVars => FilesInv'
<1> SUFFICES ASSUME WebInv, FilesInv, [WebNext]_webVars PROVE FilesInv'
  OBVIOUS
<1> USE HandlersAreProcs, OverStates
<1>0. ProcInv
  BY DEF WebInv
<1>1. CASE UNCHANGED startVars
  BY <1>1 DEF startVars, sigsVars, procVars, FilesInv, SigsInv, SoloAlone, SoloOwns,
        PartialHasReason, EmptyHasReason
<1>2. ASSUME NEW p \in Procs, Proceed(p)
      PROVE  FilesInv'
  BY <1>0, <1>2, StartStepFiles, StopFiles DEF Proceed, Crash
<1>3. ASSUME NEW p \in Shells, UserRuns(p)
      PROVE  FilesInv'
  BY <1>0, <1>3, LaunchFiles, InvocationsAssumption, Options0 DEF UserRuns, Kinds
<1>4. ASSUME NEW p \in Shells, UserDone(p)
      PROVE  FilesInv'
  BY <1>0, <1>4, StopFiles DEF UserDone
<1>5. ASSUME NEW h \in Handlers, Handle(h)
      PROVE  FilesInv'
  BY <1>5, HandleFiles
<1>6. CASE Grow \/ (\E c \in Chains : UrlsExpire(c)) \/ UNCHANGED webVars
  BY <1>1, <1>6 DEF Grow, UrlsExpire, webVars
<1> QED
  BY <1>2, <1>3, <1>4, <1>5, <1>6 DEF WebNext

\* A database that is half made has a process at work on it, or a fault or another
\* download behind it (download_file, init_db).
THEOREM HalfMadeAlwaysHasReason == WebSpec => []HalfMadeHasReason
<1>1. WebInit => FilesInv
  BY DEF WebInit, StartInit, SigsInit, FilesInv, SigsInv, SoloAlone, SoloOwns, PartialHasReason,
      EmptyHasReason
<1>2. FilesInv => HalfMadeHasReason
  BY DEF FilesInv, SigsInv, PartialHasReason, EmptyHasReason, HalfMadeHasReason
<1> QED
  BY <1>1, <1>2, FilesStep, WebInvAlways, PTL DEF WebSpec

=============================================================================
