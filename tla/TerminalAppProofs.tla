-------------------------- MODULE TerminalAppProofs --------------------------
(***************************************************************************)
(* Theorems about the terminal UI and its data worker, for every set of    *)
(* chains, number of keys and blocks, and whatever requests fail.          *)
(*                                                                         *)
(* A request goes through a pipeline: the channel of requests, the task of *)
(* its kind, the channel of answers.  Of each kind it is the last request  *)
(* in the pipeline that counts, as the ones before it are aborted or their *)
(* answers are overwritten.  The first part is about the pipeline as plain *)
(* values; the invariants then say what the last request of a kind is.     *)
(***************************************************************************)
EXTENDS TerminalApp, TLAPS

-----------------------------------------------------------------------------
(* The channels.                                                           *)

NoReq(s, k) == \A i \in DOMAIN s : s[i].key # k
LastReq(s, k, r) ==
    \E i \in DOMAIN s :
        /\ s[i] = r /\ r.key = k
        /\ \A j \in DOMAIN s : j > i => s[j].key # k

NoAns(s, k) == \A i \in DOMAIN s : s[i].req.key # k
LastAns(s, k, r) ==
    \E i \in DOMAIN s :
        /\ s[i].req = r /\ r.key = k
        /\ \A j \in DOMAIN s : j > i => s[j].req.key # k

Answers ==
    {a \in [kind : Keys \cup {"Error"}, req : Requests, block : Nat, txs : Nat] :
        a.kind \in {a.req.key, "Error"}}

LEMMA RequestKinds ==
    ASSUME NEW r \in Requests
    PROVE  /\ r.key \in Keys /\ r # NoTask
           /\ r.key = "Block" => r.chain \in Chains /\ r.what \in Nat \cup {Latest} /\ r.n \in Nat
           /\ r.key = "Chains" => r.what \in DOMAIN Matching
           /\ r.key \in {"ChainInfo", "RefreshRpc"} => r.chain \in Chains
BY WorkerAssumption DEF Requests, Keys

LEMMA RequestMade ==
    ASSUME NEW c \in Chains
    PROVE  /\ \A w \in Nat \cup {Latest}, n \in Nat : Request("Block", c, w, n) \in Requests
           /\ \A q \in DOMAIN Matching : Request("Chains", None, q, 0) \in Requests
           /\ \A k \in {"ChainInfo", "RefreshRpc"} : Request(k, c, None, 0) \in Requests
BY DEF Requests, Request

LEMMA AppendReq ==
    ASSUME NEW s \in Seq(Requests), NEW e \in Requests, NEW k
    PROVE  /\ NoReq(Append(s, e), k) <=> NoReq(s, k) /\ e.key # k
           /\ \A r : e.key # k => (LastReq(Append(s, e), k, r) <=> LastReq(s, k, r))
           /\ LastReq(Append(s, e), e.key, e)
<1> DEFINE t == Append(s, e)
<1>1. /\ Len(s) \in Nat
      /\ DOMAIN s = 1 .. Len(s) /\ DOMAIN t = 1 .. Len(s) + 1
      /\ \A i \in 1 .. Len(s) : t[i] = s[i]
      /\ t[Len(s) + 1] = e
  OBVIOUS
<1> HIDE DEF t
<1>2. NoReq(t, k) <=> NoReq(s, k) /\ e.key # k
  BY <1>1 DEF NoReq
<1>3. ASSUME NEW r, e.key # k
      PROVE  LastReq(t, k, r) <=> LastReq(s, k, r)
  BY <1>1, <1>3 DEF LastReq
<1>4. LastReq(t, e.key, e)
  BY <1>1 DEF LastReq
<1> QED
  BY <1>2, <1>3, <1>4 DEF t

LEMMA TailReq ==
    ASSUME NEW s \in Seq(Requests), s # <<>>, NEW k
    PROVE  /\ NoReq(s, k) <=> NoReq(Tail(s), k) /\ Head(s).key # k
           /\ \A r : LastReq(s, k, r) =>
                  LastReq(Tail(s), k, r) \/ (r = Head(s) /\ r.key = k /\ NoReq(Tail(s), k))
<1> DEFINE t == Tail(s)
<1>1. /\ Len(s) \in Nat /\ Len(s) > 0
      /\ DOMAIN s = 1 .. Len(s) /\ DOMAIN t = 1 .. Len(s) - 1
      /\ \A i \in 1 .. Len(s) - 1 : t[i] = s[i + 1]
      /\ Head(s) = s[1]
  OBVIOUS
<1> HIDE DEF t
<1>2. \A i \in DOMAIN s : i = 1 \/ (i - 1 \in DOMAIN t /\ s[i] = t[i - 1])
  BY <1>1
<1>3. \A i \in DOMAIN t : i + 1 \in DOMAIN s /\ t[i] = s[i + 1]
  BY <1>1
<1>4. NoReq(s, k) <=> NoReq(t, k) /\ Head(s).key # k
  <2>1. ASSUME NoReq(s, k)
        PROVE  NoReq(t, k) /\ Head(s).key # k
    <3>1. 1 \in DOMAIN s
      BY <1>1
    <3> QED
      BY <1>1, <1>3, <2>1, <3>1 DEF NoReq
  <2>2. ASSUME NoReq(t, k), Head(s).key # k
        PROVE  NoReq(s, k)
    BY <1>1, <1>2, <2>2 DEF NoReq
  <2> QED
    BY <2>1, <2>2
<1>5. ASSUME NEW r, LastReq(s, k, r)
      PROVE  LastReq(t, k, r) \/ (r = Head(s) /\ r.key = k /\ NoReq(t, k))
  <2>1. PICK i \in DOMAIN s : /\ s[i] = r /\ r.key = k
                              /\ \A j \in DOMAIN s : j > i => s[j].key # k
    BY <1>5 DEF LastReq
  <2>2. CASE i = 1
    <3>1. \A j \in DOMAIN t : t[j].key # k
      BY <1>1, <1>3, <2>1, <2>2
    <3> QED
      BY <1>1, <2>1, <2>2, <3>1 DEF NoReq
  <2>3. CASE i # 1
    <3>1. i - 1 \in DOMAIN t /\ t[i - 1] = r
      BY <1>2, <2>1, <2>3
    <3>2. \A j \in DOMAIN t : j > i - 1 => t[j].key # k
      BY <1>1, <1>3, <2>1
    <3> QED
      BY <2>1, <3>1, <3>2 DEF LastReq
  <2> QED
    BY <2>2, <2>3
<1> QED
  BY <1>4, <1>5 DEF t

LEMMA AppendAns ==
    ASSUME NEW s \in Seq(Answers), NEW e \in Answers, NEW k
    PROVE  /\ NoAns(Append(s, e), k) <=> NoAns(s, k) /\ e.req.key # k
           /\ \A r : e.req.key # k => (LastAns(Append(s, e), k, r) <=> LastAns(s, k, r))
           /\ LastAns(Append(s, e), e.req.key, e.req)
<1> DEFINE t == Append(s, e)
<1>1. /\ Len(s) \in Nat
      /\ DOMAIN s = 1 .. Len(s) /\ DOMAIN t = 1 .. Len(s) + 1
      /\ \A i \in 1 .. Len(s) : t[i] = s[i]
      /\ t[Len(s) + 1] = e
  OBVIOUS
<1> HIDE DEF t
<1>2. NoAns(t, k) <=> NoAns(s, k) /\ e.req.key # k
  BY <1>1 DEF NoAns
<1>3. ASSUME NEW r, e.req.key # k
      PROVE  LastAns(t, k, r) <=> LastAns(s, k, r)
  BY <1>1, <1>3 DEF LastAns
<1>4. LastAns(t, e.req.key, e.req)
  BY <1>1 DEF LastAns
<1> QED
  BY <1>2, <1>3, <1>4 DEF t

LEMMA TailAns ==
    ASSUME NEW s \in Seq(Answers), s # <<>>, NEW k
    PROVE  /\ NoAns(s, k) <=> NoAns(Tail(s), k) /\ Head(s).req.key # k
           /\ \A r : LastAns(s, k, r) =>
                  LastAns(Tail(s), k, r) \/ (r = Head(s).req /\ r.key = k /\ NoAns(Tail(s), k))
<1> DEFINE t == Tail(s)
<1>1. /\ Len(s) \in Nat /\ Len(s) > 0
      /\ DOMAIN s = 1 .. Len(s) /\ DOMAIN t = 1 .. Len(s) - 1
      /\ \A i \in 1 .. Len(s) - 1 : t[i] = s[i + 1]
      /\ Head(s) = s[1]
  OBVIOUS
<1> HIDE DEF t
<1>2. \A i \in DOMAIN s : i = 1 \/ (i - 1 \in DOMAIN t /\ s[i] = t[i - 1])
  BY <1>1
<1>3. \A i \in DOMAIN t : i + 1 \in DOMAIN s /\ t[i] = s[i + 1]
  BY <1>1
<1>4. NoAns(s, k) <=> NoAns(t, k) /\ Head(s).req.key # k
  <2>1. ASSUME NoAns(s, k)
        PROVE  NoAns(t, k) /\ Head(s).req.key # k
    <3>1. 1 \in DOMAIN s
      BY <1>1
    <3> QED
      BY <1>1, <1>3, <2>1, <3>1 DEF NoAns
  <2>2. ASSUME NoAns(t, k), Head(s).req.key # k
        PROVE  NoAns(s, k)
    BY <1>1, <1>2, <2>2 DEF NoAns
  <2> QED
    BY <2>1, <2>2
<1>5. ASSUME NEW r, LastAns(s, k, r)
      PROVE  LastAns(t, k, r) \/ (r = Head(s).req /\ r.key = k /\ NoAns(t, k))
  <2>1. PICK i \in DOMAIN s : /\ s[i].req = r /\ r.key = k
                              /\ \A j \in DOMAIN s : j > i => s[j].req.key # k
    BY <1>5 DEF LastAns
  <2>2. CASE i = 1
    <3>1. \A j \in DOMAIN t : t[j].req.key # k
      BY <1>1, <1>3, <2>1, <2>2
    <3> QED
      BY <1>1, <2>1, <2>2, <3>1 DEF NoAns
  <2>3. CASE i # 1
    <3>1. i - 1 \in DOMAIN t /\ t[i - 1].req = r
      BY <1>2, <2>1, <2>3
    <3>2. \A j \in DOMAIN t : j > i - 1 => t[j].req.key # k
      BY <1>1, <1>3, <2>1
    <3> QED
      BY <2>1, <3>1, <3>2 DEF LastAns
  <2> QED
    BY <2>2, <2>3
<1> QED
  BY <1>4, <1>5 DEF t

-----------------------------------------------------------------------------
(* The pipeline: requests rq, tasks ac and answers rs.                     *)

Pipe(rq, ac, rs) ==
    /\ rq \in Seq(Requests)
    /\ ac \in [Keys -> Requests \cup {NoTask}]
    /\ \A k \in Keys : ac[k] # NoTask => ac[k].key = k
    /\ rs \in Seq(Answers)

\* No request of kind k is in it, and r is the last one that is.
Idle(k, rq, ac, rs) == NoReq(rq, k) /\ ac[k] = NoTask /\ NoAns(rs, k)
Last(k, r, rq, ac, rs) ==
    \/ LastReq(rq, k, r)
    \/ NoReq(rq, k) /\ ac[k] = r /\ r # NoTask
    \/ NoReq(rq, k) /\ ac[k] = NoTask /\ LastAns(rs, k, r)

LEMMA SendPipe ==
    ASSUME NEW rq, NEW ac, NEW rs, Pipe(rq, ac, rs), NEW e \in Requests, NEW k \in Keys
    PROVE  /\ Pipe(Append(rq, e), ac, rs)
           /\ Idle(k, Append(rq, e), ac, rs) <=> Idle(k, rq, ac, rs) /\ e.key # k
           /\ \A r : e.key # k /\ Last(k, r, rq, ac, rs) => Last(k, r, Append(rq, e), ac, rs)
           /\ Last(e.key, e, Append(rq, e), ac, rs)
<1>1. rq \in Seq(Requests) /\ Append(rq, e) \in Seq(Requests)
  BY DEF Pipe
<1> QED
  BY <1>1, AppendReq DEF Pipe, Idle, Last

LEMMA ReceivePipe ==
    ASSUME NEW rq, NEW ac, NEW rs, Pipe(rq, ac, rs), rq # <<>>, NEW k \in Keys,
           NEW a2, a2 = [ac EXCEPT ![Head(rq).key] = Head(rq)]
    PROVE  /\ Pipe(Tail(rq), a2, rs)
           /\ Idle(k, Tail(rq), a2, rs) <=> Idle(k, rq, ac, rs)
           /\ \A r : Last(k, r, rq, ac, rs) => Last(k, r, Tail(rq), a2, rs)
<1>1. /\ rq \in Seq(Requests) /\ Tail(rq) \in Seq(Requests)
      /\ Head(rq) \in Requests /\ Head(rq).key \in Keys
  <2>1. rq \in Seq(Requests) /\ Tail(rq) \in Seq(Requests) /\ Head(rq) \in Requests
    BY DEF Pipe
  <2> QED
    BY <2>1, RequestKinds
<1> DEFINE e == Head(rq)
<1>2. /\ a2 \in [Keys -> Requests \cup {NoTask}]
      /\ a2[e.key] = e
      /\ \A q \in Keys : q # e.key => a2[q] = ac[q]
      /\ e # NoTask
  BY <1>1, RequestKinds DEF Pipe
<1>3. Pipe(Tail(rq), a2, rs)
  <2>1. \A q \in Keys : a2[q] # NoTask => a2[q].key = q
    BY <1>2 DEF Pipe
  <2> QED
    BY <1>1, <1>2, <2>1 DEF Pipe
<1>4. /\ NoReq(rq, k) <=> NoReq(Tail(rq), k) /\ e.key # k
      /\ \A r : LastReq(rq, k, r) =>
             LastReq(Tail(rq), k, r) \/ (r = e /\ r.key = k /\ NoReq(Tail(rq), k))
  BY <1>1, TailReq
<1> HIDE DEF e
<1> QED
  BY <1>2, <1>3, <1>4 DEF Idle, Last

LEMMA RespondPipe ==
    ASSUME NEW rq, NEW ac, NEW rs, Pipe(rq, ac, rs), NEW d \in Keys, ac[d] # NoTask,
           NEW a \in Answers, a.req = ac[d], NEW k \in Keys,
           NEW a2, a2 = [ac EXCEPT ![d] = NoTask]
    PROVE  /\ Pipe(rq, a2, Append(rs, a))
           /\ Idle(k, rq, a2, Append(rs, a)) <=> Idle(k, rq, ac, rs)
           /\ \A r : Last(k, r, rq, ac, rs) => Last(k, r, rq, a2, Append(rs, a))
<1>1. /\ a2 \in [Keys -> Requests \cup {NoTask}]
      /\ a2[d] = NoTask
      /\ \A q \in Keys : q # d => a2[q] = ac[q]
      /\ a.req.key = d
      /\ rs \in Seq(Answers) /\ Append(rs, a) \in Seq(Answers)
  BY DEF Pipe
<1>2. Pipe(rq, a2, Append(rs, a))
  BY <1>1 DEF Pipe
<1>3. /\ NoAns(Append(rs, a), k) <=> NoAns(rs, k) /\ d # k
      /\ \A r : d # k => (LastAns(Append(rs, a), k, r) <=> LastAns(rs, k, r))
      /\ LastAns(Append(rs, a), d, ac[d])
  <2>1. rs \in Seq(Answers)
    BY <1>1
  <2> QED
    BY <1>1, <2>1, AppendAns
<1>4. CASE k = d
  BY <1>1, <1>2, <1>3, <1>4 DEF Idle, Last
<1>5. CASE k # d
  BY <1>1, <1>2, <1>3, <1>5 DEF Idle, Last
<1> QED
  BY <1>4, <1>5

LEMMA HandlePipe ==
    ASSUME NEW rq, NEW ac, NEW rs, Pipe(rq, ac, rs), rs # <<>>, NEW k \in Keys
    PROVE  /\ Pipe(rq, ac, Tail(rs))
           /\ Idle(k, rq, ac, rs) <=> Idle(k, rq, ac, Tail(rs)) /\ Head(rs).req.key # k
           /\ \A r : Last(k, r, rq, ac, rs) =>
                  \/ Last(k, r, rq, ac, Tail(rs))
                  \/ r = Head(rs).req /\ r.key = k /\ Idle(k, rq, ac, Tail(rs))
<1>1. rs \in Seq(Answers) /\ Tail(rs) \in Seq(Answers)
  BY DEF Pipe
<1> QED
  BY <1>1, TailAns DEF Pipe, Idle, Last

-----------------------------------------------------------------------------
(* Types.                                                                  *)

PipeNow == Pipe(reqs, active, responses)
Types == TypeOK /\ PipeNow /\ query \in 0 .. Len(Matching) /\ netRow \in Nat

LEMMA AskTypes ==
    ASSUME Types, NEW block \in Nat \cup {Latest}, Ask(block)
    PROVE  /\ reqs' \in Seq(Requests)
           /\ loading' \in BOOLEAN
           /\ loadingBlock' \in Nat \cup {None}
           /\ asked' \in Nat
<1>1. reqs \in Seq(Requests)
  BY DEF Types, PipeNow, Pipe
<1>2. CASE Ready
  <2>1. rpc \in Chains /\ asked + 1 \in Nat
    BY <1>2 DEF Types, TypeOK, Ready
  <2>2. Request("Block", rpc, block, asked + 1) \in Requests
    BY <2>1, RequestMade
  <2> QED
    BY <1>1, <1>2, <2>1, <2>2 DEF Ask, Send
<1>3. CASE ~Ready
  BY <1>1, <1>3 DEF Ask, Types, TypeOK
<1> QED
  BY <1>2, <1>3

LEMMA RefreshTypes ==
    ASSUME Types, RequestRpcRefresh
    PROVE  reqs' \in Seq(Requests) /\ refreshing' \in BOOLEAN
<1>1. reqs \in Seq(Requests)
  BY DEF Types, PipeNow, Pipe
<1>2. CASE ~refreshing /\ chain # None
  <2>1. chain \in Chains
    BY <1>2 DEF Types, TypeOK
  <2>2. Request("RefreshRpc", chain, None, 0) \in Requests
    BY <2>1, RequestMade
  <2> QED
    BY <1>1, <1>2, <2>2 DEF RequestRpcRefresh, Send
<1>3. CASE ~(~refreshing /\ chain # None)
  BY <1>1, <1>3 DEF RequestRpcRefresh, Types, TypeOK
<1> QED
  BY <1>2, <1>3

LEMMA FilterTypes ==
    ASSUME Types, NEW q \in 0 .. Len(Matching), RequestFilteredChains(q)
    PROVE  /\ reqs' \in Seq(Requests)
           /\ loading' \in BOOLEAN
           /\ listed' \in Seq(Chains)
           /\ query' \in 0 .. Len(Matching)
<1>1. reqs \in Seq(Requests) /\ query' = q
  BY DEF Types, PipeNow, Pipe, RequestFilteredChains
<1>2. CASE q = 0
  BY <1>1, <1>2, ChainsAssumption DEF RequestFilteredChains
<1>3. CASE q # 0
  <2>1. q \in DOMAIN Matching
    BY <1>3, ChainsAssumption
  <2>2. Request("Chains", None, q, 0) \in Requests
    BY <2>1 DEF Requests, Request
  <2> QED
    BY <1>1, <1>3, <2>2 DEF RequestFilteredChains, Send, Types, TypeOK
<1> QED
  BY <1>2, <1>3

\* What the pipeline needs, when a step only adds to the requests.
LEMMA PipeGrows ==
    ASSUME Types, reqs' \in Seq(Requests), UNCHANGED <<active, responses>>
    PROVE  PipeNow'
BY DEF Types, PipeNow, Pipe

LEMMA EditIsFilter ==
    ASSUME Types, EditQuery
    PROVE  \E q \in 0 .. Len(Matching) : RequestFilteredChains(q)
<1>1. /\ Len(Matching) \in Nat /\ DOMAIN Matching = 1 .. Len(Matching)
      /\ query \in 0 .. Len(Matching)
  BY ChainsAssumption DEF Types
<1>2. CASE query + 1 \in DOMAIN Matching /\ RequestFilteredChains(query + 1)
  BY <1>1, <1>2
<1>3. CASE query > 0 /\ RequestFilteredChains(query - 1)
  BY <1>1, <1>3
<1>4. CASE RequestFilteredChains(0)
  BY <1>1, <1>4
<1> QED
  BY <1>2, <1>3, <1>4 DEF EditQuery

LEMMA NetworkListed ==
    ASSUME Types, ConfirmNetwork
    PROVE  listed[netRow + 1] \in Chains
<1>1. listed \in Seq(Chains) /\ netRow \in Nat /\ netRow < Len(listed)
  BY DEF ConfirmNetwork, Types, TypeOK
<1> QED
  BY <1>1

LEMMA KeyTypes ==
    ASSUME Types, Key
    PROVE  Types'
<1>1. UNCHANGED <<shown, answered, astray>> /\ keys' \in Nat
  BY DEF Key, histVars, Types, TypeOK
<1>2. CASE DismissError
  BY <1>1, <1>2 DEF DismissError, Types, TypeOK, PipeNow, workerVars, connVars, viewVars, netVars
<1>3. CASE RefreshOnError
  BY <1>1, <1>3, RefreshTypes, PipeGrows DEF RefreshOnError, Types, TypeOK, viewVars, netVars
<1>4. CASE OpenNetworks
  BY <1>1, <1>4, ChainsAssumption
     DEF OpenNetworks, Types, TypeOK, PipeNow, workerVars, connVars, loadVars, viewVars
<1>5. CASE Navigate
  <2>1. PICK block \in Nat : Ask(block)
    <3>1. EffectiveBlock \in Nat
      BY <1>5 DEF Navigate, EffectiveBlock, Types, TypeOK
    <3> QED
      BY <1>5, <3>1 DEF Navigate
  <2> QED
    BY <1>1, <1>5, <2>1, AskTypes, PipeGrows DEF Navigate, Types, TypeOK, connVars, viewVars, netVars
<1>6. CASE OpenPopup
  BY <1>1, <1>6 DEF OpenPopup, Types, TypeOK, PipeNow, workerVars, connVars, loadVars, netVars
<1>7. CASE ToggleTxPopup
  BY <1>1, <1>7 DEF ToggleTxPopup, Types, TypeOK, PipeNow, workerVars, connVars, loadVars, netVars
<1>8. CASE SelectRow
  <2>1. txs \in Nat /\ row \in Nat \cup {None}
    BY DEF Types, TypeOK
  <2>2. row' \in Nat
    BY <1>8, <2>1 DEF SelectRow, Next1, Previous1
  <2> QED
    BY <1>1, <1>8, <2>2 DEF SelectRow, Types, TypeOK, PipeNow, workerVars, connVars, loadVars, netVars
<1>9. CASE ConfirmInput
  <2>1. PICK block \in 0 .. MaxBlock \cup {Latest} : Ask(block)
    BY <1>9 DEF ConfirmInput
  <2>2. block \in Nat \cup {Latest}
    BY <2>1, MaxBlockAssumption
  <2> QED
    BY <1>1, <1>9, <2>1, <2>2, AskTypes, PipeGrows DEF ConfirmInput, Types, TypeOK, connVars, netVars
<1>10. CASE ClosePopup
  BY <1>1, <1>10 DEF ClosePopup, Types, TypeOK, PipeNow, workerVars, connVars, loadVars, netVars
<1>11. CASE RefreshFromInfo
  BY <1>1, <1>11, RefreshTypes, PipeGrows DEF RefreshFromInfo, Types, TypeOK, loadVars, viewVars, netVars
<1>12. CASE ToggleSearch
  BY <1>1, <1>12 DEF ToggleSearch, Types, TypeOK, PipeNow, workerVars, connVars, loadVars, viewVars
<1>13. CASE EditQuery
  <2>1. PICK q \in 0 .. Len(Matching) : RequestFilteredChains(q)
    BY <1>13, EditIsFilter
  <2> QED
    BY <1>1, <1>13, <2>1, FilterTypes, PipeGrows DEF EditQuery, Types, TypeOK, connVars, viewVars
<1>14. CASE SelectNetwork
  <2>1. Len(listed) \in Nat \ {0} /\ netRow \in Nat \cup {None}
    BY <1>14 DEF SelectNetwork, Types, TypeOK
  <2>2. netRow' \in Nat
    BY <1>14, <2>1 DEF SelectNetwork, Next1, Previous1
  <2> QED
    BY <1>1, <1>14, <2>2 DEF SelectNetwork, Types, TypeOK, PipeNow, workerVars, connVars, loadVars, viewVars
<1>15. CASE ReturnToMain
  BY <1>1, <1>15, ChainsAssumption
     DEF ReturnToMain, Types, TypeOK, PipeNow, workerVars, connVars, loadVars, viewVars
<1>16. CASE ConfirmNetwork
  <2>1. listed[netRow + 1] \in Chains
    BY <1>16, NetworkListed
  <2>2. Request("RefreshRpc", listed[netRow + 1], None, 0) \in Requests
    BY <2>1, RequestMade
  <2>3. reqs' \in Seq(Requests)
    BY <1>16, <2>2 DEF ConfirmNetwork, Send, Types, PipeNow, Pipe
  <2> QED
    BY <1>1, <1>16, <2>1, <2>3, PipeGrows, ChainsAssumption
       DEF ConfirmNetwork, Types, TypeOK, viewVars
<1>17. CASE Quit
  BY <1>1, <1>17 DEF Quit, Types, TypeOK, PipeNow, workerVars, connVars, loadVars, viewVars, netVars
<1> QED
  BY <1>2, <1>3, <1>4, <1>5, <1>6, <1>7, <1>8, <1>9, <1>10, <1>11, <1>12, <1>13, <1>14,
     <1>15, <1>16, <1>17 DEF Key

\* The answer that is handled, and the pipeline without it.
LEMMA HeadTypes ==
    ASSUME Types, responses # <<>>
    PROVE  /\ Head(responses) \in Answers
           /\ Pipe(reqs, active, Tail(responses))
BY HandlePipe DEF Types, PipeNow, Pipe, Keys

LEMMA AnswerTypes ==
    ASSUME NEW r \in Answers
    PROVE  /\ r.kind = "Error" \/ r.kind = r.req.key
           /\ r.req \in Requests /\ r.block \in Nat /\ r.txs \in Nat
           /\ r.req.key # "Error"
BY RequestKinds DEF Answers, Keys

LEMMA HandleTypes ==
    ASSUME Types, HandleResponse
    PROVE  Types'
<1> DEFINE r == Head(responses)
<1>1. /\ r \in Answers
      /\ reqs \in Seq(Requests)
      /\ Pipe(reqs, active, Tail(responses))
      /\ responses' = Tail(responses) /\ active' = active /\ mode' = mode /\ keys' = keys
  BY HeadTypes DEF HandleResponse, Types, PipeNow, Pipe
<1>2. /\ r.kind = "Error" \/ r.kind = r.req.key
      /\ r.req \in Requests /\ r.block \in Nat /\ r.txs \in Nat
  BY <1>1, AnswerTypes
<1>3. OnBlock(r) \/ OnChains(r) \/ OnChainInfo(r) \/ OnRpcRefreshed(r) \/ OnError(r)
  BY DEF HandleResponse
<1> HIDE DEF r
<1>4. ASSUME reqs' \in Seq(Requests) PROVE PipeNow'
  BY <1>1, <1>4 DEF PipeNow, Pipe
<1>5. CASE OnBlock(r)
  <2>1. r.req.chain \in Chains /\ r.req.n \in Nat
    BY <1>2, <1>5, RequestKinds DEF OnBlock
  <2>2. RowIn(r.txs) \in Nat \cup {None}
    BY <1>2 DEF RowIn, Types, TypeOK
  <2> QED
    BY <1>1, <1>2, <1>4, <1>5, <2>1, <2>2 DEF OnBlock, Types, TypeOK, connVars, netVars
<1>6. CASE OnChains(r)
  <2>1. Matching[r.req.what] \in Seq(Chains)
    <3>1. r.req.what \in DOMAIN Matching
      BY <1>2, <1>6, RequestKinds DEF OnChains
    <3> QED
      BY <3>1, ChainsAssumption
  <2>2. listed' \in Seq(Chains) /\ netRow' \in Nat
    BY <1>6, <2>1 DEF OnChains, Types
  <2> QED
    BY <1>1, <1>4, <1>6, <2>2 DEF OnChains, Types, TypeOK, connVars, viewVars, histVars
<1>7. CASE OnChainInfo(r)
  <2>1. r.req.chain \in Chains
    BY <1>2, <1>7, RequestKinds DEF OnChainInfo
  <2>2. reqs' \in Seq(Requests) /\ asked' \in Nat
    <3>1. CASE rpc # None
      <4>1. rpc \in Chains /\ asked + 1 \in Nat
        BY <3>1 DEF Types, TypeOK
      <4>2. Request("Block", rpc, Latest, asked + 1) \in Requests
        BY <4>1, RequestMade
      <4> QED
        BY <1>1, <1>7, <3>1, <4>1, <4>2 DEF OnChainInfo, Send
    <3>2. CASE rpc = None
      BY <1>1, <1>7, <3>2 DEF OnChainInfo, Types, TypeOK
    <3> QED
      BY <3>1, <3>2
  <2> QED
    BY <1>1, <1>4, <1>7, <2>1, <2>2 DEF OnChainInfo, Types, TypeOK, loadVars, viewVars, netVars
<1>8. CASE OnRpcRefreshed(r)
  <2>1. r.req.chain \in Chains
    BY <1>2, <1>8, RequestKinds DEF OnRpcRefreshed
  <2>2. reqs' \in Seq(Requests) /\ asked' \in Nat /\ loading' \in BOOLEAN
    <3>1. CASE chain # None
      <4>1. asked + 1 \in Nat
        BY DEF Types, TypeOK
      <4>2. Request("Block", r.req.chain, Latest, asked + 1) \in Requests
        BY <2>1, <4>1, RequestMade
      <4> QED
        BY <1>1, <1>8, <3>1, <4>1, <4>2 DEF OnRpcRefreshed, Send
    <3>2. CASE chain = None
      BY <1>1, <1>8, <3>2 DEF OnRpcRefreshed, Types, TypeOK
    <3> QED
      BY <3>1, <3>2
  <2> QED
    BY <1>1, <1>4, <1>8, <2>1, <2>2 DEF OnRpcRefreshed, Types, TypeOK, viewVars, netVars, histVars
<1>9. CASE OnError(r)
  <2>1. r.req.key = "Block" => r.req.chain \in Chains /\ r.req.n \in Nat
    BY <1>2, RequestKinds
  <2>2. shown' \in Chains \cup {None} /\ answered' \in Nat /\ astray' \in BOOLEAN
    BY <1>9, <2>1 DEF OnError, ErrorFor, Types, TypeOK
  <2> QED
    BY <1>1, <1>4, <1>9, <2>2 DEF OnError, Types, TypeOK, connVars, viewVars, netVars
<1> QED
  BY <1>3, <1>5, <1>6, <1>7, <1>8, <1>9

\* An answer is of its task's kind, or an error.
LEMMA RespondTypes ==
    ASSUME Types, NEW k \in Keys, active[k] # NoTask, NEW kind \in {k, "Error"},
           NEW block \in Nat, NEW n \in Nat, Respond(k, kind, block, n)
    PROVE  \E a \in Answers : /\ a.req = active[k]
                              /\ responses' = Append(responses, a)
                              /\ active' = [active EXCEPT ![k] = NoTask]
                              /\ reqs' = reqs
<1>1. active[k] \in Requests /\ active[k].key = k
  BY DEF Types, PipeNow, Pipe
<1>2. [kind |-> kind, req |-> active[k], block |-> block, txs |-> n] \in Answers
  BY <1>1 DEF Answers
<1> QED
  BY <1>2 DEF Respond

LEMMA TaskEndsTypes ==
    ASSUME Types, NEW k \in Keys, TaskEnds(k)
    PROVE  /\ active[k] # NoTask
           /\ \E a \in Answers : /\ a.req = active[k]
                                 /\ responses' = Append(responses, a)
                                 /\ active' = [active EXCEPT ![k] = NoTask]
                                 /\ reqs' = reqs
<1>1. CASE k = "Block" /\ BlockFetched
  <2>1. active[k] \in Requests /\ active[k].key = k
    BY <1>1 DEF BlockFetched, Types, PipeNow, Pipe
  <2>2. active[k].what \in Nat \cup {Latest}
    BY <1>1, <2>1, RequestKinds
  <2>3. PICK block \in Nat, n \in Nat : Respond(k, "Block", block, n)
    <3>1. PICK n \in 0 .. MaxTxs :
              IF active["Block"].what # Latest
              THEN Respond("Block", "Block", active["Block"].what, n)
              ELSE \E b \in Heads : Respond("Block", "Block", IF n = 0 THEN 0 ELSE b, n)
      BY <1>1 DEF BlockFetched
    <3>2. n \in Nat
      BY <3>1, WorkerAssumption
    <3>3. CASE active["Block"].what # Latest
      BY <1>1, <2>2, <3>1, <3>2, <3>3
    <3>4. CASE active["Block"].what = Latest
      <4>1. PICK b \in Heads : Respond("Block", "Block", IF n = 0 THEN 0 ELSE b, n)
        BY <3>1, <3>4
      <4>2. (IF n = 0 THEN 0 ELSE b) \in Nat
        BY <4>1, WorkerAssumption
      <4> QED
        BY <1>1, <3>2, <4>1, <4>2
    <3> QED
      BY <3>3, <3>4
  <2> QED
    BY <1>1, <2>3, RespondTypes DEF BlockFetched
<1>2. CASE Resolved(k)
  BY <1>2, RespondTypes DEF Resolved
<1>3. CASE TaskFails(k)
  BY <1>3, RespondTypes DEF TaskFails
<1> QED
  BY <1>1, <1>2, <1>3 DEF TaskEnds

LEMMA WorkerTypes ==
    ASSUME Types, Worker
    PROVE  Types'
<1>1. PipeNow'
  <2>1. Pipe(reqs, active, responses)
    BY DEF Types, PipeNow
  <2>2. CASE Receive
    BY <2>1, <2>2, ReceivePipe DEF Receive, Spawned, PipeNow, Keys
  <2>3. ASSUME NEW k \in Keys, TaskEnds(k)
        PROVE  PipeNow'
    <3>1. active[k] # NoTask
      BY <2>3, TaskEndsTypes
    <3>2. PICK a \in Answers : /\ a.req = active[k]
                               /\ responses' = Append(responses, a)
                               /\ active' = [active EXCEPT ![k] = NoTask]
                               /\ reqs' = reqs
      BY <2>3, TaskEndsTypes
    <3> QED
      BY <2>1, <3>1, <3>2, RespondPipe DEF PipeNow
  <2> QED
    BY <2>2, <2>3 DEF Worker
<1> QED
  BY <1>1 DEF Worker, WorkerOnly, Types, TypeOK, connVars, loadVars, viewVars, netVars, histVars

LEMMA TypesInit == Init => Types
<1> SUFFICES ASSUME Init PROVE Types
  OBVIOUS
<1>1. PICK start \in Starts, c \in Chains :
          /\ chain = IF "chain" \in start THEN c ELSE None
          /\ rpc = IF "url" \in start THEN c ELSE None
          /\ selected = ("chain" \in start /\ InDefault(c))
          /\ refreshing = (start = {"chain"})
          /\ mode = IF start = {} THEN "select" ELSE "main"
          /\ loading = (start # {})
          /\ listed = IF start = {} THEN DefaultChains ELSE <<>>
          /\ asked = (IF start = {"chain", "url"} THEN 1 ELSE 0)
  BY DEF Init
<1>2. /\ error = FALSE /\ current = None /\ shown = None /\ astray = FALSE /\ txs = 0
      /\ row = None /\ popup = "none" /\ txPopup = FALSE /\ query = 0 /\ search = FALSE
      /\ netRow = 0 /\ answered = 0 /\ keys = 0 /\ loadingBlock = None
  BY DEF Init
<1>3. FirstRequests(chain, rpc) \in Seq(Requests)
  <2>1. /\ Request("Block", c, Latest, 1) \in Requests
        /\ Request("ChainInfo", c, None, 0) \in Requests
        /\ Request("RefreshRpc", c, None, 0) \in Requests
    BY RequestMade
  <2>2. \A e \in Requests : <<e>> \in Seq(Requests)
    OBVIOUS
  <2> QED
    BY <1>1, <2>1, <2>2 DEF FirstRequests
<1>4. PipeNow
  <2>1. reqs = FirstRequests(chain, rpc) /\ active = [k \in Keys |-> NoTask] /\ responses = <<>>
    BY DEF Init, WorkerInit
  <2> QED
    BY <1>3, <2>1 DEF PipeNow, Pipe
<1>5. TypeOK
  <2>1. {selected, refreshing, loading, error, txPopup, search, astray} \subseteq BOOLEAN
    BY <1>1, <1>2
  <2>2. listed \in Seq(Chains)
    BY <1>1, ChainsAssumption
  <2>3. {chain, rpc, shown} \subseteq Chains \cup {None} /\ mode \in {"select", "main"}
    BY <1>1, <1>2
  <2>4. {txs, query, asked, answered, keys} \subseteq Nat
    BY <1>1, <1>2
  <2> QED
    BY <1>2, <2>1, <2>2, <2>3, <2>4 DEF TypeOK
<1> QED
  BY <1>2, <1>4, <1>5, ChainsAssumption DEF Types

LEMMA TypesStep == Types /\ [Next]_vars => Types'
<1>1. Types /\ UNCHANGED vars => Types'
  BY DEF Types, TypeOK, PipeNow, vars, workerVars, connVars, loadVars, viewVars, netVars, histVars
<1> QED
  BY <1>1, KeyTypes, HandleTypes, WorkerTypes DEF Next

\* The types hold for every number of chains, blocks and keys, whatever fails.
THEOREM TypesAlways == Spec => []TypeOK
<1>1. Spec => []Types
  BY TypesInit, TypesStep, PTL DEF Spec
<1>2. Types => TypeOK
  BY DEF Types
<1> QED
  BY <1>1, <1>2, PTL

-----------------------------------------------------------------------------
(* The inductive invariant.                                                *)

NoneOf(k) == Idle(k, reqs, active, responses)
IsLast(k, r) == Last(k, r, reqs, active, responses)

\* Somebody will end the loading: the chain of the first endpoint only does with
\* the endpoint, as it then asks for a block, and a new endpoint needs a chain.
LoadInv ==
    /\ ~NoneOf("RefreshRpc") => chain # None
    /\ loading => \/ ~NoneOf("Block") \/ ~NoneOf("Chains") \/ ~NoneOf("RefreshRpc")
                  \/ ~NoneOf("ChainInfo") /\ rpc # None

\* The last request for a block is the last one sent.
AskInv ==
    \/ \E r \in Requests : IsLast("Block", r) /\ r.n = asked
    \/ NoneOf("Block") /\ answered = asked

\* Once false it stays so: the app only looks up a chain when it starts.
Clean == ~astray /\ NoneOf("ChainInfo")

\* The last refresh is for the chain on display, or the endpoint is its.
RpcInv ==
    Clean => \/ \E r \in Requests : IsLast("RefreshRpc", r) /\ r.chain = chain
             \/ NoneOf("RefreshRpc") /\ rpc \in {None, chain}

\* With no refresh under way the last request for a block is for that endpoint,
\* or what is shown came from it.
ShownInv ==
    Clean /\ NoneOf("RefreshRpc") /\ rpc # None =>
        \/ \E r \in Requests : IsLast("Block", r) /\ r.chain = rpc
        \/ NoneOf("Block") /\ shown = rpc

AppInv == LoadInv /\ AskInv /\ RpcInv /\ ShownInv

-----------------------------------------------------------------------------
(* What a step may do to the pipeline, for the invariant.                  *)

PipeKept ==
    \A k \in Keys :
        /\ NoneOf(k)' <=> NoneOf(k)
        /\ \A r \in Requests : IsLast(k, r) => Last(k, r, reqs', active', responses')

PipeSent(e) ==
    /\ \A k \in Keys :
           /\ NoneOf(k)' <=> NoneOf(k) /\ e.key # k
           /\ \A r \in Requests : e.key # k /\ IsLast(k, r) => Last(k, r, reqs', active', responses')
    /\ Last(e.key, e, reqs', active', responses')

LEMMA SendIsSent ==
    ASSUME Types, NEW e \in Requests, Send(e), UNCHANGED <<active, responses>>
    PROVE  PipeSent(e)
<1>1. Pipe(reqs, active, responses)
  BY DEF Types, PipeNow
<1>2. e.key \in Keys /\ reqs' = Append(reqs, e) /\ active' = active /\ responses' = responses
  BY RequestKinds DEF Send
<1>3. \A k \in Keys :
          /\ Idle(k, Append(reqs, e), active, responses)
                 <=> Idle(k, reqs, active, responses) /\ e.key # k
          /\ \A r : e.key # k /\ Last(k, r, reqs, active, responses)
                 => Last(k, r, Append(reqs, e), active, responses)
          /\ Last(e.key, e, Append(reqs, e), active, responses)
  BY <1>1, SendPipe
<1> QED
  BY <1>2, <1>3 DEF PipeSent, NoneOf, IsLast

LEMMA WorkerKeeps ==
    ASSUME Types, Worker
    PROVE  PipeKept
<1>1. Pipe(reqs, active, responses)
  BY DEF Types, PipeNow
<1>2. CASE Receive
  BY <1>1, <1>2, ReceivePipe DEF Receive, Spawned, PipeKept, NoneOf, IsLast
<1>3. ASSUME NEW k \in Keys, TaskEnds(k)
      PROVE  PipeKept
  <2>1. active[k] # NoTask
    BY <1>3, TaskEndsTypes
  <2>2. PICK a \in Answers : /\ a.req = active[k]
                             /\ responses' = Append(responses, a)
                             /\ active' = [active EXCEPT ![k] = NoTask]
                             /\ reqs' = reqs
    BY <1>3, TaskEndsTypes
  <2> QED
    BY <1>1, <2>1, <2>2, RespondPipe DEF PipeKept, NoneOf, IsLast
<1> QED
  BY <1>2, <1>3 DEF Worker

LEMMA KeptStep ==
    ASSUME AppInv, PipeKept, UNCHANGED <<chain, rpc, loading, asked, histVars>>
    PROVE  AppInv'
<1>1. LoadInv'
  BY DEF AppInv, LoadInv, PipeKept, Keys
<1>2. AskInv'
  BY DEF AppInv, AskInv, PipeKept, Keys, IsLast, histVars
<1>3. RpcInv'
  BY DEF AppInv, RpcInv, PipeKept, Keys, IsLast, Clean, histVars
<1>4. ShownInv'
  BY DEF AppInv, ShownInv, PipeKept, Keys, IsLast, Clean, histVars
<1> QED
  BY <1>1, <1>2, <1>3, <1>4 DEF AppInv

LEMMA QuietStep ==
    ASSUME AppInv, UNCHANGED <<workerVars, chain, rpc, loading, asked, histVars>>
    PROVE  AppInv'
<1>1. PipeKept
  BY DEF PipeKept, NoneOf, IsLast, workerVars
<1> QED
  BY <1>1, KeptStep

\* A block is asked for from the endpoint.
LEMMA AskStep ==
    ASSUME Types, AppInv, NEW block \in Nat \cup {Latest}, Ask(block),
           UNCHANGED <<active, responses, chain, rpc, histVars>>
    PROVE  AppInv'
<1>1. CASE Ready
  <2> DEFINE e == Request("Block", rpc, block, asked + 1)
  <2>1. rpc \in Chains /\ asked + 1 \in Nat
    BY <1>1 DEF Types, TypeOK, Ready
  <2>2. /\ e \in Requests
        /\ e.key = "Block" /\ e.chain = rpc /\ e.n = asked + 1
    BY <2>1, RequestMade DEF Request
  <2>3. PipeSent(e) /\ asked' = asked + 1 /\ loading' = TRUE
    BY <1>1, <2>2, SendIsSent DEF Ask
  <2> HIDE DEF e
  <2>4. LoadInv'
    BY <2>2, <2>3 DEF AppInv, LoadInv, PipeSent, Keys
  <2>5. AskInv'
    BY <2>2, <2>3 DEF AskInv, PipeSent, Keys, IsLast
  <2>6. RpcInv'
    BY <2>2, <2>3 DEF AppInv, RpcInv, PipeSent, Keys, IsLast, Clean, histVars
  <2>7. ShownInv'
    BY <2>2, <2>3 DEF ShownInv, PipeSent, Keys, IsLast
  <2> QED
    BY <2>4, <2>5, <2>6, <2>7 DEF AppInv
<1>2. CASE ~Ready
  BY <1>2, QuietStep DEF Ask, workerVars
<1> QED
  BY <1>1, <1>2

\* A new endpoint is asked for, and the old one dropped (ConfirmNetwork) or not.
LEMMA RefreshStep ==
    ASSUME Types, AppInv, NEW c \in Chains, chain' = c, rpc' \in {None, rpc},
           Send(Request("RefreshRpc", c, None, 0)),
           UNCHANGED <<active, responses, asked, histVars>>,
           c # chain => rpc' = None
    PROVE  AppInv'
<1> DEFINE e == Request("RefreshRpc", c, None, 0)
<1>1. e \in Requests /\ e.key = "RefreshRpc" /\ e.chain = c
  BY RequestMade DEF Request
<1>2. PipeSent(e)
  BY <1>1, SendIsSent
<1> HIDE DEF e
<1>3. LoadInv'
  BY <1>1, <1>2, ChainsAssumption DEF LoadInv, PipeSent, Keys
<1>4. AskInv'
  BY <1>1, <1>2 DEF AppInv, AskInv, PipeSent, Keys, IsLast, histVars
<1>5. RpcInv'
  BY <1>1, <1>2 DEF RpcInv, PipeSent, Keys, IsLast
<1>6. ShownInv'
  BY <1>1, <1>2 DEF ShownInv, PipeSent, Keys
<1> QED
  BY <1>3, <1>4, <1>5, <1>6 DEF AppInv

LEMMA RequestRefreshStep ==
    ASSUME Types, AppInv, RequestRpcRefresh,
           UNCHANGED <<active, responses, chain, rpc, loading, asked, histVars>>
    PROVE  AppInv'
<1>1. CASE ~refreshing /\ chain # None
  <2>1. chain \in Chains
    BY <1>1 DEF Types, TypeOK
  <2> QED
    BY <1>1, <2>1, RefreshStep DEF RequestRpcRefresh
<1>2. CASE ~(~refreshing /\ chain # None)
  BY <1>2, QuietStep DEF RequestRpcRefresh, workerVars
<1> QED
  BY <1>1, <1>2

LEMMA EditStep ==
    ASSUME Types, AppInv, EditQuery, UNCHANGED histVars
    PROVE  AppInv'
<1>1. UNCHANGED <<active, responses, chain, rpc, asked, histVars>>
  BY DEF EditQuery, connVars
<1>2. ASSUME NEW q \in 0 .. Len(Matching), RequestFilteredChains(q)
      PROVE  AppInv'
  <2>1. CASE q = 0
    <3>1. PipeKept /\ loading' = FALSE
      BY <1>1, <1>2, <2>1 DEF RequestFilteredChains, PipeKept, NoneOf, IsLast
    <3>2. LoadInv'
      BY <1>1, <3>1 DEF AppInv, LoadInv, PipeKept, Keys
    <3>3. AskInv'
      BY <1>1, <3>1 DEF AppInv, AskInv, PipeKept, Keys, IsLast, histVars
    <3>4. RpcInv'
      BY <1>1, <3>1 DEF AppInv, RpcInv, PipeKept, Keys, IsLast, Clean, histVars
    <3>5. ShownInv'
      BY <1>1, <3>1 DEF AppInv, ShownInv, PipeKept, Keys, IsLast, Clean, histVars
    <3> QED
      BY <3>2, <3>3, <3>4, <3>5 DEF AppInv
  <2>2. CASE q # 0
    <3> DEFINE e == Request("Chains", None, q, 0)
    <3>1. q \in DOMAIN Matching
      BY <2>2, ChainsAssumption
    <3>2. e \in Requests /\ e.key = "Chains"
      BY <3>1 DEF Requests, Request
    <3>3. PipeSent(e)
      BY <1>1, <1>2, <2>2, <3>2, SendIsSent DEF RequestFilteredChains
    <3> HIDE DEF e
    <3>4. LoadInv'
      BY <1>1, <3>2, <3>3 DEF AppInv, LoadInv, PipeSent, Keys
    <3>5. AskInv'
      BY <1>1, <3>2, <3>3 DEF AppInv, AskInv, PipeSent, Keys, IsLast, histVars
    <3>6. RpcInv'
      BY <1>1, <3>2, <3>3 DEF AppInv, RpcInv, PipeSent, Keys, IsLast, Clean, histVars
    <3>7. ShownInv'
      BY <1>1, <3>2, <3>3 DEF AppInv, ShownInv, PipeSent, Keys, IsLast, Clean, histVars
    <3> QED
      BY <3>4, <3>5, <3>6, <3>7 DEF AppInv
  <2> QED
    BY <2>1, <2>2
<1>3. PICK q \in 0 .. Len(Matching) : RequestFilteredChains(q)
  BY EditIsFilter
<1> QED
  BY <1>2, <1>3

LEMMA KeyStep ==
    ASSUME Types, AppInv, Key
    PROVE  AppInv'
<1>1. UNCHANGED histVars
  BY DEF Key
<1>2. CASE DismissError
  BY <1>1, <1>2, QuietStep DEF DismissError, connVars
<1>3. CASE RefreshOnError
  BY <1>1, <1>3, RequestRefreshStep DEF RefreshOnError
<1>4. CASE OpenNetworks
  BY <1>1, <1>4, QuietStep DEF OpenNetworks, connVars, loadVars
<1>5. CASE Navigate
  <2>1. PICK block \in Nat : Ask(block)
    <3>1. EffectiveBlock \in Nat
      BY <1>5 DEF Navigate, EffectiveBlock, Types, TypeOK
    <3> QED
      BY <1>5, <3>1 DEF Navigate
  <2> QED
    BY <1>1, <1>5, <2>1, AskStep DEF Navigate, connVars
<1>6. CASE OpenPopup
  BY <1>1, <1>6, QuietStep DEF OpenPopup, connVars, loadVars
<1>7. CASE ToggleTxPopup
  BY <1>1, <1>7, QuietStep DEF ToggleTxPopup, connVars, loadVars
<1>8. CASE SelectRow
  BY <1>1, <1>8, QuietStep DEF SelectRow, connVars, loadVars
<1>9. CASE ConfirmInput
  <2>1. PICK block \in 0 .. MaxBlock \cup {Latest} : Ask(block)
    BY <1>9 DEF ConfirmInput
  <2>2. block \in Nat \cup {Latest}
    BY <2>1, MaxBlockAssumption
  <2> QED
    BY <1>1, <1>9, <2>1, <2>2, AskStep DEF ConfirmInput, connVars
<1>10. CASE ClosePopup
  BY <1>1, <1>10, QuietStep DEF ClosePopup, connVars, loadVars
<1>11. CASE RefreshFromInfo
  BY <1>1, <1>11, RequestRefreshStep DEF RefreshFromInfo, loadVars
<1>12. CASE ToggleSearch
  BY <1>1, <1>12, QuietStep DEF ToggleSearch, connVars, loadVars
<1>13. CASE EditQuery
  BY <1>1, <1>13, EditStep
<1>14. CASE SelectNetwork
  BY <1>1, <1>14, QuietStep DEF SelectNetwork, connVars, loadVars
<1>15. CASE ReturnToMain
  BY <1>1, <1>15, QuietStep DEF ReturnToMain, connVars, loadVars
<1>16. CASE ConfirmNetwork
  <2>1. listed[netRow + 1] \in Chains
    BY <1>16, NetworkListed
  <2> QED
    BY <1>1, <1>16, <2>1, RefreshStep DEF ConfirmNetwork
<1>17. CASE Quit
  BY <1>1, <1>17, QuietStep DEF Quit, connVars, loadVars
<1> QED
  BY <1>2, <1>3, <1>4, <1>5, <1>6, <1>7, <1>8, <1>9, <1>10, <1>11, <1>12, <1>13, <1>14,
     <1>15, <1>16, <1>17 DEF Key

-----------------------------------------------------------------------------
(* Answers: h is the request that is answered.                             *)

PipeTaken(h) ==
    \A k \in Keys :
        /\ NoneOf(k) <=> NoneOf(k)' /\ h.key # k
        /\ \A r \in Requests : IsLast(k, r) =>
               \/ Last(k, r, reqs', active', responses')
               \/ r = h /\ h.key = k /\ NoneOf(k)'

\* An answer is taken, and e is sent.
PipeTurned(h, e) ==
    /\ \A k \in Keys :
           /\ NoneOf(k)' => e.key # k
           /\ e.key # k =>
                  /\ NoneOf(k) <=> NoneOf(k)' /\ h.key # k
                  /\ \A r \in Requests : IsLast(k, r) =>
                         \/ Last(k, r, reqs', active', responses')
                         \/ r = h /\ h.key = k /\ NoneOf(k)'
    /\ Last(e.key, e, reqs', active', responses')

LEMMA TakenFacts ==
    ASSUME Types, responses # <<>>, responses' = Tail(responses), active' = active
    PROVE  /\ reqs' = reqs => PipeTaken(Head(responses).req)
           /\ \A e \in Requests : Send(e) => PipeTurned(Head(responses).req, e)
<1> DEFINE h == Head(responses).req
           rs == Tail(responses)
<1>1. Pipe(reqs, active, responses) /\ Pipe(reqs, active, rs)
  BY HeadTypes DEF Types, PipeNow
<1>2. \A k \in Keys :
          /\ Idle(k, reqs, active, responses) <=> Idle(k, reqs, active, rs) /\ h.key # k
          /\ \A r : Last(k, r, reqs, active, responses) =>
                 \/ Last(k, r, reqs, active, rs)
                 \/ r = h /\ r.key = k /\ Idle(k, reqs, active, rs)
  BY <1>1, HandlePipe
<1> HIDE DEF h, rs
<1>3. reqs' = reqs => PipeTaken(h)
  BY <1>2 DEF PipeTaken, NoneOf, IsLast, rs
<1>4. ASSUME NEW e \in Requests, Send(e)
      PROVE  PipeTurned(h, e)
  <2>1. e.key \in Keys /\ reqs' = Append(reqs, e)
    BY <1>4, RequestKinds DEF Send
  <2>2. \A k \in Keys :
            /\ Idle(k, Append(reqs, e), active, rs) <=> Idle(k, reqs, active, rs) /\ e.key # k
            /\ \A r : e.key # k /\ Last(k, r, reqs, active, rs)
                   => Last(k, r, Append(reqs, e), active, rs)
            /\ Last(e.key, e, Append(reqs, e), active, rs)
    BY <1>1, SendPipe
  <2> QED
    BY <1>2, <2>1, <2>2 DEF PipeTurned, NoneOf, IsLast, rs
<1> QED
  BY <1>3, <1>4 DEF h

\* The parts of the invariant for an answer after which nothing loads.
LEMMA TakenLoad ==
    ASSUME AppInv, NEW h, PipeTaken(h), loading' = FALSE, chain' = chain
    PROVE  LoadInv'
BY DEF AppInv, LoadInv, PipeTaken, Keys

\* A block, or an error in its place.
LEMMA TakenBlock ==
    ASSUME AppInv, NEW h, PipeTaken(h), h.key = "Block",
           shown' = h.chain, answered' = h.n,
           UNCHANGED <<chain, rpc, asked, astray>>
    PROVE  AskInv' /\ RpcInv' /\ ShownInv'
<1>1. AskInv'
  BY DEF AppInv, AskInv, PipeTaken, Keys, IsLast
<1>2. RpcInv'
  BY DEF AppInv, RpcInv, PipeTaken, Keys, IsLast, Clean
<1>3. ShownInv'
  BY DEF AppInv, ShownInv, PipeTaken, Keys, IsLast, Clean
<1> QED
  BY <1>1, <1>2, <1>3

\* Chains that match, or an error in their place.
LEMMA TakenChains ==
    ASSUME AppInv, NEW h, PipeTaken(h), h.key = "Chains",
           UNCHANGED <<chain, rpc, asked, histVars>>
    PROVE  AskInv' /\ RpcInv' /\ ShownInv'
<1>1. AskInv'
  BY DEF AppInv, AskInv, PipeTaken, Keys, IsLast, histVars
<1>2. RpcInv'
  BY DEF AppInv, RpcInv, PipeTaken, Keys, IsLast, Clean, histVars
<1>3. ShownInv'
  BY DEF AppInv, ShownInv, PipeTaken, Keys, IsLast, Clean, histVars
<1> QED
  BY <1>1, <1>2, <1>3

\* A chain or an endpoint that is not found.
LEMMA TakenAstray ==
    ASSUME AppInv, NEW h, PipeTaken(h), h.key \in {"ChainInfo", "RefreshRpc"},
           astray', UNCHANGED <<asked, answered>>
    PROVE  AskInv' /\ RpcInv' /\ ShownInv'
<1>1. AskInv'
  BY DEF AppInv, AskInv, PipeTaken, Keys, IsLast
<1>2. RpcInv' /\ ShownInv'
  BY DEF RpcInv, ShownInv, Clean
<1> QED
  BY <1>1, <1>2

LEMMA ChainInfoStep ==
    ASSUME Types, AppInv, responses # <<>>, responses' = Tail(responses), active' = active,
           OnChainInfo(Head(responses))
    PROVE  AppInv'
<1> DEFINE h == Head(responses).req
<1>1. h \in Requests /\ h.key = "ChainInfo" /\ chain' = h.chain /\ chain' # None
  <2>1. h \in Requests /\ h.key = "ChainInfo"
    BY HeadTypes, AnswerTypes DEF OnChainInfo
  <2>2. h.chain \in Chains
    BY <2>1, RequestKinds
  <2> QED
    BY <2>1, <2>2, ChainsAssumption DEF OnChainInfo
<1>2. UNCHANGED <<rpc, loading, shown, answered>> /\ astray'
  BY DEF OnChainInfo, loadVars
<1>3. RpcInv' /\ ShownInv'
  BY <1>2 DEF RpcInv, ShownInv, Clean
<1>4. CASE rpc # None
  <2> DEFINE e == Request("Block", rpc, Latest, asked + 1)
  <2>1. rpc \in Chains /\ asked + 1 \in Nat
    BY <1>4 DEF Types, TypeOK
  <2>2. e \in Requests /\ e.key = "Block" /\ e.n = asked + 1
    BY <2>1, RequestMade DEF Request
  <2>3. PipeTurned(h, e) /\ asked' = asked + 1
    BY <1>4, <2>2, TakenFacts DEF OnChainInfo
  <2> HIDE DEF h, e
  <2>4. LoadInv'
    BY <1>1, <2>2, <2>3 DEF LoadInv, PipeTurned, Keys
  <2>5. AskInv'
    BY <2>2, <2>3 DEF AskInv, PipeTurned, IsLast
  <2> QED
    BY <1>3, <2>4, <2>5 DEF AppInv
<1>5. CASE rpc = None
  <2>1. PipeTaken(h) /\ asked' = asked
    BY <1>5, TakenFacts DEF OnChainInfo
  <2> HIDE DEF h
  <2>2. LoadInv'
    BY <1>1, <1>2, <1>5, <2>1 DEF AppInv, LoadInv, PipeTaken, Keys
  <2>3. AskInv'
    BY <1>1, <1>2, <2>1, TakenAstray
  <2> QED
    BY <1>3, <2>2, <2>3 DEF AppInv
<1> QED
  BY <1>4, <1>5

LEMMA AnsweredIsPending ==
    ASSUME Types, responses # <<>>
    PROVE  ~NoneOf(Head(responses).req.key)
<1>1. responses \in Seq(Answers) /\ 1 \in DOMAIN responses /\ Head(responses) = responses[1]
  BY DEF Types, PipeNow, Pipe
<1> QED
  BY <1>1 DEF NoneOf, Idle, NoAns

LEMMA RefreshedStep ==
    ASSUME Types, AppInv, responses # <<>>, responses' = Tail(responses), active' = active,
           OnRpcRefreshed(Head(responses))
    PROVE  AppInv'
<1> DEFINE h == Head(responses).req
           e == Request("Block", h.chain, Latest, asked + 1)
<1>1. h \in Requests /\ h.key = "RefreshRpc" /\ rpc' = h.chain
  BY HeadTypes, AnswerTypes DEF OnRpcRefreshed
<1>2. h.chain \in Chains /\ asked + 1 \in Nat
  BY <1>1, RequestKinds DEF Types, TypeOK
<1>3. e \in Requests /\ e.key = "Block" /\ e.n = asked + 1 /\ e.chain = h.chain
  BY <1>2, RequestMade DEF Request
<1>4. UNCHANGED <<chain, histVars>>
  BY DEF OnRpcRefreshed
<1>5. chain # None
  <2>1. ~NoneOf("RefreshRpc")
    BY <1>1, AnsweredIsPending
  <2> QED
    BY <2>1 DEF AppInv, LoadInv
<1>6. PipeTurned(h, e) /\ asked' = asked + 1
  BY <1>3, <1>5, TakenFacts DEF OnRpcRefreshed
<1> HIDE DEF h, e
<1>7. LoadInv'
  BY <1>1, <1>3, <1>4, <1>5, <1>6 DEF LoadInv, PipeTurned, Keys
<1>8. AskInv'
  BY <1>3, <1>6 DEF AskInv, PipeTurned, IsLast
<1>9. RpcInv'
  BY <1>1, <1>3, <1>4, <1>6 DEF AppInv, RpcInv, PipeTurned, Keys, IsLast, Clean, histVars
<1>10. ShownInv'
  BY <1>1, <1>3, <1>6 DEF ShownInv, PipeTurned, IsLast
<1> QED
  BY <1>7, <1>8, <1>9, <1>10 DEF AppInv

LEMMA HandleStep ==
    ASSUME Types, AppInv, HandleResponse
    PROVE  AppInv'
<1> DEFINE a == Head(responses)
           h == a.req
<1>1. responses # <<>> /\ responses' = Tail(responses) /\ active' = active
  BY DEF HandleResponse
<1>2. OnBlock(a) \/ OnChains(a) \/ OnChainInfo(a) \/ OnRpcRefreshed(a) \/ OnError(a)
  BY DEF HandleResponse
<1>3. h \in Requests /\ (a.kind = "Error" \/ a.kind = h.key)
  BY <1>1, HeadTypes, AnswerTypes
<1>4. reqs' = reqs => PipeTaken(h)
  BY <1>1, TakenFacts
<1>5. CASE OnBlock(a)
  <2>1. h.key = "Block" /\ PipeTaken(h)
    BY <1>3, <1>4, <1>5 DEF OnBlock
  <2> QED
    BY <1>5, <2>1, TakenLoad, TakenBlock DEF OnBlock, AppInv, connVars
<1>6. CASE OnChains(a)
  <2>1. h.key = "Chains" /\ PipeTaken(h)
    BY <1>3, <1>4, <1>6 DEF OnChains
  <2> QED
    BY <1>6, <2>1, TakenLoad, TakenChains DEF OnChains, AppInv, connVars
<1>7. CASE OnChainInfo(a)
  BY <1>1, <1>7, ChainInfoStep
<1>8. CASE OnRpcRefreshed(a)
  BY <1>1, <1>8, RefreshedStep
<1>9. CASE OnError(a)
  <2>1. PipeTaken(h) /\ ErrorFor(h) /\ loading' = FALSE /\ UNCHANGED <<chain, rpc, asked>>
    BY <1>4, <1>9 DEF OnError, connVars
  <2>2. h.key \in Keys
    BY <1>3, RequestKinds
  <2>3. LoadInv'
    BY <2>1, TakenLoad
  <2> HIDE DEF h
  <2>4. CASE h.key = "Block"
    <3>1. astray \in BOOLEAN
      BY DEF Types, TypeOK
    <3>2. astray' = astray
      BY <2>1, <2>4, <3>1 DEF ErrorFor
    <3>3. shown' = h.chain /\ answered' = h.n
      BY <2>1, <2>4 DEF ErrorFor
    <3> QED
      BY <2>1, <2>3, <2>4, <3>2, <3>3, TakenBlock DEF AppInv
  <2>5. CASE h.key = "Chains"
    <3>1. astray \in BOOLEAN
      BY DEF Types, TypeOK
    <3>2. astray' = astray
      BY <2>1, <2>5, <3>1 DEF ErrorFor
    <3>3. shown' = shown /\ answered' = answered
      BY <2>1, <2>5 DEF ErrorFor
    <3> QED
      BY <2>1, <2>3, <2>5, <3>2, <3>3, TakenChains DEF AppInv, histVars
  <2>6. CASE h.key \in {"ChainInfo", "RefreshRpc"}
    <3>1. astray'
      BY <2>1, <2>6 DEF ErrorFor
    <3>2. answered' = answered
      BY <2>1, <2>6 DEF ErrorFor
    <3> QED
      BY <2>1, <2>3, <2>6, <3>1, <3>2, TakenAstray DEF AppInv
  <2> QED
    BY <2>2, <2>4, <2>5, <2>6 DEF Keys
<1> QED
  BY <1>2, <1>5, <1>6, <1>7, <1>8, <1>9

-----------------------------------------------------------------------------
(* Theorems.                                                               *)

LEMMA PendingIsNot ==
    ASSUME Types, NEW k \in Keys
    PROVE  Pending(k) <=> ~NoneOf(k)
BY DEF Pending, NoneOf, Idle, NoReq, NoAns

LEMMA InvInit == Init => AppInv
<1> SUFFICES ASSUME Init PROVE AppInv
  OBVIOUS
<1>1. PICK start \in Starts, c \in Chains :
          /\ chain = IF "chain" \in start THEN c ELSE None
          /\ rpc = IF "url" \in start THEN c ELSE None
          /\ loading = (start # {})
          /\ asked = (IF start = {"chain", "url"} THEN 1 ELSE 0)
  BY DEF Init
<1>2. astray = FALSE /\ shown = None /\ answered = 0
  BY DEF Init
<1>3. reqs = FirstRequests(chain, rpc) /\ active = [k \in Keys |-> NoTask] /\ responses = <<>>
  BY DEF Init, WorkerInit
<1>4. /\ \A k : NoAns(responses, k)
      /\ \A k \in Keys : active[k] = NoTask
  BY <1>3 DEF NoAns
<1>5. ASSUME reqs = <<>>
      PROVE  \A k \in Keys : NoneOf(k)
  BY <1>4, <1>5 DEF NoneOf, Idle, NoReq
<1>6. ASSUME NEW e \in Requests, reqs = <<e>>
      PROVE  /\ \A k \in Keys : NoneOf(k) <=> e.key # k
             /\ IsLast(e.key, e)
  <2>1. DOMAIN reqs = {1} /\ reqs[1] = e
    BY <1>6
  <2> QED
    BY <1>4, <2>1 DEF NoneOf, IsLast, Last, LastReq, Idle, NoReq
<1>7. start \subseteq {"chain", "url"}
  BY StartsAssumption
<1>8. CASE start = {}
  <2>1. chain = None /\ rpc = None /\ loading = FALSE /\ asked = 0 /\ reqs = <<>>
    BY <1>1, <1>3, <1>8 DEF FirstRequests
  <2> QED
    BY <1>2, <1>5, <2>1 DEF AppInv, LoadInv, AskInv, RpcInv, ShownInv, Keys
<1>9. CASE start = {"chain"}
  <2> DEFINE e == Request("RefreshRpc", c, None, 0)
  <2>1. chain = c /\ rpc = None /\ asked = 0 /\ c # None
    <3>1. "chain" \in start /\ "url" \notin start /\ start # {"chain", "url"}
      BY <1>9
    <3> QED
      BY <1>1, <3>1, ChainsAssumption
  <2>2. e \in Requests /\ e.key = "RefreshRpc" /\ e.chain = c
    BY RequestMade DEF Request
  <2>3. reqs = <<e>>
    BY <1>3, <2>1 DEF FirstRequests
  <2> HIDE DEF e
  <2> QED
    BY <1>2, <1>6, <2>1, <2>2, <2>3 DEF AppInv, LoadInv, AskInv, RpcInv, ShownInv, Keys
<1>10. CASE start = {"url"}
  <2> DEFINE e == Request("ChainInfo", c, None, 0)
  <2>1. chain = None /\ rpc = c /\ asked = 0 /\ c # None
    <3>1. "url" \in start /\ "chain" \notin start /\ start # {"chain", "url"}
      BY <1>10
    <3> QED
      BY <1>1, <3>1, ChainsAssumption
  <2>2. e \in Requests /\ e.key = "ChainInfo"
    BY RequestMade DEF Request
  <2>3. reqs = <<e>>
    BY <1>3, <2>1 DEF FirstRequests
  <2> HIDE DEF e
  <2> QED
    BY <1>2, <1>6, <2>1, <2>2, <2>3 DEF AppInv, LoadInv, AskInv, RpcInv, ShownInv, Clean, Keys
<1>11. CASE start = {"chain", "url"}
  <2> DEFINE e == Request("Block", c, Latest, 1)
  <2>1. chain = c /\ rpc = c /\ asked = 1 /\ c # None
    BY <1>1, <1>11, ChainsAssumption
  <2>2. e \in Requests /\ e.key = "Block" /\ e.chain = c /\ e.n = 1
    BY RequestMade DEF Request
  <2>3. reqs = <<e>>
    BY <1>3, <2>1 DEF FirstRequests
  <2> HIDE DEF e
  <2> QED
    BY <1>2, <1>6, <2>1, <2>2, <2>3 DEF AppInv, LoadInv, AskInv, RpcInv, ShownInv, Keys
<1> QED
  BY <1>7, <1>8, <1>9, <1>10, <1>11

LEMMA InvStep == Types /\ AppInv /\ [Next]_vars => AppInv'
<1>1. Types /\ AppInv /\ Worker => AppInv'
  BY WorkerKeeps, KeptStep DEF Worker, WorkerOnly, connVars, loadVars
<1>2. AppInv /\ UNCHANGED vars => AppInv'
  BY QuietStep DEF vars, connVars, loadVars
<1> QED
  BY <1>1, <1>2, KeyStep, HandleStep DEF Next

\* The selected row only moves with the items.
LEMMA RowStep == Types /\ RowInRange /\ [Next]_vars => RowInRange'
<1> SUFFICES ASSUME Types, RowInRange, [Next]_vars PROVE RowInRange'
  OBVIOUS
<1>1. ASSUME UNCHANGED <<row, txs>> PROVE RowInRange'
  BY <1>1 DEF RowInRange
<1>2. CASE Key
  <2>1. CASE SelectRow
    <3>1. txs \in Nat /\ txs > 0 /\ row \in Nat \cup {None} /\ txs' = txs
      BY <2>1 DEF SelectRow, Types, TypeOK
    <3> QED
      BY <2>1, <3>1 DEF SelectRow, RowInRange, Next1, Previous1
  <2>2. CASE ~SelectRow
    BY <1>1, <1>2, <2>2
       DEF Key, DismissError, RefreshOnError, OpenNetworks, Navigate, OpenPopup, ToggleTxPopup,
           ConfirmInput, ClosePopup, RefreshFromInfo, ToggleSearch, EditQuery, SelectNetwork,
           ReturnToMain, ConfirmNetwork, Quit, viewVars
  <2> QED
    BY <2>1, <2>2
<1>3. CASE HandleResponse
  <2> DEFINE a == Head(responses)
  <2>1. a.txs \in Nat
    BY <1>3, HeadTypes, AnswerTypes DEF HandleResponse
  <2>2. CASE OnBlock(a)
    <3>1. row \in Nat \cup {None} /\ txs' = a.txs /\ row' = RowIn(a.txs)
      BY <2>2 DEF OnBlock, Types, TypeOK
    <3> QED
      BY <2>1, <3>1 DEF RowIn, RowInRange
  <2>3. CASE ~OnBlock(a)
    BY <1>1, <1>3, <2>3 DEF HandleResponse, OnChains, OnChainInfo, OnRpcRefreshed, OnError, viewVars
  <2> QED
    BY <2>2, <2>3
<1>4. CASE Worker
  BY <1>1, <1>4 DEF Worker, WorkerOnly, viewVars
<1>5. CASE UNCHANGED vars
  BY <1>1, <1>5 DEF vars, viewVars
<1> QED
  BY <1>2, <1>3, <1>4, <1>5 DEF Next

LEMMA AppInvAlways == Spec => [](Types /\ AppInv /\ RowInRange)
<1>1. Init => Types /\ AppInv /\ RowInRange
  BY TypesInit, InvInit DEF Init, RowInRange
<1>2. Types /\ AppInv /\ RowInRange /\ [Next]_vars => (Types /\ AppInv /\ RowInRange)'
  BY TypesStep, InvStep, RowStep
<1> QED
  BY <1>1, <1>2, PTL DEF Spec

\* While the app says that it is loading a request is under way, for every order of
\* keys and answers and whatever is aborted or fails.
THEOREM LoadingAlwaysPending == Spec => []LoadingIsPending
<1>1. Types /\ AppInv => LoadingIsPending
  BY PendingIsNot DEF AppInv, LoadInv, LoadingIsPending, AtRest, Keys
<1> QED
  BY <1>1, AppInvAlways, PTL

\* With no request for a block left, the last one has been answered: the tasks that
\* were aborted and the answers that came late do not leave an older one behind.
THEOREM LastIsAnswered == Spec => []LastAskedIsAnswered
<1>1. Types /\ AppInv => LastAskedIsAnswered
  <2> SUFFICES ASSUME Types, AppInv, ~Pending("Block") PROVE answered = asked
    BY DEF LastAskedIsAnswered
  <2>1. NoneOf("Block")
    BY PendingIsNot DEF Keys
  <2>2. \A r : ~IsLast("Block", r)
    BY <2>1 DEF NoneOf, IsLast, Idle, Last, LastReq, LastAns, NoReq, NoAns
  <2> QED
    BY <2>2 DEF AppInv, AskInv
<1> QED
  BY <1>1, AppInvAlways, PTL

\* The row is one of the items, and the endpoint and the items end up those of the
\* chain on display, however often the network is changed.
THEOREM ScreenAlwaysAgrees == Spec => []ScreenAgrees
<1>1. Types /\ AppInv /\ RowInRange => ScreenAgrees
  <2> SUFFICES ASSUME Types, AppInv, AtRest, ~astray, rpc # None
               PROVE  rpc = chain /\ shown = chain
    BY DEF ScreenAgrees
  <2>1. NoneOf("Block") /\ NoneOf("RefreshRpc") /\ NoneOf("ChainInfo")
    BY PendingIsNot DEF AtRest, Keys
  <2>2. \A r : ~IsLast("Block", r) /\ ~IsLast("RefreshRpc", r)
    BY <2>1 DEF NoneOf, IsLast, Idle, Last, LastReq, LastAns, NoReq, NoAns
  <2> QED
    BY <2>1, <2>2 DEF AppInv, RpcInv, ShownInv, Clean
<1> QED
  BY <1>1, AppInvAlways, PTL

=============================================================================
