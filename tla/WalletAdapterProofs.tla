-------------------------- MODULE WalletAdapterProofs --------------------------
(***************************************************************************)
(* Proofs about WalletAdapter for every set of tabs and keys and every     *)
(* value of the bounds: the type invariant, the single use of deep-link    *)
(* answers by the tab that asked, the labels of signatures, and the        *)
(* agreement of an adapter's fields and its stored record.                 *)
(***************************************************************************)
EXTENDS WalletAdapter, TLAPS

-----------------------------------------------------------------------------
(* What the operators of the model return *)

\* The adapters the constructors of the model build are adapters.
LEMMA AdapterTypes ==
  /\ Blank \in Adapter
  /\ \A k \in Key, m \in Modes, s \in {"none", "wallet", "deeplink"},
        p \in BOOLEAN : ConnectedAs(k, m, s, p) \in Adapter
  /\ \A a \in Adapter : RecordOf(a) \in Record
  /\ NoRecord \in Record
  /\ NoResult \in SignResult
BY AdapterConstants DEF Result, NoResult, SignResult, Blank, Adapter, ConnectedAs, RecordOf, Record, NoRecord, Modes

\* A stored record names a key of the wallet or is NoRecord, so that what a
\* page restores is an adapter.
LEMMA RestoredType ==
  ASSUME store \in Record, NEW p \in BOOLEAN
  PROVE  Restored(p) \in Adapter
<1>1. CASE store = NoRecord
  BY <1>1, AdapterTypes DEF Restored
<1>2. CASE store # NoRecord /\ p
  BY <1>2 DEF Restored, ConnectedAs, Adapter, Record, Modes
<1>3. CASE store # NoRecord /\ ~p
  BY <1>3 DEF Restored, ConnectedAs, Adapter, Record, Modes
<1> QED BY <1>1, <1>2, <1>3

\* Changing the state field, or registering the provider, keeps an adapter.
LEMMA FieldTypes ==
  ASSUME NEW t \in Tab, adapter \in [Tab -> Adapter],
         NEW s \in {"disconnected", "connecting"}
  PROVE  /\ [adapter EXCEPT ![t].state = s] \in [Tab -> Adapter]
         /\ [adapter EXCEPT ![t].state = s, ![t].provider = TRUE]
              \in [Tab -> Adapter]
<1>1. adapter[t] \in Adapter
  OBVIOUS
<1>2. [adapter[t] EXCEPT !.state = s] \in Adapter
  BY <1>1 DEF Adapter
<1>3. [adapter[t] EXCEPT !.state = s, !.provider = TRUE] \in Adapter
  BY <1>1 DEF Adapter
<1>4. [adapter EXCEPT ![t].state = s]
        = [adapter EXCEPT ![t] = [adapter[t] EXCEPT !.state = s]]
  OBVIOUS
<1>5. [adapter EXCEPT ![t].state = s, ![t].provider = TRUE]
        = [adapter EXCEPT ![t] = [adapter[t] EXCEPT !.state = s,
                                                    !.provider = TRUE]]
  OBVIOUS
<1> QED BY <1>2, <1>3, <1>4, <1>5

\* The session records that a check leaves are request ids or 0.
LEMMA AfterTypes ==
  ASSUME TypeOK, NEW t \in Tab, NEW r
  PROVE  /\ ConnectAfter(t, r) \in [Tab -> 0..MaxRequests]
         /\ SignAfter(t, r) \in [Tab -> 0..MaxRequests]
<1>1. 0 \in 0..MaxRequests
  BY AdapterConstants
<1> QED BY <1>1 DEF TypeOK, ConnectAfter, SignAfter

\* Issuing a request appends a request and its id is in bounds.
LEMMA IssueType ==
  ASSUME TypeOK, NEW t \in Tab, NEW kind \in {"connect", "sign"},
         NEW k \in Key \cup {NoKey}, Issue(t, kind, k)
  PROVE  /\ issued' \in Seq(Request)
         /\ Len(issued') = Len(issued) + 1
         /\ Len(issued') <= MaxRequests
         /\ NextId \in 1..MaxRequests
         /\ \A r \in 1..Len(issued) : issued'[r] = issued[r]
         /\ issued'[NextId] = [tab |-> t, kind |-> kind, key |-> k, at |-> now]
<1>1. [tab |-> t, kind |-> kind, key |-> k, at |-> now] \in Request
  BY AdapterConstants DEF TypeOK, Request
<1> QED BY <1>1, AdapterConstants DEF Issue, NextId, TypeOK

\* What is broadcast is a message.
LEMMA MsgType ==
  ASSUME NEW r \in ReqId, NEW k \in Key \cup {NoKey},
         NEW type \in {"connectResult", "connectError",
                       "signResult", "signError"},
         NEW answer \in {"key", "badAddress", "sig", "badSig", "error"}
  PROVE  Msg(type, r, answer, k) \in Message
BY DEF Msg, Message

\* Broadcasting keeps the queues sets of messages.
LEMMA BroadcastType ==
  ASSUME TypeOK, NEW t \in Tab, NEW msgs \in SUBSET Message, Broadcast(t, msgs)
  PROVE  inbox' \in [Tab -> SUBSET Message]
BY DEF TypeOK, Broadcast

\* What the constructor leaves is of the right type.
PageTypes ==
  /\ open \in [Tab -> BOOLEAN]
  /\ present \in [Tab -> BOOLEAN]
  /\ listening \in [Tab -> BOOLEAN]
  /\ calls \in [Tab -> Nat]
  /\ leaving \in [Tab -> Nat]
  /\ adapter \in [Tab -> Adapter]
  /\ connPending \in [Tab -> 0..MaxRequests]
  /\ issued \in Seq(Request) /\ Len(issued) <= MaxRequests
  /\ now \in 0..MaxTime

\* The end of the constructor keeps the types.
LEMMA BootType ==
  ASSUME TypeOK, NEW t \in Tab, NEW p, NEW a \in Adapter,
         NEW pend \in [Tab -> 0..MaxRequests], Boot(t, p, a, pend)
  PROVE  PageTypes'
<1>0. p \in BOOLEAN /\ a.provider \in BOOLEAN
  BY DEF Boot, Adapter
<1>1. /\ open' \in [Tab -> BOOLEAN] /\ present' \in [Tab -> BOOLEAN]
      /\ leaving' \in [Tab -> Nat] /\ now' \in 0..MaxTime
  BY <1>0 DEF Boot, TypeOK
<1>2. CASE ~AutoConnect \/ a.state = "connected"
  <2>1. /\ adapter' = [adapter EXCEPT ![t] = a]
        /\ listening' = [listening EXCEPT ![t] = a.provider]
        /\ calls' = [calls EXCEPT ![t] = 0]
        /\ connPending' = pend /\ issued' = issued
    BY <1>2 DEF Boot
  <2> QED BY <1>0, <1>1, <2>1 DEF PageTypes, TypeOK
<1>3. CASE AutoConnect /\ a.state # "connected" /\ p
  <2>1. /\ adapter' = [adapter EXCEPT ![t] = [a EXCEPT !.state = "connecting",
                                                       !.provider = TRUE]]
        /\ listening' = [listening EXCEPT ![t] = TRUE]
        /\ calls' = [calls EXCEPT ![t] = 1]
        /\ connPending' = pend /\ issued' = issued
    BY <1>3 DEF Boot
  <2>2. [a EXCEPT !.state = "connecting", !.provider = TRUE] \in Adapter
    BY DEF Adapter
  <2> QED BY <1>1, <2>1, <2>2 DEF PageTypes, TypeOK
<1>4. CASE AutoConnect /\ a.state # "connected" /\ ~p
  <2>1. /\ adapter' = [adapter EXCEPT ![t] = [a EXCEPT !.state = "connecting"]]
        /\ listening' = [listening EXCEPT ![t] = FALSE]
        /\ calls' = [calls EXCEPT ![t] = 0]
        /\ connPending' = [pend EXCEPT ![t] = NextId]
    BY <1>4 DEF Boot
  <2>4. Issue(t, "connect", NoKey)
    BY <1>4 DEF Boot
  <2>2. [a EXCEPT !.state = "connecting"] \in Adapter
    BY DEF Adapter
  <2>3. NextId \in 0..MaxRequests /\ issued' \in Seq(Request)
        /\ Len(issued') <= MaxRequests
    <3>1. \A q \in 1..MaxRequests : q \in 0..MaxRequests
      BY AdapterConstants
    <3> QED BY <2>4, <3>1, IssueType
  <2> QED BY <1>1, <2>1, <2>2, <2>3 DEF PageTypes, TypeOK
<1> QED BY <1>2, <1>3, <1>4 DEF Boot

-----------------------------------------------------------------------------
(* Type correctness *)

\* The initial state has the types.
LEMMA InitType == Init => TypeOK
BY AdapterTypes, AdapterConstants DEF Init, TypeOK, ReqId

\* Page loads and callbacks keep the types.
LEMMA LoadType ==
  ASSUME TypeOK, NEW t \in Tab, Load(t)
  PROVE  TypeOK'
<1>0. \A q \in 1..Len(issued) : q \in ReqId /\ q \in 0..MaxRequests
  BY AdapterConstants DEF TypeOK, ReqId
<1>1. 0 \in 0..MaxRequests /\ NoResult \in SignResult
  BY AdapterConstants DEF NoResult, Result, SignResult
<1>2. ASSUME NEW p \in BOOLEAN, LoadPage(t, p)
      PROVE  TypeOK'
  <2>1. PageTypes'
    BY <1>2, BootType, RestoredType DEF LoadPage, TypeOK
  <2>2. inbox' \in [Tab -> SUBSET Message]
    BY <1>2, BroadcastType DEF LoadPage
  <2> QED BY <1>1, <1>2, <2>1, <2>2 DEF LoadPage, PageTypes, TypeOK
<1>3. ASSUME NEW p \in BOOLEAN, NEW r \in 1..Len(issued), NEW k \in Key,
             NEW answer, OwnConnectCallback(t, p, r, answer, k)
      PROVE  TypeOK'
  <2> DEFINE a == IF answer = "key"
                  THEN ConnectedAs(k, "deeplink", "deeplink", FALSE)
                  ELSE Blank
  <2>1. a \in Adapter
    BY AdapterTypes DEF Modes
  <2>2. Boot(t, p, a, ConnectAfter(t, r))
        /\ store' = IF answer = "key" THEN RecordOf(a) ELSE store
    BY <1>3 DEF OwnConnectCallback
  <2>3. PageTypes'
    BY <2>1, <2>2, BootType, AfterTypes
  <2>4. store' \in Record
    BY <2>1, <2>2, AdapterTypes DEF TypeOK
  <2>5. inbox' \in [Tab -> SUBSET Message]
    BY <1>3, BroadcastType DEF OwnConnectCallback
  <2>6. claims' \in [ReqId -> Nat]
    BY <1>0, <1>3 DEF OwnConnectCallback, Claim, TypeOK
  <2> QED BY <1>1, <1>3, <2>3, <2>4, <2>5, <2>6
          DEF OwnConnectCallback, PageTypes, TypeOK
<1>4. ASSUME NEW p \in BOOLEAN, NEW r \in 1..Len(issued), NEW k \in Key,
             NEW answer, ForwardConnectCallback(t, p, r, answer, k)
      PROVE  TypeOK'
  <2>1. PageTypes'
    BY <1>4, BootType, AfterTypes, AdapterTypes DEF ForwardConnectCallback
  <2>2. /\ answer \in {"key", "badAddress"} =>
             {Msg("connectResult", r, answer, k)} \in SUBSET Message
        /\ {Msg("connectError", r, "error", NoKey)} \in SUBSET Message
        /\ {} \in SUBSET Message
    BY <1>0, MsgType
  <2>3. inbox' \in [Tab -> SUBSET Message]
    BY <1>4, <2>2, BroadcastType DEF ForwardConnectCallback
  <2> QED BY <1>1, <1>4, <2>1, <2>3 DEF ForwardConnectCallback, PageTypes, TypeOK
<1>5. ASSUME NEW p \in BOOLEAN, NEW r \in 1..Len(issued), NEW answer,
             OwnSignCallback(t, p, r, answer)
      PROVE  TypeOK'
  <2>1. PageTypes'
    BY <1>5, BootType, RestoredType DEF OwnSignCallback, TypeOK
  <2>2. {Msg("signError", r, "error", NoKey)} \in SUBSET Message
        /\ {} \in SUBSET Message
    BY <1>0, MsgType
  <2>3. inbox' \in [Tab -> SUBSET Message]
    BY <1>5, <2>2, BroadcastType DEF OwnSignCallback
  <2>4. signPending' \in [Tab -> 0..MaxRequests]
    BY <1>5, AfterTypes DEF OwnSignCallback
  <2>5. claims' \in [ReqId -> Nat]
    BY <1>0, <1>5 DEF OwnSignCallback, Claim, TypeOK
  <2>6. Result(signPending[t], r) \in SignResult
    BY <1>0 DEF TypeOK, Result, SignResult
  <2>7. signResult' \in [Tab -> SignResult]
    BY <1>1, <1>5, <2>6 DEF OwnSignCallback, TypeOK
  <2> QED BY <1>5, <2>1, <2>3, <2>4, <2>5, <2>7
          DEF OwnSignCallback, PageTypes, TypeOK
<1>6. ASSUME NEW p \in BOOLEAN, NEW r \in 1..Len(issued), NEW answer,
             ForwardSignCallback(t, p, r, answer)
      PROVE  TypeOK'
  <2>1. PageTypes'
    BY <1>6, BootType, RestoredType DEF ForwardSignCallback, TypeOK
  <2>2. /\ answer \in {"sig", "badSig"} =>
             {Msg("signResult", r, answer, NoKey)} \in SUBSET Message
        /\ {Msg("signError", r, "error", NoKey)} \in SUBSET Message
    BY <1>0, MsgType
  <2>3. inbox' \in [Tab -> SUBSET Message]
    BY <1>6, <2>2, BroadcastType DEF ForwardSignCallback
  <2>4. signPending' \in [Tab -> 0..MaxRequests]
    BY <1>6, AfterTypes DEF ForwardSignCallback
  <2> QED BY <1>1, <1>6, <2>1, <2>3, <2>4
          DEF ForwardSignCallback, PageTypes, TypeOK
<1> QED BY <1>2, <1>3, <1>4, <1>5, <1>6 DEF Load

\* The calls of the application keep the types.
LEMMA UserType ==
  ASSUME TypeOK, NEW t \in Tab, User(t)
  PROVE  TypeOK'
<1>0. /\ 0 \in 0..MaxRequests /\ NoResult \in SignResult
      /\ \A q \in 1..MaxRequests : q \in 0..MaxRequests
  BY AdapterConstants DEF NoResult, Result, SignResult
<1>1. CASE CloseTab(t)
  BY <1>0, <1>1, AdapterTypes DEF CloseTab, TypeOK
<1>2. CASE ConnectViaProvider(t)
  <2>1. adapter' \in [Tab -> Adapter]
    BY <1>2, FieldTypes DEF ConnectViaProvider, TypeOK
  <2>2. calls' \in [Tab -> Nat] /\ listening' \in [Tab -> BOOLEAN]
    BY <1>2 DEF ConnectViaProvider, TypeOK
  <2> QED BY <1>2, <2>1, <2>2 DEF ConnectViaProvider, TypeOK, sessionVars
<1>3. CASE ConnectViaDeepLink(t)
  <2>1. NextId \in 0..MaxRequests /\ issued' \in Seq(Request)
        /\ Len(issued') <= MaxRequests
    BY <1>0, <1>3, IssueType DEF ConnectViaDeepLink
  <2>2. adapter' \in [Tab -> Adapter]
    BY <1>3, FieldTypes DEF ConnectViaDeepLink, TypeOK
  <2> QED BY <1>3, <2>1, <2>2 DEF ConnectViaDeepLink, TypeOK, pageVars
<1>4. CASE AskProviderToDisconnect(t)
  BY <1>4 DEF AskProviderToDisconnect, TypeOK, sessionVars
<1>5. CASE Disconnect(t)
  <2>1. leaving' \in [Tab -> Nat]
    <3>1. leaving[t] \in Nat /\ leaving \in [Tab -> Nat]
      BY DEF TypeOK
    <3>2. CASE UNCHANGED leaving
      BY <3>1, <3>2
    <3>3. CASE leaving[t] > 0 /\ leaving' = [leaving EXCEPT ![t] = @ - 1]
      BY <3>1, <3>3
    <3> QED BY <1>5, <3>2, <3>3 DEF Disconnect
  <2> QED BY <1>0, <1>5, <2>1, AdapterTypes
          DEF Disconnect, ClearPersistence, TypeOK
<1>6. CASE ConsumeSignResult(t)
  BY <1>0, <1>6 DEF ConsumeSignResult, TypeOK, pageVars, sessionVars
<1>7. ASSUME NEW k \in Key, ConnectManual(t, k)
      PROVE  TypeOK'
  <2> DEFINE a == ConnectedAs(k, "manual", "deeplink", adapter[t].provider)
  <2>1. a \in Adapter /\ RecordOf(a) \in Record
    BY AdapterTypes DEF TypeOK, Adapter, Modes
  <2> QED BY <1>7, <2>1 DEF ConnectManual, TypeOK, pageVars, sessionVars
<1>8. ASSUME NEW k \in Key, Sign(t, k)
      PROVE  TypeOK'
  <2>1. NextId \in 0..MaxRequests /\ issued' \in Seq(Request)
        /\ Len(issued') <= MaxRequests
    BY <1>0, <1>8, IssueType DEF Sign
  <2> QED BY <1>8, <2>1 DEF Sign, TypeOK, pageVars
<1> QED BY <1>1, <1>2, <1>3, <1>4, <1>5, <1>6, <1>7, <1>8 DEF User

\* The answers and events of the provider keep the types.
LEMMA WalletType ==
  ASSUME TypeOK, NEW t \in Tab, Wallet(t)
  PROVE  TypeOK'
<1>0. 0 \in 0..MaxRequests
  BY AdapterConstants
<1>1. CASE Inject(t)
  BY <1>1 DEF Inject, TypeOK, sessionVars
<1>2. CASE AccountsRejected(t)
  <2>1. calls' \in [Tab -> Nat]
    BY <1>2 DEF AccountsRejected, TypeOK
  <2>2. adapter' \in [Tab -> Adapter]
    BY <1>2, FieldTypes DEF AccountsRejected, TypeOK
  <2> QED BY <1>2, <2>1, <2>2 DEF AccountsRejected, TypeOK, sessionVars
<1>3. CASE ProviderDisconnect(t)
  <2>1. [Blank EXCEPT !.provider = adapter[t].provider] \in Adapter
    BY DEF TypeOK, Adapter, Blank, Modes
  <2> QED BY <1>0, <1>3, <2>1, AdapterTypes
          DEF ProviderDisconnect, ClearPersistence, TypeOK, pageVars
<1>4. ASSUME NEW k \in Key
      PROVE  /\ ConnectedAs(k, "embedded", "wallet", adapter[t].provider)
                  \in Adapter
             /\ [publicKey |-> k, mode |-> "embedded"] \in Record
  BY AdapterTypes DEF TypeOK, Adapter, Modes, Record
<1>5. ASSUME NEW k \in Key, AccountsResolved(t, k)
      PROVE  TypeOK'
  BY <1>4, <1>5 DEF AccountsResolved, TypeOK, sessionVars
<1>6. ASSUME NEW k \in Key, ProviderConnect(t, k)
      PROVE  TypeOK'
  BY <1>4, <1>6 DEF ProviderConnect, TypeOK, pageVars, sessionVars
<1> QED BY <1>1, <1>2, <1>3, <1>5, <1>6 DEF Wallet

\* Taking a broadcast message keeps the types.
LEMMA ReceiveType ==
  ASSUME TypeOK, NEW t \in Tab, Receive(t)
  PROVE  TypeOK'
<1>1. PICK m \in inbox[t] : ReceiveConnect(t, m) \/ ReceiveSign(t, m)
  BY DEF Receive
<1>2. m \in Message /\ m.id \in ReqId /\ m.id \in 0..MaxRequests
  BY DEF TypeOK, Message, ReqId
<1>3. CASE ReceiveConnect(t, m)
  <2>1. connPending' \in [Tab -> 0..MaxRequests]
    BY <1>3, AfterTypes DEF ReceiveConnect, TypeOK
  <2>2. claims' \in [ReqId -> Nat]
    BY <1>2, <1>3 DEF ReceiveConnect, Claim, TypeOK
  <2>3. adapter' \in [Tab -> Adapter] /\ store' \in Record
    <3>1. CASE UNCHANGED <<adapter, store>>
      BY <3>1 DEF TypeOK
    <3>2. CASE m.answer = "key" /\ ~UNCHANGED <<adapter, store>>
      <4> DEFINE a == ConnectedAs(m.key, "deeplink", "deeplink",
                                  adapter[t].provider)
      <4>1. adapter' = [adapter EXCEPT ![t] = a] /\ store' = RecordOf(a)
        BY <1>3, <3>2 DEF ReceiveConnect
      <4>2. a \in Adapter
        BY <1>2 DEF ConnectedAs, Adapter, Message, TypeOK, Modes
      <4> QED BY <4>1, <4>2, AdapterTypes DEF TypeOK
    <3> QED BY <1>3, <3>1, <3>2 DEF ReceiveConnect
  <2>4. inbox' \in [Tab -> SUBSET Message]
    BY <1>3 DEF ReceiveConnect, Take, TypeOK
  <2> QED BY <1>3, <2>1, <2>2, <2>3, <2>4 DEF ReceiveConnect, TypeOK, pageVars
<1>4. CASE ReceiveSign(t, m)
  <2>1. signPending' \in [Tab -> 0..MaxRequests]
    BY <1>4, AfterTypes DEF ReceiveSign
  <2>2. claims' \in [ReqId -> Nat]
    <3>1. CASE LiveSign(t, m.id)
      <4>1. claims' = [claims EXCEPT ![m.id] = @ + 1]
        BY <1>4, <3>1 DEF ReceiveSign, Claim
      <4> QED BY <1>2, <4>1 DEF TypeOK
    <3>2. CASE ~LiveSign(t, m.id)
      BY <1>4, <3>2 DEF ReceiveSign, TypeOK
    <3> QED BY <3>1, <3>2
  <2>3. Result(signPending[t], m.id) \in SignResult
    BY <1>2 DEF TypeOK, Result, SignResult
  <2>4. signResult' \in [Tab -> SignResult]
    BY <1>4, <2>3 DEF ReceiveSign, TypeOK
  <2>5. inbox' \in [Tab -> SUBSET Message]
    BY <1>4 DEF ReceiveSign, Take, TypeOK
  <2> QED BY <1>4, <2>1, <2>2, <2>4, <2>5 DEF ReceiveSign, TypeOK, pageVars
<1> QED BY <1>1, <1>3, <1>4

\* The adapter, the storage and the messages keep their types.
THEOREM TypeCorrect == Spec => []TypeOK
<1>1. Init => TypeOK
  BY InitType
<1>2. TypeOK /\ [Next]_vars => TypeOK'
  <2> SUFFICES ASSUME TypeOK, [Next]_vars PROVE TypeOK'
    OBVIOUS
  <2>1. ASSUME NEW t \in Tab, Load(t) \/ User(t) \/ Wallet(t) \/ Receive(t)
        PROVE  TypeOK'
    BY <2>1, LoadType, UserType, WalletType, ReceiveType
  <2>2. CASE Clock
    BY <2>2 DEF Clock, TypeOK, pageVars, sessionVars
  <2>3. CASE UNCHANGED vars
    BY <2>3 DEF vars, TypeOK, pageVars, sessionVars
  <2> QED BY <2>1, <2>2, <2>3 DEF Next
<1> QED BY <1>1, <1>2, PTL DEF Spec

-----------------------------------------------------------------------------
(* Single use of deep-link answers *)

\* Dropping the record of a tab leaves every other record as it was.
LEMMA DropKeeps ==
  ASSUME NEW pend, NEW kind, NEW iss, NEW cl, NEW t \in Tab,
         pend \in [Tab -> 0..MaxRequests], WaitsFor(pend, kind, iss, cl)
  PROVE  WaitsFor([pend EXCEPT ![t] = 0], kind, iss, cl)
BY DEF WaitsFor

\* The checks that consume a request only drop the record of their tab.
LEMMA AfterKeeps ==
  ASSUME TypeOK, RequestsOwned, NEW t \in Tab, NEW r
  PROVE  /\ WaitsFor(ConnectAfter(t, r), "connect", issued, claims)
         /\ WaitsFor(SignAfter(t, r), "sign", issued, claims)
BY DropKeeps DEF TypeOK, RequestsOwned, ConnectAfter, SignAfter

\* Accepting the answer of request r, whose record its tab drops in the same
\* step: nobody else waits for r.
LEMMA ClaimConnectKeeps ==
  ASSUME TypeOK, RequestsOwned, NEW t \in Tab, NEW r \in ReqId,
         LiveConnect(t, r), Claim(r)
  PROVE  /\ WaitsFor(ConnectAfter(t, r), "connect", issued, claims')
         /\ WaitsFor(signPending, "sign", issued, claims')
         /\ UsedOnce(issued, claims')
<1>1. /\ connPending[t] = r /\ r # 0
      /\ r \in 1..Len(issued) /\ issued[r].tab = t
      /\ issued[r].kind = "connect" /\ claims[r] = 0
  BY DEF RequestsOwned, WaitsFor, LiveConnect, ReqId
<1>2. ConnectAfter(t, r) = [connPending EXCEPT ![t] = 0]
  BY <1>1 DEF ConnectAfter
<1>3. claims' = [claims EXCEPT ![r] = 1]
  BY <1>1 DEF Claim
<1>4. \A u \in Tab : u # t => connPending[u] # r
  BY <1>1 DEF RequestsOwned, WaitsFor
<1>5. \A u \in Tab : signPending[u] # r
  BY <1>1 DEF RequestsOwned, WaitsFor
<1>6. WaitsFor(ConnectAfter(t, r), "connect", issued, claims')
  BY <1>2, <1>3, <1>4 DEF RequestsOwned, WaitsFor, TypeOK, ReqId
<1>7. WaitsFor(signPending, "sign", issued, claims')
  BY <1>3, <1>5 DEF RequestsOwned, WaitsFor, TypeOK, ReqId
<1>8. UsedOnce(issued, claims')
  BY <1>1, <1>3 DEF RequestsOwned, UsedOnce, TypeOK, ReqId
<1> QED BY <1>6, <1>7, <1>8

\* The same for a signing request.
LEMMA ClaimSignKeeps ==
  ASSUME TypeOK, RequestsOwned, NEW t \in Tab, NEW r \in ReqId,
         LiveSign(t, r), Claim(r)
  PROVE  /\ WaitsFor(connPending, "connect", issued, claims')
         /\ WaitsFor(SignAfter(t, r), "sign", issued, claims')
         /\ UsedOnce(issued, claims')
<1>1. /\ signPending[t] = r /\ r # 0 /\ SignTimeout > 0
      /\ r \in 1..Len(issued) /\ issued[r].tab = t
      /\ issued[r].kind = "sign" /\ claims[r] = 0
  BY DEF RequestsOwned, WaitsFor, LiveSign, ReqId
<1>2. SignAfter(t, r) = [signPending EXCEPT ![t] = 0]
  BY <1>1 DEF SignAfter
<1>3. claims' = [claims EXCEPT ![r] = 1]
  BY <1>1 DEF Claim
<1>4. \A u \in Tab : u # t => signPending[u] # r
  BY <1>1 DEF RequestsOwned, WaitsFor
<1>5. \A u \in Tab : connPending[u] # r
  BY <1>1 DEF RequestsOwned, WaitsFor
<1>6. WaitsFor(SignAfter(t, r), "sign", issued, claims')
  BY <1>2, <1>3, <1>4 DEF RequestsOwned, WaitsFor, TypeOK, ReqId
<1>7. WaitsFor(connPending, "connect", issued, claims')
  BY <1>3, <1>5 DEF RequestsOwned, WaitsFor, TypeOK, ReqId
<1>8. UsedOnce(issued, claims')
  BY <1>1, <1>3 DEF RequestsOwned, UsedOnce, TypeOK, ReqId
<1> QED BY <1>6, <1>7, <1>8

\* A new request is nobody's yet and unanswered.
LEMMA IssueKeeps ==
  ASSUME TypeOK, NEW t \in Tab, NEW kind \in {"connect", "sign"},
         NEW k \in Key \cup {NoKey}, Issue(t, kind, k),
         NEW pend \in [Tab -> 0..MaxRequests],
         NEW other \in [Tab -> 0..MaxRequests], NEW otherKind,
         NEW cl \in [ReqId -> Nat], UsedOnce(issued, cl),
         WaitsFor(pend, kind, issued, cl),
         WaitsFor(other, otherKind, issued, cl)
  PROVE  /\ WaitsFor([pend EXCEPT ![t] = NextId], kind, issued', cl)
         /\ WaitsFor(other, otherKind, issued', cl)
         /\ UsedOnce(issued', cl)
<1>1. /\ Len(issued') = Len(issued) + 1 /\ NextId = Len(issued) + 1
      /\ NextId \in 1..MaxRequests /\ Len(issued) \in Nat
      /\ \A r \in 1..Len(issued) : issued'[r] = issued[r]
      /\ issued'[NextId] = [tab |-> t, kind |-> kind, key |-> k, at |-> now]
  <2>1. Len(issued) \in Nat
    BY DEF TypeOK
  <2> QED BY <2>1, IssueType DEF NextId
<1>2. cl[NextId] = 0
  BY <1>1 DEF UsedOnce, ReqId
<1>3. /\ issued'[NextId].tab = t /\ issued'[NextId].kind = kind
  BY <1>1
<1>4. WaitsFor(other, otherKind, issued', cl)
  BY <1>1 DEF WaitsFor
<1>5. WaitsFor([pend EXCEPT ![t] = NextId], kind, issued', cl)
  <2> SUFFICES ASSUME NEW u \in Tab, [pend EXCEPT ![t] = NextId][u] # 0
               PROVE  LET q == [pend EXCEPT ![t] = NextId][u] IN
                      /\ q \in 1..Len(issued') /\ issued'[q].tab = u
                      /\ issued'[q].kind = kind /\ cl[q] = 0
    BY DEF WaitsFor
  <2>1. CASE u = t
    BY <1>1, <1>2, <1>3, <2>1
  <2>2. CASE u # t
    BY <1>1, <2>2 DEF WaitsFor
  <2> QED BY <2>1, <2>2
<1>6. UsedOnce(issued', cl)
  BY <1>1 DEF UsedOnce, ReqId
<1> QED BY <1>4, <1>5, <1>6

\* The end of the constructor, from what the redirect handling left.
LEMMA BootKeeps ==
  ASSUME TypeOK, NEW t \in Tab, NEW p, NEW a,
         NEW pend \in [Tab -> 0..MaxRequests], Boot(t, p, a, pend),
         signPending' \in [Tab -> 0..MaxRequests], claims' \in [ReqId -> Nat],
         WaitsFor(pend, "connect", issued, claims'),
         WaitsFor(signPending', "sign", issued, claims'),
         UsedOnce(issued, claims')
  PROVE  RequestsOwned'
<1>1. CASE connPending' = pend /\ issued' = issued
  BY <1>1 DEF RequestsOwned
<1>2. CASE connPending' = [pend EXCEPT ![t] = NextId]
           /\ Issue(t, "connect", NoKey)
  BY <1>2, IssueKeeps DEF RequestsOwned
<1> QED BY <1>1, <1>2 DEF Boot

\* Page loads and callbacks keep the ownership of requests.
LEMMA LoadKeeps ==
  ASSUME TypeOK, TypeOK', RequestsOwned, NEW t \in Tab, Load(t)
  PROVE  RequestsOwned'
<1>0. /\ WaitsFor(connPending, "connect", issued, claims)
      /\ WaitsFor(signPending, "sign", issued, claims)
      /\ UsedOnce(issued, claims)
      /\ connPending \in [Tab -> 0..MaxRequests]
      /\ signPending' \in [Tab -> 0..MaxRequests]
      /\ claims' \in [ReqId -> Nat]
  BY DEF RequestsOwned, TypeOK
<1>1. \A q \in 1..Len(issued) : q \in ReqId
  BY AdapterConstants DEF TypeOK, ReqId
<1>2. ASSUME NEW p \in BOOLEAN, LoadPage(t, p)
      PROVE  RequestsOwned'
  BY <1>0, <1>2, BootKeeps DEF LoadPage
<1>3. ASSUME NEW p \in BOOLEAN, NEW r \in 1..Len(issued), NEW k \in Key,
             NEW answer, OwnConnectCallback(t, p, r, answer, k)
      PROVE  RequestsOwned'
  <2>1. /\ LiveConnect(t, r) /\ Claim(r) /\ signPending' = signPending
        /\ \E a : Boot(t, p, a, ConnectAfter(t, r))
    BY <1>3 DEF OwnConnectCallback
  <2>2. /\ WaitsFor(ConnectAfter(t, r), "connect", issued, claims')
        /\ WaitsFor(signPending', "sign", issued, claims')
        /\ UsedOnce(issued, claims')
    BY <1>1, <2>1, ClaimConnectKeeps
  <2>3. ConnectAfter(t, r) \in [Tab -> 0..MaxRequests]
    BY AfterTypes
  <2> QED BY <1>0, <2>1, <2>2, <2>3, BootKeeps
<1>4. ASSUME NEW p \in BOOLEAN, NEW r \in 1..Len(issued), NEW k \in Key,
             NEW answer, ForwardConnectCallback(t, p, r, answer, k)
      PROVE  RequestsOwned'
  <2>1. /\ claims' = claims /\ signPending' = signPending
        /\ Boot(t, p, Blank, ConnectAfter(t, r))
    BY <1>4 DEF ForwardConnectCallback
  <2>2. /\ WaitsFor(ConnectAfter(t, r), "connect", issued, claims')
        /\ ConnectAfter(t, r) \in [Tab -> 0..MaxRequests]
    BY <2>1, AfterKeeps, AfterTypes
  <2> QED BY <1>0, <2>1, <2>2, BootKeeps
<1>5. ASSUME NEW p \in BOOLEAN, NEW r \in 1..Len(issued), NEW answer,
             OwnSignCallback(t, p, r, answer)
      PROVE  RequestsOwned'
  <2>1. /\ LiveSign(t, r) /\ Claim(r) /\ signPending' = SignAfter(t, r)
        /\ Boot(t, p, Restored(p), connPending)
    BY <1>5 DEF OwnSignCallback
  <2>2. /\ WaitsFor(connPending, "connect", issued, claims')
        /\ WaitsFor(signPending', "sign", issued, claims')
        /\ UsedOnce(issued, claims')
    BY <1>1, <2>1, ClaimSignKeeps
  <2> QED BY <1>0, <2>1, <2>2, BootKeeps
<1>6. ASSUME NEW p \in BOOLEAN, NEW r \in 1..Len(issued), NEW answer,
             ForwardSignCallback(t, p, r, answer)
      PROVE  RequestsOwned'
  <2>1. /\ claims' = claims /\ signPending' = SignAfter(t, r)
        /\ Boot(t, p, Restored(p), connPending)
    BY <1>6 DEF ForwardSignCallback
  <2>2. WaitsFor(signPending', "sign", issued, claims')
    BY <2>1, AfterKeeps
  <2> QED BY <1>0, <2>1, <2>2, BootKeeps
<1> QED BY <1>2, <1>3, <1>4, <1>5, <1>6 DEF Load

\* The application's calls keep it: a new request is the only new record.
LEMMA UserKeeps ==
  ASSUME TypeOK, RequestsOwned, NEW t \in Tab, User(t)
  PROVE  RequestsOwned'
<1>0. /\ WaitsFor(connPending, "connect", issued, claims)
      /\ WaitsFor(signPending, "sign", issued, claims)
      /\ UsedOnce(issued, claims)
      /\ connPending \in [Tab -> 0..MaxRequests]
      /\ signPending \in [Tab -> 0..MaxRequests]
      /\ claims \in [ReqId -> Nat]
  BY DEF RequestsOwned, TypeOK
<1>1. CASE UNCHANGED <<sessionVars, issued, claims>>
  BY <1>0, <1>1 DEF RequestsOwned, sessionVars
<1>2. CASE CloseTab(t)
  BY <1>0, <1>2, DropKeeps DEF CloseTab, RequestsOwned
<1>3. CASE Disconnect(t)
  BY <1>0, <1>3, DropKeeps DEF Disconnect, ClearPersistence, RequestsOwned
<1>4. CASE ConnectViaDeepLink(t)
  <2>1. /\ Issue(t, "connect", NoKey)
        /\ connPending' = [connPending EXCEPT ![t] = NextId]
        /\ signPending' = signPending /\ claims' = claims
    BY <1>4 DEF ConnectViaDeepLink
  <2> QED BY <1>0, <2>1, IssueKeeps DEF RequestsOwned
<1>5. ASSUME NEW k \in Key, Sign(t, k)
      PROVE  RequestsOwned'
  <2>1. /\ Issue(t, "sign", k)
        /\ signPending' = [signPending EXCEPT ![t] = NextId]
        /\ connPending' = connPending /\ claims' = claims
    BY <1>5 DEF Sign
  <2> QED BY <1>0, <2>1, IssueKeeps DEF RequestsOwned
<1> QED BY <1>1, <1>2, <1>3, <1>4, <1>5
        DEF User, ConnectViaProvider, AskProviderToDisconnect,
            ConsumeSignResult, ConnectManual

\* The provider touches no request; its disconnect only drops a record.
LEMMA WalletKeeps ==
  ASSUME TypeOK, RequestsOwned, NEW t \in Tab, Wallet(t)
  PROVE  RequestsOwned'
<1>1. CASE UNCHANGED <<sessionVars, issued, claims>>
  BY <1>1 DEF RequestsOwned, sessionVars
<1>2. CASE ProviderDisconnect(t)
  BY <1>2, DropKeeps
  DEF ProviderDisconnect, ClearPersistence, RequestsOwned, TypeOK
<1> QED BY <1>1, <1>2
        DEF Wallet, Inject, AccountsRejected, AccountsResolved, ProviderConnect

\* A forwarded answer is accepted by the tab that waits for it alone.
LEMMA ReceiveKeeps ==
  ASSUME TypeOK, RequestsOwned, NEW t \in Tab, Receive(t)
  PROVE  RequestsOwned'
<1>1. PICK m \in inbox[t] : ReceiveConnect(t, m) \/ ReceiveSign(t, m)
  BY DEF Receive
<1>2. m.id \in ReqId
  BY DEF TypeOK, Message
<1>3. CASE ReceiveConnect(t, m)
  <2>0. signPending' = signPending /\ issued' = issued
    BY <1>3 DEF ReceiveConnect
  <2>1. CASE UNCHANGED <<connPending, claims>>
    BY <2>0, <2>1 DEF RequestsOwned
  <2>2. CASE connPending' = ConnectAfter(t, m.id) /\ claims' = claims
    BY <2>0, <2>2, AfterKeeps DEF RequestsOwned
  <2>3. CASE /\ LiveConnect(t, m.id) /\ Claim(m.id)
             /\ connPending' = ConnectAfter(t, m.id)
    BY <1>2, <2>0, <2>3, ClaimConnectKeeps DEF RequestsOwned
  <2> QED BY <1>3, <2>1, <2>2, <2>3 DEF ReceiveConnect
<1>4. CASE ReceiveSign(t, m)
  <2>0. /\ connPending' = connPending /\ issued' = issued
        /\ signPending' = SignAfter(t, m.id)
    BY <1>4 DEF ReceiveSign
  <2>1. CASE ~LiveSign(t, m.id)
    <3>1. claims' = claims
      BY <1>4, <2>1 DEF ReceiveSign
    <3> QED BY <2>0, <3>1, AfterKeeps DEF RequestsOwned
  <2>2. CASE LiveSign(t, m.id)
    <3>1. Claim(m.id)
      BY <1>4, <2>2 DEF ReceiveSign
    <3> QED BY <1>2, <2>0, <2>2, <3>1, ClaimSignKeeps DEF RequestsOwned
  <2> QED BY <2>1, <2>2
<1> QED BY <1>1, <1>3, <1>4

\* Every request a tab waits for is its own and unanswered.
THEOREM Ownership == Spec => []RequestsOwned
<1>1. Init => RequestsOwned
  BY DEF Init, RequestsOwned, WaitsFor, UsedOnce, ReqId
<1>2. TypeOK /\ TypeOK' /\ RequestsOwned /\ [Next]_vars => RequestsOwned'
  <2> SUFFICES ASSUME TypeOK, TypeOK', RequestsOwned, [Next]_vars
               PROVE  RequestsOwned'
    OBVIOUS
  <2>1. ASSUME NEW t \in Tab, Load(t) \/ User(t) \/ Wallet(t) \/ Receive(t)
        PROVE  RequestsOwned'
    BY <2>1, LoadKeeps, UserKeeps, WalletKeeps, ReceiveKeeps
  <2>2. CASE Clock
    BY <2>2 DEF Clock, RequestsOwned, sessionVars
  <2>3. CASE UNCHANGED vars
    BY <2>3 DEF vars, RequestsOwned, sessionVars
  <2> QED BY <2>1, <2>2, <2>3 DEF Next
<1> QED BY <1>1, <1>2, TypeCorrect, PTL DEF Spec

\* No deep-link answer is accepted twice, whatever tabs its callback is
\* opened in and however it is forwarded.
THEOREM AnsweredOnce == Spec => []SingleUse
<1>1. RequestsOwned => SingleUse
  BY DEF RequestsOwned, UsedOnce, SingleUse
<1> QED BY <1>1, Ownership, PTL

-----------------------------------------------------------------------------
(* Who accepts an answer, and what a signature is labelled with *)

\* A request stays what it was when it was issued.
LEMMA IssuedKept ==
  ASSUME TypeOK, [Next]_vars
  PROVE  \A r \in 1..Len(issued) : r \in 1..Len(issued') /\ issued'[r] = issued[r]
<1>1. CASE issued' = issued
  BY <1>1
<1>2. ASSUME NEW t \in Tab, NEW kind \in {"connect", "sign"}, NEW k \in Key \cup {NoKey},
             Issue(t, kind, k)
      PROVE  \A r \in 1..Len(issued) : r \in 1..Len(issued') /\ issued'[r] = issued[r]
  <2>1. /\ Len(issued') = Len(issued) + 1
        /\ \A r \in 1..Len(issued) : issued'[r] = issued[r]
    BY <1>2, IssueType
  <2>2. Len(issued) \in Nat
    BY DEF TypeOK
  <2> QED BY <2>1, <2>2
<1>3. ASSUME NEW t \in Tab, NEW p, NEW a, NEW pend, Boot(t, p, a, pend)
      PROVE  issued' = issued \/ Issue(t, "connect", NoKey)
  BY <1>3 DEF Boot
<1>4. ASSUME NEW t \in Tab, Load(t) PROVE issued' = issued \/ Issue(t, "connect", NoKey)
  <2> DEFINE Booted == \E p, a, pend : Boot(t, p, a, pend)
  <2>1. ASSUME NEW p, LoadPage(t, p) PROVE Booted
    BY <2>1 DEF LoadPage
  <2>2. ASSUME NEW p, NEW r, NEW answer, NEW k, OwnConnectCallback(t, p, r, answer, k)
        PROVE  Booted
    BY <2>2 DEF OwnConnectCallback
  <2>3. ASSUME NEW p, NEW r, NEW answer, NEW k, ForwardConnectCallback(t, p, r, answer, k)
        PROVE  Booted
    BY <2>3 DEF ForwardConnectCallback
  <2>4. ASSUME NEW p, NEW r, NEW answer,
               OwnSignCallback(t, p, r, answer) \/ ForwardSignCallback(t, p, r, answer)
        PROVE  Booted
    BY <2>4 DEF OwnSignCallback, ForwardSignCallback
  <2> HIDE DEF Booted
  <2>5. Booted
    BY <1>4, <2>1, <2>2, <2>3, <2>4 DEF Load
  <2> QED BY <1>3, <2>5 DEF Booted
<1>5. ASSUME NEW t \in Tab, User(t)
      PROVE  \/ issued' = issued \/ Issue(t, "connect", NoKey)
             \/ \E k \in Key : Issue(t, "sign", k)
  BY <1>5 DEF User, CloseTab, ConnectViaProvider, ConnectViaDeepLink, AskProviderToDisconnect,
              Disconnect, ConsumeSignResult, ConnectManual, Sign
<1>6. ASSUME NEW t \in Tab, Wallet(t) \/ Receive(t) PROVE issued' = issued
  BY <1>6 DEF Wallet, Inject, AccountsRejected, ProviderDisconnect, AccountsResolved,
              ProviderConnect, Receive, ReceiveConnect, ReceiveSign
<1>7. Clock \/ UNCHANGED vars => issued' = issued
  BY DEF Clock, vars
<1> QED BY <1>1, <1>2, <1>4, <1>5, <1>6, <1>7 DEF Next

\* An answer is accepted where its request is waited for, and is waited for no longer.
Accepts(t, r) ==
  \/ LiveConnect(t, r) /\ connPending'[t] # r
  \/ LiveSign(t, r) /\ signPending'[t] # r

\* The checks that consume a live request drop its record.
LEMMA AfterDrops ==
  ASSUME TypeOK, NEW t \in Tab, NEW r
  PROVE  /\ LiveConnect(t, r) => ConnectAfter(t, r)[t] = 0
         /\ LiveSign(t, r) => SignAfter(t, r)[t] = 0
BY DEF TypeOK, LiveConnect, LiveSign, ConnectAfter, SignAfter

\* Nothing but the owner's acceptance counts as a use of an answer.
LEMMA ClaimsOfOwner ==
  ASSUME TypeOK, TypeOK', RequestsOwned, [Next]_vars, NEW r \in ReqId, claims'[r] # claims[r]
  PROVE  \E t \in Tab : Accepts(t, r)
<1>0. /\ \A s \in ReqId : Claim(s) => s = r
      /\ r # 0 /\ claims' # claims
  BY DEF Claim, TypeOK, ReqId
<1>1. ASSUME NEW t \in Tab, Load(t) PROVE Accepts(t, r)
  <2>0. Len(issued) \in Nat /\ \A q \in 1..Len(issued) : q \in ReqId
    <3>1. Len(issued) \in Nat /\ Len(issued) <= MaxRequests
      BY DEF TypeOK
    <3> QED BY <3>1, AdapterConstants DEF ReqId
  <2>1. ASSUME NEW p \in BOOLEAN, NEW s \in 1..Len(issued), NEW k \in Key, NEW answer,
               OwnConnectCallback(t, p, s, answer, k)
        PROVE  Accepts(t, r)
    <3>1. LiveConnect(t, s) /\ Claim(s) /\ \E a : Boot(t, p, a, ConnectAfter(t, s))
      BY <2>1 DEF OwnConnectCallback
    <3>2. s = r
      BY <1>0, <2>0, <3>1
    <3>3. ConnectAfter(t, r)[t] = 0 /\ ConnectAfter(t, r) \in [Tab -> 0..MaxRequests]
      BY <3>1, <3>2, AfterDrops, AfterTypes
    <3>4. connPending'[t] \in {0, NextId}
      BY <3>1, <3>2, <3>3 DEF Boot
    <3>5. NextId # r
      BY <2>0, <3>2 DEF NextId
    <3> QED BY <1>0, <3>1, <3>2, <3>4, <3>5 DEF Accepts
  <2>2. ASSUME NEW p \in BOOLEAN, NEW s \in 1..Len(issued), NEW answer,
               OwnSignCallback(t, p, s, answer)
        PROVE  Accepts(t, r)
    <3>1. LiveSign(t, s) /\ Claim(s) /\ signPending' = SignAfter(t, s)
      BY <2>2 DEF OwnSignCallback
    <3>2. s = r
      BY <1>0, <2>0, <3>1
    <3> QED BY <1>0, <3>1, <3>2, AfterDrops DEF Accepts
  <2> QED BY <1>0, <1>1, <2>1, <2>2
          DEF Load, LoadPage, ForwardConnectCallback, ForwardSignCallback
<1>2. ASSUME NEW t \in Tab, Receive(t) PROVE Accepts(t, r)
  <2>1. PICK m \in inbox[t] : ReceiveConnect(t, m) \/ ReceiveSign(t, m)
    BY <1>2 DEF Receive
  <2>2. m.id \in ReqId
    BY DEF TypeOK, Message
  <2>3. CASE ReceiveConnect(t, m)
    <3>1. LiveConnect(t, m.id) /\ Claim(m.id) /\ connPending' = ConnectAfter(t, m.id)
      BY <1>0, <2>3 DEF ReceiveConnect
    <3> QED BY <1>0, <2>2, <3>1, AfterDrops DEF Accepts
  <2>4. CASE ReceiveSign(t, m)
    <3>1. LiveSign(t, m.id) /\ Claim(m.id) /\ signPending' = SignAfter(t, m.id)
      BY <1>0, <2>4 DEF ReceiveSign
    <3> QED BY <1>0, <2>2, <3>1, AfterDrops DEF Accepts
  <2> QED BY <2>1, <2>3, <2>4
<1>3. ASSUME NEW t \in Tab, User(t) \/ Wallet(t) PROVE claims' = claims
  BY <1>3 DEF User, CloseTab, ConnectViaProvider, ConnectViaDeepLink, AskProviderToDisconnect,
              Disconnect, ConsumeSignResult, ConnectManual, Sign, Wallet, Inject,
              AccountsRejected, ProviderDisconnect, AccountsResolved, ProviderConnect
<1>4. Clock \/ UNCHANGED vars => claims' = claims
  BY DEF Clock, vars
<1> QED BY <1>0, <1>1, <1>2, <1>3, <1>4 DEF Next

\* Only the tab that issued a request accepts its answer, in time, and once it has it waits for
\* it no more (wallet-adapter.ts:524), for any number of tabs, requests and messages.
THEOREM OwnerClaims == Spec => ClaimedByOwner
<1>1. TypeOK /\ TypeOK' /\ RequestsOwned /\ [Next]_vars => [ByOwner]_vars
  <2> SUFFICES ASSUME TypeOK, TypeOK', RequestsOwned, [Next]_vars,
                      NEW r \in ReqId, claims'[r] # claims[r]
               PROVE  /\ r \in 1..Len(issued)
                      /\ LET t == issued[r].tab
                             pending == IF issued[r].kind = "sign" THEN signPending
                                                                   ELSE connPending
                         IN pending[t] = r /\ pending'[t] # r
                      /\ Age(r) <= (IF issued[r].kind = "sign" THEN SignTtl ELSE ConnectTtl)
                      /\ Age(r) >= -MaxSkew
    BY DEF ByOwner
  <2>0. r \in 1..Len(issued) => issued'[r] = issued[r]
    BY IssuedKept
  <2>1. PICK t \in Tab : Accepts(t, r)
    BY ClaimsOfOwner
  <2>2. r # 0
    BY DEF ReqId
  <2>3. CASE LiveConnect(t, r) /\ connPending'[t] # r
    <3>1. /\ r \in 1..Len(issued) /\ issued[r].tab = t /\ issued[r].kind = "connect"
          /\ connPending[t] = r /\ Age(r) <= ConnectTtl /\ Age(r) >= -MaxSkew
      BY <2>2, <2>3 DEF RequestsOwned, WaitsFor, LiveConnect, FreshConnect
    <3>2. issued[r].kind # "sign"
      BY <3>1
    <3> QED BY <2>0, <2>3, <3>1, <3>2
  <2>4. CASE LiveSign(t, r) /\ signPending'[t] # r
    <3>1. /\ r \in 1..Len(issued) /\ issued[r].tab = t /\ issued[r].kind = "sign"
          /\ signPending[t] = r /\ Age(r) <= SignTtl /\ Age(r) >= -MaxSkew
      BY <2>2, <2>4 DEF RequestsOwned, WaitsFor, LiveSign, FreshSign
    <3> QED BY <2>0, <2>4, <3>1
  <2> QED BY <2>1, <2>3, <2>4 DEF Accepts
<1> QED BY <1>1, TypeCorrect, Ownership, PTL DEF Spec, ClaimedByOwner

\* What a signature is labelled with was issued before.
SignedIssued ==
  \A t \in Tab : signResult[t] # NoResult => signResult[t].label \in 1..Len(issued)

\* A signature is dropped, kept, or that of the request its tab waits for.
LEMMA SignResultMoves ==
  ASSUME TypeOK, [Next]_vars, NEW u \in Tab
  PROVE  \/ signResult'[u] \in {NoResult, signResult[u]}
         \/ \E r \in ReqId : LiveSign(u, r) /\ signResult'[u] = Result(r, r)
<1> DEFINE Moved ==
      \/ signResult'[u] \in {NoResult, signResult[u]}
      \/ \E r \in ReqId : LiveSign(u, r) /\ signResult'[u] = Result(r, r)
<1> USE DEF TypeOK
<1>1. CASE signResult' = signResult
  BY <1>1
<1>2. ASSUME NEW t \in Tab, signResult' = [signResult EXCEPT ![t] = NoResult]
      PROVE  Moved
  BY <1>2
<1>3. ASSUME NEW t \in Tab, NEW r \in ReqId, LiveSign(t, r),
             signResult' = [signResult EXCEPT ![t] = Result(signPending[t], r)]
      PROVE  Moved
  <2>1. signPending[t] = r
    BY <1>3 DEF LiveSign
  <2> QED BY <1>3, <2>1
<1>4. ASSUME NEW t \in Tab, Load(t) PROVE Moved
  <2>0. \A q \in 1..Len(issued) : q \in ReqId
    BY AdapterConstants DEF ReqId
  <2>1. ASSUME NEW p \in BOOLEAN, NEW s \in 1..Len(issued), NEW answer,
               OwnSignCallback(t, p, s, answer)
        PROVE  Moved
    BY <1>2, <1>3, <2>0, <2>1 DEF OwnSignCallback
  <2>2. ASSUME NEW p \in BOOLEAN, LoadPage(t, p) PROVE Moved
    BY <1>2, <2>2 DEF LoadPage
  <2>3. ASSUME NEW p \in BOOLEAN, NEW s \in 1..Len(issued), NEW answer, NEW k,
               OwnConnectCallback(t, p, s, answer, k) \/ ForwardConnectCallback(t, p, s, answer, k)
        PROVE  Moved
    <3>1. signResult' = [signResult EXCEPT ![t] = NoResult]
      BY <2>3, Zenon DEF OwnConnectCallback, ForwardConnectCallback
    <3> QED BY <1>2, <3>1
  <2>4. ASSUME NEW p \in BOOLEAN, NEW s \in 1..Len(issued), NEW answer,
               ForwardSignCallback(t, p, s, answer)
        PROVE  Moved
    BY <1>2, <2>4 DEF ForwardSignCallback
  <2> HIDE DEF Moved, TypeOK
  <2> QED BY <1>4, <2>1, <2>2, <2>3, <2>4, Zenon DEF Load
<1>5. ASSUME NEW t \in Tab, User(t) \/ Wallet(t) PROVE Moved
  BY <1>1, <1>2, <1>5
     DEF User, CloseTab, ConnectViaProvider, ConnectViaDeepLink, AskProviderToDisconnect,
         Disconnect, ConsumeSignResult, ConnectManual, Sign, Wallet, Inject,
         AccountsRejected, ProviderDisconnect, AccountsResolved, ProviderConnect
<1>6. ASSUME NEW t \in Tab, Receive(t) PROVE Moved
  <2>1. PICK m \in inbox[t] : ReceiveConnect(t, m) \/ ReceiveSign(t, m)
    BY <1>6 DEF Receive
  <2>2. m.id \in ReqId
    BY DEF Message
  <2> QED BY <1>1, <1>3, <2>1, <2>2 DEF ReceiveConnect, ReceiveSign
<1>7. ASSUME Clock \/ UNCHANGED vars PROVE Moved
  <2>1. signResult' = signResult
    BY <1>7 DEF Clock, vars
  <2> QED BY <1>1, <2>1
<1> HIDE DEF Moved
<1>8. Moved
  BY <1>4, <1>5, <1>6, <1>7 DEF Next
<1> QED BY <1>8 DEF Moved

\* A signature that is handed out is the wallet's for the request it is labelled with, and that
\* request its tab's own, whatever was overwritten, replayed or forwarded (wallet-adapter.ts:561).
THEOREM SignaturesLabelled == Spec => []SignatureOfRequest
<1> DEFINE Inv == SignatureOfRequest /\ SignedIssued
<1>1. Init => Inv
  BY DEF Init, SignatureOfRequest, SignedIssued
<1>2. TypeOK /\ RequestsOwned /\ Inv /\ [Next]_vars => Inv'
  <2> SUFFICES ASSUME TypeOK, RequestsOwned, Inv, [Next]_vars,
                      NEW u \in Tab, signResult'[u] # NoResult
               PROVE  /\ signResult'[u].label = signResult'[u].signed
                      /\ signResult'[u].label \in 1..Len(issued')
                      /\ issued'[signResult'[u].label].kind = "sign"
                      /\ issued'[signResult'[u].label].tab = u
    BY DEF SignatureOfRequest, SignedIssued
  <2>1. CASE signResult'[u] = signResult[u]
    BY <2>1, IssuedKept DEF SignatureOfRequest, SignedIssued
  <2>2. ASSUME NEW r \in ReqId, LiveSign(u, r), signResult'[u] = Result(r, r)
        PROVE  /\ signResult'[u].label = r /\ signResult'[u].signed = r
               /\ r \in 1..Len(issued')
               /\ issued'[r].kind = "sign" /\ issued'[r].tab = u
    <3>1. r \in 1..Len(issued) /\ issued[r].kind = "sign" /\ issued[r].tab = u
      BY <2>2 DEF RequestsOwned, WaitsFor, LiveSign, ReqId
    <3> QED BY <2>2, <3>1, IssuedKept DEF Result
  <2> QED BY <2>1, <2>2, SignResultMoves
<1> QED BY <1>1, <1>2, TypeCorrect, Ownership, PTL DEF Spec

-----------------------------------------------------------------------------
(* An adapter of one mind, and of one with its record *)

\* The fields of one adapter are in step.
Agrees(a) ==
  /\ a.state = "connected" => a.publicKey # NoKey
  /\ a.signerKey = a.publicKey
  /\ (a.signer = "none") <=> (a.publicKey = NoKey)
  /\ (a.mode = "none") <=> (a.publicKey = NoKey)
  /\ (a.mode = "embedded") <=> (a.signer = "wallet")

\* What the record and the messages carry is a key, under a mode.
StoreSound == store # NoRecord => store.publicKey \in Key /\ store.mode # "none"

KeysSent == \A t \in Tab : \A m \in inbox[t] : m.answer = "key" => m.key \in Key

\* The inductive invariant of EmbeddedSound.
OneMind ==
  /\ \A t \in Tab : Agrees(adapter[t])
  /\ StoreSound
  /\ KeysSent
  /\ ReloadKeepsConnection

\* The constructors of the model build adapters of one mind; the state field of a connecting
\* or rejected adapter does not matter to it.
LEMMA ConstructorsAgree ==
  /\ Agrees(Blank) /\ Blank.publicKey = NoKey
  /\ \A p : /\ Agrees([Blank EXCEPT !.provider = p])
            /\ [Blank EXCEPT !.provider = p].publicKey = NoKey
BY AdapterConstants DEF Agrees, Blank

\* A connected adapter is of one mind when its signer fits its mode.
LEMMA ConnectedAgrees ==
  /\ \A p : \A k \in Key, m \in {"deeplink", "manual"} :
       Agrees(ConnectedAs(k, m, "deeplink", p))
  /\ \A p : \A k \in Key : Agrees(ConnectedAs(k, "embedded", "wallet", p))
  /\ \A k, m, s, p : /\ ConnectedAs(k, m, s, p).publicKey = k
                     /\ RecordOf(ConnectedAs(k, m, s, p)) = [publicKey |-> k, mode |-> m]
BY AdapterConstants DEF Agrees, ConnectedAs, RecordOf

\* Leaving the connected state, or registering the provider, keeps an adapter of one mind.
LEMMA StateAgrees ==
  ASSUME NEW a \in Adapter, Agrees(a), NEW s \in {"disconnected", "connecting"}
  PROVE  /\ Agrees([a EXCEPT !.state = s]) /\ [a EXCEPT !.state = s].publicKey = a.publicKey
         /\ Agrees([a EXCEPT !.state = s, !.provider = TRUE])
         /\ [a EXCEPT !.state = s, !.provider = TRUE].publicKey = a.publicKey
BY DEF Agrees, Adapter

\* What a page restores is of one mind, and shows the key of the record.
LEMMA RestoredAgrees ==
  ASSUME TypeOK, StoreSound, NEW p \in BOOLEAN
  PROVE  /\ Agrees(Restored(p))
         /\ Restored(p).publicKey # NoKey => store.publicKey = Restored(p).publicKey
<1>1. CASE store = NoRecord
  BY <1>1, ConstructorsAgree DEF Restored
<1>2. CASE store # NoRecord
  <2>1. store.publicKey \in Key /\ store.mode \in {"embedded", "deeplink", "manual"}
    BY <1>2 DEF StoreSound, TypeOK, Record, Modes
  <2> DEFINE a == Restored(p)
  <2>2. /\ a.publicKey = store.publicKey /\ a.signerKey = store.publicKey
        /\ a.signer # "none" /\ a.mode # "none" /\ (a.mode = "embedded" <=> a.signer = "wallet")
    <3>1. CASE p
      BY <1>2, <3>1 DEF Restored, ConnectedAs
    <3>2. CASE ~p
      BY <1>2, <2>1, <3>2 DEF Restored, ConnectedAs
    <3> QED BY <3>1, <3>2
  <2> HIDE DEF a
  <2>3. Agrees(a) /\ a.publicKey = store.publicKey
    BY <2>1, <2>2, AdapterConstants DEF Agrees
  <2> QED BY <2>3 DEF a
<1> QED BY <1>1, <1>2

\* Replacing the adapter of one tab by one of one mind, whose key the record names.
LEMMA Replaced ==
  ASSUME TypeOK, OneMind, NEW t \in Tab, NEW a, adapter' = [adapter EXCEPT ![t] = a],
         Agrees(a), a.publicKey # NoKey => store'.publicKey = a.publicKey,
         StoreSound', KeysSent'
  PROVE  OneMind'
<1>1. \A u \in Tab : adapter'[u] = IF u = t THEN a ELSE adapter[u]
  BY DEF TypeOK
<1>2. \A u \in Tab : Agrees(adapter'[u])
  BY <1>1 DEF OneMind
<1>3. ReloadKeepsConnection'
  BY <1>1 DEF ReloadKeepsConnection
<1>4. (\A u \in Tab : Agrees(adapter[u]))'
  BY <1>2 DEF Agrees
<1> QED BY <1>3, <1>4 DEF OneMind

\* The end of the constructor connects at most the state field.
LEMMA BootAgrees ==
  ASSUME NEW t \in Tab, NEW p, NEW a \in Adapter, NEW pend, Boot(t, p, a, pend), Agrees(a)
  PROVE  \E b : /\ adapter' = [adapter EXCEPT ![t] = b]
                /\ Agrees(b) /\ b.publicKey = a.publicKey
<1>1. CASE adapter' = [adapter EXCEPT ![t] = a]
  BY <1>1
<1>2. CASE adapter' = [adapter EXCEPT ![t] = [a EXCEPT !.state = "connecting",
                                                       !.provider = TRUE]]
  BY <1>2, StateAgrees
<1>3. CASE adapter' = [adapter EXCEPT ![t] = [a EXCEPT !.state = "connecting"]]
  BY <1>3, StateAgrees
<1> QED BY <1>1, <1>2, <1>3 DEF Boot

\* A broadcast carries a key when it says so.
LEMMA KeysBroadcast ==
  ASSUME KeysSent, NEW t \in Tab, NEW msgs, Broadcast(t, msgs),
         \A m \in msgs : m.answer = "key" => m.key \in Key
  PROVE  KeysSent'
BY DEF KeysSent, Broadcast

\* Page loads and callbacks keep it.
LEMMA LoadAgrees ==
  ASSUME TypeOK, OneMind, NEW t \in Tab, Load(t)
  PROVE  OneMind'
<1>0. StoreSound /\ KeysSent
  BY DEF OneMind
<1>1. ASSUME NEW p \in BOOLEAN, Boot(t, p, Restored(p), connPending),
             store' = store, KeysSent'
      PROVE  OneMind'
  <2>1. Restored(p) \in Adapter
    BY RestoredType DEF TypeOK
  <2>2. PICK b : /\ adapter' = [adapter EXCEPT ![t] = b]
                 /\ Agrees(b) /\ b.publicKey = Restored(p).publicKey
    BY <1>0, <1>1, <2>1, BootAgrees, RestoredAgrees
  <2>3. StoreSound'
    BY <1>0, <1>1 DEF StoreSound
  <2>4. b.publicKey # NoKey => store'.publicKey = b.publicKey
    BY <1>0, <1>1, <2>2, RestoredAgrees
  <2> QED BY <1>1, <2>2, <2>3, <2>4, Replaced
<1>2. ASSUME NEW p, NEW pend, Boot(t, p, Blank, pend), store' = store, KeysSent'
      PROVE  OneMind'
  <2>1. PICK b : /\ adapter' = [adapter EXCEPT ![t] = b]
                 /\ Agrees(b) /\ b.publicKey = NoKey
    BY <1>2, BootAgrees, AdapterTypes, ConstructorsAgree
  <2>2. StoreSound'
    BY <1>0, <1>2 DEF StoreSound
  <2> QED BY <1>2, <2>1, <2>2, Replaced
<1>3. ASSUME NEW p \in BOOLEAN, LoadPage(t, p) PROVE OneMind'
  BY <1>0, <1>1, <1>3, KeysBroadcast DEF LoadPage
<1>4. ASSUME NEW p \in BOOLEAN, NEW r, NEW k \in Key, NEW answer,
             OwnConnectCallback(t, p, r, answer, k)
      PROVE  OneMind'
  <2>1. KeysSent'
    BY <1>0, <1>4, KeysBroadcast DEF OwnConnectCallback
  <2>2. CASE answer # "key"
    <3>1. store' = store /\ Boot(t, p, Blank, ConnectAfter(t, r))
      BY <1>4, <2>2 DEF OwnConnectCallback
    <3> QED BY <1>2, <2>1, <3>1
  <2>3. CASE answer = "key"
    <3> DEFINE a == ConnectedAs(k, "deeplink", "deeplink", FALSE)
    <3>1. store' = RecordOf(a) /\ Boot(t, p, a, ConnectAfter(t, r))
      BY <1>4, <2>3 DEF OwnConnectCallback
    <3>2. a \in Adapter /\ Agrees(a) /\ a.publicKey = k
          /\ RecordOf(a) = [publicKey |-> k, mode |-> "deeplink"]
      BY AdapterTypes, ConnectedAgrees DEF Modes
    <3> HIDE DEF a
    <3>3. PICK b : /\ adapter' = [adapter EXCEPT ![t] = b] /\ Agrees(b) /\ b.publicKey = k
      BY <3>1, <3>2, BootAgrees
    <3>4. store'.publicKey = k /\ StoreSound'
      BY <3>1, <3>2 DEF StoreSound
    <3> QED BY <2>1, <3>3, <3>4, Replaced
  <2> QED BY <2>2, <2>3
<1>5. ASSUME NEW p \in BOOLEAN, NEW r, NEW k \in Key, NEW answer,
             ForwardConnectCallback(t, p, r, answer, k)
      PROVE  OneMind'
  <2>1. /\ Msg("connectResult", r, answer, k).key = k
        /\ Msg("connectError", r, "error", NoKey).answer = "error"
    BY DEF Msg
  <2>2. KeysSent'
    BY <1>0, <1>5, <2>1, KeysBroadcast DEF ForwardConnectCallback
  <2> QED BY <1>2, <1>5, <2>2 DEF ForwardConnectCallback
<1>6. ASSUME NEW p \in BOOLEAN, NEW r, NEW answer,
             OwnSignCallback(t, p, r, answer) \/ ForwardSignCallback(t, p, r, answer)
      PROVE  OneMind'
  <2>1. /\ Msg("signResult", r, answer, NoKey).answer = answer
        /\ Msg("signError", r, "error", NoKey).answer = "error"
    BY DEF Msg
  <2>2. KeysSent'
    BY <1>0, <1>6, <2>1, KeysBroadcast DEF OwnSignCallback, ForwardSignCallback
  <2> QED BY <1>1, <1>6, <2>2 DEF OwnSignCallback, ForwardSignCallback
<1> QED BY <1>3, <1>4, <1>5, <1>6 DEF Load

\* A step that leaves the adapters, the record and the messages alone keeps it.
LEMMA Untouched ==
  ASSUME OneMind, adapter' = adapter, store' = store, inbox' = inbox
  PROVE  OneMind'
<1>1. (\A t \in Tab : Agrees(adapter[t]))'
  BY DEF OneMind, Agrees
<1>2. StoreSound' /\ KeysSent' /\ ReloadKeepsConnection'
  BY DEF OneMind, StoreSound, KeysSent, ReloadKeepsConnection
<1> QED BY <1>1, <1>2 DEF OneMind

\* Clearing the record of a tab that disconnects, or replacing it by the key of one that connects.
LEMMA StoreMoves ==
  ASSUME TypeOK, OneMind, NEW t \in Tab, inbox' = inbox, NEW a, Agrees(a),
         adapter' = [adapter EXCEPT ![t] = a],
         \/ a.publicKey = NoKey /\ store' \in {NoRecord, store}
         \/ a.publicKey \in Key /\ store'.publicKey = a.publicKey /\ store'.mode # "none"
  PROVE  OneMind'
<1>1. StoreSound' /\ KeysSent'
  BY DEF OneMind, StoreSound, KeysSent
<1> QED BY <1>1, Replaced

\* Giving up or starting a connection keeps it.
LEMMA StateMoves ==
  ASSUME TypeOK, OneMind, NEW t \in Tab, NEW s \in {"disconnected", "connecting"},
         store' = store, inbox' = inbox,
         \/ adapter' = [adapter EXCEPT ![t].state = s]
         \/ adapter' = [adapter EXCEPT ![t].state = s, ![t].provider = TRUE]
  PROVE  OneMind'
<1>1. adapter[t] \in Adapter /\ Agrees(adapter[t])
  BY DEF TypeOK, OneMind
<1>2. \E a : /\ adapter' = [adapter EXCEPT ![t] = a]
             /\ Agrees(a) /\ a.publicKey = adapter[t].publicKey
  <2>1. [adapter EXCEPT ![t].state = s]
          = [adapter EXCEPT ![t] = [adapter[t] EXCEPT !.state = s]]
    OBVIOUS
  <2>2. [adapter EXCEPT ![t].state = s, ![t].provider = TRUE]
          = [adapter EXCEPT ![t] = [adapter[t] EXCEPT !.state = s, !.provider = TRUE]]
    OBVIOUS
  <2>3. CASE adapter' = [adapter EXCEPT ![t] = [adapter[t] EXCEPT !.state = s]]
    BY <1>1, <2>3, StateAgrees
  <2>4. CASE adapter' = [adapter EXCEPT ![t] = [adapter[t] EXCEPT !.state = s, !.provider = TRUE]]
    BY <1>1, <2>4, StateAgrees
  <2> QED BY <2>1, <2>2, <2>3, <2>4
<1>3. StoreSound' /\ KeysSent'
  BY DEF OneMind, StoreSound, KeysSent
<1>4. PICK a : /\ adapter' = [adapter EXCEPT ![t] = a]
               /\ Agrees(a) /\ a.publicKey = adapter[t].publicKey
  BY <1>2
<1>5. \A u \in Tab : adapter'[u] = IF u = t THEN a ELSE adapter[u]
  BY <1>4 DEF TypeOK
<1>6. ReloadKeepsConnection'
  BY <1>4, <1>5 DEF OneMind, ReloadKeepsConnection
<1>7. (\A u \in Tab : Agrees(adapter[u]))'
  BY <1>4, <1>5 DEF OneMind, Agrees
<1> QED BY <1>3, <1>6, <1>7 DEF OneMind

\* The calls of the application keep it.
LEMMA UserAgrees ==
  ASSUME TypeOK, OneMind, NEW t \in Tab, User(t)
  PROVE  OneMind'
<1>1. CASE CloseTab(t)
  <2>1. KeysSent' /\ StoreSound'
    BY <1>1 DEF CloseTab, OneMind, KeysSent, StoreSound, TypeOK
  <2> QED BY <1>1, <2>1, Replaced, ConstructorsAgree DEF CloseTab
<1>2. CASE ConnectViaProvider(t) \/ ConnectViaDeepLink(t)
  BY <1>2, StateMoves DEF ConnectViaProvider, ConnectViaDeepLink
<1>3. CASE AskProviderToDisconnect(t) \/ ConsumeSignResult(t) \/ \E k \in Key : Sign(t, k)
  BY <1>3, Untouched DEF AskProviderToDisconnect, ConsumeSignResult, Sign
<1>4. CASE Disconnect(t)
  BY <1>4, StoreMoves, ConstructorsAgree DEF Disconnect, ClearPersistence
<1>5. ASSUME NEW k \in Key, ConnectManual(t, k) PROVE OneMind'
  <2> DEFINE a == ConnectedAs(k, "manual", "deeplink", adapter[t].provider)
  <2>1. adapter' = [adapter EXCEPT ![t] = a] /\ store' = RecordOf(a) /\ inbox' = inbox
    BY <1>5 DEF ConnectManual
  <2>2. Agrees(a) /\ a.publicKey = k /\ RecordOf(a) = [publicKey |-> k, mode |-> "manual"]
    BY ConnectedAgrees
  <2> HIDE DEF a
  <2>3. store'.publicKey = k /\ store'.mode # "none"
    BY <2>1, <2>2
  <2> QED BY <2>1, <2>2, <2>3, StoreMoves
<1> QED BY <1>1, <1>2, <1>3, <1>4, <1>5 DEF User

\* The answers and events of the provider keep it.
LEMMA WalletAgrees ==
  ASSUME TypeOK, OneMind, NEW t \in Tab, Wallet(t)
  PROVE  OneMind'
<1>1. CASE Inject(t)
  BY <1>1, Untouched DEF Inject
<1>2. CASE AccountsRejected(t)
  BY <1>2, StateMoves DEF AccountsRejected
<1>3. CASE ProviderDisconnect(t)
  BY <1>3, StoreMoves, ConstructorsAgree DEF ProviderDisconnect, ClearPersistence
<1>4. ASSUME NEW k \in Key, AccountsResolved(t, k) \/ ProviderConnect(t, k) PROVE OneMind'
  <2> DEFINE a == ConnectedAs(k, "embedded", "wallet", adapter[t].provider)
  <2>1. /\ adapter' = [adapter EXCEPT ![t] = a] /\ inbox' = inbox
        /\ store' = [publicKey |-> k, mode |-> "embedded"]
    BY <1>4 DEF AccountsResolved, ProviderConnect
  <2>2. Agrees(a) /\ a.publicKey = k
    BY ConnectedAgrees
  <2> HIDE DEF a
  <2> QED BY <2>1, <2>2, StoreMoves
<1> QED BY <1>1, <1>2, <1>3, <1>4 DEF Wallet

\* A forwarded answer connects with the key it names.
LEMMA ReceiveAgrees ==
  ASSUME TypeOK, OneMind, NEW t \in Tab, Receive(t)
  PROVE  OneMind'
<1>1. PICK m \in inbox[t] : ReceiveConnect(t, m) \/ ReceiveSign(t, m)
  BY DEF Receive
<1>2. KeysSent'
  <2>1. inbox' = [inbox EXCEPT ![t] = @ \ {m}]
    BY <1>1, Zenon DEF ReceiveConnect, ReceiveSign, Take
  <2>2. \A u \in Tab : inbox'[u] \subseteq inbox[u]
    BY <2>1 DEF TypeOK
  <2>3. KeysSent
    BY DEF OneMind
  <2> QED BY <2>2, <2>3 DEF KeysSent
<1>3. CASE adapter' = adapter /\ store' = store
  BY <1>2, <1>3 DEF OneMind, Agrees, StoreSound, ReloadKeepsConnection
<1>4. CASE ReceiveConnect(t, m) /\ m.answer = "key" /\ ~(adapter' = adapter /\ store' = store)
  <2> DEFINE a == ConnectedAs(m.key, "deeplink", "deeplink", adapter[t].provider)
  <2>1. adapter' = [adapter EXCEPT ![t] = a] /\ store' = RecordOf(a)
    BY <1>4 DEF ReceiveConnect
  <2>2. m.key \in Key
    BY <1>4 DEF OneMind, KeysSent
  <2>3. /\ Agrees(a) /\ a.publicKey = m.key
        /\ RecordOf(a) = [publicKey |-> m.key, mode |-> "deeplink"]
    BY <2>2, ConnectedAgrees
  <2> HIDE DEF a
  <2>4. store'.publicKey = m.key /\ StoreSound'
    BY <2>1, <2>2, <2>3 DEF StoreSound
  <2> QED BY <1>2, <2>1, <2>3, <2>4, Replaced
<1> QED BY <1>1, <1>3, <1>4 DEF ReceiveConnect, ReceiveSign

\* After any interleaving of connects, provider events, callbacks, forwarded answers and reloads
\* the adapter's fields agree, and one tab's connection is the one a reload restores, for any
\* keys and tabs (wallet-adapter.ts:386, 627).
THEOREM AdaptersAgree == Spec => []EmbeddedSound
<1>1. Init => OneMind
  BY ConstructorsAgree DEF Init, OneMind, StoreSound, KeysSent, ReloadKeepsConnection
<1>2. TypeOK /\ OneMind /\ [Next]_vars => OneMind'
  <2> SUFFICES ASSUME TypeOK, OneMind, [Next]_vars PROVE OneMind'
    OBVIOUS
  <2>1. ASSUME NEW t \in Tab, Load(t) \/ User(t) \/ Wallet(t) \/ Receive(t) PROVE OneMind'
    BY <2>1, LoadAgrees, UserAgrees, WalletAgrees, ReceiveAgrees
  <2>2. CASE Clock \/ UNCHANGED vars
    BY <2>2, Untouched DEF Clock, vars
  <2> QED BY <2>1, <2>2 DEF Next
<1>3. OneMind => EmbeddedSound
  BY DEF OneMind, Agrees, EmbeddedSound, SignerAgrees
<1> QED BY <1>1, <1>2, <1>3, TypeCorrect, PTL DEF Spec
=============================================================================
