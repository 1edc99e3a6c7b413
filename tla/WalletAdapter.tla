---------------------------- MODULE WalletAdapter ----------------------------
(***************************************************************************)
(* The browser wallet adapter: KalvoraWalletAdapter                        *)
(* (adapter/wallet-adapter.ts) with DeepLinkSigner                         *)
(* (adapter/wallet-signer.ts).                                             *)
(*                                                                         *)
(* Every browser tab runs one adapter.  It is driven by the application    *)
(* (connect, connectManual, disconnect, sign), by the injected wallet      *)
(* provider (answers of requests, 'connect' and 'disconnect' events), by   *)
(* deep-link callbacks that load a page with the wallet's answer in its    *)
(* URL, and by the messages other tabs put on the BroadcastChannel.  Tabs  *)
(* share the localStorage record of the connection; each has its own       *)
(* sessionStorage record of the connect and of the sign request it is      *)
(* waiting for.                                                            *)
(*                                                                         *)
(* A display address is a function of the public key, so a key stands for  *)
(* both; an answer whose address does not match its key is a "badAddress". *)
(***************************************************************************)
EXTENDS Integers, Sequences, FiniteSets

CONSTANTS
  Tab,           \* browser tabs of one origin
  Key,           \* valid wallet public keys
  NoKey,         \* null
  ProviderTabs,  \* tabs a wallet may inject its provider into
  AutoConnect,   \* config.autoConnect
  ConnectTtl,    \* CONNECT_REQUEST_TTL_MS
  SignTimeout,   \* config.signTimeout
  MaxSignTtl,    \* MAX_SIGN_REQUEST_TTL_MS
  MaxSkew,       \* MAX_CLOCK_SKEW_MS
  MaxRequests,   \* bound: deep-link requests issued in a behaviour
  MaxCalls,      \* bound: connect() and disconnect() calls in flight per tab
  MaxInbox,      \* bound: messages queued for a tab
  MaxTime        \* bound: the clock

ASSUME AdapterConstants ==
  /\ NoKey \notin Key
  /\ ProviderTabs \subseteq Tab
  /\ AutoConnect \in BOOLEAN
  /\ ConnectTtl \in Nat /\ SignTimeout \in Nat
  /\ MaxSignTtl \in Nat /\ MaxSkew \in Nat
  /\ MaxRequests \in Nat /\ MaxCalls \in Nat
  /\ MaxInbox \in Nat /\ MaxTime \in Nat

VARIABLES
  open,         \* is the page of this tab loaded?
  present,      \* is window[KALVORA_INJECTED_PROVIDER_KEY] there?
  listening,    \* has this page registered provider listeners?
  calls,        \* connect() calls awaiting requestAccounts
  leaving,      \* disconnect() calls awaiting the provider
  adapter,      \* the fields of the adapter object
  signResult,   \* _pendingSignResult: the request it is labelled with and the
                \* one whose answer the signature is
  store,        \* localStorage[STORAGE_KEY], shared by the tabs
  connPending,  \* sessionStorage[PENDING_KEY]: a request id, 0 if none
  signPending,  \* sessionStorage[SIGN_PENDING_KEY]: a request id, 0 if none
  inbox,        \* BroadcastChannel messages not yet delivered to the tab
  issued,       \* the deep-link requests handed to the wallet; ids index it
  claims,       \* history: how often the answer of a request was accepted
  now           \* Date.now()

pageVars    == <<open, present, listening, calls, leaving>>
sessionVars == <<connPending, signPending>>
vars == <<pageVars, adapter, signResult, store, sessionVars, inbox, issued,
          claims, now>>

ReqId == 1..MaxRequests

Modes == {"none", "embedded", "deeplink", "manual"}

Adapter == [state      : {"disconnected", "connecting", "connected"},
            publicKey  : Key \cup {NoKey},
            signer     : {"none", "wallet", "deeplink"},
            signerKey  : Key \cup {NoKey},
            provider   : BOOLEAN,
            mode       : Modes]

NoRecord == [publicKey |-> NoKey, mode |-> "none"]

Record == [publicKey : Key \cup {NoKey}, mode : Modes]

SignResult == [label : 0..MaxRequests, signed : 0..MaxRequests]

Result(label, signed) == [label |-> label, signed |-> signed]

NoResult == Result(0, 0)

Request == [tab : Tab, kind : {"connect", "sign"}, key : Key \cup {NoKey},
            at  : Nat]

\* What a wallet answers.  "key" and "sig" are good answers; "badKey" is not
\* a key, "badAddress" a key with an address that is not its own, "badSig" a
\* signature of a wrong encoding or length.
Message == [type   : {"connectResult", "connectError",
                      "signResult", "signError"},
            id     : ReqId,
            answer : {"key", "badAddress", "sig", "badSig", "error"},
            key    : Key \cup {NoKey}]

-----------------------------------------------------------------------------
(* The adapter object *)

Blank == [state |-> "disconnected", publicKey |-> NoKey, signer |-> "none",
          signerKey |-> NoKey, provider |-> FALSE, mode |-> "none"]

\* The assignments every path to 'connected' makes.  k is a public key, m the
\* connection mode, s the class of the signer, p whether _provider is set.
ConnectedAs(k, m, s, p) ==
  [state |-> "connected", publicKey |-> k, signer |-> s, signerKey |-> k,
   provider |-> p, mode |-> m]

RecordOf(a) == [publicKey |-> a.publicKey, mode |-> a.mode]

\* _restoreConnection: rebuild the adapter from the shared record, upgrading
\* to embedded mode when a provider is there and downgrading when it is not.
Restored(providerThere) ==
  CASE store = NoRecord -> Blank
    [] store # NoRecord /\ providerThere ->
         ConnectedAs(store.publicKey, "embedded", "wallet", TRUE)
    [] store # NoRecord /\ ~providerThere ->
         ConnectedAs(store.publicKey,
                     IF store.mode = "embedded" THEN "deeplink"
                                                ELSE store.mode,
                     "deeplink", FALSE)

-----------------------------------------------------------------------------
(* Pending requests *)

Age(r) == now - issued[r].at

SignTtl == IF SignTimeout < MaxSignTtl THEN SignTimeout ELSE MaxSignTtl

FreshConnect(r) == Age(r) <= ConnectTtl /\ Age(r) >= -MaxSkew

FreshSign(r) == Age(r) <= SignTtl /\ Age(r) >= -MaxSkew

\* Mutant: the age of the record is not looked at.
LiveConnectAnyAge(t, r) == connPending[t] = r

\* _validatePendingConnectRequest: does tab t wait for exactly request r?
LiveConnect(t, r) == connPending[t] = r /\ FreshConnect(r)

\* Mutant: the id of the callback is not compared with the record's.
LiveSignAnyId(t, r) ==
  SignTimeout > 0 /\ signPending[t] # 0 /\ FreshSign(signPending[t])

\* DeepLinkSigner._getPendingRequest, for the signing requests.
LiveSign(t, r) == SignTimeout > 0 /\ signPending[t] = r /\ FreshSign(r)

\* Mutant: the record of an accepted request is kept.
ConnectAfterKept(t, r) ==
  IF connPending[t] # 0 /\ ~FreshConnect(connPending[t])
  THEN [connPending EXCEPT ![t] = 0]
  ELSE connPending

\* The session record after the check that consumes request r: an expired
\* record goes, a live one goes when it is r's, another request's stays.
ConnectAfter(t, r) ==
  IF connPending[t] # 0 /\ (~FreshConnect(connPending[t]) \/ connPending[t] = r)
  THEN [connPending EXCEPT ![t] = 0]
  ELSE connPending

SignAfter(t, r) ==
  IF /\ SignTimeout > 0
     /\ signPending[t] # 0
     /\ ~FreshSign(signPending[t]) \/ signPending[t] = r
  THEN [signPending EXCEPT ![t] = 0]
  ELSE signPending

Claim(r) == claims' = [claims EXCEPT ![r] = @ + 1]

\* A new deep-link request of tab t; its id is the next index of issued.
NextId == Len(issued) + 1

Issue(t, kind, key) ==
  /\ Len(issued) < MaxRequests
  /\ issued' = Append(issued, [tab |-> t, kind |-> kind, key |-> key,
                               at |-> now])

\* _broadcastMessage of the page now loaded in t: every other open page gets
\* the message; what was queued for the page that t showed before is lost.
Broadcast(t, msgs) ==
  /\ inbox' = [u \in Tab |-> IF u = t THEN {}
                             ELSE IF open[u] THEN inbox[u] \cup msgs
                             ELSE inbox[u]]
  /\ \A u \in Tab : Cardinality(inbox'[u]) <= MaxInbox

Msg(type, r, answer, key) ==
  [type |-> type, id |-> r, answer |-> answer, key |-> key]

-----------------------------------------------------------------------------
(* Page loads *)

\* The end of the constructor: autoConnect calls connect() on the adapter a
\* that the redirect handling left; pend is the connect record it left.
Boot(t, p, a, pend) ==
  /\ p \in (IF t \in ProviderTabs THEN BOOLEAN ELSE {FALSE})
  /\ open' = [open EXCEPT ![t] = TRUE]
  /\ present' = [present EXCEPT ![t] = p]
  /\ leaving' = [leaving EXCEPT ![t] = 0]
  /\ \/ /\ ~AutoConnect \/ a.state = "connected"
        /\ adapter' = [adapter EXCEPT ![t] = a]
        /\ listening' = [listening EXCEPT ![t] = a.provider]
        /\ calls' = [calls EXCEPT ![t] = 0]
        /\ connPending' = pend
        /\ UNCHANGED issued
     \/ /\ AutoConnect /\ a.state # "connected" /\ p
        /\ adapter' = [adapter EXCEPT ![t] = [a EXCEPT !.state = "connecting",
                                                       !.provider = TRUE]]
        /\ listening' = [listening EXCEPT ![t] = TRUE]
        /\ calls' = [calls EXCEPT ![t] = 1]
        /\ connPending' = pend
        /\ UNCHANGED issued
     \/ /\ AutoConnect /\ a.state # "connected" /\ ~p
        /\ adapter' = [adapter EXCEPT ![t] = [a EXCEPT !.state = "connecting"]]
        /\ listening' = [listening EXCEPT ![t] = FALSE]
        /\ calls' = [calls EXCEPT ![t] = 0]
        /\ connPending' = [pend EXCEPT ![t] = NextId]
        /\ Issue(t, "connect", NoKey)
  /\ UNCHANGED now

\* A page load or reload without wallet parameters in the URL.
LoadPage(t, p) ==
  /\ Boot(t, p, Restored(p), connPending)
  /\ Broadcast(t, {})
  /\ signResult' = [signResult EXCEPT ![t] = NoResult]
  /\ UNCHANGED <<store, signPending, claims>>

CloseTab(t) ==
  /\ open[t]
  /\ open' = [open EXCEPT ![t] = FALSE]
  /\ present' = [present EXCEPT ![t] = FALSE]
  /\ listening' = [listening EXCEPT ![t] = FALSE]
  /\ calls' = [calls EXCEPT ![t] = 0]
  /\ leaving' = [leaving EXCEPT ![t] = 0]
  /\ adapter' = [adapter EXCEPT ![t] = Blank]
  /\ signResult' = [signResult EXCEPT ![t] = NoResult]
  /\ connPending' = [connPending EXCEPT ![t] = 0]
  /\ signPending' = [signPending EXCEPT ![t] = 0]
  /\ inbox' = [inbox EXCEPT ![t] = {}]
  /\ UNCHANGED <<store, issued, claims, now>>

\* The wallet's answer to connect request r loads a page in the tab that
\* waits for it: the record is consumed whatever the answer is.
OwnConnectCallback(t, p, r, answer, k) ==
  /\ issued[r].kind = "connect"
  /\ LiveConnect(t, r)
  /\ answer \in {"key", "badKey", "badAddress", "error"}
  /\ LET a == IF answer = "key" THEN ConnectedAs(k, "deeplink", "deeplink", FALSE)
                                ELSE Blank
     IN /\ store' = IF answer = "key" THEN RecordOf(a) ELSE store
        /\ Boot(t, p, a, ConnectAfter(t, r))
  /\ Broadcast(t, {})
  /\ Claim(r)
  /\ signResult' = [signResult EXCEPT ![t] = NoResult]
  /\ UNCHANGED signPending

\* ... or in any other tab, which forwards it.  That page does not restore
\* the shared connection.
ForwardConnectCallback(t, p, r, answer, k) ==
  /\ issued[r].kind = "connect"
  /\ ~LiveConnect(t, r)
  /\ \/ /\ answer \in {"key", "badAddress"}
        /\ Broadcast(t, {Msg("connectResult", r, answer, k)})
     \/ /\ answer = "badKey"
        /\ Broadcast(t, {})
     \/ /\ answer = "error"
        /\ Broadcast(t, {Msg("connectError", r, "error", NoKey)})
  /\ Boot(t, p, Blank, ConnectAfter(t, r))
  /\ signResult' = [signResult EXCEPT ![t] = NoResult]
  /\ UNCHANGED <<store, signPending, claims>>

\* The same for the answer to sign request r; a sign callback restores the
\* connection first.  An error or a malformed signature is also broadcast.
OwnSignCallback(t, p, r, answer) ==
  /\ issued[r].kind = "sign"
  /\ LiveSign(t, r)
  /\ \/ /\ answer = "sig"
        /\ signResult' = [signResult EXCEPT ![t] = Result(signPending[t], r)]
        /\ Broadcast(t, {})
     \/ /\ answer \in {"badSig", "error"}
        /\ signResult' = [signResult EXCEPT ![t] = NoResult]
        /\ Broadcast(t, {Msg("signError", r, "error", NoKey)})
  /\ signPending' = SignAfter(t, r)
  /\ Claim(r)
  /\ Boot(t, p, Restored(p), connPending)
  /\ UNCHANGED store

ForwardSignCallback(t, p, r, answer) ==
  /\ issued[r].kind = "sign"
  /\ ~LiveSign(t, r)
  /\ \/ /\ answer \in {"sig", "badSig"}
        /\ Broadcast(t, {Msg("signResult", r, answer, NoKey)})
     \/ /\ answer = "error"
        /\ Broadcast(t, {Msg("signError", r, "error", NoKey)})
  /\ signPending' = SignAfter(t, r)
  /\ signResult' = [signResult EXCEPT ![t] = NoResult]
  /\ Boot(t, p, Restored(p), connPending)
  /\ UNCHANGED <<store, claims>>

\* The wallet injects its provider after the page has loaded.
Inject(t) ==
  /\ open[t] /\ t \in ProviderTabs /\ ~present[t]
  /\ present' = [present EXCEPT ![t] = TRUE]
  /\ UNCHANGED <<open, listening, calls, leaving, adapter, signResult, store,
                 sessionVars, inbox, issued, claims, now>>

-----------------------------------------------------------------------------
(* connect(), connectManual(), disconnect() *)

\* connect() on an adapter that is not connected: embedded strategy.
ConnectViaProvider(t) ==
  /\ open[t] /\ present[t]
  /\ adapter[t].state # "connected"
  /\ calls[t] < MaxCalls
  /\ adapter' = [adapter EXCEPT ![t].state = "connecting",
                                ![t].provider = TRUE]
  /\ listening' = [listening EXCEPT ![t] = TRUE]
  /\ calls' = [calls EXCEPT ![t] = @ + 1]
  /\ UNCHANGED <<open, present, leaving, signResult, store, sessionVars,
                 inbox, issued, claims, now>>

\* connect() without a provider: record the request and leave for the wallet.
ConnectViaDeepLink(t) ==
  /\ open[t] /\ ~present[t]
  /\ adapter[t].state # "connected"
  /\ Issue(t, "connect", NoKey)
  /\ connPending' = [connPending EXCEPT ![t] = NextId]
  /\ adapter' = [adapter EXCEPT ![t].state = "connecting"]
  /\ UNCHANGED <<pageVars, signResult, store, signPending, inbox, claims, now>>

\* The provider answers requestAccounts with a valid key ...
AccountsResolved(t, k) ==
  /\ calls[t] > 0
  /\ calls' = [calls EXCEPT ![t] = @ - 1]
  /\ adapter' = [adapter EXCEPT ![t] =
                   ConnectedAs(k, "embedded", "wallet", adapter[t].provider)]
  /\ store' = [publicKey |-> k, mode |-> "embedded"]
  /\ UNCHANGED <<open, present, listening, leaving, signResult, sessionVars,
                 inbox, issued, claims, now>>

\* ... or rejects it, or answers no account, an invalid key or a key whose
\* address does not match: the catch block resets the state field only.
AccountsRejected(t) ==
  /\ calls[t] > 0
  /\ calls' = [calls EXCEPT ![t] = @ - 1]
  /\ adapter' = [adapter EXCEPT ![t].state = "disconnected"]
  /\ UNCHANGED <<open, present, listening, leaving, signResult, store,
                 sessionVars, inbox, issued, claims, now>>

ConnectManual(t, k) ==
  /\ open[t]
  /\ LET a == ConnectedAs(k, "manual", "deeplink", adapter[t].provider)
     IN /\ adapter' = [adapter EXCEPT ![t] = a]
        /\ store' = RecordOf(a)
  /\ UNCHANGED <<pageVars, signResult, sessionVars, inbox, issued, claims, now>>

\* Both writes of _clearPersistence.
ClearPersistence(t) ==
  /\ store' = NoRecord
  /\ connPending' = [connPending EXCEPT ![t] = 0]

\* disconnect(): with a provider the wallet is told first and awaited.
AskProviderToDisconnect(t) ==
  /\ open[t] /\ adapter[t].provider
  /\ leaving[t] < MaxCalls
  /\ leaving' = [leaving EXCEPT ![t] = @ + 1]
  /\ UNCHANGED <<open, present, listening, calls, adapter, signResult, store,
                 sessionVars, inbox, issued, claims, now>>

Disconnect(t) ==
  /\ open[t]
  /\ \/ /\ leaving[t] > 0
        /\ leaving' = [leaving EXCEPT ![t] = @ - 1]
     \/ ~adapter[t].provider /\ UNCHANGED leaving
  /\ adapter' = [adapter EXCEPT ![t] = Blank]
  /\ ClearPersistence(t)
  /\ UNCHANGED <<open, present, listening, calls, signResult, signPending,
                 inbox, issued, claims, now>>

-----------------------------------------------------------------------------
(* Events of the injected provider *)

\* Mutant: a connection announced by the wallet is not persisted.
ProviderConnectUnsaved(t, k) ==
  /\ listening[t]
  /\ ~(adapter[t].state = "connected" /\ adapter[t].publicKey = k)
  /\ adapter' = [adapter EXCEPT ![t] =
                   ConnectedAs(k, "embedded", "wallet", adapter[t].provider)]
  /\ UNCHANGED <<pageVars, signResult, store, sessionVars, inbox, issued,
                 claims, now>>

ProviderConnect(t, k) ==
  /\ listening[t]
  /\ ~(adapter[t].state = "connected" /\ adapter[t].publicKey = k)
  /\ adapter' = [adapter EXCEPT ![t] =
                   ConnectedAs(k, "embedded", "wallet", adapter[t].provider)]
  /\ store' = [publicKey |-> k, mode |-> "embedded"]
  /\ UNCHANGED <<pageVars, signResult, sessionVars, inbox, issued, claims, now>>

ProviderDisconnect(t) ==
  /\ listening[t]
  /\ adapter[t].state # "disconnected"
  /\ adapter' = [adapter EXCEPT ![t] = [Blank EXCEPT !.provider =
                                          adapter[t].provider]]
  /\ ClearPersistence(t)
  /\ UNCHANGED <<pageVars, signResult, signPending, inbox, issued, claims, now>>

-----------------------------------------------------------------------------
(* Deep-link signing *)

\* DeepLinkSigner.sign and signMessage for key k.  The application may hold
\* a signer from an earlier connection or have built one itself.
Sign(t, k) ==
  /\ open[t]
  /\ Issue(t, "sign", k)
  /\ signPending' = [signPending EXCEPT ![t] = NextId]
  /\ UNCHANGED <<pageVars, adapter, signResult, store, connPending, inbox,
                 claims, now>>

\* consumePendingSignResult().
ConsumeSignResult(t) ==
  /\ open[t] /\ signResult[t] # NoResult
  /\ signResult' = [signResult EXCEPT ![t] = NoResult]
  /\ UNCHANGED <<pageVars, adapter, store, sessionVars, inbox, issued, claims,
                 now>>

-----------------------------------------------------------------------------
(* BroadcastChannel messages *)

Take(t, m) ==
  /\ m \in inbox[t]
  /\ inbox' = [inbox EXCEPT ![t] = @ \ {m}]

\* A forwarded connect answer: a connected adapter ignores it.
ReceiveConnect(t, m) ==
  /\ Take(t, m)
  /\ m.type \in {"connectResult", "connectError"}
  /\ \/ /\ adapter[t].state = "connected"
        /\ UNCHANGED <<adapter, store, connPending, claims>>
     \/ /\ adapter[t].state # "connected"
        /\ ~LiveConnect(t, m.id)
        /\ connPending' = ConnectAfter(t, m.id)
        /\ UNCHANGED <<adapter, store, claims>>
     \/ /\ adapter[t].state # "connected"
        /\ LiveConnect(t, m.id)
        /\ connPending' = ConnectAfter(t, m.id)
        /\ Claim(m.id)
        /\ IF m.answer = "key"
           THEN LET a == ConnectedAs(m.key, "deeplink", "deeplink",
                                     adapter[t].provider)
                IN /\ adapter' = [adapter EXCEPT ![t] = a]
                   /\ store' = RecordOf(a)
           ELSE UNCHANGED <<adapter, store>>
  /\ UNCHANGED <<pageVars, signResult, signPending, issued, now>>

ReceiveSign(t, m) ==
  /\ Take(t, m)
  /\ m.type \in {"signResult", "signError"}
  /\ signPending' = SignAfter(t, m.id)
  /\ IF LiveSign(t, m.id)
     THEN /\ Claim(m.id)
          /\ signResult' = IF m.answer = "sig"
                           THEN [signResult EXCEPT
                                   ![t] = Result(signPending[t], m.id)]
                           ELSE signResult
     ELSE UNCHANGED <<claims, signResult>>
  /\ UNCHANGED <<pageVars, adapter, store, connPending, issued, now>>

-----------------------------------------------------------------------------
(* The clock, which the user or the system may also set back *)

Clock ==
  /\ now' \in {now - 1, now + 1} /\ now' \in 0..MaxTime
  /\ UNCHANGED <<pageVars, adapter, signResult, store, sessionVars, inbox,
                 issued, claims>>

Init ==
  /\ open = [t \in Tab |-> FALSE]
  /\ present = [t \in Tab |-> FALSE]
  /\ listening = [t \in Tab |-> FALSE]
  /\ calls = [t \in Tab |-> 0]
  /\ leaving = [t \in Tab |-> 0]
  /\ adapter = [t \in Tab |-> Blank]
  /\ signResult = [t \in Tab |-> NoResult]
  /\ store = NoRecord
  /\ connPending = [t \in Tab |-> 0]
  /\ signPending = [t \in Tab |-> 0]
  /\ inbox = [t \in Tab |-> {}]
  /\ issued = <<>>
  /\ claims = [r \in ReqId |-> 0]
  /\ now \in 0..MaxTime

Load(t) ==
  \E p \in BOOLEAN :
    \/ LoadPage(t, p)
    \/ \E r \in 1..Len(issued) :
         \/ \E k \in Key, answer \in {"key", "badKey", "badAddress", "error"} :
              \/ OwnConnectCallback(t, p, r, answer, k)
              \/ ForwardConnectCallback(t, p, r, answer, k)
         \/ \E answer \in {"sig", "badSig", "error"} :
              \/ OwnSignCallback(t, p, r, answer)
              \/ ForwardSignCallback(t, p, r, answer)

User(t) ==
  \/ CloseTab(t)
  \/ ConnectViaProvider(t)
  \/ ConnectViaDeepLink(t)
  \/ AskProviderToDisconnect(t)
  \/ Disconnect(t)
  \/ ConsumeSignResult(t)
  \/ \E k \in Key : ConnectManual(t, k) \/ Sign(t, k)

Wallet(t) ==
  \/ Inject(t)
  \/ AccountsRejected(t)
  \/ ProviderDisconnect(t)
  \/ \E k \in Key : AccountsResolved(t, k) \/ ProviderConnect(t, k)

Receive(t) == \E m \in inbox[t] : ReceiveConnect(t, m) \/ ReceiveSign(t, m)

Next ==
  \/ \E t \in Tab : Load(t) \/ User(t) \/ Wallet(t) \/ Receive(t)
  \/ Clock

Spec == Init /\ [][Next]_vars

-----------------------------------------------------------------------------
(* Properties *)

\* Type invariant of the adapter, the browser storage and the messages.
TypeOK ==
  /\ open \in [Tab -> BOOLEAN]
  /\ present \in [Tab -> BOOLEAN]
  /\ listening \in [Tab -> BOOLEAN]
  /\ calls \in [Tab -> Nat]
  /\ leaving \in [Tab -> Nat]
  /\ adapter \in [Tab -> Adapter]
  /\ signResult \in [Tab -> SignResult]
  /\ store \in Record
  /\ connPending \in [Tab -> 0..MaxRequests]
  /\ signPending \in [Tab -> 0..MaxRequests]
  /\ inbox \in [Tab -> SUBSET Message]
  /\ issued \in Seq(Request) /\ Len(issued) <= MaxRequests
  /\ claims \in [ReqId -> Nat]
  /\ now \in 0..MaxTime

\* The answer of a deep-link request is accepted at most once, in whatever
\* tabs its callback URL is opened, however often, and however it is
\* forwarded ("A correlated callback is single-use even if its payload is
\* malformed", wallet-adapter.ts:561).
SingleUse == \A r \in ReqId : claims[r] <= 1

\* Why: a request a tab still waits for was issued by that tab, for that
\* purpose, and has not been answered; the records of two tabs never coincide.
WaitsFor(pending, kind, iss, cl) ==
  \A t \in Tab : pending[t] # 0 =>
    /\ pending[t] \in 1..Len(iss)
    /\ iss[pending[t]].tab = t
    /\ iss[pending[t]].kind = kind
    /\ cl[pending[t]] = 0

UsedOnce(iss, cl) ==
  \A r \in ReqId : cl[r] <= 1 /\ (r > Len(iss) => cl[r] = 0)

RequestsOwned ==
  /\ WaitsFor(connPending, "connect", issued, claims)
  /\ WaitsFor(signPending, "sign", issued, claims)
  /\ UsedOnce(issued, claims)

\* An answer is accepted by the tab whose record waits for it, in time, and the record goes.
ByOwner ==
  \A r \in ReqId : claims'[r] # claims[r] =>
    /\ r \in 1..Len(issued)
    /\ LET t == issued[r].tab
           pending == IF issued[r].kind = "sign" THEN signPending
                                                 ELSE connPending
       IN pending[t] = r /\ pending'[t] # r
    /\ Age(r) <= (IF issued[r].kind = "sign" THEN SignTtl ELSE ConnectTtl)
    /\ Age(r) >= -MaxSkew

\* Only the tab that issued a request accepts its answer, while its session
\* record is there, has not expired and was not made later than the clock that
\* was set back allows, and accepting removes the record
\* ("only the tab owning the exact pending request may consume it",
\* wallet-adapter.ts:524).
ClaimedByOwner == [][ByOwner]_vars

\* A signature the adapter hands out is the wallet's signature for the very
\* request it is labelled with, whatever was overwritten, replayed or
\* forwarded since it was issued.
SignatureOfRequest ==
  \A t \in Tab : signResult[t] # NoResult =>
    /\ signResult[t].label = signResult[t].signed
    /\ issued[signResult[t].label].kind = "sign"
    /\ issued[signResult[t].label].tab = t

\* The four fields every path to and from a connection assigns stay in step:
\* a connected adapter has a key, its signer signs for that key, and it signs
\* through the provider in embedded mode and by deep link in the others.
SignerAgrees ==
  \A t \in Tab : LET a == adapter[t] IN
    /\ a.state = "connected" => a.publicKey # NoKey
    /\ a.signerKey = a.publicKey
    /\ (a.signer = "none") <=> (a.publicKey = NoKey)
    /\ (a.mode = "none") <=> (a.publicKey = NoKey)
    /\ (a.mode = "embedded") <=> (a.signer = "wallet")

\* With one tab, the connection an adapter shows is the one a reload restores:
\* whoever connected it, the shared record names its key.
ReloadKeepsConnection ==
  \A t \in Tab : Tab = {t} =>
    (adapter[t].publicKey # NoKey => store.publicKey = adapter[t].publicKey)

\* The adapter is of one mind, and of one with its record: its fields agree with one another
\* after any interleaving of connects, provider events and reloads (wallet-adapter.ts:386, 627).
EmbeddedSound == SignerAgrees /\ ReloadKeepsConnection

=============================================================================
