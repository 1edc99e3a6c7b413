---------------------------- MODULE FeeTokenCache ----------------------------
(***************************************************************************)
(* The cache of authorized fee tokens in KalvoraQueryClient                *)
(* (query/api-client.ts, getAuthorizedFeeTokens), beside the caches of     *)
(* RateCaches: one entry per client object, stamped with the time its      *)
(* request began, and overwritten by whichever answer arrives last.        *)
(* A list of tokens is abstracted to the moment the node read it.  One     *)
(* process uses the handlers or a client; the two share nothing.           *)
(***************************************************************************)
EXTENDS RateCaches

CONSTANT FeeTtl  \* AUTHORIZED_FEE_TTL_MS

ASSUME FeeTtlConstant == FeeTtl \in Nat \ {0}

VARIABLES
  client,    \* does the process use a query client?
  feeCache,  \* authorizedFeeCache
  feePc,     \* where each call of getAuthorizedFeeTokens is
  began,     \* its local `now`
  readAt     \* when its answer was read by the node

feeVars == <<feeCache, feePc, began, readAt>>
cacheVars == <<vars, client, feeVars>>

FeeGoto(c, label) == feePc' = [feePc EXCEPT ![c] = label]

\* A fresh entry answers at once.
AskFeeTokens(c) ==
  /\ feePc[c] \in {"idle", "done", "failed"}
  /\ began' = [began EXCEPT ![c] = now]
  /\ \/ /\ feeCache.full /\ now - feeCache.since < FeeTtl
        /\ readAt' = [readAt EXCEPT ![c] = feeCache.data]
        /\ FeeGoto(c, "done")
     \/ /\ feeCache.full => now - feeCache.since >= FeeTtl
        /\ FeeGoto(c, "asked")
        /\ UNCHANGED readAt
  /\ UNCHANGED <<vars, client, feeCache>>

\* The node reads the list.
ReadFeeTokens(c) ==
  /\ feePc[c] = "asked"
  /\ readAt' = [readAt EXCEPT ![c] = now]
  /\ FeeGoto(c, "answered")
  /\ UNCHANGED <<vars, client, feeCache, began>>

\* Mutant: the entry is stamped when it is stored.
StampLate(c) == now

\* The stamp of an entry: Date.now() before the request.
Stamp(c) == began[c]

\* The answer arrives, whatever arrived since the request.
ReceiveFeeTokens(c) ==
  /\ feePc[c] = "answered"
  /\ feeCache' = [full |-> TRUE, data |-> readAt[c], since |-> Stamp(c)]
  /\ FeeGoto(c, "done")
  /\ UNCHANGED <<vars, client, began, readAt>>

\* The request fails, or an answer is malformed: nothing is stored.
FailFeeTokens(c) ==
  /\ feePc[c] \in {"asked", "answered"}
  /\ FeeGoto(c, "failed")
  /\ UNCHANGED <<vars, client, feeCache, began, readAt>>

\* A list is used when it is returned; no answer is later than Latency.
FeeTick ==
  /\ now < MaxTime
  /\ \A c \in Call :
       feePc[c] = "answered" => now - readAt[c] < Latency
  /\ now' = now + 1
  /\ feePc' = [c \in Call |-> IF feePc[c] = "done" THEN "idle" ELSE feePc[c]]
  /\ UNCHANGED <<tokens, rates, callVars, client, feeCache, began, readAt>>

CacheInit ==
  /\ Init
  /\ client \in BOOLEAN
  /\ feeCache = Empty
  /\ feePc = [c \in Call |-> "idle"]
  /\ began = [c \in Call |-> 0]
  /\ readAt = [c \in Call |-> 0]

Handlers == ~client /\ Next /\ UNCHANGED <<client, feeVars>>

QueryClient ==
  /\ client
  /\ \/ FeeTick
     \/ \E c \in Call :
          AskFeeTokens(c) \/ ReadFeeTokens(c) \/ ReceiveFeeTokens(c) \/ FailFeeTokens(c)

CacheNext == Handlers \/ QueryClient

CacheSpec == CacheInit /\ [][CacheNext]_cacheVars

-----------------------------------------------------------------------------
(* Properties *)

\* A list that is handed out is younger than the time to live, or comes with
\* the call's own request: an older answer that overwrites a newer one brings
\* its older stamp along (api-client.ts:550, 561).
FeeTokensAge ==
  \A c \in Call : feePc[c] = "done" =>
    /\ readAt[c] <= now
    /\ now - readAt[c] < FeeTtl \/ now - readAt[c] <= Latency
=============================================================================
